---------------------- MODULE ChannelOwnershipProofs ----------------------
(***************************************************************************)
(* Theorems about ChannelOwnership for any workers, greenlets, operations  *)
(* and faults, serial or not: its types, that what a worker has of the     *)
(* channel stays together, and that the lease changes hands only through   *)
(* "no owner".  The first two are inductive together; the third is a fact  *)
(* about every step.                                                       *)
(*   And theorems for one start, leave or failure report at a time, when   *)
(* no timer overtakes what it guards: whatever fails or crashes meanwhile, *)
(* at most one worker is connected to the provider, the owner, and nothing *)
(* is left of a channel that was stopped.  A stop by a user on another     *)
(* worker is left out of these: it deletes the lease by which the owner    *)
(* recognizes the event.                                                   *)
(***************************************************************************)
EXTENDS ChannelOwnership, FiniteSetTheorems, TLAPS

\* TypeOK by parts: Redis, the workers, the greenlets.
RedisTyped ==
    /\ owner \in Worker \cup {None}
    /\ metadata \in [exists : BOOLEAN, state : State \cup {None}, owner : Worker \cup {None}]
    /\ stopping \in BOOLEAN
    /\ clients \in SUBSET Worker

WorkersTyped ==
    /\ heartbeat \in SUBSET Worker
    /\ alive \in SUBSET Worker
    /\ stray \in SUBSET Worker
    /\ ending \in SUBSET Worker
    /\ buffer \in SUBSET Worker
    /\ viewers \in SUBSET Worker
    /\ manager \in [Worker -> {"none", "running", "ended"}]
    /\ mail \in [Worker -> SUBSET Event]

FramesTyped == frame \in [Greenlet -> Frame]

\* The three parts are TypeOK.
LEMMA TypeParts == TypeOK <=> RedisTyped /\ WorkersTyped /\ FramesTyped
BY DEF TypeOK, RedisTyped, WorkersTyped, FramesTyped

\* And they are TypeOK after a step.
LEMMA TypePartsNext ==
    ASSUME RedisTyped', WorkersTyped', FramesTyped'
    PROVE  TypeOK'
BY DEF TypeOK, RedisTyped, WorkersTyped, FramesTyped

\* A greenlet at rest has typed locals.
LEMMA RestTyped == Rest \in Frame
BY DEF Rest, Frame, Label

\* Setting the locals a call uses keeps them typed.
LEMMA SeenTyped ==
    ASSUME NEW f \in Frame, NEW w \in Worker \cup {None}
    PROVE  [f EXCEPT !.seen = w] \in Frame
BY DEF Frame

\* The same for the labels a call returns to.
LEMMA ThenTyped ==
    ASSUME NEW f \in Frame, NEW l \in Label
    PROVE  [f EXCEPT !.then = l] \in Frame /\ [f EXCEPT !.then = l].then \in Label
BY DEF Frame

\* The same for the labels a call returns to.
LEMMA ThenElseTyped ==
    ASSUME NEW f \in Frame, NEW l \in Label, NEW m \in Label
    PROVE  /\ [f EXCEPT !.then = l, !.else = m] \in Frame
           /\ [f EXCEPT !.then = l, !.else = m].then \in Label
           /\ [f EXCEPT !.then = l, !.else = m].else \in Label
BY DEF Frame

\* The same for the labels a call returns to.
LEMMA ReturnTyped ==
    ASSUME NEW f \in Frame, NEW l \in Label, NEW m \in Label, NEW n \in Label
    PROVE  [f EXCEPT !.then = l, !.else = m, !.ret = n] \in Frame
BY DEF Frame

\* The locals of one greenlet.
LEMMA FieldsTyped ==
    ASSUME NEW g \in Greenlet, FramesTyped
    PROVE  /\ frame[g] \in Frame
           /\ frame[g].then \in Label
           /\ frame[g].else \in Label
           /\ frame[g].ret \in Label
BY DEF FramesTyped, Frame

\* A move to a label with typed locals, or with the ones it has.
LEMMA GoTyped ==
    ASSUME NEW g \in Greenlet, NEW f \in Frame, NEW l \in Label, FramesTyped, Go(g, f, l)
    PROVE  FramesTyped'
BY DEF FramesTyped, Go, Frame, Rest, Label

\* A move that keeps the locals.
LEMMA GotoTyped ==
    ASSUME NEW g \in Greenlet, NEW l \in Label, FramesTyped, Goto(g, l)
    PROVE  FramesTyped'
BY GoTyped DEF FramesTyped, Goto

-----------------------------------------------------------------------------
(* The locals: actions that compute where to go, then all of them.         *)

\* StartWatch keeps the locals typed.
LEMMA StartWatchFrames ==
    ASSUME NEW g \in Greenlet, TypeOK, StartWatch(g)
    PROVE  FramesTyped'
<1> DEFINE check(e) == [Rest EXCEPT !.then = "join", !.else = e, !.ret = "init"]
<1>1. check("init") \in Frame /\ check("svc_exists") \in Frame
  <2>1. "join" \in Label /\ "init" \in Label /\ "svc_exists" \in Label
    BY DEF Label
  <2> QED
    BY <2>1, RestTyped, ReturnTyped
<1>2. "init" \in Label /\ "exists" \in Label /\ "svc_exists" \in Label
  BY DEF Label
<1>3. \/ Go(g, check("init"), "exists")
      \/ Go(g, check("svc_exists"), "exists")
      \/ Go(g, check("svc_exists"), "svc_exists")
      \/ Goto(g, "init")
  BY DEF StartWatch
<1> HIDE DEF check
<1> QED
  BY <1>1, <1>2, <1>3, GoTyped, GotoTyped, TypeParts

\* CheckExists keeps the locals typed.
LEMMA CheckExistsFrames ==
    ASSUME NEW g \in Greenlet, TypeOK, CheckExists(g)
    PROVE  FramesTyped'
<1> DEFINE f == IF At(g, "exists") THEN frame[g]
               ELSE [frame[g] EXCEPT !.then = "svc_state", !.else = frame[g].ret]
<1>1. f \in Frame /\ f.then \in Label /\ f.else \in Label
  <2>1. CASE At(g, "exists")
    BY <2>1, FieldsTyped, TypeParts
  <2>2. CASE ~At(g, "exists")
    <3>1. "svc_state" \in Label /\ frame[g] \in Frame /\ frame[g].ret \in Label
      BY FieldsTyped, TypeParts DEF Label
    <3> DEFINE h == [frame[g] EXCEPT !.then = "svc_state", !.else = frame[g].ret]
    <3>2. h \in Frame /\ h.then \in Label /\ h.else \in Label
      BY <3>1, ThenElseTyped
    <3>3. f = h
      BY <2>2
    <3> HIDE DEF f, h
    <3> QED
      BY <3>1, <3>2, <3>3
  <2> QED
    BY <2>1, <2>2
<1>2. [f EXCEPT !.seen = metadata.owner] \in Frame
  <2>1. metadata.owner \in Worker \cup {None}
    BY TypeParts DEF RedisTyped
  <2> HIDE DEF f
  <2> QED
    BY <1>1, <2>1, SeenTyped
<1>3. "exists_hb" \in Label /\ "clean" \in Label
  BY DEF Label
<1>4. \/ Go(g, f, f.then)
      \/ Go(g, [f EXCEPT !.seen = metadata.owner], "exists_hb")
      \/ Go(g, f, f.else)
      \/ Go(g, f, "clean")
  BY DEF CheckExists
<1> HIDE DEF f
<1> QED
  BY <1>1, <1>2, <1>3, <1>4, GoTyped, TypeParts

\* CheckHeartbeat keeps the locals typed.
LEMMA CheckHeartbeatFrames ==
    ASSUME NEW g \in Greenlet, TypeOK, CheckHeartbeat(g)
    PROVE  FramesTyped'
<1>1. frame[g].then \in Label /\ "clean" \in Label
  BY FieldsTyped, TypeParts DEF Label
<1>2. Goto(g, frame[g].then) \/ Goto(g, "clean")
  BY DEF CheckHeartbeat
<1> QED
  BY <1>1, <1>2, GotoTyped, TypeParts

\* InitRead keeps the locals typed.
LEMMA InitReadFrames ==
    ASSUME NEW g \in Greenlet, TypeOK, InitRead(g)
    PROVE  FramesTyped'
<1> DEFINE l == IF At(g, "init_read") THEN "profile" ELSE "add"
           f == [Rest EXCEPT !.then = l]
<1>1. l \in Label /\ "mark" \in Label
  BY DEF Label
<1>2. f \in Frame /\ f.then \in Label
  <2> HIDE DEF l
  <2> QED
    BY <1>1, RestTyped, ThenTyped
<1>3. Go(g, f, f.then) \/ Go(g, f, "mark")
  BY DEF InitRead
<1> HIDE DEF f
<1> QED
  BY <1>1, <1>2, <1>3, GoTyped, TypeParts

\* InitRaises keeps the locals typed.
LEMMA InitRaisesFrames ==
    ASSUME NEW g \in Greenlet, TypeOK, InitRaises(g)
    PROVE  FramesTyped'
<1>1. [Rest EXCEPT !.then = "idle"] \in Frame /\ "rl_get" \in Label
  BY RestTyped, ThenTyped DEF Label
<1>2. Go(g, [Rest EXCEPT !.then = "idle"], "rl_get")
  BY DEF InitRaises
<1> QED
  BY <1>1, <1>2, GoTyped, TypeParts

\* InitConfirm keeps the locals typed.
LEMMA InitConfirmFrames ==
    ASSUME NEW g \in Greenlet, TypeOK, InitConfirm(g)
    PROVE  FramesTyped'
<1>1. frame[g].then \in Label /\ "connecting" \in Label
  BY FieldsTyped, TypeParts DEF Label
<1>2. Goto(g, frame[g].then) \/ Goto(g, "connecting")
  BY DEF InitConfirm
<1> QED
  BY <1>1, <1>2, GotoTyped, TypeParts

\* StopOwned keeps the locals typed.
LEMMA StopOwnedFrames ==
    ASSUME NEW g \in Greenlet, TypeOK, StopOwned(g)
    PROVE  FramesTyped'
<1> DEFINE f == [frame[g] EXCEPT !.then = "st_local"]
<1>1. f \in Frame /\ "rl_get" \in Label
  BY FieldsTyped, ThenTyped, TypeParts DEF Label
<1>2. Go(g, f, "rl_get")
  BY DEF StopOwned
<1> HIDE DEF f
<1> QED
  BY <1>1, <1>2, GoTyped, TypeParts

\* ReleaseTest keeps the locals typed.
LEMMA ReleaseTestFrames ==
    ASSUME NEW g \in Greenlet, TypeOK, ReleaseTest(g)
    PROVE  FramesTyped'
<1>1. frame[g].then \in Label /\ "rl_del" \in Label
  BY FieldsTyped, TypeParts DEF Label
<1>2. Goto(g, frame[g].then) \/ Goto(g, "rl_del")
  BY DEF ReleaseTest
<1> QED
  BY <1>1, <1>2, GotoTyped, TypeParts

\* StartOrphans keeps the locals typed.
LEMMA StartOrphansFrames ==
    ASSUME NEW g \in Greenlet, TypeOK, StartOrphans(g)
    PROVE  FramesTyped'
<1>1. [Rest EXCEPT !.seen = metadata.owner] \in Frame /\ "or_check" \in Label
  <2>1. metadata.owner \in Worker \cup {None}
    BY TypeParts DEF RedisTyped
  <2> QED
    BY <2>1, RestTyped, SeenTyped DEF Label
<1>2. Go(g, [Rest EXCEPT !.seen = metadata.owner], "or_check")
  BY DEF StartOrphans
<1> QED
  BY <1>1, <1>2, GoTyped, TypeParts

\* ReadOwner keeps the locals typed.
LEMMA ReadOwnerFrames ==
    ASSUME NEW g \in Greenlet, TypeOK, ReadOwner(g)
    PROVE  FramesTyped'
<1>1. "th_error" \in Label /\ "th_state" \in Label
  BY DEF Label
<1>2. Goto(g, "th_error") \/ Goto(g, "th_state") \/ UNCHANGED frame
  BY DEF ReadOwner
<1>3. CASE UNCHANGED frame
  BY <1>3, TypeParts DEF FramesTyped
<1> QED
  BY <1>1, <1>2, <1>3, GotoTyped, TypeParts

\* Every step keeps the locals typed.
LEMMA FramesStep ==
    ASSUME OwnershipAssumption, NEW g \in Greenlet, TypeOK, Step(g)
    PROVE  FramesTyped'
<1>1. CASE StartWatch(g)
  BY <1>1, StartWatchFrames
<1>2. CASE CheckExists(g)
  BY <1>2, CheckExistsFrames
<1>3. CASE CheckHeartbeat(g)
  BY <1>3, CheckHeartbeatFrames
<1>4. CASE CleanZombie(g)
  BY <1>4, TypeParts, GotoTyped, FieldsTyped DEF CleanZombie, Label
<1>5. CASE NoStream(g)
  BY <1>5, TypeParts, GotoTyped DEF NoStream, Label
<1>6. CASE PresetStreamId(g)
  BY <1>6, TypeParts, GotoTyped DEF PresetStreamId, Label
<1>7. CASE InitRead(g)
  BY <1>7, InitReadFrames
<1>8. CASE InitMark(g)
  BY <1>8, TypeParts, GotoTyped DEF InitMark, Label
<1>9. CASE InitOwner(g)
  BY <1>9, TypeParts, GotoTyped, FieldsTyped DEF InitOwner, Label
<1>10. CASE InitAcquire(g)
  BY <1>10, TypeParts, GotoTyped DEF InitAcquire, Label
<1>11. CASE InitRecord(g)
  BY <1>11, TypeParts, GotoTyped DEF InitRecord, Label
<1>12. CASE InitCreate(g)
  BY <1>12, TypeParts, GotoTyped DEF InitCreate, Label
<1>13. CASE InitRaises(g)
  BY <1>13, InitRaisesFrames
<1>14. CASE InitConfirm(g)
  BY <1>14, InitConfirmFrames
<1>15. CASE InitConnecting(g)
  BY <1>15, TypeParts, GotoTyped, FieldsTyped DEF InitConnecting, Label
<1>16. CASE StoreProfile(g)
  BY <1>16, TypeParts, GotoTyped DEF StoreProfile, Label
<1>17. CASE WaitConnected(g)
  BY <1>17, TypeParts, GotoTyped, GoTyped, RestTyped DEF WaitConnected, Label
<1>18. CASE Join(g)
  BY <1>18, TypeParts, GotoTyped DEF Join, Label
<1>19. CASE StartLeave(g)
  BY <1>19, TypeParts, GotoTyped DEF StartLeave, Label
<1>20. CASE TellOwner(g)
  BY <1>20, TypeParts, GotoTyped DEF TellOwner, Label
<1>21. CASE CheckDisconnect(g)
  BY <1>21, TypeParts, GotoTyped, GoTyped, RestTyped DEF CheckDisconnect, Label
<1>22. CASE StartStop(g)
  BY <1>22, TypeParts, GotoTyped DEF StartStop, Label
<1>23. CASE ReadState(g)
  BY <1>23, TypeParts, GotoTyped DEF ReadState, Label
<1>24. CASE MarkStopping(g)
  BY <1>24, TypeParts, GotoTyped DEF MarkStopping, Label
<1>25. CASE SetStopping(g, "svc_flag", "svc_publish")
  BY <1>25, TypeParts, GotoTyped DEF SetStopping, Label
<1>26. CASE PublishStop(g)
  BY <1>26, TypeParts, GotoTyped DEF PublishStop, Label
<1>27. CASE SetStopping(g, "st_flag", "st_owner")
  BY <1>27, TypeParts, GotoTyped DEF SetStopping, Label
<1>28. CASE StopOwned(g)
  BY <1>28, StopOwnedFrames
<1>29. CASE StopOther(g)
  BY <1>29, TypeParts, GotoTyped DEF StopOther, Label
<1>30. CASE ReleaseTest(g)
  BY <1>30, ReleaseTestFrames
<1>31. CASE ReleaseDelete(g)
  BY <1>31, TypeParts, GotoTyped DEF ReleaseDelete, Label
<1>32. CASE SetStopping(g, "rl_flag", frame[g].then)
  BY <1>32, TypeParts, GotoTyped, FieldsTyped DEF SetStopping, Label
<1>33. CASE StopLocal(g)
  BY <1>33, TypeParts, GotoTyped DEF StopLocal, Label
<1>34. CASE StopClean(g)
  BY <1>34, TypeParts, GotoTyped, FieldsTyped DEF StopClean, Label
<1>35. CASE Receive(g, "stop")
  BY <1>35, TypeParts, GotoTyped DEF Receive, FramesTyped, Label
<1>36. CASE Receive(g, "left")
  BY <1>36, TypeParts, GotoTyped DEF Receive, FramesTyped, Label
<1>37. CASE ReceivedStop(g)
  BY <1>37, TypeParts, GotoTyped, GoTyped, RestTyped DEF ReceivedStop, Label
<1>38. CASE StartCycle(g)
  BY <1>38, TypeParts, GotoTyped DEF StartCycle, Label
<1>39. CASE RefreshRegistry(g)
  BY <1>39, TypeParts, GotoTyped DEF RefreshRegistry, Label
<1>40. CASE TestOwner(g)
  BY <1>40, TypeParts, GotoTyped DEF TestOwner, Label
<1>41. CASE ExtendOwned(g)
  BY <1>41, TypeParts, GotoTyped DEF ExtendOwned, Label
<1>42. CASE ExtendLost(g)
  BY <1>42, TypeParts, GotoTyped DEF ExtendLost, Label
<1>43. CASE Renew(g)
  BY <1>43, TypeParts, GotoTyped DEF Renew, Label
<1>44. CASE OwnedTimers(g)
  BY <1>44, TypeParts, GotoTyped, GoTyped, RestTyped DEF OwnedTimers, Label
<1>45. CASE Activate(g)
  BY <1>45, TypeParts, GotoTyped DEF Activate, Label
<1>46. CASE CleanNotOwned(g)
  BY <1>46, TypeParts, GotoTyped DEF CleanNotOwned, Label
<1>47. CASE StartOrphans(g)
  BY <1>47, StartOrphansFrames
<1>48. CASE CheckOrphan(g)
  BY <1>48, TypeParts, GotoTyped, GoTyped, RestTyped, FieldsTyped DEF CheckOrphan, Label
<1>49. CASE SetWaiting(g)
  BY <1>49, TypeParts DEF SetWaiting, FramesTyped
<1>50. CASE CountBytes(g)
  BY <1>50, TypeParts DEF CountBytes, FramesTyped
<1>51. CASE ReportSpeed(g)
  BY <1>51, TypeParts DEF ReportSpeed, FramesTyped
<1>52. CASE RunEnds(g)
  BY <1>52, TypeParts DEF RunEnds, FramesTyped
<1>53. CASE ReadOwner(g)
  BY <1>53, ReadOwnerFrames
<1>54. CASE ReadPreActive(g)
  BY <1>54, TypeParts, GotoTyped DEF ReadPreActive, Label
<1>55. CASE WriteError(g)
  BY <1>55, TypeParts, GotoTyped DEF WriteError, Label
<1>56. CASE SetStopping(g, "th_flag", "idle")
  BY <1>56, TypeParts, GotoTyped DEF SetStopping, Label
<1> QED
  BY <1>1, <1>2, <1>3, <1>4, <1>5, <1>6, <1>7, <1>8, <1>9, <1>10, <1>11, <1>12, <1>13,
     <1>14, <1>15, <1>16, <1>17, <1>18, <1>19, <1>20, <1>21, <1>22, <1>23, <1>24, <1>25,
     <1>26, <1>27, <1>28, <1>29, <1>30, <1>31, <1>32, <1>33, <1>34, <1>35, <1>36, <1>37,
     <1>38, <1>39, <1>40, <1>41, <1>42, <1>43, <1>44, <1>45, <1>46, <1>47, <1>48, <1>49,
     <1>50, <1>51, <1>52, <1>53, <1>54, <1>55, <1>56
     DEF Step, Watch, Initialize, Leave, StopChannel, ReleaseOwnership, Stop, Listen, Cycle, Orphans, Thread

-----------------------------------------------------------------------------
(* Redis and the workers.                                                  *)

\* Every step keeps the keys typed.
LEMMA RedisStep ==
    ASSUME OwnershipAssumption, NEW g \in Greenlet, TypeOK, Step(g)
    PROVE  RedisTyped'
<1>1. CASE StartWatch(g)
  BY <1>1, TypeParts DEF StartWatch, RedisTyped, redis
<1>2. CASE CheckExists(g)
  BY <1>2, TypeParts DEF CheckExists, RedisTyped, redis
<1>3. CASE CheckHeartbeat(g)
  BY <1>3, TypeParts DEF CheckHeartbeat, RedisTyped, redis
<1>4. CASE CleanZombie(g)
  BY <1>4, TypeParts DEF CleanZombie, RedisTyped, DeleteKeys, NoHash, State, OwnershipAssumption
<1>5. CASE NoStream(g)
  BY <1>5, TypeParts DEF NoStream, RedisTyped, redis
<1>6. CASE PresetStreamId(g)
  BY <1>6, TypeParts DEF PresetStreamId, RedisTyped, State, OwnershipAssumption
<1>7. CASE InitRead(g)
  BY <1>7, TypeParts DEF InitRead, RedisTyped, redis
<1>8. CASE InitMark(g)
  BY <1>8, TypeParts DEF InitMark, RedisTyped, HashOwned, State, OwnershipAssumption
<1>9. CASE InitOwner(g)
  BY <1>9, TypeParts DEF InitOwner, RedisTyped, redis
<1>10. CASE InitAcquire(g)
  BY <1>10, TypeParts DEF InitAcquire, RedisTyped, OwnershipAssumption
<1>11. CASE InitRecord(g)
  BY <1>11, TypeParts DEF InitRecord, RedisTyped, HashOwned, State, OwnershipAssumption
<1>12. CASE InitCreate(g)
  BY <1>12, TypeParts DEF InitCreate, RedisTyped, redis
<1>13. CASE InitRaises(g)
  BY <1>13, TypeParts DEF InitRaises, RedisTyped, redis
<1>14. CASE InitConfirm(g)
  BY <1>14, TypeParts DEF InitConfirm, RedisTyped, redis
<1>15. CASE InitConnecting(g)
  <2>1. CASE metadata' = HashOwned("pre", Home[g])
    BY <1>15, <2>1, TypeParts DEF InitConnecting, RedisTyped, HashOwned, State, OwnershipAssumption
  <2>2. CASE UNCHANGED metadata
    BY <1>15, <2>2, TypeParts DEF InitConnecting, RedisTyped
  <2> QED
    BY <1>15, <2>1, <2>2 DEF InitConnecting
<1>16. CASE StoreProfile(g)
  BY <1>16, TypeParts DEF StoreProfile, RedisTyped, State, OwnershipAssumption
<1>17. CASE WaitConnected(g)
  BY <1>17, TypeParts DEF WaitConnected, RedisTyped, redis
<1>18. CASE Join(g)
  BY <1>18, TypeParts DEF Join, RedisTyped, OwnershipAssumption
<1>19. CASE StartLeave(g)
  BY <1>19, TypeParts DEF StartLeave, RedisTyped, OwnershipAssumption
<1>20. CASE TellOwner(g)
  BY <1>20, TypeParts DEF TellOwner, RedisTyped, redis
<1>21. CASE CheckDisconnect(g)
  BY <1>21, TypeParts DEF CheckDisconnect, RedisTyped, redis
<1>22. CASE StartStop(g)
  BY <1>22, TypeParts DEF StartStop, RedisTyped, redis
<1>23. CASE ReadState(g)
  BY <1>23, TypeParts DEF ReadState, RedisTyped, redis
<1>24. CASE MarkStopping(g)
  BY <1>24, TypeParts DEF MarkStopping, RedisTyped, HashState, State, OwnershipAssumption
<1>25. CASE SetStopping(g, "svc_flag", "svc_publish")
  BY <1>25, TypeParts DEF SetStopping, RedisTyped, OwnershipAssumption
<1>26. CASE PublishStop(g)
  BY <1>26, TypeParts DEF PublishStop, RedisTyped, redis
<1>27. CASE SetStopping(g, "st_flag", "st_owner")
  BY <1>27, TypeParts DEF SetStopping, RedisTyped, OwnershipAssumption
<1>28. CASE StopOwned(g)
  BY <1>28, TypeParts DEF StopOwned, RedisTyped, redis
<1>29. CASE StopOther(g)
  BY <1>29, TypeParts DEF StopOther, RedisTyped, redis
<1>30. CASE ReleaseTest(g)
  BY <1>30, TypeParts DEF ReleaseTest, RedisTyped, redis
<1>31. CASE ReleaseDelete(g)
  BY <1>31, TypeParts DEF ReleaseDelete, RedisTyped, OwnershipAssumption
<1>32. CASE SetStopping(g, "rl_flag", frame[g].then)
  BY <1>32, TypeParts DEF SetStopping, RedisTyped, OwnershipAssumption
<1>33. CASE StopLocal(g)
  BY <1>33, TypeParts DEF StopLocal, RedisTyped, redis
<1>34. CASE StopClean(g)
  BY <1>34, TypeParts DEF StopClean, RedisTyped, DeleteKeys, NoHash, State, OwnershipAssumption
<1>35. CASE Receive(g, "stop")
  BY <1>35, TypeParts DEF Receive, RedisTyped, redis
<1>36. CASE Receive(g, "left")
  BY <1>36, TypeParts DEF Receive, RedisTyped, redis
<1>37. CASE ReceivedStop(g)
  BY <1>37, TypeParts DEF ReceivedStop, RedisTyped, HashState, State, OwnershipAssumption
<1>38. CASE StartCycle(g)
  BY <1>38, TypeParts DEF StartCycle, RedisTyped, redis
<1>39. CASE RefreshRegistry(g)
  BY <1>39, TypeParts DEF RefreshRegistry, RedisTyped, State, OwnershipAssumption
<1>40. CASE TestOwner(g)
  BY <1>40, TypeParts DEF TestOwner, RedisTyped, redis
<1>41. CASE ExtendOwned(g)
  BY <1>41, TypeParts DEF ExtendOwned, RedisTyped, redis
<1>42. CASE ExtendLost(g)
  BY <1>42, TypeParts DEF ExtendLost, RedisTyped, redis
<1>43. CASE Renew(g)
  BY <1>43, TypeParts DEF Renew, RedisTyped, OwnershipAssumption
<1>44. CASE OwnedTimers(g)
  BY <1>44, TypeParts DEF OwnedTimers, RedisTyped, redis
<1>45. CASE Activate(g)
  BY <1>45, TypeParts DEF Activate, RedisTyped, HashState, State, OwnershipAssumption
<1>46. CASE CleanNotOwned(g)
  BY <1>46, TypeParts DEF CleanNotOwned, RedisTyped, redis
<1>47. CASE StartOrphans(g)
  BY <1>47, TypeParts DEF StartOrphans, RedisTyped, redis
<1>48. CASE CheckOrphan(g)
  BY <1>48, TypeParts DEF CheckOrphan, RedisTyped, redis
<1>49. CASE SetWaiting(g)
  BY <1>49, TypeParts DEF SetWaiting, RedisTyped, HashState, State, OwnershipAssumption
<1>50. CASE CountBytes(g)
  BY <1>50, TypeParts DEF CountBytes, RedisTyped, State, OwnershipAssumption
<1>51. CASE ReportSpeed(g)
  BY <1>51, TypeParts DEF ReportSpeed, RedisTyped, HashState, State, OwnershipAssumption
<1>52. CASE RunEnds(g)
  BY <1>52, TypeParts DEF RunEnds, RedisTyped, redis
<1>53. CASE ReadOwner(g)
  BY <1>53, TypeParts DEF ReadOwner, RedisTyped, redis
<1>54. CASE ReadPreActive(g)
  BY <1>54, TypeParts DEF ReadPreActive, RedisTyped, redis
<1>55. CASE WriteError(g)
  BY <1>55, TypeParts DEF WriteError, RedisTyped, HashState, State, OwnershipAssumption
<1>56. CASE SetStopping(g, "th_flag", "idle")
  BY <1>56, TypeParts DEF SetStopping, RedisTyped, OwnershipAssumption
<1> QED
  BY <1>1, <1>2, <1>3, <1>4, <1>5, <1>6, <1>7, <1>8, <1>9, <1>10, <1>11, <1>12, <1>13,
     <1>14, <1>15, <1>16, <1>17, <1>18, <1>19, <1>20, <1>21, <1>22, <1>23, <1>24, <1>25,
     <1>26, <1>27, <1>28, <1>29, <1>30, <1>31, <1>32, <1>33, <1>34, <1>35, <1>36, <1>37,
     <1>38, <1>39, <1>40, <1>41, <1>42, <1>43, <1>44, <1>45, <1>46, <1>47, <1>48, <1>49,
     <1>50, <1>51, <1>52, <1>53, <1>54, <1>55, <1>56
     DEF Step, Watch, Initialize, Leave, StopChannel, ReleaseOwnership, Stop, Listen, Cycle, Orphans, Thread

\* Every step keeps what the workers have typed.
LEMMA WorkersStep ==
    ASSUME OwnershipAssumption, NEW g \in Greenlet, TypeOK, Step(g)
    PROVE  WorkersTyped'
<1>1. CASE StartWatch(g)
  BY <1>1, TypeParts DEF StartWatch, WorkersTyped, local, world, OwnershipAssumption
<1>2. CASE CheckExists(g)
  BY <1>2, TypeParts DEF CheckExists, WorkersTyped, local, world, OwnershipAssumption
<1>3. CASE CheckHeartbeat(g)
  BY <1>3, TypeParts DEF CheckHeartbeat, WorkersTyped, local, world
<1>4. CASE CleanZombie(g)
  BY <1>4, TypeParts DEF CleanZombie, WorkersTyped, local, world
<1>5. CASE NoStream(g)
  BY <1>5, TypeParts DEF NoStream, WorkersTyped, local, world
<1>6. CASE PresetStreamId(g)
  BY <1>6, TypeParts DEF PresetStreamId, WorkersTyped, local, world
<1>7. CASE InitRead(g)
  BY <1>7, TypeParts DEF InitRead, WorkersTyped, world, OwnershipAssumption
<1>8. CASE InitMark(g)
  BY <1>8, TypeParts DEF InitMark, WorkersTyped, local, world, OwnershipAssumption
<1>9. CASE InitOwner(g)
  BY <1>9, TypeParts DEF InitOwner, WorkersTyped, world, OwnershipAssumption
<1>10. CASE InitAcquire(g)
  BY <1>10, TypeParts DEF InitAcquire, WorkersTyped, local, world, OwnershipAssumption
<1>11. CASE InitRecord(g)
  BY <1>11, TypeParts DEF InitRecord, WorkersTyped, local, world, OwnershipAssumption
<1>12. CASE InitCreate(g)
  BY <1>12, TypeParts DEF InitCreate, WorkersTyped, world, OwnershipAssumption
<1>13. CASE InitRaises(g)
  BY <1>13, TypeParts DEF InitRaises, WorkersTyped, local, world
<1>14. CASE InitConfirm(g)
  BY <1>14, TypeParts DEF InitConfirm, WorkersTyped, local, world, OwnershipAssumption
<1>15. CASE InitConnecting(g)
  BY <1>15, TypeParts DEF InitConnecting, WorkersTyped, local, world, OwnershipAssumption
<1>16. CASE StoreProfile(g)
  BY <1>16, TypeParts DEF StoreProfile, WorkersTyped, local, world
<1>17. CASE WaitConnected(g)
  BY <1>17, TypeParts DEF WaitConnected, WorkersTyped, local, world, OwnershipAssumption
<1>18. CASE Join(g)
  BY <1>18, TypeParts DEF Join, WorkersTyped, world, OwnershipAssumption
<1>19. CASE StartLeave(g)
  BY <1>19, TypeParts DEF StartLeave, WorkersTyped, world, OwnershipAssumption
<1>20. CASE TellOwner(g)
  BY <1>20, TypeParts DEF TellOwner, WorkersTyped, local, world, Publish, Event, OwnershipAssumption
<1>21. CASE CheckDisconnect(g)
  BY <1>21, TypeParts DEF CheckDisconnect, WorkersTyped, local, world, OwnershipAssumption
<1>22. CASE StartStop(g)
  BY <1>22, TypeParts DEF StartStop, WorkersTyped, local, world
<1>23. CASE ReadState(g)
  BY <1>23, TypeParts DEF ReadState, WorkersTyped, local, world
<1>24. CASE MarkStopping(g)
  BY <1>24, TypeParts DEF MarkStopping, WorkersTyped, local, world
<1>25. CASE SetStopping(g, "svc_flag", "svc_publish")
  BY <1>25, TypeParts DEF SetStopping, WorkersTyped, local, world
<1>26. CASE PublishStop(g)
  BY <1>26, TypeParts DEF PublishStop, WorkersTyped, local, world, Publish, Event
<1>27. CASE SetStopping(g, "st_flag", "st_owner")
  BY <1>27, TypeParts DEF SetStopping, WorkersTyped, local, world
<1>28. CASE StopOwned(g)
  BY <1>28, TypeParts DEF StopOwned, WorkersTyped, world, EndThread, OwnershipAssumption
<1>29. CASE StopOther(g)
  BY <1>29, TypeParts DEF StopOther, WorkersTyped, world, Forget, OwnershipAssumption
<1>30. CASE ReleaseTest(g)
  BY <1>30, TypeParts DEF ReleaseTest, WorkersTyped, local, world, OwnershipAssumption
<1>31. CASE ReleaseDelete(g)
  BY <1>31, TypeParts DEF ReleaseDelete, WorkersTyped, local, world
<1>32. CASE SetStopping(g, "rl_flag", frame[g].then)
  BY <1>32, TypeParts DEF SetStopping, WorkersTyped, local, world
<1>33. CASE StopLocal(g)
  BY <1>33, TypeParts DEF StopLocal, WorkersTyped, world, Forget, OwnershipAssumption
<1>34. CASE StopClean(g)
  BY <1>34, TypeParts DEF StopClean, WorkersTyped, local, world
<1>35. CASE Receive(g, "stop")
  BY <1>35, TypeParts DEF Receive, WorkersTyped, local, world, OwnershipAssumption
<1>36. CASE Receive(g, "left")
  BY <1>36, TypeParts DEF Receive, WorkersTyped, local, world, OwnershipAssumption
<1>37. CASE ReceivedStop(g)
  BY <1>37, TypeParts DEF ReceivedStop, WorkersTyped, local, world, OwnershipAssumption
<1>38. CASE StartCycle(g)
  BY <1>38, TypeParts DEF StartCycle, WorkersTyped, local, OwnershipAssumption
<1>39. CASE RefreshRegistry(g)
  BY <1>39, TypeParts DEF RefreshRegistry, WorkersTyped, local, world, OwnershipAssumption
<1>40. CASE TestOwner(g)
  BY <1>40, TypeParts DEF TestOwner, WorkersTyped, local, world, OwnershipAssumption
<1>41. CASE ExtendOwned(g)
  BY <1>41, TypeParts DEF ExtendOwned, WorkersTyped, local, world, OwnershipAssumption
<1>42. CASE ExtendLost(g)
  BY <1>42, TypeParts DEF ExtendLost, WorkersTyped, local, world, OwnershipAssumption
<1>43. CASE Renew(g)
  BY <1>43, TypeParts DEF Renew, WorkersTyped, local, world, OwnershipAssumption
<1>44. CASE OwnedTimers(g)
  BY <1>44, TypeParts DEF OwnedTimers, WorkersTyped, local, world
<1>45. CASE Activate(g)
  BY <1>45, TypeParts DEF Activate, WorkersTyped, local, world
<1>46. CASE CleanNotOwned(g)
  BY <1>46, TypeParts DEF CleanNotOwned, WorkersTyped, local, world, Drop, EndThread, OwnershipAssumption
<1>47. CASE StartOrphans(g)
  BY <1>47, TypeParts DEF StartOrphans, WorkersTyped, local, world
<1>48. CASE CheckOrphan(g)
  BY <1>48, TypeParts DEF CheckOrphan, WorkersTyped, local, world, OwnershipAssumption
<1>49. CASE SetWaiting(g)
  BY <1>49, TypeParts DEF SetWaiting, WorkersTyped, local, world, OwnershipAssumption
<1>50. CASE CountBytes(g)
  BY <1>50, TypeParts DEF CountBytes, WorkersTyped, local, world, OwnershipAssumption
<1>51. CASE ReportSpeed(g)
  BY <1>51, TypeParts DEF ReportSpeed, WorkersTyped, local, world, OwnershipAssumption
<1>52. CASE RunEnds(g)
  BY <1>52, TypeParts DEF RunEnds, WorkersTyped, world, OwnershipAssumption
<1>53. CASE ReadOwner(g)
  BY <1>53, TypeParts DEF ReadOwner, WorkersTyped, world, OwnershipAssumption
<1>54. CASE ReadPreActive(g)
  BY <1>54, TypeParts DEF ReadPreActive, WorkersTyped, local, world
<1>55. CASE WriteError(g)
  BY <1>55, TypeParts DEF WriteError, WorkersTyped, local, world
<1>56. CASE SetStopping(g, "th_flag", "idle")
  BY <1>56, TypeParts DEF SetStopping, WorkersTyped, local, world
<1> QED
  BY <1>1, <1>2, <1>3, <1>4, <1>5, <1>6, <1>7, <1>8, <1>9, <1>10, <1>11, <1>12, <1>13,
     <1>14, <1>15, <1>16, <1>17, <1>18, <1>19, <1>20, <1>21, <1>22, <1>23, <1>24, <1>25,
     <1>26, <1>27, <1>28, <1>29, <1>30, <1>31, <1>32, <1>33, <1>34, <1>35, <1>36, <1>37,
     <1>38, <1>39, <1>40, <1>41, <1>42, <1>43, <1>44, <1>45, <1>46, <1>47, <1>48, <1>49,
     <1>50, <1>51, <1>52, <1>53, <1>54, <1>55, <1>56
     DEF Step, Watch, Initialize, Leave, StopChannel, ReleaseOwnership, Stop, Listen, Cycle, Orphans, Thread

\* So does what happens by itself.
LEMMA EnvironmentTyped ==
    ASSUME OwnershipAssumption, TypeOK, Environment
    PROVE  TypeOK'
<1>1. CASE LeaseExpires
  BY <1>1, TypeParts, TypePartsNext DEF LeaseExpires, RedisTyped, WorkersTyped, FramesTyped, local, world
<1>2. CASE StoppingExpires
  BY <1>2, TypeParts, TypePartsNext DEF StoppingExpires, RedisTyped, WorkersTyped, FramesTyped, local, world
<1>3. CASE MetadataExpires
  BY <1>3, TypeParts, TypePartsNext DEF MetadataExpires, NoHash, RedisTyped, WorkersTyped, FramesTyped, local, world
<1>4. ASSUME NEW w \in Worker, HeartbeatExpires(w)
      PROVE  TypeOK'
  BY <1>4, TypeParts, TypePartsNext DEF HeartbeatExpires, RedisTyped, WorkersTyped, FramesTyped, redis, local
<1>5. ASSUME NEW w \in Worker, ClientExpires(w)
      PROVE  TypeOK'
  BY <1>5, TypeParts, TypePartsNext DEF ClientExpires, RedisTyped, WorkersTyped, FramesTyped, local, world
<1>6. ASSUME NEW w \in Worker, Crash(w)
      PROVE  TypeOK'
  <2>1. RedisTyped'
    BY <1>6, TypeParts DEF Crash, RedisTyped, redis
  <2>2. WorkersTyped'
    BY <1>6, TypeParts DEF Crash, WorkersTyped
  <2>3. FramesTyped'
    BY <1>6, TypeParts, RestTyped DEF Crash, FramesTyped
  <2> QED
    BY <2>1, <2>2, <2>3, TypePartsNext
<1> QED
  BY <1>1, <1>2, <1>3, <1>4, <1>5, <1>6 DEF Environment

-----------------------------------------------------------------------------
\* The keys, the workers' resources and the greenlets keep their types: what each
\* handler of views.py, server.py, channel_service.py and stream_manager.py writes.
THEOREM TypeInvariant == Spec => []TypeOK
<1>1. ASSUME Init
      PROVE  TypeOK
  <2>1. RedisTyped
    BY <1>1 DEF Init, RedisTyped, NoHash
  <2>2. WorkersTyped
    BY <1>1 DEF Init, WorkersTyped
  <2>3. FramesTyped
    BY <1>1, RestTyped DEF Init, FramesTyped
  <2> QED
    BY <2>1, <2>2, <2>3, TypeParts
<1>2. ASSUME TypeOK, [Next]_vars
      PROVE  TypeOK'
  <2>1. ASSUME NEW g \in Greenlet, Step(g)
        PROVE  TypeOK'
    BY <1>2, <2>1, OwnershipAssumption, FramesStep, RedisStep, WorkersStep, TypePartsNext
  <2>2. CASE Environment
    BY <1>2, <2>2, OwnershipAssumption, EnvironmentTyped
  <2>3. CASE UNCHANGED vars
    BY <1>2, <2>3 DEF vars, redis, local, world, TypeOK
  <2> QED
    BY <1>2, <2>1, <2>2, <2>3 DEF Next
<1> QED
  BY <1>1, <1>2, PTL DEF Spec

\* No step of a greenlet takes a buffer away and leaves a manager or viewers.
LEMMA TogetherStep ==
    ASSUME OwnershipAssumption, NEW g \in Greenlet, TypeOK, LocalTogether, Step(g)
    PROVE  LocalTogether'
<1>1. CASE StartWatch(g)
  BY <1>1, TypeParts DEF StartWatch, LocalTogether, WorkersTyped, local, OwnershipAssumption
<1>2. CASE CheckExists(g)
  BY <1>2, TypeParts DEF CheckExists, LocalTogether, WorkersTyped, local, OwnershipAssumption
<1>3. CASE CheckHeartbeat(g)
  BY <1>3, TypeParts DEF CheckHeartbeat, LocalTogether, WorkersTyped, local
<1>4. CASE CleanZombie(g)
  BY <1>4, TypeParts DEF CleanZombie, LocalTogether, WorkersTyped, local
<1>5. CASE NoStream(g)
  BY <1>5, TypeParts DEF NoStream, LocalTogether, WorkersTyped, local
<1>6. CASE PresetStreamId(g)
  BY <1>6, TypeParts DEF PresetStreamId, LocalTogether, WorkersTyped, local
<1>7. CASE InitRead(g)
  BY <1>7, TypeParts DEF InitRead, LocalTogether, WorkersTyped, OwnershipAssumption
<1>8. CASE InitMark(g)
  BY <1>8, TypeParts DEF InitMark, LocalTogether, WorkersTyped, local, OwnershipAssumption
<1>9. CASE InitOwner(g)
  BY <1>9, TypeParts DEF InitOwner, LocalTogether, WorkersTyped, OwnershipAssumption
<1>10. CASE InitAcquire(g)
  BY <1>10, TypeParts DEF InitAcquire, LocalTogether, WorkersTyped, local, OwnershipAssumption
<1>11. CASE InitRecord(g)
  BY <1>11, TypeParts DEF InitRecord, LocalTogether, WorkersTyped, local, OwnershipAssumption
<1>12. CASE InitCreate(g)
  BY <1>12, TypeParts DEF InitCreate, LocalTogether, WorkersTyped, OwnershipAssumption
<1>13. CASE InitRaises(g)
  BY <1>13, TypeParts DEF InitRaises, LocalTogether, WorkersTyped, local
<1>14. CASE InitConfirm(g)
  BY <1>14, TypeParts DEF InitConfirm, LocalTogether, WorkersTyped, local, OwnershipAssumption
<1>15. CASE InitConnecting(g)
  BY <1>15, TypeParts DEF InitConnecting, LocalTogether, WorkersTyped, local, OwnershipAssumption
<1>16. CASE StoreProfile(g)
  BY <1>16, TypeParts DEF StoreProfile, LocalTogether, WorkersTyped, local
<1>17. CASE WaitConnected(g)
  BY <1>17, TypeParts DEF WaitConnected, LocalTogether, WorkersTyped, local, OwnershipAssumption
<1>18. CASE Join(g)
  BY <1>18, TypeParts DEF Join, LocalTogether, WorkersTyped, OwnershipAssumption
<1>19. CASE StartLeave(g)
  BY <1>19, TypeParts DEF StartLeave, LocalTogether, WorkersTyped, OwnershipAssumption
<1>20. CASE TellOwner(g)
  BY <1>20, TypeParts DEF TellOwner, LocalTogether, WorkersTyped, local, OwnershipAssumption
<1>21. CASE CheckDisconnect(g)
  BY <1>21, TypeParts DEF CheckDisconnect, LocalTogether, WorkersTyped, local, OwnershipAssumption
<1>22. CASE StartStop(g)
  BY <1>22, TypeParts DEF StartStop, LocalTogether, WorkersTyped, local
<1>23. CASE ReadState(g)
  BY <1>23, TypeParts DEF ReadState, LocalTogether, WorkersTyped, local
<1>24. CASE MarkStopping(g)
  BY <1>24, TypeParts DEF MarkStopping, LocalTogether, WorkersTyped, local
<1>25. CASE SetStopping(g, "svc_flag", "svc_publish")
  BY <1>25, TypeParts DEF SetStopping, LocalTogether, WorkersTyped, local
<1>26. CASE PublishStop(g)
  BY <1>26, TypeParts DEF PublishStop, LocalTogether, WorkersTyped, local
<1>27. CASE SetStopping(g, "st_flag", "st_owner")
  BY <1>27, TypeParts DEF SetStopping, LocalTogether, WorkersTyped, local
<1>28. CASE StopOwned(g)
  BY <1>28, TypeParts DEF StopOwned, LocalTogether, WorkersTyped, EndThread, OwnershipAssumption
<1>29. CASE StopOther(g)
  BY <1>29, TypeParts DEF StopOther, LocalTogether, WorkersTyped, Forget, OwnershipAssumption
<1>30. CASE ReleaseTest(g)
  BY <1>30, TypeParts DEF ReleaseTest, LocalTogether, WorkersTyped, local, OwnershipAssumption
<1>31. CASE ReleaseDelete(g)
  BY <1>31, TypeParts DEF ReleaseDelete, LocalTogether, WorkersTyped, local
<1>32. CASE SetStopping(g, "rl_flag", frame[g].then)
  BY <1>32, TypeParts DEF SetStopping, LocalTogether, WorkersTyped, local
<1>33. CASE StopLocal(g)
  BY <1>33, TypeParts DEF StopLocal, LocalTogether, WorkersTyped, Forget, OwnershipAssumption
<1>34. CASE StopClean(g)
  BY <1>34, TypeParts DEF StopClean, LocalTogether, WorkersTyped, local
<1>35. CASE Receive(g, "stop")
  BY <1>35, TypeParts DEF Receive, LocalTogether, WorkersTyped, local, OwnershipAssumption
<1>36. CASE Receive(g, "left")
  BY <1>36, TypeParts DEF Receive, LocalTogether, WorkersTyped, local, OwnershipAssumption
<1>37. CASE ReceivedStop(g)
  BY <1>37, TypeParts DEF ReceivedStop, LocalTogether, WorkersTyped, local, OwnershipAssumption
<1>38. CASE StartCycle(g)
  BY <1>38, TypeParts DEF StartCycle, LocalTogether, WorkersTyped, local, OwnershipAssumption
<1>39. CASE RefreshRegistry(g)
  BY <1>39, TypeParts DEF RefreshRegistry, LocalTogether, WorkersTyped, local, OwnershipAssumption
<1>40. CASE TestOwner(g)
  BY <1>40, TypeParts DEF TestOwner, LocalTogether, WorkersTyped, local, OwnershipAssumption
<1>41. CASE ExtendOwned(g)
  BY <1>41, TypeParts DEF ExtendOwned, LocalTogether, WorkersTyped, local, OwnershipAssumption
<1>42. CASE ExtendLost(g)
  BY <1>42, TypeParts DEF ExtendLost, LocalTogether, WorkersTyped, local, OwnershipAssumption
<1>43. CASE Renew(g)
  BY <1>43, TypeParts DEF Renew, LocalTogether, WorkersTyped, local, OwnershipAssumption
<1>44. CASE OwnedTimers(g)
  BY <1>44, TypeParts DEF OwnedTimers, LocalTogether, WorkersTyped, local
<1>45. CASE Activate(g)
  BY <1>45, TypeParts DEF Activate, LocalTogether, WorkersTyped, local
<1>46. CASE CleanNotOwned(g)
  BY <1>46, TypeParts DEF CleanNotOwned, LocalTogether, WorkersTyped, local, Drop, OwnershipAssumption
<1>47. CASE StartOrphans(g)
  BY <1>47, TypeParts DEF StartOrphans, LocalTogether, WorkersTyped, local
<1>48. CASE CheckOrphan(g)
  BY <1>48, TypeParts DEF CheckOrphan, LocalTogether, WorkersTyped, local, OwnershipAssumption
<1>49. CASE SetWaiting(g)
  BY <1>49, TypeParts DEF SetWaiting, LocalTogether, WorkersTyped, local, OwnershipAssumption
<1>50. CASE CountBytes(g)
  BY <1>50, TypeParts DEF CountBytes, LocalTogether, WorkersTyped, local, OwnershipAssumption
<1>51. CASE ReportSpeed(g)
  BY <1>51, TypeParts DEF ReportSpeed, LocalTogether, WorkersTyped, local, OwnershipAssumption
<1>52. CASE RunEnds(g)
  BY <1>52, TypeParts DEF RunEnds, LocalTogether, WorkersTyped, OwnershipAssumption
<1>53. CASE ReadOwner(g)
  BY <1>53, TypeParts DEF ReadOwner, LocalTogether, WorkersTyped, OwnershipAssumption
<1>54. CASE ReadPreActive(g)
  BY <1>54, TypeParts DEF ReadPreActive, LocalTogether, WorkersTyped, local
<1>55. CASE WriteError(g)
  BY <1>55, TypeParts DEF WriteError, LocalTogether, WorkersTyped, local
<1>56. CASE SetStopping(g, "th_flag", "idle")
  BY <1>56, TypeParts DEF SetStopping, LocalTogether, WorkersTyped, local
<1> QED
  BY <1>1, <1>2, <1>3, <1>4, <1>5, <1>6, <1>7, <1>8, <1>9, <1>10, <1>11, <1>12, <1>13,
     <1>14, <1>15, <1>16, <1>17, <1>18, <1>19, <1>20, <1>21, <1>22, <1>23, <1>24, <1>25,
     <1>26, <1>27, <1>28, <1>29, <1>30, <1>31, <1>32, <1>33, <1>34, <1>35, <1>36, <1>37,
     <1>38, <1>39, <1>40, <1>41, <1>42, <1>43, <1>44, <1>45, <1>46, <1>47, <1>48, <1>49,
     <1>50, <1>51, <1>52, <1>53, <1>54, <1>55, <1>56
     DEF Step, Watch, Initialize, Leave, StopChannel, ReleaseOwnership, Stop, Listen, Cycle, Orphans, Thread

\* Nor does what happens by itself.
LEMMA EnvironmentTogether ==
    ASSUME TypeOK, LocalTogether, Environment
    PROVE  LocalTogether'
<1>1. CASE UNCHANGED local
  BY <1>1 DEF LocalTogether, local
<1>2. ASSUME NEW w \in Worker, Crash(w)
      PROVE  LocalTogether'
  BY <1>2, TypeParts DEF Crash, LocalTogether, WorkersTyped
<1> QED
  BY <1>1, <1>2 DEF Environment, LeaseExpires, StoppingExpires, MetadataExpires,
                    HeartbeatExpires, ClientExpires

\* A worker with a manager or viewers has the buffer: the entries of stream_managers,
\* stream_buffers and client_managers are made and dropped together on every path.
THEOREM ResourcesTogether == Spec => []LocalTogether
<1>1. ASSUME Init
      PROVE  LocalTogether
  BY <1>1 DEF Init, LocalTogether
<1>2. ASSUME TypeOK, LocalTogether, [Next]_vars
      PROVE  LocalTogether'
  <2>1. ASSUME NEW g \in Greenlet, Step(g)
        PROVE  LocalTogether'
    BY <1>2, <2>1, OwnershipAssumption, TogetherStep
  <2>2. CASE Environment
    BY <1>2, <2>2, EnvironmentTogether
  <2>3. CASE UNCHANGED vars
    BY <1>2, <2>3 DEF vars, local, LocalTogether
  <2> QED
    BY <1>2, <2>1, <2>2, <2>3 DEF Next
<1> QED
  BY <1>1, <1>2, TypeInvariant, PTL DEF Spec

\* A step of a greenlet leaves the lease, takes it when it is free, or deletes it.
LEMMA LeaseStep ==
    ASSUME OwnershipAssumption, NEW g \in Greenlet, Step(g)
    PROVE  owner' = owner \/ owner = None \/ owner' = None
<1>1. CASE StartWatch(g)
  BY <1>1 DEF StartWatch, redis
<1>2. CASE CheckExists(g)
  BY <1>2 DEF CheckExists, redis
<1>3. CASE CheckHeartbeat(g)
  BY <1>3 DEF CheckHeartbeat, redis
<1>4. CASE CleanZombie(g)
  BY <1>4 DEF CleanZombie, DeleteKeys
<1>5. CASE NoStream(g)
  BY <1>5 DEF NoStream, redis
<1>6. CASE PresetStreamId(g)
  BY <1>6 DEF PresetStreamId
<1>7. CASE InitRead(g)
  BY <1>7 DEF InitRead, redis
<1>8. CASE InitMark(g)
  BY <1>8 DEF InitMark
<1>9. CASE InitOwner(g)
  BY <1>9 DEF InitOwner, redis
<1>10. CASE InitAcquire(g)
  BY <1>10 DEF InitAcquire
<1>11. CASE InitRecord(g)
  BY <1>11 DEF InitRecord
<1>12. CASE InitCreate(g)
  BY <1>12 DEF InitCreate, redis
<1>13. CASE InitRaises(g)
  BY <1>13 DEF InitRaises, redis
<1>14. CASE InitConfirm(g)
  BY <1>14 DEF InitConfirm, redis
<1>15. CASE InitConnecting(g)
  BY <1>15 DEF InitConnecting
<1>16. CASE StoreProfile(g)
  BY <1>16 DEF StoreProfile
<1>17. CASE WaitConnected(g)
  BY <1>17 DEF WaitConnected, redis
<1>18. CASE Join(g)
  BY <1>18 DEF Join
<1>19. CASE StartLeave(g)
  BY <1>19 DEF StartLeave
<1>20. CASE TellOwner(g)
  BY <1>20 DEF TellOwner, redis
<1>21. CASE CheckDisconnect(g)
  BY <1>21 DEF CheckDisconnect, redis
<1>22. CASE StartStop(g)
  BY <1>22 DEF StartStop, redis
<1>23. CASE ReadState(g)
  BY <1>23 DEF ReadState, redis
<1>24. CASE MarkStopping(g)
  BY <1>24 DEF MarkStopping
<1>25. CASE SetStopping(g, "svc_flag", "svc_publish")
  BY <1>25 DEF SetStopping
<1>26. CASE PublishStop(g)
  BY <1>26 DEF PublishStop, redis
<1>27. CASE SetStopping(g, "st_flag", "st_owner")
  BY <1>27 DEF SetStopping
<1>28. CASE StopOwned(g)
  BY <1>28 DEF StopOwned, redis
<1>29. CASE StopOther(g)
  BY <1>29 DEF StopOther, redis
<1>30. CASE ReleaseTest(g)
  BY <1>30 DEF ReleaseTest, redis
<1>31. CASE ReleaseDelete(g)
  BY <1>31 DEF ReleaseDelete
<1>32. CASE SetStopping(g, "rl_flag", frame[g].then)
  BY <1>32 DEF SetStopping
<1>33. CASE StopLocal(g)
  BY <1>33 DEF StopLocal, redis
<1>34. CASE StopClean(g)
  BY <1>34 DEF StopClean, DeleteKeys
<1>35. CASE Receive(g, "stop")
  BY <1>35 DEF Receive, redis
<1>36. CASE Receive(g, "left")
  BY <1>36 DEF Receive, redis
<1>37. CASE ReceivedStop(g)
  BY <1>37 DEF ReceivedStop
<1>38. CASE StartCycle(g)
  BY <1>38 DEF StartCycle, redis
<1>39. CASE RefreshRegistry(g)
  BY <1>39 DEF RefreshRegistry
<1>40. CASE TestOwner(g)
  BY <1>40 DEF TestOwner, redis
<1>41. CASE ExtendOwned(g)
  BY <1>41 DEF ExtendOwned, redis
<1>42. CASE ExtendLost(g)
  BY <1>42 DEF ExtendLost, redis
<1>43. CASE Renew(g)
  BY <1>43 DEF Renew
<1>44. CASE OwnedTimers(g)
  BY <1>44 DEF OwnedTimers, redis
<1>45. CASE Activate(g)
  BY <1>45 DEF Activate
<1>46. CASE CleanNotOwned(g)
  BY <1>46 DEF CleanNotOwned, redis
<1>47. CASE StartOrphans(g)
  BY <1>47 DEF StartOrphans, redis
<1>48. CASE CheckOrphan(g)
  BY <1>48 DEF CheckOrphan, redis
<1>49. CASE SetWaiting(g)
  BY <1>49 DEF SetWaiting
<1>50. CASE CountBytes(g)
  BY <1>50 DEF CountBytes
<1>51. CASE ReportSpeed(g)
  BY <1>51 DEF ReportSpeed
<1>52. CASE RunEnds(g)
  BY <1>52 DEF RunEnds, redis
<1>53. CASE ReadOwner(g)
  BY <1>53 DEF ReadOwner, redis
<1>54. CASE ReadPreActive(g)
  BY <1>54 DEF ReadPreActive, redis
<1>55. CASE WriteError(g)
  BY <1>55 DEF WriteError
<1>56. CASE SetStopping(g, "th_flag", "idle")
  BY <1>56 DEF SetStopping
<1> QED
  BY <1>1, <1>2, <1>3, <1>4, <1>5, <1>6, <1>7, <1>8, <1>9, <1>10, <1>11, <1>12, <1>13,
     <1>14, <1>15, <1>16, <1>17, <1>18, <1>19, <1>20, <1>21, <1>22, <1>23, <1>24, <1>25,
     <1>26, <1>27, <1>28, <1>29, <1>30, <1>31, <1>32, <1>33, <1>34, <1>35, <1>36, <1>37,
     <1>38, <1>39, <1>40, <1>41, <1>42, <1>43, <1>44, <1>45, <1>46, <1>47, <1>48, <1>49,
     <1>50, <1>51, <1>52, <1>53, <1>54, <1>55, <1>56
     DEF Step, Watch, Initialize, Leave, StopChannel, ReleaseOwnership, Stop, Listen, Cycle, Orphans, Thread

\* The lease passes from worker to worker only by being given up or by running out:
\* acquisition and renewal write it with SET NX, all else deletes it.
THEOREM LeaseNotTaken == Spec => NoTakeover
<1>1. ASSUME [Next]_vars
      PROVE  owner # None /\ owner' # owner => owner' = None
  <2>1. ASSUME NEW g \in Greenlet, Step(g)
        PROVE  owner' = owner \/ owner = None \/ owner' = None
    BY <2>1, OwnershipAssumption, LeaseStep
  <2>2. CASE Environment
    BY <2>2 DEF Environment, LeaseExpires, StoppingExpires, MetadataExpires,
                HeartbeatExpires, ClientExpires, Crash, redis
  <2>3. CASE UNCHANGED vars
    BY <2>3 DEF vars, redis
  <2> QED
    BY <1>1, <2>1, <2>2, <2>3 DEF Next
<1>2. ASSUME [Next]_vars
      PROVE  [owner # None /\ owner' # owner => owner' = None]_vars
  BY <1>1, <1>2
<1> QED
  BY <1>2, PTL DEF Spec, NoTakeover

-----------------------------------------------------------------------------
(* One request at a time.                                                  *)

USE OwnershipAssumption

-----------------------------------------------------------------------------
(* The inductive invariant.                                                *)

\* A stream thread that runs is with the worker that has the lease and the record,
\* and the record is that of a running channel unless the worker is about to stop it.
Halting(w) == \E h \in Greenlet : Home[h] = w /\ frame[h].pc \in {"st_flag", "st_owner"}

RunsRight(w) ==
    /\ w \in alive /\ owner = w
    /\ metadata.exists /\ metadata.owner = w
    /\ metadata.state \in {"pre", "active"} \/ Halting(w)

Runners ==
    /\ stray = {}
    /\ \A w \in Worker : w \in ending => manager[w] # "running"
    /\ \A w \in Worker : manager[w] = "running" => RunsRight(w)

NoneRuns    == \A w \in Worker : manager[w] # "running"
OnlyRuns(v) == \A w \in Worker : manager[w] = "running" => w = v

\* Where a start is before it has made a manager; a stop may be the first part of one.
Starting == {"svc_exists", "svc_state", "svc_mark", "svc_flag", "svc_publish", "clean", "init",
             "init_read", "mark", "owner", "acquire", "record", "create"}
Ending   == {"rl_get", "rl_del", "rl_flag", "st_local", "st_clean"}
Halts    == {"st_flag", "st_owner"} \cup Ending

Fresh(g) == frame[g].pc \in Starting \/ (frame[g].pc \in Halts /\ frame[g].ret = "init")

\* Who may have a provider, by the place of a greenlet.
RunnersKnown(g) ==
    LET pc == frame[g].pc IN
    /\ Fresh(g) \/ pc \in Ending \cup {"th_state", "th_error"} => NoneRuns
    /\ pc \in {"st_flag", "st_owner", "hd_check", "ls_mark", "cy_extend", "cy_renew", "cy_clients",
               "connecting"} => OnlyRuns(Home[g])
    /\ pc \in {"cn_lease", "cn_renew", "cn_check"} => manager[Home[g]] # "running"
    /\ pc \in {"exists_hb", "or_check"} => OnlyRuns(frame[g].seen)
    /\ pc = "exists_hb" /\ frame[g].then # "join" => NoneRuns

\* A thread that is ending is one whose manager the worker still has, or of a stop.
EndingKnown(g) ==
    LET pc == frame[g].pc
        w == Home[g] IN
    /\ Fresh(g) => w \notin ending
    /\ pc \in {"init_local", "exists_hb"} => w \notin ending /\ manager[w] = "none"
    /\ pc \in {"exists", "join", "confirm", "connecting", "profile", "wait"} =>
           (w \in ending => manager[w] # "none")

\* What a start has done so far.
KeysKnown(g) ==
    LET pc == frame[g].pc
        w == Home[g] IN
    /\ pc = "acquire" => owner \in {None, w}
    /\ pc \in {"record", "create"} => owner = w
    /\ pc = "create" => metadata.exists /\ metadata.state = "pre" /\ metadata.owner = w
    /\ pc \in {"mark", "owner", "acquire", "record", "create"} => w \in buffer

\* Where calls return to.
CallsKnown(g) ==
    LET f == frame[g] IN
    /\ f.pc \in {"exists", "exists_hb", "clean"} => f.else \in {"init", "svc_exists"} /\ f.ret = "init"
    /\ f.pc = "exists" => f.then = "join"
    /\ f.pc = "exists_hb" => f.then \in {"join", "svc_state"}
    /\ f.pc \in {"svc_exists", "svc_state", "svc_mark", "svc_flag", "svc_publish"} => f.ret = "init"
    /\ f.pc \in Halts => f.ret \in {"init", "idle"}
    /\ f.pc \in {"rl_get", "rl_del", "rl_flag"} => f.then \in {"st_local", "idle"}
    /\ f.pc \in {"mark", "owner", "acquire", "record", "create", "confirm", "connecting"} =>
           f.then \in {"profile", "add"}

Coherent(g) == RunnersKnown(g) /\ EndingKnown(g) /\ KeysKnown(g) /\ CallsKnown(g)

\* Requests have the channel to themselves.
NobodyElse == \A g, h \in Busy : g # h => g \in Checking

\* Who works lives, and who lives has a heartbeat.
Living ==
    /\ \A g \in Busy : Home[g] \in alive
    /\ alive \subseteq heartbeat

SerialInv == NobodyElse /\ Living /\ Runners /\ \A g \in Greenlet : Coherent(g)

\* What the steps start from.
Known == TypeOK /\ LocalTogether /\ SerialInv

-----------------------------------------------------------------------------
(* What a step of a greenlet does.                                         *)

\* The other greenlets stay where they are.
Others(g) == \A h \in Greenlet \ {g} : frame'[h] = frame[h]

\* Where a step has taken a greenlet, with which locals.
View(g, l, f) ==
    /\ Others(g)
    /\ frame'[g].pc = l
    /\ l # "idle" => /\ frame'[g].then = f.then /\ frame'[g].else = f.else
                     /\ frame'[g].ret = f.ret /\ frame'[g].seen = f.seen

\* Go leads to its label, with its locals.
LEMMA GoView ==
    ASSUME TypeOK, NEW g \in Greenlet, NEW f \in Frame, NEW l \in Label, Go(g, f, l)
    PROVE  View(g, l, f)
<1>1. frame' = [frame EXCEPT ![g] = IF l = "idle" THEN Rest ELSE [f EXCEPT !.pc = l]]
  BY DEF Go
<1>2. frame \in [Greenlet -> Frame]
  BY DEF TypeOK
<1>3. frame'[g] = IF l = "idle" THEN Rest ELSE [f EXCEPT !.pc = l]
  BY <1>1, <1>2
<1>4. Others(g)
  BY <1>1, <1>2 DEF Others
<1>5. [f EXCEPT !.pc = l].pc = l /\ [f EXCEPT !.pc = l].then = f.then
      /\ [f EXCEPT !.pc = l].else = f.else /\ [f EXCEPT !.pc = l].ret = f.ret
      /\ [f EXCEPT !.pc = l].seen = f.seen
  BY DEF Frame
<1>6. Rest.pc = "idle"
  BY DEF Rest
<1> QED
  BY <1>3, <1>4, <1>5, <1>6 DEF View

\* So does Goto, with those of the greenlet.
LEMMA GotoView ==
    ASSUME TypeOK, NEW g \in Greenlet, NEW l \in Label, Goto(g, l)
    PROVE  View(g, l, frame[g])
BY GoView DEF TypeOK, Goto

\* No manager starts.
Fewer == \A w \in Worker : manager'[w] = "running" => manager[w] = "running"

\* What the invariant needs of a step of a greenlet that is, or comes to be, at work.
Done(g) ==
    /\ Others(g)
    /\ frame[g].pc # "idle" \/ frame'[g].pc # "idle"
    /\ Home[g] \in alive /\ alive' = alive /\ heartbeat \subseteq heartbeat'
    /\ Fewer \/ frame[g].pc = "create"
    /\ Runners'
    /\ Coherent(g)'

\* A step that does not touch the managers, the lease and what the record says.
Calm ==
    /\ UNCHANGED <<owner, manager, stray, ending, alive>>
    /\ heartbeat \subseteq heartbeat'
    /\ metadata'.state = metadata.state /\ metadata'.owner = metadata.owner
    /\ metadata.exists => metadata'.exists

\* Such a step leaves those who run the channel what they need.
LEMMA CalmRunners ==
    ASSUME SerialInv, NEW g \in Greenlet, Others(g), Calm,
           frame[g].pc \in {"st_flag", "st_owner"} => frame'[g].pc \in {"st_flag", "st_owner"}
    PROVE  Runners' /\ Fewer /\ alive' = alive /\ heartbeat \subseteq heartbeat'
<1>1. \A w \in Worker : Halting(w) => Halting(w)'
  BY DEF Halting, Others
<1> QED
  BY <1>1 DEF SerialInv, Runners, RunsRight, Calm, Fewer

\* A step after which nobody has a provider.
LEMMA NoRunners ==
    ASSUME NoneRuns', stray' = {} PROVE Runners' /\ Fewer
BY DEF Runners, NoneRuns, Fewer

\* Who runs the channel has a record that says so, unless he is being stopped.
LEMMA RecordTells ==
    ASSUME Known, \A w \in Worker : ~Halting(w),
           metadata.state \notin {"pre", "active"} \/ ~metadata.exists
    PROVE  NoneRuns
BY DEF Known, SerialInv, Runners, RunsRight, NoneRuns

\* A request at work is the only greenlet that is.
LEMMA NobodyHalts ==
    ASSUME Known, NEW g \in Greenlet,
           frame[g].pc \in {"exists", "svc_exists", "init_read", "init_local"}
    PROVE  \A w \in Worker : ~Halting(w)
BY DEF Known, SerialInv, NobodyElse, Busy, Checking, Halting

\* Nor is there another when one begins.
LEMMA NobodyHaltsYet ==
    ASSUME Known, NobodyElse', NEW g \in Greenlet, Others(g), frame[g].pc = "idle",
           frame'[g].pc \in {"exists", "svc_exists", "init"}
    PROVE  \A w \in Worker : ~Halting(w)
<1>1. \A h \in Greenlet \ {g} : frame[h].pc # "idle" => frame[h].pc \notin {"st_flag", "st_owner"}
  BY DEF NobodyElse, Busy, Checking, Others
<1> QED
  BY <1>1 DEF Halting

\* The labels and locals of a greenlet.
LEMMA LabelsKnown ==
    /\ {"idle", "owner", "acquire", "record", "create", "rl_get", "connecting", "wait", "join",
        "st_flag", "init_read", "init_local", "clean", "leave", "hd_check"} \subseteq Label
    /\ {"svc_flag", "svc_mark", "svc_publish", "st_owner", "st_clean", "rl_del", "rl_flag",
        "cy_refresh", "cy_owner", "cy_extend", "cy_renew", "cy_clients", "cy_activate"} \subseteq Label
    /\ {"cn_lease", "cn_check", "cn_renew", "or_check", "th_error", "th_flag",
        "st_local"} \subseteq Label
    /\ Rest \in Frame
    /\ [Rest EXCEPT !.then = "idle"] \in Frame
    /\ TypeOK => [Rest EXCEPT !.seen = metadata.owner] \in Frame
    /\ \A f \in Frame : /\ f.then \in Label /\ f.else \in Label /\ f.ret \in Label
                        /\ [f EXCEPT !.then = "st_local"] \in Frame
<1>1. Rest \in Frame /\ "idle" \in Label /\ "st_local" \in Label
  BY RestTyped DEF Label
<1>2. TypeOK => [Rest EXCEPT !.seen = metadata.owner] \in Frame
  <2>1. TypeOK => metadata.owner \in Worker \cup {None}
    BY DEF TypeOK
  <2> QED
    BY <1>1, <2>1, SeenTyped
<1>3. \A f \in Frame : /\ f.then \in Label /\ f.else \in Label /\ f.ret \in Label
                       /\ [f EXCEPT !.then = "st_local"] \in Frame
  BY <1>1, ThenTyped DEF Frame
<1>4. [Rest EXCEPT !.then = "idle"] \in Frame
  BY <1>1, ThenTyped
<1> QED
  BY <1>1, <1>2, <1>3, <1>4 DEF Label

\* The steps of a start up to its manager, and of the flags.
LEMMA StartSteps ==
    ASSUME Known, NEW g \in Greenlet,
           \/ CheckHeartbeat(g)
           \/ CleanZombie(g)
           \/ NoStream(g)
           \/ PresetStreamId(g)
           \/ InitMark(g)
           \/ InitOwner(g)
           \/ InitAcquire(g)
           \/ InitRecord(g)
           \/ InitRaises(g)
           \/ InitConfirm(g)
           \/ StoreProfile(g)
           \/ WaitConnected(g)
           \/ Join(g)
    PROVE  Done(g)
<1> USE DEF Known, SerialInv, Coherent, RunnersKnown, EndingKnown, KeysKnown, CallsKnown, Fresh,
            Starting, Ending, Halts, NoneRuns, OnlyRuns, View, At
<1>1. CASE CheckHeartbeat(g)
  <2>1. At(g, "exists_hb") /\ TypeOK
    BY <1>1 DEF CheckHeartbeat
  <2>t. frame[g].then \in Label /\ "clean" \in Label
    BY <2>1, LabelsKnown DEF TypeOK
  <2>2. View(g, IF frame[g].seen \in heartbeat THEN frame[g].then ELSE "clean", frame[g])
    BY <1>1, <2>1, <2>t, GotoView DEF CheckHeartbeat
  <2>3. Calm
    BY <1>1 DEF CheckHeartbeat, Calm, redis, local, world
  <2>4. Coherent(g)'
    BY <1>1, <2>1, <2>2, <2>3 DEF Calm, CheckHeartbeat, Living, Runners, RunsRight, redis,
       local, world
  <2> QED
    BY <2>1, <2>2, <2>3, <2>4, CalmRunners DEF Done
<1>2. CASE CleanZombie(g)
  <2>1. At(g, "clean") /\ TypeOK
    BY <1>2 DEF CleanZombie
  <2>t. frame[g].else \in Label
    BY <2>1, LabelsKnown DEF TypeOK
  <2>2. View(g, frame[g].else, frame[g])
    BY <1>2, <2>1, <2>t, GotoView DEF CleanZombie
  <2>3. NoneRuns' /\ stray' = {} /\ UNCHANGED world
    BY <1>2, <2>1 DEF CleanZombie, DeleteKeys, NoHash, Runners, RunsRight, TypeOK, redis,
       local, world
  <2>4. Coherent(g)'
    BY <1>2, <2>1, <2>2, <2>3 DEF CleanZombie, DeleteKeys, NoHash, TypeOK, redis, local, world
  <2> QED
    BY <2>1, <2>2, <2>3, <2>4, NoRunners DEF Done, world
<1>3. CASE NoStream(g)
  <2>1. At(g, "init") /\ TypeOK
    BY <1>3 DEF NoStream
  <2>2. View(g, "idle", frame[g])
    BY <1>3, <2>1, GotoView, LabelsKnown DEF NoStream, TypeOK
  <2>3. Calm
    BY <1>3 DEF NoStream, Calm, redis, local, world
  <2>4. Coherent(g)'
    BY <1>3, <2>1, <2>2, <2>3 DEF Calm, NoStream, redis, local, world
  <2> QED
    BY <2>1, <2>2, <2>3, <2>4, CalmRunners DEF Done
<1>4. CASE PresetStreamId(g)
  <2>1. At(g, "init") /\ TypeOK
    BY <1>4 DEF PresetStreamId
  <2>2. View(g, "init_read", frame[g])
    BY <1>4, <2>1, GotoView, LabelsKnown DEF PresetStreamId, TypeOK
  <2>3. Calm
    BY <1>4 DEF PresetStreamId, Calm, redis, local, world
  <2>4. Coherent(g)'
    BY <1>4, <2>1, <2>2, <2>3 DEF Calm, PresetStreamId, redis, local, world
  <2> QED
    BY <2>1, <2>2, <2>3, <2>4, CalmRunners DEF Done
<1>5. CASE InitMark(g)
  <2>1. At(g, "mark") /\ TypeOK
    BY <1>5 DEF InitMark
  <2>2. View(g, "owner", frame[g])
    BY <1>5, <2>1, GotoView, LabelsKnown DEF InitMark, TypeOK
  <2>3. NoneRuns' /\ stray' = {} /\ UNCHANGED world
    BY <1>5, <2>1 DEF InitMark, Runners, RunsRight, TypeOK, redis, local, world
  <2>4. Coherent(g)'
    BY <1>5, <2>1, <2>2, <2>3 DEF InitMark, TypeOK, redis, local, world
  <2> QED
    BY <2>1, <2>2, <2>3, <2>4, NoRunners DEF Done, world
<1>6. CASE InitOwner(g)
  <2>1. At(g, "owner") /\ TypeOK
    BY <1>6 DEF InitOwner
  <2>t. frame[g].then \in Label /\ "acquire" \in Label /\ "idle" \in Label
    BY <2>1, LabelsKnown DEF TypeOK
  <2>2. \/ owner \notin {None, Home[g]} /\ View(g, frame[g].then, frame[g])
        \/ owner \in {None, Home[g]} /\ buffer' = buffer /\ View(g, "acquire", frame[g])
        \/ View(g, "idle", frame[g])
    BY <1>6, <2>1, <2>t, GotoView DEF InitOwner
  <2>3. Calm
    BY <1>6 DEF InitOwner, Calm, redis, local, world
  <2>4. Coherent(g)'
    BY <1>6, <2>1, <2>2, <2>3 DEF Calm, InitOwner, redis, local, world
  <2> QED
    BY <2>1, <2>2, <2>3, <2>4, CalmRunners DEF Done
<1>7. CASE InitAcquire(g)
  <2>1. At(g, "acquire") /\ TypeOK
    BY <1>7 DEF InitAcquire
  <2>2. View(g, "record", frame[g])
    BY <1>7, <2>1, GotoView, LabelsKnown DEF InitAcquire, TypeOK
  <2>3. NoneRuns' /\ stray' = {} /\ UNCHANGED world
    BY <1>7, <2>1 DEF InitAcquire, Runners, RunsRight, TypeOK, redis, local, world
  <2>4. Coherent(g)'
    BY <1>7, <2>1, <2>2, <2>3 DEF InitAcquire, TypeOK, redis, local, world
  <2> QED
    BY <2>1, <2>2, <2>3, <2>4, NoRunners DEF Done, world
<1>8. CASE InitRecord(g)
  <2>1. At(g, "record") /\ TypeOK
    BY <1>8 DEF InitRecord
  <2>2. View(g, "create", frame[g])
    BY <1>8, <2>1, GotoView, LabelsKnown DEF InitRecord, TypeOK
  <2>3. NoneRuns' /\ stray' = {} /\ UNCHANGED world
    BY <1>8, <2>1 DEF InitRecord, HashOwned, Runners, RunsRight, TypeOK, redis, local, world
  <2>4. Coherent(g)'
    BY <1>8, <2>1, <2>2, <2>3 DEF InitRecord, HashOwned, TypeOK, redis, local, world
  <2> QED
    BY <2>1, <2>2, <2>3, <2>4, NoRunners DEF Done, world
<1>9. CASE InitRaises(g)
  <2>1. At(g, "create") /\ TypeOK
    BY <1>9 DEF InitRaises
  <2>t. [Rest EXCEPT !.then = "idle"] \in Frame /\ "rl_get" \in Label
    BY <2>1, LabelsKnown DEF TypeOK
  <2>2. View(g, "rl_get", [Rest EXCEPT !.then = "idle"])
    <3> DEFINE f == [Rest EXCEPT !.then = "idle"]
    <3>1. Go(g, f, "rl_get") /\ f \in Frame
      BY <1>9, <2>t DEF InitRaises
    <3> HIDE DEF f
    <3>2. View(g, "rl_get", f)
      BY <2>1, <2>t, <3>1, GoView
    <3> QED
      BY <3>2 DEF f
  <2>3. NoneRuns' /\ stray' = {} /\ UNCHANGED world
    BY <1>9, <2>1 DEF InitRaises, Rest, Runners, RunsRight, TypeOK, redis, local, world
  <2>4. Coherent(g)'
    BY <1>9, <2>1, <2>2, <2>3 DEF InitRaises, Rest, TypeOK, redis, local, world
  <2> QED
    BY <2>1, <2>2, <2>3, <2>4, NoRunners DEF Done, world
<1>10. CASE InitConfirm(g)
  <2>1. At(g, "confirm") /\ TypeOK
    BY <1>10 DEF InitConfirm
  <2>t. frame[g].then \in Label /\ "connecting" \in Label
    BY <2>1, LabelsKnown DEF TypeOK
  <2>2. View(g, IF owner = Home[g] THEN "connecting" ELSE frame[g].then, frame[g])
    BY <1>10, <2>1, <2>t, GotoView DEF InitConfirm
  <2>3. Calm
    BY <1>10 DEF InitConfirm, Calm, redis, local, world
  <2>4. Coherent(g)'
    BY <1>10, <2>1, <2>2, <2>3 DEF Calm, InitConfirm, Runners, RunsRight, redis, local, world
  <2> QED
    BY <2>1, <2>2, <2>3, <2>4, CalmRunners DEF Done
<1>11. CASE StoreProfile(g)
  <2>1. At(g, "profile") /\ TypeOK
    BY <1>11 DEF StoreProfile
  <2>2. View(g, "wait", frame[g])
    BY <1>11, <2>1, GotoView, LabelsKnown DEF StoreProfile, TypeOK
  <2>3. Calm
    BY <1>11 DEF StoreProfile, Calm, redis, local, world
  <2>4. Coherent(g)'
    BY <1>11, <2>1, <2>2, <2>3 DEF Calm, StoreProfile, redis, local, world
  <2> QED
    BY <2>1, <2>2, <2>3, <2>4, CalmRunners DEF Done
<1>12. CASE WaitConnected(g)
  <2>1. At(g, "wait") /\ TypeOK
    BY <1>12 DEF WaitConnected
  <2>2. \/ View(g, "join", frame[g])
        \/ owner = Home[g] /\ View(g, "st_flag", Rest)
    BY <1>12, <2>1, GoView, GotoView, LabelsKnown DEF WaitConnected, TypeOK
  <2>3. Calm
    BY <1>12 DEF WaitConnected, Calm, redis, local, world
  <2>4. Coherent(g)'
    BY <1>12, <2>1, <2>2, <2>3 DEF Calm, WaitConnected, Runners, RunsRight, Rest, redis,
       local, world
  <2> QED
    BY <2>1, <2>2, <2>3, <2>4, CalmRunners DEF Done
<1>13. CASE Join(g)
  <2>1. (At(g, "join") \/ At(g, "add")) /\ TypeOK
    BY <1>13 DEF Join
  <2>2. \/ View(g, "idle", frame[g])
        \/ Home[g] \notin buffer /\ View(g, IF At(g, "join")
                                            THEN "init_local" ELSE "idle", frame[g])
    BY <1>13, <2>1, GotoView, LabelsKnown DEF Join, TypeOK
  <2>3. Calm
    BY <1>13 DEF Join, Calm, redis, local, world
  <2>4. Coherent(g)'
    BY <1>13, <2>1, <2>2, <2>3 DEF Calm, Join, LocalTogether, TypeOK, redis, local, world
  <2> QED
    BY <2>1, <2>2, <2>3, <2>4, CalmRunners DEF Done
<1> QED
  BY <1>1, <1>2, <1>3, <1>4, <1>5, <1>6, <1>7, <1>8, <1>9, <1>10, <1>11, <1>12, <1>13

\* The steps of leaving and stopping.
LEMMA StopSteps ==
    ASSUME Known, NEW g \in Greenlet,
           \/ StartLeave(g)
           \/ TellOwner(g)
           \/ CheckDisconnect(g)
           \/ ReadState(g)
           \/ MarkStopping(g)
           \/ SetStopping(g, "svc_flag", "svc_publish")
           \/ PublishStop(g)
           \/ SetStopping(g, "st_flag", "st_owner")
           \/ StopOwned(g)
           \/ StopOther(g)
           \/ ReleaseTest(g)
           \/ ReleaseDelete(g)
           \/ SetStopping(g, "rl_flag", frame[g].then)
           \/ StopLocal(g)
           \/ StopClean(g)
    PROVE  Done(g)
<1> USE DEF Known, SerialInv, Coherent, RunnersKnown, EndingKnown, KeysKnown, CallsKnown, Fresh,
            Starting, Ending, Halts, NoneRuns, OnlyRuns, View, At
<1>1. CASE StartLeave(g)
  <2>1. At(g, "idle") /\ TypeOK
    BY <1>1 DEF StartLeave, Starts
  <2>2. View(g, "leave", frame[g])
    BY <1>1, <2>1, GotoView, LabelsKnown DEF StartLeave, Starts, TypeOK
  <2>3. Calm
    BY <1>1 DEF StartLeave, Starts, Calm, redis, local, world
  <2>4. Coherent(g)'
    BY <1>1, <2>1, <2>2, <2>3 DEF Calm, StartLeave, redis, local, world
  <2> QED
    BY <2>1, <2>2, <2>3, <2>4, CalmRunners DEF Done
<1>2. CASE TellOwner(g)
  <2>1. At(g, "leave") /\ TypeOK
    BY <1>2 DEF TellOwner
  <2>2. \/ owner = Home[g] /\ View(g, IF clients = {} THEN "hd_check" ELSE "idle", frame[g])
        \/ View(g, "idle", frame[g])
    BY <1>2, <2>1, GotoView, LabelsKnown DEF TellOwner, TypeOK
  <2>3. Calm
    BY <1>2 DEF TellOwner, Calm, redis, local, world
  <2>4. Coherent(g)'
    BY <1>2, <2>1, <2>2, <2>3 DEF Calm, TellOwner, Runners, RunsRight, redis, local, world
  <2> QED
    BY <2>1, <2>2, <2>3, <2>4, CalmRunners DEF Done
<1>3. CASE CheckDisconnect(g)
  <2>1. At(g, "hd_check") /\ TypeOK
    BY <1>3 DEF CheckDisconnect
  <2>2. \/ View(g, "st_flag", Rest)
        \/ View(g, "idle", frame[g])
    BY <1>3, <2>1, GoView, GotoView, LabelsKnown DEF CheckDisconnect, TypeOK
  <2>3. Calm
    BY <1>3 DEF CheckDisconnect, Calm, redis, local, world
  <2>4. Coherent(g)'
    BY <1>3, <2>1, <2>2, <2>3 DEF Calm, CheckDisconnect, Rest, redis, local, world
  <2> QED
    BY <2>1, <2>2, <2>3, <2>4, CalmRunners DEF Done
<1>4. CASE ReadState(g)
  <2>1. At(g, "svc_state") /\ TypeOK
    BY <1>4 DEF ReadState
  <2>2. View(g, IF metadata.state = None THEN "svc_flag" ELSE "svc_mark", frame[g])
    BY <1>4, <2>1, GotoView, LabelsKnown DEF ReadState, TypeOK
  <2>3. Calm
    BY <1>4 DEF ReadState, Calm, redis, local, world
  <2>4. Coherent(g)'
    BY <1>4, <2>1, <2>2, <2>3 DEF Calm, ReadState, redis, local, world
  <2> QED
    BY <2>1, <2>2, <2>3, <2>4, CalmRunners DEF Done
<1>5. CASE MarkStopping(g)
  <2>1. At(g, "svc_mark") /\ TypeOK
    BY <1>5 DEF MarkStopping
  <2>2. View(g, "svc_flag", frame[g])
    BY <1>5, <2>1, GotoView, LabelsKnown DEF MarkStopping, TypeOK
  <2>3. NoneRuns' /\ stray' = {} /\ UNCHANGED world
    BY <1>5, <2>1 DEF MarkStopping, Runners, RunsRight, TypeOK, redis, local, world
  <2>4. Coherent(g)'
    BY <1>5, <2>1, <2>2, <2>3 DEF MarkStopping, TypeOK, redis, local, world
  <2> QED
    BY <2>1, <2>2, <2>3, <2>4, NoRunners DEF Done, world
<1>6. CASE SetStopping(g, "svc_flag", "svc_publish")
  <2>1. At(g, "svc_flag") /\ TypeOK
    BY <1>6 DEF SetStopping
  <2>2. View(g, "svc_publish", frame[g])
    BY <1>6, <2>1, GotoView, LabelsKnown DEF SetStopping, TypeOK
  <2>3. Calm
    BY <1>6 DEF SetStopping, Calm, redis, local, world
  <2>4. Coherent(g)'
    BY <1>6, <2>1, <2>2, <2>3 DEF Calm, SetStopping, redis, local, world
  <2> QED
    BY <2>1, <2>2, <2>3, <2>4, CalmRunners DEF Done
<1>7. CASE PublishStop(g)
  <2>1. At(g, "svc_publish") /\ TypeOK
    BY <1>7 DEF PublishStop
  <2>2. View(g, "st_flag", frame[g])
    BY <1>7, <2>1, GotoView, LabelsKnown DEF PublishStop, TypeOK
  <2>3. Calm
    BY <1>7 DEF PublishStop, Calm, redis, local, world
  <2>4. Coherent(g)'
    BY <1>7, <2>1, <2>2, <2>3 DEF Calm, PublishStop, redis, local, world
  <2> QED
    BY <2>1, <2>2, <2>3, <2>4, CalmRunners DEF Done
<1>8. CASE SetStopping(g, "st_flag", "st_owner")
  <2>1. At(g, "st_flag") /\ TypeOK
    BY <1>8 DEF SetStopping
  <2>2. View(g, "st_owner", frame[g])
    BY <1>8, <2>1, GotoView, LabelsKnown DEF SetStopping, TypeOK
  <2>3. Calm
    BY <1>8 DEF SetStopping, Calm, redis, local, world
  <2>4. Coherent(g)'
    BY <1>8, <2>1, <2>2, <2>3 DEF Calm, SetStopping, redis, local, world
  <2> QED
    BY <2>1, <2>2, <2>3, <2>4, CalmRunners DEF Done
<1>9. CASE StopOwned(g)
  <2>1. At(g, "st_owner") /\ TypeOK
    BY <1>9 DEF StopOwned
  <2>t. [frame[g] EXCEPT !.then = "st_local"] \in Frame /\ "rl_get" \in Label
    BY <2>1, LabelsKnown DEF TypeOK
  <2>2. View(g, "rl_get", [frame[g] EXCEPT !.then = "st_local"])
    <3> DEFINE f == [frame[g] EXCEPT !.then = "st_local"]
    <3>1. Go(g, f, "rl_get") /\ f \in Frame
      BY <1>9, <2>t DEF StopOwned
    <3> HIDE DEF f
    <3>2. View(g, "rl_get", f)
      BY <2>1, <2>t, <3>1, GoView
    <3> QED
      BY <3>2 DEF f
  <2>3. NoneRuns' /\ stray' = {} /\ UNCHANGED world
    BY <1>9, <2>1 DEF StopOwned, EndThread, Runners, RunsRight, TypeOK, redis, local, world
  <2>4. Coherent(g)'
    BY <1>9, <2>1, <2>2, <2>3 DEF StopOwned, EndThread, TypeOK, redis, local, world
  <2> QED
    BY <2>1, <2>2, <2>3, <2>4, NoRunners DEF Done, world
<1>10. CASE StopOther(g)
  <2>1. At(g, "st_owner") /\ TypeOK
    BY <1>10 DEF StopOther
  <2>2. View(g, "st_clean", frame[g])
    BY <1>10, <2>1, GotoView, LabelsKnown DEF StopOther, TypeOK
  <2>3. NoneRuns' /\ stray' = {} /\ UNCHANGED world
    BY <1>10, <2>1 DEF StopOther, Forget, Runners, RunsRight, TypeOK, redis, local, world
  <2>4. Coherent(g)'
    BY <1>10, <2>1, <2>2, <2>3 DEF StopOther, Forget, TypeOK, redis, local, world
  <2> QED
    BY <2>1, <2>2, <2>3, <2>4, NoRunners DEF Done, world
<1>11. CASE ReleaseTest(g)
  <2>1. At(g, "rl_get") /\ TypeOK
    BY <1>11 DEF ReleaseTest
  <2>2. View(g, IF owner = Home[g] THEN "rl_del" ELSE frame[g].then, frame[g])
    BY <1>11, <2>1, GotoView, LabelsKnown DEF ReleaseTest, TypeOK
  <2>3. Calm
    BY <1>11 DEF ReleaseTest, Calm, redis, local, world
  <2>4. Coherent(g)'
    BY <1>11, <2>1, <2>2, <2>3 DEF Calm, ReleaseTest, redis, local, world
  <2> QED
    BY <2>1, <2>2, <2>3, <2>4, CalmRunners DEF Done
<1>12. CASE ReleaseDelete(g)
  <2>1. At(g, "rl_del") /\ TypeOK
    BY <1>12 DEF ReleaseDelete
  <2>2. View(g, "rl_flag", frame[g])
    BY <1>12, <2>1, GotoView, LabelsKnown DEF ReleaseDelete, TypeOK
  <2>3. NoneRuns' /\ stray' = {} /\ UNCHANGED world
    BY <1>12, <2>1 DEF ReleaseDelete, Runners, RunsRight, TypeOK, redis, local, world
  <2>4. Coherent(g)'
    BY <1>12, <2>1, <2>2, <2>3 DEF ReleaseDelete, TypeOK, redis, local, world
  <2> QED
    BY <2>1, <2>2, <2>3, <2>4, NoRunners DEF Done, world
<1>13. CASE SetStopping(g, "rl_flag", frame[g].then)
  <2>1. At(g, "rl_flag") /\ TypeOK
    BY <1>13 DEF SetStopping
  <2>2. View(g, frame[g].then, frame[g])
    BY <1>13, <2>1, GotoView, LabelsKnown DEF SetStopping, TypeOK
  <2>3. Calm
    BY <1>13 DEF SetStopping, Calm, redis, local, world
  <2>4. Coherent(g)'
    BY <1>13, <2>1, <2>2, <2>3 DEF Calm, SetStopping, redis, local, world
  <2> QED
    BY <2>1, <2>2, <2>3, <2>4, CalmRunners DEF Done
<1>14. CASE StopLocal(g)
  <2>1. At(g, "st_local") /\ TypeOK
    BY <1>14 DEF StopLocal
  <2>2. View(g, "st_clean", frame[g])
    BY <1>14, <2>1, GotoView, LabelsKnown DEF StopLocal, TypeOK
  <2>3. NoneRuns' /\ stray' = {} /\ UNCHANGED world
    BY <1>14, <2>1 DEF StopLocal, Forget, Runners, RunsRight, TypeOK, redis, local, world
  <2>4. Coherent(g)'
    BY <1>14, <2>1, <2>2, <2>3 DEF StopLocal, Forget, TypeOK, redis, local, world
  <2> QED
    BY <2>1, <2>2, <2>3, <2>4, NoRunners DEF Done, world
<1>15. CASE StopClean(g)
  <2>1. At(g, "st_clean") /\ TypeOK
    BY <1>15 DEF StopClean
  <2>t. frame[g].ret \in Label
    BY <2>1, LabelsKnown DEF TypeOK
  <2>2. View(g, frame[g].ret, frame[g])
    BY <1>15, <2>1, <2>t, GotoView DEF StopClean
  <2>3. NoneRuns' /\ stray' = {} /\ UNCHANGED world
    BY <1>15, <2>1 DEF StopClean, DeleteKeys, Runners, RunsRight, TypeOK, redis, local, world
  <2>4. Coherent(g)'
    BY <1>15, <2>1, <2>2, <2>3 DEF StopClean, DeleteKeys, TypeOK, redis, local, world
  <2> QED
    BY <2>1, <2>2, <2>3, <2>4, NoRunners DEF Done, world
<1> QED
  BY <1>1, <1>2, <1>3, <1>4, <1>5, <1>6, <1>7, <1>8, <1>9, <1>10, <1>11, <1>12, <1>13, <1>14, <1>15

\* The steps of the cleanup and the threads.
LEMMA CheckSteps ==
    ASSUME Known, NEW g \in Greenlet,
           \/ StartCycle(g)
           \/ RefreshRegistry(g)
           \/ TestOwner(g)
           \/ ExtendOwned(g)
           \/ ExtendLost(g)
           \/ OwnedTimers(g)
           \/ StartOrphans(g)
           \/ CheckOrphan(g)
           \/ ReadPreActive(g)
           \/ WriteError(g)
           \/ SetStopping(g, "th_flag", "idle")
    PROVE  Done(g)
<1> USE DEF Known, SerialInv, Coherent, RunnersKnown, EndingKnown, KeysKnown, CallsKnown, Fresh,
            Starting, Ending, Halts, NoneRuns, OnlyRuns, View, At
<1>1. CASE StartCycle(g)
  <2>1. At(g, "idle") /\ TypeOK
    BY <1>1 DEF StartCycle, Starts
  <2>2. View(g, "cy_refresh", frame[g])
    BY <1>1, <2>1, GotoView, LabelsKnown DEF StartCycle, Starts, TypeOK
  <2>3. Calm
    BY <1>1 DEF StartCycle, Starts, Calm, redis, local, world
  <2>4. Coherent(g)'
    BY <1>1, <2>1, <2>2, <2>3 DEF Calm, StartCycle, redis, local, world
  <2> QED
    BY <2>1, <2>2, <2>3, <2>4, CalmRunners DEF Done
<1>2. CASE RefreshRegistry(g)
  <2>1. At(g, "cy_refresh") /\ TypeOK
    BY <1>2 DEF RefreshRegistry
  <2>2. View(g, IF IsLocal(Home[g]) THEN "cy_owner" ELSE "idle", frame[g])
    BY <1>2, <2>1, GotoView, LabelsKnown DEF RefreshRegistry, TypeOK
  <2>3. Calm
    BY <1>2 DEF RefreshRegistry, Calm, redis, local, world
  <2>4. Coherent(g)'
    BY <1>2, <2>1, <2>2, <2>3 DEF Calm, RefreshRegistry, redis, local, world
  <2> QED
    BY <2>1, <2>2, <2>3, <2>4, CalmRunners DEF Done
<1>3. CASE TestOwner(g)
  <2>1. At(g, "cy_owner") /\ TypeOK
    BY <1>3 DEF TestOwner
  <2>2. View(g, IF owner = Home[g] THEN "cy_extend"
                ELSE IF manager[Home[g]] # "none" THEN "cn_lease" ELSE "cn_check", frame[g])
    BY <1>3, <2>1, GotoView, LabelsKnown DEF TestOwner, TypeOK
  <2>3. Calm
    BY <1>3 DEF TestOwner, Calm, redis, local, world
  <2>4. Coherent(g)'
    BY <1>3, <2>1, <2>2, <2>3 DEF Calm, TestOwner, Runners, RunsRight, redis, local, world
  <2> QED
    BY <2>1, <2>2, <2>3, <2>4, CalmRunners DEF Done
<1>4. CASE ExtendOwned(g)
  <2>1. At(g, "cy_extend") /\ TypeOK
    BY <1>4 DEF ExtendOwned
  <2>2. View(g, IF owner = None /\ manager[Home[g]] # "none"
                THEN "cy_renew" ELSE "cy_clients", frame[g])
    BY <1>4, <2>1, GotoView, LabelsKnown DEF ExtendOwned, TypeOK
  <2>3. Calm
    BY <1>4 DEF ExtendOwned, Calm, redis, local, world
  <2>4. Coherent(g)'
    BY <1>4, <2>1, <2>2, <2>3 DEF Calm, ExtendOwned, redis, local, world
  <2> QED
    BY <2>1, <2>2, <2>3, <2>4, CalmRunners DEF Done
<1>5. CASE ExtendLost(g)
  <2>1. At(g, "cn_lease") /\ TypeOK
    BY <1>5 DEF ExtendLost
  <2>2. \/ View(g, "cn_renew", frame[g])
        \/ View(g, "idle", frame[g])
        \/ View(g, "cn_check", frame[g])
    BY <1>5, <2>1, GotoView, LabelsKnown DEF ExtendLost, TypeOK
  <2>3. Calm
    BY <1>5 DEF ExtendLost, Calm, redis, local, world
  <2>4. Coherent(g)'
    BY <1>5, <2>1, <2>2, <2>3 DEF Calm, ExtendLost, redis, local, world
  <2> QED
    BY <2>1, <2>2, <2>3, <2>4, CalmRunners DEF Done
<1>6. CASE OwnedTimers(g)
  <2>1. At(g, "cy_clients") /\ TypeOK
    BY <1>6 DEF OwnedTimers
  <2>2. \/ View(g, "st_flag", Rest)
        \/ View(g, "cy_activate", frame[g])
        \/ View(g, "idle", frame[g])
    BY <1>6, <2>1, GoView, GotoView, LabelsKnown DEF OwnedTimers, TypeOK
  <2>3. Calm
    BY <1>6 DEF OwnedTimers, Calm, redis, local, world
  <2>4. Coherent(g)'
    BY <1>6, <2>1, <2>2, <2>3 DEF Calm, OwnedTimers, Rest, redis, local, world
  <2> QED
    BY <2>1, <2>2, <2>3, <2>4, CalmRunners DEF Done
<1>7. CASE StartOrphans(g)
  <2>1. At(g, "idle") /\ TypeOK
    BY <1>7 DEF StartOrphans, Starts
  <2>t. [Rest EXCEPT !.seen = metadata.owner] \in Frame /\ "or_check" \in Label
    BY <2>1, LabelsKnown DEF TypeOK
  <2>2. View(g, "or_check", [Rest EXCEPT !.seen = metadata.owner])
    <3> DEFINE f == [Rest EXCEPT !.seen = metadata.owner]
    <3>1. Go(g, f, "or_check") /\ f \in Frame
      BY <1>7, <2>t DEF StartOrphans, Starts
    <3> HIDE DEF f
    <3>2. View(g, "or_check", f)
      BY <2>1, <2>t, <3>1, GoView
    <3> QED
      BY <3>2 DEF f
  <2>3. Calm
    BY <1>7 DEF StartOrphans, Starts, Calm, redis, local, world
  <2>4. Coherent(g)'
    BY <1>7, <2>1, <2>2, <2>3 DEF Calm, StartOrphans, Runners, RunsRight, redis, local, world
  <2> QED
    BY <2>1, <2>2, <2>3, <2>4, CalmRunners DEF Done
<1>8. CASE CheckOrphan(g)
  <2>1. At(g, "or_check") /\ TypeOK
    BY <1>8 DEF CheckOrphan
  <2>2. \/ frame[g].seen \notin heartbeat /\ View(g, IF IsLocal(Home[g])
                                                     THEN "st_flag" ELSE "st_clean", Rest)
        \/ View(g, "idle", frame[g])
    BY <1>8, <2>1, GoView, GotoView, LabelsKnown DEF CheckOrphan, TypeOK
  <2>3. Calm
    BY <1>8 DEF CheckOrphan, Calm, redis, local, world
  <2>4. Coherent(g)'
    BY <1>8, <2>1, <2>2, <2>3 DEF Calm, CheckOrphan, Rest, Living, Runners, RunsRight, redis,
       local, world
  <2> QED
    BY <2>1, <2>2, <2>3, <2>4, CalmRunners DEF Done
<1>9. CASE ReadPreActive(g)
  <2>1. At(g, "th_state") /\ TypeOK
    BY <1>9 DEF ReadPreActive
  <2>2. View(g, IF metadata.state = "pre" THEN "th_error" ELSE "idle", frame[g])
    BY <1>9, <2>1, GotoView, LabelsKnown DEF ReadPreActive, TypeOK
  <2>3. Calm
    BY <1>9 DEF ReadPreActive, Calm, redis, local, world
  <2>4. Coherent(g)'
    BY <1>9, <2>1, <2>2, <2>3 DEF Calm, ReadPreActive, redis, local, world
  <2> QED
    BY <2>1, <2>2, <2>3, <2>4, CalmRunners DEF Done
<1>10. CASE WriteError(g)
  <2>1. At(g, "th_error") /\ TypeOK
    BY <1>10 DEF WriteError
  <2>2. View(g, "th_flag", frame[g])
    BY <1>10, <2>1, GotoView, LabelsKnown DEF WriteError, TypeOK
  <2>3. NoneRuns' /\ stray' = {} /\ UNCHANGED world
    BY <1>10, <2>1 DEF WriteError, Runners, RunsRight, TypeOK, redis, local, world
  <2>4. Coherent(g)'
    BY <1>10, <2>1, <2>2, <2>3 DEF WriteError, TypeOK, redis, local, world
  <2> QED
    BY <2>1, <2>2, <2>3, <2>4, NoRunners DEF Done, world
<1>11. CASE SetStopping(g, "th_flag", "idle")
  <2>1. At(g, "th_flag") /\ TypeOK
    BY <1>11 DEF SetStopping
  <2>2. View(g, "idle", frame[g])
    BY <1>11, <2>1, GotoView, LabelsKnown DEF SetStopping, TypeOK
  <2>3. Calm
    BY <1>11 DEF SetStopping, Calm, redis, local, world
  <2>4. Coherent(g)'
    BY <1>11, <2>1, <2>2, <2>3 DEF Calm, SetStopping, redis, local, world
  <2> QED
    BY <2>1, <2>2, <2>3, <2>4, CalmRunners DEF Done
<1> QED
  BY <1>1, <1>2, <1>3, <1>4, <1>5, <1>6, <1>7, <1>8, <1>9, <1>10, <1>11

\* StartWatch: the record tells whether somebody runs the channel.
LEMMA StartWatchDone ==
    ASSUME Known, NobodyElse', NEW g \in Greenlet, Serial, StartWatch(g) PROVE Done(g)
<1> DEFINE check(e) == [Rest EXCEPT !.then = "join", !.else = e, !.ret = "init"]
<1> USE DEF Known
<1>1. At(g, "idle") /\ TypeOK /\ ending = {} /\ Calm
  BY DEF StartWatch, Starts, RequestOps, Calm, redis, local, world
<1>2. \/ metadata.state \in {"pre", "active"} /\ View(g, "exists", check("init"))
      \/ View(g, "exists", check("svc_exists"))
      \/ metadata.state = "error" /\ View(g, "svc_exists", check("svc_exists"))
      \/ metadata.state = None /\ View(g, "init", frame[g])
  <2>1. check("init") \in Frame /\ check("svc_exists") \in Frame
    <3>1. {"join", "init", "svc_exists"} \subseteq Label
      BY DEF Label
    <3> QED
      BY <3>1, RestTyped, ReturnTyped
  <2>2. {"exists", "svc_exists", "init"} \subseteq Label
    BY DEF Label
  <2>3. \/ metadata.state \in {"pre", "active"} /\ Go(g, check("init"), "exists")
        \/ Go(g, check("svc_exists"), "exists")
        \/ metadata.state = "error" /\ Go(g, check("svc_exists"), "svc_exists")
        \/ metadata.state = None /\ Goto(g, "init")
    BY DEF StartWatch
  <2> HIDE DEF check
  <2> QED
    BY <1>1, <2>1, <2>2, <2>3, GoView, GotoView
<1>3. /\ check("init").then = "join" /\ check("init").else = "init" /\ check("init").ret = "init"
      /\ check("svc_exists").then = "join" /\ check("svc_exists").else = "svc_exists"
      /\ check("svc_exists").ret = "init"
  BY DEF Rest
<1> HIDE DEF check
<1>4. Others(g) /\ frame[g].pc = "idle" /\ frame'[g].pc \in {"exists", "svc_exists", "init"}
  BY <1>1, <1>2 DEF View, At
<1>5. metadata.state \notin {"pre", "active"} => NoneRuns
  BY <1>4, NobodyHaltsYet, RecordTells
<1>6. frame'[g].pc = "exists" => /\ frame'[g].then = "join" /\ frame'[g].ret = "init"
                                 /\ frame'[g].else \in {"init", "svc_exists"}
  BY <1>2, <1>3 DEF View
<1>7. frame'[g].pc = "svc_exists" => frame'[g].ret = "init" /\ metadata.state = "error"
  BY <1>2, <1>3 DEF View
<1>8. frame'[g].pc = "init" => metadata.state = None
  BY <1>2 DEF View
<1>9. Coherent(g)'
  BY <1>1, <1>4, <1>5, <1>6, <1>7, <1>8
     DEF Calm, Coherent, RunnersKnown, EndingKnown, KeysKnown, CallsKnown, Fresh, Starting, Ending,
         Halts, NoneRuns, State
<1> QED
  BY <1>1, <1>4, <1>9, CalmRunners DEF Done, At

\* CheckExists, for stream_ts: nobody runs a channel that is not there.
LEMMA StartExistsDone ==
    ASSUME Known, NEW g \in Greenlet, CheckExists(g), At(g, "exists") PROVE Done(g)
<1> USE DEF Known
<1>1. TypeOK /\ Calm /\ frame[g] \in Frame
  BY DEF CheckExists, Calm, redis, local, world, TypeOK
<1> DEFINE h == [frame[g] EXCEPT !.seen = metadata.owner]
<1>2. /\ h \in Frame /\ h.seen = metadata.owner
      /\ h.then = frame[g].then /\ h.else = frame[g].else /\ h.ret = frame[g].ret
  <2>1. metadata.owner \in Worker \cup {None}
    BY DEF TypeOK
  <2> QED
    BY <1>1, <2>1, SeenTyped DEF Frame
<1>3. \/ Goto(g, frame[g].then)
      \/ metadata.exists /\ ~IsLocal(Home[g]) /\ Go(g, h, "exists_hb")
      \/ metadata.state = "error" /\ ~IsLocal(Home[g]) /\ Goto(g, frame[g].else)
      \/ ~metadata.exists /\ ~IsLocal(Home[g]) /\ (Goto(g, "clean") \/ Goto(g, frame[g].else))
  BY DEF CheckExists, Goto
<1>4. frame[g].then \in Label /\ frame[g].else \in Label /\ {"exists_hb", "clean"} \subseteq Label
  BY <1>1 DEF Frame, Label
<1> HIDE DEF h
<1>5. \/ View(g, frame[g].then, frame[g])
      \/ metadata.exists /\ ~IsLocal(Home[g]) /\ View(g, "exists_hb", h)
      \/ /\ metadata.state = "error" \/ ~metadata.exists
         /\ ~IsLocal(Home[g])
         /\ View(g, frame[g].else, frame[g]) \/ View(g, "clean", frame[g])
  BY <1>1, <1>2, <1>3, <1>4, GoView, GotoView
<1>6. metadata.state = "error" \/ ~metadata.exists => NoneRuns
  BY NobodyHalts, RecordTells DEF At
<1>7. \A w \in Worker : manager[w] = "running" => metadata.owner = w
  BY DEF SerialInv, Runners, RunsRight
<1>8. ~IsLocal(Home[g]) => manager[Home[g]] = "none" /\ (Coherent(g) => Home[g] \notin ending)
  BY DEF IsLocal, At, Coherent, EndingKnown
<1>9. Coherent(g)'
  BY <1>1, <1>2, <1>5, <1>6, <1>7, <1>8
     DEF Calm, At, View, SerialInv, Coherent, RunnersKnown, EndingKnown, KeysKnown, CallsKnown,
         Fresh, Starting, Ending, Halts, NoneRuns, OnlyRuns
<1> QED
  BY <1>1, <1>5, <1>9, CalmRunners DEF Done, At, View

\* CheckExists, for the stop that precedes a start.
LEMMA StopExistsDone ==
    ASSUME Known, NEW g \in Greenlet, CheckExists(g), At(g, "svc_exists") PROVE Done(g)
<1> USE DEF Known
<1>1. TypeOK /\ Calm /\ frame[g] \in Frame /\ ~At(g, "exists")
  BY DEF CheckExists, Calm, redis, local, world, TypeOK, At
<1> DEFINE f == [frame[g] EXCEPT !.then = "svc_state", !.else = frame[g].ret]
           h == [f EXCEPT !.seen = metadata.owner]
<1>2. frame[g].ret = "init" /\ NoneRuns /\ Home[g] \notin ending
  BY DEF At, SerialInv, Coherent, CallsKnown, RunnersKnown, EndingKnown, Fresh, Starting
<1>3. f \in Frame /\ f.then = "svc_state" /\ f.else = "init" /\ f.ret = "init"
  <2>1. "svc_state" \in Label /\ "init" \in Label
    BY DEF Label
  <2> QED
    BY <1>1, <1>2, <2>1 DEF Frame
<1>4. h \in Frame /\ h.then = "svc_state" /\ h.else = "init" /\ h.ret = "init"
  <2>1. metadata.owner \in Worker \cup {None}
    BY DEF TypeOK
  <2> HIDE DEF f
  <2> QED
    BY <1>3, <2>1, SeenTyped DEF Frame
<1>5. \/ Go(g, f, f.then)
      \/ ~IsLocal(Home[g]) /\ Go(g, h, "exists_hb")
      \/ Go(g, f, f.else)
      \/ Go(g, f, "clean")
  BY <1>1 DEF CheckExists
<1>6. {"svc_state", "init", "exists_hb", "clean"} \subseteq Label
  BY DEF Label
<1> HIDE DEF f, h
<1>7. \/ View(g, "svc_state", f)
      \/ ~IsLocal(Home[g]) /\ View(g, "exists_hb", h)
      \/ View(g, "init", f)
      \/ View(g, "clean", f)
  BY <1>1, <1>3, <1>4, <1>5, <1>6, GoView
<1>8. ~IsLocal(Home[g]) => manager[Home[g]] = "none"
  BY DEF IsLocal
<1>9. Coherent(g)'
  BY <1>1, <1>2, <1>3, <1>4, <1>7, <1>8
     DEF Calm, At, View, SerialInv, Coherent, RunnersKnown, EndingKnown, KeysKnown, CallsKnown,
         Fresh, Starting, Ending, Halts, NoneRuns, OnlyRuns
<1> QED
  BY <1>1, <1>7, <1>9, CalmRunners DEF Done, At, View

\* InitRead: who runs the channel has said so, and a worker that joins it leaves it alone.
LEMMA InitReadDone ==
    ASSUME Known, NEW g \in Greenlet, InitRead(g) PROVE Done(g)
<1> USE DEF Known
<1> DEFINE l == IF At(g, "init_read") THEN "profile" ELSE "add"
           f == [Rest EXCEPT !.then = l]
<1>1. /\ TypeOK /\ Calm /\ (At(g, "init_read") \/ At(g, "init_local"))
      /\ buffer' = buffer \cup {Home[g]}
  BY DEF InitRead, Calm, redis, local, world
<1>2. l \in {"profile", "add"} /\ (At(g, "init_local") => l = "add") /\ l \in Label
  BY DEF At, Label
<1>3. Go(g, f, IF metadata.state \in {"pre", "active"} THEN f.then ELSE "mark")
  BY DEF InitRead
<1>4. f \in Frame /\ f.then = l
  <2> HIDE DEF l
  <2> QED
    BY <1>2, RestTyped, ThenTyped DEF Frame
<1> HIDE DEF l, f
<1>5. View(g, IF metadata.state \in {"pre", "active"} THEN l ELSE "mark", f)
  <2>1. "mark" \in Label
    BY DEF Label
  <2> QED
    BY <1>1, <1>2, <1>3, <1>4, <2>1, GoView
<1>6. metadata.state \notin {"pre", "active"} => NoneRuns
  BY <1>1, NobodyHalts, RecordTells DEF At
<1>7. Home[g] \notin ending
  BY <1>1 DEF At, SerialInv, Coherent, EndingKnown, Fresh, Starting
<1>8. Coherent(g)'
  BY <1>1, <1>2, <1>4, <1>5, <1>6, <1>7
     DEF Calm, View, Coherent, RunnersKnown, EndingKnown, KeysKnown, CallsKnown,
         Fresh, Starting, Ending, Halts, NoneRuns, OnlyRuns
<1> QED
  BY <1>1, <1>2, <1>5, <1>8, CalmRunners DEF Done, At, View

\* A step that leaves those who run the channel with the lease and the record.
LEMMA KeptRunners ==
    ASSUME Known, NEW g \in Greenlet, Others(g), frame[g].pc \notin {"st_flag", "st_owner"}, Fewer,
           alive' = alive, stray' = {}, ending' \subseteq ending,
           \A w \in Worker : manager'[w] = "running" =>
               /\ owner' = w /\ metadata'.exists /\ metadata'.owner = w
               /\ metadata'.state = metadata.state \/ metadata'.state \in {"pre", "active"}
    PROVE  Runners'
<1>1. \A w \in Worker : Halting(w) => Halting(w)'
  BY DEF Halting, Others
<1> QED
  BY <1>1 DEF Known, SerialInv, Runners, RunsRight, Fewer

\* InitCreate: the worker that has the lease and the record gets the provider.
LEMMA CreateDone ==
    ASSUME Known, NEW g \in Greenlet, InitCreate(g) PROVE Done(g)
<1> USE DEF Known
<1>1. TypeOK /\ At(g, "create") /\ Goto(g, "confirm") /\ "confirm" \in Label /\ Home[g] \in Worker
  BY DEF InitCreate, Label
<1>2. View(g, "confirm", frame[g])
  BY <1>1, GotoView
<1>3. /\ NoneRuns /\ owner = Home[g] /\ Home[g] \notin ending
      /\ metadata.exists /\ metadata.state = "pre" /\ metadata.owner = Home[g]
  BY <1>1 DEF At, SerialInv, Coherent, RunnersKnown, KeysKnown, EndingKnown, Fresh, Starting
<1>4. /\ manager'[Home[g]] = "running" /\ stray' = {}
      /\ \A w \in Worker : manager'[w] = "running" => w = Home[g]
      /\ UNCHANGED <<owner, metadata, ending, alive, heartbeat>>
  BY <1>1, <1>3 DEF InitCreate, TypeOK, NoneRuns, SerialInv, Runners, redis, world
<1>5. Runners'
  BY <1>1, <1>3, <1>4 DEF Runners, RunsRight, At
<1>6. Coherent(g)'
  BY <1>1, <1>2, <1>4
     DEF At, View, SerialInv, Coherent, RunnersKnown, EndingKnown, KeysKnown, CallsKnown,
         Fresh, Starting, Ending, Halts
<1> QED
  BY <1>1, <1>2, <1>4, <1>5, <1>6 DEF Done, At, View

\* InitConnecting: the record names the worker that runs the channel.
LEMMA ConnectingDone ==
    ASSUME Known, NEW g \in Greenlet, InitConnecting(g) PROVE Done(g)
<1> USE DEF Known
<1>1. TypeOK /\ At(g, "connecting") /\ frame[g].then \in Label
  BY DEF InitConnecting, TypeOK, Frame
<1>2. View(g, frame[g].then, frame[g])
  BY <1>1, GotoView DEF InitConnecting
<1>3. /\ metadata' = HashOwned("pre", Home[g]) \/ metadata' = metadata
      /\ UNCHANGED <<owner, manager, stray, ending, alive, heartbeat>>
  BY DEF InitConnecting, local, world
<1>4. OnlyRuns(Home[g])
  BY <1>1 DEF At, SerialInv, Coherent, RunnersKnown
<1>5. Runners' /\ Fewer
  <2>1. \A w \in Worker : manager[w] = "running" =>
            /\ owner' = w /\ metadata'.exists /\ metadata'.owner = w
            /\ metadata'.state = metadata.state \/ metadata'.state = "pre"
    BY <1>3, <1>4 DEF OnlyRuns, SerialInv, Runners, RunsRight, HashOwned
  <2>2. Others(g) /\ frame[g].pc \notin {"st_flag", "st_owner"} /\ Fewer /\ stray' = {}
    BY <1>1, <1>2, <1>3 DEF View, At, Fewer, SerialInv, Runners
  <2> QED
    BY <1>3, <2>1, <2>2, KeptRunners
<1>6. Coherent(g)'
  BY <1>1, <1>2, <1>3
     DEF At, View, SerialInv, Coherent, RunnersKnown, EndingKnown, KeysKnown, CallsKnown,
         Fresh, Starting, Ending, Halts
<1> QED
  BY <1>1, <1>2, <1>3, <1>5, <1>6 DEF Done, At, View

\* Receive: an event that the owner acts on.
LEMMA ReceiveDone ==
    ASSUME Known, NEW g \in Greenlet, NEW e, Receive(g, e), owner = Home[g] PROVE Done(g)
<1> USE DEF Known
<1> DEFINE l == IF e = "stop" THEN "ls_mark" ELSE "hd_check"
<1>1. TypeOK /\ At(g, "idle") /\ Goto(g, l) /\ l \in {"ls_mark", "hd_check"} /\ l \in Label /\ Calm
  BY DEF Receive, Starts, Label, Calm, redis, local, world
<1> HIDE DEF l
<1>2. View(g, l, frame[g])
  BY <1>1, GotoView
<1>3. OnlyRuns(Home[g])
  BY DEF OnlyRuns, SerialInv, Runners, RunsRight
<1>4. Coherent(g)'
  BY <1>1, <1>2, <1>3
     DEF Calm, At, View, Coherent, RunnersKnown, EndingKnown, KeysKnown, CallsKnown,
         Fresh, Starting, Ending, Halts, OnlyRuns
<1> QED
  BY <1>1, <1>2, <1>4, CalmRunners DEF Done, At, View

\* ReceivedStop: the record says "stopping" of the channel that its owner then stops.
LEMMA ReceivedDone ==
    ASSUME Known, NEW g \in Greenlet, ReceivedStop(g) PROVE Done(g)
<1> USE DEF Known
<1>1. /\ TypeOK /\ At(g, "ls_mark") /\ Home[g] \in Worker
      /\ UNCHANGED <<owner, manager, stray, ending, alive, heartbeat>>
      /\ metadata' = IF metadata.exists THEN HashState("stopping") ELSE metadata
  BY DEF ReceivedStop, local, world
<1>2. IF Home[g] \in buffer THEN View(g, "st_flag", Rest) ELSE View(g, "idle", frame[g])
  <2>1. Rest \in Frame /\ {"st_flag", "idle"} \subseteq Label
    BY RestTyped DEF Label
  <2> QED
    BY <1>1, <2>1, GoView, GotoView DEF ReceivedStop
<1>3. OnlyRuns(Home[g])
  BY <1>1 DEF At, SerialInv, Coherent, RunnersKnown
<1>4. Runners'
  <2>1. ASSUME NEW w \in Worker, manager'[w] = "running" PROVE RunsRight(w)'
    <3>1. w = Home[g] /\ RunsRight(w)
      BY <1>1, <1>3, <2>1 DEF OnlyRuns, SerialInv, Runners
    <3>2. w \in buffer
      BY <1>1, <2>1 DEF LocalTogether
    <3>3. Halting(w)'
      BY <1>2, <3>1, <3>2 DEF Halting, View
    <3>4. metadata'.exists /\ metadata'.owner = metadata.owner
      BY <1>1, <3>1 DEF RunsRight, HashState, TypeOK
    <3> QED
      BY <1>1, <3>1, <3>3, <3>4 DEF RunsRight
  <2> QED
    BY <1>1, <2>1 DEF SerialInv, Runners
<1>5. Coherent(g)'
  BY <1>1, <1>2, <1>3
     DEF At, View, Coherent, RunnersKnown, EndingKnown, KeysKnown, CallsKnown,
         Fresh, Starting, Ending, Halts, OnlyRuns, Rest
<1> QED
  BY <1>1, <1>2, <1>4, <1>5 DEF Done, At, View, Fewer

\* Renew: SET NX does not take the lease from one who runs the channel.
LEMMA RenewDone ==
    ASSUME Known, NEW g \in Greenlet, Renew(g) PROVE Done(g)
<1> USE DEF Known
<1> DEFINE l == IF At(g, "cy_renew") THEN "cy_clients"
                ELSE IF owner = None \/ Home[g] \in viewers THEN "idle" ELSE "cn_check"
<1>1. /\ TypeOK /\ (At(g, "cy_renew") \/ At(g, "cn_renew")) /\ Goto(g, l)
      /\ owner' = IF owner = None THEN Home[g] ELSE owner
      /\ UNCHANGED <<metadata, manager, stray, ending, alive, heartbeat>>
  BY DEF Renew, local, world
<1>2. View(g, l, frame[g])
  <2>1. l \in Label
    BY DEF Label
  <2> HIDE DEF l
  <2> QED
    BY <1>1, <2>1, GotoView
<1>3. Others(g) /\ frame[g].pc \in {"cy_renew", "cn_renew"} /\ Home[g] \in alive /\ Fewer
  BY <1>1, <1>2 DEF View, At, Fewer
<1>4. Runners'
  <2>1. \A w \in Worker : manager'[w] = "running" =>
            owner' = w /\ metadata'.exists /\ metadata'.owner = w /\ metadata'.state = metadata.state
    BY <1>1 DEF SerialInv, Runners, RunsRight
  <2>2. stray' = {}
    BY <1>1 DEF SerialInv, Runners
  <2> QED
    BY <1>1, <1>3, <2>1, <2>2, KeptRunners
<1>5. Coherent(g)'
  BY <1>1, <1>2, <1>3
     DEF At, View, SerialInv, Coherent, RunnersKnown, EndingKnown, KeysKnown, CallsKnown,
         Fresh, Starting, Ending, Halts, OnlyRuns
<1> QED
  BY <1>1, <1>3, <1>4, <1>5 DEF Done

\* Activate: the record of a running channel says so.
LEMMA ActivateDone ==
    ASSUME Known, NEW g \in Greenlet, Activate(g) PROVE Done(g)
<1> USE DEF Known
<1>1. /\ TypeOK /\ At(g, "cy_activate") /\ metadata' = HashState("active")
      /\ UNCHANGED <<owner, manager, stray, ending, alive, heartbeat>>
  BY DEF Activate, local, world
<1>2. View(g, "idle", frame[g])
  BY <1>1, GotoView DEF Activate, Label
<1>3. Others(g) /\ frame[g].pc = "cy_activate" /\ Home[g] \in alive /\ Fewer
  BY <1>1, <1>2 DEF View, At, Fewer
<1>4. Runners'
  <2>1. metadata'.exists /\ metadata'.owner = metadata.owner /\ metadata'.state = "active"
    BY <1>1 DEF HashState, TypeOK
  <2>2. \A w \in Worker : manager'[w] = "running" => owner' = w /\ metadata'.owner = w
    BY <1>1, <2>1 DEF SerialInv, Runners, RunsRight
  <2>3. stray' = {}
    BY <1>1 DEF SerialInv, Runners
  <2> QED
    BY <1>1, <1>3, <2>1, <2>2, <2>3, KeptRunners
<1>5. Coherent(g)'
  BY <1>2 DEF View, Coherent, RunnersKnown, EndingKnown, KeysKnown, CallsKnown,
         Fresh, Starting, Ending, Halts
<1> QED
  BY <1>1, <1>3, <1>4, <1>5 DEF Done

\* CleanNotOwned: nobody who runs the channel is dropped.
LEMMA CleanDone ==
    ASSUME Known, NEW g \in Greenlet, CleanNotOwned(g) PROVE Done(g)
<1> USE DEF Known
<1>1. /\ TypeOK /\ At(g, "cn_check") /\ (Drop(Home[g]) \/ UNCHANGED local)
      /\ UNCHANGED <<owner, metadata, alive, heartbeat>>
  BY DEF CleanNotOwned, redis, world
<1>2. View(g, "idle", frame[g])
  BY <1>1, GotoView DEF CleanNotOwned, Label
<1>3. manager[Home[g]] # "running"
  BY <1>1 DEF At, SerialInv, Coherent, RunnersKnown
<1>4. Fewer /\ stray' = {} /\ ending' = ending
  BY <1>1, <1>3 DEF Drop, EndThread, Fewer, local, TypeOK, SerialInv, Runners
<1>5. Others(g) /\ frame[g].pc = "cn_check" /\ Home[g] \in alive
  BY <1>1, <1>2 DEF View, At
<1>6. \A w \in Worker : manager'[w] = "running" =>
          owner' = w /\ metadata'.exists /\ metadata'.owner = w /\ metadata'.state = metadata.state
  BY <1>1, <1>4 DEF SerialInv, Runners, RunsRight, Fewer
<1>7. Runners'
  BY <1>1, <1>4, <1>5, <1>6, KeptRunners
<1>8. Coherent(g)'
  BY <1>2 DEF View, Coherent, RunnersKnown, EndingKnown, KeysKnown, CallsKnown,
         Fresh, Starting, Ending, Halts
<1> QED
  BY <1>1, <1>4, <1>5, <1>7, <1>8 DEF Done

\* ReadOwner: whose thread ends does not run the channel, and who reports that owns it.
LEMMA ReportDone ==
    ASSUME Known, NEW g \in Greenlet, ReadOwner(g), frame' # frame PROVE Done(g)
<1> USE DEF Known
<1>1. /\ TypeOK /\ At(g, "idle") /\ Home[g] \in ending /\ ending' \subseteq ending
      /\ UNCHANGED <<owner, metadata, manager, stray, alive, heartbeat>>
      /\ owner \in {None, Home[g]}
  BY DEF ReadOwner, Starts, redis, world
<1>2. View(g, "th_error", frame[g]) \/ View(g, "th_state", frame[g])
  BY <1>1, GotoView DEF ReadOwner, Label
<1>3. NoneRuns
  BY <1>1 DEF NoneRuns, SerialInv, Runners, RunsRight
<1>4. Runners' /\ Fewer
  <2>1. NoneRuns' /\ stray' = {}
    BY <1>1, <1>3 DEF NoneRuns, SerialInv, Runners
  <2> QED
    BY <2>1, NoRunners
<1>5. Coherent(g)'
  BY <1>1, <1>2, <1>3
     DEF View, Coherent, RunnersKnown, EndingKnown, KeysKnown, CallsKnown,
         Fresh, Starting, Ending, Halts, NoneRuns
<1> QED
  BY <1>1, <1>2, <1>4, <1>5 DEF Done, At, View

-----------------------------------------------------------------------------
(* Steps that move no greenlet, and the steps of the environment.          *)

\* What the invariant needs of a step that moves no greenlet.
Passive ==
    /\ UNCHANGED <<frame, owner, buffer, alive, heartbeat>>
    /\ Fewer /\ Runners'
    /\ \A w \in Worker : manager[w] = "none" <=> manager'[w] = "none"
    /\ \A w \in Worker : w \in ending' => w \in ending \/ manager[w] = "running"
    /\ metadata' = metadata \/ ~NoneRuns

\* Such a step keeps the invariant.
LEMMA PassiveKeeps ==
    ASSUME Known, Passive PROVE SerialInv'
<1>1. NobodyElse' /\ Living'
  BY DEF Known, SerialInv, NobodyElse, Living, Passive, Busy, Checking
<1>2. ASSUME NEW g \in Greenlet PROVE Coherent(g)'
  <2>1. Coherent(g) /\ Home[g] \in Worker
    BY DEF Known, SerialInv
  <2>2. Fresh(g) => Fresh(g)' /\ NoneRuns
    BY <2>1 DEF Coherent, RunnersKnown, Fresh, Passive
  <2>3. RunnersKnown(g)'
    BY <2>1 DEF Coherent, RunnersKnown, Fresh, Passive, Fewer, NoneRuns, OnlyRuns
  <2>4. EndingKnown(g)'
    BY <2>1, <2>2 DEF Coherent, EndingKnown, Fresh, Passive, NoneRuns
  <2>5. KeysKnown(g)'
    BY <2>1, <2>2 DEF Coherent, KeysKnown, Fresh, Starting, Passive
  <2>6. CallsKnown(g)'
    BY <2>1 DEF Coherent, CallsKnown, Passive
  <2> QED
    BY <2>3, <2>4, <2>5, <2>6 DEF Coherent
<1> QED
  BY <1>1, <1>2 DEF SerialInv, Passive

\* The steps of greenlets that stay where they are.
LEMMA StayingPassive ==
    ASSUME Known, NEW g \in Greenlet,
           \/ Receive(g, "stop") /\ owner # Home[g]
           \/ Receive(g, "left") /\ owner # Home[g]
           \/ SetWaiting(g) \/ CountBytes(g) \/ ReportSpeed(g) \/ RunEnds(g)
           \/ ReadOwner(g) /\ frame' = frame
    PROVE  Passive
<1> USE DEF Known
<1>1. /\ TypeOK /\ At(g, "idle") /\ stray = {} /\ Home[g] \in Worker
      /\ UNCHANGED <<frame, owner, buffer, alive, heartbeat>>
  BY DEF Receive, SetWaiting, CountBytes, ReportSpeed, RunEnds, ReadOwner, Starts, SerialInv,
     Runners,
         redis, local, world
<1>2. Others(g) /\ frame[g].pc \notin {"st_flag", "st_owner"}
  BY <1>1 DEF Others, At
<1>3. CASE RunEnds(g)
  <2>1. /\ manager' = [manager EXCEPT ![Home[g]] = "ended"] /\ stray' = {}
        /\ manager[Home[g]] = "running" /\ ending' = ending \cup {Home[g]} /\ metadata' = metadata
    BY <1>1, <1>3 DEF RunEnds, redis
  <2>2. /\ \A w \in Worker : manager[w] = "none" <=> manager'[w] = "none"
        /\ \A w \in Worker : w \in ending' => w \in ending \/ manager[w] = "running"
        /\ \A w \in Worker : manager'[w] = "running" => manager[w] = "running" /\ w # Home[g]
    BY <1>1, <2>1 DEF TypeOK
  <2>3. \A w \in Worker : w \in ending' => manager'[w] # "running"
    BY <2>1, <2>2 DEF SerialInv, Runners
  <2>4. \A w \in Worker : RunsRight(w) => RunsRight(w)'
    BY <1>1, <2>1 DEF RunsRight, Halting
  <2> QED
    BY <1>1, <2>1, <2>2, <2>3, <2>4 DEF Passive, Fewer, SerialInv, Runners
<1>4. CASE ~RunEnds(g)
  <2>1. /\ manager' = manager /\ stray' = {} /\ ending' \subseteq ending
        /\ \/ metadata' = metadata
           \/ /\ Home[g] \in Providers /\ metadata'.owner = metadata.owner /\ metadata'.exists
              /\ metadata'.state = metadata.state \/ metadata'.state \in {"pre", "active"}
    <3>1. CASE Receive(g, "stop") \/ Receive(g, "left")
      BY <1>1, <3>1 DEF Receive, redis, local
    <3>2. CASE SetWaiting(g)
      BY <1>1, <3>2 DEF SetWaiting, Providers, HashState, TypeOK, local
    <3>3. CASE CountBytes(g)
      BY <1>1, <3>3 DEF CountBytes, TypeOK, local
    <3>4. CASE ReportSpeed(g)
      BY <1>1, <3>4 DEF ReportSpeed, HashState, TypeOK, local
    <3>5. CASE ReadOwner(g)
      BY <1>1, <3>5 DEF ReadOwner, redis
    <3> QED
      BY <1>4, <3>1, <3>2, <3>3, <3>4, <3>5
  <2>2. metadata' = metadata \/ ~NoneRuns
    BY <1>1, <2>1 DEF Providers, NoneRuns
  <2>3. Fewer
    BY <2>1 DEF Fewer
  <2>4. Runners'
    BY <1>1, <1>2, <2>1, <2>3, KeptRunners DEF SerialInv, Runners, RunsRight
  <2> QED
    BY <1>1, <2>1, <2>2, <2>3, <2>4 DEF Passive
<1> QED
  BY <1>3, <1>4

\* A worker that dies takes what it ran with it.
LEMMA CrashKeeps ==
    ASSUME Known, NEW v \in Worker, Crash(v) PROVE SerialInv'
<1> USE DEF Known
<1>1. /\ TypeOK /\ alive' = alive \ {v} /\ manager' = [manager EXCEPT ![v] = "none"]
      /\ stray' = stray \ {v} /\ ending' = ending \ {v} /\ buffer' = buffer \ {v}
      /\ UNCHANGED <<owner, metadata, heartbeat>>
  BY DEF Crash, redis
<1>2. \A g \in Greenlet : frame'[g] = IF Home[g] = v THEN Rest ELSE frame[g]
  BY DEF Crash
<1>3. Rest.pc = "idle"
  BY DEF Rest
<1>4. \A w \in Worker : w # v => manager'[w] = manager[w] /\ (w \in ending' <=> w \in ending)
                                 /\ (w \in buffer' <=> w \in buffer)
  BY <1>1 DEF TypeOK
<1>5. \A w \in Worker : manager'[w] = "running" => manager[w] = "running" /\ w # v
  BY <1>1 DEF TypeOK
<1>6. NobodyElse' /\ Living'
  BY <1>1, <1>2, <1>3 DEF SerialInv, NobodyElse, Living, Busy, Checking
<1>7. Runners'
  <2>1. \A w \in Worker : w # v /\ Halting(w) => Halting(w)'
    BY <1>2 DEF Halting
  <2> QED
    BY <1>1, <1>4, <1>5, <2>1 DEF SerialInv, Runners, RunsRight
<1>8. ASSUME NEW g \in Greenlet PROVE Coherent(g)'
  <2>1. CASE Home[g] = v
    <3>1. frame'[g].pc = "idle"
      BY <1>2, <1>3, <2>1
    <3> QED
      BY <3>1 DEF Coherent, RunnersKnown, EndingKnown, KeysKnown, CallsKnown, Fresh, Starting,
                  Ending, Halts
  <2>2. CASE Home[g] # v
    <3>1. /\ frame'[g] = frame[g] /\ Coherent(g) /\ Home[g] \in Worker
          /\ manager'[Home[g]] = manager[Home[g]]
          /\ (Home[g] \in ending' <=> Home[g] \in ending)
          /\ (Home[g] \in buffer' <=> Home[g] \in buffer)
      BY <1>2, <1>4, <2>2 DEF SerialInv
    <3>2. (NoneRuns => NoneRuns') /\ \A w : OnlyRuns(w) => OnlyRuns(w)'
      BY <1>5 DEF NoneRuns, OnlyRuns
    <3> QED
      BY <1>1, <3>1, <3>2 DEF Coherent, RunnersKnown, EndingKnown, KeysKnown, CallsKnown, Fresh
  <2> QED
    BY <2>1, <2>2
<1> QED
  BY <1>6, <1>7, <1>8 DEF SerialInv

\* What happens by itself takes neither the lease nor the record from who is at work.
LEMMA EnvironmentKeeps ==
    ASSUME Known, Environment, "delay" \notin Faults PROVE SerialInv'
<1> USE DEF Known
<1>1. CASE LeaseExpires
  <2>1. /\ TypeOK /\ owner # None /\ NotRenewed(owner) /\ owner' = None
        /\ UNCHANGED <<metadata, manager, stray, ending, buffer, alive, heartbeat, frame>>
    BY <1>1 DEF LeaseExpires, local, world
  <2>2. \A w \in Worker : manager[w] = "running" => owner # w
    BY <2>1 DEF SerialInv, Runners, RunsRight, NotRenewed, IsLocal
  <2>3. NoneRuns /\ NoneRuns' /\ stray' = {}
    BY <2>1, <2>2 DEF NoneRuns, SerialInv, Runners, RunsRight
  <2>4. \A g \in Greenlet : frame[g].pc # "idle" => owner # Home[g]
    BY <2>1 DEF NotRenewed, SerialInv, Living, Busy
  <2>5. ASSUME NEW g \in Greenlet PROVE Coherent(g)'
    <3>1. Coherent(g)
      BY DEF SerialInv
    <3> QED
      BY <2>1, <2>3, <2>4, <3>1
         DEF Coherent, RunnersKnown, EndingKnown, KeysKnown, CallsKnown, Fresh, NoneRuns, OnlyRuns
  <2>6. NobodyElse' /\ Living'
    BY <2>1 DEF SerialInv, NobodyElse, Living, Busy, Checking
  <2> QED
    BY <2>3, <2>5, <2>6, NoRunners DEF SerialInv
<1>2. CASE MetadataExpires
  <2>1. /\ TypeOK /\ buffer \cap alive = {}
        /\ UNCHANGED <<owner, manager, stray, ending, buffer, alive, heartbeat, frame>>
    BY <1>2 DEF MetadataExpires, local, world
  <2>2. NoneRuns /\ NoneRuns' /\ stray' = {}
    BY <2>1 DEF NoneRuns, SerialInv, Runners, RunsRight, LocalTogether
  <2>3. ASSUME NEW g \in Greenlet PROVE Coherent(g)'
    <3>1. Coherent(g)
      BY DEF SerialInv
    <3>2. frame[g].pc # "create"
      BY <2>1, <3>1 DEF Coherent, KeysKnown, SerialInv, Living, Busy
    <3> QED
      BY <2>1, <2>2, <3>1, <3>2
         DEF Coherent, RunnersKnown, EndingKnown, KeysKnown, CallsKnown, Fresh, NoneRuns, OnlyRuns
  <2>4. NobodyElse' /\ Living'
    BY <2>1 DEF SerialInv, NobodyElse, Living, Busy, Checking
  <2> QED
    BY <2>2, <2>3, <2>4, NoRunners DEF SerialInv
<1>3. CASE StoppingExpires \/ \E w \in Worker : HeartbeatExpires(w) \/ ClientExpires(w)
  <2>1. /\ UNCHANGED <<owner, metadata, manager, stray, ending, buffer, alive, frame>>
        /\ alive \subseteq heartbeat'
    BY <1>3 DEF StoppingExpires, HeartbeatExpires, ClientExpires, redis, local, world,
       SerialInv, Living
  <2>2. ASSUME NEW g \in Greenlet PROVE Coherent(g)'
    <3>1. Coherent(g)
      BY DEF SerialInv
    <3> QED
      BY <2>1, <3>1
         DEF Coherent, RunnersKnown, EndingKnown, KeysKnown, CallsKnown, Fresh, NoneRuns, OnlyRuns
  <2>3. NobodyElse' /\ Living' /\ Runners'
    BY <2>1 DEF SerialInv, NobodyElse, Living, Busy, Checking, Runners, RunsRight, Halting
  <2> QED
    BY <2>2, <2>3 DEF SerialInv
<1>4. CASE \E w \in Worker : Crash(w)
  BY <1>4, CrashKeeps
<1> QED
  BY <1>1, <1>2, <1>3, <1>4 DEF Environment

-----------------------------------------------------------------------------
(* The theorem.                                                            *)

\* One greenlet's step leaves the others coherent: they are at rest, or all but
\* create no manager.
LEMMA DoneKeeps ==
    ASSUME Known, NEW g \in Greenlet, Done(g), NobodyElse' PROVE SerialInv'
<1> USE DEF Known
<1>1. \A h \in Greenlet \ {g} : frame'[h] = frame[h]
  BY DEF Done, Others
<1>2. Living'
  <2>1. \A h \in Busy' : h = g \/ h \in Busy
    BY <1>1 DEF Busy
  <2> QED
    BY <2>1 DEF Living, Done, SerialInv
<1>3. ASSUME NEW h \in Greenlet \ {g}, frame[h].pc # "idle" PROVE h \in Checking /\ Fewer
  <2>1. CASE frame[g].pc # "idle"
    BY <1>3, <2>1 DEF SerialInv, NobodyElse, Busy, Checking, Done
  <2>2. CASE frame[g].pc = "idle" /\ frame'[g].pc # "idle"
    BY <1>1, <1>3, <2>2 DEF NobodyElse, Busy, Checking, Done
  <2> QED
    BY <2>1, <2>2 DEF Done
<1>4. ASSUME NEW h \in Greenlet \ {g} PROVE Coherent(h)'
  <2>1. frame'[h] = frame[h] /\ Coherent(h) /\ Home[h] \in Worker
    BY <1>1 DEF SerialInv
  <2>2. CASE frame[h].pc = "idle"
    BY <2>1, <2>2 DEF Coherent, RunnersKnown, EndingKnown, KeysKnown, CallsKnown, Fresh, Starting,
                      Ending, Halts
  <2>3. CASE frame[h].pc # "idle"
    BY <1>3, <2>1, <2>3 DEF Checking, Fewer, Coherent, RunnersKnown, EndingKnown, KeysKnown,
       CallsKnown,
                            Fresh, Starting, Ending, Halts, OnlyRuns
  <2> QED
    BY <2>2, <2>3
<1> QED
  BY <1>2, <1>4 DEF Done, SerialInv

\* Alone says of a finite set of greenlets that a request is the only one at work.
LEMMA AloneApart == ASSUME Alone' PROVE NobodyElse'
<1>1. CASE Cardinality(Busy') = 1
  <2>1. IsFiniteSet(Busy')
    BY FS_Subset DEF Busy
  <2>2. PICK g : Busy' = {g}
    BY <1>1, <2>1, FS_Singleton
  <2> QED
    BY <2>2 DEF NobodyElse
<1>2. CASE Busy' \subseteq Checking'
  BY <1>2 DEF NobodyElse
<1> QED
  BY <1>1, <1>2 DEF Alone

\* Every step of a greenlet but a user's stop keeps the invariant.
LEMMA StepKeeps ==
    ASSUME Known, Serial, NEW g \in Greenlet, Step(g), NobodyElse', "stop" \notin Ops[g]
    PROVE  SerialInv'
<1>1. CASE StartWatch(g) \/ CheckExists(g) \/ InitRead(g) \/ InitCreate(g) \/ InitConnecting(g)
  <2>1. Done(g)
    BY <1>1, StartWatchDone, StartExistsDone, StopExistsDone, InitReadDone, CreateDone,
       ConnectingDone
       DEF CheckExists
  <2> QED
    BY <2>1, DoneKeeps
<1>2. CASE Watch(g) \/ Leave(g) \/ Stop(g)
  <2>1. ~StartStop(g)
    BY DEF StartStop, Starts
  <2>2. CASE Watch(g)
    <3>1. \/ Done(g) \/ StartWatch(g) \/ CheckExists(g)
          \/ InitRead(g) \/ InitCreate(g) \/ InitConnecting(g)
      BY <2>2, StartSteps DEF Watch, Initialize
    <3> QED
      BY <1>1, <3>1, DoneKeeps
  <2>3. CASE Leave(g) \/ Stop(g)
    <3>1. Done(g)
      BY <2>1, <2>3, StopSteps DEF Leave, Stop, StopChannel, ReleaseOwnership
    <3> QED
      BY <3>1, DoneKeeps
  <2> QED
    BY <1>2, <2>2, <2>3
<1>3. CASE Listen(g)
  <2>1. Done(g) \/ Passive
    BY <1>3, ReceiveDone, ReceivedDone, StayingPassive DEF Listen
  <2> QED
    BY <2>1, DoneKeeps, PassiveKeeps
<1>4. CASE Cycle(g) \/ Orphans(g)
  <2>1. Done(g)
    BY <1>4, CheckSteps, RenewDone, ActivateDone, CleanDone DEF Cycle, Orphans
  <2> QED
    BY <2>1, DoneKeeps
<1>5. CASE Thread(g)
  <2>1. Done(g) \/ Passive
    BY <1>5, CheckSteps, ReportDone, StayingPassive DEF Thread
  <2> QED
    BY <2>1, DoneKeeps, PassiveKeeps
<1> QED
  BY <1>2, <1>3, <1>4, <1>5 DEF Step

\* The invariant is inductive together with the types and with what a worker has
\* of the channel staying together.
LEMMA SerialInductive ==
    ASSUME Serial, "delay" \notin Faults, \A g \in Greenlet : "stop" \notin Ops[g],
           Known, [Next]_vars
    PROVE  SerialInv'
<1>1. CASE \E g \in Greenlet : Step(g) /\ (Serial => Alone')
  BY <1>1, AloneApart, StepKeeps
<1>2. CASE Environment
  BY <1>2, EnvironmentKeeps
<1>3. CASE UNCHANGED vars
  <2>1. UNCHANGED <<owner, metadata, manager, stray, ending, buffer, alive, heartbeat, frame>>
    BY <1>3 DEF vars, redis, local, world
  <2>2. ASSUME NEW g \in Greenlet PROVE Coherent(g)'
    <3>1. Coherent(g)
      BY DEF Known, SerialInv
    <3> QED
      BY <2>1, <3>1
         DEF Coherent, RunnersKnown, EndingKnown, KeysKnown, CallsKnown, Fresh, NoneRuns, OnlyRuns
  <2>3. NobodyElse' /\ Living' /\ Runners'
    BY <2>1 DEF Known, SerialInv, NobodyElse, Living, Busy, Checking, Runners, RunsRight, Halting
  <2> QED
    BY <2>2, <2>3 DEF SerialInv
<1> QED
  BY <1>1, <1>2, <1>3 DEF Next

\* At the start nobody has the channel.
LEMMA SerialStart == Init => SerialInv
<1> SUFFICES ASSUME Init PROVE SerialInv
  OBVIOUS
<1>1. Rest.pc = "idle"
  BY DEF Rest
<1>2. \A g \in Greenlet : frame[g].pc = "idle"
  BY <1>1 DEF Init
<1>3. NobodyElse /\ Living /\ Runners
  BY <1>2 DEF Init, NobodyElse, Living, Busy, Runners
<1>4. \A g \in Greenlet : Coherent(g)
  BY <1>2 DEF Coherent, RunnersKnown, EndingKnown, KeysKnown, CallsKnown, Fresh, Starting,
     Ending, Halts
<1> QED
  BY <1>3, <1>4 DEF SerialInv

\* What the invariant says of a quiet channel.
LEMMA SerialProvides ==
    ASSUME SerialInv PROVE ProvidersOwn /\ NothingLeft
<1>1. \A w \in Providers : manager[w] = "running" /\ RunsRight(w)
  BY DEF SerialInv, Runners, Providers
<1>2. OneProvider
  <2>1. Providers = {} \/ Providers = {owner}
    BY <1>1 DEF RunsRight
  <2>2. Cardinality(Providers) \in {0, 1}
    BY <2>1, FS_EmptySet, FS_Singleton
  <2> QED
    BY <2>2 DEF OneProvider
<1>3. ProviderOwns
  BY <1>1 DEF ProviderOwns, RunsRight
<1>4. NoRecordNoProvider
  <2>1. Quiet => \A w \in Worker : ~Halting(w)
    BY DEF Quiet, Busy, Halting
  <2> QED
    BY <1>1, <2>1 DEF NoRecordNoProvider, RunsRight, Providers, State
<1>5. NoStray
  BY DEF NoStray, SerialInv, Runners
<1> QED
  BY <1>2, <1>3, <1>4, <1>5 DEF ProvidersOwn, NothingLeft

\* The invariant of a system in which starts, leaves and failure reports do not
\* overlap, no timer runs ahead, and no user stops the channel.
LEMMA SerialInvariant ==
    ASSUME Serial, "delay" \notin Faults, \A g \in Greenlet : "stop" \notin Ops[g]
    PROVE  Spec => []SerialInv
<1>1. Init => SerialInv
  BY SerialStart
<1>2. TypeOK /\ LocalTogether /\ SerialInv /\ [Next]_vars => SerialInv'
  BY SerialInductive DEF Known
<1> QED
  BY <1>1, <1>2, TypeInvariant, ResourcesTogether, PTL DEF Spec

\* With one start, leave or failure report at a time, whatever fails or crashes
\* meanwhile, at most one worker is connected to the provider, and when the channel
\* is quiet that worker has the lease (initialize_channel, extend_ownership).
THEOREM OwnerProvides ==
    ASSUME Serial, "delay" \notin Faults, \A g \in Greenlet : "stop" \notin Ops[g]
    PROVE  Spec => []ProvidersOwn
  BY SerialInvariant, SerialProvides, PTL

\* In the same system no stream thread runs that stream_managers does not have, and
\* no provider is connected for a quiet channel whose record is gone (stop_channel,
\* _cleanup_local_resources).
THEOREM NothingStays ==
    ASSUME Serial, "delay" \notin Faults, \A g \in Greenlet : "stop" \notin Ops[g]
    PROVE  Spec => []NothingLeft
  BY SerialInvariant, SerialProvides, PTL
=============================================================================
