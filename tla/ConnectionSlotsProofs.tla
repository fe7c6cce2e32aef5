----------------------- MODULE ConnectionSlotsProofs -----------------------
(***************************************************************************)
(* Proofs about ConnectionSlots: the Redis keys, the fallback fields and   *)
(* the handlers' locals keep their types, and no key is ever built from a  *)
(* missing id, whatever the requests do and in whatever order; and without *)
(* failover a profile never counts more connections than its limit and the *)
(* increments that are about to be rolled back. When, moreover, a channel  *)
(* has one request at a time, the counters are exact, and the Redis        *)
(* commands implement the pool of slots that SlotPool promises.            *)
(***************************************************************************)
EXTENDS ConnectionSlots, FiniteSetTheorems, TLAPS

USE SlotsAssumption DEF AllOps

\* A candidate is a stream and a profile, at a positive position.
LEMMA CandidateType ==
    ASSUME NEW c \in Channel, NEW i \in DOMAIN Candidates[c]
    PROVE  /\ i \in Nat \ {0}
           /\ Candidates[c][i][1] \in StreamsOf(c)
           /\ Candidates[c][i][1] \in Stream
           /\ Candidates[c][i][2] \in Profile
<1>1. Candidates[c] \in Seq(Stream \X Profile)
  OBVIOUS
<1>2. /\ i \in Nat \ {0}
      /\ Candidates[c][i] \in Stream \X Profile
  BY <1>1
<1> QED
  BY <1>2 DEF StreamsOf

LEMMA StreamsType == ASSUME NEW c \in Channel PROVE StreamsOf(c) \subseteq Stream
  BY CandidateType DEF StreamsOf

LEMMA FreshType ==
    ASSUME NEW l \in Label, NEW n \in 0..MaxAttempts,
           NEW b \in ReturnLabel
    PROVE  Fresh(l, b, n) \in Frame
  BY DEF Fresh, Frame

LEMMA IdleType == Idle \in Frame
  BY FreshType DEF Idle, Label, ReturnLabel

\* A step of r leaves every other request where it is.
LEMMA GoFrame ==
    ASSUME NEW r \in Request, NEW g \in Frame, NEW l \in Label,
           frame \in [Request -> Frame], Go(r, g, l)
    PROVE  /\ frame' \in [Request -> Frame]
           /\ \A q \in Request \ {r} : frame'[q] = frame[q]
           /\ frame'[r] = IF l = "idle" THEN Idle ELSE [g EXCEPT !.pc = l]
<1>1. [g EXCEPT !.pc = l] \in Frame
  BY DEF Frame
<1> QED
  BY <1>1, IdleType DEF Go, Set

LEMMA CallFrame ==
    ASSUME NEW r \in Request, NEW l \in Label, NEW n \in 0..MaxAttempts,
           NEW b \in ReturnLabel,
           frame \in [Request -> Frame], Call(r, l, b, n)
    PROVE  /\ frame' \in [Request -> Frame]
           /\ \A q \in Request \ {r} : frame'[q] = frame[q]
           /\ frame'[r] = Fresh(l, b, n)
  BY FreshType DEF Call, Set

\* Updates of the locals keep their types.
LEMMA UpdateType ==
    ASSUME NEW f \in Frame
    PROVE  /\ \A x \in Stream \cup {None} : [f EXCEPT !.stream = x] \in Frame
           /\ \A x \in Profile \cup {None} : [f EXCEPT !.profile = x] \in Frame
           /\ \A x \in Stream \cup {None}, y \in Profile \cup {None} :
                 [f EXCEPT !.stream = x, !.profile = y] \in Frame
           /\ [f EXCEPT !.index = @ + 1] \in Frame
           /\ \A n \in Int : [f EXCEPT !.count = n] \in Frame
           /\ \A x \in Profile \cup {None}, n \in Int :
                 [f EXCEPT !.profile = x, !.count = n] \in Frame
           /\ \A x \in Stream \cup {None}, y \in Profile \cup {None} :
                 [f EXCEPT !.oldStream = x, !.oldProfile = y] \in Frame
           /\ \A y \in Profile \cup {None} : [f EXCEPT !.oldProfile = y] \in Frame
           /\ f.pc \in Label /\ f.ret \in ReturnLabel /\ f.ret \in Label
           /\ f.stream \in Stream \cup {None} /\ f.profile \in Profile \cup {None}
           /\ f.oldStream \in Stream \cup {None} /\ f.oldProfile \in Profile \cup {None}
           /\ f.index \in Nat \ {0} /\ f.attempts \in 0..MaxAttempts /\ f.count \in Int
<1>1. ReturnLabel \subseteq Label
  BY DEF ReturnLabel, Label
<1>2. /\ f.pc \in Label /\ f.ret \in ReturnLabel
      /\ f.stream \in Stream \cup {None} /\ f.profile \in Profile \cup {None}
      /\ f.oldStream \in Stream \cup {None} /\ f.oldProfile \in Profile \cup {None}
      /\ f.index \in Nat \ {0} /\ f.attempts \in 0..MaxAttempts /\ f.count \in Int
  BY DEF Frame
<1>3. [f EXCEPT !.index = @ + 1] \in Frame
  <2>1. f.index + 1 \in Nat \ {0}
    BY <1>2
  <2> QED
    BY <2>1 DEF Frame
<1>4. ASSUME NEW x \in Stream \cup {None}, NEW y \in Profile \cup {None}, NEW n \in Int
      PROVE  /\ [f EXCEPT !.stream = x] \in Frame
             /\ [f EXCEPT !.profile = y] \in Frame
             /\ [f EXCEPT !.count = n] \in Frame
             /\ [f EXCEPT !.oldProfile = y] \in Frame
  BY DEF Frame
<1>5. ASSUME NEW x \in Stream \cup {None}, NEW y \in Profile \cup {None}, NEW n \in Int
      PROVE  /\ [f EXCEPT !.stream = x, !.profile = y] \in Frame
             /\ [f EXCEPT !.profile = y, !.count = n] \in Frame
             /\ [f EXCEPT !.oldStream = x, !.oldProfile = y] \in Frame
  BY DEF Frame
<1> QED
  BY <1>1, <1>2, <1>3, <1>4, <1>5


\* The inductive invariant behind TypeOK: the locals a label uses are there.
TypeInv == TypeOK /\ LocalsPresent

\* What one request's move has to show for the frames of all of them.
FramesOK == frame \in [Request -> Frame] /\ LocalsPresent

\* A request that goes on at a label that has the locals it needs.
LEMMA Moved ==
    ASSUME FramesOK, NEW r \in Request, NEW g \in Frame, NEW l \in Label,
           Go(r, g, l), l = "idle" \/ Present([g EXCEPT !.pc = l])
    PROVE  FramesOK'
<1>1. /\ frame' \in [Request -> Frame]
      /\ \A q \in Request \ {r} : frame'[q] = frame[q]
      /\ frame'[r] = IF l = "idle" THEN Idle ELSE [g EXCEPT !.pc = l]
  BY GoFrame, SMTT(30) DEF FramesOK
<1>2. Present(Idle)
  BY DEF Present, Idle, Fresh, UsesStream, UsesProfile, SwitchLabel
<1> QED
  BY <1>1, <1>2 DEF FramesOK, LocalsPresent

\* Calls start with labels that use no locals.
LEMMA Called ==
    ASSUME FramesOK, NEW r \in Request, NEW l \in {"get_cs", "rel_cs"}, NEW n \in 0..MaxAttempts,
           NEW b \in ReturnLabel, Call(r, l, b, n)
    PROVE  FramesOK'
<1>0. l \in Label
  BY DEF Label
<1>1. /\ frame' \in [Request -> Frame]
      /\ \A q \in Request \ {r} : frame'[q] = frame[q]
      /\ frame'[r] = Fresh(l, b, n)
  BY <1>0, CallFrame DEF FramesOK
<1>2. Present(Fresh(l, b, n))
  BY DEF Present, Fresh, UsesStream, UsesProfile, SwitchLabel
<1> QED
  BY <1>1, <1>2 DEF FramesOK, LocalsPresent

\* A step keeps the types of the handlers' locals, and those they need present.
LEMMA FramesStep ==
    ASSUME TypeInv, NEW r \in Request, Step(r) PROVE FramesOK'
<1> DEFINE f == frame[r]
<1>f. /\ FramesOK /\ f \in Frame /\ Present(f)
      /\ ChanOf[r] \in Channel
  BY DEF TypeInv, TypeOK, LocalsPresent, FramesOK
<1>t. /\ f.pc \in Label /\ f.ret \in ReturnLabel /\ f.ret \in Label
      /\ f.stream \in Stream \cup {None} /\ f.profile \in Profile \cup {None}
      /\ f.oldStream \in Stream \cup {None} /\ f.oldProfile \in Profile \cup {None}
      /\ f.index \in Nat \ {0} /\ f.attempts \in 0..MaxAttempts /\ f.count \in Int
  BY <1>f, UpdateType
<1>1. CASE GetStream(r)
  <2>1. CASE GetChannelStream(r)
    <3>0. channelStream[ChanOf[r]] \in Stream \cup {None}
      BY <1>f, <1>t, <2>1 DEF GetChannelStream, At, TypeInv, TypeOK, Present, UsesStream, UsesProfile, SwitchLabel
    <3>1. /\ [f EXCEPT !.stream = channelStream[ChanOf[r]]] \in Frame
          /\ (IF channelStream[ChanOf[r]] = None THEN "reserve" ELSE "get_sp") \in Label
      BY <1>f, <1>t, <3>0, UpdateType DEF Label, SwitchLabel
    <3>2. Present([[f EXCEPT !.stream = channelStream[ChanOf[r]]] EXCEPT !.pc = IF channelStream[ChanOf[r]] = None THEN "reserve" ELSE "get_sp"])
      BY <1>f, <1>t, <3>0, <2>1 DEF GetChannelStream, At, Frame, Present, UsesStream, UsesProfile, SwitchLabel
    <3>3. Go(r, [f EXCEPT !.stream = channelStream[ChanOf[r]]],
             IF channelStream[ChanOf[r]] = None THEN "reserve" ELSE "get_sp")
      BY <2>1 DEF GetChannelStream
    <3> QED
      BY <1>f, <3>1, <3>2, <3>3, Moved
  <2>2. CASE GetStreamProfile(r)
    <3>0. streamProfile[f.stream] \in Profile \cup {None}
      BY <1>f, <1>t, <2>2 DEF GetStreamProfile, At, TypeInv, TypeOK, Present, UsesStream, UsesProfile, SwitchLabel
    <3>1. /\ [f EXCEPT !.profile = streamProfile[f.stream]] \in Frame
          /\ (IF streamProfile[f.stream] = None THEN "reserve" ELSE Found(r)) \in Label
      BY <1>f, <1>t, <3>0, UpdateType DEF Label, SwitchLabel, Found
    <3>2. Present([[f EXCEPT !.profile = streamProfile[f.stream]] EXCEPT !.pc = IF streamProfile[f.stream] = None THEN "reserve" ELSE Found(r)])
      BY <1>f, <1>t, <3>0, <2>2 DEF GetStreamProfile, At, Frame, Present, UsesStream, UsesProfile, SwitchLabel, Found
    <3>3. Go(r, [f EXCEPT !.profile = streamProfile[f.stream]],
             IF streamProfile[f.stream] = None THEN "reserve" ELSE Found(r))
      BY <2>2 DEF GetStreamProfile
    <3> QED
      BY <1>f, <3>1, <3>2, <3>3, Moved
  <2>3. CASE Reserve(r)
    <3> DEFINE i == f.index
               s == Candidates[ChanOf[r]][i][1]
               p == Candidates[ChanOf[r]][i][2]
               g == [f EXCEPT !.stream = s, !.profile = p]
    <3>1. s \in Stream /\ p \in Profile
      BY <1>f, <2>3, CandidateType DEF Reserve
    <3>2. g \in Frame
      BY <1>f, <3>1, UpdateType
    <3>3. PICK l \in {"set_cs", "rollback"} : Go(r, g, l)
      BY <2>3 DEF Reserve
    <3>4. l \in Label
      BY DEF Label
    <3>5. Present([g EXCEPT !.pc = l])
      BY <1>f, <3>1 DEF Frame, Present, UsesStream, UsesProfile, SwitchLabel
    <3> HIDE DEF g
    <3> QED
      BY <1>f, <3>2, <3>3, <3>4, <3>5, Moved
  <2>4. CASE Rollback(r)
    <3>1. /\ [f EXCEPT !.index = @ + 1] \in Frame
          /\ ("reserve") \in Label
      BY <1>f, <1>t, UpdateType DEF Label, SwitchLabel
    <3>2. Present([[f EXCEPT !.index = @ + 1] EXCEPT !.pc = "reserve"])
      BY <1>f, <1>t, <2>4 DEF Rollback, At, Frame, Present, UsesStream, UsesProfile, SwitchLabel
    <3>3. Go(r, [f EXCEPT !.index = @ + 1],
             "reserve")
      BY <2>4 DEF Rollback
    <3> QED
      BY <1>f, <3>1, <3>2, <3>3, Moved
  <2>5. CASE NoCandidateLeft(r)
    <3>1. /\ f \in Frame
          /\ (Refused(r)) \in Label
      BY <1>f, <1>t, UpdateType DEF Label, SwitchLabel, Refused
    <3>2. Present([f EXCEPT !.pc = Refused(r)])
      BY <1>f, <1>t, <2>5 DEF NoCandidateLeft, At, Frame, Present, UsesStream, UsesProfile, SwitchLabel, Refused
    <3> QED
      BY <1>f, <2>5, <3>1, <3>2, Moved DEF NoCandidateLeft, Goto
  <2>6. CASE SetChannelStream(r)
    <3>1. /\ f \in Frame
          /\ ("set_sp") \in Label
      BY <1>f, <1>t, UpdateType DEF Label, SwitchLabel
    <3>2. Present([f EXCEPT !.pc = "set_sp"])
      BY <1>f, <1>t, <2>6 DEF SetChannelStream, At, Frame, Present, UsesStream, UsesProfile, SwitchLabel
    <3> QED
      BY <1>f, <2>6, <3>1, <3>2, Moved DEF SetChannelStream, Goto
  <2>7. CASE SetStreamProfile(r)
    <3>1. /\ f \in Frame
          /\ (Found(r)) \in Label
      BY <1>f, <1>t, UpdateType DEF Label, SwitchLabel, Found
    <3>2. Present([f EXCEPT !.pc = Found(r)])
      BY <1>f, <1>t, <2>7 DEF SetStreamProfile, At, Frame, Present, UsesStream, UsesProfile, SwitchLabel, Found
    <3> QED
      BY <1>f, <2>7, <3>1, <3>2, Moved DEF SetStreamProfile, Goto
  <2> QED
    BY <1>1, <2>1, <2>2, <2>3, <2>4, <2>5, <2>6, <2>7 DEF GetStream
<1>2. CASE Play(r)
  <2>1. CASE StartPlay(r)
    BY <1>f, <1>t, <2>1, Called DEF StartPlay, ReturnLabel
  <2>2. CASE Recheck(r)
    BY <1>f, <1>t, <2>2, Called DEF Recheck, ReturnLabel
  <2>3. CASE Retry(r)
    BY <1>f, <1>t, <2>3, Called DEF Retry, ReturnLabel
  <2>4. CASE GiveUp(r)
    BY <1>f, <1>t, <2>4, Called DEF GiveUp, ReturnLabel
  <2>5. CASE BuildUrl(r)
    <3>1. CASE Goto(r, "read_cs")
      <4>1. "read_cs" \in Label /\ Present([f EXCEPT !.pc = "read_cs"])
        BY <1>f DEF Label, Frame, Present, UsesStream, UsesProfile, SwitchLabel
      <4> QED
        BY <1>f, <3>1, <4>1, Moved DEF Goto
    <3>2. CASE Call(r, "rel_cs", Refused(r), f.attempts)
      BY <1>f, <1>t, <3>2, Called DEF Refused, ReturnLabel
    <3> QED
      BY <2>5, <3>1, <3>2 DEF BuildUrl
  <2>6. CASE ReadChannelStream(r)
    <3>0. channelStream[ChanOf[r]] \in Stream \cup {None}
      BY <1>f, <1>t, <2>6 DEF ReadChannelStream, At, TypeInv, TypeOK, Present, UsesStream, UsesProfile, SwitchLabel
    <3>1. /\ [f EXCEPT !.stream = channelStream[ChanOf[r]], !.profile = None] \in Frame
          /\ (IF channelStream[ChanOf[r]] = None THEN "chosen" ELSE "read_sp") \in Label
      BY <1>f, <1>t, <3>0, UpdateType DEF Label, SwitchLabel
    <3>2. Present([[f EXCEPT !.stream = channelStream[ChanOf[r]], !.profile = None] EXCEPT !.pc = IF channelStream[ChanOf[r]] = None THEN "chosen" ELSE "read_sp"])
      BY <1>f, <1>t, <3>0, <2>6 DEF ReadChannelStream, At, Frame, Present, UsesStream, UsesProfile, SwitchLabel
    <3>3. Go(r, [f EXCEPT !.stream = channelStream[ChanOf[r]], !.profile = None],
             IF channelStream[ChanOf[r]] = None THEN "chosen" ELSE "read_sp")
      BY <2>6 DEF ReadChannelStream
    <3> QED
      BY <1>f, <3>1, <3>2, <3>3, Moved
  <2>7. CASE ReadStreamProfile(r)
    <3>0. streamProfile[f.stream] \in Profile \cup {None}
      BY <1>f, <1>t, <2>7 DEF ReadStreamProfile, At, TypeInv, TypeOK, Present, UsesStream, UsesProfile, SwitchLabel
    <3>1. /\ [f EXCEPT !.profile = streamProfile[f.stream]] \in Frame
          /\ ("chosen") \in Label
      BY <1>f, <1>t, <3>0, UpdateType DEF Label, SwitchLabel
    <3>2. Present([[f EXCEPT !.profile = streamProfile[f.stream]] EXCEPT !.pc = "chosen"])
      BY <1>f, <1>t, <3>0, <2>7 DEF ReadStreamProfile, At, Frame, Present, UsesStream, UsesProfile, SwitchLabel
    <3>3. Go(r, [f EXCEPT !.profile = streamProfile[f.stream]],
             "chosen")
      BY <2>7 DEF ReadStreamProfile
    <3> QED
      BY <1>f, <3>1, <3>2, <3>3, Moved
  <2>8. CASE Redirect(r)
    BY <1>f, <1>t, <2>8, Called DEF Redirect, ReturnLabel
  <2>9. CASE PresetStreamId(r)
    <3>1. /\ f \in Frame
          /\ ("init") \in Label
      BY <1>f, <1>t, UpdateType DEF Label, SwitchLabel
    <3>2. Present([f EXCEPT !.pc = "init"])
      BY <1>f, <1>t, <2>9 DEF PresetStreamId, At, Frame, Present, UsesStream, UsesProfile, SwitchLabel
    <3> QED
      BY <1>f, <2>9, <3>1, <3>2, Moved DEF PresetStreamId, Goto
  <2>10. CASE InitializeChannel(r)
    <3>1. /\ f \in Frame
          /\ ("publish") \in Label
      BY <1>f, <1>t, UpdateType DEF Label, SwitchLabel
    <3>2. Present([f EXCEPT !.pc = "publish"])
      BY <1>f, <1>t, <2>10 DEF InitializeChannel, At, Frame, Present, UsesStream, UsesProfile, SwitchLabel
    <3> QED
      BY <1>f, <2>10, <3>1, <3>2, Moved DEF InitializeChannel, Goto
  <2>11. CASE InitializeFails(r)
    BY <1>f, <1>t, <2>11, Called DEF InitializeFails, ReturnLabel
  <2>12. CASE Publish(r)
    <3>1. /\ f \in Frame
          /\ ("idle") \in Label
      BY <1>f, <1>t, UpdateType DEF Label, SwitchLabel
    <3>2. Present([f EXCEPT !.pc = "idle"])
      BY <1>f, <1>t, <2>12 DEF Publish, At, Frame, Present, UsesStream, UsesProfile, SwitchLabel
    <3> QED
      BY <1>f, <2>12, <3>1, <3>2, Moved DEF Publish, Goto
  <2> QED
    BY <1>2, <2>1, <2>2, <2>3, <2>4, <2>5, <2>6, <2>7, <2>8, <2>9, <2>10, <2>11, <2>12 DEF Play
<1>3. CASE ReleaseByKeys(r)
  <2>1. CASE RelChannelStream(r)
    <3>0. channelStream[ChanOf[r]] \in Stream \cup {None}
      BY <1>f, <1>t, <2>1 DEF RelChannelStream, At, TypeInv, TypeOK, Present, UsesStream, UsesProfile, SwitchLabel
    <3>1. /\ [f EXCEPT !.stream = channelStream[ChanOf[r]]] \in Frame
          /\ (IF channelStream[ChanOf[r]] = None THEN "fb_stream" ELSE "rel_del_cs") \in Label
      BY <1>f, <1>t, <3>0, UpdateType DEF Label, SwitchLabel
    <3>2. Present([[f EXCEPT !.stream = channelStream[ChanOf[r]]] EXCEPT !.pc = IF channelStream[ChanOf[r]] = None THEN "fb_stream" ELSE "rel_del_cs"])
      BY <1>f, <1>t, <3>0, <2>1 DEF RelChannelStream, At, Frame, Present, UsesStream, UsesProfile, SwitchLabel
    <3>3. Go(r, [f EXCEPT !.stream = channelStream[ChanOf[r]]],
             IF channelStream[ChanOf[r]] = None THEN "fb_stream" ELSE "rel_del_cs")
      BY <2>1 DEF RelChannelStream
    <3> QED
      BY <1>f, <3>1, <3>2, <3>3, Moved
  <2>2. CASE DelChannelStream(r, "rel_del_cs", "rel_sp")
    <3>1. /\ f \in Frame
          /\ ("rel_sp") \in Label
      BY <1>f, <1>t, UpdateType DEF Label, SwitchLabel
    <3>2. Present([f EXCEPT !.pc = "rel_sp"])
      BY <1>f, <1>t, <2>2 DEF DelChannelStream, At, Frame, Present, UsesStream, UsesProfile, SwitchLabel
    <3> QED
      BY <1>f, <2>2, <3>1, <3>2, Moved DEF DelChannelStream, Goto
  <2>3. CASE RelStreamProfile(r)
    <3>0. streamProfile[f.stream] \in Profile \cup {None}
      BY <1>f, <1>t, <2>3 DEF RelStreamProfile, At, TypeInv, TypeOK, Present, UsesStream, UsesProfile, SwitchLabel
    <3>1. /\ [f EXCEPT !.profile = streamProfile[f.stream]] \in Frame
          /\ (IF streamProfile[f.stream] = None THEN "rel_meta" ELSE "rel_del_sp") \in Label
      BY <1>f, <1>t, <3>0, UpdateType DEF Label, SwitchLabel
    <3>2. Present([[f EXCEPT !.profile = streamProfile[f.stream]] EXCEPT !.pc = IF streamProfile[f.stream] = None THEN "rel_meta" ELSE "rel_del_sp"])
      BY <1>f, <1>t, <3>0, <2>3 DEF RelStreamProfile, At, Frame, Present, UsesStream, UsesProfile, SwitchLabel
    <3>3. Go(r, [f EXCEPT !.profile = streamProfile[f.stream]],
             IF streamProfile[f.stream] = None THEN "rel_meta" ELSE "rel_del_sp")
      BY <2>3 DEF RelStreamProfile
    <3> QED
      BY <1>f, <3>1, <3>2, <3>3, Moved
  <2>4. CASE DelStreamProfile(r, "rel_del_sp", "rel_count")
    <3>1. /\ f \in Frame
          /\ ("rel_count") \in Label
      BY <1>f, <1>t, UpdateType DEF Label, SwitchLabel
    <3>2. Present([f EXCEPT !.pc = "rel_count"])
      BY <1>f, <1>t, <2>4 DEF DelStreamProfile, At, Frame, Present, UsesStream, UsesProfile, SwitchLabel
    <3> QED
      BY <1>f, <2>4, <3>1, <3>2, Moved DEF DelStreamProfile, Goto
  <2>5. CASE RelMetaProfile(r)
    <3>0. metaProfile[ChanOf[r]] \in Profile \cup {None}
      BY <1>f, <1>t, <2>5 DEF RelMetaProfile, At, TypeInv, TypeOK, Present, UsesStream, UsesProfile, SwitchLabel
    <3>1. /\ [f EXCEPT !.profile = metaProfile[ChanOf[r]]] \in Frame
          /\ (IF metaProfile[ChanOf[r]] = None THEN f.ret ELSE "rel_count") \in Label
      BY <1>f, <1>t, <3>0, UpdateType DEF Label, SwitchLabel
    <3>2. Present([[f EXCEPT !.profile = metaProfile[ChanOf[r]]] EXCEPT !.pc = IF metaProfile[ChanOf[r]] = None THEN f.ret ELSE "rel_count"])
      BY <1>f, <1>t, <3>0, <2>5 DEF RelMetaProfile, At, Frame, Present, UsesStream, UsesProfile, SwitchLabel, ReturnLabel
    <3>3. Go(r, [f EXCEPT !.profile = metaProfile[ChanOf[r]]],
             IF metaProfile[ChanOf[r]] = None THEN f.ret ELSE "rel_count")
      BY <2>5 DEF RelMetaProfile
    <3> QED
      BY <1>f, <3>1, <3>2, <3>3, Moved
  <2>6. CASE TestCount(r, "rel_count", "rel_decr", "rel_hdel")
    <3>1. /\ f \in Frame
          /\ (IF connections[f.profile] > 0 THEN "rel_decr" ELSE "rel_hdel") \in Label
      BY <1>f, <1>t, UpdateType DEF Label, SwitchLabel
    <3>2. Present([f EXCEPT !.pc = IF connections[f.profile] > 0 THEN "rel_decr" ELSE "rel_hdel"])
      BY <1>f, <1>t, <2>6 DEF TestCount, At, Frame, Present, UsesStream, UsesProfile, SwitchLabel
    <3> QED
      BY <1>f, <2>6, <3>1, <3>2, Moved DEF TestCount, Goto
  <2>7. CASE Decrement(r, "rel_decr", "rel_hdel")
    <3>1. /\ f \in Frame
          /\ ("rel_hdel") \in Label
      BY <1>f, <1>t, UpdateType DEF Label, SwitchLabel
    <3>2. Present([f EXCEPT !.pc = "rel_hdel"])
      BY <1>f, <1>t, <2>7 DEF Decrement, At, Frame, Present, UsesStream, UsesProfile, SwitchLabel
    <3> QED
      BY <1>f, <2>7, <3>1, <3>2, Moved DEF Decrement, Goto
  <2>8. CASE ClearMetadata(r, "rel_hdel", frame[r].ret)
    <3>1. /\ f \in Frame
          /\ (f.ret) \in Label
      BY <1>f, <1>t, UpdateType DEF Label, SwitchLabel
    <3>2. Present([f EXCEPT !.pc = f.ret])
      BY <1>f, <1>t, <2>8 DEF ClearMetadata, At, Frame, Present, UsesStream, UsesProfile, SwitchLabel, ReturnLabel
    <3> QED
      BY <1>f, <2>8, <3>1, <3>2, Moved DEF ClearMetadata, Goto
  <2> QED
    BY <1>3, <2>1, <2>2, <2>3, <2>4, <2>5, <2>6, <2>7, <2>8 DEF ReleaseStream, ReleaseByKeys
<1>4. CASE ReleaseByMetadata(r)
  <2>1. CASE FallbackStream(r)
    <3>0. metaStream[ChanOf[r]] \in Stream \cup {None}
      BY <1>f, <1>t, <2>1 DEF FallbackStream, At, TypeInv, TypeOK, Present, UsesStream, UsesProfile, SwitchLabel
    <3>1. /\ [f EXCEPT !.stream = metaStream[ChanOf[r]]] \in Frame
          /\ ("fb_profile") \in Label
      BY <1>f, <1>t, <3>0, UpdateType DEF Label, SwitchLabel
    <3>2. Present([[f EXCEPT !.stream = metaStream[ChanOf[r]]] EXCEPT !.pc = "fb_profile"])
      BY <1>f, <1>t, <3>0, <2>1 DEF FallbackStream, At, Frame, Present, UsesStream, UsesProfile, SwitchLabel
    <3>3. Go(r, [f EXCEPT !.stream = metaStream[ChanOf[r]]],
             "fb_profile")
      BY <2>1 DEF FallbackStream
    <3> QED
      BY <1>f, <3>1, <3>2, <3>3, Moved
  <2>2. CASE FallbackProfile(r)
    <3>0. metaProfile[ChanOf[r]] \in Profile \cup {None}
      BY <1>f, <1>t, <2>2 DEF FallbackProfile, At, TypeInv, TypeOK, Present, UsesStream, UsesProfile, SwitchLabel
    <3>1. /\ [f EXCEPT !.profile = metaProfile[ChanOf[r]]] \in Frame
          /\ (IF f.stream = None \/ metaProfile[ChanOf[r]] = None THEN f.ret ELSE "fb_del_cs") \in Label
      BY <1>f, <1>t, <3>0, UpdateType DEF Label, SwitchLabel
    <3>2. Present([[f EXCEPT !.profile = metaProfile[ChanOf[r]]] EXCEPT !.pc = IF f.stream = None \/ metaProfile[ChanOf[r]] = None THEN f.ret ELSE "fb_del_cs"])
      BY <1>f, <1>t, <3>0, <2>2 DEF FallbackProfile, At, Frame, Present, UsesStream, UsesProfile, SwitchLabel, ReturnLabel
    <3>3. Go(r, [f EXCEPT !.profile = metaProfile[ChanOf[r]]],
             IF f.stream = None \/ metaProfile[ChanOf[r]] = None THEN f.ret ELSE "fb_del_cs")
      BY <2>2 DEF FallbackProfile
    <3> QED
      BY <1>f, <3>1, <3>2, <3>3, Moved
  <2>3. CASE DelChannelStream(r, "fb_del_cs", "fb_del_sp")
    <3>1. /\ f \in Frame
          /\ ("fb_del_sp") \in Label
      BY <1>f, <1>t, UpdateType DEF Label, SwitchLabel
    <3>2. Present([f EXCEPT !.pc = "fb_del_sp"])
      BY <1>f, <1>t, <2>3 DEF DelChannelStream, At, Frame, Present, UsesStream, UsesProfile, SwitchLabel
    <3> QED
      BY <1>f, <2>3, <3>1, <3>2, Moved DEF DelChannelStream, Goto
  <2>4. CASE DelStreamProfile(r, "fb_del_sp", "fb_hdel")
    <3>1. /\ f \in Frame
          /\ ("fb_hdel") \in Label
      BY <1>f, <1>t, UpdateType DEF Label, SwitchLabel
    <3>2. Present([f EXCEPT !.pc = "fb_hdel"])
      BY <1>f, <1>t, <2>4 DEF DelStreamProfile, At, Frame, Present, UsesStream, UsesProfile, SwitchLabel
    <3> QED
      BY <1>f, <2>4, <3>1, <3>2, Moved DEF DelStreamProfile, Goto
  <2>5. CASE ClearMetadata(r, "fb_hdel", "fb_count")
    <3>1. /\ f \in Frame
          /\ ("fb_count") \in Label
      BY <1>f, <1>t, UpdateType DEF Label, SwitchLabel
    <3>2. Present([f EXCEPT !.pc = "fb_count"])
      BY <1>f, <1>t, <2>5 DEF ClearMetadata, At, Frame, Present, UsesStream, UsesProfile, SwitchLabel
    <3> QED
      BY <1>f, <2>5, <3>1, <3>2, Moved DEF ClearMetadata, Goto
  <2>6. CASE TestCount(r, "fb_count", "fb_decr", frame[r].ret)
    <3>1. /\ f \in Frame
          /\ (IF connections[f.profile] > 0 THEN "fb_decr" ELSE f.ret) \in Label
      BY <1>f, <1>t, UpdateType DEF Label, SwitchLabel
    <3>2. Present([f EXCEPT !.pc = IF connections[f.profile] > 0 THEN "fb_decr" ELSE f.ret])
      BY <1>f, <1>t, <2>6 DEF TestCount, At, Frame, Present, UsesStream, UsesProfile, SwitchLabel, ReturnLabel
    <3> QED
      BY <1>f, <2>6, <3>1, <3>2, Moved DEF TestCount, Goto
  <2>7. CASE Decrement(r, "fb_decr", frame[r].ret)
    <3>1. /\ f \in Frame
          /\ (f.ret) \in Label
      BY <1>f, <1>t, UpdateType DEF Label, SwitchLabel
    <3>2. Present([f EXCEPT !.pc = f.ret])
      BY <1>f, <1>t, <2>7 DEF Decrement, At, Frame, Present, UsesStream, UsesProfile, SwitchLabel, ReturnLabel
    <3> QED
      BY <1>f, <2>7, <3>1, <3>2, Moved DEF Decrement, Goto
  <2> QED
    BY <1>4, <2>1, <2>2, <2>3, <2>4, <2>5, <2>6, <2>7 DEF ReleaseStream, ReleaseByMetadata
<1>5. CASE Stop(r)
  <2>1. CASE StartLeave(r)
    BY <1>f, <1>t, <2>1, Called DEF StartLeave, ReturnLabel
  <2>2. CASE StartStop(r)
    <3>1. /\ f \in Frame
          /\ ("stop") \in Label
      BY <1>f, <1>t, UpdateType DEF Label, SwitchLabel
    <3>2. Present([f EXCEPT !.pc = "stop"])
      BY <1>f, <1>t, <2>2 DEF StartStop, At, Frame, Present, UsesStream, UsesProfile, SwitchLabel
    <3> QED
      BY <1>f, <2>2, <3>1, <3>2, Moved DEF StartStop, Goto
  <2>3. CASE StopManager(r)
    BY <1>f, <1>t, <2>3, Called DEF StopManager, ReturnLabel
  <2>4. CASE DeleteChannelKeys(r)
    <3>1. CASE Goto(r, "idle")
      BY <1>f, <3>1, Moved DEF Goto, Label
    <3>2. CASE Call(r, "rel_cs", "idle", 0)
      BY <1>f, <1>t, <3>2, Called DEF ReturnLabel
    <3> QED
      BY <2>4, <3>1, <3>2 DEF DeleteChannelKeys
  <2> QED
    BY <1>5, <2>1, <2>2, <2>3, <2>4 DEF Stop
<1>6. CASE Switch(r)
  <2>1. CASE StartSwitch(r)
    <3>1. PICK s \in StreamsOf(ChanOf[r]) : Go(r, [Idle EXCEPT !.stream = s], "sw_scan")
      BY <2>1 DEF StartSwitch
    <3>2. s \in Stream
      BY <1>f, StreamsType
    <3>3. [Idle EXCEPT !.stream = s] \in Frame /\ "sw_scan" \in Label
      BY <3>2, IdleType, UpdateType DEF Label, SwitchLabel
    <3>4. Present([[Idle EXCEPT !.stream = s] EXCEPT !.pc = "sw_scan"])
      BY <3>2 DEF Idle, Fresh, Present, UsesStream, UsesProfile, SwitchLabel
    <3> QED
      BY <1>f, <3>1, <3>3, <3>4, Moved
  <2>2. CASE ScanProfile(r)
    <3> DEFINE i == f.index
               p == Candidates[ChanOf[r]][i][2]
               next == [f EXCEPT !.index = i + 1]
               g == [f EXCEPT !.profile = p, !.count = connections[p]]
    <3>1. p \in Profile /\ connections[p] \in Int
      BY <1>f, <2>2, CandidateType DEF ScanProfile, TypeInv, TypeOK
    <3>2. next \in Frame /\ g \in Frame
      BY <1>f, <3>1, UpdateType
    <3>3. {"sw_scan", "sw_cs"} \subseteq Label
      BY DEF Label, SwitchLabel
    <3>4. Present([next EXCEPT !.pc = "sw_scan"]) /\ Present([g EXCEPT !.pc = "sw_cs"])
      BY <1>f, <2>2, <3>1
      DEF ScanProfile, At, Frame, Present, UsesStream, UsesProfile, SwitchLabel
    <3>5. Go(r, next, "sw_scan") \/ Go(r, g, "sw_cs")
      BY <2>2 DEF ScanProfile
    <3> HIDE DEF g, next
    <3> QED
      BY <1>f, <3>2, <3>3, <3>4, <3>5, Moved
  <2>3. CASE ReadHeldStream(r, "sw_cs", "sw_sp", "sw_test")
    <3>0. channelStream[ChanOf[r]] \in Stream \cup {None}
      BY <1>f, <1>t, <2>3 DEF ReadHeldStream, At, TypeInv, TypeOK, Present, UsesStream, UsesProfile, SwitchLabel
    <3>1. /\ [f EXCEPT !.oldStream = channelStream[ChanOf[r]], !.oldProfile = None] \in Frame
          /\ (IF channelStream[ChanOf[r]] = None THEN "sw_test" ELSE "sw_sp") \in Label
      BY <1>f, <1>t, <3>0, UpdateType DEF Label, SwitchLabel
    <3>2. Present([[f EXCEPT !.oldStream = channelStream[ChanOf[r]], !.oldProfile = None] EXCEPT !.pc = IF channelStream[ChanOf[r]] = None THEN "sw_test" ELSE "sw_sp"])
      BY <1>f, <1>t, <3>0, <2>3 DEF ReadHeldStream, At, Frame, Present, UsesStream, UsesProfile, SwitchLabel
    <3>3. Go(r, [f EXCEPT !.oldStream = channelStream[ChanOf[r]], !.oldProfile = None],
             IF channelStream[ChanOf[r]] = None THEN "sw_test" ELSE "sw_sp")
      BY <2>3 DEF ReadHeldStream
    <3> QED
      BY <1>f, <3>1, <3>2, <3>3, Moved
  <2>4. CASE ReadHeldProfile(r, "sw_sp", "sw_test", "sw_test")
    <3>0. streamProfile[f.oldStream] \in Profile \cup {None}
      BY <1>f, <1>t, <2>4 DEF ReadHeldProfile, At, TypeInv, TypeOK, Present, UsesStream, UsesProfile, SwitchLabel
    <3>1. /\ [f EXCEPT !.oldProfile = streamProfile[f.oldStream]] \in Frame
          /\ ("sw_test") \in Label
      <4>1. [f EXCEPT !.oldProfile = streamProfile[f.oldStream]] \in Frame
        BY <1>f, <3>0, UpdateType
      <4>2. ("sw_test") \in Label
        BY DEF Label, SwitchLabel
      <4> QED
        BY <4>1, <4>2
    <3>2. Present([[f EXCEPT !.oldProfile = streamProfile[f.oldStream]] EXCEPT !.pc = "sw_test"])
      BY <1>f, <1>t, <3>0, <2>4 DEF ReadHeldProfile, At, Frame, Present, UsesStream, UsesProfile, SwitchLabel
    <3>3. Go(r, [f EXCEPT !.oldProfile = streamProfile[f.oldStream]],
             "sw_test")
      BY <2>4 DEF ReadHeldProfile
    <3> QED
      BY <1>f, <3>1, <3>2, <3>3, Moved
  <2>5. CASE TestProfile(r)
    <3> DEFINE next == [f EXCEPT !.index = @ + 1]
    <3>1. next \in Frame
      BY <1>f, UpdateType
    <3>2. {"sw_scan", "sw_take"} \subseteq Label
      BY DEF Label, SwitchLabel
    <3>3. Present([next EXCEPT !.pc = "sw_scan"]) /\ Present([f EXCEPT !.pc = "sw_take"])
      BY <1>f, <2>5 DEF TestProfile, At, Frame, Present, UsesStream, UsesProfile, SwitchLabel
    <3>4. Go(r, next, "sw_scan") \/ Go(r, f, "sw_take")
      BY <2>5 DEF TestProfile, Goto
    <3> HIDE DEF next, f
    <3> QED
      BY <1>f, <3>1, <3>2, <3>3, <3>4, Moved
  <2>6. CASE AbandonSwitch(r)
    BY <1>f, <2>6, Moved DEF AbandonSwitch, Goto, Label
  <2>7. CASE TakeStream(r)
    <3>1. /\ f \in Frame
          /\ (IF current[ChanOf[r]] \in {None, f.stream} THEN "sw_meta" ELSE "usp_cs") \in Label
      BY <1>f, <1>t, UpdateType DEF Label, SwitchLabel
    <3>2. Present([f EXCEPT !.pc = IF current[ChanOf[r]] \in {None, f.stream} THEN "sw_meta" ELSE "usp_cs"])
      BY <1>f, <1>t, <2>7 DEF TakeStream, At, Frame, Present, UsesStream, UsesProfile, SwitchLabel
    <3> QED
      BY <1>f, <2>7, <3>1, <3>2, Moved DEF TakeStream, Goto
  <2>8. CASE ReadHeldStream(r, "usp_cs", "usp_sp", "sw_meta")
    <3>0. channelStream[ChanOf[r]] \in Stream \cup {None}
      BY <1>f, <1>t, <2>8 DEF ReadHeldStream, At, TypeInv, TypeOK, Present, UsesStream, UsesProfile, SwitchLabel
    <3>1. /\ [f EXCEPT !.oldStream = channelStream[ChanOf[r]], !.oldProfile = None] \in Frame
          /\ (IF channelStream[ChanOf[r]] = None THEN "sw_meta" ELSE "usp_sp") \in Label
      BY <1>f, <1>t, <3>0, UpdateType DEF Label, SwitchLabel
    <3>2. Present([[f EXCEPT !.oldStream = channelStream[ChanOf[r]], !.oldProfile = None] EXCEPT !.pc = IF channelStream[ChanOf[r]] = None THEN "sw_meta" ELSE "usp_sp"])
      BY <1>f, <1>t, <3>0, <2>8 DEF ReadHeldStream, At, Frame, Present, UsesStream, UsesProfile, SwitchLabel
    <3>3. Go(r, [f EXCEPT !.oldStream = channelStream[ChanOf[r]], !.oldProfile = None],
             IF channelStream[ChanOf[r]] = None THEN "sw_meta" ELSE "usp_sp")
      BY <2>8 DEF ReadHeldStream
    <3> QED
      BY <1>f, <3>1, <3>2, <3>3, Moved
  <2>9. CASE ReadHeldProfile(r, "usp_sp", "usp_count", "sw_meta")
    <3>0. streamProfile[f.oldStream] \in Profile \cup {None}
      BY <1>f, <1>t, <2>9 DEF ReadHeldProfile, At, TypeInv, TypeOK, Present, UsesStream, UsesProfile, SwitchLabel
    <3>1. /\ [f EXCEPT !.oldProfile = streamProfile[f.oldStream]] \in Frame
          /\ (IF streamProfile[f.oldStream] \in {None, f.profile} THEN "sw_meta" ELSE "usp_count") \in Label
      <4>1. [f EXCEPT !.oldProfile = streamProfile[f.oldStream]] \in Frame
        BY <1>f, <3>0, UpdateType
      <4>2. (IF streamProfile[f.oldStream] \in {None, f.profile} THEN "sw_meta" ELSE "usp_count") \in Label
        BY DEF Label, SwitchLabel
      <4> QED
        BY <4>1, <4>2
    <3>2. Present([[f EXCEPT !.oldProfile = streamProfile[f.oldStream]] EXCEPT !.pc = IF streamProfile[f.oldStream] \in {None, f.profile} THEN "sw_meta" ELSE "usp_count"])
      BY <1>f, <1>t, <3>0, <2>9 DEF ReadHeldProfile, At, Frame, Present, UsesStream, UsesProfile, SwitchLabel
    <3>3. Go(r, [f EXCEPT !.oldProfile = streamProfile[f.oldStream]],
             IF streamProfile[f.oldStream] \in {None, f.profile} THEN "sw_meta" ELSE "usp_count")
      BY <2>9 DEF ReadHeldProfile
    <3> QED
      BY <1>f, <3>1, <3>2, <3>3, Moved
  <2>10. CASE ReadOldCount(r)
    <3>0. connections[f.oldProfile] \in Int
      BY <1>f, <1>t, <2>10 DEF ReadOldCount, At, TypeInv, TypeOK, Present, UsesStream, UsesProfile, SwitchLabel
    <3>1. /\ [f EXCEPT !.count = connections[f.oldProfile]] \in Frame
          /\ ("usp_exec") \in Label
      BY <1>f, <1>t, <3>0, UpdateType DEF Label, SwitchLabel
    <3>2. Present([[f EXCEPT !.count = connections[f.oldProfile]] EXCEPT !.pc = "usp_exec"])
      BY <1>f, <1>t, <3>0, <2>10 DEF ReadOldCount, At, Frame, Present, UsesStream, UsesProfile, SwitchLabel
    <3>3. Go(r, [f EXCEPT !.count = connections[f.oldProfile]],
             "usp_exec")
      BY <2>10 DEF ReadOldCount
    <3> QED
      BY <1>f, <3>1, <3>2, <3>3, Moved
  <2>11. CASE MoveSlot(r)
    <3>1. /\ f \in Frame
          /\ ("sw_meta") \in Label
      BY <1>f, <1>t, UpdateType DEF Label, SwitchLabel
    <3>2. Present([f EXCEPT !.pc = "sw_meta"])
      BY <1>f, <1>t, <2>11 DEF MoveSlot, At, Frame, Present, UsesStream, UsesProfile, SwitchLabel
    <3> QED
      BY <1>f, <2>11, <3>1, <3>2, Moved DEF MoveSlot, Goto
  <2>12. CASE RecordSwitch(r)
    <3>1. /\ f \in Frame
          /\ ("idle") \in Label
      BY <1>f, <1>t, UpdateType DEF Label, SwitchLabel
    <3>2. Present([f EXCEPT !.pc = "idle"])
      BY <1>f, <1>t, <2>12 DEF RecordSwitch, At, Frame, Present, UsesStream, UsesProfile, SwitchLabel
    <3> QED
      BY <1>f, <2>12, <3>1, <3>2, Moved DEF RecordSwitch, Goto
  <2> QED
    BY <1>6, <2>1, <2>2, <2>3, <2>4, <2>5, <2>6, <2>7, <2>8, <2>9, <2>10, <2>11, <2>12 DEF Switch, UpdateStreamProfile
<1> QED
  BY <1>1, <1>2, <1>3, <1>4, <1>5, <1>6 DEF Step, ReleaseStream

\* Everything but the frames, for the type invariant.
DataOK ==
    /\ channelStream \in [Channel -> Stream \cup {None}]
    /\ streamProfile \in [Stream -> Profile \cup {None}]
    /\ connections \in [Profile -> Int]
    /\ metaStream \in [Channel -> Stream \cup {None}]
    /\ metaProfile \in [Channel -> Profile \cup {None}]
    /\ running \in [Channel -> BOOLEAN]
    /\ current \in [Channel -> Stream \cup {None}]

\* A step keeps the types of the Redis keys and of the manager's state.
LEMMA DataStep ==
    ASSUME TypeInv, NEW r \in Request, Step(r) PROVE DataOK'
<1> DEFINE f == frame[r]
<1>d. DataOK /\ ChanOf[r] \in Channel
  BY DEF TypeInv, TypeOK, DataOK
<1>p. f \in Frame /\ Present(f)
  BY DEF TypeInv, TypeOK, LocalsPresent
<1>t. /\ f.stream \in Stream \cup {None} /\ f.profile \in Profile \cup {None}
      /\ f.oldStream \in Stream \cup {None} /\ f.oldProfile \in Profile \cup {None}
  BY <1>p, UpdateType
<1>1. CASE GetStream(r)
  <2>1. CASE GetChannelStream(r)
    BY <1>d, <2>1 DEF GetChannelStream, DataOK, keys, meta, manager
  <2>2. CASE GetStreamProfile(r)
    BY <1>d, <2>2 DEF GetStreamProfile, DataOK, keys, meta, manager
  <2>3. CASE Reserve(r)
    <3>1. PICK p \in Profile :
             \/ connections' = connections
             \/ connections' = [connections EXCEPT ![p] = connections[p] + 1]
      BY <1>d, <2>3, CandidateType DEF Reserve, Set
    <3>2. UNCHANGED <<keys, meta, manager>>
      BY <2>3 DEF Reserve
    <3> QED
      BY <1>d, <3>1, <3>2 DEF DataOK, keys, meta, manager
  <2>4. CASE Rollback(r)
    BY <1>d, <1>p, <1>t, <2>4
    DEF Rollback, DataOK, keys, meta, manager, At, Present, UsesStream, UsesProfile, SwitchLabel, Set
  <2>5. CASE NoCandidateLeft(r)
    BY <1>d, <2>5 DEF NoCandidateLeft, DataOK, keys, meta, manager
  <2>6. CASE SetChannelStream(r)
    BY <1>d, <1>p, <1>t, <2>6
    DEF SetChannelStream, DataOK, keys, meta, manager, At, Present, UsesStream, UsesProfile, SwitchLabel, Set
  <2>7. CASE SetStreamProfile(r)
    BY <1>d, <1>p, <1>t, <2>7
    DEF SetStreamProfile, DataOK, keys, meta, manager, At, Present, UsesStream, UsesProfile, SwitchLabel, Set
  <2> QED
    BY <1>1, <2>1, <2>2, <2>3, <2>4, <2>5, <2>6, <2>7 DEF GetStream
<1>2. CASE Play(r)
  <2>1. CASE StartPlay(r)
    BY <1>d, <2>1 DEF StartPlay, DataOK, keys, meta, manager
  <2>2. CASE Recheck(r)
    BY <1>d, <2>2 DEF Recheck, DataOK, keys, meta, manager
  <2>3. CASE Retry(r)
    BY <1>d, <2>3 DEF Retry, DataOK, keys, meta, manager
  <2>4. CASE GiveUp(r)
    BY <1>d, <2>4 DEF GiveUp, DataOK, keys, meta, manager
  <2>5. CASE BuildUrl(r)
    BY <1>d, <2>5 DEF BuildUrl, DataOK, keys, meta, manager
  <2>6. CASE ReadChannelStream(r)
    BY <1>d, <2>6 DEF ReadChannelStream, DataOK, keys, meta, manager
  <2>7. CASE ReadStreamProfile(r)
    BY <1>d, <2>7 DEF ReadStreamProfile, DataOK, keys, meta, manager
  <2>8. CASE Redirect(r)
    BY <1>d, <2>8 DEF Redirect, DataOK, keys, meta, manager
  <2>9. CASE PresetStreamId(r)
    BY <1>d, <1>p, <1>t, <2>9
    DEF PresetStreamId, DataOK, keys, meta, manager, Field, Set
  <2>10. CASE InitializeChannel(r)
    <3> DEFINE c == ChanOf[r]
               fields == Field(metaStream, c, f.stream)
    <3>1. fields \in [Channel -> Stream \cup {None}]
      BY <1>d, <1>t DEF Field, Set, DataOK
    <3>2. \/ UNCHANGED <<metaStream, running, current>>
          \/ /\ metaStream' = fields
             /\ running' = [running EXCEPT ![c] = TRUE]
             /\ current' = [current EXCEPT ![c] = fields[c]]
      BY <2>10 DEF InitializeChannel, manager, Set
    <3>3. UNCHANGED <<channelStream, streamProfile, connections, metaProfile>>
      BY <2>10 DEF InitializeChannel, keys
    <3> HIDE DEF fields
    <3> QED
      BY <1>d, <3>1, <3>2, <3>3 DEF DataOK
  <2>11. CASE InitializeFails(r)
    BY <1>d, <2>11 DEF InitializeFails, DataOK, keys, meta, manager
  <2>12. CASE Publish(r)
    BY <1>d, <1>p, <1>t, <2>12
    DEF Publish, DataOK, keys, meta, manager, Field, Set
  <2> QED
    BY <1>2, <2>1, <2>2, <2>3, <2>4, <2>5, <2>6, <2>7, <2>8, <2>9, <2>10, <2>11, <2>12 DEF Play
<1>3. CASE ReleaseByKeys(r)
  <2>1. CASE RelChannelStream(r)
    BY <1>d, <2>1 DEF RelChannelStream, DataOK, keys, meta, manager
  <2>2. CASE DelChannelStream(r, "rel_del_cs", "rel_sp")
    BY <1>d, <1>p, <1>t, <2>2
    DEF DelChannelStream, DataOK, keys, meta, manager, Set
  <2>3. CASE RelStreamProfile(r)
    BY <1>d, <2>3 DEF RelStreamProfile, DataOK, keys, meta, manager
  <2>4. CASE DelStreamProfile(r, "rel_del_sp", "rel_count")
    BY <1>d, <1>p, <1>t, <2>4
    DEF DelStreamProfile, DataOK, keys, meta, manager, At, Present, UsesStream, UsesProfile, SwitchLabel, Set
  <2>5. CASE RelMetaProfile(r)
    BY <1>d, <2>5 DEF RelMetaProfile, DataOK, keys, meta, manager
  <2>6. CASE TestCount(r, "rel_count", "rel_decr", "rel_hdel")
    BY <1>d, <2>6 DEF TestCount, DataOK, keys, meta, manager
  <2>7. CASE Decrement(r, "rel_decr", "rel_hdel")
    BY <1>d, <1>p, <1>t, <2>7
    DEF Decrement, DataOK, keys, meta, manager, At, Present, UsesStream, UsesProfile, SwitchLabel, Set
  <2>8. CASE ClearMetadata(r, "rel_hdel", frame[r].ret)
    BY <1>d, <1>p, <1>t, <2>8
    DEF ClearMetadata, DataOK, keys, meta, manager, Set
  <2> QED
    BY <1>3, <2>1, <2>2, <2>3, <2>4, <2>5, <2>6, <2>7, <2>8 DEF ReleaseStream, ReleaseByKeys
<1>4. CASE ReleaseByMetadata(r)
  <2>1. CASE FallbackStream(r)
    BY <1>d, <2>1 DEF FallbackStream, DataOK, keys, meta, manager
  <2>2. CASE FallbackProfile(r)
    BY <1>d, <2>2 DEF FallbackProfile, DataOK, keys, meta, manager
  <2>3. CASE DelChannelStream(r, "fb_del_cs", "fb_del_sp")
    BY <1>d, <1>p, <1>t, <2>3
    DEF DelChannelStream, DataOK, keys, meta, manager, Set
  <2>4. CASE DelStreamProfile(r, "fb_del_sp", "fb_hdel")
    BY <1>d, <1>p, <1>t, <2>4
    DEF DelStreamProfile, DataOK, keys, meta, manager, At, Present, UsesStream, UsesProfile, SwitchLabel, Set
  <2>5. CASE ClearMetadata(r, "fb_hdel", "fb_count")
    BY <1>d, <1>p, <1>t, <2>5
    DEF ClearMetadata, DataOK, keys, meta, manager, Set
  <2>6. CASE TestCount(r, "fb_count", "fb_decr", frame[r].ret)
    BY <1>d, <2>6 DEF TestCount, DataOK, keys, meta, manager
  <2>7. CASE Decrement(r, "fb_decr", frame[r].ret)
    BY <1>d, <1>p, <1>t, <2>7
    DEF Decrement, DataOK, keys, meta, manager, At, Present, UsesStream, UsesProfile, SwitchLabel, Set
  <2> QED
    BY <1>4, <2>1, <2>2, <2>3, <2>4, <2>5, <2>6, <2>7 DEF ReleaseStream, ReleaseByMetadata
<1>5. CASE Stop(r)
  <2>1. CASE StartLeave(r)
    BY <1>d, <2>1 DEF StartLeave, DataOK, keys, meta, manager
  <2>2. CASE StartStop(r)
    BY <1>d, <2>2 DEF StartStop, DataOK, keys, meta, manager
  <2>3. CASE StopManager(r)
    BY <1>d, <1>p, <1>t, <2>3
    DEF StopManager, DataOK, keys, meta, manager, Set
  <2>4. CASE DeleteChannelKeys(r)
    BY <1>d, <1>p, <1>t, <2>4
    DEF DeleteChannelKeys, DataOK, keys, meta, manager, Set
  <2> QED
    BY <1>5, <2>1, <2>2, <2>3, <2>4 DEF Stop
<1>6. CASE Switch(r)
  <2>1. CASE StartSwitch(r)
    BY <1>d, <2>1 DEF StartSwitch, DataOK, keys, meta, manager
  <2>2. CASE ScanProfile(r)
    BY <1>d, <2>2 DEF ScanProfile, DataOK, keys, meta, manager
  <2>3. CASE ReadHeldStream(r, "sw_cs", "sw_sp", "sw_test")
    BY <1>d, <2>3 DEF ReadHeldStream, DataOK, keys, meta, manager
  <2>4. CASE ReadHeldProfile(r, "sw_sp", "sw_test", "sw_test")
    BY <1>d, <2>4 DEF ReadHeldProfile, DataOK, keys, meta, manager
  <2>5. CASE TestProfile(r)
    BY <1>d, <2>5 DEF TestProfile, DataOK, keys, meta, manager
  <2>6. CASE AbandonSwitch(r)
    BY <1>d, <2>6 DEF AbandonSwitch, DataOK, keys, meta, manager
  <2>7. CASE TakeStream(r)
    BY <1>d, <2>7 DEF TakeStream, DataOK, keys, meta, manager
  <2>8. CASE ReadHeldStream(r, "usp_cs", "usp_sp", "sw_meta")
    BY <1>d, <2>8 DEF ReadHeldStream, DataOK, keys, meta, manager
  <2>9. CASE ReadHeldProfile(r, "usp_sp", "usp_count", "sw_meta")
    BY <1>d, <2>9 DEF ReadHeldProfile, DataOK, keys, meta, manager
  <2>10. CASE ReadOldCount(r)
    BY <1>d, <2>10 DEF ReadOldCount, DataOK, keys, meta, manager
  <2>11. CASE MoveSlot(r)
    BY <1>d, <1>p, <1>t, <2>11
    DEF MoveSlot, DataOK, keys, meta, manager, At, Present, UsesStream, UsesProfile, SwitchLabel, Set
  <2>12. CASE RecordSwitch(r)
    BY <1>d, <1>p, <1>t, <2>12
    DEF RecordSwitch, DataOK, keys, meta, manager, At, Present, UsesStream, UsesProfile, SwitchLabel, Set
  <2> QED
    BY <1>6, <2>1, <2>2, <2>3, <2>4, <2>5, <2>6, <2>7, <2>8, <2>9, <2>10, <2>11, <2>12 DEF Switch, UpdateStreamProfile
<1> QED
  BY <1>1, <1>2, <1>3, <1>4, <1>5, <1>6 DEF Step, ReleaseStream

\* The inductive invariant holds in every reachable state.
THEOREM TypeInvariant == Spec => []TypeInv
<1>1. Init => TypeInv
  <2> SUFFICES ASSUME Init PROVE TypeInv
    OBVIOUS
  <2>1. TypeOK
    BY IdleType DEF Init, TypeOK
  <2>2. LocalsPresent
    BY DEF Init, LocalsPresent, Present, Idle, Fresh, UsesStream, UsesProfile, SwitchLabel
  <2> QED
    BY <2>1, <2>2 DEF TypeInv
<1>2. TypeInv /\ [Next]_vars => TypeInv'
  <2> SUFFICES ASSUME TypeInv, [Next]_vars PROVE TypeInv'
    OBVIOUS
  <2>1. CASE Next
    BY <2>1, FramesStep, DataStep DEF Next, TypeInv, TypeOK, FramesOK, DataOK
  <2>2. CASE UNCHANGED vars
    BY <2>2 DEF vars, keys, meta, manager, TypeInv, TypeOK, LocalsPresent
  <2> QED
    BY <2>1, <2>2
<1> QED
  BY <1>1, <1>2, PTL DEF Spec

\* The Redis keys, the manager and the handlers' locals keep their types.
THEOREM TypeCorrect == Spec => []TypeOK
  BY TypeInvariant, PTL DEF TypeInv

\* No handler of get_stream, release_stream or update_stream_profile builds a
\* key from a local that is missing.
THEOREM LocalsArePresent == Spec => []LocalsPresent
  BY TypeInvariant, PTL DEF TypeInv

-----------------------------------------------------------------------------
(* The capacity bound under any interleaving.  Only the MULTI/EXEC of a     *)
(* failover increments a counter without looking at the result, so the     *)
(* theorem is about systems whose streams do not fail over.                *)

NoFailover == "switch" \notin Ops

\* What the bound needs to know of a step that neither reserves nor rolls back.
Quiet(r) ==
    /\ \A q \in Request \ {r} : frame'[q] = frame[q]
    /\ frame[r].pc # "rollback"
    /\ frame'[r].pc \notin {"rollback"} \cup SwitchLabel
    /\ \A p \in Profile : connections'[p] <= connections[p]

\* The frame of a request that moves on, and its label.
LEMMA GoLabel ==
    ASSUME frame \in [Request -> Frame], NEW r \in Request,
           NEW g \in Frame, NEW l, Go(r, g, l)
    PROVE  /\ \A q \in Request \ {r} : frame'[q] = frame[q]
           /\ frame'[r].pc = l
<1>1. [g EXCEPT !.pc = l].pc = l
  BY DEF Frame
<1>2. Idle.pc = "idle"
  BY DEF Idle, Fresh
<1> QED
  BY <1>1, <1>2 DEF Go, Set

LEMMA CallLabel ==
    ASSUME frame \in [Request -> Frame], NEW r \in Request,
           NEW l, NEW b, NEW n, Call(r, l, b, n)
    PROVE  /\ \A q \in Request \ {r} : frame'[q] = frame[q]
           /\ frame'[r].pc = l
  BY DEF Call, Set, Fresh

\* Without failover every step but Reserve and Rollback is quiet.
LEMMA QuietStep ==
    ASSUME TypeInv, NoFailover, NEW r \in Request, frame[r].pc \notin SwitchLabel,
           Step(r), ~Reserve(r), ~Rollback(r)
    PROVE  Quiet(r)
<1> DEFINE f == frame[r]
<1>f. /\ frame \in [Request -> Frame] /\ f \in Frame /\ Present(f)
      /\ ChanOf[r] \in Channel
      /\ f.pc \notin SwitchLabel
  BY DEF TypeInv, TypeOK, LocalsPresent
<1>t. /\ f.ret \in ReturnLabel
      /\ f.stream \in Stream \cup {None} /\ f.profile \in Profile \cup {None}
  BY <1>f, UpdateType
<1>r. \A l \in ReturnLabel : l \notin {"rollback"} \cup SwitchLabel
  BY DEF ReturnLabel, SwitchLabel
<1>c. connections \in [Profile -> Int]
  BY DEF TypeInv, TypeOK
<1>1. CASE GetStream(r)
  <2>1. CASE GetChannelStream(r)
    <3>0. channelStream[ChanOf[r]] \in Stream \cup {None}
      BY <1>f, <1>t, <2>1 DEF GetChannelStream, At, TypeInv, TypeOK, Present, UsesStream, UsesProfile, SwitchLabel
    <3>1. [f EXCEPT !.stream = channelStream[ChanOf[r]]] \in Frame
      BY <1>f, <3>0, UpdateType
    <3>2. Go(r, [f EXCEPT !.stream = channelStream[ChanOf[r]]],
             IF channelStream[ChanOf[r]] = None THEN "reserve" ELSE "get_sp")
      BY <2>1 DEF GetChannelStream, Goto
    <3>3. /\ \A q \in Request \ {r} : frame'[q] = frame[q]
          /\ frame'[r].pc = IF channelStream[ChanOf[r]] = None THEN "reserve" ELSE "get_sp"
      BY <1>f, <3>0, <3>1, <3>2, GoLabel
    <3> QED
      BY <1>f, <1>t, <1>r, <1>c, <2>1, <3>3 DEF GetChannelStream, Quiet, At, SwitchLabel
  <2>2. CASE GetStreamProfile(r)
    <3>0. streamProfile[f.stream] \in Profile \cup {None}
      BY <1>f, <1>t, <2>2 DEF GetStreamProfile, At, TypeInv, TypeOK, Present, UsesStream, UsesProfile, SwitchLabel
    <3>1. [f EXCEPT !.profile = streamProfile[f.stream]] \in Frame
      BY <1>f, <3>0, UpdateType
    <3>2. Go(r, [f EXCEPT !.profile = streamProfile[f.stream]],
             IF streamProfile[f.stream] = None THEN "reserve" ELSE Found(r))
      BY <2>2 DEF GetStreamProfile, Goto
    <3>3. /\ \A q \in Request \ {r} : frame'[q] = frame[q]
          /\ frame'[r].pc = IF streamProfile[f.stream] = None THEN "reserve" ELSE Found(r)
      BY <1>f, <3>0, <3>1, <3>2, GoLabel
    <3> QED
      BY <1>f, <1>t, <1>r, <1>c, <2>2, <3>3 DEF GetStreamProfile, Quiet, At, SwitchLabel, Found
  <2>5. CASE NoCandidateLeft(r)
    <3>2. Go(r, f,
             Refused(r))
      BY <2>5 DEF NoCandidateLeft, Goto
    <3>3. /\ \A q \in Request \ {r} : frame'[q] = frame[q]
          /\ frame'[r].pc = Refused(r)
      BY <1>f, <3>2, GoLabel
    <3> QED
      BY <1>f, <1>t, <1>r, <1>c, <2>5, <3>3 DEF NoCandidateLeft, Quiet, At, SwitchLabel, Refused
  <2>6. CASE SetChannelStream(r)
    <3>2. Go(r, f,
             "set_sp")
      BY <2>6 DEF SetChannelStream, Goto
    <3>3. /\ \A q \in Request \ {r} : frame'[q] = frame[q]
          /\ frame'[r].pc = "set_sp"
      BY <1>f, <3>2, GoLabel
    <3> QED
      BY <1>f, <1>t, <1>r, <1>c, <2>6, <3>3 DEF SetChannelStream, Quiet, At, SwitchLabel
  <2>7. CASE SetStreamProfile(r)
    <3>2. Go(r, f,
             Found(r))
      BY <2>7 DEF SetStreamProfile, Goto
    <3>3. /\ \A q \in Request \ {r} : frame'[q] = frame[q]
          /\ frame'[r].pc = Found(r)
      BY <1>f, <3>2, GoLabel
    <3> QED
      BY <1>f, <1>t, <1>r, <1>c, <2>7, <3>3 DEF SetStreamProfile, Quiet, At, SwitchLabel, Found
  <2> QED
    BY <1>1, <2>1, <2>2, <2>5, <2>6, <2>7 DEF GetStream
<1>2. CASE Play(r)
  <2>1. CASE StartPlay(r)
    BY <1>f, <1>c, <2>1, CallLabel DEF StartPlay, Quiet, At, SwitchLabel
  <2>2. CASE Recheck(r)
    BY <1>f, <1>c, <2>2, CallLabel DEF Recheck, Quiet, At, SwitchLabel
  <2>3. CASE Retry(r)
    BY <1>f, <1>c, <2>3, CallLabel DEF Retry, Quiet, At, SwitchLabel
  <2>4. CASE GiveUp(r)
    BY <1>f, <1>c, <2>4, CallLabel DEF GiveUp, Quiet, At, SwitchLabel
  <2>5. CASE BuildUrl(r)
    <3>1. Goto(r, "read_cs") \/ Call(r, "rel_cs", Refused(r), f.attempts)
      BY <2>5 DEF BuildUrl
    <3>2. /\ \A q \in Request \ {r} : frame'[q] = frame[q]
          /\ frame'[r].pc \in {"read_cs", "rel_cs"}
      BY <1>f, <3>1, GoLabel, CallLabel DEF Goto
    <3> QED
      BY <1>c, <2>5, <3>2 DEF BuildUrl, Quiet, At, SwitchLabel
  <2>6. CASE ReadChannelStream(r)
    <3>0. channelStream[ChanOf[r]] \in Stream \cup {None}
      BY <1>f, <1>t, <2>6 DEF ReadChannelStream, At, TypeInv, TypeOK, Present, UsesStream, UsesProfile, SwitchLabel
    <3>1. [f EXCEPT !.stream = channelStream[ChanOf[r]], !.profile = None] \in Frame
      BY <1>f, <3>0, UpdateType
    <3>2. Go(r, [f EXCEPT !.stream = channelStream[ChanOf[r]], !.profile = None],
             IF channelStream[ChanOf[r]] = None THEN "chosen" ELSE "read_sp")
      BY <2>6 DEF ReadChannelStream, Goto
    <3>3. /\ \A q \in Request \ {r} : frame'[q] = frame[q]
          /\ frame'[r].pc = IF channelStream[ChanOf[r]] = None THEN "chosen" ELSE "read_sp"
      BY <1>f, <3>0, <3>1, <3>2, GoLabel
    <3> QED
      BY <1>f, <1>t, <1>r, <1>c, <2>6, <3>3 DEF ReadChannelStream, Quiet, At, SwitchLabel
  <2>7. CASE ReadStreamProfile(r)
    <3>0. streamProfile[f.stream] \in Profile \cup {None}
      BY <1>f, <1>t, <2>7 DEF ReadStreamProfile, At, TypeInv, TypeOK, Present, UsesStream, UsesProfile, SwitchLabel
    <3>1. [f EXCEPT !.profile = streamProfile[f.stream]] \in Frame
      BY <1>f, <3>0, UpdateType
    <3>2. Go(r, [f EXCEPT !.profile = streamProfile[f.stream]],
             "chosen")
      BY <2>7 DEF ReadStreamProfile, Goto
    <3>3. /\ \A q \in Request \ {r} : frame'[q] = frame[q]
          /\ frame'[r].pc = "chosen"
      BY <1>f, <3>0, <3>1, <3>2, GoLabel
    <3> QED
      BY <1>f, <1>t, <1>r, <1>c, <2>7, <3>3 DEF ReadStreamProfile, Quiet, At, SwitchLabel
  <2>8. CASE Redirect(r)
    BY <1>f, <1>c, <2>8, CallLabel DEF Redirect, Quiet, At, SwitchLabel
  <2>9. CASE PresetStreamId(r)
    <3>2. Go(r, f,
             "init")
      BY <2>9 DEF PresetStreamId, Goto
    <3>3. /\ \A q \in Request \ {r} : frame'[q] = frame[q]
          /\ frame'[r].pc = "init"
      BY <1>f, <3>2, GoLabel
    <3> QED
      BY <1>f, <1>t, <1>r, <1>c, <2>9, <3>3 DEF PresetStreamId, Quiet, At, SwitchLabel
  <2>10. CASE InitializeChannel(r)
    <3>2. Go(r, f,
             "publish")
      BY <2>10 DEF InitializeChannel, Goto
    <3>3. /\ \A q \in Request \ {r} : frame'[q] = frame[q]
          /\ frame'[r].pc = "publish"
      BY <1>f, <3>2, GoLabel
    <3> QED
      BY <1>f, <1>t, <1>r, <1>c, <2>10, <3>3 DEF InitializeChannel, Quiet, At, SwitchLabel
  <2>11. CASE InitializeFails(r)
    BY <1>f, <1>c, <2>11, CallLabel DEF InitializeFails, Quiet, At, SwitchLabel
  <2>12. CASE Publish(r)
    <3>2. Go(r, f,
             "idle")
      BY <2>12 DEF Publish, Goto
    <3>3. /\ \A q \in Request \ {r} : frame'[q] = frame[q]
          /\ frame'[r].pc = "idle"
      BY <1>f, <3>2, GoLabel
    <3> QED
      BY <1>f, <1>t, <1>r, <1>c, <2>12, <3>3 DEF Publish, Quiet, At, SwitchLabel
  <2> QED
    BY <1>2, <2>1, <2>2, <2>3, <2>4, <2>5, <2>6, <2>7, <2>8, <2>9, <2>10, <2>11, <2>12 DEF Play
<1>3. CASE ReleaseByKeys(r)
  <2>1. CASE RelChannelStream(r)
    <3>0. channelStream[ChanOf[r]] \in Stream \cup {None}
      BY <1>f, <1>t, <2>1 DEF RelChannelStream, At, TypeInv, TypeOK, Present, UsesStream, UsesProfile, SwitchLabel
    <3>1. [f EXCEPT !.stream = channelStream[ChanOf[r]]] \in Frame
      BY <1>f, <3>0, UpdateType
    <3>2. Go(r, [f EXCEPT !.stream = channelStream[ChanOf[r]]],
             IF channelStream[ChanOf[r]] = None THEN "fb_stream" ELSE "rel_del_cs")
      BY <2>1 DEF RelChannelStream, Goto
    <3>3. /\ \A q \in Request \ {r} : frame'[q] = frame[q]
          /\ frame'[r].pc = IF channelStream[ChanOf[r]] = None THEN "fb_stream" ELSE "rel_del_cs"
      BY <1>f, <3>0, <3>1, <3>2, GoLabel
    <3> QED
      BY <1>f, <1>t, <1>r, <1>c, <2>1, <3>3 DEF RelChannelStream, Quiet, At, SwitchLabel
  <2>2. CASE DelChannelStream(r, "rel_del_cs", "rel_sp")
    <3>2. Go(r, f,
             "rel_sp")
      BY <2>2 DEF DelChannelStream, Goto
    <3>3. /\ \A q \in Request \ {r} : frame'[q] = frame[q]
          /\ frame'[r].pc = "rel_sp"
      BY <1>f, <3>2, GoLabel
    <3> QED
      BY <1>f, <1>t, <1>r, <1>c, <2>2, <3>3 DEF DelChannelStream, Quiet, At, SwitchLabel
  <2>3. CASE RelStreamProfile(r)
    <3>0. streamProfile[f.stream] \in Profile \cup {None}
      BY <1>f, <1>t, <2>3 DEF RelStreamProfile, At, TypeInv, TypeOK, Present, UsesStream, UsesProfile, SwitchLabel
    <3>1. [f EXCEPT !.profile = streamProfile[f.stream]] \in Frame
      BY <1>f, <3>0, UpdateType
    <3>2. Go(r, [f EXCEPT !.profile = streamProfile[f.stream]],
             IF streamProfile[f.stream] = None THEN "rel_meta" ELSE "rel_del_sp")
      BY <2>3 DEF RelStreamProfile, Goto
    <3>3. /\ \A q \in Request \ {r} : frame'[q] = frame[q]
          /\ frame'[r].pc = IF streamProfile[f.stream] = None THEN "rel_meta" ELSE "rel_del_sp"
      BY <1>f, <3>0, <3>1, <3>2, GoLabel
    <3> QED
      BY <1>f, <1>t, <1>r, <1>c, <2>3, <3>3 DEF RelStreamProfile, Quiet, At, SwitchLabel
  <2>4. CASE DelStreamProfile(r, "rel_del_sp", "rel_count")
    <3>2. Go(r, f,
             "rel_count")
      BY <2>4 DEF DelStreamProfile, Goto
    <3>3. /\ \A q \in Request \ {r} : frame'[q] = frame[q]
          /\ frame'[r].pc = "rel_count"
      BY <1>f, <3>2, GoLabel
    <3> QED
      BY <1>f, <1>t, <1>r, <1>c, <2>4, <3>3 DEF DelStreamProfile, Quiet, At, SwitchLabel
  <2>5. CASE RelMetaProfile(r)
    <3>0. metaProfile[ChanOf[r]] \in Profile \cup {None}
      BY <1>f, <1>t, <2>5 DEF RelMetaProfile, At, TypeInv, TypeOK, Present, UsesStream, UsesProfile, SwitchLabel
    <3>1. [f EXCEPT !.profile = metaProfile[ChanOf[r]]] \in Frame
      BY <1>f, <3>0, UpdateType
    <3>2. Go(r, [f EXCEPT !.profile = metaProfile[ChanOf[r]]],
             IF metaProfile[ChanOf[r]] = None THEN f.ret ELSE "rel_count")
      BY <2>5 DEF RelMetaProfile, Goto
    <3>3. /\ \A q \in Request \ {r} : frame'[q] = frame[q]
          /\ frame'[r].pc = IF metaProfile[ChanOf[r]] = None THEN f.ret ELSE "rel_count"
      BY <1>f, <3>0, <3>1, <3>2, GoLabel
    <3> QED
      BY <1>f, <1>t, <1>r, <1>c, <2>5, <3>3 DEF RelMetaProfile, Quiet, At, SwitchLabel
  <2>6. CASE TestCount(r, "rel_count", "rel_decr", "rel_hdel")
    <3>2. Go(r, f,
             IF connections[f.profile] > 0 THEN "rel_decr" ELSE "rel_hdel")
      BY <2>6 DEF TestCount, Goto
    <3>3. /\ \A q \in Request \ {r} : frame'[q] = frame[q]
          /\ frame'[r].pc = IF connections[f.profile] > 0 THEN "rel_decr" ELSE "rel_hdel"
      BY <1>f, <3>2, GoLabel
    <3> QED
      BY <1>f, <1>t, <1>r, <1>c, <2>6, <3>3 DEF TestCount, Quiet, At, SwitchLabel
  <2>7. CASE Decrement(r, "rel_decr", "rel_hdel")
    <3>2. Go(r, f,
             "rel_hdel")
      BY <2>7 DEF Decrement, Goto
    <3>3. /\ \A q \in Request \ {r} : frame'[q] = frame[q]
          /\ frame'[r].pc = "rel_hdel"
      BY <1>f, <3>2, GoLabel
    <3> QED
      BY <1>f, <1>t, <1>r, <1>c, <2>7, <3>3 DEF Set, Decrement, Quiet, At, SwitchLabel, Present, UsesProfile
  <2>8. CASE ClearMetadata(r, "rel_hdel", frame[r].ret)
    <3>2. Go(r, f,
             f.ret)
      BY <2>8 DEF ClearMetadata, Goto
    <3>3. /\ \A q \in Request \ {r} : frame'[q] = frame[q]
          /\ frame'[r].pc = f.ret
      BY <1>f, <3>2, GoLabel
    <3> QED
      BY <1>f, <1>t, <1>r, <1>c, <2>8, <3>3 DEF ClearMetadata, Quiet, At, SwitchLabel
  <2> QED
    BY <1>3, <2>1, <2>2, <2>3, <2>4, <2>5, <2>6, <2>7, <2>8 DEF ReleaseStream, ReleaseByKeys
<1>4. CASE ReleaseByMetadata(r)
  <2>1. CASE FallbackStream(r)
    <3>0. metaStream[ChanOf[r]] \in Stream \cup {None}
      BY <1>f, <1>t, <2>1 DEF FallbackStream, At, TypeInv, TypeOK, Present, UsesStream, UsesProfile, SwitchLabel
    <3>1. [f EXCEPT !.stream = metaStream[ChanOf[r]]] \in Frame
      BY <1>f, <3>0, UpdateType
    <3>2. Go(r, [f EXCEPT !.stream = metaStream[ChanOf[r]]],
             "fb_profile")
      BY <2>1 DEF FallbackStream, Goto
    <3>3. /\ \A q \in Request \ {r} : frame'[q] = frame[q]
          /\ frame'[r].pc = "fb_profile"
      BY <1>f, <3>0, <3>1, <3>2, GoLabel
    <3> QED
      BY <1>f, <1>t, <1>r, <1>c, <2>1, <3>3 DEF FallbackStream, Quiet, At, SwitchLabel
  <2>2. CASE FallbackProfile(r)
    <3>0. metaProfile[ChanOf[r]] \in Profile \cup {None}
      BY <1>f, <1>t, <2>2 DEF FallbackProfile, At, TypeInv, TypeOK, Present, UsesStream, UsesProfile, SwitchLabel
    <3>1. [f EXCEPT !.profile = metaProfile[ChanOf[r]]] \in Frame
      BY <1>f, <3>0, UpdateType
    <3>2. Go(r, [f EXCEPT !.profile = metaProfile[ChanOf[r]]],
             IF f.stream = None \/ metaProfile[ChanOf[r]] = None THEN f.ret ELSE "fb_del_cs")
      BY <2>2 DEF FallbackProfile, Goto
    <3>3. /\ \A q \in Request \ {r} : frame'[q] = frame[q]
          /\ frame'[r].pc = IF f.stream = None \/ metaProfile[ChanOf[r]] = None THEN f.ret ELSE "fb_del_cs"
      BY <1>f, <3>0, <3>1, <3>2, GoLabel
    <3> QED
      BY <1>f, <1>t, <1>r, <1>c, <2>2, <3>3 DEF FallbackProfile, Quiet, At, SwitchLabel
  <2>3. CASE DelChannelStream(r, "fb_del_cs", "fb_del_sp")
    <3>2. Go(r, f,
             "fb_del_sp")
      BY <2>3 DEF DelChannelStream, Goto
    <3>3. /\ \A q \in Request \ {r} : frame'[q] = frame[q]
          /\ frame'[r].pc = "fb_del_sp"
      BY <1>f, <3>2, GoLabel
    <3> QED
      BY <1>f, <1>t, <1>r, <1>c, <2>3, <3>3 DEF DelChannelStream, Quiet, At, SwitchLabel
  <2>4. CASE DelStreamProfile(r, "fb_del_sp", "fb_hdel")
    <3>2. Go(r, f,
             "fb_hdel")
      BY <2>4 DEF DelStreamProfile, Goto
    <3>3. /\ \A q \in Request \ {r} : frame'[q] = frame[q]
          /\ frame'[r].pc = "fb_hdel"
      BY <1>f, <3>2, GoLabel
    <3> QED
      BY <1>f, <1>t, <1>r, <1>c, <2>4, <3>3 DEF DelStreamProfile, Quiet, At, SwitchLabel
  <2>5. CASE ClearMetadata(r, "fb_hdel", "fb_count")
    <3>2. Go(r, f,
             "fb_count")
      BY <2>5 DEF ClearMetadata, Goto
    <3>3. /\ \A q \in Request \ {r} : frame'[q] = frame[q]
          /\ frame'[r].pc = "fb_count"
      BY <1>f, <3>2, GoLabel
    <3> QED
      BY <1>f, <1>t, <1>r, <1>c, <2>5, <3>3 DEF ClearMetadata, Quiet, At, SwitchLabel
  <2>6. CASE TestCount(r, "fb_count", "fb_decr", frame[r].ret)
    <3>2. Go(r, f,
             IF connections[f.profile] > 0 THEN "fb_decr" ELSE f.ret)
      BY <2>6 DEF TestCount, Goto
    <3>3. /\ \A q \in Request \ {r} : frame'[q] = frame[q]
          /\ frame'[r].pc = IF connections[f.profile] > 0 THEN "fb_decr" ELSE f.ret
      BY <1>f, <3>2, GoLabel
    <3> QED
      BY <1>f, <1>t, <1>r, <1>c, <2>6, <3>3 DEF TestCount, Quiet, At, SwitchLabel
  <2>7. CASE Decrement(r, "fb_decr", frame[r].ret)
    <3>2. Go(r, f,
             f.ret)
      BY <2>7 DEF Decrement, Goto
    <3>3. /\ \A q \in Request \ {r} : frame'[q] = frame[q]
          /\ frame'[r].pc = f.ret
      BY <1>f, <3>2, GoLabel
    <3> QED
      BY <1>f, <1>t, <1>r, <1>c, <2>7, <3>3 DEF Set, Decrement, Quiet, At, SwitchLabel, Present, UsesProfile
  <2> QED
    BY <1>4, <2>1, <2>2, <2>3, <2>4, <2>5, <2>6, <2>7 DEF ReleaseStream, ReleaseByMetadata
<1>5. CASE Stop(r)
  <2>1. CASE StartLeave(r)
    BY <1>f, <1>c, <2>1, CallLabel DEF StartLeave, Quiet, At, SwitchLabel
  <2>2. CASE StartStop(r)
    <3>2. Go(r, f,
             "stop")
      BY <2>2 DEF StartStop, Goto
    <3>3. /\ \A q \in Request \ {r} : frame'[q] = frame[q]
          /\ frame'[r].pc = "stop"
      BY <1>f, <3>2, GoLabel
    <3> QED
      BY <1>f, <1>t, <1>r, <1>c, <2>2, <3>3 DEF StartStop, Quiet, At, SwitchLabel
  <2>3. CASE StopManager(r)
    BY <1>f, <1>c, <2>3, CallLabel DEF StopManager, Quiet, At, SwitchLabel
  <2>4. CASE DeleteChannelKeys(r)
    <3>1. Goto(r, "idle") \/ Call(r, "rel_cs", "idle", 0)
      BY <2>4 DEF DeleteChannelKeys
    <3>2. /\ \A q \in Request \ {r} : frame'[q] = frame[q]
          /\ frame'[r].pc \in {"idle", "rel_cs"}
      BY <1>f, <3>1, GoLabel, CallLabel DEF Goto
    <3> QED
      BY <1>c, <2>4, <3>2 DEF DeleteChannelKeys, Quiet, At, SwitchLabel
  <2> QED
    BY <1>5, <2>1, <2>2, <2>3, <2>4 DEF Stop
<1>6. ~Switch(r)
  BY <1>f DEF Switch, UpdateStreamProfile, StartSwitch, ScanProfile, ReadHeldStream, ReadHeldProfile,
          TestProfile, AbandonSwitch, TakeStream, ReadOldCount, MoveSlot, RecordSwitch, At,
          SwitchLabel, NoFailover
<1> QED
  BY <1>1, <1>2, <1>3, <1>4, <1>5, <1>6 DEF Step, ReleaseStream

\* A quiet step leaves the increments about to be rolled back alone.
LEMMA QuietOvershoot ==
    ASSUME NEW r \in Request, Quiet(r), NEW p \in Profile
    PROVE  Overshoot(p)' = Overshoot(p)
  BY DEF Quiet, Overshoot, At, SwitchLabel

LEMMA OvershootFinite ==
    ASSUME NEW p PROVE IsFiniteSet(Overshoot(p)) /\ Cardinality(Overshoot(p)) \in Nat
  BY FS_Subset, FS_CardinalityType DEF Overshoot

\* An INCR that stays below the limit is within it, whatever else is in flight;
\* one that does not joins the increments about to be rolled back.
LEMMA ReserveStep ==
    ASSUME TypeInv, CountWithinLimit, NEW r \in Request, Reserve(r)
    PROVE  CountWithinLimit' /\ frame'[r].pc \notin SwitchLabel
           /\ \A q \in Request \ {r} : frame'[q] = frame[q]
<1>f. /\ frame \in [Request -> Frame] /\ frame[r] \in Frame /\ frame[r].pc = "reserve"
      /\ ChanOf[r] \in Channel /\ connections \in [Profile -> Int]
  BY DEF TypeInv, TypeOK, Reserve, At
<1>1. PICK p \in Profile, g \in Frame :
         /\ g.profile = p
         /\ \/ /\ MaxStreams[p] = 0 /\ Go(r, g, "set_cs") /\ connections' = connections
            \/ /\ connections' = [connections EXCEPT ![p] = @ + 1]
               /\ \/ connections[p] + 1 <= MaxStreams[p] /\ Go(r, g, "set_cs")
                  \/ Go(r, g, "rollback")
  <2> DEFINE i == frame[r].index
             s == Candidates[ChanOf[r]][i][1]
             p == Candidates[ChanOf[r]][i][2]
             g == [frame[r] EXCEPT !.stream = s, !.profile = p]
  <2>1. s \in Stream /\ p \in Profile
    BY <1>f, CandidateType DEF Reserve
  <2>2. g \in Frame /\ g.profile = p
    BY <1>f, <2>1, UpdateType DEF Frame
  <2>3. \/ /\ MaxStreams[p] = 0 /\ Go(r, g, "set_cs") /\ connections' = connections
        \/ /\ connections' = [connections EXCEPT ![p] = @ + 1]
           /\ \/ connections[p] + 1 <= MaxStreams[p] /\ Go(r, g, "set_cs")
              \/ Go(r, g, "rollback")
    BY DEF Reserve, Set
  <2> HIDE DEF g, p
  <2> QED
    BY <2>1, <2>2, <2>3
<1>g. g \in Frame /\ g.profile = p
  BY <1>1
<1>h. ASSUME NEW l \in {"set_cs", "rollback"}, Go(r, g, l)
      PROVE  /\ \A q \in Request \ {r} : frame'[q] = frame[q]
             /\ frame'[r].pc = l /\ frame'[r].profile = p
  <2>1. l \in Label /\ l # "idle"
    BY DEF Label
  <2>2. [g EXCEPT !.pc = l].profile = p
    BY <1>g DEF Frame
  <2>3. frame'[r] = [g EXCEPT !.pc = l]
    BY <1>f, <1>h, <2>1 DEF Go, Set
  <2> QED
    BY <1>f, <1>g, <1>h, <2>2, <2>3, GoLabel
<1>2. CASE Go(r, g, "set_cs")
  <2>1. /\ \A q \in Request \ {r} : frame'[q] = frame[q]
        /\ frame'[r].pc = "set_cs"
    BY <1>h, <1>2
  <2>2. \A x \in Profile : Overshoot(x)' = Overshoot(x)
    BY <1>f, <2>1 DEF Overshoot, At
  <2>3. ~Go(r, g, "rollback")
    BY <1>h, <2>1
  <2>4. \A x \in Profile : connections'[x] = connections[x] \/ connections'[x] <= MaxStreams[x]
    BY <1>1, <1>f, <2>3
  <2>5. ASSUME NEW x \in Profile, Limited(x)
        PROVE  connections'[x] - Cardinality(Overshoot(x)) <= MaxStreams[x]
    <3>1. /\ Cardinality(Overshoot(x)) \in Nat /\ MaxStreams[x] \in Nat
          /\ connections[x] \in Int /\ connections'[x] \in Int
      BY <1>1, <1>f, OvershootFinite
    <3>2. connections[x] - Cardinality(Overshoot(x)) <= MaxStreams[x]
      BY <2>5 DEF CountWithinLimit
    <3>3. CASE connections'[x] = connections[x]
      BY <3>2, <3>3
    <3>4. CASE connections'[x] <= MaxStreams[x]
      BY <3>1, <3>4
    <3> QED
      BY <2>4, <3>3, <3>4
  <2> QED
    BY <2>1, <2>2, <2>5 DEF CountWithinLimit, Limited, SwitchLabel
<1>3. CASE Go(r, g, "rollback")
  <2>1. /\ \A q \in Request \ {r} : frame'[q] = frame[q]
        /\ frame'[r].pc = "rollback" /\ frame'[r].profile = p
    BY <1>h, <1>3
  <2>2. ~Go(r, g, "set_cs")
    BY <1>h, <2>1
  <2>3. connections' = [connections EXCEPT ![p] = @ + 1]
    BY <1>1, <2>2
  <2>4. /\ Overshoot(p)' = Overshoot(p) \cup {r} /\ r \notin Overshoot(p)
        /\ \A x \in Profile \ {p} : Overshoot(x)' = Overshoot(x)
    BY <1>f, <2>1 DEF Overshoot, At
  <2>5. Cardinality(Overshoot(p)') = Cardinality(Overshoot(p)) + 1
    BY <2>4, OvershootFinite, FS_AddElement
  <2>6. ASSUME NEW x \in Profile, Limited(x)
        PROVE  connections'[x] - Cardinality(Overshoot(x)') <= MaxStreams[x]
    <3>1. /\ Cardinality(Overshoot(x)) \in Nat /\ MaxStreams[x] \in Nat
          /\ connections[x] \in Int
      BY <1>f, OvershootFinite
    <3>2. connections[x] - Cardinality(Overshoot(x)) <= MaxStreams[x]
      BY <2>6 DEF CountWithinLimit
    <3>3. CASE x = p
      BY <1>f, <2>3, <2>5, <3>1, <3>2, <3>3
    <3>4. CASE x # p
      BY <1>f, <2>3, <2>4, <3>2, <3>4
    <3> QED
      BY <3>3, <3>4
  <2> QED
    BY <2>1, <2>6 DEF CountWithinLimit, Limited, SwitchLabel
<1> QED
  BY <1>1, <1>2, <1>3

\* A rollback undoes an increment that no longer counts as in flight.
LEMMA RollbackStep ==
    ASSUME TypeInv, CountWithinLimit, NEW r \in Request, Rollback(r)
    PROVE  CountWithinLimit' /\ frame'[r].pc \notin SwitchLabel
           /\ \A q \in Request \ {r} : frame'[q] = frame[q]
<1>f. /\ frame \in [Request -> Frame] /\ frame[r] \in Frame /\ frame[r].pc = "rollback"
      /\ connections \in [Profile -> Int]
  BY DEF TypeInv, TypeOK, Rollback, At
<1>p. PICK p \in Profile : frame[r].profile = p
  BY <1>f, UpdateType DEF TypeInv, LocalsPresent, Present, UsesProfile
<1>1. connections' = [connections EXCEPT ![p] = @ - 1]
  BY <1>p DEF Rollback, Set
<1>2. /\ \A q \in Request \ {r} : frame'[q] = frame[q]
      /\ frame'[r].pc = "reserve"
  <2>1. [frame[r] EXCEPT !.index = @ + 1] \in Frame
    BY <1>f, UpdateType
  <2>2. Go(r, [frame[r] EXCEPT !.index = @ + 1], "reserve")
    BY DEF Rollback
  <2> QED
    BY <1>f, <2>1, <2>2, GoLabel
<1>3. /\ Overshoot(p)' = Overshoot(p) \ {r} /\ r \in Overshoot(p)
      /\ \A x \in Profile \ {p} : Overshoot(x)' = Overshoot(x)
  <2>1. \A q \in Request : frame'[q].pc = "rollback" <=> q # r /\ frame[q].pc = "rollback"
    BY <1>f, <1>2
  <2>2. \A q \in Request \ {r} : frame'[q].profile = frame[q].profile
    BY <1>2
  <2>3. \A x \in Profile \ {p} : Overshoot(x)' = Overshoot(x)
    BY <1>f, <1>p, <2>1, <2>2 DEF Overshoot, At
  <2>4. Overshoot(p)' = Overshoot(p) \ {r} /\ r \in Overshoot(p)
    BY <1>f, <1>p, <2>1, <2>2 DEF Overshoot, At
  <2> QED
    BY <2>3, <2>4
<1>4. Cardinality(Overshoot(p)') = Cardinality(Overshoot(p)) - 1
  <2>1. IsFiniteSet(Overshoot(p))
    BY OvershootFinite
  <2>2. Cardinality(Overshoot(p) \ {r}) = Cardinality(Overshoot(p)) - 1
    BY <1>3, <2>1, FS_RemoveElement
  <2> QED
    BY <1>3, <2>2
<1>5. ASSUME NEW x \in Profile, Limited(x)
      PROVE  connections'[x] - Cardinality(Overshoot(x)') <= MaxStreams[x]
  <2>1. /\ Cardinality(Overshoot(x)) \in Nat /\ MaxStreams[x] \in Nat
        /\ connections[x] \in Int
    BY <1>f, OvershootFinite
  <2>2. connections[x] - Cardinality(Overshoot(x)) <= MaxStreams[x]
    BY <1>5 DEF CountWithinLimit
  <2>3. CASE x = p
    BY <1>f, <1>1, <1>4, <2>1, <2>2, <2>3
  <2>4. CASE x # p
    BY <1>f, <1>1, <1>3, <2>2, <2>4
  <2> QED
    BY <2>3, <2>4
<1> QED
  BY <1>2, <1>5 DEF CountWithinLimit, Limited, SwitchLabel

\* The bound with what it needs: nobody is in the middle of a failover.
CapacityInv ==
    /\ \A r \in Request : frame[r].pc \notin SwitchLabel
    /\ CountWithinLimit

\* However many requests race for the slots of a profile, and whatever they
\* do to each other's channels, INCR-first reservation never lets more than
\* max_streams increments stand.
THEOREM CapacityBound == ASSUME NoFailover PROVE Spec => []CountWithinLimit
<1>1. Init => CapacityInv
  <2> SUFFICES ASSUME Init PROVE CapacityInv
    OBVIOUS
  <2>1. \A r \in Request : frame[r].pc = "idle"
    BY DEF Init, Idle, Fresh
  <2>2. ASSUME NEW p \in Profile, Limited(p)
        PROVE  connections[p] - Cardinality(Overshoot(p)) <= MaxStreams[p]
    <3>1. connections[p] = 0
      BY DEF Init
    <3> QED
      BY <3>1, OvershootFinite
  <2> QED
    BY <2>1, <2>2 DEF CapacityInv, CountWithinLimit, SwitchLabel
<1>2. TypeInv /\ CapacityInv /\ [Next]_vars => CapacityInv'
  <2> SUFFICES ASSUME TypeInv, CapacityInv, [Next]_vars PROVE CapacityInv'
    OBVIOUS
  <2>1. CASE UNCHANGED vars
    BY <2>1 DEF vars, CapacityInv, CountWithinLimit, Overshoot, At, Limited
  <2>2. CASE Next
    <3>1. PICK r \in Request : Step(r)
      BY <2>2 DEF Next
    <3>2. CASE Reserve(r)
      BY <3>2, ReserveStep DEF CapacityInv
    <3>3. CASE Rollback(r)
      BY <3>3, RollbackStep DEF CapacityInv
    <3>4. CASE ~Reserve(r) /\ ~Rollback(r)
      <4>1. Quiet(r)
        BY <3>1, <3>4, QuietStep DEF CapacityInv
      <4>2. ASSUME NEW p \in Profile, Limited(p)
            PROVE  connections'[p] - Cardinality(Overshoot(p)') <= MaxStreams[p]
        <5>1. connections[p] \in Int /\ connections'[p] \in Int
          BY <3>1, DataStep DEF TypeInv, TypeOK, DataOK
        <5>2. /\ connections'[p] <= connections[p]
              /\ Overshoot(p)' = Overshoot(p)
              /\ connections[p] - Cardinality(Overshoot(p)) <= MaxStreams[p]
          BY <4>1, <4>2, QuietOvershoot DEF Quiet, CapacityInv, CountWithinLimit
        <5> QED
          BY <5>1, <5>2, OvershootFinite
      <4>3. \A q \in Request : frame'[q].pc \notin SwitchLabel
        BY <4>1 DEF Quiet, CapacityInv
      <4> QED
        BY <4>2, <4>3 DEF CapacityInv, CountWithinLimit, Limited
    <3> QED
      BY <3>2, <3>3, <3>4
  <2> QED
    BY <2>1, <2>2
<1> QED
  BY <1>1, <1>2, TypeInvariant, PTL DEF Spec, CapacityInv

-----------------------------------------------------------------------------
(* One request at a time, and nothing fails over.                          *)

\* The channel of r is stopped and r idle only if the channel holds nothing.
Rested(r) ==
    At(r, "idle") /\ ~running[ChanOf[r]] =>
        /\ channelStream[ChanOf[r]] = None
        /\ metaStream[ChanOf[r]] = None /\ metaProfile[ChanOf[r]] = None

\* What a step of r leaves alone: other requests, channels and their streams.
Local(r) ==
    /\ \A q \in Request \ {r} : frame'[q] = frame[q]
    /\ \A c \in Channel \ {ChanOf[r]} :
           /\ channelStream'[c] = channelStream[c] /\ running'[c] = running[c]
           /\ metaStream'[c] = metaStream[c] /\ metaProfile'[c] = metaProfile[c]
    /\ \A s \in Stream \ StreamsOf(ChanOf[r]) : streamProfile'[s] = streamProfile[s]

\* What a step of r does to the slot it owes, and to the counter with it.
Steady(r) ==
    /\ Owed(r)' = Owed(r) /\ (At(r, "rollback")' <=> At(r, "rollback"))
    /\ connections' = connections
\* It takes a slot, or an increment that it will undo.
Taken(r, p) ==
    /\ Owed(r) = None /\ Owed(r)' = p /\ ~At(r, "rollback")
    /\ \/ MaxStreams[p] = 0 /\ connections' = connections /\ ~At(r, "rollback")'
       \/ /\ MaxStreams[p] # 0 /\ connections' = [connections EXCEPT ![p] = @ + 1]
          /\ At(r, "rollback")' <=> connections[p] + 1 > MaxStreams[p]
\* It gives one back, or undoes its increment.
Given(r, p) ==
    /\ Owed(r) = p /\ Owed(r)' = None /\ ~At(r, "rollback")'
    /\ connections' = [connections EXCEPT ![p] = @ - 1]
\* It gives one back that was not counted.
Dropped(r, p) ==
    /\ Owed(r) = p /\ Owed(r)' = None /\ ~At(r, "rollback") /\ ~At(r, "rollback")'
    /\ connections' = connections /\ connections[p] <= 0

\* What the proof needs of each step.
Kept(r) ==
    /\ Local(r) /\ Coherent(r)' /\ Rested(r)'
    /\ Steady(r) \/ \E p \in Profile : Taken(r, p) \/ Given(r, p) \/ Dropped(r, p)

\* What a step of r starts from.
Before(r) == TypeInv /\ Coherent(r) /\ Rested(r)

\* The locals that count, before and after.
View(r, l, s, p, b) ==
    /\ \A q \in Request \ {r} : frame'[q] = frame[q]
    /\ frame'[r].pc = l /\ frame'[r].stream = s /\ frame'[r].profile = p /\ frame'[r].ret = b

\* What a request that goes on takes along.
LEMMA GoView ==
    ASSUME frame \in [Request -> Frame], NEW r \in Request, NEW g \in Frame,
           NEW l \in Label, Go(r, g, l)
    PROVE  IF l = "idle" THEN View(r, "idle", None, None, "idle")
                         ELSE View(r, l, g.stream, g.profile, g.ret)
<1>1. /\ \A q \in Request \ {r} : frame'[q] = frame[q]
      /\ frame'[r] = IF l = "idle" THEN Idle ELSE [g EXCEPT !.pc = l]
  BY GoFrame
<1>2. CASE l = "idle"
  BY <1>1, <1>2 DEF Idle, Fresh, View
<1>3. CASE l # "idle"
  <2>1. /\ [g EXCEPT !.pc = l].pc = l /\ [g EXCEPT !.pc = l].stream = g.stream
        /\ [g EXCEPT !.pc = l].profile = g.profile /\ [g EXCEPT !.pc = l].ret = g.ret
    BY DEF Frame
  <2> QED
    BY <1>1, <1>3, <2>1 DEF View
<1> QED
  BY <1>2, <1>3

\* Where it is not known whether the label is "idle".
LEMMA GotoView ==
    ASSUME frame \in [Request -> Frame], NEW r \in Request, NEW l \in Label, Goto(r, l)
    PROVE  \E s \in {None, frame[r].stream}, p \in {None, frame[r].profile},
              b \in {"idle", frame[r].ret} : View(r, l, s, p, b)
<1>1. Go(r, frame[r], l) /\ frame[r] \in Frame
  BY DEF Goto
<1> QED
  BY <1>1, GoView

\* A call starts without locals.
LEMMA CallView ==
    ASSUME frame \in [Request -> Frame], NEW r \in Request, NEW l \in Label,
           NEW b \in ReturnLabel, NEW n \in 0..MaxAttempts, Call(r, l, b, n)
    PROVE  View(r, l, None, None, b)
<1>1. /\ \A q \in Request \ {r} : frame'[q] = frame[q]
      /\ frame'[r] = Fresh(l, b, n)
  BY CallFrame
<1> QED
  BY <1>1 DEF Fresh, View

\* get_stream but for the counter: what it reads, and writes once it has a slot.
LEMMA GetSteps ==
    ASSUME NEW r \in Request, Before(r), GetStream(r), ~Reserve(r), ~Rollback(r)
    PROVE  Kept(r)
<1> DEFINE f == frame[r]
           c == ChanOf[r]
<1>f. /\ frame \in [Request -> Frame] /\ f \in Frame /\ Present(f) /\ c \in Channel
      /\ channelStream \in [Channel -> Stream \cup {None}]
      /\ streamProfile \in [Stream -> Profile \cup {None}]
      /\ metaStream \in [Channel -> Stream \cup {None}]
      /\ metaProfile \in [Channel -> Profile \cup {None}]
      /\ running \in [Channel -> BOOLEAN] /\ connections \in [Profile -> Int]
  BY DEF Before, TypeInv, TypeOK, LocalsPresent
<1>t. /\ f.pc \in Label /\ f.ret \in ReturnLabel /\ f.ret \in Label
      /\ f.stream \in Stream \cup {None} /\ f.profile \in Profile \cup {None}
      /\ f.index \in Nat \ {0} /\ f.attempts \in 0..MaxAttempts
  BY <1>f, UpdateType
<1>s. StreamsOf(c) \subseteq Stream
  BY <1>f, StreamsType
<1>c. Coherent(r) /\ Rested(r)
  BY DEF Before
<1>1. CASE GetChannelStream(r)
  <2>1. f.pc = "get_cs" /\ UNCHANGED <<keys, connections, meta, manager>>
    BY <1>1 DEF GetChannelStream, At
  <2>2. channelStream[c] \in Stream \cup {None}
    BY <1>f, <1>t, <2>1 DEF Present, UsesStream, UsesProfile
  <2> DEFINE g == [f EXCEPT !.stream = channelStream[c]]
  <2>l. (IF channelStream[c] = None THEN "reserve" ELSE "get_sp") \in Label
    BY DEF Label
  <2>3. g \in Frame /\ g.stream = channelStream[c] /\ g.profile = f.profile /\ g.ret = f.ret
    BY <1>f, <2>2, UpdateType, ZenonT(60) DEF Frame
  <2>4. View(r, IF channelStream[c] = None THEN "reserve" ELSE "get_sp",
             channelStream[c], f.profile, f.ret)
    <3>1. Go(r, g, IF channelStream[c] = None THEN "reserve" ELSE "get_sp")
      BY <1>1 DEF GetChannelStream
    <3> HIDE DEF g
    <3> QED
      BY <1>f, <2>l, <2>3, <3>1, GoView
  <2>5. Local(r)
    BY <1>f, <1>s, <1>c, <2>1, <2>4 DEF Local, View, Coherent, keys, meta, manager
  <2>6. Steady(r)
    BY <1>f, <1>c, <2>1, <2>4 DEF Steady, View, Owed, At, Coherent, keys, meta, manager
  <2>7. Coherent(r)'
    BY <1>f, <1>s, <1>c, <2>1, <2>4 DEF Coherent, View, SwitchLabel, keys, meta, manager
  <2>8. Rested(r)'
    BY <1>f, <1>c, <2>1, <2>4 DEF Rested, View, At, Coherent, keys, meta, manager
  <2> QED
    BY <2>5, <2>6, <2>7, <2>8 DEF Kept
<1>2. CASE GetStreamProfile(r)
  <2>1. f.pc = "get_sp" /\ UNCHANGED <<keys, connections, meta, manager>>
    BY <1>2 DEF GetStreamProfile, At
  <2>2. streamProfile[f.stream] \in Profile \cup {None}
    BY <1>f, <1>t, <2>1 DEF Present, UsesStream, UsesProfile
  <2> DEFINE g == [f EXCEPT !.profile = streamProfile[f.stream]]
  <2>l. (IF streamProfile[f.stream] = None THEN "reserve" ELSE Found(r)) \in Label
    BY DEF Label, Found
  <2>3. g \in Frame /\ g.stream = f.stream /\ g.profile = streamProfile[f.stream] /\ g.ret = f.ret
    BY <1>f, <2>2, UpdateType, ZenonT(60) DEF Frame
  <2>4. View(r, IF streamProfile[f.stream] = None THEN "reserve" ELSE Found(r),
             f.stream, streamProfile[f.stream], f.ret)
    <3>1. Go(r, g, IF streamProfile[f.stream] = None THEN "reserve" ELSE Found(r))
      BY <1>2 DEF GetStreamProfile
    <3> HIDE DEF g
    <3> QED
      BY <1>f, <2>l, <2>3, <3>1, GoView DEF Found
  <2>5. Local(r)
    BY <1>f, <1>s, <1>c, <2>1, <2>4 DEF Local, View, Coherent, keys, meta, manager
  <2>6. Steady(r)
    BY <1>f, <1>c, <2>1, <2>4 DEF Steady, Found, View, Owed, At, Coherent, keys, meta, manager
  <2>7. Coherent(r)'
    BY <1>f, <1>s, <1>c, <2>1, <2>4 DEF Coherent, Found, View, SwitchLabel, keys, meta, manager
  <2>8. Rested(r)'
    BY <1>f, <1>c, <2>1, <2>4 DEF Rested, Found, View, At, Coherent, keys, meta, manager
  <2> QED
    BY <2>5, <2>6, <2>7, <2>8 DEF Kept
<1>3. CASE NoCandidateLeft(r)
  <2>1. f.pc = "reserve" /\ UNCHANGED <<keys, connections, meta, manager>>
    BY <1>3 DEF NoCandidateLeft, At
  <2>4. PICK s \in {None, f.stream}, p \in {None, f.profile}, b \in {"idle", f.ret} :
         View(r, Refused(r), s, p, b)
    BY <1>f, <1>t, <1>3, GotoView DEF NoCandidateLeft, Label, Refused
  <2>5. Local(r)
    BY <1>f, <1>s, <1>c, <2>1, <2>4 DEF Local, View, Coherent, keys, meta, manager
  <2>6. Steady(r)
    BY <1>f, <1>c, <2>1, <2>4 DEF Steady, Refused, View, Owed, At, Coherent, keys, meta, manager
  <2>7. Coherent(r)'
    BY <1>f, <1>s, <1>c, <2>1, <2>4
       DEF Coherent, Refused, View, SwitchLabel, keys, meta, manager
  <2>8. Rested(r)'
    BY <1>f, <1>c, <2>1, <2>4 DEF Rested, Refused, View, At, Coherent, keys, meta, manager
  <2> QED
    BY <2>5, <2>6, <2>7, <2>8 DEF Kept
<1>4. CASE SetChannelStream(r)
  <2>1. f.pc = "set_cs" /\ channelStream' = Set(channelStream, c, f.stream)
        /\ UNCHANGED <<streamProfile, connections, meta, manager>>
    BY <1>4 DEF SetChannelStream, At
  <2>4. View(r, "set_sp", f.stream, f.profile, f.ret)
    BY <1>f, <1>4, GoView DEF SetChannelStream, Goto, Label
  <2>5. Local(r)
    BY <1>f, <1>s, <1>c, <2>1, <2>4 DEF Local, Set, View, Coherent, keys, meta, manager
  <2>6. Steady(r)
    BY <1>f, <1>c, <2>1, <2>4 DEF Steady, Set, View, Owed, At, Coherent, keys, meta, manager
  <2>7. Coherent(r)'
    BY <1>f, <1>s, <1>c, <2>1, <2>4 DEF Coherent, Set, View, SwitchLabel, keys, meta, manager
  <2>8. Rested(r)'
    BY <1>f, <1>c, <2>1, <2>4 DEF Rested, Set, View, At, Coherent, keys, meta, manager
  <2> QED
    BY <2>5, <2>6, <2>7, <2>8 DEF Kept
<1>5. CASE SetStreamProfile(r)
  <2>1. f.pc = "set_sp" /\ streamProfile' = Set(streamProfile, f.stream, f.profile)
        /\ UNCHANGED <<channelStream, connections, meta, manager>>
    BY <1>5 DEF SetStreamProfile, At
  <2>4. PICK s \in {None, f.stream}, p \in {None, f.profile}, b \in {"idle", f.ret} :
         View(r, Found(r), s, p, b)
    BY <1>f, <1>t, <1>5, GotoView DEF SetStreamProfile, Label, Found
  <2>5. Local(r)
    BY <1>f, <1>s, <1>c, <2>1, <2>4 DEF Local, Set, View, Coherent, keys, meta, manager
  <2>6. Steady(r)
    BY <1>f, <1>c, <2>1, <2>4
       DEF Steady, Set, Found, View, Owed, At, Coherent, keys, meta, manager
  <2>7. Coherent(r)'
    BY <1>f, <1>s, <1>c, <2>1, <2>4
       DEF Coherent, Set, Found, View, SwitchLabel, keys, meta, manager
  <2>8. Rested(r)'
    BY <1>f, <1>c, <2>1, <2>4 DEF Rested, Set, Found, View, At, Coherent, keys, meta, manager
  <2> QED
    BY <2>5, <2>6, <2>7, <2>8 DEF Kept
<1> QED
  BY <1>1, <1>2, <1>3, <1>4, <1>5 DEF GetStream

\* The INCR takes a slot, or an increment that a rollback undoes.
LEMMA ReserveKept ==
    ASSUME NEW r \in Request, Before(r), Reserve(r)
    PROVE  Kept(r)
<1> DEFINE f == frame[r]
           c == ChanOf[r]
<1>f. /\ frame \in [Request -> Frame] /\ f \in Frame /\ Present(f) /\ c \in Channel
      /\ channelStream \in [Channel -> Stream \cup {None}]
      /\ streamProfile \in [Stream -> Profile \cup {None}]
      /\ metaStream \in [Channel -> Stream \cup {None}]
      /\ metaProfile \in [Channel -> Profile \cup {None}]
      /\ running \in [Channel -> BOOLEAN] /\ connections \in [Profile -> Int]
  BY DEF Before, TypeInv, TypeOK, LocalsPresent
<1>t. /\ f.pc \in Label /\ f.ret \in ReturnLabel /\ f.ret \in Label
      /\ f.stream \in Stream \cup {None} /\ f.profile \in Profile \cup {None}
      /\ f.index \in Nat \ {0} /\ f.attempts \in 0..MaxAttempts
  BY <1>f, UpdateType
<1>s. StreamsOf(c) \subseteq Stream
  BY <1>f, StreamsType
<1>c. Coherent(r) /\ Rested(r)
  BY DEF Before
<1> DEFINE s == Candidates[c][f.index][1]
           p == Candidates[c][f.index][2]
           g == [f EXCEPT !.stream = s, !.profile = p]
<1>1. f.pc = "reserve" /\ UNCHANGED <<keys, meta, manager>>
  BY DEF Reserve, At
<1>2. s \in StreamsOf(c) /\ s \in Stream /\ p \in Profile
  BY <1>f, CandidateType DEF Reserve
<1>3. g \in Frame /\ g.stream = s /\ g.profile = p /\ g.ret = f.ret
  BY <1>f, <1>2, UpdateType, ZenonT(60) DEF Frame
<1>4. \/ MaxStreams[p] = 0 /\ connections' = connections /\ Go(r, g, "set_cs")
      \/ /\ MaxStreams[p] # 0 /\ connections' = [connections EXCEPT ![p] = @ + 1]
         /\ Go(r, g, IF connections[p] + 1 <= MaxStreams[p] THEN "set_cs" ELSE "rollback")
  BY DEF Reserve, Set
<1> HIDE DEF g
<1>5. PICK l \in {"set_cs", "rollback"} :
        /\ View(r, l, s, p, f.ret)
        /\ \/ MaxStreams[p] = 0 /\ connections' = connections /\ l = "set_cs"
           \/ /\ MaxStreams[p] # 0 /\ connections' = [connections EXCEPT ![p] = @ + 1]
              /\ l = "rollback" <=> ~(connections[p] + 1 <= MaxStreams[p])
  <2>1. "set_cs" \in Label /\ "rollback" \in Label
    BY DEF Label
  <2>2. ASSUME NEW l \in {"set_cs", "rollback"}, Go(r, g, l) PROVE View(r, l, s, p, f.ret)
    BY <1>f, <1>3, <2>1, <2>2, GoView
  <2> QED
    BY <1>4, <2>2
<1> HIDE DEF s, p
<1>6. Local(r)
  BY <1>f, <1>1, <1>5 DEF Local, View, keys, meta, manager
<1>7. Taken(r, p)
  BY <1>f, <1>c, <1>1, <1>2, <1>5 DEF Taken, View, Owed, At, Coherent, keys, meta, manager
<1>8. Coherent(r)'
  BY <1>f, <1>c, <1>1, <1>2, <1>5 DEF Coherent, Limited, View, SwitchLabel, keys, meta, manager
<1>9. Rested(r)'
  BY <1>5 DEF Rested, View, At
<1> QED
  BY <1>2, <1>6, <1>7, <1>8, <1>9 DEF Kept

\* The DECR of a refused profile gives back what was never held.
LEMMA RollbackKept ==
    ASSUME NEW r \in Request, Before(r), Rollback(r)
    PROVE  Kept(r)
<1> DEFINE f == frame[r]
           c == ChanOf[r]
<1>f. /\ frame \in [Request -> Frame] /\ f \in Frame /\ Present(f) /\ c \in Channel
      /\ channelStream \in [Channel -> Stream \cup {None}]
      /\ streamProfile \in [Stream -> Profile \cup {None}]
      /\ metaStream \in [Channel -> Stream \cup {None}]
      /\ metaProfile \in [Channel -> Profile \cup {None}]
      /\ running \in [Channel -> BOOLEAN] /\ connections \in [Profile -> Int]
  BY DEF Before, TypeInv, TypeOK, LocalsPresent
<1>t. /\ f.pc \in Label /\ f.ret \in ReturnLabel /\ f.ret \in Label
      /\ f.stream \in Stream \cup {None} /\ f.profile \in Profile \cup {None}
      /\ f.index \in Nat \ {0} /\ f.attempts \in 0..MaxAttempts
  BY <1>f, UpdateType
<1>s. StreamsOf(c) \subseteq Stream
  BY <1>f, StreamsType
<1>c. Coherent(r) /\ Rested(r)
  BY DEF Before
<1> DEFINE g == [f EXCEPT !.index = @ + 1]
<1>1. /\ f.pc = "rollback" /\ UNCHANGED <<keys, meta, manager>>
      /\ connections' = [connections EXCEPT ![f.profile] = @ - 1]
  BY DEF Rollback, At, Set
<1>2. f.profile \in Profile
  BY <1>t, <1>c, <1>1 DEF Coherent
<1>3. g \in Frame /\ g.stream = f.stream /\ g.profile = f.profile /\ g.ret = f.ret
  BY <1>f, UpdateType, ZenonT(60) DEF Frame
<1>4. View(r, "reserve", f.stream, f.profile, f.ret)
  <2>1. Go(r, g, "reserve") /\ "reserve" \in Label
    BY DEF Rollback, Label
  <2> HIDE DEF g
  <2> QED
    BY <1>f, <1>3, <2>1, GoView
<1>6. Local(r)
  BY <1>f, <1>1, <1>4 DEF Local, View, keys, meta, manager
<1>7. Given(r, f.profile)
  BY <1>f, <1>c, <1>1, <1>2, <1>4 DEF Given, View, Owed, At, Coherent, keys, meta, manager
<1>8. Coherent(r)'
  BY <1>f, <1>c, <1>1, <1>2, <1>4 DEF Coherent, View, SwitchLabel, keys, meta, manager
<1>9. Rested(r)'
  BY <1>4 DEF Rested, View, At
<1> QED
  BY <1>2, <1>6, <1>7, <1>8, <1>9 DEF Kept

\* The flow of stream_ts: nothing it does itself touches the slot.
LEMMA PlaySteps ==
    ASSUME NEW r \in Request, Before(r), Play(r)
    PROVE  Kept(r)
<1> DEFINE f == frame[r]
           c == ChanOf[r]
<1>f. /\ frame \in [Request -> Frame] /\ f \in Frame /\ Present(f) /\ c \in Channel
      /\ channelStream \in [Channel -> Stream \cup {None}]
      /\ streamProfile \in [Stream -> Profile \cup {None}]
      /\ metaStream \in [Channel -> Stream \cup {None}]
      /\ metaProfile \in [Channel -> Profile \cup {None}]
      /\ running \in [Channel -> BOOLEAN] /\ connections \in [Profile -> Int]
  BY DEF Before, TypeInv, TypeOK, LocalsPresent
<1>t. /\ f.pc \in Label /\ f.ret \in ReturnLabel /\ f.ret \in Label
      /\ f.stream \in Stream \cup {None} /\ f.profile \in Profile \cup {None}
      /\ f.index \in Nat \ {0} /\ f.attempts \in 0..MaxAttempts
  BY <1>f, UpdateType
<1>s. StreamsOf(c) \subseteq Stream
  BY <1>f, StreamsType
<1>c. Coherent(r) /\ Rested(r)
  BY DEF Before
<1>1. CASE StartPlay(r)
  <2>1. f.pc = "idle" /\ UNCHANGED <<keys, connections, meta, manager>>
    BY <1>1 DEF StartPlay, At
  <2>4. View(r, "get_cs", None, None, "url")
    BY <1>f, <1>t, <1>1, CallView DEF StartPlay, Label, ReturnLabel
  <2>5. Local(r)
    BY <1>f, <1>s, <1>c, <2>1, <2>4 DEF Local, View, Coherent, keys, meta, manager
  <2>6. Steady(r)
    BY <1>f, <1>c, <2>1, <2>4 DEF Steady, View, Owed, At, Coherent, keys, meta, manager
  <2>7. Coherent(r)'
    BY <1>f, <1>s, <1>c, <2>1, <2>4 DEF Coherent, View, SwitchLabel, keys, meta, manager
  <2>8. Rested(r)'
    BY <1>f, <1>c, <2>1, <2>4 DEF Rested, View, At, Coherent, keys, meta, manager
  <2> QED
    BY <2>5, <2>6, <2>7, <2>8 DEF Kept
<1>2. CASE Recheck(r)
  <2>1. f.pc = "recheck" /\ UNCHANGED <<keys, connections, meta, manager>>
    BY <1>2 DEF Recheck, At
  <2>4. View(r, "get_cs", None, None, "recheck")
    BY <1>f, <1>t, <1>2, CallView DEF Recheck, Label, ReturnLabel
  <2>5. Local(r)
    BY <1>f, <1>s, <1>c, <2>1, <2>4 DEF Local, View, Coherent, keys, meta, manager
  <2>6. Steady(r)
    BY <1>f, <1>c, <2>1, <2>4 DEF Steady, View, Owed, At, Coherent, keys, meta, manager
  <2>7. Coherent(r)'
    BY <1>f, <1>s, <1>c, <2>1, <2>4 DEF Coherent, View, SwitchLabel, keys, meta, manager
  <2>8. Rested(r)'
    BY <1>f, <1>c, <2>1, <2>4 DEF Rested, View, At, Coherent, keys, meta, manager
  <2> QED
    BY <2>5, <2>6, <2>7, <2>8 DEF Kept
<1>3. CASE Retry(r)
  <2>1. f.pc = "retry" /\ UNCHANGED <<keys, connections, meta, manager>>
    BY <1>3 DEF Retry, At
  <2>4. View(r, "get_cs", None, None, "url")
    BY <1>f, <1>t, <1>3, CallView DEF Retry, Label, ReturnLabel
  <2>5. Local(r)
    BY <1>f, <1>s, <1>c, <2>1, <2>4 DEF Local, View, Coherent, keys, meta, manager
  <2>6. Steady(r)
    BY <1>f, <1>c, <2>1, <2>4 DEF Steady, View, Owed, At, Coherent, keys, meta, manager
  <2>7. Coherent(r)'
    BY <1>f, <1>s, <1>c, <2>1, <2>4 DEF Coherent, View, SwitchLabel, keys, meta, manager
  <2>8. Rested(r)'
    BY <1>f, <1>c, <2>1, <2>4 DEF Rested, View, At, Coherent, keys, meta, manager
  <2> QED
    BY <2>5, <2>6, <2>7, <2>8 DEF Kept
<1>4. CASE GiveUp(r)
  <2>1. f.pc = "retry" /\ UNCHANGED <<keys, connections, meta, manager>>
    BY <1>4 DEF GiveUp, At
  <2>4. View(r, "rel_cs", None, None, "idle")
    BY <1>f, <1>t, <1>4, CallView DEF GiveUp, Label, ReturnLabel
  <2>5. Local(r)
    BY <1>f, <1>s, <1>c, <2>1, <2>4 DEF Local, View, Coherent, keys, meta, manager
  <2>6. Steady(r)
    BY <1>f, <1>c, <2>1, <2>4 DEF Steady, View, Owed, At, Coherent, keys, meta, manager
  <2>7. Coherent(r)'
    BY <1>f, <1>s, <1>c, <2>1, <2>4 DEF Coherent, View, SwitchLabel, keys, meta, manager
  <2>8. Rested(r)'
    BY <1>f, <1>c, <2>1, <2>4 DEF Rested, View, At, Coherent, keys, meta, manager
  <2> QED
    BY <2>5, <2>6, <2>7, <2>8 DEF Kept
<1>5. CASE BuildUrl(r) /\ ~Goto(r, "read_cs")
  <2>1. f.pc = "url" /\ UNCHANGED <<keys, connections, meta, manager>>
    BY <1>5 DEF BuildUrl, At
  <2>4. View(r, "rel_cs", None, None, Refused(r))
    BY <1>f, <1>t, <1>5, CallView DEF BuildUrl, Label, ReturnLabel, Refused
  <2>5. Local(r)
    BY <1>f, <1>s, <1>c, <2>1, <2>4 DEF Local, View, Coherent, keys, meta, manager
  <2>6. Steady(r)
    BY <1>f, <1>c, <2>1, <2>4 DEF Steady, Refused, View, Owed, At, Coherent, keys, meta, manager
  <2>7. Coherent(r)'
    BY <1>f, <1>s, <1>c, <2>1, <2>4
       DEF Coherent, Refused, View, SwitchLabel, keys, meta, manager
  <2>8. Rested(r)'
    BY <1>f, <1>c, <2>1, <2>4 DEF Rested, Refused, View, At, Coherent, keys, meta, manager
  <2> QED
    BY <2>5, <2>6, <2>7, <2>8 DEF Kept
<1>6. CASE BuildUrl(r) /\ Goto(r, "read_cs")
  <2>1. f.pc = "url" /\ UNCHANGED <<keys, connections, meta, manager>>
    BY <1>6 DEF BuildUrl, At
  <2>4. View(r, "read_cs", f.stream, f.profile, f.ret)
    BY <1>f, <1>6, GoView DEF BuildUrl, Goto, Label
  <2>5. Local(r)
    BY <1>f, <1>s, <1>c, <2>1, <2>4 DEF Local, View, Coherent, keys, meta, manager
  <2>6. Steady(r)
    BY <1>f, <1>c, <2>1, <2>4 DEF Steady, View, Owed, At, Coherent, keys, meta, manager
  <2>7. Coherent(r)'
    BY <1>f, <1>s, <1>c, <2>1, <2>4 DEF Coherent, View, SwitchLabel, keys, meta, manager
  <2>8. Rested(r)'
    BY <1>f, <1>c, <2>1, <2>4 DEF Rested, View, At, Coherent, keys, meta, manager
  <2> QED
    BY <2>5, <2>6, <2>7, <2>8 DEF Kept
<1>7. CASE ReadChannelStream(r)
  <2>1. f.pc = "read_cs" /\ UNCHANGED <<keys, connections, meta, manager>>
    BY <1>7 DEF ReadChannelStream, At
  <2> DEFINE g == [f EXCEPT !.stream = channelStream[c], !.profile = None]
             l == IF channelStream[c] = None THEN "chosen" ELSE "read_sp"
  <2>2. channelStream[c] \in Stream \cup {None} /\ l \in Label
    BY <1>f DEF Label
  <2>3. g \in Frame /\ g.stream = channelStream[c] /\ g.profile = None /\ g.ret = f.ret
    BY <1>f, <2>2, UpdateType, ZenonT(60) DEF Frame
  <2>4. View(r, l, channelStream[c], None, f.ret)
    <3>1. Go(r, g, l)
      BY <1>7 DEF ReadChannelStream
    <3> HIDE DEF g
    <3> QED
      BY <1>f, <2>2, <2>3, <3>1, GoView
  <2>5. Local(r)
    BY <1>f, <1>s, <1>c, <2>1, <2>4 DEF Local, View, Coherent, keys, meta, manager
  <2>6. Steady(r)
    BY <1>f, <1>c, <2>1, <2>4 DEF Steady, View, Owed, At, Coherent, keys, meta, manager
  <2>7. Coherent(r)'
    BY <1>f, <1>s, <1>c, <2>1, <2>4 DEF Coherent, View, SwitchLabel, keys, meta, manager
  <2>8. Rested(r)'
    BY <1>f, <1>c, <2>1, <2>4 DEF Rested, View, At, Coherent, keys, meta, manager
  <2> QED
    BY <2>5, <2>6, <2>7, <2>8 DEF Kept
<1>8. CASE ReadStreamProfile(r)
  <2>1. f.pc = "read_sp" /\ UNCHANGED <<keys, connections, meta, manager>>
    BY <1>8 DEF ReadStreamProfile, At
  <2>2. streamProfile[f.stream] \in Profile \cup {None}
    BY <1>f, <1>t, <2>1 DEF Present, UsesStream, UsesProfile
  <2> DEFINE g == [f EXCEPT !.profile = streamProfile[f.stream]]
  <2>l. ("chosen") \in Label
    BY DEF Label
  <2>3. g \in Frame /\ g.stream = f.stream /\ g.profile = streamProfile[f.stream] /\ g.ret = f.ret
    BY <1>f, <2>2, UpdateType, ZenonT(60) DEF Frame
  <2>4. View(r, "chosen", f.stream, streamProfile[f.stream], f.ret)
    <3>1. Go(r, g, "chosen")
      BY <1>8 DEF ReadStreamProfile
    <3> HIDE DEF g
    <3> QED
      BY <1>f, <2>l, <2>3, <3>1, GoView
  <2>5. Local(r)
    BY <1>f, <1>s, <1>c, <2>1, <2>4 DEF Local, View, Coherent, keys, meta, manager
  <2>6. Steady(r)
    BY <1>f, <1>c, <2>1, <2>4 DEF Steady, View, Owed, At, Coherent, keys, meta, manager
  <2>7. Coherent(r)'
    BY <1>f, <1>s, <1>c, <2>1, <2>4 DEF Coherent, View, SwitchLabel, keys, meta, manager
  <2>8. Rested(r)'
    BY <1>f, <1>c, <2>1, <2>4 DEF Rested, View, At, Coherent, keys, meta, manager
  <2> QED
    BY <2>5, <2>6, <2>7, <2>8 DEF Kept
<1>9. CASE Redirect(r)
  <2>1. f.pc = "chosen" /\ UNCHANGED <<keys, connections, meta, manager>>
    BY <1>9 DEF Redirect, At
  <2>4. View(r, "rel_cs", None, None, "idle")
    BY <1>f, <1>t, <1>9, CallView DEF Redirect, Label, ReturnLabel
  <2>5. Local(r)
    BY <1>f, <1>s, <1>c, <2>1, <2>4 DEF Local, View, Coherent, keys, meta, manager
  <2>6. Steady(r)
    BY <1>f, <1>c, <2>1, <2>4 DEF Steady, View, Owed, At, Coherent, keys, meta, manager
  <2>7. Coherent(r)'
    BY <1>f, <1>s, <1>c, <2>1, <2>4 DEF Coherent, View, SwitchLabel, keys, meta, manager
  <2>8. Rested(r)'
    BY <1>f, <1>c, <2>1, <2>4 DEF Rested, View, At, Coherent, keys, meta, manager
  <2> QED
    BY <2>5, <2>6, <2>7, <2>8 DEF Kept
<1>10. CASE PresetStreamId(r)
  <2>1. f.pc = "chosen"
        /\ metaStream' = (IF f.stream = None THEN metaStream
                          ELSE [metaStream EXCEPT ![c] = f.stream])
        /\ UNCHANGED <<keys, connections, metaProfile, manager>>
    BY <1>10 DEF PresetStreamId, At, Field, Set
  <2>4. View(r, "init", f.stream, f.profile, f.ret)
    BY <1>f, <1>10, GoView DEF PresetStreamId, Goto, Label
  <2>5. Local(r)
    BY <1>f, <1>s, <1>c, <2>1, <2>4 DEF Local, View, Coherent, keys, meta, manager
  <2>6. Steady(r)
    BY <1>f, <1>c, <2>1, <2>4 DEF Steady, View, Owed, At, Coherent, keys, meta, manager
  <2>7. Coherent(r)'
    BY <1>f, <1>s, <1>c, <2>1, <2>4 DEF Coherent, View, SwitchLabel, keys, meta, manager
  <2>8. Rested(r)'
    BY <1>f, <1>c, <2>1, <2>4 DEF Rested, View, At, Coherent, keys, meta, manager
  <2> QED
    BY <2>5, <2>6, <2>7, <2>8 DEF Kept
<1>11. CASE InitializeChannel(r)
  <2>1. f.pc = "init" /\ running' = [running EXCEPT ![c] = TRUE]
        /\ metaStream' \in {metaStream,
                            IF f.stream = None THEN metaStream
                            ELSE [metaStream EXCEPT ![c] = f.stream]}
        /\ UNCHANGED <<keys, connections, metaProfile>>
    BY <1>f, <1>11 DEF InitializeChannel, At, Field, Set, manager
  <2>4. View(r, "publish", f.stream, f.profile, f.ret)
    BY <1>f, <1>11, GoView DEF InitializeChannel, Goto, Label
  <2>5. Local(r)
    BY <1>f, <1>s, <1>c, <2>1, <2>4 DEF Local, View, Coherent, keys, meta, manager
  <2>6. Steady(r)
    BY <1>f, <1>c, <2>1, <2>4 DEF Steady, View, Owed, At, Coherent, keys, meta, manager
  <2>7. Coherent(r)'
    BY <1>f, <1>s, <1>c, <2>1, <2>4 DEF Coherent, View, SwitchLabel, keys, meta, manager
  <2>8. Rested(r)'
    BY <1>f, <1>c, <2>1, <2>4 DEF Rested, View, At, Coherent, keys, meta, manager
  <2> QED
    BY <2>5, <2>6, <2>7, <2>8 DEF Kept
<1>12. CASE InitializeFails(r)
  <2>1. f.pc = "init" /\ UNCHANGED <<keys, connections, meta, manager>>
    BY <1>12 DEF InitializeFails, At
  <2>4. View(r, "rel_cs", None, None, "idle")
    BY <1>f, <1>t, <1>12, CallView DEF InitializeFails, Label, ReturnLabel
  <2>5. Local(r)
    BY <1>f, <1>s, <1>c, <2>1, <2>4 DEF Local, View, Coherent, keys, meta, manager
  <2>6. Steady(r)
    BY <1>f, <1>c, <2>1, <2>4 DEF Steady, View, Owed, At, Coherent, keys, meta, manager
  <2>7. Coherent(r)'
    BY <1>f, <1>s, <1>c, <2>1, <2>4 DEF Coherent, View, SwitchLabel, keys, meta, manager
  <2>8. Rested(r)'
    BY <1>f, <1>c, <2>1, <2>4 DEF Rested, View, At, Coherent, keys, meta, manager
  <2> QED
    BY <2>5, <2>6, <2>7, <2>8 DEF Kept
<1>13. CASE Publish(r)
  <2>1. f.pc = "publish"
        /\ metaStream' = (IF f.stream = None THEN metaStream
                          ELSE [metaStream EXCEPT ![c] = f.stream])
        /\ metaProfile' = (IF f.profile = None THEN metaProfile
                           ELSE [metaProfile EXCEPT ![c] = f.profile])
        /\ UNCHANGED <<keys, connections, manager>>
    BY <1>13 DEF Publish, At, Field, Set
  <2>4. View(r, "idle", None, None, "idle")
    BY <1>f, <1>13, GoView DEF Publish, Goto, Label
  <2>5. Local(r)
    BY <1>f, <1>s, <1>c, <2>1, <2>4 DEF Local, View, Coherent, keys, meta, manager
  <2>6. Steady(r)
    BY <1>f, <1>c, <2>1, <2>4 DEF Steady, View, Owed, At, Coherent, keys, meta, manager
  <2>7. Coherent(r)'
    BY <1>f, <1>s, <1>c, <2>1, <2>4 DEF Coherent, View, SwitchLabel, keys, meta, manager
  <2>8. Rested(r)'
    BY <1>f, <1>c, <2>1, <2>4 DEF Rested, View, At, Coherent, keys, meta, manager
  <2> QED
    BY <2>5, <2>6, <2>7, <2>8 DEF Kept
<1> QED
  BY <1>1, <1>2, <1>3, <1>4, <1>5, <1>6, <1>7, <1>8, <1>9, <1>10, <1>11, <1>12, <1>13 DEF Play

\* release_stream finds the slot by the keys; the fallback finds nothing to release.
LEMMA ReleaseSteps ==
    ASSUME NEW r \in Request, Before(r), ReleaseStream(r)
    PROVE  Kept(r)
<1> DEFINE f == frame[r]
           c == ChanOf[r]
<1>f. /\ frame \in [Request -> Frame] /\ f \in Frame /\ Present(f) /\ c \in Channel
      /\ channelStream \in [Channel -> Stream \cup {None}]
      /\ streamProfile \in [Stream -> Profile \cup {None}]
      /\ metaStream \in [Channel -> Stream \cup {None}]
      /\ metaProfile \in [Channel -> Profile \cup {None}]
      /\ running \in [Channel -> BOOLEAN] /\ connections \in [Profile -> Int]
  BY DEF Before, TypeInv, TypeOK, LocalsPresent
<1>t. /\ f.pc \in Label /\ f.ret \in ReturnLabel /\ f.ret \in Label
      /\ f.stream \in Stream \cup {None} /\ f.profile \in Profile \cup {None}
      /\ f.index \in Nat \ {0} /\ f.attempts \in 0..MaxAttempts
  BY <1>f, UpdateType
<1>s. StreamsOf(c) \subseteq Stream
  BY <1>f, StreamsType
<1>c. Coherent(r) /\ Rested(r)
  BY DEF Before
<1>1. CASE RelChannelStream(r)
  <2>1. f.pc = "rel_cs" /\ UNCHANGED <<keys, connections, meta, manager>>
    BY <1>1 DEF RelChannelStream, At
  <2>2. channelStream[c] \in Stream \cup {None}
    BY <1>f, <1>t, <2>1 DEF Present, UsesStream, UsesProfile
  <2> DEFINE g == [f EXCEPT !.stream = channelStream[c]]
  <2>l. (IF channelStream[c] = None THEN "fb_stream" ELSE "rel_del_cs") \in Label
    BY DEF Label
  <2>3. g \in Frame /\ g.stream = channelStream[c] /\ g.profile = f.profile /\ g.ret = f.ret
    BY <1>f, <2>2, UpdateType, ZenonT(60) DEF Frame
  <2>4. View(r, IF channelStream[c] = None THEN "fb_stream" ELSE "rel_del_cs",
             channelStream[c], f.profile, f.ret)
    <3>1. Go(r, g, IF channelStream[c] = None THEN "fb_stream" ELSE "rel_del_cs")
      BY <1>1 DEF RelChannelStream
    <3> HIDE DEF g
    <3> QED
      BY <1>f, <2>l, <2>3, <3>1, GoView
  <2>5. Local(r)
    BY <1>f, <1>s, <1>c, <2>1, <2>4 DEF Local, View, Coherent, keys, meta, manager
  <2>6. Steady(r)
    BY <1>f, <1>c, <2>1, <2>4 DEF Steady, View, Owed, At, Coherent, keys, meta, manager
  <2>7. Coherent(r)'
    BY <1>f, <1>s, <1>c, <2>1, <2>4 DEF Coherent, View, SwitchLabel, keys, meta, manager
  <2>8. Rested(r)'
    BY <1>f, <1>c, <2>1, <2>4 DEF Rested, View, At, Coherent, keys, meta, manager
  <2> QED
    BY <2>5, <2>6, <2>7, <2>8 DEF Kept
<1>2. CASE DelChannelStream(r, "rel_del_cs", "rel_sp")
  <2>1. f.pc = "rel_del_cs" /\ channelStream' = Set(channelStream, c, None)
        /\ UNCHANGED <<streamProfile, connections, meta, manager>>
    BY <1>2 DEF DelChannelStream, At
  <2>4. View(r, "rel_sp", f.stream, f.profile, f.ret)
    BY <1>f, <1>2, GoView DEF DelChannelStream, Goto, Label
  <2>5. Local(r)
    BY <1>f, <1>s, <1>c, <2>1, <2>4 DEF Local, Set, View, Coherent, keys, meta, manager
  <2>6. Steady(r)
    BY <1>f, <1>c, <2>1, <2>4 DEF Steady, Set, View, Owed, At, Coherent, keys, meta, manager
  <2>7. Coherent(r)'
    BY <1>f, <1>s, <1>c, <2>1, <2>4 DEF Coherent, Set, View, SwitchLabel, keys, meta, manager
  <2>8. Rested(r)'
    BY <1>f, <1>c, <2>1, <2>4 DEF Rested, Set, View, At, Coherent, keys, meta, manager
  <2> QED
    BY <2>5, <2>6, <2>7, <2>8 DEF Kept
<1>3. CASE RelStreamProfile(r)
  <2>1. f.pc = "rel_sp" /\ UNCHANGED <<keys, connections, meta, manager>>
    BY <1>3 DEF RelStreamProfile, At
  <2>2. streamProfile[f.stream] \in Profile \cup {None}
    BY <1>f, <1>t, <2>1 DEF Present, UsesStream, UsesProfile
  <2> DEFINE g == [f EXCEPT !.profile = streamProfile[f.stream]]
  <2>l. (IF streamProfile[f.stream] = None THEN "rel_meta" ELSE "rel_del_sp") \in Label
    BY DEF Label
  <2>3. g \in Frame /\ g.stream = f.stream /\ g.profile = streamProfile[f.stream] /\ g.ret = f.ret
    BY <1>f, <2>2, UpdateType, ZenonT(60) DEF Frame
  <2>4. View(r, IF streamProfile[f.stream] = None THEN "rel_meta" ELSE "rel_del_sp",
             f.stream, streamProfile[f.stream], f.ret)
    <3>1. Go(r, g, IF streamProfile[f.stream] = None THEN "rel_meta" ELSE "rel_del_sp")
      BY <1>3 DEF RelStreamProfile
    <3> HIDE DEF g
    <3> QED
      BY <1>f, <2>l, <2>3, <3>1, GoView
  <2>5. Local(r)
    BY <1>f, <1>s, <1>c, <2>1, <2>4 DEF Local, View, Coherent, keys, meta, manager
  <2>6. Steady(r)
    BY <1>f, <1>c, <2>1, <2>4 DEF Steady, View, Owed, At, Coherent, keys, meta, manager
  <2>7. Coherent(r)'
    BY <1>f, <1>s, <1>c, <2>1, <2>4 DEF Coherent, View, SwitchLabel, keys, meta, manager
  <2>8. Rested(r)'
    BY <1>f, <1>c, <2>1, <2>4 DEF Rested, View, At, Coherent, keys, meta, manager
  <2> QED
    BY <2>5, <2>6, <2>7, <2>8 DEF Kept
<1>4. CASE DelStreamProfile(r, "rel_del_sp", "rel_count")
  <2>1. f.pc = "rel_del_sp" /\ streamProfile' = Set(streamProfile, f.stream, None)
        /\ UNCHANGED <<channelStream, connections, meta, manager>>
    BY <1>4 DEF DelStreamProfile, At
  <2>4. View(r, "rel_count", f.stream, f.profile, f.ret)
    BY <1>f, <1>4, GoView DEF DelStreamProfile, Goto, Label
  <2>5. Local(r)
    BY <1>f, <1>s, <1>c, <2>1, <2>4 DEF Local, Set, View, Coherent, keys, meta, manager
  <2>6. Steady(r)
    BY <1>f, <1>c, <2>1, <2>4 DEF Steady, Set, View, Owed, At, Coherent, keys, meta, manager
  <2>7. Coherent(r)'
    BY <1>f, <1>s, <1>c, <2>1, <2>4 DEF Coherent, Set, View, SwitchLabel, keys, meta, manager
  <2>8. Rested(r)'
    BY <1>f, <1>c, <2>1, <2>4 DEF Rested, Set, View, At, Coherent, keys, meta, manager
  <2> QED
    BY <2>5, <2>6, <2>7, <2>8 DEF Kept
<1>5. CASE TestCount(r, "rel_count", "rel_decr", "rel_hdel") /\ connections[f.profile] > 0
  <2>1. f.pc = "rel_count" /\ UNCHANGED <<keys, connections, meta, manager>>
    BY <1>5 DEF TestCount, At
  <2>4. View(r, "rel_decr", f.stream, f.profile, f.ret)
    BY <1>f, <1>5, GoView DEF TestCount, Goto, Label
  <2>5. Local(r)
    BY <1>f, <1>s, <1>c, <2>1, <2>4 DEF Local, View, Coherent, keys, meta, manager
  <2>6. Steady(r)
    BY <1>f, <1>c, <2>1, <2>4 DEF Steady, View, Owed, At, Coherent, keys, meta, manager
  <2>7. Coherent(r)'
    BY <1>f, <1>s, <1>c, <2>1, <2>4 DEF Coherent, View, SwitchLabel, keys, meta, manager
  <2>8. Rested(r)'
    BY <1>f, <1>c, <2>1, <2>4 DEF Rested, View, At, Coherent, keys, meta, manager
  <2> QED
    BY <2>5, <2>6, <2>7, <2>8 DEF Kept
<1>6. CASE TestCount(r, "rel_count", "rel_decr", "rel_hdel") /\ ~(connections[f.profile] > 0)
  <2>1. f.pc = "rel_count" /\ UNCHANGED <<keys, connections, meta, manager>>
        /\ connections[f.profile] <= 0
    BY <1>f, <1>t, <1>c, <1>6 DEF TestCount, At, Coherent
  <2>4. View(r, "rel_hdel", f.stream, f.profile, f.ret)
    BY <1>f, <1>6, GoView DEF TestCount, Goto, Label
  <2>5. Local(r)
    BY <1>f, <1>s, <1>c, <2>1, <2>4 DEF Local, View, Coherent, keys, meta, manager
  <2>6. Dropped(r, f.profile) /\ f.profile \in Profile
    BY <1>f, <1>t, <1>c, <2>1, <2>4 DEF Dropped, View, Owed, At, Coherent, keys, meta, manager
  <2>7. Coherent(r)'
    BY <1>f, <1>s, <1>c, <2>1, <2>4 DEF Coherent, View, SwitchLabel, keys, meta, manager
  <2>8. Rested(r)'
    BY <1>f, <1>c, <2>1, <2>4 DEF Rested, View, At, Coherent, keys, meta, manager
  <2> QED
    BY <2>5, <2>6, <2>7, <2>8 DEF Kept
<1>7. CASE Decrement(r, "rel_decr", "rel_hdel")
  <2>1. f.pc = "rel_decr" /\ connections' = [connections EXCEPT ![f.profile] = @ - 1]
        /\ UNCHANGED <<keys, meta, manager>>
    BY <1>7 DEF Decrement, At, Set
  <2>4. View(r, "rel_hdel", f.stream, f.profile, f.ret)
    BY <1>f, <1>7, GoView DEF Decrement, Goto, Label
  <2>5. Local(r)
    BY <1>f, <1>s, <1>c, <2>1, <2>4 DEF Local, View, Coherent, keys, meta, manager
  <2>6. Given(r, f.profile) /\ f.profile \in Profile
    BY <1>f, <1>t, <1>c, <2>1, <2>4 DEF Given, View, Owed, At, Coherent, keys, meta, manager
  <2>7. Coherent(r)'
    BY <1>f, <1>s, <1>c, <2>1, <2>4 DEF Coherent, View, SwitchLabel, keys, meta, manager
  <2>8. Rested(r)'
    BY <1>f, <1>c, <2>1, <2>4 DEF Rested, View, At, Coherent, keys, meta, manager
  <2> QED
    BY <2>5, <2>6, <2>7, <2>8 DEF Kept
<1>8. CASE ClearMetadata(r, "rel_hdel", f.ret)
  <2>1. f.pc = "rel_hdel"
        /\ metaStream' = Set(metaStream, c, None) /\ metaProfile' = Set(metaProfile, c, None)
        /\ UNCHANGED <<keys, connections, manager>>
    BY <1>8 DEF ClearMetadata, At
  <2>r. f.ret \in {"recheck", "retry", "idle", "del_meta"}
    BY <1>t, <1>c, <2>1 DEF Coherent, ReturnLabel
  <2>4. PICK s \in {None, f.stream}, p \in {None, f.profile}, b \in {"idle", f.ret} :
         View(r, f.ret, s, p, b)
    BY <1>f, <1>t, <1>8, GotoView DEF ClearMetadata, Label
  <2>5. Local(r)
    BY <1>f, <1>s, <1>c, <2>r, <2>1, <2>4 DEF Local, Set, View, Coherent, keys, meta, manager
  <2>6. Steady(r)
    BY <1>f, <1>c, <2>r, <2>1, <2>4
       DEF Steady, Set, View, Owed, At, Coherent, keys, meta, manager
  <2>7. Coherent(r)'
    BY <1>f, <1>s, <1>c, <2>r, <2>1, <2>4
       DEF Coherent, Set, View, SwitchLabel, keys, meta, manager
  <2>8. Rested(r)'
    BY <1>f, <1>c, <2>r, <2>1, <2>4 DEF Rested, Set, View, At, Coherent, keys, meta, manager
  <2> QED
    BY <2>5, <2>6, <2>7, <2>8 DEF Kept
<1>9. CASE FallbackStream(r)
  <2>1. f.pc = "fb_stream" /\ UNCHANGED <<keys, connections, meta, manager>>
    BY <1>9 DEF FallbackStream, At
  <2>2. metaStream[c] \in Stream \cup {None}
    BY <1>f, <1>t, <2>1 DEF Present, UsesStream, UsesProfile
  <2> DEFINE g == [f EXCEPT !.stream = metaStream[c]]
  <2>l. ("fb_profile") \in Label
    BY DEF Label
  <2>3. g \in Frame /\ g.stream = metaStream[c] /\ g.profile = f.profile /\ g.ret = f.ret
    BY <1>f, <2>2, UpdateType, ZenonT(60) DEF Frame
  <2>4. View(r, "fb_profile", metaStream[c], f.profile, f.ret)
    <3>1. Go(r, g, "fb_profile")
      BY <1>9 DEF FallbackStream
    <3> HIDE DEF g
    <3> QED
      BY <1>f, <2>l, <2>3, <3>1, GoView
  <2>5. Local(r)
    BY <1>f, <1>s, <1>c, <2>1, <2>4 DEF Local, View, Coherent, keys, meta, manager
  <2>6. Steady(r)
    BY <1>f, <1>c, <2>1, <2>4 DEF Steady, View, Owed, At, Coherent, keys, meta, manager
  <2>7. Coherent(r)'
    BY <1>f, <1>s, <1>c, <2>1, <2>4 DEF Coherent, View, SwitchLabel, keys, meta, manager
  <2>8. Rested(r)'
    BY <1>f, <1>c, <2>1, <2>4 DEF Rested, View, At, Coherent, keys, meta, manager
  <2> QED
    BY <2>5, <2>6, <2>7, <2>8 DEF Kept
<1>10. CASE FallbackProfile(r)
  <2>1. f.pc = "fb_profile" /\ UNCHANGED <<keys, connections, meta, manager>>
    BY <1>10 DEF FallbackProfile, At
  <2>r. f.ret \in {"recheck", "retry", "idle", "del_meta"}
    BY <1>t, <1>c, <2>1 DEF Coherent, ReturnLabel
  <2>2. metaProfile[c] = None
    BY <1>c, <2>1 DEF Coherent
  <2> DEFINE g == [f EXCEPT !.profile = None]
  <2>3. g \in Frame /\ g.stream = f.stream /\ g.profile = None /\ g.ret = f.ret
    <3>1. f \in Frame
      BY <1>f
    <3>2. g \in Frame
      BY ONLY <3>1, UpdateType
    <3>3. g.stream = f.stream /\ g.profile = None /\ g.ret = f.ret
      BY ONLY <3>1 DEF Frame
    <3> QED
      BY <3>2, <3>3
  <2>4. PICK s \in {None, f.stream}, b \in ReturnLabel : View(r, f.ret, s, None, b)
    <3>1. Go(r, g, f.ret)
      BY <1>10, <2>2 DEF FallbackProfile
    <3>2. "idle" \in ReturnLabel
      BY DEF ReturnLabel
    <3> HIDE DEF g
    <3> QED
      BY <1>f, <1>t, <2>3, <3>1, <3>2, GoView, ZenonT(60)
  <2>5. Local(r)
    BY <1>f, <1>s, <1>c, <2>r, <2>1, <2>4 DEF Local, View, Coherent, keys, meta, manager
  <2>6. Steady(r)
    BY <1>f, <1>c, <2>r, <2>1, <2>4 DEF Steady, View, Owed, At, Coherent, keys, meta, manager
  <2>7. Coherent(r)'
    BY <1>f, <1>s, <1>c, <2>r, <2>1, <2>4 DEF Coherent, View, SwitchLabel, keys, meta, manager
  <2>8. Rested(r)'
    BY <1>f, <1>c, <2>r, <2>1, <2>4 DEF Rested, View, At, Coherent, keys, meta, manager
  <2> QED
    BY <2>5, <2>6, <2>7, <2>8 DEF Kept
<1>11. f.pc \notin {"rel_meta", "fb_del_cs", "fb_del_sp", "fb_hdel", "fb_count", "fb_decr"}
  BY <1>c DEF Coherent
<1>12. CASE ReleaseByKeys(r)
  <2>1. ~RelMetaProfile(r)
    BY <1>11 DEF RelMetaProfile, At
  <2> QED
    BY <1>12, <2>1, <1>1, <1>2, <1>3, <1>4, <1>5, <1>6, <1>7, <1>8 DEF ReleaseByKeys
<1>13. CASE ReleaseByMetadata(r)
  BY <1>13, <1>9, <1>10, <1>11 DEF ReleaseByMetadata, DelChannelStream, DelStreamProfile,
       ClearMetadata, TestCount, Decrement, At
<1> QED
  BY <1>12, <1>13 DEF ReleaseStream

\* Stops and leaving clients: the fields go only when the slot is gone.
LEMMA StopSteps ==
    ASSUME NEW r \in Request, Before(r), Stop(r)
    PROVE  Kept(r)
<1> DEFINE f == frame[r]
           c == ChanOf[r]
<1>f. /\ frame \in [Request -> Frame] /\ f \in Frame /\ Present(f) /\ c \in Channel
      /\ channelStream \in [Channel -> Stream \cup {None}]
      /\ streamProfile \in [Stream -> Profile \cup {None}]
      /\ metaStream \in [Channel -> Stream \cup {None}]
      /\ metaProfile \in [Channel -> Profile \cup {None}]
      /\ running \in [Channel -> BOOLEAN] /\ connections \in [Profile -> Int]
  BY DEF Before, TypeInv, TypeOK, LocalsPresent
<1>t. /\ f.pc \in Label /\ f.ret \in ReturnLabel /\ f.ret \in Label
      /\ f.stream \in Stream \cup {None} /\ f.profile \in Profile \cup {None}
      /\ f.index \in Nat \ {0} /\ f.attempts \in 0..MaxAttempts
  BY <1>f, UpdateType
<1>s. StreamsOf(c) \subseteq Stream
  BY <1>f, StreamsType
<1>c. Coherent(r) /\ Rested(r)
  BY DEF Before
<1>1. CASE StartLeave(r)
  <2>1. f.pc = "idle" /\ UNCHANGED <<keys, connections, meta, manager>>
    BY <1>1 DEF StartLeave, At
  <2>4. View(r, "rel_cs", None, None, "idle")
    BY <1>f, <1>t, <1>1, CallView DEF StartLeave, Label, ReturnLabel
  <2>5. Local(r)
    BY <1>f, <1>s, <1>c, <2>1, <2>4 DEF Local, View, Coherent, keys, meta, manager
  <2>6. Steady(r)
    BY <1>f, <1>c, <2>1, <2>4 DEF Steady, View, Owed, At, Coherent, keys, meta, manager
  <2>7. Coherent(r)'
    BY <1>f, <1>s, <1>c, <2>1, <2>4 DEF Coherent, View, SwitchLabel, keys, meta, manager
  <2>8. Rested(r)'
    BY <1>f, <1>c, <2>1, <2>4 DEF Rested, View, At, Coherent, keys, meta, manager
  <2> QED
    BY <2>5, <2>6, <2>7, <2>8 DEF Kept
<1>2. CASE StartStop(r)
  <2>1. f.pc = "idle" /\ UNCHANGED <<keys, connections, meta, manager>>
    BY <1>2 DEF StartStop, At
  <2>4. View(r, "stop", f.stream, f.profile, f.ret)
    BY <1>f, <1>2, GoView DEF StartStop, Goto, Label
  <2>5. Local(r)
    BY <1>f, <1>s, <1>c, <2>1, <2>4 DEF Local, View, Coherent, keys, meta, manager
  <2>6. Steady(r)
    BY <1>f, <1>c, <2>1, <2>4 DEF Steady, View, Owed, At, Coherent, keys, meta, manager
  <2>7. Coherent(r)'
    BY <1>f, <1>s, <1>c, <2>1, <2>4 DEF Coherent, View, SwitchLabel, keys, meta, manager
  <2>8. Rested(r)'
    BY <1>f, <1>c, <2>1, <2>4 DEF Rested, View, At, Coherent, keys, meta, manager
  <2> QED
    BY <2>5, <2>6, <2>7, <2>8 DEF Kept
<1>3. CASE StopManager(r)
  <2>1. f.pc = "stop" /\ running' = Set(running, c, FALSE) /\ UNCHANGED <<keys, connections, meta>>
    BY <1>3 DEF StopManager, At
  <2>4. View(r, "rel_cs", None, None, "del_meta")
    BY <1>f, <1>t, <1>3, CallView DEF StopManager, Label, ReturnLabel
  <2>5. Local(r)
    BY <1>f, <1>s, <1>c, <2>1, <2>4 DEF Local, Set, View, Coherent, keys, meta, manager
  <2>6. Steady(r)
    BY <1>f, <1>c, <2>1, <2>4 DEF Steady, Set, View, Owed, At, Coherent, keys, meta, manager
  <2>7. Coherent(r)'
    BY <1>f, <1>s, <1>c, <2>1, <2>4 DEF Coherent, Set, View, SwitchLabel, keys, meta, manager
  <2>8. Rested(r)'
    BY <1>f, <1>c, <2>1, <2>4 DEF Rested, Set, View, At, Coherent, keys, meta, manager
  <2> QED
    BY <2>5, <2>6, <2>7, <2>8 DEF Kept
<1>4. CASE DeleteChannelKeys(r) /\ ~Goto(r, "idle")
  <2>1. f.pc = "del_meta"
        /\ metaStream' = Set(metaStream, c, None) /\ metaProfile' = Set(metaProfile, c, None)
        /\ UNCHANGED <<keys, connections, manager>>
    BY <1>4 DEF DeleteChannelKeys, At
  <2>4. View(r, "rel_cs", None, None, "idle")
    BY <1>f, <1>t, <1>4, CallView DEF DeleteChannelKeys, Label, ReturnLabel
  <2>5. Local(r)
    BY <1>f, <1>s, <1>c, <2>1, <2>4 DEF Local, Set, View, Coherent, keys, meta, manager
  <2>6. Steady(r)
    BY <1>f, <1>c, <2>1, <2>4 DEF Steady, Set, View, Owed, At, Coherent, keys, meta, manager
  <2>7. Coherent(r)'
    BY <1>f, <1>s, <1>c, <2>1, <2>4 DEF Coherent, Set, View, SwitchLabel, keys, meta, manager
  <2>8. Rested(r)'
    BY <1>f, <1>c, <2>1, <2>4 DEF Rested, Set, View, At, Coherent, keys, meta, manager
  <2> QED
    BY <2>5, <2>6, <2>7, <2>8 DEF Kept
<1>5. CASE DeleteChannelKeys(r) /\ Goto(r, "idle")
  <2>1. f.pc = "del_meta"
        /\ metaStream' = Set(metaStream, c, None) /\ metaProfile' = Set(metaProfile, c, None)
        /\ UNCHANGED <<keys, connections, manager>>
    BY <1>5 DEF DeleteChannelKeys, At
  <2>4. View(r, "idle", None, None, "idle")
    BY <1>f, <1>5, GoView DEF Goto, Label
  <2>5. Local(r)
    BY <1>f, <1>s, <1>c, <2>1, <2>4 DEF Local, Set, View, Coherent, keys, meta, manager
  <2>6. Steady(r)
    BY <1>f, <1>c, <2>1, <2>4 DEF Steady, Set, View, Owed, At, Coherent, keys, meta, manager
  <2>7. Coherent(r)'
    BY <1>f, <1>s, <1>c, <2>1, <2>4 DEF Coherent, Set, View, SwitchLabel, keys, meta, manager
  <2>8. Rested(r)'
    BY <1>f, <1>c, <2>1, <2>4 DEF Rested, Set, View, At, Coherent, keys, meta, manager
  <2> QED
    BY <2>5, <2>6, <2>7, <2>8 DEF Kept
<1> QED
  BY <1>1, <1>2, <1>3, <1>4, <1>5 DEF Stop

\* Every step of a request keeps the promises about its own channel.
LEMMA StepKept ==
    ASSUME NoFailover, NEW r \in Request, Before(r), Step(r) PROVE Kept(r)
<1>1. ~Switch(r)
  BY DEF Before, Coherent, Switch, UpdateStreamProfile, StartSwitch, ScanProfile, ReadHeldStream,
         ReadHeldProfile, TestProfile, AbandonSwitch, TakeStream, ReadOldCount, MoveSlot,
         RecordSwitch, At, SwitchLabel, NoFailover
<1> QED
  BY <1>1, GetSteps, ReserveKept, RollbackKept, PlaySteps, ReleaseSteps, StopSteps
     DEF Step, GetStream

\* A step of r changes neither the slot nor the coherence of another request.
LEMMA OthersKept ==
    ASSUME TypeInv, Serial, NEW r \in Request, Local(r), NEW q \in Request \ {r}, Coherent(q)
    PROVE  Coherent(q)' /\ Owed(q)' = Owed(q) /\ (At(q, "rollback")' <=> At(q, "rollback"))
<1>1. /\ ChanOf[q] \in Channel /\ ChanOf[r] \in Channel /\ ChanOf[q] # ChanOf[r]
      /\ StreamsOf(ChanOf[q]) \cap StreamsOf(ChanOf[r]) = {}
      /\ StreamsOf(ChanOf[q]) \subseteq Stream
  BY StreamsType DEF Serial
<1>2. /\ frame'[q] = frame[q]
      /\ channelStream'[ChanOf[q]] = channelStream[ChanOf[q]]
      /\ metaStream'[ChanOf[q]] = metaStream[ChanOf[q]]
      /\ metaProfile'[ChanOf[q]] = metaProfile[ChanOf[q]]
      /\ running'[ChanOf[q]] = running[ChanOf[q]]
      /\ \A s \in StreamsOf(ChanOf[q]) : streamProfile'[s] = streamProfile[s]
  BY <1>1 DEF Local
<1>3. Coherent(q)'
  BY <1>2 DEF Coherent
<1>4. Owed(q)' = Owed(q)
  BY <1>2 DEF Owed, At, Coherent
<1> QED
  BY <1>2, <1>3, <1>4 DEF At

\* Who holds a slot of p, and who owes one.
HoldersOf(p) == {q \in Request : Held[q] = p}

\* The two ways to say who holds a slot are one.
LEMMA HoldersSame ==
    ASSUME NEW p \in Profile PROVE Owers(p) \ Overshoot(p) = HoldersOf(p)
  BY DEF Owers, Overshoot, HoldersOf, Held, Owed, At

\* What is counted is finite.
LEMMA CountsFinite ==
    ASSUME NEW p
    PROVE  /\ IsFiniteSet(Owers(p)) /\ Cardinality(Owers(p)) \in Nat
           /\ IsFiniteSet(HoldersOf(p)) /\ Cardinality(HoldersOf(p)) \in Nat
           /\ p \in Profile => Cardinality(HoldersOf(p)) <= Cardinality(Owers(p))
<1>1. Owers(p) \subseteq Request /\ HoldersOf(p) \subseteq Request
  BY DEF Owers, HoldersOf
<1>2. p \in Profile => HoldersOf(p) \subseteq Owers(p)
  BY HoldersSame
<1> QED
  BY <1>1, <1>2, FS_Subset, FS_CardinalityType

\* The invariant of the proofs: the types and what the run checks.
SerialIInv == TypeInv /\ SerialSound

\* With one request to a channel, the invariant says what a step starts from.
LEMMA BeforeStep ==
    ASSUME Serial, SerialIInv, NEW r \in Request PROVE Before(r)
<1>1. ChanOf[r] \in Channel /\ (At(r, "idle") => AtRest(ChanOf[r]))
  BY DEF Serial, AtRest
<1> QED
  BY <1>1 DEF SerialIInv, SerialSound, SerialInv, StoppedHoldsNothing, Before, Rested

\* The counter follows the slots that are owed.
LEMMA CountFollows ==
    ASSUME SerialIInv, Serial, NEW r \in Request, Kept(r), NEW p \in Profile, Limited(p)
    PROVE  connections'[p] = Cardinality(Owers(p)')
<1>q. \A q \in Request \ {r} : Owed(q)' = Owed(q)
  BY OthersKept DEF SerialIInv, SerialSound, SerialInv, Kept
<1>c. /\ connections[p] = Cardinality(Owers(p)) /\ connections \in [Profile -> Int]
      /\ MaxStreams[p] # 0
  BY DEF SerialIInv, SerialSound, CountExact, TypeInv, TypeOK, Limited
<1>f. IsFiniteSet(Owers(p))
  BY CountsFinite
<1>1. CASE Steady(r)
  <2>1. Owers(p)' = Owers(p)
    BY <1>q, <1>1 DEF Owers, Steady
  <2> QED
    BY <1>c, <1>1, <2>1 DEF Steady
<1>2. ASSUME NEW o \in Profile, Taken(r, o) \/ Given(r, o) \/ Dropped(r, o), o # p
      PROVE  connections'[p] = Cardinality(Owers(p)')
  <2>1. Owers(p)' = Owers(p)
    <3>1. Owed(r) # p /\ Owed(r)' # p
      BY <1>2 DEF Taken, Given, Dropped
    <3> QED
      BY <1>q, <3>1 DEF Owers
  <2>2. connections'[p] = connections[p]
    BY <1>c, <1>2 DEF Taken, Given, Dropped
  <2> QED
    BY <1>c, <2>1, <2>2
<1>3. CASE Taken(r, p)
  <2>1. Owers(p)' = Owers(p) \cup {r} /\ r \notin Owers(p)
    BY <1>q, <1>3 DEF Owers, Taken
  <2>2. Cardinality(Owers(p) \cup {r}) = Cardinality(Owers(p)) + 1
    BY <1>f, <2>1, FS_AddElement
  <2> QED
    BY <1>c, <1>3, <2>1, <2>2 DEF Taken
<1>4. CASE Given(r, p)
  <2>1. Owers(p)' = Owers(p) \ {r} /\ r \in Owers(p)
    BY <1>q, <1>4 DEF Owers, Given
  <2>2. Cardinality(Owers(p) \ {r}) = Cardinality(Owers(p)) - 1
    BY <1>f, <2>1, FS_RemoveElement
  <2> QED
    BY <1>c, <1>4, <2>1, <2>2 DEF Given
<1>5. ~Dropped(r, p)
  <2>1. SUFFICES ASSUME Dropped(r, p) PROVE FALSE
    OBVIOUS
  <2>2. r \in Owers(p)
    BY <2>1 DEF Dropped, Owers
  <2>3. Cardinality(Owers(p)) # 0
    BY <2>2, CountsFinite, FS_EmptySet
  <2> QED
    BY <1>c, <2>1, <2>3, CountsFinite DEF Dropped
<1> QED
  BY <1>1, <1>2, <1>3, <1>4, <1>5 DEF Kept

\* A step either leaves the slots that are held alone, or is one of the pool.
PoolStep(r) ==
    \/ Held' = Held
    \/ Pool!Release(r)
    \/ \E p \in Profile : Pool!Acquire(r, p)

\* SlotPool counts as this module does.
LEMMA PoolCounts ==
    ASSUME NEW p PROVE Pool!Cardinality(Pool!Holders(p)) = Cardinality(HoldersOf(p))
<1>1. Pool!Holders(p) = HoldersOf(p)
  BY DEF Pool!Holders, HoldersOf
<1>2. ASSUME NEW S PROVE Pool!Cardinality(S) = Cardinality(S)
  BY DEF Pool!Cardinality, Cardinality
<1> QED
  BY <1>1, <1>2

\* What a step does to the slots that are held is a step of the pool, or none.
LEMMA HeldFollows ==
    ASSUME SerialIInv, Serial, NEW r \in Request, Kept(r) PROVE PoolStep(r)
<1>q. \A q \in Request \ {r} : Held'[q] = Held[q]
  BY OthersKept DEF SerialIInv, SerialSound, SerialInv, Kept, Held
<1>d. /\ Held = [q \in Request |-> Held[q]] /\ Held' = [q \in Request |-> Held'[q]]
      /\ Held[r] = (IF At(r, "rollback") THEN None ELSE Owed(r))
      /\ Held'[r] = (IF At(r, "rollback")' THEN None ELSE Owed(r)')
  BY DEF Held
<1>1. CASE Held'[r] = Held[r]
  BY <1>q, <1>d, <1>1 DEF PoolStep
<1>2. CASE Held'[r] # Held[r] /\ Held'[r] = None
  <2>1. Held' = [Held EXCEPT ![r] = None]
    BY <1>q, <1>d, <1>2
  <2> QED
    BY <1>2, <2>1 DEF PoolStep, Pool!Release
<1>3. CASE Held'[r] # Held[r] /\ Held'[r] # None
  <2>1. PICK p \in Profile : Taken(r, p) /\ Held'[r] = p /\ Held[r] = None
    BY <1>d, <1>3 DEF Kept, Steady, Taken, Given, Dropped
  <2>2. Held' = [Held EXCEPT ![r] = p]
    BY <1>q, <1>d, <2>1
  <2>3. ASSUME MaxStreams[p] > 0 PROVE Cardinality(HoldersOf(p)) < MaxStreams[p]
    <3>1. connections[p] = Cardinality(Owers(p)) /\ connections[p] \in Int
      BY <2>3 DEF SerialIInv, SerialSound, CountExact, Limited, TypeInv, TypeOK
    <3>2. ~At(r, "rollback")'
      BY <1>d, <1>3
    <3>3. connections[p] + 1 <= MaxStreams[p]
      BY <2>1, <2>3, <3>1, <3>2 DEF Taken
    <3> QED
      BY <3>1, <3>3, CountsFinite
  <2>5. Pool!Acquire(r, p)
    BY <2>1, <2>2, <2>3, PoolCounts DEF Pool!Acquire
  <2> QED
    BY <2>5 DEF PoolStep
<1> QED
  BY <1>1, <1>2, <1>3

\* A step of the pool keeps the holders of a profile within its limit.
LEMMA LimitKept ==
    ASSUME SerialIInv, NEW r \in Request, PoolStep(r) PROVE HoldersWithinLimit'
<1> SUFFICES ASSUME NEW p \in Profile, Limited(p)
             PROVE  Cardinality(HoldersOf(p)') <= MaxStreams[p]
  <2>1. \A p \in Profile : (Owers(p) \ Overshoot(p))' = HoldersOf(p)'
    BY DEF Owers, Overshoot, HoldersOf, Held, Owed, At
  <2> QED
    BY <2>1 DEF HoldersWithinLimit, Limited
<1>1. Cardinality(HoldersOf(p)) <= MaxStreams[p]
  BY HoldersSame DEF SerialIInv, SerialSound, HoldersWithinLimit
<1>2. CASE Held' = Held
  BY <1>1, <1>2 DEF HoldersOf
<1>3. CASE Pool!Release(r)
  <2>1. HoldersOf(p)' \subseteq HoldersOf(p)
    BY <1>3 DEF Pool!Release, HoldersOf, Held
  <2>2. /\ IsFiniteSet(HoldersOf(p)') /\ Cardinality(HoldersOf(p)') \in Nat
        /\ Cardinality(HoldersOf(p)') <= Cardinality(HoldersOf(p))
    BY <2>1, CountsFinite, FS_Subset, FS_CardinalityType
  <2> QED
    BY <1>1, <2>2, CountsFinite
<1>4. ASSUME NEW o \in Profile, Pool!Acquire(r, o)
      PROVE  Cardinality(HoldersOf(p)') <= MaxStreams[p]
  <2>0. Held \in [Request -> {Held[q] : q \in Request}]
    BY DEF Held
  <2>1. CASE o = p
    <3>1. HoldersOf(p)' = HoldersOf(p) \cup {r}
      BY <1>4, <2>0, <2>1 DEF Pool!Acquire, HoldersOf
    <3>2. Cardinality(HoldersOf(p)) < MaxStreams[p]
      BY <1>4, <2>1, PoolCounts DEF Pool!Acquire, Limited
    <3>3. Cardinality(HoldersOf(p) \cup {r}) <= Cardinality(HoldersOf(p)) + 1
      <4>1. /\ Cardinality(HoldersOf(p)) \in Nat
            /\ \/ Cardinality(HoldersOf(p) \cup {r}) = Cardinality(HoldersOf(p))
               \/ Cardinality(HoldersOf(p) \cup {r}) = Cardinality(HoldersOf(p)) + 1
        BY CountsFinite, FS_AddElement
      <4> QED
        BY <4>1
    <3>4. Cardinality(HoldersOf(p) \cup {r}) \in Nat
      BY CountsFinite, FS_AddElement, FS_CardinalityType
    <3> QED
      BY <3>1, <3>2, <3>3, <3>4, CountsFinite
  <2>2. CASE o # p
    <3>1. HoldersOf(p)' = HoldersOf(p)
      BY <1>4, <2>0, <2>2 DEF Pool!Acquire, HoldersOf
    <3> QED
      BY <1>1, <3>1
  <2> QED
    BY <2>1, <2>2
<1> QED
  BY <1>2, <1>3, <1>4 DEF PoolStep

\* A channel at rest that does not run holds nothing, whoever took the step.
LEMMA StoppedKept ==
    ASSUME SerialIInv, Serial, NEW r \in Request, Kept(r) PROVE StoppedHoldsNothing'
<1> SUFFICES ASSUME NEW c \in Channel, AtRest(c)', ~running'[c]
             PROVE  channelStream'[c] = None /\ metaStream'[c] = None /\ metaProfile'[c] = None
  BY DEF StoppedHoldsNothing
<1>1. CASE c = ChanOf[r]
  BY <1>1 DEF Kept, Rested, AtRest
<1>2. CASE c # ChanOf[r]
  <2>1. AtRest(c)
    BY <1>2 DEF AtRest, At, Kept, Local
  <2> QED
    BY <1>2, <2>1 DEF Kept, Local, SerialIInv, SerialSound, StoppedHoldsNothing
<1> QED
  BY <1>1, <1>2

\* A step keeps the promises, and is one of the pool.
LEMMA SerialStep ==
    ASSUME Serial, NoFailover, SerialIInv, NEW r \in Request, Step(r)
    PROVE  SerialSound' /\ PoolStep(r)
<1>1. Kept(r)
  BY BeforeStep, StepKept
<1>2. SerialInv'
  BY <1>1, OthersKept DEF SerialIInv, SerialSound, SerialInv, Kept
<1>3. CountExact'
  BY <1>1, CountFollows DEF CountExact, Limited
<1>4. PoolStep(r)
  BY <1>1, HeldFollows
<1>5. HoldersWithinLimit'
  BY <1>4, LimitKept
<1>6. StoppedHoldsNothing'
  BY <1>1, StoppedKept
<1> QED
  BY <1>2, <1>3, <1>4, <1>5, <1>6 DEF SerialSound

\* At the start nobody holds or owes anything.
LEMMA SerialInit == ASSUME Init PROVE SerialSound /\ Pool!Init
<1>1. \A r \in Request : /\ frame[r].pc = "idle" /\ frame[r].stream = None
                         /\ ChanOf[r] \in Channel
  BY DEF Init, Idle, Fresh
<1>2. \A r \in Request : Owed(r) = None
  BY <1>1 DEF Owed, At, Init
<1>3. SerialInv
  BY <1>1 DEF SerialInv, Coherent, Init, SwitchLabel
<1>4. Held = [r \in Request |-> None]
  BY <1>1, <1>2 DEF Held
<1>5. ASSUME NEW p \in Profile
      PROVE  Cardinality(Owers(p)) = 0 /\ Cardinality(HoldersOf(p)) = 0
  <2>1. Owers(p) = {} /\ HoldersOf(p) = {}
    BY <1>2, <1>4 DEF Owers, HoldersOf
  <2> QED
    BY <2>1, FS_EmptySet
<1>6. CountExact /\ HoldersWithinLimit
  <2>1. \A p \in Profile : connections[p] = 0 /\ MaxStreams[p] \in Nat
    BY DEF Init
  <2>2. \A p \in Profile : Cardinality(Owers(p) \ Overshoot(p)) = 0
    BY <1>5, HoldersSame
  <2>3. CountExact
    BY <1>5, <2>1 DEF CountExact
  <2>4. HoldersWithinLimit
    <3>1. ASSUME NEW p \in Profile PROVE Cardinality(Owers(p) \ Overshoot(p)) <= MaxStreams[p]
      <4>1. Cardinality(Owers(p) \ Overshoot(p)) = 0 /\ MaxStreams[p] \in Nat
        BY <2>1, <2>2
      <4> QED
        BY <4>1
    <3> QED
      BY <3>1 DEF HoldersWithinLimit
  <2> QED
    BY <2>3, <2>4
<1>7. StoppedHoldsNothing
  BY DEF StoppedHoldsNothing, Init
<1> QED
  BY <1>3, <1>4, <1>6, <1>7 DEF SerialSound, Pool!Init

\* With one request to a channel at a time and no failover, the counters are
\* exactly the slots that are owed, no limit is exceeded, and a stopped channel
\* holds nothing, through retries, failing starts, redirects, leaves and double
\* releases of any number of channels (get_stream, release_stream).
THEOREM SerialSlotsSound == ASSUME Serial, NoFailover PROVE Spec => []SerialSound
<1>1. Init => SerialSound
  BY SerialInit
<1>2. TypeInv /\ SerialSound /\ [Next]_vars => SerialSound'
  <2> SUFFICES ASSUME TypeInv, SerialSound, [Next]_vars PROVE SerialSound'
    OBVIOUS
  <2>1. CASE UNCHANGED vars
    BY <2>1 DEF vars, keys, meta, manager, SerialSound, SerialInv, Coherent, CountExact,
       HoldersWithinLimit, StoppedHoldsNothing, Owers, Owed, Overshoot, At, AtRest, Limited
  <2>2. CASE Next
    BY <2>2, SerialStep DEF Next, SerialIInv
  <2> QED
    BY <2>1, <2>2
<1> QED
  BY <1>1, <1>2, TypeInvariant, PTL DEF Spec

\* The Redis commands implement the pool: what the provider sees of a series of
\* them is one step that takes a slot while one is free, or one that gives a
\* slot back.
THEOREM SlotsImplementPool == ASSUME Serial, NoFailover PROVE Spec => PoolSpec
<1>1. Init => Pool!Init
  BY SerialInit
<1>2. TypeInv /\ SerialSound /\ [Next]_vars => [Pool!Next]_Held
  <2> SUFFICES ASSUME TypeInv, SerialSound, [Next]_vars PROVE [Pool!Next]_Held
    OBVIOUS
  <2>1. CASE UNCHANGED vars
    BY <2>1 DEF vars, keys, meta, manager, Held, Owed, At
  <2>2. CASE Next
    <3>1. PICK r \in Request : PoolStep(r)
      BY <2>2, SerialStep DEF Next, SerialIInv
    <3> QED
      BY <3>1 DEF PoolStep, Pool!Next
  <2> QED
    BY <2>1, <2>2
<1> QED
  BY <1>1, <1>2, SerialSlotsSound, TypeInvariant, PTL DEF Spec, PoolSpec, Pool!Spec
=============================================================================
