------------------------ MODULE VodConnectionsProofs ------------------------
(***************************************************************************)
(* Proofs about VodConnections, for any sessions, requests and limit: as   *)
(* long as nothing goes wrong, the count of each session is that of its    *)
(* streams, the counter of the profile that of the sessions that stream,   *)
(* within the limit, and no record is removed under a stream.              *)
(***************************************************************************)
EXTENDS VodConnections, FiniteSetTheorems, TLAPS

Fine == trouble # "over"

\* The requests that a session's count includes: those that stream, and those that
\* were counted on the way to it.
Waiting(r) == pc[r] \in {"again", "undo"} \/ (pc[r] = "lookup" /\ matched[r])
Served(r)  == pc[r] \in {"stream", "end"} \/ (pc[r] \in {"open", "save"} /\ ~fresh[r])
Counted(s) == {r \in Request : session[r] = s /\ (Waiting(r) \/ Served(r))}

\* The slots: one for each session with requests that have one, one for each request
\* that has it for a new session, or from a session that has ended.
Busy    == {s \in Session : \E r \in Request : session[r] = s /\ Served(r)}
Holding == {r \in Request : \/ pc[r] = "release"
                            \/ fresh[r] /\ pc[r] \in {"create", "open", "save", "start"}}

OneConnects == \A q, r \in Request : Connecting(q) /\ Connecting(r) => q = r

\* A request whose session had no record is the one that makes it; one that has no
\* slot yet has reserved none.
FlagsRight ==
    \A r \in Request :
        /\ pc[r] \in {"reserve", "create", "start"} => fresh[r]
        /\ pc[r] \in {"match", "lookup", "increment", "again", "undo", "giveback"} => ~fresh[r]
        /\ pc[r] \in {"match", "lookup", "reserve", "increment", "again", "undo", "giveback"}
              => ~reserved[r]
        /\ pc[r] = "increment" => ~matched[r]

CountsExact ==
    \A s \in Session : IF active[s] = None THEN Counted(s) = {}
                       ELSE active[s] = Cardinality(Counted(s))

\* Nobody else is counted in a session that is new, or about to be taken, or that
\* somebody has just taken without a slot yet.
Alone ==
    \A r \in Request :
        /\ pc[r] \in {"reserve", "create"} => active[session[r]] = None
        /\ fresh[r] /\ pc[r] \in {"open", "save", "start"} => active[session[r]] = 0
        /\ pc[r] = "match" /\ matched[r] => Counted(session[r]) = {}
        /\ Waiting(r) => Counted(session[r]) = {r}

SlotsExact ==
    IF Limit = 0 THEN counter = 0
    ELSE counter = Cardinality(Busy) + Cardinality(Holding) /\ counter <= Limit

IInv ==
    /\ TypeOK
    /\ Fine => OneConnects /\ FlagsRight /\ CountsExact /\ Alone /\ SlotsExact

-----------------------------------------------------------------------------
USE VodAssumption DEF request

LEMMA Sizes ==
    /\ \A s \in Session : IsFiniteSet(Counted(s)) /\ Cardinality(Counted(s)) \in Nat
    /\ IsFiniteSet(Busy) /\ Cardinality(Busy) \in Nat
    /\ IsFiniteSet(Holding) /\ Cardinality(Holding) \in Nat
<1>1. /\ \A s \in Session : Counted(s) \subseteq Request
      /\ Busy \subseteq Session /\ Holding \subseteq Request
  BY DEF Counted, Busy, Holding
<1> QED
  BY <1>1, FS_Subset, FS_CardinalityType

\* A session that has no record, or none of the streams, counts nobody.
LEMMA CountIs ==
    ASSUME CountsExact, NEW s \in Session
    PROVE  active[s] \in {None, 0} <=> Counted(s) = {}
  BY Sizes, FS_EmptySet DEF CountsExact

\* What a step does to the counts: nothing but making or removing records that
\* count nobody, one request more, or one less.
LEMMA CountsKept ==
    ASSUME TypeOK, CountsExact, NEW s \in Session, Counted(s) = {}, NEW v \in {None, 0},
           active' = [active EXCEPT ![s] = v], \A t \in Session : Counted(t)' = Counted(t)
    PROVE  CountsExact'
<1>1. active'[s] = v /\ \A t \in Session \ {s} : active'[t] = active[t]
  BY DEF TypeOK
<1>2. Cardinality(Counted(s)) = 0
  BY FS_EmptySet
<1> QED
  BY <1>1, <1>2 DEF CountsExact

LEMMA CountsSame ==
    ASSUME CountsExact, active' = active, \A s \in Session : Counted(s)' = Counted(s)
    PROVE  CountsExact'
  BY DEF CountsExact

LEMMA CountsUp ==
    ASSUME TypeOK, CountsExact, NEW s \in Session, NEW r, r \notin Counted(s),
           active[s] # None, active' = [active EXCEPT ![s] = @ + 1],
           Counted(s)' = Counted(s) \cup {r},
           \A t \in Session \ {s} : Counted(t)' = Counted(t)
    PROVE  CountsExact'
<1>1. active[s] \in Nat /\ active[s] = Cardinality(Counted(s))
  BY DEF TypeOK, CountsExact
<1>2. Cardinality(Counted(s) \cup {r}) = active[s] + 1
  BY <1>1, Sizes, FS_AddElement
<1>3. active'[s] = active[s] + 1 /\ \A t \in Session \ {s} : active'[t] = active[t]
  BY DEF TypeOK
<1>4. active'[s] \in Nat /\ active'[s] # None /\ Cardinality(Counted(s)') = active'[s]
  BY <1>1, <1>2, <1>3
<1>5. ASSUME NEW t \in Session \ {s}
      PROVE  active'[t] = active[t] /\ Counted(t)' = Counted(t)
  BY <1>3
<1> QED
  BY <1>4, <1>5 DEF CountsExact

LEMMA CountsDown ==
    ASSUME TypeOK, CountsExact, NEW s \in Session, NEW r \in Counted(s),
           active' = [active EXCEPT ![s] = @ - 1],
           Counted(s)' = Counted(s) \ {r},
           \A t \in Session \ {s} : Counted(t)' = Counted(t)
    PROVE  CountsExact'
<1>1. active[s] \in Nat \ {0} /\ active[s] = Cardinality(Counted(s))
  BY CountIs DEF TypeOK, CountsExact
<1>2. Cardinality(Counted(s) \ {r}) = active[s] - 1
  BY <1>1, Sizes, FS_RemoveElement, ZenonT(60)
<1>3. active'[s] = active[s] - 1 /\ \A t \in Session \ {s} : active'[t] = active[t]
  BY DEF TypeOK
<1> QED
  BY <1>1, <1>2, <1>3 DEF CountsExact

\* The counter follows the slots that a step takes, hands on or gives back.
LEMMA SlotsKept ==
    ASSUME SlotsExact, counter' = counter, Busy' = Busy, Holding' = Holding
    PROVE  SlotsExact'
  BY DEF SlotsExact

-----------------------------------------------------------------------------
LEMMA ArriveInv == ASSUME IInv, NEW r \in Request, Arrive(r) PROVE IInv'
<1>1. TypeOK'
  BY DEF IInv, TypeOK, Arrive, At, Go, Recorded, GoesWrong, GoesWell, Trouble
<1>2. SUFFICES ASSUME Fine'
               PROVE  (OneConnects /\ FlagsRight /\ CountsExact /\ Alone /\ SlotsExact)'
  BY <1>1 DEF IInv
<1>3. Fine /\ TypeOK /\ OneConnects /\ FlagsRight /\ CountsExact /\ Alone /\ SlotsExact
  BY <1>2 DEF IInv, Fine, Arrive, At, Go, Recorded, GoesWrong, GoesWell
<1>4. OneConnects'
  BY <1>2, <1>3 DEF OneConnects, Fine, TypeOK, Connecting, Arrive, At, Go, Recorded,
        GoesWrong, GoesWell
<1>5. FlagsRight'
  BY <1>2, <1>3 DEF FlagsRight, Fine, TypeOK, Waiting, Arrive, At, Go, Recorded,
        GoesWrong, GoesWell
<1>6. \A t \in Session : Counted(t)' = Counted(t)
  BY <1>2, <1>3 DEF Counted, Waiting, Served, FlagsRight, TypeOK, Fine, Arrive, At, Go,
        Recorded, GoesWrong, GoesWell
<1>7. Alone'
  BY <1>2, <1>3, <1>6 DEF Alone, FlagsRight, Waiting, TypeOK, Fine, Arrive, At, Go,
        Recorded, GoesWrong, GoesWell
<1>8. Busy' = Busy
  BY <1>2, <1>3 DEF Busy, Served, FlagsRight, TypeOK, Fine, Arrive, At, Go, Recorded,
        GoesWrong, GoesWell
<1>9. Holding' = Holding
  BY <1>2, <1>3 DEF Holding, FlagsRight, TypeOK, Fine, Arrive, At, Go, Recorded,
        GoesWrong, GoesWell
<1>10. CountsExact'
  BY <1>3, <1>6, CountsSame DEF Arrive, At, Go, Recorded, GoesWrong, GoesWell
<1>11. SlotsExact'
  BY <1>3, <1>8, <1>9, SlotsKept DEF FlagsRight, Arrive, At, Go, Recorded, GoesWrong,
        GoesWell
<1> QED
  BY <1>4, <1>5, <1>7, <1>10, <1>11

LEMMA FindIdleInv == ASSUME IInv, NEW r \in Request, FindIdle(r) PROVE IInv'
<1>1. TypeOK'
  BY DEF IInv, TypeOK, FindIdle, At, Go, Trouble
<1>2. SUFFICES ASSUME Fine'
               PROVE  (OneConnects /\ FlagsRight /\ CountsExact /\ Alone /\ SlotsExact)'
  BY <1>1 DEF IInv
<1>3. Fine /\ TypeOK /\ OneConnects /\ FlagsRight /\ CountsExact /\ Alone /\ SlotsExact
  BY <1>2 DEF IInv, Fine, FindIdle, At, Go
<1>4. OneConnects'
  BY <1>2, <1>3 DEF OneConnects, Fine, TypeOK, Connecting, FindIdle, At, Go
<1>5. FlagsRight'
  BY <1>2, <1>3 DEF FlagsRight, Fine, TypeOK, Waiting, FindIdle, At, Go
<1>6. \A t \in Session : Counted(t)' = Counted(t)
  BY <1>2, <1>3 DEF Counted, Waiting, Served, FlagsRight, TypeOK, Fine, FindIdle, At, Go
<1>7. Alone'
  BY <1>2, <1>3, <1>6, CountIs DEF Alone, FlagsRight, Waiting, TypeOK, FindIdle, At, Go
<1>8. Busy' = Busy
  BY <1>2, <1>3 DEF Busy, Served, FlagsRight, TypeOK, Fine, FindIdle, At, Go
<1>9. Holding' = Holding
  BY <1>2, <1>3 DEF Holding, FlagsRight, TypeOK, Fine, FindIdle, At, Go
<1>10. CountsExact'
  BY <1>3, <1>6, CountsSame DEF FindIdle, At, Go
<1>11. SlotsExact'
  BY <1>3, <1>8, <1>9, SlotsKept DEF FlagsRight, FindIdle, At, Go
<1> QED
  BY <1>4, <1>5, <1>7, <1>10, <1>11

LEMMA TakeIdleInv == ASSUME IInv, NEW r \in Request, TakeIdle(r) PROVE IInv'
<1>1. TypeOK'
  <2>1. counter' = counter /\ fresh' = fresh /\ reserved' = reserved /\ cleanups' = cleanups
    BY DEF TakeIdle
  <2>2. pc' = [pc EXCEPT ![r] = "lookup"]
    BY DEF TakeIdle, Go
  <2>3. trouble' \in {trouble, "over"}
    BY DEF TakeIdle, Locked, GoesWell, GoesWrong
  <2>4. \/ /\ active[session[r]] # None /\ UNCHANGED <<session, matched>>
           /\ active' = [active EXCEPT ![session[r]] = @ + 1]
        \/ /\ session' = [session EXCEPT ![r] = SessionOf[r]]
           /\ matched' = [matched EXCEPT ![r] = FALSE] /\ active' = active
    BY DEF TakeIdle, Recorded
  <2>5. active' \in [Session -> Nat \cup {None}]
    BY <2>4 DEF IInv, TypeOK
  <2> QED
    BY <2>1, <2>2, <2>3, <2>4, <2>5 DEF IInv, TypeOK
<1>2. SUFFICES ASSUME Fine'
               PROVE  (OneConnects /\ FlagsRight /\ CountsExact /\ Alone /\ SlotsExact)'
  BY <1>1 DEF IInv
<1>3. Fine /\ TypeOK /\ OneConnects /\ FlagsRight /\ CountsExact /\ Alone /\ SlotsExact
  BY <1>2 DEF IInv, Fine, TakeIdle, At, Go, Recorded, Locked, GoesWrong, GoesWell
<1>4. /\ pc[r] = "match" /\ matched[r] /\ pc' = [pc EXCEPT ![r] = "lookup"]
      /\ session[r] \in Session /\ UNCHANGED <<counter, fresh, reserved>>
  BY <1>3 DEF TakeIdle, At, Go, TypeOK
<1>5. \/ /\ active[session[r]] # None /\ UNCHANGED <<session, matched>>
         /\ active' = [active EXCEPT ![session[r]] = @ + 1]
      \/ /\ session' = [session EXCEPT ![r] = SessionOf[r]]
         /\ matched' = [matched EXCEPT ![r] = FALSE] /\ active' = active
  BY DEF TakeIdle, Recorded
<1>6. OneConnects' /\ FlagsRight'
  BY <1>3, <1>4, <1>5 DEF OneConnects, FlagsRight, TypeOK, Connecting
<1>7. Busy' = Busy /\ Holding' = Holding
  BY <1>3, <1>4, <1>5 DEF Busy, Holding, Served, TypeOK
<1>8. SlotsExact'
  BY <1>3, <1>4, <1>7, SlotsKept
<1>9. Counted(session[r]) = {} /\ \A q \in Request \ {r} : ~Connecting(q)
  BY <1>3, <1>4 DEF Alone, OneConnects, Connecting
<1>10. CASE matched' = matched
  <2>1. /\ active[session[r]] # None /\ UNCHANGED <<session, matched>>
        /\ active' = [active EXCEPT ![session[r]] = @ + 1]
    BY <1>3, <1>4, <1>5, <1>10 DEF TypeOK
  <2>2. \A t \in Session : Counted(t)' = IF t = session[r] THEN {r} ELSE Counted(t)
    BY <1>3, <1>4, <1>9, <2>1 DEF Counted, Waiting, Served, TypeOK
  <2>3. CountsExact'
    BY <1>3, <1>4, <1>9, <2>1, <2>2, CountsUp
  <2>4. Alone'
    BY <1>3, <1>4, <1>9, <2>1, <2>2 DEF Alone, Waiting, TypeOK, Connecting
  <2> QED
    BY <1>6, <1>8, <2>3, <2>4
<1>11. CASE active' = active /\ session' = [session EXCEPT ![r] = SessionOf[r]]
                            /\ matched' = [matched EXCEPT ![r] = FALSE]
  <2>1. \A t \in Session : Counted(t)' = Counted(t)
    BY <1>3, <1>4, <1>11 DEF Counted, Waiting, Served, TypeOK
  <2>2. CountsExact'
    BY <1>3, <1>11, <2>1, CountsSame
  <2>3. Alone'
    BY <1>3, <1>4, <1>9, <1>11, <2>1 DEF Alone, Waiting, TypeOK, Connecting
  <2> QED
    BY <1>6, <1>8, <2>2, <2>3
<1> QED
  BY <1>5, <1>10, <1>11

LEMMA LookupInv == ASSUME IInv, NEW r \in Request, Lookup(r) PROVE IInv'
<1>1. TypeOK'
  BY DEF IInv, TypeOK, Lookup, At, Go, Recorded, Trouble
<1>2. SUFFICES ASSUME Fine'
               PROVE  (OneConnects /\ FlagsRight /\ CountsExact /\ Alone /\ SlotsExact)'
  BY <1>1 DEF IInv
<1>3. Fine /\ TypeOK /\ OneConnects /\ FlagsRight /\ CountsExact /\ Alone /\ SlotsExact
  BY <1>2 DEF IInv, Fine, Lookup, At, Go, Recorded
<1>4. OneConnects'
  BY <1>2, <1>3 DEF OneConnects, Fine, TypeOK, Connecting, Lookup, At, Go, Recorded
<1>5. FlagsRight'
  BY <1>2, <1>3 DEF FlagsRight, Fine, TypeOK, Waiting, Lookup, At, Go, Recorded
<1>6. \A t \in Session : Counted(t)' = Counted(t)
  <2>1. Waiting(r) => active[session[r]] # None
    BY <1>3, CountIs DEF Counted, Lookup, At, TypeOK
  <2> QED
    BY <1>2, <1>3, <2>1 DEF Counted, Waiting, Served, FlagsRight, TypeOK, Lookup, At, Go,
        Recorded
<1>7. Alone'
  BY <1>2, <1>3, <1>6 DEF Alone, FlagsRight, Waiting, TypeOK, Fine, Lookup, At, Go, Recorded
<1>8. Busy' = Busy
  BY <1>2, <1>3 DEF Busy, Served, FlagsRight, TypeOK, Fine, Lookup, At, Go, Recorded
<1>9. Holding' = Holding
  BY <1>2, <1>3 DEF Holding, FlagsRight, TypeOK, Fine, Lookup, At, Go, Recorded
<1>10. CountsExact'
  BY <1>3, <1>6, CountsSame DEF Lookup, At, Go, Recorded
<1>11. SlotsExact'
  BY <1>3, <1>8, <1>9, SlotsKept DEF FlagsRight, Lookup, At, Go, Recorded
<1> QED
  BY <1>4, <1>5, <1>7, <1>10, <1>11

LEMMA ReserveInv == ASSUME IInv, NEW r \in Request, Reserve(r) PROVE IInv'
<1>1. TypeOK'
  <2>1. counter' \in Nat
    BY DEF IInv, TypeOK, Reserve, TakeSlot
  <2>2. reserved' \in [Request -> BOOLEAN]
    BY DEF IInv, TypeOK, Reserve, TakeSlot
  <2>3. pc' = [pc EXCEPT ![r] = "create"] \/ pc' = [pc EXCEPT ![r] = "idle"]
    BY DEF Reserve, Go
  <2> QED
    BY <2>1, <2>2, <2>3 DEF IInv, TypeOK, Reserve
<1>2. SUFFICES ASSUME Fine'
               PROVE  (OneConnects /\ FlagsRight /\ CountsExact /\ Alone /\ SlotsExact)'
  BY <1>1 DEF IInv
<1>3. Fine /\ TypeOK /\ OneConnects /\ FlagsRight /\ CountsExact /\ Alone /\ SlotsExact
  BY <1>2 DEF IInv, Fine, Reserve, At, Go, Room, TakeSlot
<1>4. /\ pc[r] = "reserve" /\ fresh[r] /\ ~reserved[r]
      /\ UNCHANGED <<active, session, fresh, matched>>
      /\ \/ /\ Limit = 0 \/ counter < Limit
            /\ counter' = IF Limit = 0 THEN counter ELSE counter + 1
            /\ reserved' = [reserved EXCEPT ![r] = TRUE]
            /\ pc' = [pc EXCEPT ![r] = "create"]
         \/ pc' = [pc EXCEPT ![r] = "idle"] /\ UNCHANGED <<counter, reserved>>
  BY <1>3 DEF Reserve, Room, TakeSlot, At, Go, FlagsRight
<1>5. OneConnects' /\ FlagsRight'
  BY <1>3, <1>4 DEF OneConnects, FlagsRight, TypeOK, Connecting
<1>6. \A s \in Session : Counted(s)' = Counted(s)
  BY <1>3, <1>4 DEF Counted, Waiting, Served, TypeOK
<1>7. Busy' = Busy
  BY <1>3, <1>4 DEF Busy, Served, TypeOK
<1>8. Alone'
  BY <1>3, <1>4, <1>6 DEF Alone, Waiting, TypeOK
<1>9. CountsExact'
  BY <1>3, <1>4, <1>6, CountsSame
<1>10. SlotsExact'
  <2>1. CASE pc' = [pc EXCEPT ![r] = "idle"]
    <3>1. Holding' = Holding /\ counter' = counter
      BY <1>3, <1>4, <2>1 DEF Holding, TypeOK
    <3> QED
      BY <1>3, <1>7, <3>1, SlotsKept
  <2>2. CASE pc' = [pc EXCEPT ![r] = "create"]
    <3>1. Holding' = Holding \cup {r} /\ r \notin Holding
      BY <1>3, <1>4, <2>2 DEF Holding, TypeOK
    <3>2. Cardinality(Holding') = Cardinality(Holding) + 1
      BY <3>1, Sizes, FS_AddElement
    <3>3. /\ Limit = 0 \/ counter < Limit
          /\ counter' = IF Limit = 0 THEN counter ELSE counter + 1
      BY <1>3, <1>4, <2>2 DEF TypeOK
    <3> QED
      BY <1>3, <1>7, <3>2, <3>3, Sizes DEF SlotsExact, TypeOK
  <2> QED
    BY <1>4, <2>1, <2>2
<1> QED
  BY <1>5, <1>8, <1>9, <1>10

LEMMA CreateInv == ASSUME IInv, NEW r \in Request, Create(r) PROVE IInv'
<1>1. TypeOK'
  BY DEF IInv, TypeOK, Create, At, Go, Recorded, Locked, GoesWrong, GoesWell, Trouble
<1>2. SUFFICES ASSUME Fine'
               PROVE  (OneConnects /\ FlagsRight /\ CountsExact /\ Alone /\ SlotsExact)'
  BY <1>1 DEF IInv
<1>3. Fine /\ TypeOK /\ OneConnects /\ FlagsRight /\ CountsExact /\ Alone /\ SlotsExact
  BY <1>2 DEF IInv, Fine, Create, At, Go, Recorded, Locked, GoesWrong, GoesWell
<1>4. OneConnects'
  BY <1>2, <1>3, ZenonT(60) DEF OneConnects, Fine, TypeOK, Connecting, Create, At, Go, Recorded,
        Locked, GoesWrong, GoesWell
<1>5. FlagsRight'
  BY <1>2, <1>3 DEF FlagsRight, Fine, TypeOK, Waiting, Create, At, Go, Recorded, Locked,
        GoesWrong, GoesWell
<1>6. \A t \in Session : Counted(t)' = Counted(t)
  BY <1>2, <1>3 DEF Counted, Waiting, Served, FlagsRight, TypeOK, Fine, Create, At, Go,
        Recorded, Locked, GoesWrong, GoesWell
<1>7. Alone'
  <2>1. active[session[r]] = None /\ active' = [active EXCEPT ![session[r]] = 0]
    BY <1>2, <1>3 DEF Alone, TypeOK, Fine, Create, At, Recorded, Locked, GoesWrong
  <2>2. /\ pc' = [pc EXCEPT ![r] = "open"] /\ pc[r] = "create"
        /\ UNCHANGED <<session, fresh, matched>>
    BY <1>2, <1>3 DEF TypeOK, Fine, Create, At, Go, Locked, GoesWrong
  <2>3. \A q \in Request \ {r} : ~Connecting(q)
    BY <1>3, <2>2 DEF OneConnects, Connecting
  <2> QED
    BY <1>2, <1>3, <1>6, <2>1, <2>2, <2>3 DEF Alone, Waiting, TypeOK, Connecting
<1>8. Busy' = Busy
  BY <1>2, <1>3 DEF Busy, Served, FlagsRight, TypeOK, Fine, Create, At, Go, Recorded,
        Locked, GoesWrong, GoesWell
<1>9. Holding' = Holding
  BY <1>2, <1>3 DEF Holding, FlagsRight, TypeOK, Fine, Create, At, Go, Recorded, Locked,
        GoesWrong, GoesWell
<1>10. CountsExact'
  <2>1. active[session[r]] = None /\ active' = [active EXCEPT ![session[r]] = 0]
    BY <1>2, <1>3 DEF Alone, TypeOK, Fine, Create, At, Recorded, Locked, GoesWrong
  <2>2. Counted(session[r]) = {}
    BY <1>3, <2>1, CountIs DEF TypeOK
  <2> QED
    BY <1>3, <1>6, <2>1, <2>2, CountsKept DEF TypeOK
<1>11. SlotsExact'
  BY <1>3, <1>8, <1>9, SlotsKept DEF FlagsRight, Create, At, Go, Recorded, Locked,
        GoesWrong, GoesWell
<1> QED
  BY <1>4, <1>5, <1>7, <1>10, <1>11

LEMMA IncrementInv == ASSUME IInv, NEW r \in Request, Increment(r) PROVE IInv'
<1>1. TypeOK'
  BY DEF IInv, TypeOK, Increment, At, Go, Recorded, Locked, GoesWrong, GoesWell, Trouble
<1>2. SUFFICES ASSUME Fine'
               PROVE  (OneConnects /\ FlagsRight /\ CountsExact /\ Alone /\ SlotsExact)'
  BY <1>1 DEF IInv
<1>3. Fine /\ TypeOK /\ OneConnects /\ FlagsRight /\ CountsExact /\ Alone /\ SlotsExact
  BY <1>2 DEF IInv, Fine, Increment, At, Go, Recorded, Locked, GoesWrong, GoesWell
<1>4. /\ pc[r] = "increment" /\ ~fresh[r] /\ ~reserved[r] /\ ~matched[r]
      /\ session[r] \in Session /\ UNCHANGED <<counter, request>>
  BY <1>3 DEF Increment, At, FlagsRight, TypeOK
<1>5. \/ /\ active[session[r]] # None
         /\ active' = [active EXCEPT ![session[r]] = @ + 1]
         /\ pc' = [pc EXCEPT ![r] = IF active[session[r]] = 0 THEN "again" ELSE "open"]
      \/ pc' = [pc EXCEPT ![r] = "idle"] /\ active' = active
  BY DEF Increment, Recorded, Go
<1>6. OneConnects' /\ FlagsRight'
  BY <1>3, <1>4, <1>5 DEF OneConnects, FlagsRight, TypeOK, Connecting
<1>7. Holding' = Holding
  BY <1>3, <1>4, <1>5 DEF Holding, TypeOK
<1>8. /\ \A q \in Request \ {r} : ~Connecting(q)
      /\ r \notin Counted(session[r]) /\ ~Waiting(r)
  BY <1>3, <1>4 DEF OneConnects, Connecting, Counted, Waiting, Served
<1>9. CASE pc' = [pc EXCEPT ![r] = "idle"] /\ active' = active
  <2>1. \A t \in Session : Counted(t)' = Counted(t)
    BY <1>3, <1>4, <1>9 DEF Counted, Waiting, Served, TypeOK
  <2>2. Busy' = Busy
    BY <1>3, <1>4, <1>9 DEF Busy, Served, TypeOK
  <2>3. CountsExact' /\ SlotsExact'
    BY <1>3, <1>4, <1>7, <1>9, <2>1, <2>2, CountsSame, SlotsKept
  <2>4. Alone'
    BY <1>3, <1>4, <1>9, <2>1 DEF Alone, Waiting, TypeOK
  <2> QED
    BY <1>6, <2>3, <2>4
<1>10. CASE /\ active[session[r]] # None
            /\ active' = [active EXCEPT ![session[r]] = @ + 1]
            /\ pc' = [pc EXCEPT ![r] = IF active[session[r]] = 0 THEN "again" ELSE "open"]
  <2>1. \A t \in Session : Counted(t)' = IF t = session[r] THEN Counted(t) \cup {r}
                                         ELSE Counted(t)
    BY <1>3, <1>4, <1>10 DEF Counted, Waiting, Served, TypeOK
  <2>2. CountsExact'
    BY <1>3, <1>4, <1>8, <1>10, <2>1, CountsUp
  <2>3. Counted(session[r]) = {} <=> active[session[r]] = 0
    BY <1>3, <1>4, <1>10, CountIs
  <2>4. Alone'
    BY <1>3, <1>4, <1>8, <1>10, <2>1, <2>3 DEF Alone, Waiting, TypeOK, Connecting
  <2>5. Busy' = Busy
    <3>1. CASE active[session[r]] = 0
      BY <1>3, <1>4, <1>10, <3>1 DEF Busy, Served, TypeOK
    <3>2. CASE active[session[r]] # 0
      <4>1. PICK q \in Request : q \in Counted(session[r])
        BY <2>3, <3>2 DEF Counted
      <4>2. q # r /\ session[q] = session[r] /\ Served(q)
        BY <1>8, <4>1 DEF Counted, Waiting, Connecting
      <4>3. session[r] \in Busy
        BY <1>4, <4>2 DEF Busy
      <4>4. \A p \in Request \ {r} : Served(p)' <=> Served(p)
        BY <1>3, <1>4, <1>10 DEF Served, TypeOK
      <4>5. \A p \in Request : session'[p] = session[p]
        BY <1>4
      <4> QED
        BY <1>4, <4>2, <4>3, <4>4, <4>5 DEF Busy
    <3> QED
      BY <3>1, <3>2
  <2>6. SlotsExact'
    BY <1>3, <1>4, <1>7, <2>5, SlotsKept
  <2> QED
    BY <1>6, <2>2, <2>4, <2>6
<1> QED
  BY <1>5, <1>9, <1>10

LEMMA ReserveAgainInv == ASSUME IInv, NEW r \in Request, ReserveAgain(r) PROVE IInv'
<1>1. TypeOK'
  <2>1. counter' \in Nat
    BY DEF IInv, TypeOK, ReserveAgain, TakeSlot
  <2>2. reserved' \in [Request -> BOOLEAN]
    BY DEF IInv, TypeOK, ReserveAgain, TakeSlot
  <2>3. pc' = [pc EXCEPT ![r] = "open"] \/ pc' = [pc EXCEPT ![r] = "undo"]
    BY DEF ReserveAgain, Go
  <2> QED
    BY <2>1, <2>2, <2>3 DEF IInv, TypeOK, ReserveAgain
<1>2. SUFFICES ASSUME Fine'
               PROVE  (OneConnects /\ FlagsRight /\ CountsExact /\ Alone /\ SlotsExact)'
  BY <1>1 DEF IInv
<1>3. Fine /\ TypeOK /\ OneConnects /\ FlagsRight /\ CountsExact /\ Alone /\ SlotsExact
  BY <1>2 DEF IInv, Fine, ReserveAgain, At, Go, Room, TakeSlot
<1>4. /\ pc[r] = "again" /\ ~fresh[r] /\ session[r] \in Session
      /\ UNCHANGED <<active, session, fresh, matched>>
      /\ \/ /\ Limit = 0 \/ counter < Limit
            /\ counter' = IF Limit = 0 THEN counter ELSE counter + 1
            /\ reserved' = [reserved EXCEPT ![r] = TRUE]
            /\ pc' = [pc EXCEPT ![r] = "open"]
         \/ pc' = [pc EXCEPT ![r] = "undo"] /\ UNCHANGED <<counter, reserved>>
  BY <1>3 DEF ReserveAgain, Room, TakeSlot, At, Go, FlagsRight, TypeOK
<1>5. OneConnects' /\ FlagsRight'
  BY <1>3, <1>4 DEF OneConnects, FlagsRight, TypeOK, Connecting
<1>6. \A s \in Session : Counted(s)' = Counted(s)
  BY <1>3, <1>4 DEF Counted, Waiting, Served, TypeOK
<1>7. Holding' = Holding
  BY <1>3, <1>4 DEF Holding, TypeOK
<1>8. Alone'
  BY <1>3, <1>4, <1>6 DEF Alone, Waiting, TypeOK
<1>9. CountsExact'
  BY <1>3, <1>4, <1>6, CountsSame
<1>10. SlotsExact'
  <2>1. CASE pc' = [pc EXCEPT ![r] = "undo"]
    <3>1. Busy' = Busy /\ counter' = counter
      BY <1>3, <1>4, <2>1 DEF Busy, Served, TypeOK
    <3> QED
      BY <1>3, <1>7, <3>1, SlotsKept
  <2>2. CASE pc' = [pc EXCEPT ![r] = "open"]
    <3>1. session[r] \notin Busy
      <4>1. Counted(session[r]) = {r}
        BY <1>3, <1>4 DEF Alone, Waiting
      <4> QED
        BY <1>4, <4>1 DEF Busy, Counted, Served
    <3>2. Busy' = Busy \cup {session[r]}
      BY <1>3, <1>4, <2>2 DEF Busy, Served, TypeOK
    <3>3. Cardinality(Busy') = Cardinality(Busy) + 1
      BY <3>1, <3>2, Sizes, FS_AddElement
    <3>4. /\ Limit = 0 \/ counter < Limit
          /\ counter' = IF Limit = 0 THEN counter ELSE counter + 1
      BY <1>3, <1>4, <2>2 DEF TypeOK
    <3> QED
      BY <1>3, <1>7, <3>3, <3>4, Sizes DEF SlotsExact, TypeOK
  <2> QED
    BY <1>4, <2>1, <2>2
<1> QED
  BY <1>5, <1>8, <1>9, <1>10

LEMMA OpenInv == ASSUME IInv, NEW r \in Request, Open(r) PROVE IInv'
<1>1. TypeOK'
  BY DEF IInv, TypeOK, Open, At, Go, Recorded, GoesWrong, GoesWell, Trouble
<1>2. SUFFICES ASSUME Fine'
               PROVE  (OneConnects /\ FlagsRight /\ CountsExact /\ Alone /\ SlotsExact)'
  BY <1>1 DEF IInv
<1>3. Fine /\ TypeOK /\ OneConnects /\ FlagsRight /\ CountsExact /\ Alone /\ SlotsExact
  BY <1>2 DEF IInv, Fine, Open, At, Go, Recorded, GoesWrong, GoesWell
<1>4. active[session[r]] # None
  BY <1>3, CountIs DEF Counted, Served, Alone, Open, At, TypeOK
<1>5. /\ pc[r] = "open" /\ pc' = [pc EXCEPT ![r] = "save"]
      /\ UNCHANGED <<counter, active, request>>
  BY <1>2, <1>4 DEF Open, At, Go, Recorded, GoesWrong, Fine
<1>6. OneConnects' /\ FlagsRight'
  BY <1>3, <1>5 DEF OneConnects, FlagsRight, TypeOK, Connecting
<1>7. \A s \in Session : Counted(s)' = Counted(s)
  BY <1>3, <1>5 DEF Counted, Waiting, Served, TypeOK
<1>8. Busy' = Busy /\ Holding' = Holding
  BY <1>3, <1>5 DEF Busy, Holding, Served, TypeOK
<1>9. Alone'
  BY <1>3, <1>5, <1>7 DEF Alone, Waiting, TypeOK
<1>10. CountsExact'
  BY <1>3, <1>5, <1>7, CountsSame
<1> QED
  BY <1>3, <1>5, <1>6, <1>8, <1>9, <1>10, SlotsKept

LEMMA SaveStateInv == ASSUME IInv, NEW r \in Request, SaveState(r) PROVE IInv'
<1>1. TypeOK'
  BY DEF IInv, TypeOK, SaveState, At, Go, Recorded, Locked, GoesWrong, GoesWell, Trouble
<1>2. SUFFICES ASSUME Fine'
               PROVE  (OneConnects /\ FlagsRight /\ CountsExact /\ Alone /\ SlotsExact)'
  BY <1>1 DEF IInv
<1>3. Fine /\ TypeOK /\ OneConnects /\ FlagsRight /\ CountsExact /\ Alone /\ SlotsExact
  BY <1>2 DEF IInv, Fine, SaveState, At, Go, Recorded, Locked, GoesWrong, GoesWell
<1>4. active[session[r]] # None
  BY <1>3, CountIs DEF Counted, Served, Alone, SaveState, At, TypeOK
<1>5. /\ pc[r] = "save" /\ pc' = [pc EXCEPT ![r] = IF fresh[r] THEN "start" ELSE "stream"]
      /\ UNCHANGED <<counter, active, request>>
  BY <1>4 DEF SaveState, At, Go, Recorded
<1>6. OneConnects' /\ FlagsRight'
  BY <1>3, <1>5 DEF OneConnects, FlagsRight, TypeOK, Connecting
<1>7. \A s \in Session : Counted(s)' = Counted(s)
  BY <1>3, <1>5 DEF Counted, Waiting, Served, TypeOK
<1>8. Busy' = Busy /\ Holding' = Holding
  BY <1>3, <1>5 DEF Busy, Holding, Served, TypeOK
<1>9. Alone'
  BY <1>3, <1>5, <1>7 DEF Alone, Waiting, TypeOK
<1>10. CountsExact'
  BY <1>3, <1>5, <1>7, CountsSame
<1> QED
  BY <1>3, <1>5, <1>6, <1>8, <1>9, <1>10, SlotsKept

LEMMA StartStreamInv == ASSUME IInv, NEW r \in Request, StartStream(r) PROVE IInv'
<1>1. TypeOK'
  BY DEF IInv, TypeOK, StartStream, At, Go, Recorded, Locked, GoesWrong, GoesWell, Trouble
<1>2. SUFFICES ASSUME Fine'
               PROVE  (OneConnects /\ FlagsRight /\ CountsExact /\ Alone /\ SlotsExact)'
  BY <1>1 DEF IInv
<1>3. Fine /\ TypeOK /\ OneConnects /\ FlagsRight /\ CountsExact /\ Alone /\ SlotsExact
  BY <1>2 DEF IInv, Fine, StartStream, At, Go, Recorded, Locked, GoesWrong, GoesWell
<1>4. /\ pc[r] = "start" /\ fresh[r] /\ pc' = [pc EXCEPT ![r] = "stream"]
      /\ session[r] \in Session /\ active[session[r]] = 0
      /\ active' = [active EXCEPT ![session[r]] = @ + 1]
      /\ UNCHANGED <<counter, request>>
  BY <1>2, <1>3 DEF StartStream, At, Go, FlagsRight, Alone, TypeOK, Recorded, Locked,
                    GoesWrong, Fine
<1>5. OneConnects' /\ FlagsRight'
  BY <1>3, <1>4 DEF OneConnects, FlagsRight, TypeOK, Connecting
<1>6. Counted(session[r]) = {} /\ \A q \in Request \ {r} : ~Connecting(q)
  BY <1>3, <1>4, CountIs DEF OneConnects, Connecting
<1>7. \A t \in Session : Counted(t)' = IF t = session[r] THEN {r} ELSE Counted(t)
  BY <1>3, <1>4, <1>6 DEF Counted, Waiting, Served, TypeOK
<1>8. CountsExact'
  <2>1. active[session[r]] # None /\ r \notin Counted(session[r])
    BY <1>4, <1>6
  <2>2. Counted(session[r])' = Counted(session[r]) \cup {r}
    BY <1>4, <1>6, <1>7
  <2>3. \A t \in Session \ {session[r]} : Counted(t)' = Counted(t)
    BY <1>7
  <2> QED
    BY <1>3, <1>4, <2>1, <2>2, <2>3, CountsUp
<1>9. Alone'
  BY <1>3, <1>4, <1>6, <1>7 DEF Alone, Waiting, TypeOK, Connecting
<1>10. SlotsExact'
  <2>1. session[r] \notin Busy /\ Busy' = Busy \cup {session[r]}
    BY <1>3, <1>4, <1>6 DEF Busy, Counted, Served, TypeOK
  <2>2. r \in Holding /\ Holding' = Holding \ {r}
    BY <1>3, <1>4 DEF Holding, TypeOK
  <2>3. /\ Cardinality(Busy') = Cardinality(Busy) + 1
        /\ Cardinality(Holding') = Cardinality(Holding) - 1
    BY <2>1, <2>2, Sizes, FS_AddElement, FS_RemoveElement
  <2> QED
    BY <1>3, <1>4, <2>3, Sizes DEF SlotsExact
<1> QED
  BY <1>5, <1>8, <1>9, <1>10

LEMMA UndoInv == ASSUME IInv, NEW r \in Request, Undo(r) PROVE IInv'
<1>1. TypeOK'
  BY DEF IInv, TypeOK, Undo, At, Go, Recorded, Locked, Max0, GoesWrong, GoesWell, Trouble
<1>2. SUFFICES ASSUME Fine'
               PROVE  (OneConnects /\ FlagsRight /\ CountsExact /\ Alone /\ SlotsExact)'
  BY <1>1 DEF IInv
<1>3. Fine /\ TypeOK /\ OneConnects /\ FlagsRight /\ CountsExact /\ Alone /\ SlotsExact
  BY <1>2 DEF IInv, Fine, Undo, At, Go, Recorded, Locked, Max0, GoesWrong, GoesWell
<1>4. /\ pc[r] = "undo" /\ ~fresh[r] /\ ~reserved[r]
      /\ session[r] \in Session /\ Counted(session[r]) = {r}
  BY <1>3 DEF Undo, At, FlagsRight, Alone, Waiting, TypeOK
<1>5. active[session[r]] \in Nat \ {0}
  BY <1>3, <1>4, CountIs DEF TypeOK
<1>6. /\ pc' = [pc EXCEPT ![r] = "giveback"] /\ UNCHANGED <<counter, request>>
      /\ active' = [active EXCEPT ![session[r]] = @ - 1]
  <2>1. active' = [active EXCEPT ![session[r]] = Max0(@ - 1)]
    BY <1>2, <1>5 DEF Undo, Recorded, Locked, GoesWrong, Fine
  <2>2. Max0(active[session[r]] - 1) = active[session[r]] - 1
    BY <1>5 DEF Max0
  <2> QED
    BY <2>1, <2>2 DEF Undo, Go
<1>7. OneConnects' /\ FlagsRight'
  BY <1>3, <1>4, <1>6 DEF OneConnects, FlagsRight, TypeOK, Connecting
<1>8. \A q \in Request \ {r} : ~Connecting(q)
  BY <1>3, <1>4 DEF OneConnects, Connecting
<1>9. \A t \in Session : Counted(t)' = IF t = session[r] THEN {} ELSE Counted(t)
  BY <1>3, <1>4, <1>6 DEF Counted, Waiting, Served, TypeOK
<1>10. CountsExact'
  BY <1>3, <1>4, <1>6, <1>9, CountsDown
<1>11. Alone'
  BY <1>3, <1>4, <1>6, <1>8, <1>9 DEF Alone, Waiting, TypeOK, Connecting
<1>12. Busy' = Busy /\ Holding' = Holding
  BY <1>3, <1>4, <1>6 DEF Busy, Holding, Served, TypeOK
<1> QED
  BY <1>3, <1>6, <1>7, <1>10, <1>11, <1>12, SlotsKept

LEMMA GiveBackInv == ASSUME IInv, NEW r \in Request, GiveBack(r) PROVE IInv'
<1>1. TypeOK'
  BY DEF IInv, TypeOK, GiveBack, At, Go, Max0, Trouble
<1>2. SUFFICES ASSUME Fine'
               PROVE  (OneConnects /\ FlagsRight /\ CountsExact /\ Alone /\ SlotsExact)'
  BY <1>1 DEF IInv
<1>3. Fine /\ TypeOK /\ OneConnects /\ FlagsRight /\ CountsExact /\ Alone /\ SlotsExact
  BY <1>2 DEF IInv, Fine, GiveBack, At, Go, Max0
<1>4. OneConnects'
  BY <1>2, <1>3 DEF OneConnects, Fine, TypeOK, Connecting, GiveBack, At, Go, Max0
<1>5. FlagsRight'
  BY <1>2, <1>3 DEF FlagsRight, Fine, TypeOK, Waiting, GiveBack, At, Go, Max0
<1>6. \A t \in Session : Counted(t)' = Counted(t)
  BY <1>2, <1>3 DEF Counted, Waiting, Served, FlagsRight, TypeOK, Fine, GiveBack, At, Go,
        Max0
<1>7. Alone'
  BY <1>2, <1>3, <1>6 DEF Alone, FlagsRight, Waiting, TypeOK, Fine, GiveBack, At, Go, Max0
<1>8. Busy' = Busy
  BY <1>2, <1>3 DEF Busy, Served, FlagsRight, TypeOK, Fine, GiveBack, At, Go, Max0
<1>9. Holding' = Holding
  BY <1>2, <1>3 DEF Holding, FlagsRight, TypeOK, Fine, GiveBack, At, Go, Max0
<1>10. CountsExact'
  BY <1>3, <1>6, CountsSame DEF GiveBack, At, Go, Max0
<1>11. SlotsExact'
  BY <1>3, <1>8, <1>9, SlotsKept DEF FlagsRight, GiveBack, At, Go, Max0
<1> QED
  BY <1>4, <1>5, <1>7, <1>10, <1>11

LEMMA FinishInv == ASSUME IInv, NEW r \in Request, Finish(r) PROVE IInv'
<1>1. TypeOK'
  BY DEF IInv, TypeOK, Finish, At, Go, Trouble
<1>2. SUFFICES ASSUME Fine'
               PROVE  (OneConnects /\ FlagsRight /\ CountsExact /\ Alone /\ SlotsExact)'
  BY <1>1 DEF IInv
<1>3. Fine /\ TypeOK /\ OneConnects /\ FlagsRight /\ CountsExact /\ Alone /\ SlotsExact
  BY <1>2 DEF IInv, Fine, Finish, At, Go
<1>4. OneConnects'
  BY <1>2, <1>3 DEF OneConnects, Fine, TypeOK, Connecting, Finish, At, Go
<1>5. FlagsRight'
  BY <1>2, <1>3 DEF FlagsRight, Fine, TypeOK, Waiting, Finish, At, Go
<1>6. \A t \in Session : Counted(t)' = Counted(t)
  BY <1>2, <1>3 DEF Counted, Waiting, Served, FlagsRight, TypeOK, Fine, Finish, At, Go
<1>7. Alone'
  BY <1>2, <1>3, <1>6 DEF Alone, FlagsRight, Waiting, TypeOK, Fine, Finish, At, Go
<1>8. Busy' = Busy
  BY <1>2, <1>3 DEF Busy, Served, FlagsRight, TypeOK, Fine, Finish, At, Go
<1>9. Holding' = Holding
  BY <1>2, <1>3 DEF Holding, FlagsRight, TypeOK, Fine, Finish, At, Go
<1>10. CountsExact'
  BY <1>3, <1>6, CountsSame DEF Finish, At, Go
<1>11. SlotsExact'
  BY <1>3, <1>8, <1>9, SlotsKept DEF FlagsRight, Finish, At, Go
<1> QED
  BY <1>4, <1>5, <1>7, <1>10, <1>11

LEMMA EndStreamInv == ASSUME IInv, NEW r \in Request, EndStream(r) PROVE IInv'
<1>1. TypeOK'
  BY DEF IInv, TypeOK, EndStream, At, Go, GoesWrong, GoesWell, Trouble
<1>2. SUFFICES ASSUME Fine'
               PROVE  (OneConnects /\ FlagsRight /\ CountsExact /\ Alone /\ SlotsExact)'
  BY <1>1 DEF IInv
<1>3. Fine /\ TypeOK /\ OneConnects /\ FlagsRight /\ CountsExact /\ Alone /\ SlotsExact
  BY <1>2 DEF IInv, Fine, EndStream, At, Go, GoesWrong, GoesWell
<1>4. /\ pc[r] = "end" /\ session[r] \in Session
      /\ r \in Counted(session[r]) /\ Served(r)
  BY <1>3 DEF EndStream, At, Counted, Served, TypeOK
<1>5. active[session[r]] \in Nat \ {0}
  BY <1>3, <1>4, CountIs DEF TypeOK
<1>6. /\ active' = [active EXCEPT ![session[r]] = @ - 1] /\ UNCHANGED <<counter, request>>
      /\ pc' = [pc EXCEPT ![r] = IF active[session[r]] = 1 THEN "release" ELSE "idle"]
  BY <1>2, <1>5 DEF EndStream, Go, GoesWrong, Fine
<1>7. OneConnects' /\ FlagsRight'
  BY <1>3, <1>4, <1>6 DEF OneConnects, FlagsRight, TypeOK, Connecting
<1>8. \A t \in Session : Counted(t)' = IF t = session[r] THEN Counted(t) \ {r}
                                       ELSE Counted(t)
  BY <1>3, <1>4, <1>6 DEF Counted, Waiting, Served, TypeOK
<1>9. CountsExact'
  BY <1>3, <1>4, <1>6, <1>8, CountsDown
<1>10. ~Waiting(r) /\ \A q \in Request : Waiting(q) => session[q] # session[r]
  BY <1>3, <1>4 DEF Alone, Waiting
<1>11. Alone'
  <2>1. \A q \in Request \ {r} : /\ pc'[q] = pc[q]
                                 /\ active'[session[q]] = active[session[q]]
                                      \/ session[q] = session[r]
    BY <1>3, <1>4, <1>6 DEF TypeOK
  <2>2. \A q \in Request : Waiting(q)' => Waiting(q)
    BY <1>3, <1>4, <1>6 DEF Waiting, TypeOK
  <2>3. pc'[r] \in {"release", "idle"}
    BY <1>3, <1>4, <1>6 DEF TypeOK
  <2>4. \A q \in Request : session[q] \in Session /\ session'[q] = session[q]
                         /\ fresh'[q] = fresh[q] /\ matched'[q] = matched[q]
    BY <1>3, <1>6 DEF TypeOK
  <2> QED
    BY <1>3, <1>5, <1>8, <1>10, <2>1, <2>2, <2>3, <2>4 DEF Alone
<1>12. CASE active[session[r]] = 1
  <2>1. Counted(session[r]) = {r}
    <3>1. Cardinality(Counted(session[r]) \ {r}) = 0 /\ IsFiniteSet(Counted(session[r]) \ {r})
      <4>1. IsFiniteSet(Counted(session[r])) /\ Cardinality(Counted(session[r])) = 1
        <5>1. active[session[r]] = Cardinality(Counted(session[r]))
          BY <1>3, <1>4 DEF CountsExact
        <5> QED
          BY <1>4, <1>12, <5>1, Sizes
      <4> QED
        BY ONLY <1>4, <4>1, FS_RemoveElement
    <3> QED
      BY <1>4, <3>1, FS_EmptySet
  <2>2. session[r] \in Busy /\ Busy' = Busy \ {session[r]}
    BY <1>3, <1>4, <1>6, <1>12, <2>1 DEF Busy, Counted, Served, TypeOK
  <2>3. r \notin Holding /\ Holding' = Holding \cup {r}
    BY <1>3, <1>4, <1>6, <1>12 DEF Holding, TypeOK
  <2>4. /\ Cardinality(Busy') = Cardinality(Busy) - 1
        /\ Cardinality(Holding') = Cardinality(Holding) + 1
    BY <2>2, <2>3, Sizes, FS_AddElement, FS_RemoveElement
  <2>5. SlotsExact'
    BY <1>3, <1>6, <2>4, Sizes DEF SlotsExact
  <2> QED
    BY <1>7, <1>9, <1>11, <2>5
<1>13. CASE active[session[r]] # 1
  <2>1. \E q \in Request \ {r} : q \in Counted(session[r])
    <3>1. Cardinality(Counted(session[r]) \ {r}) # 0
      <4>1. Cardinality(Counted(session[r])) = active[session[r]]
        BY <1>3, <1>4, <1>5 DEF CountsExact
      <4>2. Cardinality(Counted(session[r]) \ {r}) = active[session[r]] - 1
        BY <1>4, <4>1, Sizes, FS_RemoveElement, ZenonT(60)
      <4> QED
        BY <1>5, <1>13, <4>2
    <3>2. Counted(session[r]) \ {r} # {}
      BY <3>1, FS_EmptySet
    <3> QED
      BY <3>2 DEF Counted
  <2>2. PICK q \in Request \ {r} : session[q] = session[r] /\ Served(q)
    BY <1>10, <2>1 DEF Counted
  <2>3. \A p \in Request \ {r} : Served(p)' <=> Served(p)
    BY <1>3, <1>4, <1>6 DEF Served, TypeOK
  <2>4. ~Served(r)' /\ Served(r) /\ session' = session
    BY <1>3, <1>4, <1>6, <1>13 DEF Served, TypeOK
  <2>5. Busy' = Busy
    BY <2>2, <2>3, <2>4 DEF Busy
  <2>6. Holding' = Holding
    BY <1>3, <1>4, <1>6, <1>13 DEF Holding, TypeOK
  <2> QED
    BY <1>3, <1>6, <1>7, <1>9, <1>11, <2>5, <2>6, SlotsKept
<1> QED
  BY <1>12, <1>13

LEMMA ReleaseInv == ASSUME IInv, NEW r \in Request, Release(r) PROVE IInv'
<1>1. TypeOK'
  BY DEF IInv, TypeOK, Release, At, Go, Max0, Trouble
<1>2. SUFFICES ASSUME Fine'
               PROVE  (OneConnects /\ FlagsRight /\ CountsExact /\ Alone /\ SlotsExact)'
  BY <1>1 DEF IInv
<1>3. Fine /\ TypeOK /\ OneConnects /\ FlagsRight /\ CountsExact /\ Alone /\ SlotsExact
  BY <1>2 DEF IInv, Fine, Release, At, Go, Max0
<1>4. /\ pc[r] = "release" /\ pc' = [pc EXCEPT ![r] = "idle"]
      /\ counter' = Max0(counter - 1) /\ UNCHANGED <<active, request>>
  BY DEF Release, At, Go
<1>5. OneConnects' /\ FlagsRight'
  BY <1>3, <1>4 DEF OneConnects, FlagsRight, TypeOK, Connecting
<1>6. \A s \in Session : Counted(s)' = Counted(s)
  BY <1>3, <1>4 DEF Counted, Waiting, Served, TypeOK
<1>7. Busy' = Busy
  BY <1>3, <1>4 DEF Busy, Served, TypeOK
<1>8. Alone'
  BY <1>3, <1>4, <1>6 DEF Alone, Waiting, TypeOK
<1>9. CountsExact'
  BY <1>3, <1>4, <1>6, CountsSame
<1>10. SlotsExact'
  <2>1. Holding' = Holding \ {r} /\ r \in Holding
    BY <1>3, <1>4 DEF Holding, TypeOK
  <2>2. Cardinality(Holding') = Cardinality(Holding) - 1 /\ Cardinality(Holding) # 0
    BY <2>1, Sizes, FS_RemoveElement, FS_EmptySet
  <2> QED
    BY <1>3, <1>4, <1>7, <2>2, Sizes DEF SlotsExact, TypeOK, Max0
<1> QED
  BY <1>5, <1>8, <1>9, <1>10

LEMMA CleanupInv == ASSUME IInv, NEW s \in Session, Cleanup(s) PROVE IInv'
<1>1. TypeOK'
  BY DEF IInv, TypeOK, Cleanup, GoesWrong, GoesWell, Trouble
<1>2. SUFFICES ASSUME Fine'
               PROVE  (OneConnects /\ FlagsRight /\ CountsExact /\ Alone /\ SlotsExact)'
  BY <1>1 DEF IInv
<1>3. Fine /\ TypeOK /\ OneConnects /\ FlagsRight /\ CountsExact /\ Alone /\ SlotsExact
  BY <1>2 DEF IInv, Fine, Cleanup, GoesWrong, GoesWell
<1>4. /\ active' = [active EXCEPT ![s] = IF @ = 0 THEN None ELSE @]
      /\ \A r \in Request : ~(session[r] = s /\ fresh[r] /\ Connecting(r))
      /\ UNCHANGED <<counter, pc, request>>
  BY <1>2 DEF Cleanup, Fine, GoesWrong
<1>5. OneConnects' /\ FlagsRight'
  BY <1>3, <1>4 DEF OneConnects, FlagsRight, Connecting
<1>6. \A t \in Session : Counted(t)' = Counted(t)
  BY <1>4 DEF Counted, Waiting, Served
<1>7. Busy' = Busy /\ Holding' = Holding
  BY <1>4 DEF Busy, Holding, Served
<1>8. Alone'
  BY <1>3, <1>4, <1>6 DEF Alone, FlagsRight, Waiting, TypeOK, Connecting
<1>9. CountsExact'
  <2>1. CASE active[s] = 0
    <3>1. active' = [active EXCEPT ![s] = None] /\ Counted(s) = {}
      BY <1>3, <1>4, <2>1, CountIs DEF TypeOK
    <3> QED
      BY <1>3, <1>6, <3>1, CountsKept
  <2>2. CASE active[s] # 0
    <3>1. active' = active
      BY <1>3, <1>4, <2>2 DEF TypeOK
    <3> QED
      BY <1>3, <1>6, <3>1, CountsSame
  <2> QED
    BY <2>1, <2>2
<1> QED
  BY <1>3, <1>4, <1>5, <1>7, <1>8, <1>9, SlotsKept

LEMMA ExpireInv == ASSUME IInv, NEW s \in Session, Expire(s) PROVE IInv'
<1>1. TypeOK'
  BY DEF IInv, TypeOK, Expire, Recorded, Trouble
<1>2. SUFFICES ASSUME Fine'
               PROVE  (OneConnects /\ FlagsRight /\ CountsExact /\ Alone /\ SlotsExact)'
  BY <1>1 DEF IInv
<1>3. Fine /\ TypeOK /\ OneConnects /\ FlagsRight /\ CountsExact /\ Alone /\ SlotsExact
  BY <1>2 DEF IInv, Fine, Expire, Recorded
<1>4. OneConnects'
  BY <1>2, <1>3 DEF OneConnects, Fine, TypeOK, Connecting, Expire, Recorded
<1>5. FlagsRight'
  BY <1>2, <1>3 DEF FlagsRight, Fine, TypeOK, Waiting, Expire, Recorded
<1>6. \A t \in Session : Counted(t)' = Counted(t)
  BY <1>2, <1>3 DEF Counted, Waiting, Served, FlagsRight, TypeOK, Fine, Expire, Recorded
<1>7. Alone'
  BY <1>2, <1>3, <1>6 DEF Alone, FlagsRight, Waiting, TypeOK, Fine, Expire, Recorded
<1>8. Busy' = Busy
  BY <1>2, <1>3 DEF Busy, Served, FlagsRight, TypeOK, Fine, Expire, Recorded
<1>9. Holding' = Holding
  BY <1>2, <1>3 DEF Holding, FlagsRight, TypeOK, Fine, Expire, Recorded
<1>10. CountsExact'
  <2>1. /\ active' = [active EXCEPT ![s] = None]
        /\ \A r \in Request : pc[r] = "idle" \/ session[r] # s
    BY DEF Expire
  <2>2. Counted(s) = {}
    BY <2>1 DEF Counted, Waiting, Served
  <2> QED
    BY <1>3, <1>6, <2>1, <2>2, CountsKept DEF TypeOK
<1>11. SlotsExact'
  BY <1>3, <1>8, <1>9, SlotsKept DEF FlagsRight, Expire, Recorded
<1> QED
  BY <1>4, <1>5, <1>7, <1>10, <1>11

-----------------------------------------------------------------------------
LEMMA InitInv == ASSUME Init PROVE IInv
<1>1. TypeOK
  BY DEF Init, TypeOK
<1>2. \A s \in Session : Counted(s) = {}
  BY DEF Init, Counted, Waiting, Served
<1>3. Busy = {} /\ Holding = {}
  BY DEF Init, Busy, Holding, Served
<1>4. OneConnects /\ FlagsRight
  BY DEF Init, OneConnects, FlagsRight, Connecting
<1>5. Alone
  BY <1>2 DEF Init, Alone, Waiting
<1>6. CountsExact
  BY <1>2 DEF Init, CountsExact
<1>7. SlotsExact
  BY <1>3, FS_EmptySet DEF Init, SlotsExact
<1> QED
  BY <1>1, <1>4, <1>5, <1>6, <1>7 DEF IInv

LEMMA StepInv == ASSUME IInv, [Next]_vars PROVE IInv'
<1>1. CASE UNCHANGED vars
  BY <1>1 DEF vars, IInv, Fine, TypeOK, OneConnects, FlagsRight, CountsExact, Alone,
              SlotsExact, Counted, Busy, Holding, Waiting, Served, Connecting
<1>2. CASE Next
  BY <1>2, ArriveInv, FindIdleInv, TakeIdleInv, LookupInv, ReserveInv, CreateInv,
     IncrementInv, ReserveAgainInv, OpenInv, SaveStateInv, StartStreamInv, UndoInv,
     GiveBackInv, FinishInv, EndStreamInv, ReleaseInv, CleanupInv, ExpireInv
     DEF Next, Serve
<1> QED
  BY <1>1, <1>2

LEMMA Inductive == Spec => []IInv
  BY InitInv, StepInv, PTL DEF Spec

\* The slots of the sessions that stream are among those that are counted.
LEMMA Streams ==
    ASSUME NEW s \in Session
    PROVE  /\ Streaming(s) \subseteq Counted(s)
           /\ Streaming(s) # {} => s \in Busy
           /\ Quiet => Streaming(s) = Counted(s) /\ (s \in Busy => Streaming(s) # {})
           /\ Quiet => Holding = {}
  BY DEF Streaming, Counted, Busy, Holding, Served, Waiting, Quiet

LEMMA WhatFollows == ASSUME IInv PROVE VodSound
<1>1. StreamsCounted
  <2> SUFFICES ASSUME Quiet, NEW s \in Session
               PROVE  IF Streaming(s) = {} THEN active[s] \in {None, 0}
                      ELSE active[s] = Cardinality(Streaming(s))
    BY DEF StreamsCounted
  <2>1. CountsExact /\ Streaming(s) = Counted(s)
    BY Streams DEF IInv, Fine, Quiet
  <2> QED
    BY <2>1, CountIs DEF CountsExact
<1>2. SlotsCounted
  <2> SUFFICES ASSUME Quiet, Limit > 0
               PROVE  counter = Cardinality({s \in Session : Streaming(s) # {}})
    BY DEF SlotsCounted
  <2>1. SlotsExact /\ Holding = {} /\ Busy = {s \in Session : Streaming(s) # {}}
    <3>1. Busy \subseteq Session
      BY DEF Busy
    <3>2. Holding = {}
      BY DEF Holding, Quiet
    <3> QED
      BY <3>1, <3>2, Streams DEF IInv, Fine, Quiet
  <2>2. Cardinality(Holding) = 0
    BY <2>1, FS_EmptySet
  <2> QED
    BY <2>1, <2>2, Sizes DEF SlotsExact
<1>3. RecordStays
  BY CountIs DEF RecordStays, Recorded, IInv, Fine, TypeOK, Counted, Served
<1>4. WithinLimit
  <2> SUFFICES ASSUME Limit > 0, Fine
               PROVE  Cardinality({s \in Session : Streaming(s) # {}}) <= Limit
    BY DEF WithinLimit, Fine
  <2> DEFINE watched == {s \in Session : Streaming(s) # {}}
  <2>1. watched \subseteq Busy
    BY Streams
  <2>2. Cardinality(watched) \in Nat /\ Cardinality(watched) <= Cardinality(Busy)
    BY <2>1, Sizes, FS_Subset, FS_CardinalityType
  <2>3. Cardinality(Busy) <= Limit
    BY Sizes DEF IInv, SlotsExact
  <2> QED
    BY <2>2, <2>3, Sizes
<1> QED
  BY <1>1, <1>2, <1>3, <1>4 DEF VodSound

-----------------------------------------------------------------------------
\* The counters in Redis and the requests' locals keep their types, whatever goes wrong.
THEOREM TypeInvariant == Spec => []TypeOK
<1>1. IInv => TypeOK
  BY DEF IInv
<1> QED
  BY <1>1, Inductive, PTL

\* As long as nothing goes wrong, active_streams and profile_connections are what
\* they stand for, profiles keep to max_streams and no cleanup takes a record from
\* a stream: whatever requests arrive between the steps of those that end, and
\* whatever sessions are taken over.
THEOREM VodIsSound == Spec => []VodSound
  BY Inductive, WhatFollows, PTL
=============================================================================
