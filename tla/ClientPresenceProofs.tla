------------------------ MODULE ClientPresenceProofs ------------------------
(***************************************************************************)
(* Proofs about ClientPresence, for any workers, clients, timeouts and     *)
(* limit: while heartbeats are in time every client is counted, a request  *)
(* that ended leaves nothing, and a user who waits for a stop to work does *)
(* not exceed the limit.                                                   *)
(***************************************************************************)
EXTENDS ClientPresence, FiniteSetTheorems, TLAPS

InFlight   == {"admit", "evict", "record", "member"}
Registered == {"member", "check", "send", "cleanup"}

\* A worker has only clients of its own, and none when it does not run.
LocalsOwn ==
    \A w \in Worker : \A c \in local[w] :
        WorkerOf[c] = w /\ w \in up /\ gen[c] \in Registered

\* The heartbeat works on the clients the worker has: the lock keeps add_client
\* and remove_client out from its scan to its refresh.
BeatHolds ==
    \A w \in Worker : beat[w].pc # "sleep" =>
        /\ w \in up /\ w \notin beaten
        /\ \A c \in local[w] : gen[c] # "member"
        /\ IF beat[w].pc = "refresh" THEN beat[w].ids = local[w]
           ELSE beat[w].ids \subseteq local[w]

\* No record of a client a worker has is older than a tick, and none has aged since
\* the heartbeat of this tick; a client that is not in the set yet was never in it.
RecordsKept ==
    Timely => \A c \in Client : c \in local[WorkerOf[c]] =>
        /\ record[c] # None /\ record[c].user /\ record[c].ttl
        /\ record[c].age <= 1 /\ (WorkerOf[c] \in beaten => record[c].age = 0)

MembersKept ==
    /\ \A c \in Client : gen[c] \in {"away"} \cup InFlight => c \notin members
    /\ Timely => \A c \in Client :
          c \in local[WorkerOf[c]] /\ gen[c] # "member" => c \in members

\* What the stats task is about to remove no worker has, nor will.
GhostsGone ==
    Timely => \A c \in status.ids :
        c \notin local[WorkerOf[c]] /\ gen[c] \in {"check", "send", "cleanup", "done", "dead"}

\* A patient user's requests come one at a time, each when what was told to stop has.
OneAtATime ==
    /\ mail \subseteq stopKeys
    /\ Patient =>
        /\ \A c, d \in Client : gen[c] \in InFlight /\ gen[d] \in InFlight => c = d
        /\ \A c \in Client : gen[c] \in {"admit", "evict"} =>
              \A d \in stopKeys : gen[d] \in {"done", "dead"} /\ record[d] = None

\* The connections that count and were not told to stop; one that is about to be
\* recorded has found, or made, room.
Held == Active \ stopKeys

RoomLeft ==
    Patient /\ StreamLimit > 0 =>
        /\ Cardinality(Held) <= StreamLimit
        /\ (\E c \in Client : gen[c] = "record") => Cardinality(Held) < StreamLimit

IInv ==
    /\ TypeOK /\ LocalsOwn /\ BeatHolds /\ RecordsKept /\ MembersKept
    /\ GhostsGone /\ EndedLeavesNothing /\ OneAtATime /\ RoomLeft

-----------------------------------------------------------------------------
USE PresenceAssumption DEF redis, worker, InFlight, Registered

\* A tick ages a record by one, and takes away no record that has not aged yet.
LEMMA Aged ==
    ASSUME NEW x \in Record \cup {None}
    PROVE  /\ Older(x) \in Record \cup {None}
           /\ x = None => Older(x) = None
           /\ Older(x) # None => Older(x).user = x.user /\ Older(x).ttl = x.ttl
           /\ x # None /\ x.age = 0 => Older(x) # None /\ Older(x).age <= 1
<1>1. CASE x = None
  BY <1>1 DEF Older
<1>2. CASE x # None
  <2> DEFINE age == IF x.ttl THEN x.age + 1 ELSE x.age
             idle == IF x.idle > GhostTimeout THEN x.idle ELSE x.idle + 1
  <2>1. x \in Record /\ x.idle \in 0..GhostTimeout + 1 /\ x.age \in 0..Ttl /\ x.ttl \in BOOLEAN
        /\ x.user \in BOOLEAN
    BY <1>2 DEF Record
  <2>2. idle \in 0..GhostTimeout + 1 /\ (~(x.ttl /\ x.age = Ttl) => age \in 0..Ttl)
    BY <2>1
  <2>3. Older(x) = IF x.ttl /\ x.age = Ttl THEN None
                   ELSE [age |-> age, idle |-> idle, ttl |-> x.ttl, user |-> x.user]
    BY <1>2 DEF Older, Record
  <2>4. x.age = 0 => age <= 1 /\ x.age # Ttl
    BY <2>1
  <2> HIDE DEF age, idle
  <2> QED
    BY <1>2, <2>1, <2>2, <2>3, <2>4 DEF Record
<1> QED
  BY <1>1, <1>2

LEMMA Updated ==
    ASSUME NEW x \in Record
    PROVE  /\ Renewed(x) \in Record
           /\ Renewed(x).user = x.user
           /\ Renewed(x).age = 0
           /\ Renewed(x).ttl
           /\ [x EXCEPT !.idle = 0] \in Record
           /\ [x EXCEPT !.idle = 0].user = x.user
           /\ [x EXCEPT !.idle = 0].age = x.age
           /\ [x EXCEPT !.idle = 0].ttl = x.ttl
<1>1. /\ x = [age |-> x.age, idle |-> x.idle, ttl |-> x.ttl, user |-> x.user]
      /\ x.age \in 0..Ttl /\ x.idle \in 0..GhostTimeout + 1
      /\ x.ttl \in BOOLEAN /\ x.user \in BOOLEAN /\ 0 \in 0..Ttl /\ 0 \in 0..GhostTimeout + 1
  BY DEF Record
<1>2. [x EXCEPT !.idle = 0] = [age |-> x.age, idle |-> 0, ttl |-> x.ttl, user |-> x.user]
  BY <1>1
<1> QED
  BY <1>1, <1>2 DEF Record, Renewed

\* The statistics never make a record one of the user's, nor older.
LEMMA SentRecord ==
    ASSUME TypeOK, NEW c \in Client, SendChunk(c)
    PROVE  \E n \in Record : /\ record' = [record EXCEPT ![c] = n] /\ n # None
                             /\ record[c] # None => n.user = record[c].user
                             /\ record[c] # None /\ record[c].ttl => n.ttl
                             /\ record[c] # None => n.age \in {0, record[c].age}
                             /\ record[c] = None => ~n.user
<1> DEFINE bare == [age |-> 0, idle |-> 0, ttl |-> FALSE, user |-> FALSE]
           stats == IF record[c] = None THEN bare ELSE [record[c] EXCEPT !.idle = 0]
<1>1. bare \in Record /\ ~bare.user /\ record[c] \in Record \cup {None}
  BY DEF Record, TypeOK
<1>2. /\ stats \in Record
      /\ record[c] # None => stats.user = record[c].user /\ stats.age = record[c].age
                             /\ stats.ttl = record[c].ttl
      /\ record[c] = None => ~stats.user
  BY <1>1, Updated
<1> HIDE DEF stats
<1> DEFINE fresh == Renewed(stats)
<1>3. fresh \in Record /\ fresh.user = stats.user /\ fresh.age = 0 /\ fresh.ttl
  BY <1>2, Updated
<1> HIDE DEF fresh
<1>4. \/ record' = [record EXCEPT ![c] = fresh]
      \/ record' = [record EXCEPT ![c] = stats]
  BY DEF SendChunk, fresh, stats
<1> QED
  BY <1>2, <1>3, <1>4

\* A heartbeat renews the records of its clients and makes none.
Kept(c, kept) ==
    /\ record'[c] = None <=> record[c] = None
    /\ record[c] # None => record'[c].user = record[c].user
    /\ record[c] # None /\ c \in kept => record'[c].age = 0 /\ record'[c].ttl
    /\ c \notin kept => record'[c] = record[c]

LEMMA RefreshedRecord ==
    ASSUME TypeOK, NEW w \in Worker, Refresh(w)
    PROVE  /\ record' \in [Client -> Record \cup {None}]
           /\ \A c \in Client : Kept(c, beat[w].ids)
<1>1. record' = [c \in Client |-> IF c \in beat[w].ids /\ record[c] # None
                                 THEN Renewed(record[c])
                                 ELSE record[c]]
  BY DEF Refresh
<1>2. \A c \in Client : record[c] \in Record \cup {None}
  BY DEF TypeOK
<1>3. ASSUME NEW c \in Client, c \in beat[w].ids, record[c] # None
      PROVE  record'[c] \in Record /\ Kept(c, beat[w].ids)
  BY <1>1, <1>2, <1>3, Updated DEF Kept
<1>4. ASSUME NEW c \in Client, ~(c \in beat[w].ids /\ record[c] # None)
      PROVE  record'[c] = record[c] /\ Kept(c, beat[w].ids)
  BY <1>1, <1>4 DEF Kept
<1> QED
  BY <1>1, <1>2, <1>3, <1>4

\* A step that adds no connection that counts, and lets no request in, keeps the room.
LEMMA RoomStays ==
    ASSUME RoomLeft, Held' \subseteq Held,
           \A c \in Client : gen'[c] = "record" => gen[c] = "record"
    PROVE  RoomLeft'
<1>1. IsFiniteSet(Held)
  BY FS_Subset DEF Held, Active
<1>2. /\ Cardinality(Held') \in Nat /\ Cardinality(Held) \in Nat
      /\ Cardinality(Held') <= Cardinality(Held)
  BY <1>1, FS_Subset, FS_CardinalityType
<1> QED
  BY <1>2 DEF RoomLeft

-----------------------------------------------------------------------------
LEMMA RequestInv == ASSUME IInv, NEW c \in Client, Request(c) PROVE IInv'
<1>1. TypeOK'
  BY DEF IInv, TypeOK, Request, At, Go
<1>2. LocalsOwn'
  BY DEF IInv, TypeOK, LocalsOwn, BeatHolds, Request, At, Go
<1>3. BeatHolds'
  BY DEF IInv, TypeOK, BeatHolds, LocalsOwn, Request, At, Go
<1>4. RecordsKept'
  BY DEF IInv, TypeOK, LocalsOwn, BeatHolds, RecordsKept, Request, At, Go
<1>5. MembersKept'
  BY DEF IInv, TypeOK, LocalsOwn, BeatHolds, MembersKept, GhostsGone, RecordsKept,
        Request, At, Go
<1>6. GhostsGone'
  BY DEF IInv, TypeOK, GhostsGone, LocalsOwn, MembersKept, RecordsKept, Request, At, Go
<1>7. EndedLeavesNothing'
  BY DEF IInv, TypeOK, LocalsOwn, BeatHolds, EndedLeavesNothing, Request, At, Go
<1>8. OneAtATime'
  BY DEF IInv, TypeOK, OneAtATime, Request, At, Go
<1>9. RoomLeft'
  <2>1. TypeOK /\ RoomLeft
    BY DEF IInv
  <2>2. Held' \subseteq Held
    BY <2>1 DEF Request, Go, Held, Active, TypeOK
  <2>3. \A d \in Client : gen'[d] = "record" => gen[d] = "record"
    BY <2>1 DEF Request, At, Go, TypeOK
  <2> QED
    BY <2>1, <2>2, <2>3, RoomStays
<1> QED
  BY <1>1, <1>2, <1>3, <1>4, <1>5, <1>6, <1>7, <1>8, <1>9 DEF IInv

LEMMA AdmitInv == ASSUME IInv, NEW c \in Client, Admit(c) PROVE IInv'
<1>1. TypeOK'
  BY DEF IInv, TypeOK, Admit, At, Go
<1>2. LocalsOwn'
  BY DEF IInv, TypeOK, LocalsOwn, BeatHolds, Admit, At, Go
<1>3. BeatHolds'
  BY DEF IInv, TypeOK, BeatHolds, LocalsOwn, Admit, At, Go
<1>4. RecordsKept'
  BY DEF IInv, TypeOK, LocalsOwn, BeatHolds, RecordsKept, Admit, At, Go
<1>5. MembersKept'
  BY DEF IInv, TypeOK, LocalsOwn, BeatHolds, MembersKept, GhostsGone, RecordsKept, Admit,
        At, Go
<1>6. GhostsGone'
  BY DEF IInv, TypeOK, GhostsGone, LocalsOwn, MembersKept, RecordsKept, Admit, At, Go
<1>7. EndedLeavesNothing'
  BY DEF IInv, TypeOK, LocalsOwn, BeatHolds, EndedLeavesNothing, Admit, At, Go
<1>8. OneAtATime'
  BY DEF IInv, TypeOK, OneAtATime, Admit, At, Go
<1>9. RoomLeft'
  <2>1. TypeOK /\ RoomLeft /\ c \in DOMAIN gen
    BY DEF IInv, TypeOK
  <2>2. Held' = Held /\ Held \subseteq Active /\ IsFiniteSet(Active)
    BY FS_Subset DEF Admit, Held, Active
  <2>3. CASE gen'[c] = "record"
    <3> SUFFICES ASSUME Patient, StreamLimit > 0
                 PROVE  Cardinality(Held') < StreamLimit /\ Cardinality(Held') <= StreamLimit
      BY DEF RoomLeft
    <3>1. Cardinality(Active) < StreamLimit
      <4>1. gen' = [gen EXCEPT ![c] = IF StreamLimit > 0 /\ Cardinality(Active) >= StreamLimit
                                      THEN "evict" ELSE "record"]
        BY DEF Admit, Go
      <4>2. ~(Cardinality(Active) >= StreamLimit)
        BY <2>1, <2>3, <4>1
      <4> QED
        BY <2>2, <4>2, FS_CardinalityType
    <3>2. /\ Cardinality(Held) \in Nat /\ Cardinality(Active) \in Nat
          /\ Cardinality(Held) <= Cardinality(Active)
      BY <2>2, FS_Subset, FS_CardinalityType
    <3> QED
      BY <2>2, <3>1, <3>2
  <2>4. CASE gen'[c] # "record"
    BY <2>1, <2>2, <2>4, RoomStays DEF Admit, At, Go
  <2> QED
    BY <2>3, <2>4 DEF RoomLeft
<1> QED
  BY <1>1, <1>2, <1>3, <1>4, <1>5, <1>6, <1>7, <1>8, <1>9 DEF IInv

LEMMA EvictInv == ASSUME IInv, NEW c \in Client, Evict(c) PROVE IInv'
<1>1. TypeOK'
  <2>1. /\ record' \in [Client -> Record \cup {None}] /\ members' \subseteq Client
        /\ local' \in [Worker -> SUBSET Client]
    BY DEF IInv, TypeOK, Evict, RemoveClients
  <2>2. stopKeys' \subseteq Client /\ mail' \subseteq Client
    BY DEF IInv, TypeOK, Evict, Active
  <2>3. gen' = [gen EXCEPT ![c] = "record"] /\ UNCHANGED <<beat, beaten, up, status>>
    BY DEF Evict, Go
  <2> QED
    BY <2>1, <2>2, <2>3 DEF IInv, TypeOK
<1>2. LocalsOwn'
  <2>1. \A w \in Worker : local'[w] \subseteq local[w]
    BY DEF IInv, TypeOK, Evict, RemoveClients
  <2>2. gen' = [gen EXCEPT ![c] = "record"] /\ gen[c] = "evict" /\ UNCHANGED up
    BY DEF Evict, At, Go
  <2> QED
    BY <2>1, <2>2 DEF IInv, TypeOK, LocalsOwn
<1>3. BeatHolds'
  BY DEF IInv, TypeOK, BeatHolds, LocalsOwn, Evict, At, Go, RemoveClients, Unlocked
<1>4. RecordsKept'
  BY DEF IInv, TypeOK, LocalsOwn, BeatHolds, RecordsKept, Evict, At, Go, RemoveClients,
        Unlocked
<1>5. MembersKept'
  BY DEF IInv, TypeOK, LocalsOwn, BeatHolds, MembersKept, GhostsGone, RecordsKept, Evict,
        At, Go, RemoveClients, Unlocked
<1>6. GhostsGone'
  BY DEF IInv, TypeOK, GhostsGone, LocalsOwn, MembersKept, RecordsKept, Evict, At, Go,
        RemoveClients, Unlocked
<1>7. EndedLeavesNothing'
  BY DEF IInv, TypeOK, LocalsOwn, BeatHolds, EndedLeavesNothing, Evict, At, Go,
        RemoveClients, Unlocked
<1>8. OneAtATime'
  BY DEF IInv, TypeOK, OneAtATime, Evict, At, Go, RemoveClients, Unlocked
<1>9. RoomLeft'
  <2> SUFFICES ASSUME Patient, StreamLimit > 0 PROVE Cardinality(Held') < StreamLimit
    <3>1. Held' \subseteq Client
      BY DEF Held, Active
    <3> QED
      BY <3>1, FS_Subset, FS_CardinalityType DEF RoomLeft
  <2>1. IsFiniteSet(Held) /\ Cardinality(Held) \in Nat /\ Cardinality(Held) <= StreamLimit
    BY FS_Subset, FS_CardinalityType DEF Held, Active, IInv, RoomLeft
  <2>2. CASE Active = {}
    <3>1. Held' \subseteq Active
      BY DEF Evict, Held, Active, RemoveClients, IInv, TypeOK
    <3> QED
      BY <2>2, <3>1, FS_EmptySet
  <2>3. CASE \E t \in Active : t \in stopKeys' /\ stopKeys \subseteq stopKeys'
    <3>1. PICK t \in Active : t \in stopKeys' /\ stopKeys \subseteq stopKeys'
      BY <2>3
    <3>2. t \in Held
      BY DEF IInv, OneAtATime, Evict, At, Held, Active
    <3>3. Held' \subseteq Held \ {t}
      BY <3>1 DEF Evict, Held, Active, RemoveClients, IInv, TypeOK
    <3>4. Cardinality(Held \ {t}) = Cardinality(Held) - 1 /\ IsFiniteSet(Held \ {t})
      BY <2>1, <3>2, FS_RemoveElement
    <3>5. IsFiniteSet(Held') /\ Cardinality(Held') <= Cardinality(Held \ {t})
      BY <3>3, <3>4, FS_Subset
    <3>6. Cardinality(Held') \in Nat
      BY <3>5, FS_CardinalityType
    <3> QED
      BY <2>1, <3>4, <3>5, <3>6
  <2> QED
    BY <2>2, <2>3 DEF Evict
<1> QED
  BY <1>1, <1>2, <1>3, <1>4, <1>5, <1>6, <1>7, <1>8, <1>9 DEF IInv

LEMMA AddRecordInv == ASSUME IInv, NEW c \in Client, AddRecord(c) PROVE IInv'
<1>1. TypeOK'
  BY DEF IInv, TypeOK, AddRecord, At, Go, Unlocked, Record
<1>2. LocalsOwn'
  BY DEF IInv, TypeOK, LocalsOwn, BeatHolds, AddRecord, At, Go, Unlocked
<1>3. BeatHolds'
  BY DEF IInv, TypeOK, BeatHolds, LocalsOwn, AddRecord, At, Go, Unlocked
<1>4. RecordsKept'
  <2> DEFINE new == [age |-> 0, idle |-> 0, ttl |-> TRUE, user |-> TRUE]
  <2>1. new \in Record /\ new.age = 0 /\ new.ttl /\ new.user
    <3>1. 0 \in 0..Ttl /\ 0 \in 0..GhostTimeout + 1
      OBVIOUS
    <3> QED
      BY <3>1 DEF Record
  <2>2. /\ record' = [record EXCEPT ![c] = new] /\ UNCHANGED beaten
        /\ local' = [local EXCEPT ![WorkerOf[c]] = @ \cup {c}]
    BY DEF AddRecord
  <2> HIDE DEF new
  <2> QED
    BY <2>1, <2>2 DEF IInv, TypeOK, RecordsKept
<1>5. MembersKept'
  BY DEF IInv, TypeOK, LocalsOwn, BeatHolds, MembersKept, GhostsGone, RecordsKept,
        AddRecord, At, Go, Unlocked
<1>6. GhostsGone'
  BY DEF IInv, TypeOK, GhostsGone, LocalsOwn, MembersKept, RecordsKept, AddRecord, At,
        Go, Unlocked
<1>7. EndedLeavesNothing'
  BY DEF IInv, TypeOK, LocalsOwn, BeatHolds, EndedLeavesNothing, AddRecord, At, Go, Unlocked
<1>8. OneAtATime'
  BY DEF IInv, TypeOK, OneAtATime, AddRecord, At, Go, Unlocked
<1>9. RoomLeft'
  <2> SUFFICES ASSUME Patient, StreamLimit > 0
               PROVE  /\ Cardinality(Held') <= StreamLimit
                      /\ \A d \in Client : gen'[d] # "record"
    BY DEF RoomLeft
  <2>1. IsFiniteSet(Held) /\ Cardinality(Held) \in Nat /\ Cardinality(Held) < StreamLimit
    BY FS_Subset, FS_CardinalityType DEF Held, Active, IInv, RoomLeft, AddRecord, At
  <2>2. Held' \subseteq Held \cup {c}
    BY DEF IInv, TypeOK, AddRecord, Held, Active
  <2>3. /\ IsFiniteSet(Held \cup {c})
        /\ Cardinality(Held \cup {c}) = IF c \in Held THEN Cardinality(Held)
                                        ELSE Cardinality(Held) + 1
    BY <2>1, FS_AddElement
  <2>4. /\ IsFiniteSet(Held') /\ Cardinality(Held') \in Nat
        /\ Cardinality(Held') <= Cardinality(Held \cup {c})
    BY <2>2, <2>3, FS_Subset, FS_CardinalityType
  <2>5. \A d \in Client : gen'[d] # "record"
    BY DEF IInv, TypeOK, OneAtATime, AddRecord, At, Go
  <2> QED
    BY <2>1, <2>3, <2>4, <2>5
<1> QED
  BY <1>1, <1>2, <1>3, <1>4, <1>5, <1>6, <1>7, <1>8, <1>9 DEF IInv

LEMMA AddMemberInv == ASSUME IInv, NEW c \in Client, AddMember(c) PROVE IInv'
<1>1. TypeOK'
  BY DEF IInv, TypeOK, AddMember, At, Go
<1>2. LocalsOwn'
  BY DEF IInv, TypeOK, LocalsOwn, BeatHolds, AddMember, At, Go
<1>3. BeatHolds'
  BY DEF IInv, TypeOK, BeatHolds, LocalsOwn, AddMember, At, Go
<1>4. RecordsKept'
  BY DEF IInv, TypeOK, LocalsOwn, BeatHolds, RecordsKept, AddMember, At, Go
<1>5. MembersKept'
  BY DEF IInv, TypeOK, LocalsOwn, BeatHolds, MembersKept, GhostsGone, RecordsKept,
        AddMember, At, Go
<1>6. GhostsGone'
  BY DEF IInv, TypeOK, GhostsGone, LocalsOwn, MembersKept, RecordsKept, AddMember, At, Go
<1>7. EndedLeavesNothing'
  BY DEF IInv, TypeOK, LocalsOwn, BeatHolds, EndedLeavesNothing, AddMember, At, Go
<1>8. OneAtATime'
  BY DEF IInv, TypeOK, OneAtATime, AddMember, At, Go
<1>9. RoomLeft'
  <2>1. TypeOK /\ RoomLeft
    BY DEF IInv
  <2>2. Held' \subseteq Held
    BY <2>1 DEF AddMember, Go, Held, Active, TypeOK
  <2>3. \A d \in Client : gen'[d] = "record" => gen[d] = "record"
    BY <2>1 DEF AddMember, At, Go, TypeOK
  <2> QED
    BY <2>1, <2>2, <2>3, RoomStays
<1> QED
  BY <1>1, <1>2, <1>3, <1>4, <1>5, <1>6, <1>7, <1>8, <1>9 DEF IInv

LEMMA CheckResourcesInv == ASSUME IInv, NEW c \in Client, CheckResources(c) PROVE IInv'
<1>1. TypeOK'
  BY DEF IInv, TypeOK, CheckResources, At, Go
<1>2. LocalsOwn'
  BY DEF IInv, TypeOK, LocalsOwn, BeatHolds, CheckResources, At, Go
<1>3. BeatHolds'
  BY DEF IInv, TypeOK, BeatHolds, LocalsOwn, CheckResources, At, Go
<1>4. RecordsKept'
  BY DEF IInv, TypeOK, LocalsOwn, BeatHolds, RecordsKept, CheckResources, At, Go
<1>5. MembersKept'
  BY DEF IInv, TypeOK, LocalsOwn, BeatHolds, MembersKept, GhostsGone, RecordsKept,
        CheckResources, At, Go
<1>6. GhostsGone'
  BY DEF IInv, TypeOK, GhostsGone, LocalsOwn, MembersKept, RecordsKept, CheckResources,
        At, Go
<1>7. EndedLeavesNothing'
  BY DEF IInv, TypeOK, LocalsOwn, BeatHolds, EndedLeavesNothing, CheckResources, At, Go
<1>8. OneAtATime'
  <2>1. /\ gen[c] = "check" /\ UNCHANGED <<stopKeys, mail, record>>
        /\ \E l \in {"send", "cleanup"} : gen' = [gen EXCEPT ![c] = l]
    BY DEF CheckResources, At, Go
  <2> QED
    BY <2>1 DEF IInv, TypeOK, OneAtATime
<1>9. RoomLeft'
  <2>1. TypeOK /\ RoomLeft
    BY DEF IInv
  <2>2. Held' \subseteq Held
    BY <2>1 DEF CheckResources, Go, Held, Active, TypeOK
  <2>3. \A d \in Client : gen'[d] = "record" => gen[d] = "record"
    BY <2>1 DEF CheckResources, At, Go, TypeOK
  <2> QED
    BY <2>1, <2>2, <2>3, RoomStays
<1> QED
  BY <1>1, <1>2, <1>3, <1>4, <1>5, <1>6, <1>7, <1>8, <1>9 DEF IInv

LEMMA SendChunkInv == ASSUME IInv, NEW c \in Client, SendChunk(c) PROVE IInv'
<1>1. TypeOK'
  <2>1. PICK n \in Record : record' = [record EXCEPT ![c] = n]
    BY SentRecord DEF IInv
  <2> QED
    BY <2>1 DEF IInv, TypeOK, SendChunk, Go
<1>2. LocalsOwn'
  BY DEF IInv, TypeOK, LocalsOwn, BeatHolds, SendChunk, At, Go
<1>3. BeatHolds'
  BY DEF IInv, TypeOK, BeatHolds, LocalsOwn, SendChunk, At, Go
<1>4. RecordsKept'
  <2>0. PICK n \in Record : /\ record' = [record EXCEPT ![c] = n] /\ n # None
                            /\ record[c] # None => n.user = record[c].user
                            /\ record[c] # None /\ record[c].ttl => n.ttl
                            /\ record[c] # None => n.age \in {0, record[c].age}
                            /\ record[c] = None => ~n.user
    BY SentRecord DEF IInv
  <2>1. UNCHANGED <<local, beaten>>
    BY DEF SendChunk
  <2> QED
    BY <2>0, <2>1 DEF IInv, TypeOK, RecordsKept, Record
<1>5. MembersKept'
  BY DEF IInv, TypeOK, LocalsOwn, BeatHolds, MembersKept, GhostsGone, RecordsKept,
        SendChunk, At, Go
<1>6. GhostsGone'
  BY DEF IInv, TypeOK, GhostsGone, LocalsOwn, MembersKept, RecordsKept, SendChunk, At, Go
<1>7. EndedLeavesNothing'
  BY DEF IInv, TypeOK, LocalsOwn, BeatHolds, EndedLeavesNothing, SendChunk, At, Go
<1>8. OneAtATime'
  BY DEF IInv, TypeOK, OneAtATime, SendChunk, At, Go
<1>9. RoomLeft'
  <2>1. TypeOK /\ RoomLeft
    BY DEF IInv
  <2>2. PICK n \in Record : /\ record' = [record EXCEPT ![c] = n] /\ n # None
                            /\ record[c] # None => n.user = record[c].user
                            /\ record[c] # None /\ record[c].ttl => n.ttl
                            /\ record[c] # None => n.age \in {0, record[c].age}
                            /\ record[c] = None => ~n.user
    BY SentRecord DEF IInv
  <2>3. Held' \subseteq Held
    BY <2>1, <2>2 DEF Held, Active, SendChunk, TypeOK
  <2>4. \A d \in Client : gen'[d] = "record" => gen[d] = "record"
    BY <2>1 DEF SendChunk, At, Go, TypeOK
  <2> QED
    BY <2>1, <2>3, <2>4, RoomStays
<1> QED
  BY <1>1, <1>2, <1>3, <1>4, <1>5, <1>6, <1>7, <1>8, <1>9 DEF IInv

LEMMA CleanupInv == ASSUME IInv, NEW c \in Client, Cleanup(c) PROVE IInv'
<1>1. TypeOK'
  BY DEF IInv, TypeOK, Cleanup, At, Go, RemoveClients, Unlocked
<1>2. LocalsOwn'
  BY DEF IInv, TypeOK, LocalsOwn, BeatHolds, Cleanup, At, Go, RemoveClients, Unlocked
<1>3. BeatHolds'
  BY DEF IInv, TypeOK, BeatHolds, LocalsOwn, Cleanup, At, Go, RemoveClients, Unlocked
<1>4. RecordsKept'
  BY DEF IInv, TypeOK, LocalsOwn, BeatHolds, RecordsKept, Cleanup, At, Go, RemoveClients,
        Unlocked
<1>5. MembersKept'
  BY DEF IInv, TypeOK, LocalsOwn, BeatHolds, MembersKept, GhostsGone, RecordsKept,
        Cleanup, At, Go, RemoveClients, Unlocked
<1>6. GhostsGone'
  BY DEF IInv, TypeOK, GhostsGone, LocalsOwn, MembersKept, RecordsKept, Cleanup, At, Go,
        RemoveClients, Unlocked
<1>7. EndedLeavesNothing'
  BY DEF IInv, TypeOK, LocalsOwn, BeatHolds, EndedLeavesNothing, Cleanup, At, Go,
        RemoveClients, Unlocked
<1>8. OneAtATime'
  BY DEF IInv, TypeOK, OneAtATime, Cleanup, At, Go, RemoveClients, Unlocked
<1>9. RoomLeft'
  <2>1. TypeOK /\ RoomLeft
    BY DEF IInv
  <2>2. Held' \subseteq Held
    BY <2>1 DEF Cleanup, Go, RemoveClients, Held, Active, TypeOK
  <2>3. \A d \in Client : gen'[d] = "record" => gen[d] = "record"
    BY <2>1 DEF Cleanup, At, Go, TypeOK
  <2> QED
    BY <2>1, <2>2, <2>3, RoomStays
<1> QED
  BY <1>1, <1>2, <1>3, <1>4, <1>5, <1>6, <1>7, <1>8, <1>9 DEF IInv

LEMMA ReceiveStopInv == ASSUME IInv, NEW c \in Client, ReceiveStop(c) PROVE IInv'
<1>1. TypeOK'
  BY DEF IInv, TypeOK, ReceiveStop, RemoveClients, Unlocked
<1>2. LocalsOwn'
  BY DEF IInv, TypeOK, LocalsOwn, BeatHolds, ReceiveStop, RemoveClients, Unlocked
<1>3. BeatHolds'
  <2>1. /\ beat[WorkerOf[c]].pc = "sleep" /\ UNCHANGED <<beat, beaten, up, gen>>
        /\ \A w \in Worker : w # WorkerOf[c] => local'[w] = local[w]
    BY DEF IInv, TypeOK, ReceiveStop, RemoveClients, Unlocked
  <2> QED
    BY <2>1 DEF IInv, TypeOK, BeatHolds
<1>4. RecordsKept'
  BY DEF IInv, TypeOK, LocalsOwn, BeatHolds, RecordsKept, ReceiveStop, RemoveClients,
        Unlocked
<1>5. MembersKept'
  BY DEF IInv, TypeOK, LocalsOwn, BeatHolds, MembersKept, GhostsGone, RecordsKept,
        ReceiveStop, RemoveClients, Unlocked
<1>6. GhostsGone'
  BY DEF IInv, TypeOK, GhostsGone, LocalsOwn, MembersKept, RecordsKept, ReceiveStop,
        RemoveClients, Unlocked
<1>7. EndedLeavesNothing'
  BY DEF IInv, TypeOK, LocalsOwn, BeatHolds, EndedLeavesNothing, ReceiveStop,
        RemoveClients, Unlocked
<1>8. OneAtATime'
  BY DEF IInv, TypeOK, OneAtATime, ReceiveStop, RemoveClients, Unlocked
<1>9. RoomLeft'
  <2>1. TypeOK /\ RoomLeft
    BY DEF IInv
  <2>2. Held' \subseteq Held
    BY <2>1 DEF ReceiveStop, RemoveClients, Held, Active, TypeOK
  <2>3. \A d \in Client : gen'[d] = "record" => gen[d] = "record"
    BY <2>1 DEF ReceiveStop, TypeOK
  <2> QED
    BY <2>1, <2>2, <2>3, RoomStays
<1> QED
  BY <1>1, <1>2, <1>3, <1>4, <1>5, <1>6, <1>7, <1>8, <1>9 DEF IInv

LEMMA ScanClientsInv == ASSUME IInv, NEW w \in Worker, ScanClients(w) PROVE IInv'
<1>1. TypeOK'
  BY DEF IInv, TypeOK, ScanClients
<1>2. LocalsOwn'
  BY DEF IInv, TypeOK, LocalsOwn, BeatHolds, ScanClients
<1>3. BeatHolds'
  BY DEF IInv, TypeOK, BeatHolds, LocalsOwn, ScanClients
<1>4. RecordsKept'
  BY DEF IInv, TypeOK, LocalsOwn, BeatHolds, RecordsKept, ScanClients
<1>5. MembersKept'
  BY DEF IInv, TypeOK, LocalsOwn, BeatHolds, MembersKept, GhostsGone, RecordsKept,
        ScanClients
<1>6. GhostsGone'
  BY DEF IInv, TypeOK, GhostsGone, LocalsOwn, MembersKept, RecordsKept, ScanClients
<1>7. EndedLeavesNothing'
  BY DEF IInv, TypeOK, LocalsOwn, BeatHolds, EndedLeavesNothing, ScanClients
<1>8. OneAtATime'
  BY DEF IInv, TypeOK, OneAtATime, ScanClients
<1>9. RoomLeft'
  <2>1. TypeOK /\ RoomLeft
    BY DEF IInv
  <2>2. Held' \subseteq Held
    BY <2>1 DEF ScanClients, Held, Active, TypeOK
  <2>3. \A d \in Client : gen'[d] = "record" => gen[d] = "record"
    BY <2>1 DEF ScanClients, TypeOK
  <2> QED
    BY <2>1, <2>2, <2>3, RoomStays
<1> QED
  BY <1>1, <1>2, <1>3, <1>4, <1>5, <1>6, <1>7, <1>8, <1>9 DEF IInv

LEMMA RemoveStaleInv == ASSUME IInv, NEW w \in Worker, RemoveStale(w) PROVE IInv'
<1>1. TypeOK'
  BY DEF IInv, TypeOK, RemoveStale, RemoveClients
<1>2. LocalsOwn'
  BY DEF IInv, TypeOK, LocalsOwn, BeatHolds, RemoveStale, RemoveClients
<1>3. BeatHolds'
  BY DEF IInv, TypeOK, BeatHolds, LocalsOwn, RemoveStale, RemoveClients
<1>4. RecordsKept'
  BY DEF IInv, TypeOK, LocalsOwn, BeatHolds, RecordsKept, RemoveStale, RemoveClients
<1>5. MembersKept'
  BY DEF IInv, TypeOK, LocalsOwn, BeatHolds, MembersKept, GhostsGone, RecordsKept,
        RemoveStale, RemoveClients
<1>6. GhostsGone'
  BY DEF IInv, TypeOK, GhostsGone, LocalsOwn, MembersKept, RecordsKept, RemoveStale,
        RemoveClients
<1>7. EndedLeavesNothing'
  BY DEF IInv, TypeOK, LocalsOwn, BeatHolds, EndedLeavesNothing, RemoveStale, RemoveClients
<1>8. OneAtATime'
  BY DEF IInv, TypeOK, OneAtATime, RemoveStale, RemoveClients
<1>9. RoomLeft'
  <2>1. TypeOK /\ RoomLeft
    BY DEF IInv
  <2>2. Held' \subseteq Held
    BY <2>1 DEF RemoveStale, RemoveClients, Held, Active, TypeOK
  <2>3. \A d \in Client : gen'[d] = "record" => gen[d] = "record"
    BY <2>1 DEF RemoveStale, TypeOK
  <2> QED
    BY <2>1, <2>2, <2>3, RoomStays
<1> QED
  BY <1>1, <1>2, <1>3, <1>4, <1>5, <1>6, <1>7, <1>8, <1>9 DEF IInv

LEMMA RefreshInv == ASSUME IInv, NEW w \in Worker, Refresh(w) PROVE IInv'
<1>1. TypeOK'
  <2>1. /\ record' \in [Client -> Record \cup {None}]
        /\ \A c \in Client : Kept(c, beat[w].ids)
    BY RefreshedRecord DEF IInv
  <2>2. /\ beat' = [beat EXCEPT ![w] = Asleep]
        /\ Asleep \in [pc : {"sleep", "remove", "refresh"}, ids : SUBSET Client]
    BY DEF Refresh, Asleep
  <2>3. members' \subseteq Client
    BY DEF IInv, TypeOK, Refresh
  <2>4. beat' \in [Worker -> [pc : {"sleep", "remove", "refresh"}, ids : SUBSET Client]]
    BY <2>2 DEF IInv, TypeOK
  <2>5. /\ beaten' = beaten \cup {w}
        /\ UNCHANGED <<stopKeys, mail, local, up, gen, status>>
    BY DEF Refresh
  <2> QED
    BY <2>1, <2>3, <2>4, <2>5 DEF IInv, TypeOK
<1>2. LocalsOwn'
  BY DEF IInv, TypeOK, LocalsOwn, BeatHolds, Refresh
<1>3. BeatHolds'
  <2>1. beat' = [beat EXCEPT ![w] = Asleep] /\ Asleep.pc = "sleep"
    BY DEF Refresh, Asleep
  <2>2. beaten' = beaten \cup {w} /\ UNCHANGED <<local, gen, up>>
    BY DEF Refresh
  <2> QED
    BY <2>1, <2>2 DEF IInv, TypeOK, BeatHolds
<1>4. RecordsKept'
  <2>1. /\ record' \in [Client -> Record \cup {None}]
        /\ \A c \in Client : Kept(c, beat[w].ids)
    BY RefreshedRecord DEF IInv
  <2>2. beat[w].ids = local[w] /\ beaten' = beaten \cup {w} /\ UNCHANGED local
    BY DEF Refresh, IInv, BeatHolds
  <2> QED
    BY <2>1, <2>2 DEF IInv, TypeOK, RecordsKept, Kept
<1>5. MembersKept'
  <2>1. /\ beat[w].ids = local[w] /\ members' = members \cup beat[w].ids
        /\ \A c \in local[w] : gen[c] # "member" /\ gen[c] \in Registered
        /\ UNCHANGED <<local, gen>>
    BY DEF Refresh, IInv, BeatHolds, LocalsOwn
  <2> QED
    BY <2>1 DEF IInv, MembersKept
<1>6. GhostsGone'
  BY DEF IInv, TypeOK, GhostsGone, LocalsOwn, MembersKept, RecordsKept, Refresh, Asleep
<1>7. EndedLeavesNothing'
  BY DEF IInv, TypeOK, LocalsOwn, BeatHolds, EndedLeavesNothing, Refresh
<1>8. OneAtATime'
  BY DEF IInv, TypeOK, OneAtATime, Refresh
<1>9. RoomLeft'
  <2>1. TypeOK /\ RoomLeft /\ UNCHANGED <<gen, stopKeys>>
    BY DEF IInv, Refresh
  <2>2. \A c \in Client : Kept(c, beat[w].ids)
    BY RefreshedRecord DEF IInv
  <2>3. Held' \subseteq Held
    BY <2>1, <2>2 DEF Held, Active, Kept
  <2> QED
    BY <2>1, <2>3, RoomStays
<1> QED
  BY <1>1, <1>2, <1>3, <1>4, <1>5, <1>6, <1>7, <1>8, <1>9 DEF IInv

LEMMA FindGhostsInv == ASSUME IInv, FindGhosts PROVE IInv'
<1>1. TypeOK'
  BY DEF IInv, TypeOK, FindGhosts
<1>2. LocalsOwn'
  BY DEF IInv, TypeOK, LocalsOwn, BeatHolds, FindGhosts
<1>3. BeatHolds'
  BY DEF IInv, TypeOK, BeatHolds, LocalsOwn, FindGhosts
<1>4. RecordsKept'
  BY DEF IInv, TypeOK, LocalsOwn, BeatHolds, RecordsKept, FindGhosts
<1>5. MembersKept'
  BY DEF IInv, TypeOK, LocalsOwn, BeatHolds, MembersKept, GhostsGone, RecordsKept,
        FindGhosts
<1>6. GhostsGone'
  BY DEF IInv, TypeOK, GhostsGone, LocalsOwn, MembersKept, RecordsKept, FindGhosts
<1>7. EndedLeavesNothing'
  BY DEF IInv, TypeOK, LocalsOwn, BeatHolds, EndedLeavesNothing, FindGhosts
<1>8. OneAtATime'
  BY DEF IInv, TypeOK, OneAtATime, FindGhosts
<1>9. RoomLeft'
  <2>1. TypeOK /\ RoomLeft
    BY DEF IInv
  <2>2. Held' \subseteq Held
    BY <2>1 DEF FindGhosts, Held, Active, TypeOK
  <2>3. \A d \in Client : gen'[d] = "record" => gen[d] = "record"
    BY <2>1 DEF FindGhosts, TypeOK
  <2> QED
    BY <2>1, <2>2, <2>3, RoomStays
<1> QED
  BY <1>1, <1>2, <1>3, <1>4, <1>5, <1>6, <1>7, <1>8, <1>9 DEF IInv

LEMMA PruneGhostsInv == ASSUME IInv, PruneGhosts PROVE IInv'
<1>1. TypeOK'
  BY DEF IInv, TypeOK, PruneGhosts, NoStatus
<1>2. LocalsOwn'
  BY DEF IInv, TypeOK, LocalsOwn, BeatHolds, PruneGhosts
<1>3. BeatHolds'
  BY DEF IInv, TypeOK, BeatHolds, LocalsOwn, PruneGhosts, NoStatus
<1>4. RecordsKept'
  BY DEF IInv, TypeOK, LocalsOwn, BeatHolds, RecordsKept, PruneGhosts
<1>5. MembersKept'
  BY DEF IInv, TypeOK, LocalsOwn, BeatHolds, MembersKept, GhostsGone, RecordsKept,
        PruneGhosts, NoStatus
<1>6. GhostsGone'
  BY DEF IInv, TypeOK, GhostsGone, LocalsOwn, MembersKept, RecordsKept, PruneGhosts,
        NoStatus
<1>7. EndedLeavesNothing'
  BY DEF IInv, TypeOK, LocalsOwn, BeatHolds, EndedLeavesNothing, PruneGhosts
<1>8. OneAtATime'
  BY DEF IInv, TypeOK, OneAtATime, PruneGhosts
<1>9. RoomLeft'
  <2>1. TypeOK /\ RoomLeft
    BY DEF IInv
  <2>2. Held' \subseteq Held
    BY <2>1 DEF PruneGhosts, Held, Active, TypeOK
  <2>3. \A d \in Client : gen'[d] = "record" => gen[d] = "record"
    BY <2>1 DEF PruneGhosts, TypeOK
  <2> QED
    BY <2>1, <2>2, <2>3, RoomStays
<1> QED
  BY <1>1, <1>2, <1>3, <1>4, <1>5, <1>6, <1>7, <1>8, <1>9 DEF IInv

LEMMA TickInv == ASSUME IInv, Tick PROVE IInv'
<1>1. TypeOK'
  <2>1. /\ record' = [c \in Client |-> Older(record[c])]
        /\ members' \in {{}, members} /\ beaten' = {}
        /\ UNCHANGED <<stopKeys, mail, local, beat, up, gen, status>>
    BY DEF Tick
  <2>2. record' \in [Client -> Record \cup {None}]
    BY <2>1, Aged DEF IInv, TypeOK
  <2> QED
    BY <2>1, <2>2 DEF IInv, TypeOK
<1>2. LocalsOwn'
  BY DEF IInv, TypeOK, LocalsOwn, BeatHolds, Tick
<1>3. BeatHolds'
  <2>1. /\ record' = [c \in Client |-> Older(record[c])]
        /\ members' \in {{}, members} /\ beaten' = {}
        /\ UNCHANGED <<stopKeys, mail, local, beat, up, gen, status>>
    BY DEF Tick
  <2> QED
    BY <2>1 DEF IInv, TypeOK, BeatHolds
<1>4. RecordsKept'
  <2>1. /\ record' = [c \in Client |-> Older(record[c])]
        /\ members' \in {{}, members} /\ beaten' = {}
        /\ UNCHANGED <<stopKeys, mail, local, beat, up, gen, status>>
    BY DEF Tick
  <2>2. \A c \in Client : Timely /\ c \in local[WorkerOf[c]] => WorkerOf[c] \in beaten
    BY DEF Tick, IInv, LocalsOwn
  <2> QED
    BY <2>1, <2>2, Aged DEF IInv, TypeOK, RecordsKept
<1>5. MembersKept'
  <2>1. /\ record' = [c \in Client |-> Older(record[c])]
        /\ members' \in {{}, members} /\ beaten' = {}
        /\ UNCHANGED <<stopKeys, mail, local, beat, up, gen, status>>
    BY DEF Tick
  <2>2. RecordsKept'
    BY <1>4
  <2>3. \A c \in Client : Timely /\ c \in local[WorkerOf[c]] => members' = members
    BY <2>1, <2>2 DEF Tick, RecordsKept
  <2> QED
    BY <2>1, <2>3 DEF IInv, TypeOK, MembersKept
<1>6. GhostsGone'
  BY DEF IInv, TypeOK, GhostsGone, LocalsOwn, MembersKept, RecordsKept, Tick
<1>7. EndedLeavesNothing'
  BY DEF IInv, TypeOK, LocalsOwn, BeatHolds, EndedLeavesNothing, Tick, Older
<1>8. OneAtATime'
  BY DEF IInv, TypeOK, OneAtATime, Tick, Older
<1>9. RoomLeft'
  <2>1. /\ record' = [c \in Client |-> Older(record[c])]
        /\ members' \in {{}, members} /\ beaten' = {}
        /\ UNCHANGED <<stopKeys, mail, local, beat, up, gen, status>>
    BY DEF Tick
  <2>2. Held' \subseteq Held
    BY <2>1, Aged DEF Held, Active, IInv, TypeOK
  <2> QED
    BY <2>1, <2>2, RoomStays DEF IInv
<1> QED
  BY <1>1, <1>2, <1>3, <1>4, <1>5, <1>6, <1>7, <1>8, <1>9 DEF IInv

LEMMA CrashInv == ASSUME IInv, NEW w \in Worker, Crash(w) PROVE IInv'
<1>1. TypeOK'
  BY DEF IInv, TypeOK, Crash, Asleep
<1>2. LocalsOwn'
  BY DEF IInv, TypeOK, LocalsOwn, BeatHolds, Crash
<1>3. BeatHolds'
  BY DEF IInv, TypeOK, BeatHolds, LocalsOwn, Crash, Asleep
<1>4. RecordsKept'
  BY DEF IInv, TypeOK, LocalsOwn, BeatHolds, RecordsKept, Crash
<1>5. MembersKept'
  BY DEF IInv, TypeOK, LocalsOwn, BeatHolds, MembersKept, GhostsGone, RecordsKept, Crash,
        Asleep
<1>6. GhostsGone'
  BY DEF IInv, TypeOK, GhostsGone, LocalsOwn, MembersKept, RecordsKept, Crash, Asleep
<1>7. EndedLeavesNothing'
  BY DEF IInv, TypeOK, LocalsOwn, BeatHolds, EndedLeavesNothing, Crash
<1>8. OneAtATime'
  BY DEF IInv, TypeOK, OneAtATime, Crash
<1>9. RoomLeft'
  <2>1. TypeOK /\ RoomLeft
    BY DEF IInv
  <2>2. Held' \subseteq Held
    BY <2>1 DEF Crash, Held, Active, TypeOK
  <2>3. \A d \in Client : gen'[d] = "record" => gen[d] = "record"
    BY <2>1 DEF Crash, TypeOK
  <2> QED
    BY <2>1, <2>2, <2>3, RoomStays
<1> QED
  BY <1>1, <1>2, <1>3, <1>4, <1>5, <1>6, <1>7, <1>8, <1>9 DEF IInv

-----------------------------------------------------------------------------
LEMMA InitInv == ASSUME Init PROVE IInv
<1>1. TypeOK
  BY DEF Init, TypeOK, Asleep, NoStatus
<1>2. LocalsOwn /\ BeatHolds /\ RecordsKept /\ MembersKept
  BY DEF Init, LocalsOwn, BeatHolds, RecordsKept, MembersKept, Asleep
<1>3. GhostsGone /\ EndedLeavesNothing /\ OneAtATime
  BY DEF Init, GhostsGone, EndedLeavesNothing, OneAtATime, NoStatus
<1>4. Held = {}
  BY DEF Init, Held, Active
<1> QED
  BY <1>1, <1>2, <1>3, <1>4, FS_EmptySet DEF IInv, RoomLeft, Init

LEMMA StepInv == ASSUME IInv, [Next]_vars PROVE IInv'
<1>1. CASE UNCHANGED vars
  BY <1>1 DEF vars, IInv, TypeOK, LocalsOwn, BeatHolds, RecordsKept, MembersKept,
        GhostsGone,
              EndedLeavesNothing, OneAtATime, RoomLeft, Held, Active
<1>2. CASE Next
  BY <1>2, RequestInv, AdmitInv, EvictInv, AddRecordInv, AddMemberInv, CheckResourcesInv,
     SendChunkInv, CleanupInv, ReceiveStopInv, ScanClientsInv, RemoveStaleInv, RefreshInv,
     FindGhostsInv, PruneGhostsInv, TickInv, CrashInv DEF Next, Serve, Beat, Prune
<1> QED
  BY <1>1, <1>2

\* Late heartbeats or not, the state keeps the invariant.
LEMMA Inductive == Spec => []IInv
  BY InitInv, StepInv, PTL DEF Spec

LEMMA WhatFollows == ASSUME IInv PROVE PresenceSound
<1>1. LocalCounted
  BY DEF IInv, LocalCounted, RecordsKept, MembersKept
<1>2. ASSUME Patient, Timely, StreamLimit > 0
      PROVE  Cardinality({c \in Client : c \in local[WorkerOf[c]] \ stopKeys}) <= StreamLimit
  <2> DEFINE untold == {c \in Client : c \in local[WorkerOf[c]] \ stopKeys}
  <2>1. untold \subseteq Held
    BY <1>2 DEF IInv, RecordsKept, Held, Active
  <2>2. IsFiniteSet(Held) /\ Cardinality(Held) \in Nat /\ Cardinality(Held) <= StreamLimit
    BY <1>2, FS_Subset, FS_CardinalityType DEF Held, Active, IInv, RoomLeft
  <2>3. Cardinality(untold) \in Nat /\ Cardinality(untold) <= Cardinality(Held)
    BY <2>1, <2>2, FS_Subset, FS_CardinalityType
  <2> QED
    BY <2>2, <2>3
<1> QED
  BY <1>1, <1>2 DEF IInv, PresenceSound, LimitKept

-----------------------------------------------------------------------------
\* The keys in Redis, the workers' clients and the threads' locals keep their types.
THEOREM TypeInvariant == Spec => []TypeOK
<1>1. IInv => TypeOK
  BY DEF IInv
<1> QED
  BY <1>1, Inductive, PTL

\* The records and the set are those of the clients there are, and a patient user's
\* are within the limit: add_client, the heartbeat thread, remove_ghost_clients and
\* the cleanup of a generator, in any order, with workers that crash.
THEOREM PresenceIsSound == Spec => []PresenceSound
  BY Inductive, WhatFollows, PTL
=============================================================================
