------------------------ MODULE AccountRefreshProofs ------------------------
(***************************************************************************)
(* Proofs about AccountRefresh, for any workers, streams, groups, listings *)
(* and accounts: a refresh runs alone, it leaves the rows and the channels *)
(* as they were listed, with numbers of their own, and takes no channel's  *)
(* identity away that is still listed.                                     *)
(***************************************************************************)
EXTENDS AccountRefresh, FiniteSetTheorems, WellFoundedInduction, TLAPS

Early   == {"cache", "groups", "fetch", "process", "processed", "parse"}
Syncing == {"groups_left", "streams_left", "finish"}
Cleaned == {"relations", "sync"} \cup Syncing
Written == {"streams"} \cup Cleaned
Label   == {"idle", "batches", "release"} \cup Early \cup Written

Fields == {"pc", "full", "start", "data", "picked", "left", "group", "todo", "used", "next"}

JobTyped(r) ==
    /\ DOMAIN r = Fields
    /\ r.pc \in Label /\ r.full \in BOOLEAN
    /\ r.data \subseteq Stream /\ r.todo \subseteq Stream
    /\ r.picked \subseteq Group /\ r.left \subseteq Group
    /\ r.used \subseteq Nat /\ IsFiniteSet(r.used) /\ r.next \in Nat

JobsTyped == DOMAIN job = Worker /\ \A w \in Worker : JobTyped(job[w])

Typed ==
    /\ seen \in [Stream -> Nat] /\ scans \in Nat \ {0}
    /\ carries \in [Channel -> Stream \cup {Absent, Gone}] /\ number \in [Channel -> Nat]
    /\ enabled \subseteq Group /\ (cache = None \/ cache \subseteq Stream)
    /\ DOMAIN locks = Lock
    /\ \A k \in Stream : seen[k] <= scans
    /\ JobsTyped

\* A channel for each stream at most.
OneChannel == \A c, d \in Channel : carries[c] \in Stream /\ carries[c] = carries[d] => c = d

\* What is not a full refresh keeps to the groups.
Lone  == {"groups", "fetch", "process", "processed"}
Kinds ==
    \A w \in Worker : IF job[w].full THEN job[w].pc # "idle"
                      ELSE job[w].pc \in {"idle"} \cup Lone

\* A full refresh has the lock, and the last timestamp.
Holds(w) == locks["refresh"] = w /\ job[w].start = scans

\* The rows of the streams while they are written and after.
Rewritten(w) ==
    /\ job[w].pc \in Early => \A k \in Stream : seen[k] < job[w].start
    /\ job[w].pc = "batches" => job[w].todo \subseteq job[w].data
    /\ job[w].pc = "batches" /\ AsPlanned =>
          \A k \in Stream : IF k \in job[w].data \ job[w].todo /\ GroupOf[k] \in job[w].picked
                            THEN seen[k] = job[w].start /\ k \notin stale
                            ELSE seen[k] < job[w].start
    /\ job[w].pc \in Written /\ AsPlanned =>
          \A k \in Stream : GroupOf[k] \in job[w].picked =>
              IF k \in job[w].data THEN seen[k] = job[w].start /\ k \notin stale
              ELSE seen[k] < job[w].start /\ (seen[k] # 0 => k \in stale)
    /\ job[w].pc \in Cleaned /\ AsPlanned =>
          \A k \in Stream : GroupOf[k] \in job[w].picked /\ seen[k] # 0 =>
              seen[k] >= job[w].start - Retention

\* The groups that are not synchronised, or not wholly.
InGroup(w, g) == job[w].pc = "streams_left" /\ job[w].group = g
Pending(w, g) == g \in job[w].left \/ InGroup(w, g)

\* The channels of the groups that are, and of those streams of the group under way.
Followed(w) ==
    /\ job[w].pc \in Syncing /\ AsPlanned =>
          \A k \in Stream : GroupOf[k] \in job[w].picked /\ ~Pending(w, GroupOf[k]) =>
              (ChannelsOf(k) # {} <=> k \in job[w].data)
    /\ job[w].pc = "streams_left" =>
          /\ job[w].group \in Group \ job[w].left
          /\ job[w].todo \subseteq Current(w, job[w].group)
          /\ \A k \in Current(w, job[w].group) \ job[w].todo : ChannelsOf(k) # {}
    /\ job[w].pc = "finish" => job[w].left = {} /\ ChannelsOf(Gone) = {}

\* Their numbers.
Settled(w) ==
    {c \in Channel :
        /\ carries[c] \in Stream /\ GroupOf[carries[c]] \in job[w].picked
        /\ GroupOf[carries[c]] \notin job[w].left
        /\ InGroup(w, GroupOf[carries[c]]) => carries[c] \in Current(w, job[w].group)}

Numbered(w) ==
    job[w].pc \in Syncing =>
        /\ Manual \subseteq job[w].used
        /\ \A c \in Settled(w) :
              /\ number[c] \in job[w].used \ Manual
              /\ \A d \in Settled(w) \ {c} : number[d] # number[c]

Right(w) == Holds(w) /\ Rewritten(w) /\ Followed(w) /\ Numbered(w)

IInv == Typed /\ OneChannel /\ Kinds /\ \A w \in Worker : Running(w) => Right(w)

-----------------------------------------------------------------------------
(* Numbers, and induction over them.                                       *)

USE RefreshAssumption

\* Every set of numbers has a least one.
LEMMA Least ==
    ASSUME NEW T, T \subseteq Nat, T # {}
    PROVE  \E x \in T : \A y \in T : x <= y
<1> DEFINE less == OpToRel(<, Nat)
<1>1. \A x, y \in Nat : y < x => <<y, x>> \in less
  BY DEF OpToRel
<1>2. IsWellFoundedOn(less, Nat)
  BY NatLessThanWellFounded
<1> HIDE DEF less
<1>3. PICK x \in T : \A y \in T : <<y, x>> \notin less
  BY <1>2, WFMin
<1>4. x \in Nat /\ \A y \in T : y \in Nat /\ ~(y < x)
  BY <1>1, <1>3
<1> QED
  BY <1>4

LEMMA MinIs ==
    ASSUME NEW T, T \subseteq Nat, T # {}
    PROVE  Min(T) \in T /\ \A y \in T : Min(T) <= y
  BY Least DEF Min

\* Induction up to a number.
LEMMA UpTo ==
    ASSUME NEW N \in Nat, NEW T, T \subseteq 0 .. N, 0 \in T,
           \A n \in 1 .. N : n - 1 \in T => n \in T
    PROVE  N \in T
<1> DEFINE U == (0 .. N) \ T
<1>1. SUFFICES ASSUME U # {} PROVE FALSE
  OBVIOUS
<1>2. U \subseteq Nat
  OBVIOUS
<1>3. PICK n \in U : \A m \in U : n <= m
  <2> HIDE DEF U
  <2> QED
    BY <1>1, <1>2, Least
<1>4. n \in 1 .. N /\ n \notin T
  BY <1>3
<1>5. n - 1 \in 0 .. N /\ n - 1 \notin U
  BY <1>3, <1>4
<1> QED
  BY <1>4, <1>5

\* The search for a free number ends.
LEMMA Free ==
    ASSUME NEW from \in Nat, NEW taken, taken \subseteq Nat, IsFiniteSet(taken)
    PROVE  LeastFree(from, taken) \in Nat \ taken
<1> DEFINE T == (from .. from + Cardinality(taken)) \ taken
<1>1. Cardinality(taken) \in Nat
  BY FS_CardinalityType
<1>2. T # {}
  <2>1. SUFFICES ASSUME from .. from + Cardinality(taken) \subseteq taken PROVE FALSE
    OBVIOUS
  <2>2. Cardinality(from .. from + Cardinality(taken)) = Cardinality(taken) + 1
    BY <1>1, FS_Interval
  <2>3. Cardinality(from .. from + Cardinality(taken)) <= Cardinality(taken)
    BY <2>1, FS_Subset
  <2> QED
    BY <1>1, <2>2, <2>3
<1>3. PICK n \in T : \A m \in T : n <= m
  <2>1. T \subseteq Nat
    BY <1>1
  <2> HIDE DEF T
  <2> QED
    BY <1>2, <2>1, Least
<1>4. /\ n \in from .. from + Cardinality(taken) /\ n \notin taken
      /\ \A m \in from .. n - 1 : m \in taken
  BY <1>1, <1>3
<1> QED
  BY <1>1, <1>4 DEF LeastFree

LEMMA TargetFree ==
    ASSUME NEW k \in Stream, NEW from \in Nat, NEW taken, taken \subseteq Nat, IsFiniteSet(taken)
    PROVE  TargetNumber(k, from, taken) \in Nat \ taken
  BY Free DEF TargetNumber, RefreshAssumption

\* Renumbering gives the channels of the streams that exist numbers of their own, that were
\* not used before, and leaves the others theirs.
LEMMA Renumbered ==
    ASSUME NEW w \in Worker, JobTyped(job[w]), number \in [Channel -> Nat],
           NEW existing, existing \subseteq Stream
    PROVE  LET r == Renumber(w, existing) IN
           /\ r.used \subseteq Nat /\ IsFiniteSet(r.used) /\ job[w].used \subseteq r.used
           /\ r.numbers \in [Channel -> Nat]
           /\ \A c \in Channel :
                 IF carries[c] \in existing
                 THEN /\ r.numbers[c] \in r.used \ job[w].used
                      /\ \A d \in Channel : carries[d] \in existing /\ carries[d] # carries[c]
                            => r.numbers[d] # r.numbers[c]
                 ELSE r.numbers[c] = number[c]
<1> DEFINE N == Cardinality(existing)
           first == [left |-> existing, from |-> 1, used |-> job[w].used, numbers |-> number]
           Step(acc) ==
               LET k == Min(acc.left)
                   target == TargetNumber(k, acc.from, acc.used) IN
               [left |-> acc.left \ {k}, from |-> acc.from + 1, used |-> acc.used \cup {target},
                numbers |-> [c \in Channel |-> IF carries[c] = k THEN target ELSE acc.numbers[c]]]
           Is(f, n) == f = [m \in 0 .. n |-> IF m = 0 THEN first ELSE Step(f[m - 1])]
           done == CHOOSE f : f = [n \in 0 .. N |-> IF n = 0 THEN first ELSE Step(f[n - 1])]
<1>1. Renumber(w, existing) = done[N]
  BY DEF Renumber
<1>2. N \in Nat /\ IsFiniteSet(existing)
  BY FS_Subset, FS_CardinalityType DEF RefreshAssumption
<1> HIDE DEF first, Step, N
\* The function that the recursion defines exists.
<1>3. \E f : Is(f, N)
  <2> DEFINE T == {n \in 0 .. N : \E f : Is(f, n)}
  <2>1. 0 \in T
    <3>1. Is([m \in 0 .. 0 |-> first], 0)
      OBVIOUS
    <3> HIDE DEF Is
    <3> QED
      BY <1>2, <3>1
  <2>2. ASSUME NEW n \in 1 .. N, n - 1 \in T PROVE n \in T
    <3>1. PICK f : Is(f, n - 1)
      BY <2>2
    <3> DEFINE g == [m \in 0 .. n |-> IF m = n THEN Step(f[n - 1]) ELSE f[m]]
    <3>2. ASSUME NEW m \in 0 .. n PROVE g[m] = IF m = 0 THEN first ELSE Step(g[m - 1])
      BY <1>2, <2>2, <3>1
    <3>3. Is(g, n)
      BY <3>2
    <3> HIDE DEF Is
    <3> QED
      BY <1>2, <3>3
  <2>3. T \subseteq 0 .. N
    OBVIOUS
  <2>4. N \in T
    <3> HIDE DEF T
    <3> QED
      BY <1>2, <2>1, <2>2, <2>3, UpTo
  <2> QED
    BY <2>4
<1>4. done[0] = first /\ \A n \in 1 .. N : done[n] = Step(done[n - 1])
  <2>1. Is(done, N)
    BY <1>3
  <2> HIDE DEF done
  <2> QED
    BY <1>2, <2>1
<1> HIDE DEF done
\* What it does up to each of the streams.
<1> DEFINE Handled(acc, c) == carries[c] \in existing \ acc.left
           Good(acc, n) ==
               /\ acc.left \subseteq existing /\ Cardinality(acc.left) = N - n
               /\ acc.from \in Nat
               /\ acc.used \subseteq Nat /\ IsFiniteSet(acc.used) /\ job[w].used \subseteq acc.used
               /\ acc.numbers \in [Channel -> Nat]
               /\ \A c \in Channel :
                     IF Handled(acc, c)
                     THEN /\ acc.numbers[c] \in acc.used \ job[w].used
                          /\ \A d \in Channel : Handled(acc, d) /\ carries[d] # carries[c]
                                => acc.numbers[d] # acc.numbers[c]
                     ELSE acc.numbers[c] = number[c]
<1>5. Good(first, 0)
  BY <1>2 DEF first, N, JobTyped
<1>6. ASSUME NEW n \in 1 .. N, NEW acc, Good(acc, n - 1)
      PROVE  Good(Step(acc), n)
  <2> DEFINE k == Min(acc.left)
             target == TargetNumber(k, acc.from, acc.used)
             next == Step(acc)
  <2>1. IsFiniteSet(acc.left) /\ acc.left # {} /\ acc.left \subseteq Stream
    BY <1>2, <1>6, FS_Subset, FS_EmptySet
  <2>2. k \in acc.left
    BY <2>1, MinIs DEF RefreshAssumption
  <2>3. target \in Nat \ acc.used
    BY <1>6, <2>1, <2>2, TargetFree
  <2>4. /\ next.left = acc.left \ {k} /\ next.from = acc.from + 1
        /\ next.used = acc.used \cup {target}
        /\ next.numbers = [c \in Channel |-> IF carries[c] = k THEN target ELSE acc.numbers[c]]
    BY DEF Step
  <2> HIDE DEF k, target, next
  <2>5. Cardinality(next.left) = N - n
    <3>1. Cardinality(acc.left) = N - (n - 1)
      BY <1>6
    <3>2. Cardinality(acc.left \ {k}) = Cardinality(acc.left) - 1
      BY <2>1, <2>2, FS_RemoveElement
    <3> QED
      BY <1>2, <2>4, <3>1, <3>2
  <2>6. IsFiniteSet(next.used)
    BY <1>6, <2>4, FS_AddElement
  <2>7. ASSUME NEW c \in Channel
        PROVE  IF Handled(next, c)
               THEN /\ next.numbers[c] \in next.used \ job[w].used
                    /\ \A d \in Channel : Handled(next, d) /\ carries[d] # carries[c]
                          => next.numbers[d] # next.numbers[c]
               ELSE next.numbers[c] = number[c]
    <3>1. \A d \in Channel : Handled(next, d) <=> Handled(acc, d) \/ carries[d] = k
      BY <1>6, <2>2, <2>4
    <3>2. \A d \in Channel : next.numbers[d] = IF carries[d] = k THEN target ELSE acc.numbers[d]
      BY <2>4
    <3>3. \A d \in Channel : carries[d] = k => ~Handled(acc, d)
      BY <2>2
    <3> QED
      BY <1>6, <2>3, <2>4, <3>1, <3>2, <3>3
  <2>8. Good(next, n)
    BY <1>6, <2>2, <2>3, <2>4, <2>5, <2>6, <2>7
  <2> QED
    BY <2>8 DEF next
<1>7. Good(done[N], N)
  <2> DEFINE T == {n \in 0 .. N : Good(done[n], n)}
  <2> HIDE DEF Good
  <2>1. 0 \in T
    BY <1>2, <1>4, <1>5
  <2>2. \A n \in 1 .. N : n - 1 \in T => n \in T
    BY <1>2, <1>4, <1>6
  <2>3. T \subseteq 0 .. N
    OBVIOUS
  <2>4. N \in T
    <3> HIDE DEF T
    <3> QED
      BY <1>2, <2>1, <2>2, <2>3, UpTo
  <2> QED
    BY <2>4
<1>8. done[N].left = {}
  BY <1>2, <1>7, FS_Subset, FS_EmptySet
<1> QED
  BY <1>1, <1>7, <1>8

-----------------------------------------------------------------------------
(* What a step does to the tasks.                                          *)

Elsewhere(w) == \A v \in Worker \ {w} : job'[v] = job[v]

\* A task goes to a label and keeps its locals.
Moved(w, l) ==
    /\ job'[w].pc = l /\ job'[w].full = job[w].full /\ job'[w].start = job[w].start
    /\ job'[w].data = job[w].data /\ job'[w].todo = job[w].todo
    /\ job'[w].picked = job[w].picked /\ job'[w].left = job[w].left
    /\ job'[w].group = job[w].group /\ job'[w].used = job[w].used

LEMMA SetJob ==
    ASSUME JobsTyped, NEW w \in Worker, NEW r, JobTyped(r), job' = [job EXCEPT ![w] = r]
    PROVE  JobsTyped' /\ Elsewhere(w) /\ job'[w] = r
  BY DEF JobsTyped, Elsewhere

LEMMA GoMoves ==
    ASSUME JobsTyped, NEW w \in Worker, NEW l \in Label, Go(w, l)
    PROVE  JobsTyped' /\ Elsewhere(w) /\ Moved(w, l)
<1>1. job' = [job EXCEPT ![w] = [job[w] EXCEPT !.pc = l]]
  BY DEF Go
<1>2. JobTyped([job[w] EXCEPT !.pc = l])
  BY DEF JobsTyped, JobTyped, Fields
<1> QED
  BY <1>1, <1>2, SetJob DEF Moved, JobsTyped, JobTyped, Fields

LEMMA ForgetMoves ==
    ASSUME JobsTyped, NEW w \in Worker, Forget(w)
    PROVE  JobsTyped' /\ Elsewhere(w) /\ job'[w].pc = "idle" /\ ~job'[w].full
<1>1. JobTyped(NoJob)
  BY FS_EmptySet DEF JobTyped, NoJob, Fields, Label
<1>2. JobsTyped' /\ Elsewhere(w) /\ job'[w] = NoJob
  BY <1>1, SetJob DEF Forget
<1> QED
  BY <1>2 DEF NoJob

LEMMA EndGroupsMoves ==
    ASSUME JobsTyped, NEW w \in Worker, EndGroups(w, "release")
    PROVE  /\ JobsTyped' /\ Elsewhere(w)
           /\ IF job[w].full THEN Moved(w, "release") ELSE job'[w].pc = "idle" /\ ~job'[w].full
<1>1. "release" \in Label
  BY DEF Label
<1> QED
  BY <1>1, GoMoves, ForgetMoves DEF EndGroups

-----------------------------------------------------------------------------
(* Steps beside the rows and channels of the refresh that runs.            *)

Quietly ==
    /\ seen' = seen /\ stale' = stale /\ carries' = carries /\ number' = number
    /\ scans' = scans /\ enabled' \subseteq Group /\ (cache' = None \/ cache' \subseteq Stream)
    /\ DOMAIN locks' = Lock /\ (locks["refresh"] \in Worker => locks'["refresh"] = locks["refresh"])
    /\ AsPlanned' => AsPlanned

\* They leave what is right about a task that takes no part in them.
LEMMA Aside ==
    ASSUME IInv, Quietly, NEW v \in Worker, job'[v] = job[v], Running(v)
    PROVE  Right(v)'
<1>1. Right(v)
  BY DEF IInv
<1>2. Holds(v)'
  BY <1>1 DEF Right, Holds, Quietly
<1>3. Rewritten(v)'
  BY <1>1 DEF Right, Rewritten, Quietly
<1>4. /\ \A k : ChannelsOf(k)' = ChannelsOf(k)
      /\ \A g : Current(v, g)' = Current(v, g)
      /\ \A g : Pending(v, g)' = Pending(v, g) /\ InGroup(v, g)' = InGroup(v, g)
  BY DEF ChannelsOf, Current, Rows, Pending, InGroup, Quietly
<1>5. Followed(v)'
  BY <1>1, <1>4 DEF Right, Followed, Quietly
<1>6. Settled(v)' = Settled(v)
  BY <1>4 DEF Settled, Quietly
<1>7. Numbered(v)'
  BY <1>1, <1>6 DEF Right, Numbered, Quietly
<1> QED
  BY <1>2, <1>3, <1>5, <1>7 DEF Right

LEMMA AsideInv == ASSUME IInv, Quietly, job' = job PROVE IInv'
<1>1. \A v \in Worker : Running(v)' => Right(v)'
  BY Aside DEF Running, At
<1> QED
  BY <1>1 DEF IInv, Typed, OneChannel, Kinds, Quietly, JobsTyped

LEMMA FullRuns == ASSUME IInv, NEW w \in Worker PROVE Running(w) <=> job[w].full
  BY DEF IInv, Kinds, Running, At, Typed, JobsTyped, JobTyped

\* They are those of tasks for the groups, of refreshes that have not got to the rows, and of
\* refreshes that give up.
Beside(w) ==
    /\ Quietly /\ JobsTyped' /\ Elsewhere(w)
    /\ \/ ~job'[w].full /\ job'[w].pc \in {"idle"} \cup Lone
       \/ /\ job[w].full /\ job'[w].full /\ job'[w].start = job[w].start
          /\ \/ job'[w].pc = "release"
             \/ job[w].pc \in Early /\ job'[w].pc \in Early

LEMMA BesideInv == ASSUME IInv, NEW w \in Worker, Beside(w) PROVE IInv'
<1>1. Typed'
  BY DEF IInv, Typed, Beside, Quietly
<1>2. OneChannel'
  BY DEF IInv, OneChannel, Beside, Quietly
<1>3. Kinds'
  BY DEF IInv, Kinds, Beside, Elsewhere, Early
<1>4. ASSUME NEW v \in Worker, Running(v)' PROVE Right(v)'
  <2>1. CASE v # w
    <3>1. job'[v] = job[v] /\ Running(v)
      BY <1>4, <2>1 DEF Beside, Elsewhere, Running, At
    <3> QED
      BY <3>1, Aside DEF Beside
  <2>2. CASE v = w
    <3>1. /\ job[w].full /\ job'[w].start = job[w].start
          /\ job'[w].pc = "release" \/ (job[w].pc \in Early /\ job'[w].pc \in Early)
      BY <1>4, <2>2 DEF Beside, Running
    <3>2. Right(w)
      BY <3>1, FullRuns DEF IInv
    <3>3. Holds(w)'
      BY <3>1, <3>2 DEF Right, Holds, Beside, Quietly
    <3>4. Rewritten(w)'
      BY <3>1, <3>2 DEF Right, Rewritten, Beside, Quietly, Early, Written, Cleaned, Syncing
    <3>5. Followed(w)' /\ Numbered(w)'
      BY <3>1 DEF Followed, Numbered, Early, Syncing
    <3> QED
      BY <2>2, <3>3, <3>4, <3>5 DEF Right
  <2> QED
    BY <2>1, <2>2
<1> QED
  BY <1>1, <1>2, <1>3, <1>4 DEF IInv

LEMMA AskForGroupsInv == ASSUME IInv, NEW w \in Worker, AskForGroups(w) PROVE IInv'
<1>1. JobsTyped /\ job[w].pc = "idle"
  BY DEF IInv, Typed, AskForGroups, At
<1>2. Quietly
  BY DEF IInv, Typed, Quietly, AsPlanned, rows, channels, AskForGroups
<1>3. JobsTyped' /\ Elsewhere(w) /\ Moved(w, "groups")
  <2>1. "groups" \in Label
    BY DEF Label, Early
  <2> QED
    BY <1>1, <2>1, GoMoves DEF AskForGroups
<1> QED
  BY <1>1, <1>2, <1>3, BesideInv DEF Beside, Moved, Lone, Early, IInv, Kinds

LEMMA LockGroupsInv == ASSUME IInv, NEW w \in Worker, LockGroups(w) PROVE IInv'
<1>1. JobsTyped /\ job[w].pc = "groups"
  BY DEF IInv, Typed, LockGroups, At
<1>2. Quietly
  <2>1. locks' = locks \/ locks' = [locks EXCEPT !["groups"] = w]
    BY DEF LockGroups, Acquire
  <2>2. DOMAIN locks' = Lock /\ locks'["refresh"] = locks["refresh"]
    BY <2>1 DEF IInv, Typed, Lock
  <2> QED
    BY <2>2 DEF IInv, Typed, Quietly, AsPlanned, rows, channels, LockGroups
<1>3. /\ JobsTyped' /\ Elsewhere(w)
      /\ \/ Moved(w, "fetch")
         \/ IF job[w].full THEN Moved(w, "release") ELSE job'[w].pc = "idle" /\ ~job'[w].full
  <2>1. "fetch" \in Label
    BY DEF Label, Early
  <2> QED
    BY <1>1, <2>1, GoMoves, EndGroupsMoves DEF LockGroups
<1> QED
  BY <1>1, <1>2, <1>3, BesideInv DEF Beside, Moved, Lone, Early, IInv, Kinds

LEMMA FetchLinesInv == ASSUME IInv, NEW w \in Worker, FetchLines(w) PROVE IInv'
<1>1. JobsTyped /\ job[w].pc = "fetch"
  BY DEF IInv, Typed, FetchLines, At
<1>2. PICK listed \in Listings :
          /\ job' = [job EXCEPT ![w] = [job[w] EXCEPT !.pc = "process", !.data = listed]]
          /\ cache' = listed
  BY DEF FetchLines
<1>3. listed \subseteq Stream
  BY DEF RefreshAssumption
<1>4. Quietly
  BY <1>2, <1>3 DEF IInv, Typed, Quietly, AsPlanned, rows, channels, FetchLines
<1>5. JobTyped([job[w] EXCEPT !.pc = "process", !.data = listed])
  BY <1>1, <1>3 DEF JobsTyped, JobTyped, Fields, Label, Early
<1>6. /\ JobsTyped' /\ Elsewhere(w)
      /\ job'[w].pc = "process" /\ job'[w].full = job[w].full /\ job'[w].start = job[w].start
  BY <1>1, <1>2, <1>5, SetJob DEF JobsTyped, JobTyped, Fields
<1> QED
  BY <1>1, <1>4, <1>6, BesideInv DEF Beside, Lone, Early, IInv, Kinds

LEMMA FetchCategoriesInv == ASSUME IInv, NEW w \in Worker, FetchCategories(w) PROVE IInv'
<1>1. JobsTyped /\ job[w].pc = "fetch"
  BY DEF IInv, Typed, FetchCategories, At
<1>2. Quietly
  BY DEF IInv, Typed, Quietly, AsPlanned, rows, channels, FetchCategories
<1>3. JobsTyped' /\ Elsewhere(w) /\ Moved(w, "process")
  <2>1. "process" \in Label
    BY DEF Label, Early
  <2> QED
    BY <1>1, <2>1, GoMoves DEF FetchCategories
<1> QED
  BY <1>1, <1>2, <1>3, BesideInv DEF Beside, Moved, Lone, Early, IInv, Kinds

LEMMA FetchFailsInv == ASSUME IInv, NEW w \in Worker, FetchFails(w) PROVE IInv'
<1>1. JobsTyped /\ job[w].pc = "fetch"
  BY DEF IInv, Typed, FetchFails, At
<1>2. Quietly
  BY DEF IInv, Typed, Quietly, AsPlanned, rows, channels, FetchFails, Release
<1>3. /\ JobsTyped' /\ Elsewhere(w)
      /\ IF job[w].full THEN Moved(w, "release") ELSE job'[w].pc = "idle" /\ ~job'[w].full
  BY <1>1, EndGroupsMoves DEF FetchFails
<1> QED
  BY <1>1, <1>2, <1>3, BesideInv DEF Beside, Moved, Lone, Early, IInv, Kinds

LEMMA ProcessGroupsInv == ASSUME IInv, NEW w \in Worker, ProcessGroups(w) PROVE IInv'
<1>1. JobsTyped /\ job[w].pc = "process"
  BY DEF IInv, Typed, ProcessGroups, At
<1>2. Quietly
  BY DEF IInv, Typed, Quietly, AsPlanned, rows, channels, ProcessGroups, Release,
     JobsTyped, JobTyped, RefreshAssumption
<1>3. JobsTyped' /\ Elsewhere(w) /\ Moved(w, "processed")
  <2>1. "processed" \in Label
    BY DEF Label, Early
  <2> QED
    BY <1>1, <2>1, GoMoves DEF ProcessGroups
<1> QED
  BY <1>1, <1>2, <1>3, BesideInv DEF Beside, Moved, Lone, Early, IInv, Kinds

LEMMA ProcessGroupsRaisesInv == ASSUME IInv, NEW w \in Worker, ProcessGroupsRaises(w) PROVE IInv'
<1>1. JobsTyped /\ job[w].pc = "process"
  BY DEF IInv, Typed, ProcessGroupsRaises, At
<1>2. Quietly
  BY DEF IInv, Typed, Quietly, AsPlanned, rows, channels, ProcessGroupsRaises
<1>3. /\ JobsTyped' /\ Elsewhere(w)
      /\ IF job[w].full THEN Moved(w, "release") ELSE job'[w].pc = "idle" /\ ~job'[w].full
  BY <1>1, EndGroupsMoves DEF ProcessGroupsRaises
<1> QED
  BY <1>1, <1>2, <1>3, BesideInv DEF Beside, Moved, Lone, Early, IInv, Kinds

LEMMA GroupsDoneInv == ASSUME IInv, NEW w \in Worker, GroupsDone(w) PROVE IInv'
<1>1. JobsTyped /\ job[w].pc = "processed"
  BY DEF IInv, Typed, GroupsDone, At
<1>2. Quietly
  BY DEF IInv, Typed, Quietly, AsPlanned, rows, channels, GroupsDone
<1>3. JobsTyped' /\ Elsewhere(w) /\ job'[w].pc = "idle" /\ ~job'[w].full
  BY <1>1, ForgetMoves DEF GroupsDone
<1> QED
  BY <1>1, <1>2, <1>3, BesideInv DEF Beside, Lone, Early, IInv, Kinds

LEMMA ReadCacheInv == ASSUME IInv, NEW w \in Worker, ReadCache(w) PROVE IInv'
<1>1. JobsTyped /\ job[w].pc = "cache" /\ job[w].full
  BY DEF IInv, Kinds, Lone, Typed, ReadCache, At
<1>2. Quietly
  BY DEF IInv, Typed, Quietly, AsPlanned, rows, channels, ReadCache
<1>3. CASE cache \in {None, {}}
  <2>1. "groups" \in Label
    BY DEF Label, Early
  <2>2. JobsTyped' /\ Elsewhere(w) /\ Moved(w, "groups")
    BY <1>1, <1>3, <2>1, GoMoves DEF ReadCache
  <2> QED
    BY <1>1, <1>2, <2>2, BesideInv DEF Beside, Moved, Early
<1>4. CASE cache \notin {None, {}}
  <2>1. job' = [job EXCEPT ![w] = [job[w] EXCEPT !.pc = "parse", !.data = cache]]
    BY <1>4 DEF ReadCache
  <2>2. JobTyped([job[w] EXCEPT !.pc = "parse", !.data = cache])
    BY <1>1, <1>4 DEF IInv, Typed, JobsTyped, JobTyped, Fields, Label, Early
  <2>3. /\ JobsTyped' /\ Elsewhere(w)
        /\ job'[w].pc = "parse" /\ job'[w].full = job[w].full /\ job'[w].start = job[w].start
    BY <1>1, <2>1, <2>2, SetJob DEF JobsTyped, JobTyped, Fields
  <2> QED
    BY <1>1, <1>2, <2>3, BesideInv DEF Beside, Early
<1> QED
  BY <1>3, <1>4

LEMMA CheckListedInv == ASSUME IInv, NEW w \in Worker, CheckListed(w) PROVE IInv'
<1>1. JobsTyped /\ job[w].pc = "processed" /\ job[w].full
  BY DEF IInv, Typed, CheckListed, At
<1>2. Quietly
  BY DEF IInv, Typed, Quietly, AsPlanned, rows, channels, CheckListed
<1>3. JobsTyped' /\ Elsewhere(w) /\ (Moved(w, "release") \/ Moved(w, "parse"))
  <2>1. "release" \in Label /\ "parse" \in Label
    BY DEF Label, Early
  <2> QED
    BY <1>1, <2>1, GoMoves DEF CheckListed
<1> QED
  BY <1>1, <1>2, <1>3, BesideInv DEF Beside, Moved, Early

LEMMA CleanupFailsInv == ASSUME IInv, NEW w \in Worker, CleanupFails(w) PROVE IInv'
<1>1. JobsTyped /\ job[w].full
  BY DEF IInv, Kinds, Lone, Typed, CleanupFails, At
<1>2. Quietly
  BY DEF IInv, Typed, Quietly, AsPlanned, rows, channels, CleanupFails
<1>3. JobsTyped' /\ Elsewhere(w) /\ Moved(w, "release")
  <2>1. "release" \in Label
    BY DEF Label
  <2> QED
    BY <1>1, <2>1, GoMoves DEF CleanupFails
<1> QED
  BY <1>1, <1>2, <1>3, BesideInv DEF Beside, Moved

LEMMA FinishInv == ASSUME IInv, NEW w \in Worker, Finish(w) PROVE IInv'
<1>1. JobsTyped /\ job[w].full
  BY DEF IInv, Kinds, Lone, Typed, Finish, At
<1>2. Quietly
  BY DEF IInv, Typed, Quietly, AsPlanned, rows, channels, Finish
<1>3. JobsTyped' /\ Elsewhere(w) /\ Moved(w, "release")
  <2>1. "release" \in Label
    BY DEF Label
  <2> QED
    BY <1>1, <2>1, GoMoves DEF Finish
<1> QED
  BY <1>1, <1>2, <1>3, BesideInv DEF Beside, Moved

\* What is neither of the tasks.
LEMMA ExpireInv == ASSUME IInv, NEW l \in Lock, Expire(l) PROVE IInv'
<1>1. Quietly /\ job' = job
  <2>1. locks' = [locks EXCEPT ![l] = None] /\ locks[l] = "dead"
    BY DEF Expire, Release
  <2>2. /\ DOMAIN locks' = Lock
        /\ locks["refresh"] \in Worker => locks'["refresh"] = locks["refresh"]
    BY <2>1 DEF IInv, Typed, RefreshAssumption
  <2> QED
    BY <2>2 DEF IInv, Typed, Quietly, AsPlanned, rows, channels, Expire
<1> QED
  BY <1>1, AsideInv

LEMMA ToggleGroupInv == ASSUME IInv, NEW g \in Group, ToggleGroup(g) PROVE IInv'
<1>1. Quietly /\ job' = job
  BY DEF IInv, Typed, Quietly, AsPlanned, channels, ToggleGroup
<1> QED
  BY <1>1, AsideInv

LEMMA DeactivateInv == ASSUME IInv, Deactivate PROVE IInv'
<1>1. Quietly /\ job' = job
  BY DEF IInv, Typed, Quietly, AsPlanned, rows, channels, Deactivate, GoesWrong
<1> QED
  BY <1>1, AsideInv

\* A worker that is killed takes its refresh with it, and leaves the lock.
LEMMA CrashInv == ASSUME IInv, NEW w \in Worker, Crash(w) PROVE IInv'
<1>1. JobsTyped' /\ Elsewhere(w) /\ job'[w].pc = "idle" /\ ~job'[w].full
  BY ForgetMoves DEF Crash, IInv, Typed
<1>2. /\ seen' = seen /\ stale' = stale /\ carries' = carries /\ number' = number
      /\ scans' = scans /\ enabled' = enabled /\ cache' = cache
      /\ locks' = [l \in Lock |-> IF locks[l] = w THEN "dead" ELSE locks[l]]
      /\ AsPlanned' => AsPlanned
  BY DEF Crash, rows, channels, AsPlanned, GoesWrong
<1>3. CASE locks["refresh"] = w
  <2>1. \A v \in Worker : ~job'[v].full
    BY <1>1, <1>3, FullRuns DEF IInv, Right, Holds, Elsewhere
  <2>2. Typed' /\ OneChannel' /\ Kinds'
    BY <1>1, <1>2 DEF IInv, Typed, OneChannel, Kinds, Elsewhere
  <2> QED
    BY <2>1, <2>2 DEF IInv, Running
<1>4. CASE locks["refresh"] # w
  <2>1. Quietly
    BY <1>2, <1>4 DEF Quietly, IInv, Typed, Lock
  <2> QED
    BY <1>1, <2>1, BesideInv DEF Beside
<1> QED
  BY <1>3, <1>4

-----------------------------------------------------------------------------
(* Steps of the refresh that runs, which no other refresh sees.            *)

\* Steps of a refresh, or its first.
LEMMA OwnInv ==
    ASSUME IInv, NEW w \in Worker, \A v \in Worker \ {w} : ~job[v].full,
           Elsewhere(w), Typed', OneChannel',
           IF job'[w].full THEN job'[w].pc # "idle" /\ Right(w)' ELSE job'[w].pc = "idle"
    PROVE  IInv'
<1>1. \A v \in Worker \ {w} : ~job'[v].full /\ ~Running(v)'
  BY DEF Elsewhere, Running
<1>2. Kinds'
  BY <1>1 DEF IInv, Kinds, Elsewhere
<1> QED
  BY <1>1, <1>2 DEF IInv, Running

LEMMA RunsAlone ==
    ASSUME IInv, NEW w \in Worker, job[w].full
    PROVE  Right(w) /\ \A v \in Worker \ {w} : ~job[v].full
<1>1. \A v \in Worker : job[v].full => locks["refresh"] = v /\ Right(v)
  BY FullRuns DEF IInv, Right, Holds
<1> QED
  BY <1>1

LEMMA StartRefreshInv == ASSUME IInv, NEW w \in Worker, StartRefresh(w) PROVE IInv'
<1> DEFINE r == [NoJob EXCEPT !.pc = "cache", !.full = TRUE, !.start = scans + 1]
<1>1. /\ locks["refresh"] = None /\ locks' = [locks EXCEPT !["refresh"] = w]
      /\ scans' = scans + 1 /\ job' = [job EXCEPT ![w] = r]
      /\ UNCHANGED <<given, seen, stale, groupSeen, staleGroup, enabled, carries, number, cache>>
  BY DEF StartRefresh, Acquire, rows, channels
<1>2. JobTyped(r) /\ r.pc = "cache" /\ r.full /\ r.start = scans + 1
  BY FS_EmptySet DEF NoJob, JobTyped, Fields, Label, Early
<1> HIDE DEF r
<1>3. /\ JobsTyped' /\ Elsewhere(w)
      /\ job'[w].pc = "cache" /\ job'[w].full /\ job'[w].start = scans + 1
  BY <1>1, <1>2, SetJob DEF IInv, Typed
<1>4. \A v \in Worker : ~job[v].full
  BY <1>1, FullRuns DEF IInv, Right, Holds, RefreshAssumption
<1>5. Typed' /\ OneChannel'
  BY <1>1, <1>3 DEF IInv, Typed, OneChannel, Lock
<1>6. Right(w)'
  <2>1. Holds(w)'
    BY <1>1, <1>3 DEF Holds, IInv, Typed, Lock
  <2>2. Rewritten(w)'
    BY <1>1, <1>3 DEF Rewritten, IInv, Typed, Written, Cleaned, Syncing
  <2>3. Followed(w)' /\ Numbered(w)'
    BY <1>3 DEF Followed, Numbered, Syncing
  <2> QED
    BY <2>1, <2>2, <2>3 DEF Right
<1> QED
  BY <1>3, <1>4, <1>5, <1>6, OwnInv

LEMMA EndRefreshInv == ASSUME IInv, NEW w \in Worker, EndRefresh(w) PROVE IInv'
<1>1. job[w].full /\ JobsTyped
  BY DEF IInv, Typed, Kinds, Lone, EndRefresh, At
<1>2. /\ JobsTyped' /\ Elsewhere(w) /\ job'[w].pc = "idle" /\ ~job'[w].full
      /\ locks' = [locks EXCEPT !["refresh"] = None]
      /\ UNCHANGED <<scans, seen, stale, enabled, carries, number, cache>>
  BY <1>1, ForgetMoves DEF EndRefresh, Release, rows, channels
<1>3. Typed' /\ OneChannel'
  BY <1>2 DEF IInv, Typed, OneChannel
<1> QED
  BY <1>1, <1>2, <1>3, RunsAlone, OwnInv

\* The batches are laid out: nothing of them is written yet.
LEMMA ParseInv ==
    ASSUME IInv, NEW w \in Worker, NEW entries, entries \subseteq Stream, Parse(w, entries),
           AsPlanned' => AsPlanned
    PROVE  IInv'
<1> DEFINE r == [job[w] EXCEPT !.pc = "batches", !.picked = enabled, !.data = entries,
                               !.todo = entries]
<1>1. job[w].full /\ job[w].pc = "parse" /\ JobTyped(job[w])
  BY DEF IInv, Typed, JobsTyped, Kinds, Lone, Parse, At
<1>2. job' = [job EXCEPT ![w] = r] /\ UNCHANGED <<scans, locks, rows, channels, cache>>
  BY DEF Parse
<1>3. /\ JobTyped(r) /\ r.pc = "batches" /\ r.full = job[w].full /\ r.start = job[w].start
      /\ r.data = entries /\ r.todo = entries
  BY <1>1 DEF IInv, Typed, JobTyped, Fields, Label
<1> HIDE DEF r
<1>4. JobsTyped' /\ Elsewhere(w) /\ job'[w] = r
  BY <1>2, <1>3, SetJob DEF IInv, Typed
<1>5. Typed' /\ OneChannel'
  BY <1>2, <1>4 DEF IInv, Typed, OneChannel, rows, channels
<1>6. Right(w) /\ \A v \in Worker \ {w} : ~job[v].full
  BY <1>1, RunsAlone
<1>7. Holds(w)' /\ Rewritten(w)'
  BY <1>1, <1>2, <1>3, <1>4, <1>6 DEF Right, Holds, Rewritten, Early, Written, Cleaned, Syncing,
     rows
<1>8. Followed(w)' /\ Numbered(w)'
  BY <1>3, <1>4 DEF Followed, Numbered, Syncing
<1> QED
  BY <1>1, <1>3, <1>4, <1>5, <1>6, <1>7, <1>8, OwnInv DEF Right

LEMMA ParseEntriesInv == ASSUME IInv, NEW w \in Worker, ParseEntries(w) PROVE IInv'
  BY ParseInv DEF ParseEntries, IInv, Typed, JobsTyped, JobTyped, AsPlanned

LEMMA CollectXcStreamsInv == ASSUME IInv, NEW w \in Worker, CollectXcStreams(w) PROVE IInv'
<1>1. CASE Parse(w, {}) /\ GoesWrong("outage")
  BY <1>1, ParseInv DEF GoesWrong, AsPlanned
<1>2. ASSUME NEW listed \in Listings, Parse(w, {k \in listed : GroupOf[k] \in enabled}),
             UNCHANGED trouble
      PROVE  IInv'
  <2>1. {k \in listed : GroupOf[k] \in enabled} \subseteq Stream
    BY DEF RefreshAssumption
  <2> QED
    BY <1>2, <2>1, ParseInv DEF AsPlanned
<1> QED
  BY <1>1, <1>2 DEF CollectXcStreams

LEMMA WriteBatchInv == ASSUME IInv, NEW w \in Worker, WriteBatch(w) PROVE IInv'
<1>1. PICK k \in job[w].todo :
          /\ job[w].pc = "batches"
          /\ \/ /\ GroupOf[k] \in job[w].picked /\ UNCHANGED trouble
                /\ seen' = [seen EXCEPT ![k] = job[w].start] /\ stale' = stale \ {k}
             \/ GroupOf[k] \notin job[w].picked /\ UNCHANGED <<seen, stale, trouble>>
             \/ GoesWrong("batch") /\ UNCHANGED <<seen, stale>>
          /\ job' = [job EXCEPT ![w] = [job[w] EXCEPT !.todo = @ \ {k}]]
          /\ UNCHANGED <<scans, locks, enabled, carries, number, cache>>
  BY DEF WriteBatch, SeenAt, At, channels
<1> DEFINE r == [job[w] EXCEPT !.todo = @ \ {k}]
<1>2. /\ job[w].full /\ JobTyped(job[w]) /\ k \in Stream
      /\ Right(w) /\ \A v \in Worker \ {w} : ~job[v].full
  BY <1>1, RunsAlone DEF IInv, Typed, JobsTyped, JobTyped, Kinds, Lone
<1>3. /\ JobTyped(r) /\ r.pc = "batches" /\ r.full = job[w].full /\ r.start = job[w].start
      /\ r.data = job[w].data /\ r.todo = job[w].todo \ {k} /\ r.picked = job[w].picked
  BY <1>1, <1>2 DEF JobTyped, Fields
<1>4. job' = [job EXCEPT ![w] = r]
  BY <1>1
<1> HIDE DEF r
<1>5. JobsTyped' /\ Elsewhere(w) /\ job'[w] = r
  BY <1>3, <1>4, SetJob DEF IInv, Typed
<1>6. job[w].start = scans
  BY <1>2 DEF Right, Holds
<1>7. Typed' /\ OneChannel'
  <2>1. seen' \in [Stream -> Nat] /\ \A i \in Stream : seen'[i] <= scans
    BY <1>1, <1>2, <1>6 DEF IInv, Typed
  <2> QED
    BY <1>1, <1>5, <2>1 DEF IInv, Typed, OneChannel
<1>8. Holds(w)'
  BY <1>1, <1>2, <1>3, <1>5 DEF Right, Holds
<1>9. Rewritten(w)'
  <2>1. SUFFICES ASSUME AsPlanned', NEW i \in Stream
                 PROVE  IF i \in r.data \ r.todo /\ GroupOf[i] \in r.picked
                        THEN seen'[i] = r.start /\ i \notin stale'
                        ELSE seen'[i] < r.start
    <3>1. r.todo \subseteq r.data
      BY <1>1, <1>2, <1>3 DEF Right, Rewritten
    <3> QED
      BY <1>3, <1>5, <3>1 DEF Rewritten, Early, Written, Cleaned, Syncing
  <2>2. AsPlanned /\ ~GoesWrong("batch")
    BY <1>1, <2>1 DEF AsPlanned, GoesWrong
  <2>3. IF i \in job[w].data \ job[w].todo /\ GroupOf[i] \in job[w].picked
        THEN seen[i] = job[w].start /\ i \notin stale ELSE seen[i] < job[w].start
    BY <1>1, <1>2, <2>2 DEF Right, Rewritten
  <2>4. k \in job[w].data
    BY <1>1, <1>2 DEF Right, Rewritten
  <2> QED
    BY <1>1, <1>2, <1>3, <2>2, <2>3, <2>4 DEF IInv, Typed
<1>10. Followed(w)' /\ Numbered(w)'
  BY <1>3, <1>5 DEF Followed, Numbered, Syncing
<1> QED
  BY <1>2, <1>3, <1>5, <1>7, <1>8, <1>9, <1>10, OwnInv DEF Right

LEMMA MarkStaleInv == ASSUME IInv, NEW w \in Worker, MarkStale(w) PROVE IInv'
<1>1. /\ job[w].pc = "batches" /\ job[w].todo = {}
      /\ stale' = stale \cup {k \in Stream : seen[k] # 0 /\ seen[k] < job[w].start}
      /\ UNCHANGED <<seen, scans, locks, enabled, carries, number, cache, trouble>>
  BY DEF MarkStale, At, channels, Rows
<1>2. /\ job[w].full /\ Right(w) /\ \A v \in Worker \ {w} : ~job[v].full
  BY <1>1, RunsAlone DEF IInv, Typed, Kinds, Lone
<1>3. JobsTyped' /\ Elsewhere(w) /\ Moved(w, "streams")
  <2>1. "streams" \in Label
    BY DEF Label, Written
  <2> QED
    BY <2>1, GoMoves DEF IInv, Typed, MarkStale
<1>4. Typed' /\ OneChannel'
  BY <1>1, <1>3 DEF IInv, Typed, OneChannel
<1>5. Holds(w)'
  BY <1>1, <1>2, <1>3 DEF Right, Holds, Moved
<1>6. Rewritten(w)'
  BY <1>1, <1>2, <1>3 DEF Right, Rewritten, Moved, Early, Written, Cleaned, Syncing, AsPlanned,
     IInv, Typed
<1>7. Followed(w)' /\ Numbered(w)'
  BY <1>3 DEF Followed, Numbered, Moved, Syncing
<1> QED
  BY <1>2, <1>3, <1>4, <1>5, <1>6, <1>7, OwnInv DEF Right, Moved

LEMMA CleanupStreamsInv == ASSUME IInv, NEW w \in Worker, CleanupStreams(w) PROVE IInv'
<1> DEFINE dead == {k \in Rows : \/ GroupOf[k] \notin enabled
                                 \/ seen[k] < job[w].start - Retention}
           r == [job[w] EXCEPT !.pc = "relations", !.picked = @ \cap enabled]
<1>1. /\ job[w].pc = "streams"
      /\ seen' = [k \in Stream |-> IF k \in dead THEN 0 ELSE seen[k]] /\ stale' = stale \ dead
      /\ carries' = [c \in Channel |-> IF carries[c] \in dead THEN Gone ELSE carries[c]]
      /\ job' = [job EXCEPT ![w] = r]
      /\ UNCHANGED <<scans, locks, enabled, number, cache, trouble>>
  BY DEF CleanupStreams, At
<1>2. /\ job[w].full /\ JobTyped(job[w])
      /\ Right(w) /\ \A v \in Worker \ {w} : ~job[v].full
  BY <1>1, RunsAlone DEF IInv, Typed, JobsTyped, Kinds, Lone
<1>3. /\ JobTyped(r) /\ r.pc = "relations" /\ r.full = job[w].full /\ r.start = job[w].start
      /\ r.data = job[w].data /\ r.picked = job[w].picked \cap enabled
  BY <1>2 DEF JobTyped, Fields, Label, Written, Cleaned
<1> HIDE DEF r
<1>4. JobsTyped' /\ Elsewhere(w) /\ job'[w] = r
  BY <1>1, <1>3, SetJob DEF IInv, Typed
<1>5. Typed' /\ OneChannel'
  <2>1. \A k \in Stream : k # Absent /\ k # Gone
    BY DEF RefreshAssumption, Absent, Gone
  <2>2. \A c \in Channel : carries'[c] \in {carries[c], Gone}
    BY <1>1
  <2>3. OneChannel'
    BY <2>1, <2>2 DEF IInv, OneChannel
  <2>4. carries' \in [Channel -> Stream \cup {Absent, Gone}]
    BY <1>1 DEF IInv, Typed
  <2>5. seen' \in [Stream -> Nat] /\ \A k \in Stream : seen'[k] <= scans
    BY <1>1 DEF IInv, Typed
  <2> QED
    BY <1>1, <1>4, <2>3, <2>4, <2>5 DEF IInv, Typed
<1>6. Holds(w)'
  BY <1>1, <1>2, <1>3, <1>4 DEF Right, Holds
<1>7. Rewritten(w)'
  <2>1. SUFFICES ASSUME AsPlanned', NEW k \in Stream, GroupOf[k] \in r.picked
                 PROVE  /\ IF k \in r.data THEN seen'[k] = r.start /\ k \notin stale'
                           ELSE seen'[k] < r.start /\ (seen'[k] # 0 => k \in stale')
                        /\ seen'[k] # 0 => seen'[k] >= r.start - Retention
    BY <1>3, <1>4 DEF Rewritten, Early, Written, Cleaned, Syncing
  <2>2. IF k \in job[w].data THEN seen[k] = job[w].start /\ k \notin stale
        ELSE seen[k] < job[w].start /\ (seen[k] # 0 => k \in stale)
    BY <1>1, <1>2, <1>3, <2>1 DEF Right, Rewritten, AsPlanned, Written
  <2>3. k \in dead <=> seen[k] # 0 /\ seen[k] < job[w].start - Retention
    BY <1>3, <2>1 DEF Rows
  <2>4. seen'[k] = IF k \in dead THEN 0 ELSE seen[k]
    BY <1>1
  <2>5. stale' = stale \ dead
    BY <1>1
  <2>6. seen[k] \in Nat /\ job[w].start \in Nat \ {0} /\ Retention \in Nat
    BY <1>2 DEF IInv, Typed, Right, Holds, RefreshAssumption
  <2> HIDE DEF dead
  <2> QED
    BY <1>3, <2>2, <2>3, <2>4, <2>5, <2>6
<1>8. Followed(w)' /\ Numbered(w)'
  BY <1>3, <1>4 DEF Followed, Numbered, Syncing
<1> QED
  BY <1>2, <1>3, <1>4, <1>5, <1>6, <1>7, <1>8, OwnInv DEF Right

LEMMA CleanupGroupsInv == ASSUME IInv, NEW w \in Worker, CleanupGroups(w) PROVE IInv'
<1>1. /\ job[w].pc = "relations" /\ enabled' \subseteq enabled
      /\ UNCHANGED <<seen, stale, scans, locks, carries, number, cache, trouble>>
  BY DEF CleanupGroups, At, channels
<1>2. /\ job[w].full /\ Right(w) /\ \A v \in Worker \ {w} : ~job[v].full
  BY <1>1, RunsAlone DEF IInv, Typed, Kinds, Lone
<1>3. JobsTyped' /\ Elsewhere(w) /\ Moved(w, "sync")
  <2>1. "sync" \in Label
    BY DEF Label, Written, Cleaned
  <2> QED
    BY <2>1, GoMoves DEF IInv, Typed, CleanupGroups
<1>4. Typed' /\ OneChannel'
  BY <1>1, <1>3 DEF IInv, Typed, OneChannel
<1>5. Holds(w)'
  BY <1>1, <1>2, <1>3 DEF Right, Holds, Moved
<1>6. Rewritten(w)'
  BY <1>1, <1>2, <1>3 DEF Right, Rewritten, Moved, Early, Written, Cleaned, Syncing, AsPlanned
<1>7. Followed(w)' /\ Numbered(w)'
  BY <1>3 DEF Followed, Numbered, Moved, Syncing
<1> QED
  BY <1>2, <1>3, <1>4, <1>5, <1>6, <1>7, OwnInv DEF Right, Moved

LEMMA StartSyncInv == ASSUME IInv, NEW w \in Worker, StartSync(w) PROVE IInv'
<1> DEFINE r == [job[w] EXCEPT !.pc = "groups_left", !.used = Manual, !.left = enabled,
                               !.picked = @ \cap enabled]
<1>1. /\ job[w].pc = "sync" /\ job' = [job EXCEPT ![w] = r]
      /\ UNCHANGED <<seen, stale, scans, locks, enabled, carries, number, cache, trouble>>
  BY DEF StartSync, At, rows, channels
<1>2. /\ job[w].full /\ JobTyped(job[w])
      /\ Right(w) /\ \A v \in Worker \ {w} : ~job[v].full
  BY <1>1, RunsAlone DEF IInv, Typed, JobsTyped, Kinds, Lone
<1>3. /\ JobTyped(r) /\ r.pc = "groups_left" /\ r.full = job[w].full /\ r.start = job[w].start
      /\ r.data = job[w].data /\ r.picked = job[w].picked \cap enabled
      /\ r.left = enabled /\ r.used = Manual
  BY <1>2 DEF IInv, Typed, JobTyped, Fields, Label, Written, Cleaned, Syncing, RefreshAssumption
<1> HIDE DEF r
<1>4. JobsTyped' /\ Elsewhere(w) /\ job'[w] = r
  BY <1>1, <1>3, SetJob DEF IInv, Typed
<1>5. Typed' /\ OneChannel'
  BY <1>1, <1>4 DEF IInv, Typed, OneChannel
<1>6. Holds(w)' /\ Rewritten(w)'
  BY <1>1, <1>2, <1>3, <1>4 DEF Right, Holds, Rewritten, Early, Written, Cleaned, Syncing, AsPlanned
<1>7. Followed(w)'
  BY <1>3, <1>4 DEF Followed, Pending
<1>8. Numbered(w)'
  <2>1. Settled(w)' = {}
    BY <1>3, <1>4 DEF Settled
  <2> QED
    BY <1>3, <1>4, <2>1 DEF Numbered
<1> QED
  BY <1>2, <1>3, <1>4, <1>5, <1>6, <1>7, <1>8, OwnInv DEF Right

-----------------------------------------------------------------------------
(* Steps of the channels.                                                  *)

LEMMA Deleted ==
    ASSUME IInv, NEW dead, Delete(dead)
    PROVE  /\ carries' \in [Channel -> Stream \cup {Absent, Gone}] /\ number' \in [Channel -> Nat]
           /\ OneChannel'
           /\ \A c \in Channel : IF c \in dead THEN carries'[c] = Absent
                                 ELSE carries'[c] = carries[c] /\ number'[c] = number[c]
           /\ Absent \notin Stream /\ Gone \notin Stream
<1>1. Absent \notin Stream /\ Gone \notin Stream
  BY DEF RefreshAssumption, Absent, Gone
<1>2. \A c \in Channel : IF c \in dead THEN carries'[c] = Absent
                         ELSE carries'[c] = carries[c] /\ number'[c] = number[c]
  BY DEF Delete
<1>3. carries' \in [Channel -> Stream \cup {Absent, Gone}] /\ number' \in [Channel -> Nat]
  BY DEF Delete, IInv, Typed
<1> QED
  BY <1>1, <1>2, <1>3 DEF IInv, OneChannel

\* The streams of a group that the refresh has seen are those that it was listed.
LEMMA CurrentListed ==
    ASSUME IInv, NEW w \in Worker, job[w].full, job[w].pc \in Syncing, AsPlanned,
           NEW k \in Stream, GroupOf[k] \in job[w].picked
    PROVE  k \in Current(w, GroupOf[k]) <=> k \in job[w].data
<1>1. Right(w)
  BY RunsAlone
<1>2. IF k \in job[w].data THEN seen[k] = job[w].start ELSE seen[k] < job[w].start
  BY <1>1 DEF Right, Rewritten, Written, Cleaned
<1>3. seen[k] \in Nat /\ job[w].start \in Nat \ {0}
  BY <1>1 DEF Right, Holds, IInv, Typed
<1> QED
  BY <1>2, <1>3 DEF Current, Rows

\* What a step of the channels leaves alone.
Elsewise(w) ==
    /\ seen' = seen /\ stale' = stale /\ scans' = scans /\ locks' = locks /\ enabled' = enabled
    /\ cache' = cache /\ trouble' = trouble /\ given' = given
    /\ job[w].full /\ job[w].pc \in Syncing
    /\ job'[w].full /\ job'[w].pc \in Syncing /\ job'[w].start = job[w].start
    /\ job'[w].data = job[w].data /\ job'[w].picked = job[w].picked
    /\ JobsTyped' /\ Elsewhere(w)

LEMMA ElsewiseInv ==
    ASSUME IInv, NEW w \in Worker, Elsewise(w), OneChannel',
           carries' \in [Channel -> Stream \cup {Absent, Gone}], number' \in [Channel -> Nat],
           Followed(w)', Numbered(w)'
    PROVE  IInv'
<1>1. Right(w) /\ \A v \in Worker \ {w} : ~job[v].full
  BY RunsAlone DEF Elsewise
<1>2. Typed'
  BY DEF IInv, Typed, Elsewise
<1>3. Holds(w)'
  BY <1>1 DEF Right, Holds, Elsewise
<1>4. Rewritten(w)'
  BY <1>1 DEF Right, Rewritten, Elsewise, Early, Syncing, Written, Cleaned, AsPlanned
<1> QED
  BY <1>1, <1>2, <1>3, <1>4, OwnInv DEF Right, Elsewise, Syncing

LEMMA SyncGroupInv == ASSUME IInv, NEW w \in Worker, SyncGroup(w) PROVE IInv'
<1>1. PICK g \in job[w].left :
        LET existing == Current(w, g) \cap {carries[c] : c \in Channel}
            renumbered == Renumber(w, existing) IN
        /\ job[w].pc = "groups_left"
        /\ IF Current(w, g) = {}
           THEN Delete(GroupChannels(g)) /\ job' = [job EXCEPT ![w].left = @ \ {g}]
           ELSE /\ number' = renumbered.numbers /\ UNCHANGED carries
                /\ job' = [job EXCEPT ![w].pc = "streams_left", ![w].left = @ \ {g},
                                      ![w].group = g, ![w].next = 1,
                                      ![w].used = renumbered.used, ![w].todo = Current(w, g)]
        /\ UNCHANGED <<given, rows, cache, status, locks, scans, trouble>>
  BY DEF SyncGroup, At
<1>2. /\ job[w].full /\ JobTyped(job[w]) /\ g \in Group /\ Right(w)
  BY <1>1, RunsAlone DEF IInv, Typed, JobsTyped, JobTyped, Kinds, Lone
<1>3. /\ Manual \subseteq job[w].used
      /\ \A c \in Settled(w) : /\ number[c] \in job[w].used \ Manual
                               /\ \A d \in Settled(w) \ {c} : number[d] # number[c]
  BY <1>1, <1>2 DEF Right, Numbered, Syncing
<1>4. AsPlanned => \A k \in Stream : GroupOf[k] \in job[w].picked \ job[w].left =>
                      (ChannelsOf(k) # {} <=> k \in job[w].data)
  BY <1>1, <1>2 DEF Right, Followed, Syncing, Pending, InGroup
<1>5. UNCHANGED <<given, seen, stale, enabled, cache, locks, scans, trouble>>
  BY <1>1 DEF rows
<1>6. CASE Current(w, g) = {}
  <2> DEFINE r == [job[w] EXCEPT !.left = @ \ {g}]
  <2>1. Delete(GroupChannels(g)) /\ job' = [job EXCEPT ![w] = r]
    BY <1>1, <1>6
  <2>2. /\ JobTyped(r) /\ r.pc = "groups_left" /\ r.full = job[w].full /\ r.start = job[w].start
        /\ r.data = job[w].data /\ r.picked = job[w].picked
        /\ r.left = job[w].left \ {g} /\ r.used = job[w].used
    BY <1>1, <1>2 DEF JobTyped, Fields
  <2> HIDE DEF r
  <2>3. JobsTyped' /\ Elsewhere(w) /\ job'[w] = r
    BY <2>1, <2>2, SetJob DEF IInv, Typed
  <2>4. /\ carries' \in [Channel -> Stream \cup {Absent, Gone}] /\ number' \in [Channel -> Nat]
        /\ OneChannel' /\ Absent \notin Stream
        /\ \A c \in Channel : IF c \in GroupChannels(g) THEN carries'[c] = Absent
                              ELSE carries'[c] = carries[c] /\ number'[c] = number[c]
    BY <2>1, Deleted
  <2>5. Elsewise(w)
    BY <1>1, <1>2, <1>5, <2>2, <2>3 DEF Elsewise, Syncing
  <2>6. Followed(w)'
    <3>1. SUFFICES ASSUME AsPlanned', NEW k \in Stream, GroupOf[k] \in job[w].picked,
                          GroupOf[k] \notin job[w].left \ {g}
                   PROVE  ChannelsOf(k)' # {} <=> k \in job[w].data
      BY <2>2, <2>3 DEF Followed, Pending
    <3>2. AsPlanned
      BY <1>5, <3>1 DEF AsPlanned
    <3>3. CASE GroupOf[k] = g
      <4>1. k \notin job[w].data
        BY <1>1, <1>2, <1>6, <3>1, <3>2, <3>3, CurrentListed DEF Syncing
      <4>2. \A c \in Channel : carries'[c] # k
        BY <2>4, <3>3 DEF GroupChannels
      <4> QED
        BY <4>1, <4>2 DEF ChannelsOf
    <3>4. CASE GroupOf[k] # g
      <4>1. \A c \in Channel : carries'[c] = k <=> carries[c] = k
        BY <2>4, <3>4 DEF GroupChannels
      <4>2. ChannelsOf(k)' = ChannelsOf(k)
        BY <4>1 DEF ChannelsOf
      <4> QED
        BY <1>4, <3>1, <3>2, <3>4, <4>2
    <3> QED
      BY <3>3, <3>4
  <2>7. Numbered(w)'
    <3>1. \A c \in Settled(w)' : c \in Settled(w) /\ number'[c] = number[c]
      BY <1>1, <2>2, <2>3, <2>4 DEF Settled, GroupChannels, InGroup
    <3> QED
      BY <1>3, <2>2, <2>3, <3>1 DEF Numbered
  <2> QED
    BY <2>4, <2>5, <2>6, <2>7, ElsewiseInv
<1>7. CASE Current(w, g) # {}
  <2> DEFINE existing == Current(w, g) \cap {carries[c] : c \in Channel}
             done == Renumber(w, existing)
             r == [job[w] EXCEPT !.pc = "streams_left", !.left = @ \ {g}, !.group = g, !.next = 1,
                                 !.used = done.used, !.todo = Current(w, g)]
  <2>1. number' = done.numbers /\ UNCHANGED carries /\ job' = [job EXCEPT ![w] = r]
    <3>1. w \in DOMAIN job
      BY DEF IInv, Typed, JobsTyped
    <3> HIDE DEF existing, done
    <3>2. number' = done.numbers /\ UNCHANGED carries
      BY <1>1, <1>7 DEF existing, done
    <3>3. job' = [job EXCEPT ![w].pc = "streams_left", ![w].left = @ \ {g}, ![w].group = g,
                             ![w].next = 1, ![w].used = done.used, ![w].todo = Current(w, g)]
      BY <1>1, <1>7 DEF existing, done
    <3> QED
      BY <3>1, <3>2, <3>3
  <2>2. existing \subseteq Stream /\ Current(w, g) \subseteq Stream
    BY DEF Current, Rows
  <2>3. \A c \in Channel : carries[c] \in existing <=> carries[c] \in Current(w, g)
    OBVIOUS
  <2> HIDE DEF existing
  <2>4. /\ done.used \subseteq Nat /\ IsFiniteSet(done.used) /\ job[w].used \subseteq done.used
        /\ done.numbers \in [Channel -> Nat]
        /\ \A c \in Channel :
              IF carries[c] \in existing
              THEN /\ done.numbers[c] \in done.used \ job[w].used
                   /\ \A d \in Channel : carries[d] \in existing /\ carries[d] # carries[c]
                         => done.numbers[d] # done.numbers[c]
              ELSE done.numbers[c] = number[c]
    <3>1. number \in [Channel -> Nat]
      BY DEF IInv, Typed
    <3> QED
      BY <1>2, <2>2, <3>1, Renumbered
  <2> HIDE DEF done
  <2>5. /\ JobTyped(r) /\ r.pc = "streams_left" /\ r.full = job[w].full /\ r.start = job[w].start
        /\ r.data = job[w].data /\ r.picked = job[w].picked /\ r.left = job[w].left \ {g}
        /\ r.group = g /\ r.used = done.used /\ r.todo = Current(w, g)
    BY <1>2, <2>2, <2>4 DEF JobTyped, Fields, Label, Written, Cleaned, Syncing
  <2> HIDE DEF r
  <2>6. JobsTyped' /\ Elsewhere(w) /\ job'[w] = r
    BY <2>1, <2>5, SetJob DEF IInv, Typed
  <2>7. Elsewise(w)
    BY <1>1, <1>2, <1>5, <2>5, <2>6 DEF Elsewise, Syncing
  <2>8. Current(w, g)' = Current(w, g)
    BY <2>7 DEF Elsewise, Current, Rows
  <2>9. Followed(w)'
    <3>1. \A k : ChannelsOf(k)' = ChannelsOf(k)
      BY <2>1 DEF ChannelsOf
    <3>2. AsPlanned' => AsPlanned
      BY <1>5 DEF AsPlanned
    <3> QED
      BY <1>2, <1>4, <2>5, <2>6, <2>8, <3>1, <3>2 DEF Followed, Pending, InGroup
  <2>10. \A c \in Settled(w)' : c \in Channel /\ (c \in Settled(w) \/ carries[c] \in existing)
    BY <1>1, <2>1, <2>3, <2>5, <2>6, <2>8, ZenonT(60) DEF Settled, InGroup
  <2>11. \A c \in Settled(w) : c \in Channel /\ carries[c] \notin existing
    BY <1>1, <2>3 DEF Settled, Current
  <2>12. Numbered(w)'
    <3>1. SUFFICES ASSUME NEW c \in Settled(w)'
                   PROVE  /\ number'[c] \in done.used \ Manual
                          /\ \A d \in Settled(w)' \ {c} : number'[d] # number'[c]
      BY <1>3, <2>4, <2>5, <2>6 DEF Numbered
    <3>2. number'[c] \in done.used \ Manual
      BY <1>3, <2>1, <2>4, <2>10, <2>11, <3>1
    <3>3. ASSUME NEW d \in Settled(w)', d # c PROVE number'[d] # number'[c]
      <4>1. CASE carries[c] \in existing /\ carries[d] \in existing
        <5>1. carries[c] # carries[d]
          BY <2>2, <2>10, <3>1, <3>3, <4>1 DEF IInv, OneChannel
        <5> QED
          BY <2>1, <2>4, <2>10, <3>1, <3>3, <4>1, <5>1
      <4>2. CASE carries[c] \notin existing
        BY <1>3, <2>1, <2>4, <2>10, <2>11, <3>1, <3>3, <4>2
      <4>3. CASE carries[d] \notin existing
        BY <1>3, <2>1, <2>4, <2>10, <2>11, <3>1, <3>3, <4>3
      <4> QED
        BY <4>1, <4>2, <4>3
    <3> QED
      BY <3>2, <3>3
  <2>13. /\ number' \in [Channel -> Nat] /\ carries' \in [Channel -> Stream \cup {Absent, Gone}]
         /\ OneChannel'
    BY <2>1, <2>4 DEF IInv, Typed, OneChannel
  <2> QED
    BY <2>7, <2>9, <2>12, <2>13, ElsewiseInv
<1> QED
  BY <1>6, <1>7

LEMMA SyncStreamInv == ASSUME IInv, NEW w \in Worker, SyncStream(w) PROVE IInv'
<1>k. PICK k : k = Min(job[w].todo)
  OBVIOUS
<1>1. /\ job[w].pc = "streams_left" /\ job[w].todo # {}
      /\ UpdateChannel(w, k) \/ CreateChannel(w, k)
      /\ UNCHANGED <<given, seen, stale, enabled, cache, locks, scans, trouble>>
  BY <1>k DEF SyncStream, At, rows
<1>2. job[w].full /\ JobTyped(job[w]) /\ Right(w)
  BY <1>1, RunsAlone DEF IInv, Typed, JobsTyped, Kinds, Lone
<1>3. k \in job[w].todo /\ k \in Stream
  <2>1. job[w].todo \subseteq Stream /\ job[w].todo \subseteq Nat
    BY <1>2 DEF JobTyped, RefreshAssumption
  <2> QED
    BY <1>k, <1>1, <2>1, MinIs
<1>g. PICK g : g = job[w].group
  OBVIOUS
<1>4. /\ Manual \subseteq job[w].used
      /\ \A c \in Settled(w) : /\ number[c] \in job[w].used \ Manual
                               /\ \A d \in Settled(w) \ {c} : number[d] # number[c]
  BY <1>1, <1>2 DEF Right, Numbered, Syncing
<1>5. /\ g \in Group \ job[w].left /\ job[w].todo \subseteq Current(w, g)
      /\ \A i \in Current(w, g) \ job[w].todo : ChannelsOf(i) # {}
  BY <1>g, <1>1, <1>2 DEF Right, Followed
<1>6. AsPlanned => \A i \in Stream : GroupOf[i] \in job[w].picked \ (job[w].left \cup {g}) =>
                      (ChannelsOf(i) # {} <=> i \in job[w].data)
  BY <1>g, <1>1, <1>2 DEF Right, Followed, Syncing, Pending, InGroup
<1>7. GroupOf[k] = g
  BY <1>3, <1>5 DEF Current
<1>8. CASE UpdateChannel(w, k)
  <2> DEFINE r == [job[w] EXCEPT !.todo = @ \ {k}, !.next = @ + 1]
  <2>1. ChannelsOf(k) # {} /\ job' = [job EXCEPT ![w] = r] /\ UNCHANGED <<carries, number>>
    BY <1>8 DEF UpdateChannel
  <2>2. /\ JobTyped(r) /\ r.pc = "streams_left" /\ r.full = job[w].full /\ r.start = job[w].start
        /\ r.data = job[w].data /\ r.picked = job[w].picked /\ r.left = job[w].left
        /\ r.group = g /\ r.used = job[w].used /\ r.todo = job[w].todo \ {k}
    <3>1. DOMAIN job[w] = Fields
      BY <1>2 DEF JobTyped
    <3>2. /\ DOMAIN r = Fields /\ r.pc = "streams_left" /\ r.full = job[w].full
          /\ r.start = job[w].start /\ r.data = job[w].data /\ r.picked = job[w].picked
          /\ r.left = job[w].left /\ r.group = g /\ r.used = job[w].used
          /\ r.todo = job[w].todo \ {k} /\ r.next = job[w].next + 1
      BY <1>g, <1>1, <3>1 DEF Fields
    <3> HIDE DEF r
    <3> QED
      BY <1>1, <1>2, <3>2 DEF JobTyped
  <2> HIDE DEF r
  <2>3. JobsTyped' /\ Elsewhere(w) /\ job'[w] = r
    BY <2>1, <2>2, SetJob DEF IInv, Typed
  <2>4. Elsewise(w)
    BY <1>1, <1>2, <2>2, <2>3 DEF Elsewise, Syncing
  <2>5. Current(w, g)' = Current(w, g) /\ \A i : Current(w, i)' = Current(w, i)
    BY <2>4 DEF Elsewise, Current, Rows
  <2>6. Followed(w)'
    <3>1. \A i : ChannelsOf(i)' = ChannelsOf(i)
      BY <2>1 DEF ChannelsOf
    <3>2. AsPlanned' => AsPlanned
      BY <1>1 DEF AsPlanned
    <3> QED
      BY <1>5, <1>6, <2>1, <2>2, <2>3, <2>5, <3>1, <3>2 DEF Followed, Pending, InGroup
  <2>7. Numbered(w)'
    <3>1. \A c \in Settled(w)' : c \in Settled(w) /\ number'[c] = number[c]
      BY <1>g, <1>1, <2>1, <2>2, <2>3, <2>5 DEF Settled, InGroup
    <3> QED
      BY <1>4, <2>2, <2>3, <3>1 DEF Numbered
  <2>8. /\ number' \in [Channel -> Nat] /\ carries' \in [Channel -> Stream \cup {Absent, Gone}]
        /\ OneChannel'
    BY <2>1 DEF IInv, Typed, OneChannel
  <2> QED
    BY <2>4, <2>6, <2>7, <2>8, ElsewiseInv
<1>9. CASE CreateChannel(w, k)
  <2> DEFINE n == TargetNumber(k, job[w].next, job[w].used)
             fresh == Min(ChannelsOf(Absent))
             r == [job[w] EXCEPT !.todo = @ \ {k}, !.next = @ + 1, !.used = @ \cup {n}]
  <2>1. /\ ChannelsOf(k) = {} /\ ChannelsOf(Absent) # {}
        /\ carries' = [carries EXCEPT ![fresh] = k] /\ number' = [number EXCEPT ![fresh] = n]
        /\ job' = [job EXCEPT ![w] = r]
    BY <1>9 DEF CreateChannel
  <2>2. n \in Nat \ job[w].used
    BY <1>2, <1>3, TargetFree DEF JobTyped
  <2>3. fresh \in Channel /\ carries[fresh] = Absent
    <3>1. ChannelsOf(Absent) \subseteq Nat
      BY DEF ChannelsOf, RefreshAssumption
    <3>2. fresh \in ChannelsOf(Absent)
      BY <2>1, <3>1, MinIs
    <3> QED
      BY <3>2 DEF ChannelsOf
  <2> HIDE DEF n, fresh
  <2>4. /\ JobTyped(r) /\ r.pc = "streams_left" /\ r.full = job[w].full /\ r.start = job[w].start
        /\ r.data = job[w].data /\ r.picked = job[w].picked /\ r.left = job[w].left
        /\ r.group = g /\ r.used = job[w].used \cup {n} /\ r.todo = job[w].todo \ {k}
    <3>1. IsFiniteSet(job[w].used \cup {n})
      BY <1>2, FS_AddElement DEF JobTyped
    <3>2. DOMAIN job[w] = Fields
      BY <1>2 DEF JobTyped
    <3>3. /\ DOMAIN r = Fields /\ r.pc = "streams_left" /\ r.full = job[w].full
          /\ r.start = job[w].start /\ r.data = job[w].data /\ r.picked = job[w].picked
          /\ r.left = job[w].left /\ r.group = g /\ r.used = job[w].used \cup {n}
          /\ r.todo = job[w].todo \ {k} /\ r.next = job[w].next + 1
      BY <1>g, <1>1, <3>2 DEF Fields
    <3> HIDE DEF r
    <3> QED
      BY <1>1, <1>2, <2>2, <3>1, <3>3 DEF JobTyped
  <2> HIDE DEF r
  <2>5. JobsTyped' /\ Elsewhere(w) /\ job'[w] = r
    BY <2>1, <2>4, SetJob DEF IInv, Typed
  <2>6. Elsewise(w)
    BY <1>1, <1>2, <2>4, <2>5 DEF Elsewise, Syncing
  <2>7. Current(w, g)' = Current(w, g)
    BY <2>6 DEF Elsewise, Current, Rows
  <2>8. /\ carries \in [Channel -> Stream \cup {Absent, Gone}] /\ number \in [Channel -> Nat]
        /\ \A c \in Channel : /\ carries'[c] = IF c = fresh THEN k ELSE carries[c]
                              /\ number'[c] = IF c = fresh THEN n ELSE number[c]
        /\ Absent \notin Stream
    BY <2>1 DEF IInv, Typed, RefreshAssumption, Absent
  <2>9. \A c \in Channel : carries[c] # k
    BY <2>1 DEF ChannelsOf
  <2>10. /\ number' \in [Channel -> Nat] /\ carries' \in [Channel -> Stream \cup {Absent, Gone}]
         /\ OneChannel'
    <3>1. OneChannel'
      BY <2>8, <2>9 DEF IInv, OneChannel
    <3>2. number' \in [Channel -> Nat] /\ carries' \in [Channel -> Stream \cup {Absent, Gone}]
      BY <1>3, <2>1, <2>2, <2>3, <2>8
    <3> QED
      BY <3>1, <3>2
  <2>11. \A i \in Stream : i # k => ChannelsOf(i)' = ChannelsOf(i)
    BY <2>3, <2>8 DEF ChannelsOf
  <2>12. ChannelsOf(k)' # {}
    BY <2>3, <2>8 DEF ChannelsOf
  <2>13. Followed(w)'
    <3>1. AsPlanned' => AsPlanned
      BY <1>1 DEF AsPlanned
    <3>2. \A i \in Current(w, g) : i \in Stream
      BY DEF Current, Rows
    <3> QED
      BY <1>5, <1>6, <1>7, <2>4, <2>5, <2>7, <2>11, <2>12, <3>1, <3>2
         DEF Followed, Pending, InGroup
  <2>14. \A c \in Settled(w)' : c \in Channel /\ (c = fresh \/ c \in Settled(w))
    BY <1>g, <1>1, <2>4, <2>5, <2>7, <2>8 DEF Settled, InGroup
  <2>15. fresh \notin Settled(w) /\ Settled(w) \subseteq Channel
    BY <2>3, <2>8 DEF Settled
  <2>16. Numbered(w)'
    <3>1. SUFFICES ASSUME NEW c \in Settled(w)'
                   PROVE  /\ number'[c] \in (job[w].used \cup {n}) \ Manual
                          /\ \A d \in Settled(w)' \ {c} : number'[d] # number'[c]
      BY <1>4, <2>4, <2>5 DEF Numbered
    <3> QED
      BY <1>4, <2>2, <2>8, <2>14, <2>15
  <2> QED
    BY <2>6, <2>10, <2>13, <2>16, ElsewiseInv
<1> QED
  BY <1>1, <1>8, <1>9

LEMMA SyncDropInv == ASSUME IInv, NEW w \in Worker, SyncDrop(w) PROVE IInv'
<1> DEFINE g == job[w].group
<1>1. /\ job[w].pc = "streams_left" /\ job[w].todo = {} /\ Delete(Unprocessed(w))
      /\ UNCHANGED <<given, seen, stale, enabled, cache, locks, scans, trouble>>
  BY DEF SyncDrop, At, rows
<1>2. job[w].full /\ Right(w)
  BY <1>1, RunsAlone DEF IInv, Kinds, Lone
<1>3. JobsTyped' /\ Elsewhere(w) /\ Moved(w, "groups_left")
  <2>1. "groups_left" \in Label
    BY DEF Label, Written, Cleaned, Syncing
  <2> QED
    BY <2>1, GoMoves DEF SyncDrop, IInv, Typed
<1>4. Elsewise(w)
  BY <1>1, <1>2, <1>3 DEF Elsewise, Moved, Syncing
<1>5. /\ carries' \in [Channel -> Stream \cup {Absent, Gone}] /\ number' \in [Channel -> Nat]
      /\ OneChannel' /\ Absent \notin Stream
      /\ \A c \in Channel : IF c \in Unprocessed(w) THEN carries'[c] = Absent
                            ELSE carries'[c] = carries[c] /\ number'[c] = number[c]
  BY <1>1, Deleted
<1>6. /\ Manual \subseteq job[w].used
      /\ \A c \in Settled(w) : /\ number[c] \in job[w].used \ Manual
                               /\ \A d \in Settled(w) \ {c} : number[d] # number[c]
  BY <1>1, <1>2 DEF Right, Numbered, Syncing
<1>7. \A c \in Channel : carries[c] \in Stream =>
         (c \in Unprocessed(w) <=> GroupOf[carries[c]] = g /\ carries[c] \notin Current(w, g))
  BY DEF Unprocessed, GroupChannels
<1>8. Followed(w)'
  <2>1. SUFFICES ASSUME AsPlanned', NEW k \in Stream,
                        GroupOf[k] \in job[w].picked, GroupOf[k] \notin job[w].left
                 PROVE  ChannelsOf(k)' # {} <=> k \in job[w].data
    BY <1>3 DEF Followed, Pending, Moved
  <2>2. AsPlanned
    BY <1>1, <2>1 DEF AsPlanned
  <2>3. CASE GroupOf[k] = g /\ k \notin Current(w, g)
    <3>1. \A c \in Channel : carries'[c] # k
      BY <1>5, <1>7, <2>3
    <3>2. k \notin job[w].data
      BY <1>1, <1>2, <2>1, <2>2, <2>3, CurrentListed DEF Syncing
    <3> QED
      BY <3>1, <3>2 DEF ChannelsOf
  <2>4. CASE ~(GroupOf[k] = g /\ k \notin Current(w, g))
    <3>1. \A c \in Channel : carries'[c] = k <=> carries[c] = k
      BY <1>5, <1>7, <2>4
    <3>2. ChannelsOf(k)' = ChannelsOf(k)
      BY <3>1 DEF ChannelsOf
    <3>3. CASE GroupOf[k] # g
      BY <1>1, <1>2, <2>1, <2>2, <3>2, <3>3 DEF Right, Followed, Syncing, Pending, InGroup
    <3>4. CASE GroupOf[k] = g
      <4>1. k \in Current(w, g) /\ k \in job[w].data
        BY <1>1, <1>2, <2>1, <2>2, <2>4, <3>4, CurrentListed DEF Syncing
      <4> QED
        BY <1>1, <1>2, <3>2, <4>1 DEF Right, Followed
    <3> QED
      BY <3>3, <3>4
  <2> QED
    BY <2>3, <2>4
<1>9. Numbered(w)'
  <2>1. \A c \in Settled(w)' : c \in Settled(w) /\ number'[c] = number[c]
    BY <1>1, <1>3, <1>5, <1>7 DEF Settled, InGroup, Moved
  <2> QED
    BY <1>3, <1>6, <2>1 DEF Numbered, Moved
<1> QED
  BY <1>4, <1>5, <1>8, <1>9, ElsewiseInv

LEMMA SyncOrphansInv == ASSUME IInv, NEW w \in Worker, SyncOrphans(w) PROVE IInv'
<1>1. /\ job[w].pc = "groups_left" /\ job[w].left = {} /\ Delete(ChannelsOf(Gone))
      /\ UNCHANGED <<given, seen, stale, enabled, cache, locks, scans, trouble>>
  BY DEF SyncOrphans, At, rows
<1>2. job[w].full /\ Right(w)
  BY <1>1, RunsAlone DEF IInv, Kinds, Lone
<1>3. JobsTyped' /\ Elsewhere(w) /\ Moved(w, "finish")
  <2>1. "finish" \in Label
    BY DEF Label, Written, Cleaned, Syncing
  <2> QED
    BY <2>1, GoMoves DEF SyncOrphans, IInv, Typed
<1>4. Elsewise(w)
  BY <1>1, <1>2, <1>3 DEF Elsewise, Moved, Syncing
<1>5. /\ carries' \in [Channel -> Stream \cup {Absent, Gone}] /\ number' \in [Channel -> Nat]
      /\ OneChannel' /\ Absent \notin Stream /\ Gone \notin Stream
      /\ \A c \in Channel : IF c \in ChannelsOf(Gone) THEN carries'[c] = Absent
                            ELSE carries'[c] = carries[c] /\ number'[c] = number[c]
  BY <1>1, Deleted
<1>6. \A k \in Stream : ChannelsOf(k)' = ChannelsOf(k)
  BY <1>5 DEF ChannelsOf
<1>7. ChannelsOf(Gone)' = {}
  <2>1. Gone # Absent
    BY DEF Gone, Absent
  <2> QED
    BY <1>5, <2>1 DEF ChannelsOf
<1>8. Followed(w)'
  BY <1>1, <1>2, <1>3, <1>6, <1>7 DEF Right, Followed, Syncing, Pending, InGroup, Moved, AsPlanned
<1>9. Numbered(w)'
  <2>1. \A c \in Settled(w)' : c \in Settled(w) /\ number'[c] = number[c]
    BY <1>1, <1>3, <1>5 DEF Settled, InGroup, Moved, ChannelsOf
  <2> QED
    BY <1>1, <1>2, <1>3, <2>1 DEF Right, Numbered, Moved, Syncing
<1> QED
  BY <1>4, <1>5, <1>8, <1>9, ElsewiseInv

-----------------------------------------------------------------------------
(* The invariant, and what follows from it.                                *)

LEMMA InitInv == Init => IInv
<1>1. SUFFICES ASSUME Init PROVE IInv
  OBVIOUS
<1>2. JobTyped(NoJob)
  BY FS_EmptySet DEF JobTyped, NoJob, Fields, Label
<1>3. JobsTyped /\ \A w \in Worker : ~job[w].full /\ job[w].pc = "idle"
  BY <1>1, <1>2 DEF Init, JobsTyped, NoJob
<1>4. \A c \in Channel : carries[c] \notin Stream
  BY <1>1 DEF Init, RefreshAssumption, Absent
<1>5. Typed
  BY <1>1, <1>3 DEF Init, Typed
<1> QED
  BY <1>3, <1>4, <1>5 DEF IInv, OneChannel, Kinds, Running

LEMMA StepInv == IInv /\ [Next]_vars => IInv'
<1>1. SUFFICES ASSUME IInv, [Next]_vars PROVE IInv'
  OBVIOUS
<1>2. ASSUME NEW w \in Worker, GroupsTask(w) PROVE IInv'
  BY <1>1, <1>2, LockGroupsInv, FetchLinesInv, FetchCategoriesInv, FetchFailsInv,
     ProcessGroupsInv, ProcessGroupsRaisesInv, GroupsDoneInv DEF GroupsTask
<1>3. ASSUME NEW w \in Worker, RefreshTask(w) PROVE IInv'
  BY <1>1, <1>3, ReadCacheInv, CheckListedInv, ParseEntriesInv, CollectXcStreamsInv,
     WriteBatchInv, MarkStaleInv, CleanupStreamsInv, CleanupFailsInv, CleanupGroupsInv,
     StartSyncInv, SyncGroupInv, SyncStreamInv, SyncDropInv, SyncOrphansInv, FinishInv,
     EndRefreshInv DEF RefreshTask
<1>4. CASE UNCHANGED vars
  <2>1. Quietly /\ job' = job
    BY <1>1, <1>4 DEF vars, rows, channels, Quietly, AsPlanned, IInv, Typed
  <2> QED
    BY <1>1, <2>1, AsideInv
<1> QED
  BY <1>1, <1>2, <1>3, <1>4, AskForGroupsInv, StartRefreshInv, CrashInv, ExpireInv,
     ToggleGroupInv, DeactivateInv DEF Next

LEMMA Inductive == Spec => []IInv
  BY InitInv, StepInv, PTL DEF Spec

LEMMA RunsOnce == IInv => OneRefresh
  BY DEF IInv, Right, Holds, OneRefresh

LEMMA TakesOver == IInv => RefreshTakesOver
<1>1. SUFFICES ASSUME IInv PROVE RefreshTakesOver
  OBVIOUS
<1>2. \A w \in Worker : job[w].pc \in {"sync", "finish"} => job[w].full /\ Right(w)
  BY <1>1, RunsAlone DEF IInv, Kinds, Lone
<1>3. CatalogueFresh
  BY <1>1, <1>2 DEF CatalogueFresh, At, Right, Rewritten, Written, Cleaned
<1>4. ChannelsFollow
  <2>1. SUFFICES ASSUME AsPlanned, NEW w \in Worker, job[w].pc = "finish"
                 PROVE  /\ ChannelsOf(Gone) = {}
                        /\ \A k \in Stream : GroupOf[k] \in job[w].picked =>
                              Cardinality(ChannelsOf(k)) = IF k \in job[w].data THEN 1 ELSE 0
    BY DEF ChannelsFollow, At
  <2>2. ChannelsOf(Gone) = {} /\ job[w].left = {}
    BY <1>2, <2>1 DEF Right, Followed
  <2>3. ASSUME NEW k \in Stream, GroupOf[k] \in job[w].picked
        PROVE  Cardinality(ChannelsOf(k)) = IF k \in job[w].data THEN 1 ELSE 0
    <3>1. ChannelsOf(k) # {} <=> k \in job[w].data
      BY <1>2, <2>1, <2>2, <2>3 DEF Right, Followed, Syncing, Pending, InGroup
    <3>2. CASE k \in job[w].data
      <4>1. PICK c : c \in ChannelsOf(k)
        BY <3>1, <3>2
      <4>2. ChannelsOf(k) = {c}
        BY <1>1, <2>3, <4>1 DEF ChannelsOf, IInv, OneChannel
      <4> QED
        BY <3>2, <4>2, FS_Singleton
    <3>3. CASE k \notin job[w].data
      BY <3>1, <3>3, FS_EmptySet
    <3> QED
      BY <3>2, <3>3
  <2> QED
    BY <2>2, <2>3
<1>5. NumbersUnique
  <2>1. SUFFICES ASSUME NEW w \in Worker, job[w].pc = "finish",
                        NEW c \in Channel,
                        carries[c] \in {k \in Stream : GroupOf[k] \in job[w].picked}
                 PROVE  /\ number[c] \notin Manual
                        /\ \A d \in Channel \ {c} :
                              carries[d] \in {k \in Stream : GroupOf[k] \in job[w].picked}
                                => number[d] # number[c]
    BY DEF NumbersUnique, At
  <2>2. \A d \in Channel : carries[d] \in {k \in Stream : GroupOf[k] \in job[w].picked}
                              => d \in Settled(w)
    BY <1>2, <2>1 DEF Right, Followed, Settled, InGroup
  <2> QED
    BY <1>2, <2>1, <2>2 DEF Right, Numbered, Syncing
<1> QED
  BY <1>3, <1>4, <1>5 DEF RefreshTakesOver

\* What a channel of a stream that is listed may meet in a step of the refresh.
LEMMA Keeps ==
    ASSUME IInv, [Next]_vars, NEW c \in Channel, carries[c] \in Stream, carries'[c] # carries[c],
           AsPlanned, GroupOf[carries[c]] \in enabled
    PROVE  \E w \in Worker : Running(w) /\ (carries[c] \notin job[w].data
                                            \/ GroupOf[carries[c]] \notin job[w].picked)
<1> DEFINE k == carries[c]
           Lets(w) == Running(w) /\ (k \notin job[w].data \/ GroupOf[k] \notin job[w].picked)
<1>1. \/ UNCHANGED carries
      \/ \E w \in Worker : CleanupStreams(w) \/ SyncGroup(w) \/ SyncStream(w)
                           \/ SyncDrop(w) \/ SyncOrphans(w)
  <2>1. ASSUME NEW w \in Worker, GroupsTask(w) PROVE UNCHANGED carries
    BY <2>1 DEF channels, GroupsTask, LockGroups, FetchLines, FetchCategories, FetchFails,
       ProcessGroups, ProcessGroupsRaises, GroupsDone
  <2>2. ASSUME NEW w \in Worker, AskForGroups(w) \/ StartRefresh(w) \/ Crash(w)
        PROVE  UNCHANGED carries
    BY <2>2 DEF channels, AskForGroups, StartRefresh, Crash
  <2>3. ASSUME NEW w \in Worker,
               \/ ReadCache(w) \/ CheckListed(w) \/ ParseEntries(w) \/ CollectXcStreams(w)
               \/ CleanupFails(w) \/ CleanupGroups(w) \/ StartSync(w) \/ Finish(w) \/ EndRefresh(w)
        PROVE  UNCHANGED carries
    BY <2>3 DEF channels, ReadCache, CheckListed, ParseEntries, CollectXcStreams, Parse,
       CleanupFails, CleanupGroups, StartSync, Finish, EndRefresh
  <2>4. ASSUME NEW w \in Worker, WriteBatch(w) \/ MarkStale(w) PROVE UNCHANGED carries
    BY <2>4 DEF channels, WriteBatch, MarkStale
  <2>5. ASSUME NEW l \in Lock, Expire(l) PROVE UNCHANGED carries
    BY <2>5 DEF channels, Expire
  <2>6. ASSUME NEW g \in Group, ToggleGroup(g) PROVE UNCHANGED carries
    BY <2>6 DEF channels, ToggleGroup
  <2>7. ASSUME Deactivate \/ UNCHANGED vars PROVE UNCHANGED carries
    BY <2>7 DEF vars, channels, Deactivate
  <2> QED
    BY <2>1, <2>2, <2>3, <2>4, <2>5, <2>6, <2>7 DEF Next, RefreshTask
<1>2. PICK w \in Worker : CleanupStreams(w) \/ SyncGroup(w) \/ SyncStream(w)
                          \/ SyncDrop(w) \/ SyncOrphans(w)
  BY <1>1
<1>3. /\ job[w].full /\ Running(w) /\ Right(w)
      /\ job[w].pc \in {"streams", "groups_left", "streams_left"}
  <2>1. job[w].pc \in {"streams", "groups_left", "streams_left"}
    BY <1>2 DEF CleanupStreams, SyncGroup, SyncStream, SyncDrop, SyncOrphans, At
  <2> QED
    BY <2>1, RunsAlone, FullRuns DEF IInv, Kinds, Lone
<1>4. SUFFICES ASSUME k \in job[w].data, GroupOf[k] \in job[w].picked PROVE FALSE
  BY <1>3
<1>5. /\ seen[k] = job[w].start /\ job[w].start \in Nat \ {0} /\ Retention \in Nat
      /\ carries \in [Channel -> Stream \cup {Absent, Gone}]
      /\ Absent \notin Stream /\ Gone \notin Stream
  <2>1. seen[k] = job[w].start
    BY <1>3, <1>4 DEF Right, Rewritten, Written, Cleaned, Syncing
  <2>2. job[w].start \in Nat \ {0}
    BY <1>3 DEF Right, Holds, IInv, Typed
  <2>3. Retention \in Nat /\ Absent \notin Stream /\ Gone \notin Stream
    BY DEF RefreshAssumption, Absent, Gone
  <2>4. carries \in [Channel -> Stream \cup {Absent, Gone}]
    BY DEF IInv, Typed
  <2> QED
    BY <2>1, <2>2, <2>3, <2>4
<1>6. k \in Current(w, GroupOf[k])
  BY <1>5 DEF Current, Rows
<1>7. ~CleanupStreams(w)
  BY <1>5 DEF CleanupStreams, Rows
<1>8. ~SyncGroup(w)
  <2>1. SUFFICES ASSUME NEW g \in Group, Current(w, g) = {}, Delete(GroupChannels(g)) PROVE FALSE
    <3>1. job[w].left \subseteq Group
      BY DEF IInv, Typed, JobsTyped, JobTyped
    <3> QED
      BY <3>1 DEF SyncGroup
  <2>2. GroupOf[k] = g
    BY <2>1 DEF Delete, GroupChannels
  <2> QED
    BY <1>6, <2>1, <2>2
<1>9. ~SyncStream(w)
  <2>1. SUFFICES ASSUME NEW i, CreateChannel(w, i) PROVE FALSE
    BY DEF SyncStream, UpdateChannel
  <2>2. Min(ChannelsOf(Absent)) \in ChannelsOf(Absent)
    <3>1. ChannelsOf(Absent) \subseteq Nat
      BY DEF ChannelsOf, RefreshAssumption
    <3> QED
      BY <2>1, <3>1, MinIs DEF CreateChannel
  <2>3. Min(ChannelsOf(Absent)) # c
    BY <1>5, <2>2 DEF ChannelsOf
  <2> QED
    BY <1>5, <2>1, <2>3 DEF CreateChannel
<1>10. ~SyncDrop(w)
  BY <1>6 DEF SyncDrop, Delete, Unprocessed, GroupChannels
<1>11. ~SyncOrphans(w)
  BY <1>5 DEF SyncOrphans, Delete, ChannelsOf
<1> QED
  BY <1>2, <1>7, <1>8, <1>9, <1>10, <1>11

LEMMA StepKeeps == IInv /\ [Next]_vars => [KeepsIdentity]_vars
  BY Keeps DEF KeepsIdentity

-----------------------------------------------------------------------------
(* The theorems.                                                           *)

\* One worker refreshes the account at a time, through the expiry of locks of
\* workers that were killed (refresh_single_m3u_account under its task lock).
THEOREM OneRefreshAtATime == Spec => []OneRefresh
  BY Inductive, RunsOnce, PTL

\* The refresh leaves rows and channels as they were listed: fresh rows for what
\* is listed, stale and not too old ones for the rest, a channel for each listed
\* stream of a synchronised group, with a number that no other has, and no more.
THEOREM ListedTakenOver == Spec => []RefreshTakesOver
  BY Inductive, TakesOver, PTL

\* Refreshes take no channel away from its stream, be it to give it to another
\* or to delete it, while they list the stream and its group is on.
THEOREM IdentityStays == Spec => IdentityKept
  BY Inductive, StepKeeps, PTL DEF Spec, IdentityKept
=============================================================================
