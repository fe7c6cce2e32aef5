------------------------ MODULE StreamDeliveryProofs ------------------------
(***************************************************************************)
(* Proofs about StreamDelivery, for any number of chunks, streams, workers *)
(* and clients: chunks are of one stream until a request's switch races    *)
(* with a read, the search finds the oldest chunk there is, and positions  *)
(* go forward, not past the head, and over expired chunks only.            *)
(***************************************************************************)
EXTENDS StreamDelivery, FiniteSetTheorems, SequenceTheorems, WellFoundedInduction, TLAPS

USE DeliveryAssumption DEF DeliveryAssumption

-----------------------------------------------------------------------------
(* The inductive invariant.                                                *)

\* The last chunk that was stored, or has expired since.
Stored == IF writer \in {"setex", "flush"} THEN head - 1 ELSE head

\* The chunks that exist are the last ones that were stored.
LastOnes == \A i \in alive : i <= Stored /\ \A j \in i..Stored : j \in alive

\* What the lock holder has begun.
Begun ==
    /\ writer \in {"setex", "stamp", "flush"} => head > 0
    /\ stamps \subseteq 1..head

\* The halves of a sequence are of one stream, of stream x.
Pure(s) == \A j, k \in DOMAIN s : s[j] = s[k]
From(s, x) == \A j \in DOMAIN s : s[j] = x

\* Until a switch races with the stream thread, what it reads and what waits for
\* a chunk is of the stream that is set; during a switch it has nothing in hand
\* and no connection.  What is already cut off may be of the stream before.
Unraced ==
    /\ \A i \in Chunk : Pure(content[i])
    /\ Pure(chunk) /\ Pure(pending) /\ Pure(sliced)
    /\ link \in {NoStream, url}
    /\ switching # "no" => hand = <<>> /\ link = NoStream
    /\ switching # "set" => From(partial, url) /\ From(pending, url) /\ From(hand, url)

Unmixed == raced \/ Unraced

\* No worker knows of more chunks than were numbered, the owner's of those stored.
Indexed ==
    /\ \A w \in Worker : index[w] <= head
    /\ index[Owner] \in 0..Stored

\* What a client has asked for, one chunk but for those its worker knew of.
Asked(c) ==
    LET r == reader[c] IN
    /\ r.count > 0 /\ r.last <= head
    /\ r.count = 1 \/ r.local + r.count <= head
    /\ WorkerOf[c] = Owner => r.count = 1 \/ r.local + r.count <= Stored

Placed(c) ==
    /\ reader[c].local <= head
    /\ At(c, "away") => reader[c].local = 0
    /\ At(c, "fetch") => Asked(c)
    /\ At(c, "search") => reader[c].local < Known(c)

IInv == TypeOK /\ LastOnes /\ Begun /\ Unmixed /\ Indexed /\ \A c \in Client : Placed(c)

-----------------------------------------------------------------------------
(* Numbers, and induction over them.                                       *)

\* Every set of numbers has a least one.
LEMMA LeastOf ==
    ASSUME NEW T, T \subseteq Nat, T # {}
    PROVE  \E x \in T : \A y \in T : x <= y
<1> DEFINE less == OpToRel(<, Nat)
<1>1. \A x, y \in Nat : y < x => <<y, x>> \in less
  BY DEF OpToRel
<1>2. IsWellFoundedOn(less, Nat)
  BY NatLessThanWellFounded
<1> HIDE DEF less
<1>3. PICK x \in T : \A y \in T : <<y, x>> \notin less
  BY <1>2, WFMin
<1>4. x \in Nat /\ \A y \in T : y \in Nat /\ ~(y < x)
  BY <1>1, <1>3
<1> QED
  BY <1>4

LEMMA MinIs ==
    ASSUME NEW T, T \subseteq Nat, T # {}
    PROVE  Min(T) \in T /\ \A y \in T : Min(T) <= y
  BY LeastOf DEF Min

\* Induction up to a number.
LEMMA UpTo ==
    ASSUME NEW N \in Nat, NEW T, T \subseteq 0..N, 0 \in T,
           \A n \in 1..N : n - 1 \in T => n \in T
    PROVE  N \in T
<1> DEFINE U == (0..N) \ T
<1>1. SUFFICES ASSUME U # {} PROVE FALSE
  OBVIOUS
<1>2. U \subseteq Nat
  OBVIOUS
<1>3. PICK n \in U : \A m \in U : n <= m
  <2> HIDE DEF U
  <2> QED
    BY <1>1, <1>2, LeastOf
<1>4. n \in 1..N /\ n \notin T
  BY <1>3
<1>5. n - 1 \in 0..N /\ n - 1 \notin U
  BY <1>3, <1>4
<1> QED
  BY <1>4, <1>5

-----------------------------------------------------------------------------
(* The search.                                                             *)

\* The binary search ends on the oldest chunk of the range if those that exist are its last.
LEMMA SearchEnds ==
    ASSUME alive \subseteq Chunk, NEW low \in Chunk, NEW high \in Chunk, low <= high,
           high \in alive, \A i \in alive : \A j \in i..high : j \in alive
    PROVE  OldestAvailable(low, high) = Min(alive \cap low..high)
<1> DEFINE first == <<low, high, high>>
           Turn(s) == IF s[1] <= s[2] THEN Halve(s[1], s[2], s[3]) ELSE s
           Is(f, n) == f = [k \in 0..n |-> IF k = 0 THEN first ELSE Turn(f[k - 1])]
           turn == CHOOSE f : f = [k \in 0..MaxIndex |-> IF k = 0 THEN first ELSE Turn(f[k - 1])]
<1>1. OldestAvailable(low, high) = turn[MaxIndex][3]
  BY DEF OldestAvailable
<1>2. MaxIndex \in Nat
  OBVIOUS
<1> HIDE DEF first, Turn
\* The function that the recursion defines exists.
<1>3. \E f : Is(f, MaxIndex)
  <2> DEFINE T == {n \in 0..MaxIndex : \E f : Is(f, n)}
  <2>1. 0 \in T
    <3>1. Is([k \in 0..0 |-> first], 0)
      OBVIOUS
    <3> HIDE DEF Is
    <3> QED
      BY <1>2, <3>1
  <2>2. ASSUME NEW n \in 1..MaxIndex, n - 1 \in T PROVE n \in T
    <3>1. PICK f : Is(f, n - 1)
      BY <2>2
    <3> DEFINE g == [k \in 0..n |-> IF k = n THEN Turn(f[n - 1]) ELSE f[k]]
    <3>2. ASSUME NEW k \in 0..n PROVE g[k] = IF k = 0 THEN first ELSE Turn(g[k - 1])
      BY <1>2, <2>2, <3>1
    <3>3. Is(g, n)
      BY <3>2
    <3> HIDE DEF Is
    <3> QED
      BY <1>2, <3>3
  <2>3. T \subseteq 0..MaxIndex
    OBVIOUS
  <2> HIDE DEF T
  <2>4. MaxIndex \in T
    BY <1>2, <2>1, <2>2, <2>3, UpTo
  <2> QED
    BY <2>4 DEF T
<1>4. turn[0] = first /\ \A k \in 1..MaxIndex : turn[k] = Turn(turn[k - 1])
  <2>1. Is(turn, MaxIndex)
    BY <1>3
  <2> HIDE DEF turn
  <2> QED
    BY <1>2, <2>1
<1> HIDE DEF turn
\* No chunk exists on the left of the range, the one found is next to its right end, and each
\* turn makes the range smaller.
<1> DEFINE Narrow(a, b, f, k) ==
               /\ a \in Int /\ b \in Int /\ f \in alive
               /\ low <= a /\ a <= b + 1 /\ b <= high
               /\ \A i \in low..a - 1 : i \notin alive
               /\ f = b + 1 \/ (f = high /\ b = high)
               /\ a <= b => b - a + 1 <= MaxIndex - k
           Good(s, k) == Narrow(s[1], s[2], s[3], k)
<1>5. Good(first, 0)
  BY DEF first, Chunk
<1>6. ASSUME NEW k \in 1..MaxIndex, NEW s, Good(s, k - 1)
      PROVE  Good(Turn(s), k)
  <2>1. CASE s[1] > s[2]
    <3>1. Turn(s) = s
      BY <1>6, <2>1 DEF Turn
    <3> QED
      BY <1>6, <2>1, <3>1
  <2>2. CASE s[1] <= s[2]
    <3> DEFINE mid == (s[1] + s[2]) \div 2
    <3>1. mid \in Int /\ s[1] <= mid /\ mid <= s[2]
      BY <1>6, <2>2
    <3>2. Turn(s) = IF mid \in alive THEN <<s[1], mid - 1, mid>> ELSE <<mid + 1, s[2], s[3]>>
      BY <2>2 DEF Turn, Halve
    <3> HIDE DEF mid
    <3>3. CASE mid \in alive
      <4>1. Narrow(s[1], mid - 1, mid, k)
        BY <1>2, <1>6, <2>2, <3>1, <3>3 DEF Chunk
      <4> HIDE DEF Narrow
      <4> QED
        BY <3>2, <3>3, <4>1
    <3>4. CASE mid \notin alive
      <4>1. ASSUME NEW i \in low..mid PROVE i \notin alive
        BY <1>6, <3>1, <3>4 DEF Chunk
      <4>2. Narrow(mid + 1, s[2], s[3], k)
        <5>1. \A i \in low..mid + 1 - 1 : i \notin alive
          BY <3>1, <4>1
        <5>2. s[2] - (mid + 1) + 1 <= MaxIndex - k
          BY <1>2, <1>6, <2>2, <3>1
        <5>3. /\ low <= mid + 1 /\ mid + 1 <= s[2] + 1 /\ s[2] <= high /\ s[3] \in alive
              /\ s[3] = s[2] + 1 \/ (s[3] = high /\ s[2] = high)
          BY <1>6, <3>1 DEF Chunk
        <5> QED
          BY <1>6, <3>1, <5>1, <5>2, <5>3
      <4> HIDE DEF Narrow
      <4> QED
        BY <3>2, <3>4, <4>2
    <3> QED
      BY <3>3, <3>4
  <2> QED
    BY <1>6, <2>1, <2>2
<1> HIDE DEF Good
<1>7. Good(turn[MaxIndex], MaxIndex)
  <2> DEFINE T == {n \in 0..MaxIndex : Good(turn[n], n)}
  <2>1. 0 \in T
    BY <1>2, <1>4, <1>5
  <2>2. \A n \in 1..MaxIndex : n - 1 \in T => n \in T
    BY <1>2, <1>4, <1>6
  <2>3. T \subseteq 0..MaxIndex
    OBVIOUS
  <2> HIDE DEF T
  <2>4. MaxIndex \in T
    BY <1>2, <2>1, <2>2, <2>3, UpTo
  <2> QED
    BY <2>4 DEF T
<1> DEFINE found == turn[MaxIndex][3]
<1>8. found \in alive \cap low..high /\ \A i \in alive \cap low..high : found <= i
  BY <1>2, <1>7 DEF Good, Chunk
<1>9. Min(alive \cap low..high) = found
  <2> HIDE DEF found
  <2>1. alive \cap low..high \subseteq Nat /\ alive \cap low..high # {}
    BY <1>8 DEF Chunk
  <2>2. /\ Min(alive \cap low..high) \in alive \cap low..high
        /\ \A i \in alive \cap low..high : Min(alive \cap low..high) <= i
    BY <2>1, MinIs
  <2> QED
    BY <1>8, <2>2 DEF Chunk
<1> QED
  BY <1>1, <1>9

-----------------------------------------------------------------------------
(* What keeps the readers in place.                                        *)

\* The writer numbers and stores more chunks, and the workers hear of them.
LEMMA WriterMoves ==
    ASSUME IInv, UNCHANGED reader, head' \in Nat, head <= head', Stored <= Stored',
           \A w \in Worker : index[w] <= index'[w] /\ index'[w] \in Int
    PROVE  \A c \in Client : Placed(c)'
<1> SUFFICES ASSUME NEW c \in Client PROVE Placed(c)'
  OBVIOUS
<1>1. Placed(c) /\ reader[c] \in Reader /\ head \in Nat /\ Stored \in Int /\ Stored' \in Int
  BY DEF IInv, TypeOK, Position, Stored
<1>2. WorkerOf[c] \in Worker /\ Known(c) \in Int /\ Known(c)' \in Int /\ Known(c) <= Known(c)'
  BY DEF IInv, TypeOK, Known
<1>3. reader'[c] = reader[c]
  OBVIOUS
<1>4. reader[c].local \in Nat /\ reader[c].count \in Nat /\ reader[c].last \in Nat
  BY <1>1 DEF Reader, Position
<1>5. (At(c, "away") <=> At(c, "away")') /\ (At(c, "fetch") <=> At(c, "fetch")')
      /\ (At(c, "search") <=> At(c, "search")')
  BY <1>3 DEF At
<1>6. Asked(c) => Asked(c)'
  BY <1>1, <1>3, <1>4 DEF Asked
<1> QED
  BY <1>1, <1>2, <1>3, <1>4, <1>5, <1>6 DEF Placed

\* A client goes on, and its worker may hear of chunks.
LEMMA ReaderMoves ==
    ASSUME IInv, NEW c \in Client, NEW r \in Reader, Set(c, r),
           UNCHANGED <<redis, buffers, source>>,
           index' \in [Worker -> -1..MaxIndex],
           \A w \in Worker : index[w] <= index'[w] /\ index'[w] <= head,
           index'[Owner] <= Stored,
           r.local <= head, r.pc # "away",
           r.pc = "fetch" =>
               /\ r.count > 0 /\ r.last <= head
               /\ r.count = 1 \/ r.local + r.count <= head
               /\ WorkerOf[c] = Owner => r.count = 1 \/ r.local + r.count <= Stored,
           r.pc = "search" => r.local < index'[WorkerOf[c]]
    PROVE  IInv'
<1>1. reader' = [reader EXCEPT ![c] = r] /\ reader \in [Client -> Reader]
  BY DEF IInv, TypeOK, Set
<1>2. UNCHANGED <<head, alive, content, stamps, partial, pending, chunk, writer, url, link,
                  opening, hand, switching, raced, stopper, sliced>>
  BY DEF redis, buffers, source
<1>3. TypeOK'
  BY <1>1, <1>2 DEF IInv, TypeOK
<1>4. Stored' = Stored /\ LastOnes' /\ Begun' /\ Unmixed'
  <2>1. Stored' = Stored
    BY <1>2 DEF Stored
  <2>2. LastOnes'
    BY <1>2, <2>1 DEF IInv, LastOnes
  <2>3. Begun'
    BY <1>2 DEF IInv, Begun
  <2>4. Unmixed'
    BY <1>2 DEF IInv, Unmixed, Unraced
  <2> QED
    BY <2>1, <2>2, <2>3, <2>4
<1>5. Indexed'
  <2>1. index[Owner] \in 0..Stored /\ index[Owner] <= index'[Owner] /\ index'[Owner] \in Int
    BY DEF IInv, TypeOK, Indexed
  <2>2. Stored \in Int
    <3>1. head \in Int
      BY DEF IInv, TypeOK, Position
    <3> QED
      BY ONLY <3>1 DEF Stored
  <2>3. index'[Owner] \in 0..Stored'
    BY <1>4, <2>1, <2>2
  <2> QED
    BY <1>2, <2>3 DEF Indexed
<1>6. ASSUME NEW d \in Client PROVE Placed(d)'
  <2>1. CASE d = c
    <3>1. reader'[d] = r
      BY <1>1, <2>1
    <3> QED
      BY <1>2, <1>4, <2>1, <3>1 DEF Placed, Asked, At, Known
  <2>2. CASE d # c
    <3>1. reader'[d] = reader[d]
      BY <1>1, <2>2
    <3>2. Placed(d) /\ reader[d].local \in Int /\ WorkerOf[d] \in Worker
      BY <1>1 DEF IInv, Reader, Position
    <3>3. index[WorkerOf[d]] \in Int /\ index'[WorkerOf[d]] \in Int
          /\ index[WorkerOf[d]] <= index'[WorkerOf[d]]
      BY <3>2 DEF IInv, TypeOK
    <3> QED
      BY <1>2, <1>4, <3>1, <3>2, <3>3 DEF Placed, Asked, At, Known
  <2> QED
    BY <2>1, <2>2
<1> QED
  BY <1>3, <1>4, <1>5, <1>6 DEF IInv

-----------------------------------------------------------------------------
(* The steps of the readers.                                               *)

Counts == 0..MaxFetch
Labels == {"away", "check", "fetch", "search", "near", "wait", "done"}

LEMMA ReaderIs ==
    Reader = [pc : Labels, local : Position, count : Counts, last : Position, starved : BOOLEAN]
  BY DEF Reader, Counts, Labels

LEMMA Here ==
    /\ Away \in Reader /\ Away.local = 0 /\ 0 \in Counts /\ 0 \in Position
    /\ {"check", "fetch", "search", "near", "wait", "done"} \subseteq Labels
  BY DEF Away, Reader, Position, Counts, Labels

\* What the readers' steps start from.
LEMMA ReaderFacts ==
    ASSUME IInv, NEW c \in Client
    PROVE  /\ reader[c] \in Reader /\ reader[c].local \in 0..head
           /\ reader[c].count \in 0..MaxFetch /\ reader[c].last \in Position
           /\ head \in Position /\ Stored \in Int /\ Stored <= head
           /\ WorkerOf[c] \in Worker /\ Known(c) \in -1..head
           /\ WorkerOf[c] = Owner => Known(c) \in 0..Stored
           /\ \A i \in alive : i \in Chunk /\ i <= Stored
<1>1. /\ reader[c] \in Reader /\ head \in Position /\ WorkerOf[c] \in Worker
      /\ index \in [Worker -> -1..MaxIndex] /\ alive \subseteq Chunk
  BY DEF IInv, TypeOK
<1>2. /\ reader[c].local \in Position /\ reader[c].count \in 0..MaxFetch
      /\ reader[c].last \in Position
  BY ONLY <1>1 DEF Reader
<1>3. reader[c].local \in 0..head
  BY <1>1, <1>2 DEF IInv, Placed, Position
<1>4. Stored \in Int /\ Stored <= head
  BY <1>1 DEF Stored, Position
<1>5. Known(c) \in -1..head /\ (WorkerOf[c] = Owner => Known(c) \in 0..Stored)
  <2>1. index[WorkerOf[c]] \in -1..MaxIndex /\ head \in Int
    BY <1>1 DEF Position
  <2> QED
    BY <1>1, <2>1 DEF IInv, Indexed, Known
<1>6. \A i \in alive : i \in Chunk /\ i <= Stored
  BY <1>1 DEF IInv, LastOnes
<1> QED
  BY <1>1, <1>2, <1>3, <1>4, <1>5, <1>6

\* The index stays where it is.
LEMMA IndexStays ==
    ASSUME IInv, UNCHANGED index
    PROVE  /\ index' \in [Worker -> -1..MaxIndex]
           /\ \A w \in Worker : index[w] <= index'[w] /\ index'[w] <= head
           /\ index'[Owner] <= Stored
  BY DEF IInv, TypeOK, Indexed, Stored, Position

\* Between two chunks that exist all do.
LEMMA AllBetween ==
    ASSUME IInv
    PROVE  /\ alive \subseteq Chunk
           /\ \A high, i \in alive : \A j \in i..high : j \in alive
<1>1. alive \subseteq Chunk /\ LastOnes
  BY DEF IInv, TypeOK
<1>2. Stored \in Int
  <2>1. head \in Int
    BY DEF IInv, TypeOK, Position
  <2> QED
    BY ONLY <2>1 DEF Stored
<1>3. ASSUME NEW high \in alive, NEW i \in alive, NEW j \in i..high PROVE j \in alive
  <2>1. high <= Stored /\ high \in Int /\ i \in Int
    BY ONLY <1>1, <1>3 DEF LastOnes, Chunk
  <2>2. j \in i..Stored
    BY ONLY <1>2, <1>3, <2>1
  <2> QED
    BY ONLY <1>1, <1>3, <2>2 DEF LastOnes
<1> QED
  BY <1>1, <1>3

\* What a search for the oldest chunk finds is in its range, and no chunk of it is before.
LEMMA SearchInRange ==
    ASSUME IInv, NEW low \in Chunk, NEW high \in alive, low <= high
    PROVE  /\ OldestAvailable(low, high) \in low..high
           /\ \A i \in alive : i >= low => OldestAvailable(low, high) <= i
<1>1. alive \subseteq Chunk /\ high \in Chunk /\ \A i \in alive : \A j \in i..high : j \in alive
  BY AllBetween
<1>2. OldestAvailable(low, high) = Min(alive \cap low..high)
  BY <1>1, SearchEnds
<1>3. alive \cap low..high \subseteq Nat /\ high \in alive \cap low..high
  BY <1>1 DEF Chunk
<1>4. /\ Min(alive \cap low..high) \in alive \cap low..high
      /\ \A i \in alive \cap low..high : Min(alive \cap low..high) <= i
  BY <1>3, MinIs
<1> QED
  BY <1>1, <1>2, <1>4 DEF Chunk

LEMMA SetupKeeps ==
    ASSUME IInv, NEW c \in Client, SetupStreaming(c)
    PROVE  IInv'
<1> DEFINE w == WorkerOf[c]
           known == IF index[w] = -1 THEN head ELSE index[w]
<1>1. /\ index' = [index EXCEPT ![w] = known]
      /\ UNCHANGED <<redis, buffers, source>>
  BY DEF SetupStreaming
<1>2. PICK start \in {known} \cup
                     IF stamps # {} THEN ByTime
                     ELSE IF known \in alive /\ known > 0
                          THEN {OldestAvailable(1, known) - 1} ELSE {} :
          Set(c, [Away EXCEPT !.pc = "check", !.local = start])
  BY DEF SetupStreaming
<1>3. known \in 0..head /\ (w = Owner => known = index[w]) /\ known >= index[w]
  <2>1. w \in Worker /\ index[w] \in -1..head /\ (w = Owner => index[w] \in 0..Stored)
        /\ Stored \in Int /\ head \in Nat
    BY ReaderFacts DEF Known, Position
  <2> QED
    BY <2>1
<1>4. start \in 0..head
  <2>1. CASE stamps # {} /\ start # known
    <3>1. start \in ByTime
      BY <1>2, <2>1
    <3> QED
      BY <3>1, ReaderFacts DEF ByTime, Most, IInv, Begun, Position
  <2>2. CASE stamps = {} /\ known \in alive /\ known > 0 /\ start # known
    <3>1. 1 \in Chunk
      BY <1>3, <2>2, ReaderFacts DEF Chunk, Position
    <3>2. OldestAvailable(1, known) \in 1..known
      BY <1>3, <2>2, <3>1, SearchInRange
    <3> QED
      BY <1>2, <1>3, <2>2, <3>2, ReaderFacts DEF Position
  <2>3. CASE start = known
    BY <1>3, <2>3
  <2> QED
    BY <1>2, <2>1, <2>2, <2>3
<1> DEFINE r == [Away EXCEPT !.pc = "check", !.local = start]
<1>5. r \in Reader /\ r.local = start /\ r.pc = "check"
  <2>1. start \in Position
    BY <1>4, ReaderFacts DEF Position
  <2> QED
    BY <2>1, Here, ReaderIs
<1>6. /\ index' \in [Worker -> -1..MaxIndex]
      /\ \A v \in Worker : index[v] <= index'[v] /\ index'[v] <= head
      /\ index'[Owner] <= Stored
  <2>1. /\ index \in [Worker -> -1..MaxIndex] /\ w \in Worker /\ head \in Position
        /\ Stored \in Int
    BY ReaderFacts DEF IInv, TypeOK
  <2>2. (\A v \in Worker : index[v] <= head) /\ index[Owner] \in 0..Stored
    BY DEF IInv, Indexed
  <2>3. known \in -1..MaxIndex /\ known <= head
    BY ONLY <1>3, <2>1, MaxIndex \in Nat DEF Position
  <2> HIDE DEF known, w
  <2>4. index' \in [Worker -> -1..MaxIndex]
    BY ONLY <1>1, <2>1, <2>3
  <2>5. ASSUME NEW v \in Worker PROVE index[v] <= index'[v] /\ index'[v] <= head
    BY ONLY <1>1, <1>3, <2>1, <2>2, <2>3, v \in Worker, MaxIndex \in Nat DEF Position
  <2>6. index'[Owner] <= Stored
    BY ONLY <1>1, <1>3, <2>1, <2>2, Owner \in Worker
  <2> QED
    BY <2>4, <2>5, <2>6
<1>7. Set(c, r)
  BY <1>2
<1> HIDE DEF r
<1>8. r.local <= head
  BY <1>4, <1>5, ReaderFacts DEF Position
<1> QED
  BY <1>1, <1>5, <1>6, <1>7, <1>8, ReaderMoves

LEMMA AskKeeps ==
    ASSUME IInv, NEW c \in Client, AskForChunks(c)
    PROVE  IInv'
<1>0. reader[c] \in Reader
  BY ReaderFacts
<1> DEFINE n == Least(MaxFetch, Most(1, Behind(c)))
           r == [reader[c] EXCEPT !.pc = "fetch", !.last = head, !.count = n]
<1>1. Set(c, r) /\ UNCHANGED <<redis, index, buffers, source>>
  BY DEF AskForChunks
<1>2. n \in 1..MaxFetch /\ (n = 1 \/ reader[c].local + n <= Known(c))
  BY ReaderFacts DEF Least, Most, Behind
<1>3. r \in Reader /\ r.pc = "fetch" /\ r.local = reader[c].local /\ r.last = head /\ r.count = n
  <2>1. n \in Counts
    BY <1>2 DEF Counts
  <2>2. head \in Position
    BY ReaderFacts
  <2> HIDE DEF n
  <2> QED
    BY <2>1, <2>2, <1>0, Here, ReaderIs
<1>4. /\ r.local <= head /\ r.count > 0 /\ r.last <= head
      /\ r.count = 1 \/ r.local + r.count <= head
      /\ WorkerOf[c] = Owner => r.count = 1 \/ r.local + r.count <= Stored
  <2>1. /\ reader[c].local \in 0..head /\ Known(c) \in -1..head /\ head \in Nat
        /\ WorkerOf[c] = Owner => Known(c) \in 0..Stored
        /\ Stored \in Int
    BY ReaderFacts DEF Position
  <2> HIDE DEF r, n
  <2> QED
    BY <1>2, <1>3, <2>1
<1> HIDE DEF r
<1> QED
  BY <1>1, <1>3, <1>4, IndexStays, ReaderMoves

\* A read finds chunks that are stored, no more than the index it got allows.
LEMMA FoundChunks ==
    ASSUME IInv, NEW c \in Client, At(c, "fetch"),
           NEW found, found = ((reader[c].local + 1)
                                  ..Least(reader[c].local + reader[c].count, reader[c].last))
                              \cap alive,
           found # {}
    PROVE  /\ Cardinality(found) \in Nat
           /\ reader[c].local + Cardinality(found) <= Stored
           /\ reader[c].local + reader[c].count <= head
           /\ reader[c].count = 1 => reader[c].local + 1 \in alive
<1> DEFINE r == reader[c]
           top == Least(Least(r.local + r.count, r.last), Stored)
<1>1. /\ r.local \in 0..head /\ r.count \in Nat /\ r.last \in Nat /\ Stored \in Int
      /\ head \in Nat /\ \A i \in alive : i \in Nat /\ i <= Stored
  BY ReaderFacts DEF Position, Chunk
<1>2. r.count > 0 /\ r.last <= head /\ (r.count = 1 \/ r.local + r.count <= head)
  BY DEF IInv, Placed, Asked
<1>3. top \in Int /\ found \subseteq (r.local + 1)..top /\ top <= Stored
  BY <1>1 DEF Least
<1>4. top >= r.local + 1
  BY <1>1, <1>3
<1>5. IsFiniteSet((r.local + 1)..top) /\ Cardinality((r.local + 1)..top) = top - r.local
  <2>1. r.local + 1 \in Int /\ ~(r.local + 1 > top) /\ top - (r.local + 1) + 1 = top - r.local
    BY <1>1, <1>3, <1>4
  <2> HIDE DEF top
  <2> QED
    BY <1>3, <2>1, FS_Interval
<1>6. Cardinality(found) \in Nat /\ Cardinality(found) <= top - r.local
  <2>1. IsFiniteSet(found) /\ Cardinality(found) <= Cardinality((r.local + 1)..top)
    BY <1>3, <1>5, FS_Subset
  <2> QED
    BY <1>5, <2>1, FS_CardinalityType
<1>7. r.local + Cardinality(found) <= Stored
  BY <1>1, <1>3, <1>6
<1>8. r.local + 1 <= r.last
  BY <1>1 DEF Least
<1>9. r.count = 1 => r.local + 1 \in alive
  BY <1>1 DEF Least
<1> QED
  BY <1>1, <1>2, <1>6, <1>7, <1>8, <1>9

LEMMA FetchKeeps ==
    ASSUME IInv, NEW c \in Client, FetchChunks(c)
    PROVE  IInv'
<1>0. reader[c] \in Reader
  BY ReaderFacts
<1> DEFINE r == reader[c]
           asked == (r.local + 1)..Least(r.local + r.count, r.last)
           found == asked \cap alive
           w == WorkerOf[c]
<1>1. At(c, "fetch") /\ UNCHANGED <<redis, buffers, source>>
  BY DEF FetchChunks
<1>2. CASE found = {}
  <2> DEFINE s == [r EXCEPT !.pc = IF Behind(c) > 0 THEN "search" ELSE "wait",
                            !.count = 0, !.last = 0, !.starved = TRUE]
  <2>1. Set(c, s) /\ UNCHANGED index
    BY <1>2 DEF FetchChunks
  <2>2. s \in Reader /\ s.local = r.local /\ s.pc = IF Behind(c) > 0 THEN "search" ELSE "wait"
    BY <1>0, Here, ReaderIs
  <2>3. s.pc # "fetch" /\ (s.pc = "search" => s.local < index'[w])
    BY <2>1, <2>2, ReaderFacts DEF Behind, Known
  <2> HIDE DEF s
  <2> QED
    BY <1>1, <2>1, <2>2, <2>3, ReaderFacts, IndexStays, ReaderMoves
<1>3. CASE found # {}
  <2> DEFINE s == [r EXCEPT !.pc = "check", !.local = @ + r.count, !.count = 0,
                            !.last = 0, !.starved = FALSE]
  <2>1. /\ Set(c, s)
        /\ index' = [index EXCEPT ![w] = Most(@, r.local + Cardinality(found))]
    BY <1>3 DEF FetchChunks
  <2>2. /\ Cardinality(found) \in Nat /\ r.local + Cardinality(found) <= Stored
        /\ r.local + r.count <= head
    BY <1>1, <1>3, FoundChunks
  <2>3. s \in Reader /\ s.local = r.local + r.count /\ s.pc = "check"
    <3>1. r.local + r.count \in Position
      BY <2>2, ReaderFacts DEF Position
    <3> QED
      BY <3>1, <1>0, Here, ReaderIs
  <2> HIDE DEF s, found
  <2>4. /\ index' \in [Worker -> -1..MaxIndex]
        /\ \A v \in Worker : index[v] <= index'[v] /\ index'[v] <= head
        /\ index'[Owner] <= Stored
    <3>1. index \in [Worker -> -1..MaxIndex]
      BY DEF IInv, TypeOK
    <3>2. \A v \in Worker : index[v] <= head
      BY DEF IInv, Indexed
    <3>3. index[Owner] <= Stored
      BY DEF IInv, Indexed, TypeOK, Stored, Position
    <3> QED
      BY <2>1, <2>2, <3>1, <3>2, <3>3, ReaderFacts DEF Most, Position
  <2> QED
    BY <1>1, <2>1, <2>2, <2>3, <2>4, ReaderMoves
<1> QED
  BY <1>2, <1>3

LEMMA FindKeeps ==
    ASSUME IInv, NEW c \in Client, FindOldest(c)
    PROVE  IInv'
<1>0. reader[c] \in Reader
  BY ReaderFacts
<1> DEFINE r == reader[c]
<1>1. At(c, "search") /\ r.local < Known(c) /\ UNCHANGED <<redis, index, buffers, source>>
  BY DEF FindOldest, IInv, Placed
<1>2. CASE Known(c) \in alive
  <2> DEFINE oldest == OldestAvailable(r.local + 1, Known(c))
             s == [r EXCEPT !.pc = "check", !.local = oldest - 1]
  <2>1. Set(c, s)
    BY <1>2 DEF FindOldest
  <2>2. r.local + 1 \in Chunk
    BY <1>1, ReaderFacts DEF Chunk, Position
  <2>3. oldest \in r.local + 1..Known(c)
    BY <1>1, <1>2, <2>2, ReaderFacts, SearchInRange
  <2> HIDE DEF oldest
  <2>4. s \in Reader /\ s.local = oldest - 1 /\ s.pc = "check"
    <3>1. oldest - 1 \in Position
      BY <2>3, ReaderFacts DEF Position
    <3> QED
      BY <3>1, <1>0, Here, ReaderIs
  <2> HIDE DEF s
  <2>5. s.local <= head
    <3>1. Known(c) \in -1..head /\ head \in Nat /\ reader[c].local \in Nat
      BY ReaderFacts DEF Position
    <3> QED
      BY <2>3, <2>4, <3>1
  <2> QED
    BY <1>1, <2>1, <2>4, <2>5, IndexStays, ReaderMoves
<1>3. CASE Known(c) \notin alive
  <2> DEFINE s == [r EXCEPT !.pc = "near"]
  <2>1. Set(c, s)
    BY <1>3 DEF FindOldest
  <2>2. s \in Reader /\ s.local = r.local /\ s.pc = "near"
    BY <1>0, Here, ReaderIs
  <2> HIDE DEF s
  <2> QED
    BY <1>1, <2>1, <2>2, ReaderFacts, IndexStays, ReaderMoves
<1> QED
  BY <1>2, <1>3

LEMMA NearKeeps ==
    ASSUME IInv, NEW c \in Client, JumpNearHead(c)
    PROVE  IInv'
<1>0. reader[c] \in Reader
  BY ReaderFacts
<1> DEFINE s == [reader[c] EXCEPT !.pc = "check", !.local = Most(@, Known(c) - NearHead)]
<1>1. Set(c, s) /\ UNCHANGED <<redis, index, buffers, source>>
  BY DEF JumpNearHead
<1>2. Most(reader[c].local, Known(c) - NearHead) \in 0..head
  <2>1. reader[c].local \in 0..head /\ Known(c) \in -1..head /\ head \in Nat
    BY ReaderFacts DEF Position
  <2> QED
    BY <2>1 DEF Most
<1>3. s \in Reader /\ s.local \in 0..head /\ s.pc = "check"
  <2>1. Most(reader[c].local, Known(c) - NearHead) \in Position
    BY <1>2, ReaderFacts DEF Position
  <2> QED
    BY <1>2, <2>1, <1>0, Here, ReaderIs
<1> HIDE DEF s
<1> QED
  BY <1>1, <1>3, ReaderFacts, IndexStays, ReaderMoves DEF Position

\* A client waits, or is gone.
LEMMA RestKeeps ==
    ASSUME IInv, NEW c \in Client,
           Wait(c) \/ TimedOut(c) \/ RemovedAsGhost(c) \/ Disconnect(c)
    PROVE  IInv'
<1>0. reader[c] \in Reader
  BY ReaderFacts
<1>1. UNCHANGED <<redis, index, buffers, source>>
  BY DEF Wait, TimedOut, RemovedAsGhost, Disconnect
<1>2. CASE Wait(c)
  <2>1. PICK s : /\ Set(c, s)
                 /\ \/ s = [reader[c] EXCEPT !.pc = "check"]
                    \/ s = [reader[c] EXCEPT !.pc = "check", !.starved = FALSE]
    BY <1>2 DEF Wait, Goto
  <2>2. s \in Reader /\ s.local = reader[c].local /\ s.pc = "check"
    BY <2>1, <1>0, Here, ReaderIs
  <2> QED
    BY <1>1, <2>1, <2>2, ReaderFacts, IndexStays, ReaderMoves
<1>3. CASE TimedOut(c) \/ RemovedAsGhost(c) \/ Disconnect(c)
  <2> DEFINE s == [Away EXCEPT !.pc = "done"]
  <2>1. Set(c, s)
    BY <1>3 DEF TimedOut, RemovedAsGhost, Disconnect, Leave
  <2>2. s \in Reader /\ s.local = 0 /\ s.pc = "done"
    BY Here, ReaderIs
  <2> HIDE DEF s
  <2> QED
    BY <1>1, <2>1, <2>2, ReaderFacts, IndexStays, ReaderMoves DEF Position
<1> QED
  BY <1>2, <1>3

-----------------------------------------------------------------------------
(* The steps of the writer.                                                *)

\* A step of the writer keeps what it does not touch; what it does is left to show.
LEMMA WriterKeeps ==
    ASSUME IInv, UNCHANGED reader, TypeOK', LastOnes', Begun', Unmixed', Indexed',
           head <= head', Stored <= Stored',
           \A w \in Worker : index[w] <= index'[w]
    PROVE  IInv'
<1>1. head' \in Nat /\ \A w \in Worker : index'[w] \in Int
  BY DEF TypeOK, Position
<1> QED
  BY <1>1, WriterMoves DEF IInv

\* A step that writes no chunk keeps the places; the source is left to show.
LEMMA QuietKeeps ==
    ASSUME IInv, UNCHANGED <<head, alive, index, reader>>, stamps' \subseteq stamps,
           writer' = writer \/ (writer \in {"idle", "incr"} /\ writer' \in {"idle", "incr"}),
           TypeOK', Unmixed'
    PROVE  IInv'
<1>1. Stored' = Stored /\ head' = head /\ Stored \in Int /\ head \in Nat
  BY DEF IInv, TypeOK, Position, Stored
<1>2. LastOnes' /\ Indexed'
  BY <1>1 DEF IInv, LastOnes, Indexed
<1>3. Begun'
  BY <1>1 DEF IInv, Begun
<1>4. \A w \in Worker : index[w] <= index'[w]
  BY DEF IInv, TypeOK
<1> QED
  BY <1>1, <1>2, <1>3, <1>4, WriterKeeps

-----------------------------------------------------------------------------
(* Sequences of halves.                                                    *)

LEMMA Empty ==
    <<>> \in Seq(Stream) /\ Pure(<<>>) /\ \A x : From(<<>>, x)
<1>1. <<>> \in Seq(Stream) /\ DOMAIN <<>> = {}
  BY EmptySeq
<1> QED
  BY <1>1 DEF Pure, From

LEMMA FromIsPure ==
    ASSUME NEW s, NEW x, From(s, x)
    PROVE  Pure(s)
  BY DEF From, Pure

\* Halves of one stream stay so when they are cut or put together.
LEMMA CutHalves ==
    ASSUME NEW s \in Seq(Stream), NEW m \in 1..Len(s) + 1, NEW n \in 0..Len(s)
    PROVE  /\ SubSeq(s, m, n) \in Seq(Stream)
           /\ Pure(s) => Pure(SubSeq(s, m, n))
           /\ \A x : From(s, x) => From(SubSeq(s, m, n), x)
<1>1. Len(s) \in Nat /\ DOMAIN s = 1..Len(s)
  BY LenProperties
<1>2. m \in Int /\ n \in Int
  BY <1>1
<1>3. \A i \in m..n : s[i] \in Stream
  BY <1>1, ElementOfSeq
<1>4. /\ SubSeq(s, m, n) \in Seq(Stream)
      /\ Len(SubSeq(s, m, n)) = IF m <= n THEN n - m + 1 ELSE 0
      /\ \A i \in 1..n - m + 1 : SubSeq(s, m, n)[i] = s[m + i - 1]
  BY <1>2, <1>3, SubSeqProperties
<1>5. DOMAIN SubSeq(s, m, n) = 1..Len(SubSeq(s, m, n))
  BY <1>4, LenProperties
<1> DEFINE t == SubSeq(s, m, n)
<1>6. ASSUME NEW i \in DOMAIN t PROVE m + i - 1 \in DOMAIN s /\ t[i] = s[m + i - 1]
  <2>1. i \in 1..n - m + 1
    BY <1>2, <1>4, <1>5
  <2> QED
    BY <1>1, <1>2, <1>4, <2>1
<1> HIDE DEF t
<1>7. Pure(s) => Pure(t)
  BY <1>6 DEF Pure
<1>8. \A x : From(s, x) => From(t, x)
  BY <1>6 DEF From
<1> QED
  BY <1>4, <1>7, <1>8 DEF t

LEMMA JoinHalves ==
    ASSUME NEW s \in Seq(Stream), NEW t \in Seq(Stream)
    PROVE  /\ s \o t \in Seq(Stream)
           /\ \A x : From(s, x) /\ From(t, x) => From(s \o t, x)
<1>1. /\ Len(s) \in Nat /\ Len(t) \in Nat
      /\ DOMAIN s = 1..Len(s) /\ DOMAIN t = 1..Len(t)
  BY LenProperties
<1>2. /\ s \o t \in Seq(Stream) /\ Len(s \o t) = Len(s) + Len(t)
      /\ \A i \in 1..Len(s) + Len(t) : (s \o t)[i] = IF i <= Len(s) THEN s[i] ELSE t[i - Len(s)]
  BY ConcatProperties
<1>3. DOMAIN (s \o t) = 1..Len(s) + Len(t)
  BY <1>2, LenProperties
<1>4. ASSUME NEW x, From(s, x), From(t, x), NEW i \in DOMAIN (s \o t)
      PROVE  (s \o t)[i] = x
  <2>1. CASE i <= Len(s)
    <3>1. i \in DOMAIN s /\ (s \o t)[i] = s[i]
      BY <1>1, <1>2, <1>3, <2>1
    <3> QED
      BY <1>4, <3>1 DEF From
  <2>2. CASE ~(i <= Len(s))
    <3>1. i - Len(s) \in DOMAIN t /\ (s \o t)[i] = t[i - Len(s)]
      BY <1>1, <1>2, <1>3, <2>2
    <3> QED
      BY <1>4, <3>1 DEF From
  <2> QED
    BY <2>1, <2>2
<1> QED
  BY <1>2, <1>4 DEF From

\* What is cut off the write buffer, and what stays in it.
LEMMA CutKeeps ==
    ASSUME NEW s \in Seq(Stream), Cut(s)
    PROVE  /\ chunk' \in Seq(Stream) /\ pending' \in Seq(Stream) /\ writer' \in {"idle", "incr"}
           /\ Pure(s) => Pure(chunk') /\ Pure(pending')
           /\ \A x : From(s, x) => From(pending', x)
<1>1. Len(s) \in Nat
  BY LenProperties
<1>2. CASE Len(s) >= Target
  <2>1. /\ 1 \in 1..Len(s) + 1 /\ Target \in 0..Len(s)
        /\ Target + 1 \in 1..Len(s) + 1 /\ Len(s) \in 0..Len(s)
    BY <1>1, <1>2 DEF Target
  <2>2. /\ chunk' = SubSeq(s, 1, Target) /\ pending' = SubSeq(s, Target + 1, Len(s))
        /\ writer' = "incr"
    BY <1>2 DEF Cut
  <2>3. /\ SubSeq(s, 1, Target) \in Seq(Stream)
        /\ Pure(s) => Pure(SubSeq(s, 1, Target))
    BY <2>1, CutHalves
  <2>4. /\ SubSeq(s, Target + 1, Len(s)) \in Seq(Stream)
        /\ Pure(s) => Pure(SubSeq(s, Target + 1, Len(s)))
        /\ \A x : From(s, x) => From(SubSeq(s, Target + 1, Len(s)), x)
    BY <2>1, CutHalves
  <2> QED
    BY <2>2, <2>3, <2>4
<1>3. CASE ~(Len(s) >= Target)
  <2>1. chunk' = <<>> /\ pending' = s /\ writer' = "idle"
    BY <1>3 DEF Cut
  <2> QED
    BY <2>1, Empty
<1> QED
  BY <1>2, <1>3

\* A chunk made of halves of one stream leaves the chunks unmixed.
LEMMA ChunkUnmixed ==
    ASSUME TypeOK, NEW i \in Chunk, NEW s \in Seq(Stream),
           content' = [content EXCEPT ![i] = s]
    PROVE  /\ content' \in [Chunk -> Seq(Stream)]
           /\ Pure(s) /\ (\A d \in Chunk : Pure(content[d])) => \A d \in Chunk : Pure(content'[d])
<1>1. content \in [Chunk -> Seq(Stream)]
  BY DEF TypeOK
<1>2. content'[i] = s /\ \A d \in Chunk \ {i} : content'[d] = content[d]
  BY <1>1
<1>3. content' \in [Chunk -> Seq(Stream)]
  BY <1>1
<1> QED
  BY <1>2, <1>3

-----------------------------------------------------------------------------
(* The steps of the stream thread.                                         *)

LEMMA ConnectKeeps ==
    ASSUME IInv, Connect \/ Connected \/ Disconnected
    PROVE  IInv'
<1>1. /\ UNCHANGED <<redis, index, buffers, url, hand, switching, stopper, sliced, reader>>
      /\ link' \in {url, link, NoStream} /\ opening' \in BOOLEAN
  BY DEF Connect, Connected, Disconnected
<1>2. UNCHANGED <<head, alive, content, stamps, partial, pending, chunk, writer>>
  BY <1>1 DEF redis, buffers
<1>3. \/ raced' = raced /\ (switching = "no" \/ link' = link \/ link' = NoStream)
      \/ raced' = TRUE
  <2>1. CASE Connect
    BY <2>1 DEF Connect
  <2>2. CASE Connected \/ Disconnected
    BY <2>2 DEF Connected, Disconnected
  <2> QED
    BY <2>1, <2>2
<1>4. TypeOK'
  <2>1. raced' \in BOOLEAN
    BY <1>3 DEF IInv, TypeOK
  <2>2. link' \in Stream \cup {NoStream}
    BY <1>1 DEF IInv, TypeOK
  <2> QED
    BY <1>1, <1>2, <2>1, <2>2 DEF IInv, TypeOK
<1>5. Unmixed'
  <2> SUFFICES ASSUME ~raced' PROVE Unraced'
    BY DEF Unmixed
  <2>1. raced' = raced /\ (switching = "no" \/ link' = link \/ link' = NoStream)
    BY <1>3
  <2>2. Unraced
    BY <2>1 DEF IInv, Unmixed
  <2>3. link' \in {NoStream, url'} /\ (switching' # "no" => link' = NoStream)
    BY <1>1, <2>1, <2>2 DEF Unraced
  <2>4. UNCHANGED <<url, hand, switching, sliced>>
    BY <1>1
  <2> QED
    BY <1>2, <2>2, <2>3, <2>4 DEF Unraced
<1> QED
  BY <1>1, <1>2, <1>4, <1>5, QuietKeeps

LEMMA ReadKeeps ==
    ASSUME IInv, NEW n \in Reads, ReadSocket(n)
    PROVE  IInv'
<1> DEFINE new == [i \in 1..n |-> link]
<1>1. /\ UNCHANGED <<redis, index, buffers, url, link, opening, switching, raced, stopper,
                     sliced, reader>>
      /\ hand' = new /\ link # NoStream
  BY DEF ReadSocket
<1>2. UNCHANGED <<head, alive, content, stamps, partial, pending, chunk, writer>>
  BY <1>1 DEF redis, buffers
<1>3. link \in Stream
  BY <1>1 DEF IInv, TypeOK
<1>4. new \in Seq(Stream) /\ From(new, link)
  <2>1. n \in Nat /\ DOMAIN new = 1..n
    OBVIOUS
  <2>2. new \in Seq(Stream)
    BY <1>3, <2>1
  <2> QED
    BY <2>2 DEF From
<1> HIDE DEF new
<1>5. TypeOK'
  BY <1>1, <1>2, <1>4 DEF IInv, TypeOK
<1>6. Unmixed'
  <2> SUFFICES ASSUME ~raced' PROVE Unraced'
    BY DEF Unmixed
  <2>1. Unraced
    BY <1>1 DEF IInv, Unmixed
  <2>2. link = url /\ switching = "no"
    BY <1>1, <2>1 DEF Unraced
  <2> QED
    BY <1>1, <1>2, <1>4, <2>1, <2>2 DEF Unraced
<1> QED
  BY <1>1, <1>2, <1>5, <1>6, QuietKeeps

LEMMA AddKeeps ==
    ASSUME IInv, AddChunk
    PROVE  IInv'
<1> DEFINE combined == partial \o hand
           whole == (Len(combined) \div Packet) * Packet
           packets == SubSeq(combined, 1, whole)
           rest == SubSeq(combined, whole + 1, Len(combined))
<1>1. /\ writer = "idle" /\ hand # <<>> /\ hand' = <<>>
      /\ partial' = rest /\ Cut(pending \o packets)
      /\ UNCHANGED <<redis, index, url, link, opening, switching, raced, stopper, sliced, reader>>
  BY DEF AddChunk
<1>2. UNCHANGED <<head, alive, content, stamps>>
  BY <1>1 DEF redis
<1>3. partial \in Seq(Stream) /\ pending \in Seq(Stream) /\ hand \in Seq(Stream)
  BY DEF IInv, TypeOK
<1>4. /\ combined \in Seq(Stream)
      /\ \A x : From(partial, x) /\ From(hand, x) => From(combined, x)
  BY <1>3, JoinHalves
<1> HIDE DEF combined
<1>5. Len(combined) \in Nat
  BY <1>4, LenProperties
<1>6. whole \in 0..Len(combined)
  BY <1>5 DEF Packet
<1> HIDE DEF whole
<1>7. /\ 1 \in 1..Len(combined) + 1
      /\ whole + 1 \in 1..Len(combined) + 1 /\ Len(combined) \in 0..Len(combined)
  BY <1>5, <1>6
<1>8. packets \in Seq(Stream) /\ \A x : From(combined, x) => From(packets, x)
  BY <1>4, <1>6, <1>7, CutHalves
<1>9. rest \in Seq(Stream) /\ \A x : From(combined, x) => From(rest, x)
  BY <1>4, <1>7, CutHalves
<1> HIDE DEF packets, rest
<1>10. /\ pending \o packets \in Seq(Stream)
       /\ \A x : From(pending, x) /\ From(packets, x) => From(pending \o packets, x)
  BY <1>3, <1>8, JoinHalves
<1>11. /\ chunk' \in Seq(Stream) /\ pending' \in Seq(Stream) /\ writer' \in {"idle", "incr"}
       /\ Pure(pending \o packets) => Pure(chunk') /\ Pure(pending')
       /\ \A x : From(pending \o packets, x) => From(pending', x)
  BY <1>1, <1>10, CutKeeps
<1>12. TypeOK'
  BY <1>1, <1>2, <1>9, <1>11, Empty DEF IInv, TypeOK
<1>13. Unmixed'
  <2> SUFFICES ASSUME ~raced' PROVE Unraced'
    BY DEF Unmixed
  <2>1. Unraced
    BY <1>1 DEF IInv, Unmixed
  <2>2. switching = "no" /\ From(partial, url) /\ From(pending, url) /\ From(hand, url)
    BY <1>1, <2>1 DEF Unraced
  <2>3. From(pending \o packets, url) /\ From(rest, url)
    BY <1>4, <1>8, <1>9, <1>10, <2>2
  <2>4. Pure(chunk') /\ Pure(pending') /\ From(pending', url)
    BY <1>11, <2>3, FromIsPure
  <2> QED
    BY <1>1, <1>2, <2>1, <2>2, <2>3, <2>4, Empty DEF Unraced
<1> QED
  BY <1>1, <1>2, <1>11, <1>12, <1>13, QuietKeeps

\* The next number goes to a chunk, of add_chunk or of the stop.
LEMMA NumberKeeps ==
    ASSUME IInv, head < MaxIndex, head' = head + 1, NEW s \in Seq(Stream),
           content' = [content EXCEPT ![head + 1] = s],
           ~raced => Pure(s),
           writer \in {"idle", "incr"}, writer' \in {"setex", "flush"},
           UNCHANGED <<alive, stamps, index, partial, pending, chunk, source, reader>>
    PROVE  IInv'
<1>1. head \in Position /\ head \in Nat /\ head + 1 \in Chunk /\ head' \in Position
  BY DEF IInv, TypeOK, Position, Chunk
<1>2. UNCHANGED <<url, link, opening, hand, switching, raced, stopper, sliced>>
  BY DEF source
<1>3. /\ content' \in [Chunk -> Seq(Stream)]
      /\ Pure(s) /\ (\A d \in Chunk : Pure(content[d])) => \A d \in Chunk : Pure(content'[d])
  BY <1>1, ChunkUnmixed DEF IInv
<1>4. TypeOK'
  <2>1. writer' \in {"idle", "incr", "setex", "stamp", "flush"}
    OBVIOUS
  <2>2. UNCHANGED <<alive, stamps, index, partial, pending, chunk, reader>>
    OBVIOUS
  <2> QED
    BY ONLY IInv, <1>1, <1>2, <1>3, <2>1, <2>2 DEF IInv, TypeOK
<1>5. Unmixed'
  <2> SUFFICES ASSUME ~raced' PROVE Unraced'
    BY DEF Unmixed
  <2>1. Unraced /\ Pure(s)
    BY <1>2 DEF IInv, Unmixed
  <2> QED
    BY <1>2, <1>3, <2>1 DEF Unraced
<1>6. Stored' = Stored /\ Stored = head
  BY <1>1 DEF Stored
<1>7. LastOnes' /\ Indexed'
  BY <1>1, <1>6 DEF IInv, TypeOK, LastOnes, Indexed, Position
<1>8. Begun'
  BY <1>1 DEF IInv, Begun
<1>9. /\ head <= head' /\ Stored <= Stored'
      /\ \A w \in Worker : index[w] <= index'[w]
  BY <1>1, <1>6 DEF IInv, TypeOK
<1> QED
  BY <1>4, <1>5, <1>7, <1>8, <1>9, WriterKeeps

LEMMA IncrementKeeps ==
    ASSUME IInv, IncrementIndex
    PROVE  IInv'
<1>1. chunk \in Seq(Stream) /\ (~raced => Pure(chunk))
  BY DEF IInv, TypeOK, Unmixed, Unraced
<1> QED
  BY <1>1, NumberKeeps DEF IncrementIndex

\* A chunk is stored, by add_chunk or as the last one.
LEMMA StoreKeeps ==
    ASSUME IInv, StoreChunk \/ StoreLast
    PROVE  IInv'
<1>1. /\ writer \in {"setex", "flush"} /\ alive' = alive \cup {head}
      /\ writer' \in {"stamp", "idle"} /\ (writer' = "stamp" => writer = "setex")
      /\ UNCHANGED <<head, content, stamps, chunk, url, link, opening, hand, switching, raced,
                     reader>>
      /\ \/ UNCHANGED <<partial, pending, sliced, stopper, index>>
         \/ /\ partial' = <<>> /\ pending' = <<>> /\ sliced' = <<>> /\ stopper' = "unstamp"
            /\ index' = [index EXCEPT ![Owner] = head]
  BY DEF StoreChunk, StoreLast, source
<1>2. /\ head \in Position /\ head > 0 /\ Stored = head - 1 /\ Stored' = head
      /\ index \in [Worker -> -1..MaxIndex] /\ stamps \subseteq 1..head
      /\ \A w \in Worker : index[w] <= head
      /\ index[Owner] \in 0..head - 1
  BY <1>1 DEF IInv, TypeOK, Stored, Begun, Indexed
<1>3. TypeOK'
  <2>1. {head} \subseteq Chunk /\ head \in -1..MaxIndex
    BY <1>2 DEF Position, Chunk
  <2>2. alive \subseteq Chunk /\ alive' \subseteq Chunk
    BY <1>1, <2>1 DEF IInv, TypeOK
  <2>3. index' \in [Worker -> -1..MaxIndex]
    BY <1>1, <1>2, <2>1
  <2>4. /\ partial' \in Seq(Stream) /\ pending' \in Seq(Stream) /\ sliced' \in Seq(Stream)
        /\ stopper' \in {"no", "stopping", "flush", "unstamp", "stopped"}
        /\ writer' \in {"idle", "incr", "setex", "stamp", "flush"}
    BY <1>1, Empty DEF IInv, TypeOK
  <2> QED
    BY <1>1, <2>2, <2>3, <2>4 DEF IInv, TypeOK
<1>4. Unmixed'
  <2> SUFFICES ASSUME ~raced' PROVE Unraced'
    BY DEF Unmixed
  <2>1. Unraced
    BY <1>1 DEF IInv, Unmixed
  <2>2. /\ Pure(pending') /\ Pure(sliced')
        /\ switching # "set" => From(partial', url) /\ From(pending', url)
    BY <1>1, <2>1, Empty DEF Unraced
  <2> QED
    BY <1>1, <2>1, <2>2 DEF Unraced
<1>5. Begun'
  BY <1>1, <1>2 DEF Begun
<1>6. LastOnes'
  <2>1. alive \subseteq Chunk /\ LastOnes
    BY DEF IInv, TypeOK
  <2>2. ASSUME NEW i \in alive' PROVE i <= head /\ \A j \in i..head : j \in alive'
    BY ONLY <1>1, <1>2, <2>1, <2>2 DEF LastOnes, Position, Chunk
  <2> QED
    BY ONLY <1>2, <2>2 DEF LastOnes
<1>7. Indexed' /\ \A w \in Worker : index[w] <= index'[w]
  BY <1>1, <1>2 DEF Indexed, Position
<1> QED
  BY <1>1, <1>2, <1>3, <1>4, <1>5, <1>6, <1>7, WriterKeeps DEF Position

LEMMA StampKeeps ==
    ASSUME IInv, StampChunk
    PROVE  IInv'
<1>1. /\ writer = "stamp" /\ stamps' = (stamps \cap alive) \cup {head}
      /\ index' = [index EXCEPT ![Owner] = head]
      /\ Cut(pending)
      /\ UNCHANGED <<head, alive, content, partial, source, reader>>
  BY DEF StampChunk
<1>2. UNCHANGED <<url, link, opening, hand, switching, raced, stopper, sliced>>
  BY <1>1 DEF source
<1>3. /\ chunk' \in Seq(Stream) /\ pending' \in Seq(Stream) /\ writer' \in {"idle", "incr"}
      /\ Pure(pending) => Pure(chunk') /\ Pure(pending')
      /\ \A x : From(pending, x) => From(pending', x)
  BY <1>1, CutKeeps DEF IInv, TypeOK
<1>4. /\ head \in Position /\ head > 0 /\ Stored = head /\ Stored' = head
      /\ index \in [Worker -> -1..MaxIndex] /\ stamps \subseteq 1..head
      /\ \A w \in Worker : index[w] <= head
      /\ index[Owner] \in 0..head
  BY <1>1, <1>3 DEF IInv, TypeOK, Stored, Begun, Indexed
<1>5. TypeOK'
  <2>1. {head} \subseteq Chunk /\ head \in -1..MaxIndex
    BY <1>4 DEF Position, Chunk
  <2>2. stamps' \subseteq Chunk /\ index' \in [Worker -> -1..MaxIndex]
    BY <1>1, <1>4, <2>1 DEF IInv, TypeOK
  <2> QED
    BY <1>1, <1>2, <1>3, <2>2 DEF IInv, TypeOK
<1>6. Unmixed'
  <2> SUFFICES ASSUME ~raced' PROVE Unraced'
    BY DEF Unmixed
  <2>1. Unraced
    BY <1>2 DEF IInv, Unmixed
  <2> QED
    BY <1>1, <1>2, <1>3, <2>1 DEF Unraced
<1>7. Begun'
  <2>1. {head} \subseteq 1..head
    BY <1>4 DEF Position
  <2> QED
    BY <1>1, <1>3, <1>4, <2>1 DEF Begun
<1>8. LastOnes'
  BY <1>1, <1>4 DEF IInv, LastOnes
<1>9. Indexed' /\ \A w \in Worker : index[w] <= index'[w]
  BY <1>1, <1>4 DEF Indexed, Position
<1> QED
  BY <1>1, <1>4, <1>5, <1>6, <1>7, <1>8, <1>9, WriterKeeps DEF Position

-----------------------------------------------------------------------------
(* The steps of switches and stops, and of time.                           *)

\* The buffer is emptied, by the stream thread's switch or a request's.
LEMMA ResetKeeps ==
    ASSUME IInv, SwitchInRun \/ EndSwitch
    PROVE  IInv'
<1>1. /\ partial' = <<>> /\ pending' = <<>>
      /\ UNCHANGED <<redis, index, chunk, writer, opening, hand, raced, stopper, sliced, reader>>
      /\ \/ /\ hand = <<>> /\ url' \in Stream /\ link' = NoStream
            /\ switching' = switching
         \/ /\ switching = "set" /\ switching' = "no"
            /\ UNCHANGED <<url, link>>
  BY DEF SwitchInRun, EndSwitch, ResetBufferPosition, Between, IInv, TypeOK, Stream
<1>2. UNCHANGED <<head, alive, content, stamps>>
  BY <1>1 DEF redis
<1>3. TypeOK'
  BY <1>1, <1>2, Empty DEF IInv, TypeOK
<1>4. Unmixed'
  <2> SUFFICES ASSUME ~raced' PROVE Unraced'
    BY DEF Unmixed
  <2>1. Unraced
    BY <1>1 DEF IInv, Unmixed
  <2>2. hand' = <<>> /\ link' \in {NoStream, url'} /\ (switching' # "no" => link' = NoStream)
    BY <1>1, <2>1 DEF Unraced
  <2>3. Pure(pending') /\ From(partial', url') /\ From(pending', url') /\ From(hand', url')
    BY <1>1, <2>2, Empty
  <2> QED
    BY <1>1, <1>2, <2>1, <2>2, <2>3 DEF Unraced
<1> QED
  BY <1>1, <1>2, <1>3, <1>4, QuietKeeps

LEMMA CloseKeeps ==
    ASSUME IInv, CloseForSwitch \/ StopManager
    PROVE  IInv'
<1>1. /\ UNCHANGED <<redis, index, buffers, url, opening, hand, sliced, reader>>
      /\ link' = IF opening THEN link ELSE NoStream
      /\ \/ /\ switching = "no" /\ switching' = "closed" /\ stopper' = stopper
            /\ raced' = (raced \/ opening \/ hand # <<>>)
         \/ /\ stopper' = "stopping" /\ UNCHANGED <<switching, raced>>
  BY DEF CloseForSwitch, StopManager
<1>2. UNCHANGED <<head, alive, content, stamps, partial, pending, chunk, writer>>
  BY <1>1 DEF redis, buffers
<1>3. TypeOK'
  BY <1>1, <1>2 DEF IInv, TypeOK
<1>4. Unmixed'
  <2> SUFFICES ASSUME ~raced' PROVE Unraced'
    BY DEF Unmixed
  <2>1. Unraced
    BY <1>1 DEF IInv, Unmixed
  <2> QED
    BY <1>1, <1>2, <2>1 DEF Unraced
<1> QED
  BY <1>1, <1>2, <1>3, <1>4, QuietKeeps

LEMMA UrlKeeps ==
    ASSUME IInv, SetUrl
    PROVE  IInv'
<1>1. /\ switching = "closed" /\ switching' = "set" /\ url' \in Stream
      /\ UNCHANGED <<redis, index, buffers, link, opening, hand, raced, stopper, sliced, reader>>
  BY DEF SetUrl, IInv, TypeOK, Stream
<1>2. UNCHANGED <<head, alive, content, stamps, partial, pending, chunk, writer>>
  BY <1>1 DEF redis, buffers
<1>3. TypeOK'
  BY <1>1, <1>2 DEF IInv, TypeOK
<1>4. Unmixed'
  <2> SUFFICES ASSUME ~raced' PROVE Unraced'
    BY DEF Unmixed
  <2>1. Unraced
    BY <1>1 DEF IInv, Unmixed
  <2> QED
    BY <1>1, <1>2, <2>1 DEF Unraced
<1> QED
  BY <1>1, <1>2, <1>3, <1>4, QuietKeeps

LEMMA StopKeeps ==
    ASSUME IInv, SliceOnStop \/ DropStamps
    PROVE  IInv'
<1>1. /\ UNCHANGED <<head, alive, content, index, buffers, url, link, opening, hand, switching,
                     raced, reader>>
      /\ stopper' \in {"flush", "unstamp", "stopped"}
      /\ sliced' \in {sliced, pending} /\ stamps' \in {stamps, {}}
  BY DEF SliceOnStop, DropStamps, redis
<1>2. UNCHANGED <<partial, pending, chunk, writer>>
  BY <1>1 DEF buffers
<1>3. TypeOK'
  BY <1>1, <1>2 DEF IInv, TypeOK
<1>4. Unmixed'
  <2> SUFFICES ASSUME ~raced' PROVE Unraced'
    BY DEF Unmixed
  <2>1. Unraced
    BY <1>1 DEF IInv, Unmixed
  <2> QED
    BY <1>1, <1>2, <2>1 DEF Unraced
<1> QED
  BY <1>1, <1>2, <1>3, <1>4, QuietKeeps

LEMMA FlushKeeps ==
    ASSUME IInv, FlushOnStop
    PROVE  IInv'
<1>1. sliced \in Seq(Stream) /\ (~raced => Pure(sliced))
  BY DEF IInv, TypeOK, Unmixed, Unraced
<1> QED
  BY <1>1, NumberKeeps DEF FlushOnStop

LEMMA ExpireKeeps ==
    ASSUME IInv, Expire
    PROVE  IInv'
<1> DEFINE oldest == Min(alive)
<1>1. /\ alive # {} /\ alive' = alive \ {oldest}
      /\ content' = [content EXCEPT ![oldest] = <<>>]
      /\ UNCHANGED <<head, stamps, index, buffers, source, reader>>
  BY DEF Expire
<1>2. alive \subseteq Chunk /\ alive \subseteq Nat
  BY DEF IInv, TypeOK, Chunk
<1>3. oldest \in alive /\ \A i \in alive : oldest <= i
  BY <1>1, <1>2, MinIs
<1> HIDE DEF oldest
<1>4. /\ content' \in [Chunk -> Seq(Stream)]
      /\ (\A d \in Chunk : Pure(content[d])) => \A d \in Chunk : Pure(content'[d])
  BY <1>1, <1>2, <1>3, ChunkUnmixed, Empty DEF IInv
<1>5. TypeOK'
  BY <1>1, <1>2, <1>4 DEF IInv, TypeOK, buffers, source
<1>6. Unmixed' /\ Begun' /\ Stored' = Stored /\ head' = head
  <2>1. Begun' /\ Stored' = Stored /\ head' = head
    BY <1>1 DEF IInv, Begun, Stored, buffers
  <2>2. Unmixed'
    BY <1>1, <1>4 DEF IInv, Unmixed, Unraced, buffers, source
  <2> QED
    BY <2>1, <2>2
<1>7. LastOnes'
  <2>1. \A i \in alive' : i \in alive /\ i # oldest /\ i \in Int /\ oldest < i
    BY <1>1, <1>2, <1>3
  <2>2. oldest \in Int /\ Stored \in Int
    <3>1. Stored \in Int
      BY DEF IInv, TypeOK, Position, Stored
    <3> QED
      BY <1>2, <1>3, <3>1
  <2> QED
    BY <1>1, <1>6, <2>1, <2>2 DEF IInv, LastOnes
<1>8. Indexed'
  BY <1>1, <1>6 DEF IInv, Indexed
<1>9. /\ head <= head' /\ Stored <= Stored'
      /\ \A w \in Worker : index[w] <= index'[w]
  BY <1>1, <1>6 DEF IInv, TypeOK, Position, Stored
<1> QED
  BY <1>1, <1>5, <1>6, <1>7, <1>8, <1>9, WriterKeeps

-----------------------------------------------------------------------------
(* The theorems.                                                           *)

LEMMA InitHolds == Init => IInv
<1> SUFFICES ASSUME Init PROVE IInv
  OBVIOUS
<1>1. TypeOK
  <2>1. <<>> \in Seq(Stream)
    BY Empty
  <2>2. reader \in [Client -> Reader] /\ 1 \in Stream
    BY Here DEF Init, Stream
  <2>3. /\ head \in Position /\ alive \subseteq Chunk /\ stamps \subseteq Chunk
        /\ index \in [Worker -> -1..MaxIndex]
    BY DEF Init, Position
  <2>4. content \in [Chunk -> Seq(Stream)]
    BY <2>1 DEF Init
  <2>5. /\ partial \in Seq(Stream) /\ pending \in Seq(Stream) /\ chunk \in Seq(Stream)
        /\ hand \in Seq(Stream) /\ sliced \in Seq(Stream)
    BY <2>1 DEF Init
  <2>6. /\ url \in Stream /\ link \in Stream \cup {NoStream}
        /\ opening \in BOOLEAN /\ raced \in BOOLEAN
    BY <2>2 DEF Init
  <2>7. /\ writer \in {"idle", "incr", "setex", "stamp", "flush"}
        /\ switching \in {"no", "closed", "set"}
        /\ stopper \in {"no", "stopping", "flush", "unstamp", "stopped"}
    BY DEF Init
  <2> QED
    BY ONLY <2>2, <2>3, <2>4, <2>5, <2>6, <2>7 DEF TypeOK
<1>2. LastOnes /\ Begun /\ Stored = 0
  BY DEF Init, LastOnes, Begun, Stored
<1>3. Unmixed
  <2>1. \A i \in Chunk : content[i] = <<>>
    BY DEF Init
  <2> QED
    BY <2>1, Empty DEF Init, Unmixed, Unraced
<1>4. Indexed
  BY <1>2 DEF Init, Indexed
<1>5. ASSUME NEW c \in Client PROVE Placed(c)
  <2>1. reader[c].local = 0 /\ reader[c].pc = "away" /\ head = 0
    BY DEF Init, Away
  <2> QED
    BY <2>1 DEF Placed, At
<1> QED
  BY <1>1, <1>2, <1>3, <1>4, <1>5 DEF IInv

LEMMA StepHolds == IInv /\ [Next]_vars => IInv'
<1> SUFFICES ASSUME IInv, [Next]_vars PROVE IInv'
  OBVIOUS
<1>1. CASE Write
  BY <1>1, ConnectKeeps, ReadKeeps, AddKeeps, IncrementKeeps, StoreKeeps, StampKeeps, ExpireKeeps
     DEF Write
<1>6. CASE Switch
  BY <1>6, ResetKeeps, CloseKeeps, UrlKeeps DEF Switch
<1>7. CASE Stop
  BY <1>7, CloseKeeps, StopKeeps, FlushKeeps, StoreKeeps DEF Stop
<1>2. ASSUME NEW c \in Client, SetupStreaming(c) PROVE IInv'
  BY <1>2, SetupKeeps
<1>3. ASSUME NEW c \in Client, Generate(c) PROVE IInv'
  BY <1>3, AskKeeps, FetchKeeps, FindKeeps, NearKeeps, RestKeeps DEF Generate
<1>4. ASSUME NEW c \in Client, TimedOut(c) \/ RemovedAsGhost(c) \/ Disconnect(c) PROVE IInv'
  BY <1>4, RestKeeps
<1>5. CASE UNCHANGED vars
  BY <1>5 DEF vars, redis, buffers, source, IInv, TypeOK, LastOnes, Begun, Unmixed, Unraced,
              Indexed, Placed, Stored, Asked, At, Known
<1> QED
  BY <1>1, <1>2, <1>3, <1>4, <1>5, <1>6, <1>7 DEF Next

LEMMA Invariant == Spec => []IInv
  BY InitHolds, StepHolds, PTL DEF Spec

\* In every state the search is right, and nobody is past the head.
LEMMA DeliveryHolds == IInv => DeliverySound
<1> SUFFICES ASSUME IInv PROVE DeliverySound
  OBVIOUS
<1>1. SearchFindsOldest
  <2> SUFFICES ASSUME NEW low \in Chunk, NEW high \in Chunk, low <= high, high \in alive
               PROVE  OldestAvailable(low, high) = Min(alive \cap low..high)
    BY DEF SearchFindsOldest
  <2>1. alive \subseteq Chunk /\ \A i \in alive : \A j \in i..high : j \in alive
    BY AllBetween
  <2> QED
    BY <2>1, SearchEnds
<1>2. OneStreamPerChunk
  BY DEF IInv, Unmixed, Unraced, Pure, OneStreamPerChunk
<1> QED
  BY <1>1, <1>2 DEF IInv, Placed, NeverPastHead, DeliverySound

\* What chunks a client of the owner's worker passes over when it reads.
LEMMA FetchPasses ==
    ASSUME IInv, NEW c \in Client, FetchChunks(c), WorkerOf[c] = Owner,
           NEW i \in (reader[c].local + 1)..reader'[c].local
    PROVE  i \in alive \/ \A j \in alive : j > i
<1> DEFINE r == reader[c]
           found == ((r.local + 1)..Least(r.local + r.count, r.last)) \cap alive
<1>1. reader \in [Client -> Reader] /\ r \in Reader /\ At(c, "fetch")
  BY DEF IInv, TypeOK, FetchChunks
<1>2. found # {}
  <2> SUFFICES ASSUME found = {} PROVE FALSE
    OBVIOUS
  <2>1. reader'[c].local = r.local
    BY <1>1, ReaderIs DEF FetchChunks, Set
  <2> QED
    BY <2>1, ReaderFacts
<1>3. reader'[c].local = r.local + r.count
  BY <1>1, <1>2, ReaderIs DEF FetchChunks, Set
<1>4. /\ r.local \in Nat /\ r.count \in Nat /\ Stored \in Int
      /\ alive \subseteq Nat /\ \A j \in alive : j <= Stored
  BY ReaderFacts DEF Position, Chunk
<1>5. (r.count = 1 => r.local + 1 \in alive) /\ (r.count = 1 \/ r.local + r.count <= Stored)
  BY <1>1, <1>2, FoundChunks DEF IInv, Placed, Asked
<1>6. CASE i \notin alive
  <2>1. i <= Stored /\ i \in Nat
    BY <1>3, <1>4, <1>5, <1>6
  <2>2. ASSUME NEW j \in alive, j <= i PROVE FALSE
    BY <1>4, <1>6, <2>1, <2>2 DEF IInv, LastOnes
  <2> QED
    BY <1>4, <2>1, <2>2
<1> QED
  BY <1>6

\* What a search does to a position.
LEMMA SearchPasses ==
    ASSUME IInv, NEW c \in Client, FindOldest(c)
    PROVE  /\ reader'[c].local >= reader[c].local
           /\ ((reader[c].local + 1)..reader'[c].local) \cap alive = {}
<1>1. reader \in [Client -> Reader] /\ reader[c] \in Reader
  BY DEF IInv, TypeOK
<1>2. reader[c].local \in Nat /\ reader[c].local < Known(c) /\ Known(c) \in -1..head
      /\ head \in Nat /\ head <= MaxIndex /\ alive \subseteq Nat
  BY ReaderFacts DEF FindOldest, IInv, Placed, Position, Chunk
<1>3. CASE Known(c) \in alive
  <2> DEFINE oldest == OldestAvailable(reader[c].local + 1, Known(c))
  <2>1. reader'[c].local = oldest - 1
    BY <1>1, <1>3, ReaderIs DEF FindOldest, Set
  <2>2. reader[c].local + 1 \in Chunk /\ reader[c].local + 1 <= Known(c)
    BY <1>2 DEF Chunk
  <2>3. /\ oldest \in reader[c].local + 1..Known(c)
        /\ \A i \in alive : i >= reader[c].local + 1 => oldest <= i
    BY <1>3, <2>2, SearchInRange
  <2> HIDE DEF oldest
  <2> QED
    BY <1>2, <2>1, <2>3
<1>4. CASE Known(c) \notin alive
  <2>1. reader'[c].local = reader[c].local
    BY <1>1, <1>4, ReaderIs DEF FindOldest, Set
  <2> QED
    BY <1>2, <2>1
<1> QED
  BY <1>3, <1>4

\* A step goes forward, over expired chunks only.
Forward(c) ==
    LET r == reader[c]
        passed == (r.local + 1)..reader'[c].local IN
    /\ r.pc = "fetch" /\ WorkerOf[c] = Owner
          => \A i \in passed : i \in alive \/ \A j \in alive : j > i
    /\ r.pc = "search" => passed \cap alive = {}
    /\ reader'[c].pc # "done" => reader'[c].local >= r.local

\* A client that does not move, or is gone, goes forward.
LEMMA StaysForward ==
    ASSUME IInv, NEW c \in Client, NEW r \in Reader, reader'[c] = r,
           r.local = reader[c].local \/ (r.pc = "done" /\ r.local = 0)
    PROVE  Forward(c)
<1>1. reader[c].local \in Nat /\ reader'[c].local \in Nat
      /\ (reader'[c].pc = "done" \/ reader'[c].local = reader[c].local)
      /\ reader'[c].local <= reader[c].local
  BY ReaderFacts, ReaderIs DEF Position
<1>2. (reader[c].local + 1)..reader'[c].local = {}
  BY <1>1
<1> QED
  BY <1>1, <1>2 DEF Forward

LEMMA StepForward ==
    ASSUME IInv, Next, NEW c \in Client
    PROVE  Forward(c)
<1>0. reader \in [Client -> Reader] /\ reader[c] \in Reader
  BY DEF IInv, TypeOK
<1>1. CASE reader'[c] = reader[c]
  BY <1>0, <1>1, StaysForward
<1>2. CASE reader'[c] # reader[c]
  <2>1. \/ SetupStreaming(c) \/ Generate(c)
        \/ TimedOut(c) \/ RemovedAsGhost(c) \/ Disconnect(c)
    <3>1. ~Write /\ ~Switch /\ ~Stop
      <4>1. ~Write
        BY <1>2 DEF Write, Connect, Connected, Disconnected, ReadSocket, AddChunk,
                    IncrementIndex, StoreChunk, StampChunk, Expire
      <4>2. ~Switch
        BY <1>2 DEF Switch, SwitchInRun, CloseForSwitch, SetUrl, EndSwitch
      <4>3. ~Stop
        BY <1>2 DEF Stop, StopManager, SliceOnStop, FlushOnStop, StoreLast, DropStamps
      <4> QED
        BY <4>1, <4>2, <4>3
    <3>2. PICK d \in Client : \/ SetupStreaming(d) \/ Generate(d)
                              \/ TimedOut(d) \/ RemovedAsGhost(d) \/ Disconnect(d)
      BY <3>1 DEF Next
    <3>3. \E r : reader' = [reader EXCEPT ![d] = r]
      BY <3>2 DEF SetupStreaming, Generate, AskForChunks, FetchChunks, FindOldest,
                  JumpNearHead, Wait, TimedOut, RemovedAsGhost, Disconnect, Leave, Goto, Set
    <3>4. d = c
      BY <1>0, <1>2, <3>3
    <3> QED
      BY <3>2, <3>4
  <2>2. reader'[c] \in Reader
    BY StepHolds DEF IInv, TypeOK
  <2>3. CASE SetupStreaming(c)
    <3>1. reader[c].pc = "away" /\ reader[c].local = 0
      BY <2>3 DEF SetupStreaming, At, IInv, Placed
    <3>2. reader'[c].local \in Nat
      BY <2>2, ReaderIs DEF Position
    <3> QED
      BY <3>1, <3>2 DEF Forward
  <2>4. CASE FetchChunks(c)
    <3>1. reader[c].pc = "fetch"
      BY <2>4 DEF FetchChunks, At
    <3>2. reader'[c].local \in {reader[c].local, reader[c].local + reader[c].count}
      BY <1>0, <2>4, ReaderIs DEF FetchChunks, Set
    <3>3. reader'[c].local >= reader[c].local
      BY <3>2, ReaderFacts DEF Position
    <3> QED
      BY <2>4, <3>1, <3>3, FetchPasses DEF Forward
  <2>5. CASE FindOldest(c)
    <3>1. reader[c].pc = "search"
      BY <2>5 DEF FindOldest, At
    <3> QED
      BY <2>5, <3>1, SearchPasses DEF Forward
  <2>6. CASE JumpNearHead(c)
    <3>1. reader[c].pc = "near"
      BY <2>6 DEF JumpNearHead, At
    <3>2. reader'[c].local = Most(reader[c].local, Known(c) - NearHead)
      BY <1>0, <2>6, ReaderIs DEF JumpNearHead, Set
    <3>3. reader[c].local \in Nat /\ Known(c) \in Int
      BY ReaderFacts DEF Position
    <3> QED
      BY <3>1, <3>2, <3>3 DEF Forward, Most
  <2>7. CASE AskForChunks(c) \/ Wait(c)
    <3>1. reader'[c].local = reader[c].local
      <4>1. CASE AskForChunks(c)
        <5>1. PICK last, count :
                 reader' = [reader EXCEPT ![c] = [reader[c] EXCEPT !.pc = "fetch", !.last = last,
                                                                   !.count = count]]
          BY <4>1 DEF AskForChunks, Set
        <5>2. reader'[c] = [reader[c] EXCEPT !.pc = "fetch", !.last = last, !.count = count]
          BY ONLY <1>0, <5>1, c \in Client
        <5> QED
          BY ONLY <1>0, <5>2, ReaderIs
      <4>2. CASE Wait(c)
        <5>1. \/ reader'[c] = [reader[c] EXCEPT !.pc = "check"]
              \/ reader'[c] = [reader[c] EXCEPT !.pc = "check", !.starved = FALSE]
          BY <1>0, <4>2 DEF Wait, Goto, Set
        <5> QED
          BY ONLY <1>0, <5>1, ReaderIs
      <4> QED
        BY <2>7, <4>1, <4>2
    <3> QED
      BY <2>2, <3>1, StaysForward
  <2>8. CASE TimedOut(c) \/ RemovedAsGhost(c) \/ Disconnect(c)
    <3>1. reader'[c] = [Away EXCEPT !.pc = "done"]
      BY <1>0, <2>8 DEF TimedOut, RemovedAsGhost, Disconnect, Leave, Set
    <3>2. reader'[c].pc = "done" /\ reader'[c].local = 0
      BY <3>1, Here, ReaderIs
    <3> QED
      BY <2>2, <3>2, StaysForward
  <2> QED
    BY <2>1, <2>3, <2>4, <2>5, <2>6, <2>7, <2>8 DEF Generate
<1> QED
  BY <1>1, <1>2

\* A chunk holds halves of one stream through any retries, reconnections, failovers and stops,
\* until a request's switch meets bytes in hand or a connection being opened; clients get chunks
\* that were numbered before they read them, and the binary search of the Lua script finds the
\* oldest chunk that is left, for any number of chunks, whatever is written or expires meanwhile.
THEOREM DeliveryIsSound == Spec => []DeliverySound
  BY Invariant, DeliveryHolds, PTL

\* No step of a generator takes a position back, none of the owner's clients over a chunk that
\* is there or still to come, and a search over none that is there.
THEOREM PositionsGoForward == Spec => ReadsForward
<1>1. IInv /\ [Next]_vars => [\A c \in Client : Forward(c)]_vars
  BY StepForward DEF vars
<1>2. Spec => [][\A c \in Client : Forward(c)]_vars
  BY <1>1, Invariant, PTL DEF Spec
<1>3. (\A c \in Client : Forward(c)) =>
          /\ \A c \in Client :
                LET r == reader[c]
                    passed == (r.local + 1)..reader'[c].local IN
                /\ r.pc = "fetch" /\ WorkerOf[c] = Owner
                      => \A i \in passed : i \in alive \/ \A j \in alive : j > i
                /\ r.pc = "search" => passed \cap alive = {}
          /\ \A c \in Client : reader'[c].pc # "done" => reader'[c].local >= reader[c].local
  BY DEF Forward
<1> QED
  BY <1>2, <1>3, PTL DEF ReadsForward, PassesOnlyExpired, NeverBack

=============================================================================
