--------------------------- MODULE StreamDelivery ---------------------------
(***************************************************************************)
(* How the bytes of a channel reach its clients.                           *)
(*                                                                         *)
(* The owner's stream thread connects to the provider, reads, and cuts     *)
(* what it reads into packets and chunks, which it numbers in Redis        *)
(* (stream_manager.py, stream_buffer.py).  Its retries and reconnections   *)
(* keep what is left in the buffer; a switch to another stream drops it,   *)
(* whether the thread itself or a request's thread makes the switch.       *)
(* Chunks live for REDIS_CHUNK_TTL.  Every client has a generator in its   *)
(* worker (stream_generator.py) that reads the chunks behind its position; *)
(* when they are gone it looks for the oldest one left.  Only the owner's  *)
(* buffer hears of a new chunk: the index of another worker's buffer moves *)
(* when one of its clients reads.                                          *)
(*                                                                         *)
(* A packet is two halves, a chunk two packets; a half is known by the     *)
(* stream it was read from.                                                *)
(***************************************************************************)
EXTENDS Integers, Sequences, SequencesExt, FiniteSetsExt

CONSTANTS
    Worker, Owner,
    Client, WorkerOf,
    Reads,         \* sizes, in halves, of what one read of the provider brings
    MaxIndex,      \* bound on the chunks ever written
    MaxStream,     \* bound on the streams a channel is switched to
    MaxFetch,      \* MAX_CHUNKS of get_optimized_client_data
    NearHead       \* INITIAL_BEHIND_CHUNKS

DeliveryAssumption ==
    /\ Owner \in Worker
    /\ WorkerOf \in [Client -> Worker]
    /\ Reads \subseteq Nat \ {0}
    /\ MaxIndex \in Nat /\ MaxStream \in Nat \ {0}
    /\ MaxFetch \in Nat \ {0} /\ NearHead \in Nat
ASSUME DeliveryAssumption

VARIABLES
    head,       \* Redis buffer:index
    alive,      \* the chunk keys that exist
    content,    \* per chunk, the halves it was made of
    stamps,     \* members of the sorted set of receive times
    index,      \* per worker, StreamBuffer.index; -1 while it has no buffer
    partial,    \* _partial_packet
    pending,    \* _write_buffer
    chunk,      \* chunk_data, cut off the write buffer and not yet stored
    writer,     \* what the holder of the buffer's lock is about to do
    url,        \* the stream the manager is set to
    link,       \* the stream of the connection, open or being opened
    opening,    \* the connection is being opened
    hand,       \* what fetch_chunk has read and not yet added
    switching,  \* where update_url is in a thread of a request
    raced,      \* it came upon bytes in hand or a connection being opened
    stopper,    \* where stop() is
    sliced,     \* final_chunk, which stop() took before it has the lock
    reader      \* per client, its generator

buffers == <<partial, pending, chunk, writer>>
redis   == <<head, alive, content, stamps>>
source  == <<url, link, opening, hand, switching, raced, stopper, sliced>>
vars    == <<redis, index, buffers, source, reader>>

Chunk == 1..MaxIndex
Stream == 1..MaxStream    \* each switch takes one that was not used before
NoStream == 0
Packet == 2       \* halves of a packet
Target == 4       \* halves of a chunk, target_chunk_size

Position == 0..MaxIndex

Reader == [pc : {"away", "check", "fetch", "search", "near", "wait", "done"},
           local : Position,            \* local_index, the last consumed chunk
           count : 0..MaxFetch,         \* chunks asked for
           last : Position,             \* buffer:index when they were asked for
           starved : BOOLEAN]           \* last_active is getting old

TypeOK ==
    /\ head \in Position
    /\ alive \subseteq Chunk
    /\ content \in [Chunk -> Seq(Stream)]
    /\ stamps \subseteq Chunk
    /\ index \in [Worker -> -1..MaxIndex]
    /\ partial \in Seq(Stream) /\ pending \in Seq(Stream) /\ chunk \in Seq(Stream)
    /\ writer \in {"idle", "incr", "setex", "stamp", "flush"}
    /\ url \in Stream /\ link \in Stream \cup {NoStream} /\ opening \in BOOLEAN
    /\ hand \in Seq(Stream) /\ sliced \in Seq(Stream)
    /\ switching \in {"no", "closed", "set"} /\ raced \in BOOLEAN
    /\ stopper \in {"no", "stopping", "flush", "unstamp", "stopped"}
    /\ reader \in [Client -> Reader]

Away == [pc |-> "away", local |-> 0, count |-> 0, last |-> 0, starved |-> FALSE]

Init ==
    /\ head = 0 /\ alive = {} /\ stamps = {}
    /\ content = [i \in Chunk |-> <<>>]
    /\ index = [w \in Worker |-> IF w = Owner THEN 0 ELSE -1]
    /\ partial = <<>> /\ pending = <<>> /\ chunk = <<>> /\ writer = "idle"
    /\ url = 1 /\ link = NoStream /\ opening = FALSE /\ hand = <<>>
    /\ switching = "no" /\ raced = FALSE
    /\ stopper = "no" /\ sliced = <<>>
    /\ reader = [c \in Client |-> Away]

At(c, l) == reader[c].pc = l
Set(c, r) == reader' = [reader EXCEPT ![c] = r]
Goto(c, l) == Set(c, [reader[c] EXCEPT !.pc = l])
Leave(c) == Set(c, [Away EXCEPT !.pc = "done"])
Known(c) == index[WorkerOf[c]]     \* self.buffer.index as client c sees it
Behind(c) == Known(c) - reader[c].local

Least(a, b) == IF a < b THEN a ELSE b
Most(a, b) == IF a > b THEN a ELSE b

-----------------------------------------------------------------------------
(* Slips: each breaks one of the properties below in place of its original.*)

\* A middle chunk that exists ends the search on its right.
HalveUpwards(low, high, found) ==
    LET mid == (low + high) \div 2 IN
    IF mid \in alive THEN <<mid + 1, high, mid>> ELSE <<mid + 1, high, found>>

\* A switch leaves the packets of the old stream in the buffer.
ResetKeepsPackets ==
    /\ writer = "idle"
    /\ UNCHANGED buffers

\* The jump goes near the head without looking where the client is.
JumpBack(c) ==
    /\ At(c, "near")
    /\ Set(c, [reader[c] EXCEPT !.pc = "check", !.local = Most(0, Known(c) - NearHead)])
    /\ UNCHANGED <<redis, index, buffers, source>>

\* A reader behind the head sleeps like one at the head.
FetchNeverSearches(c) ==
    LET r     == reader[c]
        asked == (r.local + 1)..Least(r.local + r.count, r.last)
        found == asked \cap alive IN
    /\ At(c, "fetch")
    /\ Set(c, IF found = {}
              THEN [r EXCEPT !.pc = "wait", !.count = 0, !.last = 0, !.starved = TRUE]
              ELSE [r EXCEPT !.pc = "check", !.local = @ + r.count, !.count = 0,
                             !.last = 0, !.starved = FALSE])
    /\ index' = IF found = {} THEN index
                ELSE [index EXCEPT ![WorkerOf[c]] = Most(@, r.local + Cardinality(found))]
    /\ UNCHANGED <<redis, buffers, source>>

-----------------------------------------------------------------------------
(* The stream thread: StreamManager.run, fetch_chunk, add_chunk.          *)

\* The stream thread is not inside fetch_chunk.
Between == hand = <<>> /\ writer \notin {"incr", "setex", "stamp"}

\* run's loop of attempts, or _attempt_reconnect, begins to connect to the
\* stream that is set, and leaves the buffer as it is.  The inner loop does not
\* look at url_switching: it may connect in the middle of a switch.
Connect ==
    /\ Between /\ link = NoStream /\ stopper = "no"
    /\ link' = url /\ opening' = TRUE
    /\ raced' = IF switching = "no" THEN raced ELSE TRUE
    /\ UNCHANGED <<redis, index, buffers, url, hand, switching, stopper, sliced, reader>>

Connected ==
    /\ opening
    /\ opening' = FALSE
    /\ UNCHANGED <<redis, index, buffers, url, link, hand, switching, raced, stopper, sliced,
                   reader>>

\* The attempt failed, the provider closed, or the thread closes the
\* connection to make another.
Disconnected ==
    /\ Between /\ link # NoStream
    /\ link' = NoStream /\ opening' = FALSE
    /\ UNCHANGED <<redis, index, buffers, url, hand, switching, raced, stopper, sliced, reader>>

\* fetch_chunk up to the count of bytes it sends to Redis: the bytes are in
\* hand, and whatever comes before they are added does not stop them.
ReadSocket(n) ==
    /\ Between /\ link # NoStream /\ ~opening /\ stopper = "no"
    /\ head < MaxIndex
    /\ hand' = [i \in 1..n |-> link]
    /\ UNCHANGED <<redis, index, buffers, url, link, opening, switching, raced, stopper, sliced,
                   reader>>

\* A chunk is cut off the write buffer as long as there is enough for one.
Cut(buffered) ==
    IF Len(buffered) >= Target
    THEN /\ chunk' = SubSeq(buffered, 1, Target)
         /\ pending' = SubSeq(buffered, Target + 1, Len(buffered))
         /\ writer' = "incr"
    ELSE /\ chunk' = <<>>
         /\ pending' = buffered
         /\ writer' = "idle"

\* add_chunk up to the first INCR: whole packets go to the write buffer, the
\* rest waits for the next read.
AddChunk ==
    LET combined == partial \o hand
        whole    == (Len(combined) \div Packet) * Packet IN
    /\ writer = "idle" /\ hand # <<>>
    /\ partial' = SubSeq(combined, whole + 1, Len(combined))
    /\ Cut(pending \o SubSeq(combined, 1, whole))
    /\ hand' = <<>>
    /\ UNCHANGED <<redis, index, url, link, opening, switching, raced, stopper, sliced, reader>>

IncrementIndex ==
    /\ writer = "incr"
    /\ head < MaxIndex
    /\ head' = head + 1
    /\ content' = [content EXCEPT ![head + 1] = chunk]
    /\ writer' = "setex"
    /\ UNCHANGED <<alive, stamps, index, partial, pending, chunk, source, reader>>

StoreChunk ==
    /\ writer = "setex"
    /\ alive' = alive \cup {head}
    /\ writer' = "stamp"
    /\ UNCHANGED <<head, content, stamps, index, partial, pending, chunk, source, reader>>

\* The time of the chunk, without the times of the chunks that expired; then
\* the buffer's own index, and the next chunk if there is enough for one.
StampChunk ==
    /\ writer = "stamp"
    /\ stamps' = (stamps \cap alive) \cup {head}
    /\ index' = [index EXCEPT ![Owner] = head]
    /\ Cut(pending)
    /\ UNCHANGED <<head, alive, content, partial, source, reader>>

-----------------------------------------------------------------------------
(* Switches and stops: StreamManager.update_url and stop, StreamBuffer's   *)
(* reset_buffer_position and stop.                                         *)

ResetBufferPosition ==
    /\ writer = "idle"
    /\ partial' = <<>> /\ pending' = <<>>
    /\ UNCHANGED <<chunk, writer>>

\* _try_next_stream in the stream thread itself, which neither reads nor
\* connects meanwhile: the old connection is closed, the buffer emptied.
SwitchInRun ==
    /\ Between /\ ~opening /\ stopper = "no"
    /\ url < MaxStream
    /\ url' = url + 1 /\ link' = NoStream
    /\ ResetBufferPosition
    /\ UNCHANGED <<redis, index, opening, hand, switching, raced, stopper, sliced, reader>>

\* update_url in the thread of a request closes the connection it finds.  One
\* that is being opened is not found, and bytes in hand are not taken back.
CloseForSwitch ==
    /\ switching = "no" /\ stopper = "no" /\ url < MaxStream
    /\ switching' = "closed"
    /\ link' = IF opening THEN link ELSE NoStream
    /\ raced' = (raced \/ opening \/ hand # <<>>)
    /\ UNCHANGED <<redis, index, buffers, url, opening, hand, stopper, sliced, reader>>

SetUrl ==
    /\ switching = "closed"
    /\ url < MaxStream
    /\ url' = url + 1 /\ switching' = "set"
    /\ UNCHANGED <<redis, index, buffers, link, opening, hand, raced, stopper, sliced, reader>>

\* The reset waits for the lock.
EndSwitch ==
    /\ switching = "set"
    /\ ResetBufferPosition
    /\ switching' = "no"
    /\ UNCHANGED <<redis, index, url, link, opening, hand, raced, stopper, sliced, reader>>

\* stop_channel stops the manager first: nothing is read or connected any
\* more, but bytes in hand may outlast the two seconds it waits.
StopManager ==
    /\ stopper = "no"
    /\ stopper' = "stopping"
    /\ link' = IF opening THEN link ELSE NoStream
    /\ UNCHANGED <<redis, index, buffers, url, opening, hand, switching, raced, sliced, reader>>

\* The buffer's stop() takes the whole packets there are before it has the
\* lock, whoever holds it.
SliceOnStop ==
    /\ stopper = "stopping"
    /\ sliced' = pending
    /\ stopper' = IF pending = <<>> THEN "unstamp" ELSE "flush"
    /\ UNCHANGED <<redis, index, buffers, url, link, opening, hand, switching, raced, reader>>

\* Under the lock they become a last, shorter chunk.
FlushOnStop ==
    /\ stopper = "flush" /\ writer = "idle"
    /\ head < MaxIndex
    /\ head' = head + 1
    /\ content' = [content EXCEPT ![head + 1] = sliced]
    /\ writer' = "flush"
    /\ UNCHANGED <<alive, stamps, index, partial, pending, chunk, source, reader>>

\* The last chunk is stored, and without the lock the buffers are emptied.
StoreLast ==
    /\ writer = "flush"
    /\ alive' = alive \cup {head}
    /\ index' = [index EXCEPT ![Owner] = head]
    /\ writer' = "idle"
    /\ partial' = <<>> /\ pending' = <<>> /\ sliced' = <<>>
    /\ stopper' = "unstamp"
    /\ UNCHANGED <<head, content, stamps, chunk, url, link, opening, hand, switching, raced,
                   reader>>

\* The times are deleted.
DropStamps ==
    /\ stopper = "unstamp"
    /\ stamps' = {}
    /\ stopper' = "stopped"
    /\ UNCHANGED <<head, alive, content, index, buffers, url, link, opening, hand, switching,
                   raced, sliced, reader>>

\* Chunks have the same TTL: the oldest one goes first.
Expire ==
    /\ alive # {}
    /\ alive' = alive \ {Min(alive)}
    /\ content' = [content EXCEPT ![Min(alive)] = <<>>]
    /\ UNCHANGED <<head, stamps, index, buffers, source, reader>>

-----------------------------------------------------------------------------
(* find_oldest_available_chunk: the binary search of the Lua script, which *)
(* relies on the chunks that exist being the last ones.                    *)

\* One turn of its loop on the range low..high: the range and the result.
Halve(low, high, found) ==
    LET mid == (low + high) \div 2 IN
    IF mid \in alive THEN <<low, mid - 1, mid>> ELSE <<mid + 1, high, found>>

OldestAvailable(low, high) ==
    LET turn[k \in 0..MaxIndex] ==
            IF k = 0 THEN <<low, high, high>>
            ELSE LET s == turn[k - 1] IN
                 IF s[1] <= s[2] THEN Halve(s[1], s[2], s[3]) ELSE s
    IN turn[MaxIndex][3]

\* find_chunk_index_by_time: the newest time at or before the target, else
\* the first one there is.
ByTime == {Most(0, i - 1) : i \in stamps}

-----------------------------------------------------------------------------
(* The generators.                                                         *)

\* A client's first position: the head if new clients start live, else by time,
\* else the oldest chunk, else the head.  A worker without a buffer for the
\* channel makes one from Redis.
SetupStreaming(c) ==
    LET w     == WorkerOf[c]
        known == IF index[w] = -1 THEN head ELSE index[w] IN
    /\ At(c, "away")
    /\ index' = [index EXCEPT ![w] = known]
    /\ \E start \in {known} \cup
                    IF stamps # {} THEN ByTime
                    ELSE IF known \in alive /\ known > 0
                         THEN {OldestAvailable(1, known) - 1} ELSE {} :
          Set(c, [Away EXCEPT !.pc = "check", !.local = start])
    /\ UNCHANGED <<redis, buffers, source>>

\* get_optimized_client_data up to the GET of the index: how many chunks to
\* ask for, by the distance to the head this worker knows.
AskForChunks(c) ==
    /\ At(c, "check")
    /\ Set(c, [reader[c] EXCEPT !.pc = "fetch", !.last = head,
                                !.count = Least(MaxFetch, Most(1, Behind(c)))])
    /\ UNCHANGED <<redis, index, buffers, source>>

\* get_chunks_exact reads the range in one pipeline; what exists is sent, and
\* the position moves by the count.  Nothing came: behind the head this worker
\* knows, the chunks have expired; at the head, wait.
FetchChunks(c) ==
    LET r     == reader[c]
        asked == (r.local + 1)..Least(r.local + r.count, r.last)
        found == asked \cap alive IN
    /\ At(c, "fetch")
    /\ Set(c, IF found = {}
              THEN [r EXCEPT !.pc = IF Behind(c) > 0 THEN "search" ELSE "wait",
                             !.count = 0, !.last = 0, !.starved = TRUE]
              ELSE [r EXCEPT !.pc = "check", !.local = @ + r.count, !.count = 0,
                                     !.last = 0, !.starved = FALSE])
    /\ index' = IF found = {} THEN index
                ELSE [index EXCEPT ![WorkerOf[c]] = Most(@, r.local + Cardinality(found))]
    /\ UNCHANGED <<redis, buffers, source>>

\* The script runs on the head this worker knows.
FindOldest(c) ==
    LET r == reader[c] IN
    /\ At(c, "search")
    /\ Set(c, IF Known(c) \in alive
              THEN [r EXCEPT !.pc = "check", !.local = OldestAvailable(r.local + 1, Known(c)) - 1]
              ELSE [r EXCEPT !.pc = "near"])
    /\ UNCHANGED <<redis, index, buffers, source>>

\* Not even the head is left: go near it and try again at once.
JumpNearHead(c) ==
    /\ At(c, "near")
    /\ Set(c, [reader[c] EXCEPT !.pc = "check",
                                !.local = Most(@, Known(c) - NearHead)])
    /\ UNCHANGED <<redis, index, buffers, source>>

\* A sleep, or a keepalive packet, which refreshes last_active.  Whether the
\* stream looks healthy, which decides between them, is left open.
Wait(c) ==
    /\ At(c, "wait")
    /\ \/ Goto(c, "check")
       \/ Set(c, [reader[c] EXCEPT !.pc = "check", !.starved = FALSE])
    /\ UNCHANGED <<redis, index, buffers, source>>

\* At the head only: _is_timeout, or keepalives for too long.
TimedOut(c) ==
    /\ At(c, "wait")
    /\ Leave(c)
    /\ UNCHANGED <<redis, index, buffers, source>>

\* The heartbeat thread removes a client whose last_active is too old; the
\* next check of its generator finds it gone.
RemovedAsGhost(c) ==
    /\ At(c, "check") /\ reader[c].starved
    /\ Leave(c)
    /\ UNCHANGED <<redis, index, buffers, source>>

\* The peer closes the connection, or the channel or the client is stopped.
Disconnect(c) ==
    /\ reader[c].pc \notin {"away", "done"}
    /\ Leave(c)
    /\ UNCHANGED <<redis, index, buffers, source>>

Write ==
    \/ Connect \/ Connected \/ Disconnected
    \/ \E n \in Reads : ReadSocket(n)
    \/ AddChunk \/ IncrementIndex \/ StoreChunk \/ StampChunk
    \/ Expire

Switch ==
    \/ SwitchInRun
    \/ CloseForSwitch \/ SetUrl \/ EndSwitch

Stop == StopManager \/ SliceOnStop \/ FlushOnStop \/ StoreLast \/ DropStamps

\* What the lock holder has begun.
StoreProgress == IncrementIndex \/ StoreChunk \/ StampChunk \/ StoreLast

Generate(c) ==
    \/ AskForChunks(c) \/ FetchChunks(c)
    \/ FindOldest(c) \/ JumpNearHead(c) \/ Wait(c)

Next ==
    \/ Write \/ Switch \/ Stop
    \/ \E c \in Client :
        SetupStreaming(c) \/ Generate(c) \/ TimedOut(c) \/ RemovedAsGhost(c) \/ Disconnect(c)

Spec == Init /\ [][Next]_vars

\* A client that keeps pulling is served by its generator; the stream thread
\* finishes what it began under the lock.
FairSpec ==
    /\ Spec
    /\ \A c \in Client : WF_vars(Generate(c))
    /\ WF_vars(StoreProgress)

-----------------------------------------------------------------------------
(* Properties.                                                             *)

\* No chunk mixes two streams, through any number of retries, reconnections,
\* failovers, switches and a stop that slices the buffer under the writer: after
\* a switch the clients' decoders never see a packet glued from two streams,
\* which is what reset_buffer_position exists for.  It holds until a request
\* switches the stream while the thread has bytes in hand or is connecting:
\* those are not dropped.  (Retries join bytes of two connections of one stream.)
OneStreamPerChunk ==
    ~raced => \A i \in Chunk : \A j, k \in DOMAIN content[i] : content[i][j] = content[i][k]

\* The chunks that exist are the last ones written (but for one being
\* written), which is what the script's binary search is right under: it
\* finds the lowest chunk of the range.
SearchFindsOldest ==
    \A low, high \in Chunk :
        low <= high /\ high \in alive
            => OldestAvailable(low, high) = Min(alive \cap low..high)

\* No position is past the chunks that were numbered, so nothing that will
\* be written is skipped: get_chunks_exact caps the range by the index it
\* read, but the position moves by the count that was asked for.
NeverPastHead ==
    \A c \in Client : reader[c].local <= head

\* A read on the owner's worker passes only over chunks it sends or that have
\* expired, never over one still being written, and a search on any worker
\* passes over no chunk that exists, whatever was written or expired since
\* the distance was computed.  (Another worker may take its index from Redis
\* between the INCR and the SETEX of a chunk, and skip that chunk.)
PassesOnlyExpired ==
    [][\A c \in Client :
          LET r == reader[c]
              passed == (r.local + 1)..reader'[c].local IN
          /\ r.pc = "fetch" /\ WorkerOf[c] = Owner
                => \A i \in passed : i \in alive \/ \A j \in alive : j > i
          /\ r.pc = "search" => passed \cap alive = {}]_vars

\* A position never goes back: no chunk is sent twice.
NeverBack ==
    [][\A c \in Client :
          reader'[c].pc # "done" => reader'[c].local >= reader[c].local]_vars

\* What generators send is of one stream until a request's switch races with a read, was numbered
\* before it was read, and a client that fell behind is taken to the oldest chunk there is.
DeliverySound == TypeOK /\ OneStreamPerChunk /\ SearchFindsOldest /\ NeverPastHead

\* A position passes over no chunk that can still be sent, and never goes back.
ReadsForward == PassesOnlyExpired /\ NeverBack

\* A client of the owner's worker that keeps reading does not stay behind:
\* it reaches the head the buffer has, its connection ends, or every chunk
\* of the channel has expired.
OwnerCatchesUp ==
    \A c \in {d \in Client : WorkerOf[d] = Owner} :
        reader[c].pc = "check" /\ Behind(c) > 0
            ~> reader[c].pc = "done" \/ Behind(c) <= 0 \/ alive = {}
=============================================================================
