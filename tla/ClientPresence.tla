--------------------------- MODULE ClientPresence ---------------------------
(***************************************************************************)
(* Who is watching a channel: the client set and the client records in     *)
(* Redis, the clients each worker has, the heartbeats that keep the former *)
(* alive, the ghosts that are removed when they stop, and the limit on a   *)
(* user's streams that is counted from the records (client_manager.py,     *)
(* stream_generator.py, apps/proxy/utils.py, channel_status.py).           *)
(*                                                                         *)
(* Time passes in ticks of the order of the heartbeat interval.            *)
(***************************************************************************)
EXTENDS Integers, FiniteSets

CONSTANTS
    Worker, Client, WorkerOf, None,
    Ttl,            \* CLIENT_RECORD_TTL in ticks
    GhostTimeout,   \* heartbeat interval * GHOST_CLIENT_MULTIPLIER in ticks
    StreamLimit,    \* User.stream_limit, 0 meaning no limit
    MayCrash,       \* workers that may crash
    Timely,         \* every heartbeat thread runs once a tick
    Patient         \* the user waits until a stop has worked before zapping on

VARIABLES
    record,     \* Redis clients:{client}, None when there is none
    members,    \* Redis clients, the set
    stopKeys,   \* clients with a stop key
    mail,       \* CLIENT_STOP events nobody has handled
    local,      \* per worker, ClientManager.clients
    gen,        \* per client, where its request is
    beat,       \* per worker, its heartbeat thread and the clients it works on
    beaten,     \* workers whose heartbeat ran in this tick
    status,     \* remove_ghost_clients of a stats task, and what it has read
    up          \* workers that run

redis == <<record, members, stopKeys, mail>>
worker == <<local, beat, beaten, up>>
vars == <<redis, worker, gen, status>>

\* age: ticks since the TTL was set; idle: ticks since last_active; ttl: the
\* key expires at all; user: the fields add_client wrote are there.
Record == [age : 0..Ttl, idle : 0..GhostTimeout + 1, ttl : BOOLEAN, user : BOOLEAN]

\* The TTL outlives a heartbeat interval; requests are finitely many.
ASSUME PresenceAssumption ==
    /\ IsFiniteSet(Client) /\ WorkerOf \in [Client -> Worker] /\ MayCrash \subseteq Worker
    /\ Ttl \in Nat \ {0} /\ GhostTimeout \in Nat /\ StreamLimit \in Nat
    /\ Timely \in BOOLEAN /\ Patient \in BOOLEAN /\ None \notin Record

TypeOK ==
    /\ record \in [Client -> Record \cup {None}]
    /\ members \subseteq Client /\ stopKeys \subseteq Client /\ mail \subseteq Client
    /\ local \in [Worker -> SUBSET Client]
    /\ gen \in [Client -> {"away", "admit", "evict", "record", "member",
                           "check", "send", "cleanup", "done", "dead"}]
    /\ beat \in [Worker -> [pc : {"sleep", "remove", "refresh"}, ids : SUBSET Client]]
    /\ beaten \subseteq Worker /\ up \subseteq Worker
    /\ status \in [pc : {"idle", "remove"}, ids : SUBSET Client]

Asleep == [pc |-> "sleep", ids |-> {}]
NoStatus == [pc |-> "idle", ids |-> {}]

Init ==
    /\ record = [c \in Client |-> None]
    /\ members = {} /\ stopKeys = {} /\ mail = {}
    /\ local = [w \in Worker |-> {}]
    /\ gen = [c \in Client |-> "away"]
    /\ beat = [w \in Worker |-> Asleep]
    /\ beaten = {} /\ up = Worker
    /\ status = NoStatus

\* EXPIRE sets the TTL of a record anew.
Renewed(r) == [age |-> 0, idle |-> r.idle, ttl |-> TRUE, user |-> r.user]

At(c, l) == gen[c] = l /\ WorkerOf[c] \in up
Go(c, l) == gen' = [gen EXCEPT ![c] = l]

\* The lock of the worker's ClientManager is free.
Unlocked(w) == beat[w].pc = "sleep"

\* What remove_client leaves of the clients in set.
RemoveClients(w, set) ==
    /\ local' = [local EXCEPT ![w] = @ \ set]
    /\ members' = members \ set
    /\ record' = [c \in Client |-> IF c \in set THEN None ELSE record[c]]

\* The connections get_user_active_connections finds: records with a user.
Active == {c \in Client : record[c] # None /\ record[c].user}

-----------------------------------------------------------------------------
(* Slips: each breaks one of the properties below in place of its original.*)

\* A heartbeat keeps the set alive, not the records.
RefreshSetOnly(w) ==
    LET kept == beat[w].ids IN
    /\ w \in up /\ beat[w].pc = "refresh"
    /\ members' = members \cup kept
    /\ beat' = [beat EXCEPT ![w] = Asleep]
    /\ beaten' = beaten \cup {w}
    /\ UNCHANGED <<record, stopKeys, mail, local, up, gen, status>>

\* The ghosts are counted but stay in the set.
PruneNothing ==
    /\ status.pc = "remove"
    /\ status' = NoStatus
    /\ UNCHANGED <<redis, worker, gen>>

-----------------------------------------------------------------------------
(* A request: the limit of the user's streams, then the registration.      *)

Request(c) ==
    /\ At(c, "away")
    /\ Patient => /\ \A d \in Client : gen[d] \notin {"admit", "evict", "record", "member"}
                  /\ \A d \in stopKeys : gen[d] \in {"done", "dead"} /\ record[d] = None
    /\ Go(c, "admit")
    /\ UNCHANGED <<redis, worker, status>>

\* check_user_stream_limits counts the user's records.
Admit(c) ==
    /\ At(c, "admit")
    /\ Go(c, IF StreamLimit > 0 /\ Cardinality(Active) >= StreamLimit THEN "evict" ELSE "record")
    /\ UNCHANGED <<redis, worker, status>>

\* attempt_stream_termination stops one connection, the settings say which: a
\* stop key, then the client is removed if it is this worker's, or an event is
\* published.
Evict(c) ==
    LET w == WorkerOf[c] IN
    /\ At(c, "evict")
    /\ \/ Active = {} /\ UNCHANGED <<stopKeys, mail, local, members, record>>
       \/ \E t \in Active :
            /\ stopKeys' = stopKeys \cup {t}
            /\ IF t \in local[w]
               THEN Unlocked(w) /\ RemoveClients(w, {t}) /\ UNCHANGED mail
               ELSE mail' = mail \cup {t} /\ UNCHANGED <<local, members, record>>
    /\ Go(c, "record")
    /\ UNCHANGED <<beat, beaten, up, status>>

\* add_client, under the manager's lock: the record with its TTL ...
AddRecord(c) ==
    LET w == WorkerOf[c] IN
    /\ At(c, "record") /\ Unlocked(w)
    /\ local' = [local EXCEPT ![w] = @ \cup {c}]
    /\ record' = [record EXCEPT ![c] = [age |-> 0, idle |-> 0, ttl |-> TRUE, user |-> TRUE]]
    /\ Go(c, "member")
    /\ UNCHANGED <<members, stopKeys, mail, beat, beaten, up, status>>

\* ... and then the set.
AddMember(c) ==
    /\ At(c, "member")
    /\ members' = members \cup {c}
    /\ Go(c, "check")
    /\ UNCHANGED <<record, stopKeys, mail, worker, status>>

-----------------------------------------------------------------------------
(* The generator's loop.                                                   *)

\* _check_resources: the client must still be the manager's, and not told to
\* stop.  It waits for data, or has some to send, or the peer leaves.
CheckResources(c) ==
    /\ At(c, "check")
    /\ IF c \notin local[WorkerOf[c]] \/ c \in stopKeys
       THEN Go(c, "cleanup") ELSE gen' \in {[gen EXCEPT ![c] = l] : l \in {"send", "cleanup"}}
    /\ UNCHANGED <<redis, worker, status>>

\* _process_chunks writes the statistics and last_active, which makes a new
\* record if there is none, and every few seconds refreshes the TTL.
SendChunk(c) ==
    LET stats == IF record[c] = None
                 THEN [age |-> 0, idle |-> 0, ttl |-> FALSE, user |-> FALSE]
                 ELSE [record[c] EXCEPT !.idle = 0] IN
    /\ At(c, "send")
    /\ \E due \in BOOLEAN :
          record' = [record EXCEPT ![c] = IF due THEN Renewed(stats) ELSE stats]
    /\ Go(c, "check")
    /\ UNCHANGED <<members, stopKeys, mail, worker, status>>

\* _cleanup: remove_client, under the lock. (The client manager is there: channels are
\* stopped in ChannelOwnership only.)
Cleanup(c) ==
    /\ At(c, "cleanup") /\ Unlocked(WorkerOf[c])
    /\ RemoveClients(WorkerOf[c], {c})
    /\ Go(c, "done")
    /\ UNCHANGED <<stopKeys, mail, beat, beaten, up, status>>

\* CLIENT_STOP reaches the worker that has the client.
ReceiveStop(c) ==
    LET w == WorkerOf[c] IN
    /\ c \in mail /\ w \in up /\ Unlocked(w)
    /\ mail' = mail \ {c}
    /\ stopKeys' = stopKeys \cup {c}
    /\ IF c \in local[w] THEN RemoveClients(w, {c}) ELSE UNCHANGED <<local, members, record>>
    /\ UNCHANGED <<beat, beaten, up, gen, status>>

-----------------------------------------------------------------------------
(* The heartbeat thread of a worker, under the lock from scan to refresh.  *)

Stale(c) == record[c] = None \/ record[c].idle > GhostTimeout

\* An add_client in progress holds the lock.
ScanClients(w) ==
    /\ w \in up /\ beat[w].pc = "sleep" /\ w \notin beaten
    /\ local[w] # {}
    /\ \A c \in local[w] : gen[c] # "member"
    /\ beat' = [beat EXCEPT ![w] = [pc |-> "remove", ids |-> {c \in local[w] : Stale(c)}]]
    /\ UNCHANGED <<redis, local, beaten, up, gen, status>>

\* The stale ones are removed, the pipeline is built for the others.
RemoveStale(w) ==
    /\ w \in up /\ beat[w].pc = "remove"
    /\ RemoveClients(w, beat[w].ids)
    /\ beat' = [beat EXCEPT ![w] = [pc |-> "refresh", ids |-> local[w] \ beat[w].ids]]
    /\ UNCHANGED <<stopKeys, mail, beaten, up, gen, status>>

\* It is executed: EXPIRE of the records there are, SADD of the clients.
Refresh(w) ==
    LET kept == beat[w].ids IN
    /\ w \in up /\ beat[w].pc = "refresh"
    /\ record' = [c \in Client |-> IF c \in kept /\ record[c] # None
                                   THEN Renewed(record[c]) ELSE record[c]]
    /\ members' = members \cup kept
    /\ beat' = [beat EXCEPT ![w] = Asleep]
    /\ beaten' = beaten \cup {w}
    /\ UNCHANGED <<stopKeys, mail, local, up, gen, status>>

-----------------------------------------------------------------------------
(* remove_ghost_clients, from the stats task: SMEMBERS, EXISTS, SREM.      *)

FindGhosts ==
    /\ status.pc = "idle"
    /\ \E c \in members : record[c] = None
    /\ status' = [pc |-> "remove", ids |-> {c \in members : record[c] = None}]
    /\ UNCHANGED <<redis, worker, gen>>

PruneGhosts ==
    /\ status.pc = "remove"
    /\ members' = members \ status.ids
    /\ status' = NoStatus
    /\ UNCHANGED <<record, stopKeys, mail, worker, gen>>

-----------------------------------------------------------------------------
(* Time and crashes.                                                       *)

Older(r) == IF r = None THEN None
            ELSE IF r.ttl /\ r.age = Ttl THEN None
            ELSE [age  |-> IF r.ttl THEN r.age + 1 ELSE r.age,
                  idle |-> IF r.idle > GhostTimeout THEN r.idle ELSE r.idle + 1,
                  ttl  |-> r.ttl, user |-> r.user]

Tick ==
    /\ Timely => \A w \in up : local[w] = {} \/ w \in beaten
    /\ record' = [c \in Client |-> Older(record[c])]
    /\ members' = IF \A c \in Client : record'[c] = None THEN {} ELSE members
    /\ beaten' = {}
    /\ UNCHANGED <<stopKeys, mail, local, beat, up, gen, status>>

Crash(w) ==
    /\ w \in up \cap MayCrash
    /\ up' = up \ {w}
    /\ local' = [local EXCEPT ![w] = {}]
    /\ beat' = [beat EXCEPT ![w] = Asleep]
    /\ gen' = [c \in Client |-> IF WorkerOf[c] = w /\ gen[c] # "done" THEN "dead" ELSE gen[c]]
    /\ UNCHANGED <<redis, beaten, status>>

Serve(c) ==
    \/ Admit(c) \/ Evict(c) \/ AddRecord(c) \/ AddMember(c)
    \/ CheckResources(c) \/ SendChunk(c) \/ Cleanup(c)

Beat(w) == ScanClients(w) \/ RemoveStale(w) \/ Refresh(w)
Prune == FindGhosts \/ PruneGhosts

Next ==
    \/ \E c \in Client : Request(c) \/ Serve(c) \/ ReceiveStop(c)
    \/ \E w \in Worker : Beat(w) \/ Crash(w)
    \/ Prune \/ Tick

Spec == Init /\ [][Next]_vars

\* Generators are pulled by their clients, heartbeats and the periodic stats
\* task run, events arrive, time passes.
FairSpec ==
    /\ Spec
    /\ \A c \in Client : WF_vars(Serve(c)) /\ WF_vars(ReceiveStop(c))
    /\ \A w \in Worker : WF_vars(Beat(w))
    /\ WF_vars(Prune) /\ WF_vars(Tick)

-----------------------------------------------------------------------------
(* Properties.                                                             *)

\* A client of a worker whose heartbeats are in time is in the set, and has a
\* record that says whose it is: the shutdown of the channel and the limit of
\* its user count it, whatever stats tasks remove meanwhile.
LocalCounted ==
    \A c \in Client :
        gen[c] \in {"check", "send"} /\ c \in local[WorkerOf[c]] /\ Timely
            => c \in members /\ record[c] # None /\ record[c].user

\* A request that ended, with its worker alive, leaves neither record nor
\* member, and nothing brings them back: no heartbeat, no statistics.
EndedLeavesNothing ==
    \A c \in Client :
        gen[c] = "done" => record[c] = None /\ c \notin members /\ c \notin local[WorkerOf[c]]

\* A user who waits for a stop to work before going on never has more streams
\* that nobody told to stop than the limit.  (A user who does not wait can:
\* the oldest connection is told to stop a second time.  So can one whose records
\* expire because heartbeats are late.)
LimitKept ==
    Patient /\ Timely /\ StreamLimit > 0 =>
        Cardinality({c \in Client : c \in local[WorkerOf[c]] \ stopKeys}) <= StreamLimit

\* Hence: the records and the set are those of the clients there are, and within the limit.
PresenceSound == LocalCounted /\ EndedLeavesNothing /\ LimitKept

\* The clients of a crashed worker leave the set, though the heartbeats of
\* the other workers keep the set itself alive.
GhostsLeave ==
    \A c \in {d \in Client : WorkerOf[d] \in MayCrash} : gen[c] = "dead" ~> c \notin members
=============================================================================
