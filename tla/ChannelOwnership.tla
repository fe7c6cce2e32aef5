-------------------------- MODULE ChannelOwnership --------------------------
(***************************************************************************)
(* Which worker runs a channel.                                            *)
(*                                                                         *)
(* One worker at a time should hold a provider connection for a channel:   *)
(* the owner, which holds a lease in Redis (ts_proxy:channel:{id}:owner)   *)
(* and renews it in its cleanup cycle.  The other workers serve their      *)
(* clients from the chunks the owner puts into Redis.  This module follows *)
(* one channel: starting it, joining and leaving it, stopping it from any  *)
(* worker, the cleanup cycles, leases that expire and workers that crash.  *)
(* An action is one Redis write, or the reads one decision rests on, with  *)
(* the local code up to the next.                                          *)
(***************************************************************************)
EXTENDS Naturals, FiniteSets

CONSTANTS
    Worker,       \* uWSGI workers
    Greenlet,     \* what runs in them: requests, cleanup cycles, listeners
    Home,         \* the worker of each greenlet
    Ops,          \* the operations each greenlet may start
    Serial,       \* whether one start or stop ends before the next begins
    Faults,       \* what may go wrong by itself
    None          \* a missing Redis key or hash field

\* "pre" stands for the states before ACTIVE (ChannelState.PRE_ACTIVE).
State  == {"pre", "active", "stopping", "error"}

RequestOps == {"watch", "stop", "leave"}
AllOps     == RequestOps \cup {"listen", "cycle", "orphans", "thread"}
AllFaults  == {"delay", "crash", "stream", "start", "slow"}

ASSUME OwnershipAssumption ==
    /\ None \notin Worker \cup State
    /\ IsFiniteSet(Greenlet)
    /\ Home \in [Greenlet -> Worker]
    /\ Ops \in [Greenlet -> SUBSET AllOps]
    /\ Serial \in BOOLEAN
    /\ Faults \subseteq AllFaults

VARIABLES
    owner,        \* Redis owner key
    metadata,     \* Redis metadata hash: whether it exists, fields state and owner
    stopping,     \* Redis stopping key
    clients,      \* Redis client set, by the worker of the client
    heartbeat,    \* workers whose heartbeat key exists
    alive,        \* workers that have not crashed
    manager,      \* per worker, the entry of stream_managers
    stray,        \* workers with a stream thread that no entry refers to any more
    ending,       \* workers with a stream thread in the finally block of run()
    buffer,       \* workers with an entry in stream_buffers and client_managers
    viewers,      \* workers with clients in their client_managers entry
    mail,         \* per worker, the events its listener has not handled
    frame         \* per greenlet, where it is and the locals still needed

redis  == <<owner, metadata, stopping, clients>>
local  == <<manager, stray, ending, buffer, viewers>>
world  == <<heartbeat, alive>>
vars   == <<redis, local, world, mail, frame>>

Event  == {"stop", "left"}

Label ==
    {"idle", "exists", "svc_exists", "exists_hb", "clean",
     "init", "init_read", "init_local", "mark", "owner", "acquire", "record", "create", "confirm",
     "connecting", "profile", "wait", "join", "add", "leave", "hd_check",
     "svc_state", "svc_mark", "svc_flag", "svc_publish",
     "st_flag", "st_owner", "rl_get", "rl_del", "rl_flag", "st_local", "st_clean",
     "ls_mark", "cy_refresh", "cy_owner", "cy_extend", "cy_renew", "cy_clients",
     "cy_activate", "cn_lease", "cn_renew", "cn_check", "or_check",
     "th_state", "th_error", "th_flag"}

Frame == [pc : Label,
          then : Label,       \* where a call returns to,
          else : Label,       \* or when what it checks fails
          ret : Label,        \* where stop_channel returns to
          seen : Worker \cup {None}]

Rest == [pc |-> "idle", then |-> "idle", else |-> "idle", ret |-> "idle", seen |-> None]

TypeOK ==
    /\ owner \in Worker \cup {None}
    /\ metadata \in [exists : BOOLEAN, state : State \cup {None}, owner : Worker \cup {None}]
    /\ stopping \in BOOLEAN
    /\ {clients, heartbeat, alive, stray, ending, buffer, viewers} \subseteq SUBSET Worker
    /\ manager \in [Worker -> {"none", "running", "ended"}]
    /\ mail \in [Worker -> SUBSET Event]
    /\ frame \in [Greenlet -> Frame]

NoHash == [exists |-> FALSE, state |-> None, owner |-> None]

\* Redis is flushed before the workers start; each then sends a heartbeat.
Init ==
    /\ owner = None
    /\ metadata = NoHash
    /\ stopping = FALSE
    /\ clients = {}
    /\ heartbeat = Worker
    /\ alive = Worker
    /\ manager = [w \in Worker |-> "none"]
    /\ stray = {} /\ ending = {}
    /\ buffer = {} /\ viewers = {}
    /\ mail = [w \in Worker |-> {}]
    /\ frame = [g \in Greenlet |-> Rest]

At(g, l) == frame[g].pc = l /\ Home[g] \in alive
Go(g, f, l) == frame' = [frame EXCEPT ![g] = IF l = "idle" THEN Rest ELSE [f EXCEPT !.pc = l]]
Goto(g, l) == Go(g, frame[g], l)
Starts(g, op) ==
    /\ At(g, "idle") /\ op \in Ops[g]
    /\ Serial /\ op \in RequestOps => ending = {}

IsLocal(w) == manager[w] # "none" \/ w \in buffer

\* HSET creates the hash when it is not there.
HashState(s)     == [metadata EXCEPT !.exists = TRUE, !.state = s]
HashOwned(s, w)  == [exists |-> TRUE, state |-> s, owner |-> w]

\* SCAN and DELETE of ts_proxy:channel:{id}:*, the lease and the flags included.
DeleteKeys ==
    /\ owner' = None
    /\ metadata' = NoHash
    /\ stopping' = FALSE
    /\ clients' = {}

\* PUBLISH reaches the workers that listen, the sender's own among them.
Listeners == {Home[g] : g \in {h \in Greenlet : "listen" \in Ops[h]}} \cap alive
Publish(e) == mail' = [w \in Worker |-> IF w \in Listeners THEN mail[w] \cup {e} ELSE mail[w]]

\* The workers that hold a provider connection for the channel.
Providers == {w \in Worker : manager[w] = "running" \/ w \in stray}

\* StreamManager.stop: the thread leaves its loop for the finally block.
EndThread(w) ==
    ending' = IF manager[w] = "running" THEN ending \cup {w} ELSE ending

-----------------------------------------------------------------------------
(* Slips the code could have made.  The actions below the section do not   *)
(* use them: each one, put in the place of its original, breaks a property *)
(* of the runs, which shows that the property depends on that line.        *)

\* A channel another worker owns is initialized all the same.
InitOwnerIgnored(g) ==
    /\ At(g, "owner")
    /\ Goto(g, "acquire")
    /\ UNCHANGED <<redis, local, world, mail>>

\* SET without NX.
InitAcquireOverwrites(g) ==
    /\ At(g, "acquire")
    /\ owner' = Home[g]
    /\ Goto(g, "record")
    /\ UNCHANGED <<metadata, stopping, clients, local, world, mail>>

\* The buffer that the manager fills is not registered.
InitCreateUnregistered(g) ==
    LET w == Home[g] IN
    /\ At(g, "create")
    /\ manager' = [manager EXCEPT ![w] = "running"]
    /\ stray' = IF manager[w] = "running" THEN stray \cup {w} ELSE stray
    /\ buffer' = buffer \ {w}
    /\ Goto(g, "confirm")
    /\ UNCHANGED <<redis, ending, viewers, world, mail>>

\* The owner's manager is not stopped before the lease goes.
StopOwnedRuns(g) ==
    /\ At(g, "st_owner") /\ owner = Home[g]
    /\ Go(g, [frame[g] EXCEPT !.then = "st_local"], "rl_get")
    /\ UNCHANGED <<redis, local, world, mail>>

\* A state that the other handlers do not know.
ReceivedStopUnknown(g) ==
    /\ At(g, "ls_mark")
    /\ metadata' = IF metadata.exists THEN HashState("stopped") ELSE metadata
    /\ IF Home[g] \in buffer THEN Go(g, Rest, "st_flag") ELSE Goto(g, "idle")
    /\ UNCHANGED <<owner, stopping, clients, local, world, mail>>

\* The clean-up is put off also without viewers.
ExtendLostDefers(g) ==
    /\ At(g, "cn_lease")
    /\ \/ owner = None /\ manager[Home[g]] # "none" /\ Goto(g, "cn_renew")
       \/ (owner # None \/ manager[Home[g]] = "none") /\ Goto(g, "idle")
    /\ UNCHANGED <<redis, local, world, mail>>

\* Only channels this worker has are cleaned.
CheckOrphanLocal(g) ==
    /\ At(g, "or_check")
    /\ IF frame[g].seen \notin heartbeat /\ clients = {} /\ IsLocal(Home[g])
       THEN Go(g, Rest, "st_flag")
       ELSE Goto(g, "idle")
    /\ UNCHANGED <<redis, local, world, mail>>

-----------------------------------------------------------------------------
\* Deletes the entries; a thread that still runs is out of reach from here on.
Forget(w) ==
    /\ manager' = [manager EXCEPT ![w] = "none"]
    /\ stray' = IF manager[w] = "running" THEN stray \cup {w} ELSE stray
    /\ buffer' = buffer \ {w}
    /\ viewers' = viewers \ {w}
    /\ UNCHANGED ending

\* _cleanup_local_resources: the same, but the manager is stopped first.
Drop(w) ==
    /\ EndThread(w)
    /\ manager' = [manager EXCEPT ![w] = "none"]
    /\ buffer' = buffer \ {w}
    /\ viewers' = viewers \ {w}
    /\ UNCHANGED stray

-----------------------------------------------------------------------------
(* A client asks for the channel: stream_ts.                               *)

StartWatch(g) ==
    /\ Starts(g, "watch") /\ Home[g] \notin viewers
    /\ LET check(e) == [Rest EXCEPT !.then = "join", !.else = e, !.ret = "init"] IN
       \/ metadata.state \in {"pre", "active"} /\ Go(g, check("init"), "exists")
       \/ metadata.state = "stopping" /\ Go(g, check("svc_exists"), "exists")
       \/ metadata.state = "error" /\ Go(g, check("svc_exists"), "svc_exists")
       \/ metadata.state = None /\ Goto(g, "init")
    /\ UNCHANGED <<redis, local, world, mail>>

\* check_if_channel_exists, for stream_ts and for ChannelService.stop_channel.
CheckExists(g) ==
    /\ At(g, "exists") \/ At(g, "svc_exists")
    /\ LET f == IF At(g, "exists") THEN frame[g]
                ELSE [frame[g] EXCEPT !.then = "svc_state", !.else = frame[g].ret] IN
       \/ IsLocal(Home[g]) /\ Go(g, f, f.then)
       \/ /\ ~IsLocal(Home[g]) /\ metadata.exists
          /\ \/ /\ metadata.state \in {"pre", "active", "stopping"}
                /\ Go(g, [f EXCEPT !.seen = metadata.owner], "exists_hb")
             \/ metadata.state = "error" /\ Go(g, f, f.else)
             \/ metadata.state = None /\ Go(g, f, f.then)
       \/ /\ ~IsLocal(Home[g]) /\ ~metadata.exists
          /\ Go(g, f, IF owner # None \/ clients # {} THEN "clean" ELSE f.else)
    /\ UNCHANGED <<redis, local, world, mail>>

CheckHeartbeat(g) ==
    /\ At(g, "exists_hb")
    /\ Goto(g, IF frame[g].seen \in heartbeat THEN frame[g].then ELSE "clean")
    /\ UNCHANGED <<redis, local, world, mail>>

\* _clean_zombie_channel, and the keys found without metadata.
CleanZombie(g) ==
    /\ At(g, "clean")
    /\ DeleteKeys
    /\ Goto(g, frame[g].else)
    /\ UNCHANGED <<local, world, mail>>

\* ChannelService.initialize_channel puts the stream id into the hash before it
\* calls the proxy server, and the profile after.
PresetStreamId(g) ==
    /\ At(g, "init")
    /\ metadata' = [metadata EXCEPT !.exists = TRUE]
    /\ Goto(g, "init_read")
    /\ UNCHANGED <<owner, stopping, clients, local, world, mail>>

StoreProfile(g) ==
    /\ At(g, "profile")
    /\ metadata' = [metadata EXCEPT !.exists = TRUE]
    /\ Goto(g, "wait")
    /\ UNCHANGED <<owner, stopping, clients, local, world, mail>>

\* No stream could be obtained (see ConnectionSlots).
NoStream(g) ==
    /\ At(g, "init") /\ "start" \in Faults
    /\ Goto(g, "idle")
    /\ UNCHANGED <<redis, local, world, mail>>

-----------------------------------------------------------------------------
(* ProxyServer.initialize_channel, to start the channel ("init_read") or   *)
(* for the local resources of a worker that joins it ("init_local").       *)

InitRead(g) ==
    /\ At(g, "init_read") \/ At(g, "init_local")
    /\ buffer' = buffer \cup {Home[g]}
    /\ LET f == [Rest EXCEPT !.then = IF At(g, "init_read") THEN "profile" ELSE "add"] IN
       Go(g, f, IF metadata.state \in {"pre", "active"} THEN f.then ELSE "mark")
    /\ UNCHANGED <<redis, manager, stray, ending, viewers, world, mail>>

InitMark(g) ==
    /\ At(g, "mark")
    /\ metadata' = HashOwned("pre", Home[g])
    /\ Goto(g, "owner")
    /\ UNCHANGED <<owner, stopping, clients, local, world, mail>>

InitOwner(g) ==
    /\ At(g, "owner")
    /\ \/ /\ owner \notin {None, Home[g]}
          /\ buffer' = buffer \cup {Home[g]}
          /\ Goto(g, frame[g].then)
       \/ /\ owner \in {None, Home[g]}
          /\ Goto(g, "acquire")
          /\ UNCHANGED buffer
       \/ /\ owner \in {None, Home[g]} /\ frame[g].then = "add"     \* no URL in the hash
          /\ Goto(g, "idle")
          /\ UNCHANGED buffer
    /\ UNCHANGED <<redis, manager, stray, ending, viewers, world, mail>>

\* try_acquire_ownership: SET NX answers None when the key exists, which is
\* taken for a failed command, and ownership is assumed.
InitAcquire(g) ==
    /\ At(g, "acquire")
    /\ owner' = IF owner = None THEN Home[g] ELSE owner
    /\ Goto(g, "record")
    /\ UNCHANGED <<metadata, stopping, clients, local, world, mail>>

InitRecord(g) ==
    /\ At(g, "record")
    /\ metadata' = HashOwned("pre", Home[g])
    /\ Goto(g, "create")
    /\ UNCHANGED <<owner, stopping, clients, local, world, mail>>

InitCreate(g) ==
    LET w == Home[g] IN
    /\ At(g, "create")
    /\ manager' = [manager EXCEPT ![w] = "running"]
    /\ stray' = IF manager[w] = "running" THEN stray \cup {w} ELSE stray
    /\ buffer' = buffer \cup {w}
    /\ Goto(g, "confirm")
    /\ UNCHANGED <<redis, ending, viewers, world, mail>>

InitRaises(g) ==
    /\ At(g, "create") /\ "start" \in Faults
    /\ Go(g, [Rest EXCEPT !.then = "idle"], "rl_get")
    /\ UNCHANGED <<redis, local, world, mail>>

InitConfirm(g) ==
    /\ At(g, "confirm")
    /\ Goto(g, IF owner = Home[g] THEN "connecting" ELSE frame[g].then)
    /\ UNCHANGED <<redis, local, world, mail>>

\* update_channel_state(CONNECTING) writes nothing when that is the state
\* already, which "pre" does not tell.
InitConnecting(g) ==
    /\ At(g, "connecting")
    /\ \/ metadata' = HashOwned("pre", Home[g])
       \/ metadata.state = "pre" /\ UNCHANGED metadata
    /\ Goto(g, frame[g].then)
    /\ UNCHANGED <<owner, stopping, clients, local, world, mail>>

Initialize(g) ==
    \/ InitRead(g) \/ InitMark(g) \/ InitOwner(g) \/ InitAcquire(g) \/ InitRecord(g)
    \/ InitCreate(g) \/ InitRaises(g) \/ InitConfirm(g) \/ InitConnecting(g)

\* The starter that is the owner waits for the provider, or gives up and stops.
WaitConnected(g) ==
    LET w == Home[g] IN
    /\ At(g, "wait")
    /\ \/ Goto(g, "join")
       \/ /\ owner = w /\ manager[w] # "none" /\ "stream" \in Faults
          /\ Go(g, Rest, "st_flag")
    /\ UNCHANGED <<redis, local, world, mail>>

\* ClientManager.add_client, or a second look at the local resources.
Join(g) ==
    LET w == Home[g] IN
    /\ At(g, "join") \/ At(g, "add")
    /\ \/ /\ w \in buffer
          /\ viewers' = viewers \cup {w}
          /\ clients' = clients \cup {w}
          /\ Goto(g, "idle")
       \/ /\ w \notin buffer
          /\ Goto(g, IF At(g, "join") THEN "init_local" ELSE "idle")
          /\ UNCHANGED <<viewers, clients>>
    /\ UNCHANGED <<owner, metadata, stopping, manager, stray, ending, buffer, world, mail>>

Watch(g) ==
    \/ StartWatch(g) \/ CheckExists(g) \/ CheckHeartbeat(g) \/ CleanZombie(g)
    \/ NoStream(g) \/ PresetStreamId(g) \/ Initialize(g) \/ StoreProfile(g)
    \/ WaitConnected(g) \/ Join(g)

-----------------------------------------------------------------------------
(* A client leaves: ClientManager.remove_client, handle_client_disconnect. *)

StartLeave(g) ==
    /\ Starts(g, "leave") /\ Home[g] \in viewers
    /\ viewers' = viewers \ {Home[g]}
    /\ clients' = clients \ {Home[g]}
    /\ Goto(g, "leave")
    /\ UNCHANGED <<owner, metadata, stopping, manager, stray, ending, buffer, world, mail>>

TellOwner(g) ==
    /\ At(g, "leave")
    /\ \/ /\ owner = Home[g]
          /\ Goto(g, IF clients = {} THEN "hd_check" ELSE "idle")
          /\ UNCHANGED mail
       \/ /\ owner # Home[g]
          /\ Publish("left")
          /\ Goto(g, "idle")
    /\ UNCHANGED <<redis, local, world>>

\* The check is made again after the shutdown delay: waiting here is the delay.
CheckDisconnect(g) ==
    /\ At(g, "hd_check")
    /\ IF Home[g] \in buffer /\ clients = {} THEN Go(g, Rest, "st_flag") ELSE Goto(g, "idle")
    /\ UNCHANGED <<redis, local, world, mail>>

Leave(g) == StartLeave(g) \/ TellOwner(g) \/ CheckDisconnect(g)

-----------------------------------------------------------------------------
(* ChannelService.stop_channel, on any worker.                             *)

StartStop(g) ==
    /\ Starts(g, "stop")
    /\ Goto(g, "svc_exists")
    /\ UNCHANGED <<redis, local, world, mail>>

ReadState(g) ==
    /\ At(g, "svc_state")
    /\ Goto(g, IF metadata.state = None THEN "svc_flag" ELSE "svc_mark")
    /\ UNCHANGED <<redis, local, world, mail>>

MarkStopping(g) ==
    /\ At(g, "svc_mark")
    /\ metadata' = HashState("stopping")
    /\ Goto(g, "svc_flag")
    /\ UNCHANGED <<owner, stopping, clients, local, world, mail>>

SetStopping(g, from, to) ==
    /\ At(g, from)
    /\ stopping' = TRUE
    /\ Goto(g, to)
    /\ UNCHANGED <<owner, metadata, clients, local, world, mail>>

PublishStop(g) ==
    /\ At(g, "svc_publish")
    /\ Publish("stop")
    /\ Goto(g, "st_flag")
    /\ UNCHANGED <<redis, local, world>>

\* ProxyServer.stop_channel: the owner stops its manager and releases the
\* lease first; every caller then forgets its entries and deletes the keys.
StopOwned(g) ==
    LET w == Home[g] IN
    /\ At(g, "st_owner") /\ owner = w
    /\ EndThread(w)
    /\ manager' = [manager EXCEPT ![w] = IF @ = "running" THEN "ended" ELSE @]
    /\ Go(g, [frame[g] EXCEPT !.then = "st_local"], "rl_get")
    /\ UNCHANGED <<redis, stray, buffer, viewers, world, mail>>

StopOther(g) ==
    /\ At(g, "st_owner") /\ owner # Home[g]
    /\ Forget(Home[g])
    /\ Goto(g, "st_clean")
    /\ UNCHANGED <<redis, world, mail>>

\* release_ownership: GET, compare, DEL, and the stopping key.
ReleaseTest(g) ==
    /\ At(g, "rl_get")
    /\ Goto(g, IF owner = Home[g] THEN "rl_del" ELSE frame[g].then)
    /\ UNCHANGED <<redis, local, world, mail>>

ReleaseDelete(g) ==
    /\ At(g, "rl_del")
    /\ owner' = None
    /\ Goto(g, "rl_flag")
    /\ UNCHANGED <<metadata, stopping, clients, local, world, mail>>

ReleaseOwnership(g) == ReleaseTest(g) \/ ReleaseDelete(g) \/ SetStopping(g, "rl_flag", frame[g].then)

StopLocal(g) ==
    /\ At(g, "st_local")
    /\ Forget(Home[g])
    /\ Goto(g, "st_clean")
    /\ UNCHANGED <<redis, world, mail>>

StopClean(g) ==
    /\ At(g, "st_clean")
    /\ DeleteKeys
    /\ Goto(g, frame[g].ret)
    /\ UNCHANGED <<local, world, mail>>

StopChannel(g) ==
    \/ SetStopping(g, "st_flag", "st_owner")
    \/ StopOwned(g) \/ StopOther(g) \/ ReleaseOwnership(g) \/ StopLocal(g) \/ StopClean(g)

Stop(g) ==
    \/ StartStop(g) \/ ReadState(g) \/ MarkStopping(g)
    \/ SetStopping(g, "svc_flag", "svc_publish") \/ PublishStop(g) \/ StopChannel(g)

-----------------------------------------------------------------------------
(* The event listener of a worker: only the owner acts.                    *)

Receive(g, e) ==
    /\ Starts(g, "listen") /\ e \in mail[Home[g]]
    /\ mail' = [mail EXCEPT ![Home[g]] = @ \ {e}]
    /\ IF owner = Home[g] THEN Goto(g, IF e = "stop" THEN "ls_mark" ELSE "hd_check")
                          ELSE UNCHANGED frame
    /\ UNCHANGED <<redis, local, world>>

ReceivedStop(g) ==
    /\ At(g, "ls_mark")
    /\ metadata' = IF metadata.exists THEN HashState("stopping") ELSE metadata
    /\ IF Home[g] \in buffer THEN Go(g, Rest, "st_flag") ELSE Goto(g, "idle")
    /\ UNCHANGED <<owner, stopping, clients, local, world, mail>>

Listen(g) == Receive(g, "stop") \/ Receive(g, "left") \/ ReceivedStop(g)

-----------------------------------------------------------------------------
(* The cleanup thread of a worker.                                         *)

StartCycle(g) ==
    /\ Starts(g, "cycle")
    /\ heartbeat' = heartbeat \cup {Home[g]}
    /\ Goto(g, "cy_refresh")
    /\ UNCHANGED <<redis, local, alive, mail>>

\* refresh_channel_registry: the HSET of last_active.
RefreshRegistry(g) ==
    /\ At(g, "cy_refresh")
    /\ metadata' = IF Home[g] \in buffer THEN [metadata EXCEPT !.exists = TRUE] ELSE metadata
    /\ Goto(g, IF IsLocal(Home[g]) THEN "cy_owner" ELSE "idle")
    /\ UNCHANGED <<owner, stopping, clients, local, world, mail>>

TestOwner(g) ==
    /\ At(g, "cy_owner")
    /\ Goto(g, IF owner = Home[g] THEN "cy_extend"
               ELSE IF manager[Home[g]] # "none" THEN "cn_lease" ELSE "cn_check")
    /\ UNCHANGED <<redis, local, world, mail>>

\* extend_ownership of a worker that was the owner a moment ago.
ExtendOwned(g) ==
    /\ At(g, "cy_extend")
    /\ Goto(g, IF owner = None /\ manager[Home[g]] # "none" THEN "cy_renew" ELSE "cy_clients")
    /\ UNCHANGED <<redis, local, world, mail>>

\* extend_ownership of a worker with a manager and without the lease.
ExtendLost(g) ==
    /\ At(g, "cn_lease")
    /\ \/ owner = None /\ manager[Home[g]] # "none" /\ Goto(g, "cn_renew")
       \/ owner = Home[g] /\ Goto(g, "idle")
       \/ /\ owner # Home[g] /\ ~(owner = None /\ manager[Home[g]] # "none")
          /\ Goto(g, IF Home[g] \in viewers THEN "idle" ELSE "cn_check")
    /\ UNCHANGED <<redis, local, world, mail>>

\* SET NX; its answer matters only to the worker that had lost the lease.
Renew(g) ==
    /\ At(g, "cy_renew") \/ At(g, "cn_renew")
    /\ owner' = IF owner = None THEN Home[g] ELSE owner
    /\ Goto(g, IF At(g, "cy_renew") THEN "cy_clients"
               ELSE IF owner = None \/ Home[g] \in viewers THEN "idle" ELSE "cn_check")
    /\ UNCHANGED <<metadata, stopping, clients, local, world, mail>>

\* The timers of the owner: without clients it may be time to stop, though not
\* while a start that takes no longer than the grace period is under way, and
\* a channel with clients becomes active.
NobodyStarts ==
    \A g \in Greenlet : frame[g].pc \notin {"init_read", "init_local", "mark", "owner", "acquire", "record", "create",
                                          "confirm", "connecting", "profile"}

OwnedTimers(g) ==
    /\ At(g, "cy_clients")
    /\ \/ /\ clients = {} /\ ~stopping
          /\ metadata.state # "pre" \/ "delay" \in Faults \/ NobodyStarts
          /\ Go(g, Rest, "st_flag")
       \/ clients # {} /\ ~stopping /\ metadata.state = "pre" /\ Goto(g, "cy_activate")
       \/ Goto(g, "idle")
    /\ UNCHANGED <<redis, local, world, mail>>

Activate(g) ==
    /\ At(g, "cy_activate")
    /\ metadata' = HashState("active")
    /\ Goto(g, "idle")
    /\ UNCHANGED <<owner, stopping, clients, local, world, mail>>

\* A channel this worker does not own and that stopped, lost its owner or its
\* record, or has no clients here.
CleanNotOwned(g) ==
    /\ At(g, "cn_check")
    /\ IF stopping \/ owner = None \/ ~metadata.exists \/ Home[g] \notin viewers
       THEN Drop(Home[g])
       ELSE UNCHANGED local
    /\ Goto(g, "idle")
    /\ UNCHANGED <<redis, world, mail>>

Cycle(g) ==
    \/ StartCycle(g) \/ RefreshRegistry(g) \/ TestOwner(g) \/ ExtendOwned(g) \/ ExtendLost(g)
    \/ Renew(g) \/ OwnedTimers(g) \/ Activate(g) \/ CleanNotOwned(g)

\* _check_orphaned_metadata, every thirty seconds, after a cycle.
StartOrphans(g) ==
    /\ Starts(g, "orphans") /\ metadata.exists
    /\ Go(g, [Rest EXCEPT !.seen = metadata.owner], "or_check")
    /\ UNCHANGED <<redis, local, world, mail>>

CheckOrphan(g) ==
    /\ At(g, "or_check")
    /\ IF frame[g].seen \notin heartbeat /\ clients = {}
       THEN Go(g, Rest, IF IsLocal(Home[g]) THEN "st_flag" ELSE "st_clean")
       ELSE Goto(g, "idle")
    /\ UNCHANGED <<redis, local, world, mail>>

Orphans(g) == StartOrphans(g) \/ CheckOrphan(g)

-----------------------------------------------------------------------------
(* The thread of a StreamManager: its connection and the finally block.    *)

\* _set_waiting_for_clients, when the hash has no state yet.
SetWaiting(g) ==
    /\ Starts(g, "thread") /\ manager[Home[g]] = "running" /\ metadata.state = None
    /\ metadata' = HashState("pre")
    /\ UNCHANGED <<owner, stopping, clients, local, world, mail, frame>>

\* HINCRBY of the bytes read creates the hash when it is not there.
CountBytes(g) ==
    /\ Starts(g, "thread") /\ Home[g] \in Providers
    /\ metadata' = [metadata EXCEPT !.exists = TRUE]
    /\ UNCHANGED <<owner, stopping, clients, local, world, mail, frame>>

\* ffmpeg falls behind or catches up: BUFFERING or ACTIVE, over any state.
ReportSpeed(g) ==
    /\ Starts(g, "thread") /\ Home[g] \in Providers /\ "slow" \in Faults
    /\ \E s \in {"pre", "active"} : metadata' = HashState(s)
    /\ UNCHANGED <<owner, stopping, clients, local, world, mail, frame>>

\* The provider fails for good and the loop of run() ends.
RunEnds(g) ==
    LET w == Home[g] IN
    /\ Starts(g, "thread") /\ "stream" \in Faults
    /\ \/ /\ manager[w] = "running"
          /\ manager' = [manager EXCEPT ![w] = "ended"]
          /\ UNCHANGED stray
       \/ /\ w \in stray
          /\ stray' = stray \ {w}
          /\ UNCHANGED manager
    /\ ending' = ending \cup {w}
    /\ UNCHANGED <<redis, buffer, viewers, world, mail, frame>>

\* The owner reports the failure, and so does anybody when there is no owner
\* and the channel never got active.
ReadOwner(g) ==
    /\ Starts(g, "thread") /\ Home[g] \in ending
    /\ ending' = ending \ {Home[g]}
    /\ \/ owner = Home[g] /\ Goto(g, "th_error")
       \/ owner = None /\ Goto(g, "th_state")
       \/ owner \notin {None, Home[g]} /\ UNCHANGED frame
    /\ UNCHANGED <<redis, manager, stray, buffer, viewers, world, mail>>

ReadPreActive(g) ==
    /\ At(g, "th_state")
    /\ Goto(g, IF metadata.state = "pre" THEN "th_error" ELSE "idle")
    /\ UNCHANGED <<redis, local, world, mail>>

WriteError(g) ==
    /\ At(g, "th_error")
    /\ metadata' = HashState("error")
    /\ Goto(g, "th_flag")
    /\ UNCHANGED <<owner, stopping, clients, local, world, mail>>

Thread(g) ==
    \/ SetWaiting(g) \/ CountBytes(g) \/ ReportSpeed(g) \/ RunEnds(g) \/ ReadOwner(g) \/ ReadPreActive(g) \/ WriteError(g)
    \/ SetStopping(g, "th_flag", "idle")

-----------------------------------------------------------------------------
(* What happens by itself.  TTLs: the lease is renewed while its owner has *)
(* the channel, the heartbeat while the worker lives, the metadata while   *)
(* somebody has a buffer, a client's record while the client is there.     *)
(* With the fault "delay" a greenlet or a worker may be held up longer     *)
(* than a TTL or a timer runs.                                             *)

NotRenewed(w) ==
    w \notin alive \/ (~IsLocal(w) /\ \A g \in Greenlet : Home[g] = w => frame[g].pc = "idle")

LeaseExpires ==
    /\ owner # None
    /\ "delay" \in Faults \/ NotRenewed(owner)
    /\ owner' = None
    /\ UNCHANGED <<metadata, stopping, clients, local, world, mail, frame>>

HeartbeatExpires(w) ==
    /\ w \in heartbeat
    /\ "delay" \in Faults \/ w \notin alive
    /\ heartbeat' = heartbeat \ {w}
    /\ UNCHANGED <<redis, local, alive, mail, frame>>

StoppingExpires ==
    /\ stopping
    /\ stopping' = FALSE
    /\ UNCHANGED <<owner, metadata, clients, local, world, mail, frame>>

MetadataExpires ==
    /\ metadata.exists /\ buffer \cap alive = {}
    /\ "delay" \in Faults \/ NobodyStarts
    /\ metadata' = NoHash
    /\ UNCHANGED <<owner, stopping, clients, local, world, mail, frame>>

ClientExpires(w) ==
    /\ w \in clients \ viewers
    /\ clients' = clients \ {w}
    /\ UNCHANGED <<owner, metadata, stopping, local, world, mail, frame>>

\* A worker dies with its memory; it comes back under another id.
Crash(w) ==
    /\ "crash" \in Faults /\ w \in alive /\ alive # {w}
    /\ alive' = alive \ {w}
    /\ manager' = [manager EXCEPT ![w] = "none"]
    /\ stray' = stray \ {w} /\ ending' = ending \ {w}
    /\ buffer' = buffer \ {w} /\ viewers' = viewers \ {w}
    /\ mail' = [mail EXCEPT ![w] = {}]
    /\ frame' = [g \in Greenlet |-> IF Home[g] = w THEN Rest ELSE frame[g]]
    /\ UNCHANGED <<redis, heartbeat>>

Environment ==
    \/ LeaseExpires \/ StoppingExpires \/ MetadataExpires
    \/ \E w \in Worker : HeartbeatExpires(w) \/ ClientExpires(w) \/ Crash(w)

-----------------------------------------------------------------------------
Step(g) == Watch(g) \/ Leave(g) \/ Stop(g) \/ Listen(g) \/ Cycle(g) \/ Orphans(g) \/ Thread(g)

Busy == {g \in Greenlet : frame[g].pc # "idle"}
Checking == {g \in Busy : frame[g].pc \in {"cy_refresh", "cy_owner", "cy_extend", "cy_renew", "cy_clients",
                                         "cy_activate", "cn_lease", "cn_renew", "cn_check", "or_check"}}

\* A start, join, leave, stop or failure report is alone on the channel;
\* the checks of the cleanup threads interleave with each other.
Alone == Busy \subseteq Checking \/ Cardinality(Busy) = 1

Next ==
    \/ \E g \in Greenlet : Step(g) /\ (Serial => Alone')
    \/ Environment

Spec == Init /\ [][Next]_vars

\* A greenlet under way reaches its next command; a greenlet that has only one
\* background operation starts it when there is something to do; what a dead
\* worker held expires.
Scheduled(g) ==
    \/ ~At(g, "idle") /\ Step(g)
    \/ Receive(g, "stop") \/ Receive(g, "left") \/ StartCycle(g) \/ StartOrphans(g) \/ ReadOwner(g)

FairSpec ==
    /\ Spec
    /\ \A g \in Greenlet : WF_vars(Scheduled(g))
    /\ \A w \in Worker : WF_vars(w \notin alive /\ HeartbeatExpires(w))

-----------------------------------------------------------------------------
(* Properties.                                                             *)

\* Nobody is at work on the channel.
Quiet ==
    /\ Busy = {} /\ ending = {}
    /\ \A w \in Worker : mail[w] = {}

\* The provider sees one connection for the channel (the point of the lease).
OneProvider == Cardinality(Providers) <= 1

\* A stream thread that runs has an entry in stream_managers, so that stop_channel
\* and the clean-ups can stop it.
NoStray == stray = {}

\* A channel runs where its lease is: cycles, failures and crashes lead back to
\* that (extend_ownership, _cleanup_local_resources).
ProviderOwns == Quiet => \A w \in Providers : owner = w

\* A channel whose record has no state is stopped: stop_channel ends the provider
\* connection before or with the record, on whatever worker it is called.
NoRecordNoProvider == Quiet /\ metadata.state = None => Providers = {}

\* With requests one at a time: nobody but the owner is connected to the provider, ...
ProvidersOwn == OneProvider /\ ProviderOwns

\* ... and nobody is left with a stream thread, or with a provider of a channel without a record.
NothingLeft == NoStray /\ NoRecordNoProvider

\* A worker with a manager or viewers has the buffer and the client manager by
\* which stop events find the channel and the registry keeps its record.
LocalTogether == \A w \in Worker : manager[w] # "none" \/ w \in viewers => w \in buffer

\* The lease passes from worker to worker only by being given up or by running
\* out, also when acquisitions and renewals race (SET NX).
NoTakeover == [][owner # None /\ owner' # owner => owner' = None]_vars

\* A worker that runs the channel without the lease gets it or lets go, unless it
\* has viewers (the clean-up is deferred for them).
LeaselessSettles ==
    \A w \in {Home[g] : g \in {h \in Greenlet : "cycle" \in Ops[h]}} :
        manager[w] = "running" /\ owner # w
            ~> owner = w \/ manager[w] # "running" \/ w \in viewers

\* The record of a dead worker does not block the channel for ever: as long as a
\* worker checks for orphans, it is replaced or deleted, or clients are left.
DeadOwnerCleared ==
    \A g \in {h \in Greenlet : "orphans" \in Ops[h]} : \A w \in Worker \ {Home[g]} :
        w \notin alive /\ metadata.owner = w
            ~> metadata.owner # w \/ clients # {} \/ Home[g] \notin alive
=============================================================================
