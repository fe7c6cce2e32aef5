------------------------------ MODULE MCCrashes ------------------------------
(* For TLC, a channel in two workers that crash.  The constants of the .cfg *)
(* are those of one start, leave or failure report at a time; in the other  *)
(* part, which has variables of its own, starts race while the first worker *)
(* looks for orphans.                                                       *)
EXTENDS MCChannelOwnership

VARIABLES
    part,   \* which of the two this behaviour is of
    deadOwner, deadMetadata, deadStopping, deadClients, deadHeartbeat, deadAlive, deadManager,
    deadStray, deadEnding, deadBuffer, deadViewers, deadMail, deadFrame

deadVars == <<deadOwner, deadMetadata, deadStopping, deadClients, deadHeartbeat, deadAlive,
              deadManager, deadStray, deadEnding, deadBuffer, deadViewers, deadMail, deadFrame>>

Dead ==
    INSTANCE ChannelOwnership WITH
        Greenlet <- {ra, rb, ba}, Home <- TwoAndOne, Ops <- OrphanOps, Serial <- FALSE,
        Faults <- {"crash"},
        owner <- deadOwner, metadata <- deadMetadata, stopping <- deadStopping,
        clients <- deadClients, heartbeat <- deadHeartbeat, alive <- deadAlive,
        manager <- deadManager, stray <- deadStray, ending <- deadEnding,
        buffer <- deadBuffer, viewers <- deadViewers, mail <- deadMail, frame <- deadFrame

-----------------------------------------------------------------------------
racing == part = "dead"

CrashInit == part \in {"serial", "dead"} /\ Init /\ Dead!Init

CrashNext ==
    /\ UNCHANGED part
    /\ \/ part = "serial" /\ Next /\ UNCHANGED deadVars
       \/ racing /\ Dead!Next /\ UNCHANGED vars

\* Only the worker that looks for orphans need go on, and what the other one held expire.
CrashSpec ==
    /\ CrashInit /\ [][CrashNext]_<<part, vars, deadVars>>
    /\ \A g \in {ra, ba} : WF_deadVars(racing /\ Dead!Scheduled(g))
    /\ WF_deadVars(racing /\ b \notin deadAlive /\ Dead!HeartbeatExpires(b))

-----------------------------------------------------------------------------
\* A record that names a worker that died is replaced or deleted, or clients are left.
OrphansCleared == Dead!DeadOwnerCleared
=============================================================================
