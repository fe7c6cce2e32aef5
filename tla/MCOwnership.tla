----------------------------- MODULE MCOwnership -----------------------------
(* For TLC, a channel in two workers under races.  The constants of the .cfg *)
(* are those of starts that race with a clean-up, without faults; two other  *)
(* instances share the variables.  A behaviour is of the one `part` names.   *)
EXTENDS MCChannelOwnership

VARIABLE part

\* The same with late heartbeats, leases and records.
Late == INSTANCE ChannelOwnership WITH Ops <- StartOps, Faults <- {"delay"}

\* A stop from the other worker that races with a start, whose stream thread it leaves behind.
Left == INSTANCE ChannelOwnership WITH Ops <- StopOps, Faults <- {"stream"}

RaceInit == part \in {"cycle", "late", "left"} /\ Init

RaceNext ==
    /\ UNCHANGED part
    /\ \/ part = "cycle" /\ Next
       \/ part = "late" /\ Late!Next
       \/ part = "left" /\ Left!Next

RaceSpec ==
    /\ RaceInit /\ [][RaceNext]_<<part, vars>>
    /\ \A g \in Greenlet : WF_vars(part = "cycle" /\ Scheduled(g))

-----------------------------------------------------------------------------
\* A worker that runs the channel without the lease gets it, lets go or has viewers.
LeaseSettles == part = "cycle" => LeaselessSettles
=============================================================================
