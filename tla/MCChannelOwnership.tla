------------------------- MODULE MCChannelOwnership -------------------------
(* Instances of ChannelOwnership for TLC: what runs in which worker.       *)
EXTENDS ChannelOwnership, TLC

CONSTANTS a, b, ra, rb, ba, bb

Background == {"listen", "cycle", "orphans", "thread"}

\* A greenlet for the requests of each worker and one for what it does by itself.
TwoEach == (ra :> a @@ rb :> b @@ ba :> a @@ bb :> b)
ViewOps == (ra :> {"watch", "leave"} @@ rb :> {"watch", "leave"} @@ ba :> Background @@ bb :> Background)

\* A greenlet for the requests of each worker and one for what the first does by itself.
TwoAndOne == (ra :> a @@ rb :> b @@ ba :> a)

\* Starts that race with each other, with the cleanup of one worker, or with a stop.
CycleOps == (ra :> {"watch", "leave"} @@ rb :> {"watch"} @@ ba :> {"cycle"})
StartOps == (ra :> {"watch", "cycle"} @@ rb :> {"watch"} @@ ba :> {})
StopOps  == (ra :> {"watch", "thread", "listen"} @@ rb :> {"stop"} @@ ba :> {})

\* Starts in two workers, one of which looks for orphans.
OrphanOps == (ra :> {"watch"} @@ rb :> {"watch"} @@ ba :> {"orphans"})
=============================================================================
