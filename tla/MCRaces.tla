------------------------------- MODULE MCRaces -------------------------------
(* For TLC, what keeps its bounds and comes to an end while tasks race: two *)
(* requests that take and give up the slots of one channel                  *)
(* (ConnectionSlots), and two workers that refresh one account              *)
(* (AccountRefresh).  They share no state, so a behaviour is of the one or  *)
(* of the other.                                                            *)
EXTENDS MCConnectionSlots

CONSTANTS w1, w2, g1, g2

VARIABLES
    part,   \* which of the two this behaviour is of
    given, seen, stale, groupSeen, staleGroup, enabled, carries, number, cache, status, locks,
    job, scans, trouble

refreshVars == <<given, seen, stale, groupSeen, staleGroup, enabled, carries, number, cache,
                 status, locks, job, scans, trouble>>

\* A refresh of two groups, in an account of either kind.
Refresh ==
    INSTANCE AccountRefresh WITH
        Worker <- {w1, w2}, Stream <- 1 .. 3, Group <- {g1, g2}, GroupOf <- <<g1, g1, g2>>,
        Chno <- <<2, 0, 2>>, Listings <- {{1, 2, 3}, {2, 3}}, Manual <- {1}, Retention <- 1,
        Channel <- 1 .. 4,
        Accounts <- {[kind |-> "STD", autoEnable |-> TRUE, numbering |-> "provider"],
                     [kind |-> "XC", autoEnable |-> FALSE, numbering |-> "fixed"]},
        Troubles <- {"outage", "batch", "leak", "crash", "deactivate", "toggle"},
        MaxScans <- 1

-----------------------------------------------------------------------------
requesting == part = "slots"
refreshing == part = "refresh"

RacesInit ==
    /\ part \in {"slots", "refresh"}
    /\ Init
    /\ Refresh!Init /\ (refreshing \/ (given.kind = "STD" /\ trouble = "none"))

RacesNext ==
    /\ UNCHANGED part
    /\ \/ requesting /\ Next /\ UNCHANGED refreshVars
       \/ refreshing /\ Refresh!Next /\ UNCHANGED vars

RacesFairness ==
    /\ \A r \in Request : WF_vars(requesting /\ Continue(r))
    /\ \A x \in {w1, w2} :
           WF_refreshVars(refreshing /\ (Refresh!GroupsTask(x) \/ Refresh!RefreshTask(x)))
    /\ \A l \in Refresh!Lock : WF_refreshVars(refreshing /\ Refresh!Expire(l))

RacesSpec == RacesInit /\ [][RacesNext]_<<part, vars, refreshVars>> /\ RacesFairness

-----------------------------------------------------------------------------
\* Task locks are freed, and the account's status comes to rest.
RefreshSettles == Refresh!LocksFreed /\ Refresh!StatusSettles
=============================================================================
