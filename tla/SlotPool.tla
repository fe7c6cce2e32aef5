------------------------------ MODULE SlotPool ------------------------------
(***************************************************************************)
(* What the slot accounting promises: a pool of provider connections from  *)
(* which a holder takes one slot at a time, in one step, and only while    *)
(* the profile has one free.  ConnectionSlots implements it with a series  *)
(* of Redis commands.                                                      *)
(***************************************************************************)
EXTENDS Naturals, FiniteSets

CONSTANTS Holder, Profile, MaxStreams, None

VARIABLE held    \* the profile whose slot a holder has, or None

Holders(p) == {h \in Holder : held[h] = p}

Init == held = [h \in Holder |-> None]

Acquire(h, p) ==
    /\ held[h] = None
    /\ MaxStreams[p] > 0 => Cardinality(Holders(p)) < MaxStreams[p]
    /\ held' = [held EXCEPT ![h] = p]

Release(h) ==
    /\ held[h] # None
    /\ held' = [held EXCEPT ![h] = None]

Next == \E h \in Holder : Release(h) \/ \E p \in Profile : Acquire(h, p)

Spec == Init /\ [][Next]_held
=============================================================================
