----------------------------- MODULE MCDelivery -----------------------------
(* An instance of StreamDelivery for TLC.                                   *)
EXTENDS StreamDelivery, TLC

CONSTANTS a, b, c1, c2

\* A client on the owner's worker, and one on another.
OneOnEach == (c1 :> a @@ c2 :> b)

\* They share nothing that either writes, so a behaviour needs one of the two.
OneReader == \E c \in Client : \A d \in Client \ {c} : At(d, "away")

OneReaderSpec ==
    /\ Init /\ [][Next /\ OneReader']_vars
    /\ \A c \in Client : WF_vars(Generate(c))
    /\ WF_vars(StoreProgress)
=============================================================================
