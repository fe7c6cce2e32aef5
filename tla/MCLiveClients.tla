--------------------------- MODULE MCLiveClients ----------------------------
(* An instance of ClientPresence for TLC.                                   *)
EXTENDS ClientPresence, TLC

CONSTANTS a, b, c1, c2

\* A client on a worker that stays up, and one on a worker that may crash.
OneOnEach == (c1 :> a @@ c2 :> b)
=============================================================================
