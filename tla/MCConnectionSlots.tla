------------------------- MODULE MCConnectionSlots -------------------------
(* Instances of ConnectionSlots for TLC: who works on which channel, which *)
(* streams the channels may use, and how many slots the profiles have.     *)
EXTENDS ConnectionSlots, TLC

CONSTANTS r1, r2, r3, c1, c2, c3, s1, s2, s3, s4, p1, p2

\* One request per channel, two requests on one channel, or both.
SerialChanOf == (r1 :> c1 @@ r2 :> c2 @@ r3 :> c3)
PairChanOf   == (r1 :> c1 @@ r2 :> c2)
SharedChanOf == (r1 :> c1 @@ r2 :> c1)
MixedChanOf  == (r1 :> c1 @@ r2 :> c1 @@ r3 :> c2)

\* Streams of different channels are different; c1 may fall back on p2.
SerialCandidates ==
    (c1 :> << <<s1, p1>>, <<s1, p2>> >> @@ c2 :> << <<s2, p1>> >> @@ c3 :> << <<s3, p2>> >>)
\* Two streams per channel, on accounts with a profile each.
FailoverCandidates ==
    (c1 :> << <<s1, p1>>, <<s2, p2>> >> @@ c2 :> << <<s3, p1>>, <<s4, p2>> >>)
\* One channel alone on a profile.
SoloCandidates == (c1 :> << <<s1, p1>> >>)
\* Two channels with a stream each on one profile.
TwoChannels == (c1 :> << <<s1, p1>> >> @@ c2 :> << <<s2, p1>> >>)

OneSlotEach   == [p \in Profile |-> 1]
TwoSlotsEach  == [p \in Profile |-> 2]
OneAndTwo     == (p1 :> 1 @@ p2 :> 2)
=============================================================================
