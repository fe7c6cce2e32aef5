------------------------------- MODULE MCSlots -------------------------------
(* For TLC, the two disciplines under which connection slots are exact: one *)
(* request to a channel, and pairs of channels that switch streams.  A      *)
(* behaviour is of the one or of the other.                                 *)
EXTENDS MCConnectionSlots

VARIABLES
    part,   \* which of the two this behaviour is of
    switchChannelStream, switchStreamProfile, switchConnections, switchMetaStream,
    switchMetaProfile, switchRunning, switchCurrent, switchFrame

switchVars == <<switchChannelStream, switchStreamProfile, switchConnections, switchMetaStream,
                switchMetaProfile, switchRunning, switchCurrent, switchFrame>>

\* Two channels, each with a stream on either account, and streams that are switched.
Switching ==
    INSTANCE ConnectionSlots WITH
        Request <- {r1, r2}, Channel <- {c1, c2}, Stream <- {s1, s2, s3, s4},
        ChanOf <- PairChanOf, Candidates <- FailoverCandidates, MaxStreams <- OneAndTwo,
        RedirectChannels <- {}, Ops <- {"play", "stop", "switch"}, MaxAttempts <- 2,
        channelStream <- switchChannelStream, streamProfile <- switchStreamProfile,
        connections <- switchConnections, metaStream <- switchMetaStream,
        metaProfile <- switchMetaProfile, running <- switchRunning,
        current <- switchCurrent, frame <- switchFrame

SlotsInit == part \in {"serial", "switch"} /\ Init /\ Switching!Init

SlotsNext ==
    /\ UNCHANGED part
    /\ \/ part = "serial" /\ Next /\ UNCHANGED switchVars
       \/ part = "switch" /\ Switching!Next /\ UNCHANGED vars

SlotsSpec == SlotsInit /\ [][SlotsNext]_<<part, vars, switchVars>>

-----------------------------------------------------------------------------
\* With switches the counters are exact too, and a running channel holds a slot.
SwitchSound ==
    part = "switch" =>
        /\ Switching!TypeOK /\ Switching!CountExact
        /\ Switching!StoppedHoldsNothing /\ Switching!RunningHoldsSlot
=============================================================================
