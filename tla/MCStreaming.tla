----------------------------- MODULE MCStreaming -----------------------------
(* For TLC, what lives with a live stream: the manager that keeps the       *)
(* channel on a stream that works (StreamFailover), and the recordings that *)
(* are made of the channel (DvrRecording).  They share no state, so a       *)
(* behaviour is of the one or of the other.                                 *)
EXTENDS StreamFailover

CONSTANTS w1, w2

VARIABLES
    part,   \* which of the two this behaviour is of, and for recordings what happens to them
    clock, row, ends, beat, sent, ts, mkv, segs, deleting, recover, lock, job,
    losses, restarts, apart

dvrVars == <<clock, row, ends, beat, sent, ts, mkv, segs, deleting, recover, lock, job,
             losses, restarts, apart>>

\* Streams that fail, work, stall, and one that may do any of it after a while; the one
\* there is to switch to fails or works.
Kinds == {{"refuses", "ends"}, {"stalls"}, {"flows"}, {"flows", "stalls", "ends"}}
Cases ==
    {c \in [behaves : [Stream -> Kinds], transcoded : BOOLEAN, adaptive : BOOLEAN] :
        /\ c.adaptive => c.transcoded
        /\ \A s \in Stream \ {Start} : c.behaves[s] \in {{"refuses", "ends"}, {"flows"}}}

\* One recording that may be written to three files: the server may be restarted, or the
\* recording is extended while the server runs on and the stream may be lost.
Restarted ==
    INSTANCE DvrRecording WITH
        Worker <- {w1, w2}, Rec <- {"a"}, Begin <- [r \in {"a"} |-> 1],
        Ends <- [r \in {"a"} |-> 2], Path <- 1 .. 3, Names <- [r \in {"a"} |-> 1 .. 3],
        Comskip <- FALSE, Fresh <- FALSE, Art <- {},
        MaxClock <- 2, MaxExtends <- 0, MaxLosses <- 0, MaxRestarts <- 1
Extended ==
    INSTANCE DvrRecording WITH
        Worker <- {w1, w2}, Rec <- {"a"}, Begin <- [r \in {"a"} |-> 1],
        Ends <- [r \in {"a"} |-> 2], Path <- 1 .. 3, Names <- [r \in {"a"} |-> 1 .. 3],
        Comskip <- FALSE, Fresh <- FALSE, Art <- {},
        MaxClock <- 2, MaxExtends <- 1, MaxLosses <- 1, MaxRestarts <- 0

ASSUME Restarted!DvrAssumption /\ Extended!DvrAssumption

-----------------------------------------------------------------------------
streaming == part = "failover"
recording == part \in {"restart", "extend"}

\* One of the circumstances, for the behaviours that are of recordings.
Calm == others = {} /\ ~Transcoded /\ \A s \in Stream : behaves[s] = {"flows"}

StreamingInit ==
    /\ part \in {"failover", "restart", "extend"}
    /\ Init /\ (streaming \/ Calm)
    /\ Restarted!Init

StreamingNext ==
    /\ UNCHANGED part
    /\ \/ streaming /\ Next /\ UNCHANGED dvrVars
       \/ part = "restart" /\ Restarted!Next /\ UNCHANGED vars
       \/ part = "extend" /\ Extended!Next /\ UNCHANGED vars

StreamingFairness ==
    /\ WF_vars(streaming /\ Run) /\ WF_vars(streaming /\ GoQuiet)
    /\ WF_vars(streaming /\ ReadTimeout) /\ WF_vars(streaming /\ CheckHealth)
    /\ WF_vars(streaming /\ CoolDown)
    /\ WF_vars(streaming /\ EndSwitch) /\ WF_vars(streaming /\ EndStop)
    /\ \A w \in {w1, w2} :
           WF_dvrVars(recording /\ Restarted!Work(w) /\ Restarted!Watch)
    /\ \A r \in {"a"} : WF_dvrVars(recording /\ Restarted!Beat(r) /\ Restarted!Watch)
    /\ WF_dvrVars(recording /\ Restarted!Tick /\ Restarted!Watch)

StreamingSpec ==
    StreamingInit /\ [][StreamingNext]_<<part, vars, dvrVars>> /\ StreamingFairness

-----------------------------------------------------------------------------
\* A stop ends the thread, and a request to switch is heeded.
RequestsHeeded == StopWorks /\ SwitchHeeded

\* Streams that all fail are given up, and one that works is found.
StreamsResolved == GivesUp /\ FindsWorking

\* A recording ends with a final status.
Settles == Restarted!Settles
=============================================================================
