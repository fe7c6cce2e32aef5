----------------------------- MODULE MCPlayback -----------------------------
(* For TLC, what is watched of the library and what is recorded for later: *)
(* sessions of the VOD proxy (VodConnections), recordings (DvrRecording)   *)
(* and the rules that make them (SeriesRules, RecurringRules).  They share *)
(* no state, so a behaviour is one of the one or of another.               *)
EXTENDS VodConnections, TLC

CONSTANTS v, w, r1, r2, r3

VARIABLES
    part,   \* which of them this behaviour is of
    clock, row, ends, beat, sent, ts, mkv, segs, deleting, recover, lock, job, losses, restarts,
    apart,
    seriesClock, seriesRules, seriesRecs, seriesLock, seriesDeleting, seriesJob,
    edits, removals, expiries,
    ruleClock, rule, ruleRecs, ruleJob, ruleEdits, ruleRuns

dvrVars == <<clock, row, ends, beat, sent, ts, mkv, segs, deleting, recover, lock, job, losses,
             restarts, apart>>
seriesVars == <<seriesClock, seriesRules, seriesRecs, seriesLock, seriesDeleting, seriesJob,
                edits, removals, expiries>>
ruleVars == <<ruleClock, rule, ruleRecs, ruleJob, ruleEdits, ruleRuns>>

\* Workers are alike, and so are the two requests of one session.
Alike == Permutations({v, w}) \cup Permutations({r1, r2})

-----------------------------------------------------------------------------
\* The requests of the VOD proxy: two of one session and one of another, for one slot.
OneAndOther == (r1 :> "x" @@ r2 :> "x" @@ r3 :> "y")

\* A recording on two workers, with a restart, or with the poster still to be found; or a
\* longer one on one worker, with two restarts, the second perhaps amid the joining.
Names == [r \in {"a"} |-> {1, 2, 3}]
Restarted ==
    INSTANCE DvrRecording WITH
        Worker <- {v, w}, Rec <- {"a"}, Begin <- [r \in {"a"} |-> 1],
        Ends <- [r \in {"a"} |-> 2], Path <- 1 .. 3, Fresh <- FALSE, Comskip <- TRUE,
        Art <- {}, MaxClock <- 2, MaxExtends <- 0, MaxLosses <- 1, MaxRestarts <- 1
Artwork ==
    INSTANCE DvrRecording WITH
        Worker <- {v, w}, Rec <- {"a"}, Begin <- [r \in {"a"} |-> 1],
        Ends <- [r \in {"a"} |-> 2], Path <- 1 .. 3, Fresh <- TRUE, Comskip <- TRUE,
        Art <- {"a"}, MaxClock <- 2, MaxExtends <- 0, MaxLosses <- 0, MaxRestarts <- 0
Twice ==
    INSTANCE DvrRecording WITH
        Worker <- {"one"}, Rec <- {"a"}, Begin <- [r \in {"a"} |-> 1],
        Ends <- [r \in {"a"} |-> 3], Path <- 1 .. 3, Fresh <- FALSE, Comskip <- TRUE,
        Art <- {}, MaxClock <- 3, MaxExtends <- 0, MaxLosses <- 0, MaxRestarts <- 2

\* Two airings of an episode, of which the later is new, and one of another.
Airings ==
    INSTANCE SeriesRules WITH
        Worker <- {v, w},
        Series <- {"s"}, Episode <- {"e1", "e2"}, Airing <- 1 .. 3,
        SeriesOf <- [e1 |-> "s", e2 |-> "s"],
        EpisodeOf <- <<"e1", "e1", "e2">>, TimeOf <- <<1, 2, 3>>, New <- {2},
        Horizon <- 2, MaxClock <- 3, MaxEdits <- 2, MaxRemovals <- 1, MaxExpiries <- 1,
        clock <- seriesClock, rules <- seriesRules, recs <- seriesRecs, lock <- seriesLock,
        deleting <- seriesDeleting, job <- seriesJob

\* Weeks of two days: rules of each, both or late days, with and without an end.
RuleOf(days, slot, end, on) == [days |-> days, slot |-> slot, end |-> end, on |-> on]
Recurring ==
    INSTANCE RecurringRules WITH
        Worker <- {v, w},
        Week <- 2, Horizon <- 1, LastDay <- 2, MaxEdits <- 2, MaxRuns <- 1,
        Rules <- {RuleOf({0, 1}, "late", None, TRUE), RuleOf({0}, "early", 3, TRUE),
                  RuleOf({1}, "late", 2, TRUE), RuleOf({0, 1}, "late", None, FALSE)},
        clock <- ruleClock, recs <- ruleRecs, job <- ruleJob, edits <- ruleEdits,
        runs <- ruleRuns

ASSUME Airings!SeriesAssumption /\ Recurring!RecurringAssumption

-----------------------------------------------------------------------------
PlaybackInit ==
    /\ part \in {"vod", "dvr", "artwork", "twice", "series", "recurring"}
    /\ Init /\ (part = "vod" \/ trouble = "none")
    /\ CASE part = "artwork" -> Artwork!Init
         [] part = "twice" -> Twice!Init
         [] OTHER -> Restarted!Init
    /\ Airings!Init /\ Recurring!Init

PlaybackNext ==
    /\ UNCHANGED part
    /\ \/ part = "vod" /\ Next /\ UNCHANGED <<dvrVars, seriesVars, ruleVars>>
       \/ part = "dvr" /\ Restarted!Next /\ UNCHANGED <<vars, seriesVars, ruleVars>>
       \/ part = "artwork" /\ Artwork!Next /\ UNCHANGED <<vars, seriesVars, ruleVars>>
       \/ part = "twice" /\ Twice!Next /\ UNCHANGED <<vars, seriesVars, ruleVars>>
       \/ part = "series" /\ Airings!Next /\ UNCHANGED <<vars, dvrVars, ruleVars>>
       \/ part = "recurring" /\ Recurring!Next /\ UNCHANGED <<vars, dvrVars, seriesVars>>

PlaybackSpec ==
    PlaybackInit /\ [][PlaybackNext]_<<part, vars, dvrVars, seriesVars, ruleVars>>

-----------------------------------------------------------------------------
\* Concurrent evaluations of the series rules record no airing twice, and one that is undisturbed
\* leaves no episode out; likewise an undisturbed sync of a recurring rule, for its days.
RulesSchedule ==
    /\ part = "series" => Airings!TypeOK /\ Airings!AiringOnce /\ Airings!EvaluationSchedules
    /\ part = "recurring" => Recurring!TypeOK /\ Recurring!SyncSchedules

\* What a rule has recorded stays when the rule is changed or deleted.
RulesKeepMade ==
    [][/\ part = "series" => Airings!KeepsMade
       /\ part = "recurring" => Recurring!KeepsMade]_<<seriesVars, ruleVars>>

\* A stopped recording stays stopped, and what was recorded stays on the disk.
RecordingKept ==
    [][/\ part \in {"dvr", "artwork"} => Restarted!HeedsStop /\ Restarted!KeepsFootage
       /\ part = "twice" => Twice!HeedsStop /\ Twice!KeepsFootage]_dvrVars
=============================================================================
