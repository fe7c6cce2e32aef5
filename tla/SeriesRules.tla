----------------------------- MODULE SeriesRules -----------------------------
(***************************************************************************)
(* Series rules of the DVR: which airings of the guide become recordings.  *)
(* Views add and delete rules (apps/channels/api_views.py); an evaluation  *)
(* (apps/channels/tasks.py), from a view or after a guide refresh, creates *)
(* the recordings that are missing. Evaluations exclude each other by a    *)
(* task lock; nothing excludes the views.                                  *)
(*                                                                         *)
(* An airing stands for a programme's tvg_id and times, which survive a    *)
(* refresh of the guide. A rule covers all or only the new of a series.    *)
(***************************************************************************)
EXTENDS Integers, FiniteSets

CONSTANTS
    Worker, None,
    Series, Episode, Airing,
    SeriesOf,           \* of an episode
    EpisodeOf, TimeOf,  \* of an airing; it lasts one unit of time
    New,                \* airings marked new
    Horizon,            \* how far ahead an evaluation looks
    MaxClock, MaxEdits, MaxRemovals, MaxExpiries    \* bounds

SeriesAssumption ==
    /\ SeriesOf \in [Episode -> Series] /\ New \subseteq Airing
    /\ EpisodeOf \in [Airing -> Episode] /\ TimeOf \in [Airing -> Nat]
    /\ {Horizon, MaxClock, MaxEdits, MaxRemovals, MaxExpiries} \subseteq Nat

VARIABLES
    clock,
    rules,      \* dvr_series_rules: per series "all", "new" or "none"
    recs,       \* per airing, how many recordings there are
    lock,       \* task_lock_evaluate_series_rules_all is set
    deleting,   \* series whose rule is gone, its recordings still to be deleted
    job,        \* per worker, its evaluation
    edits, removals, expiries

counted == <<edits, removals, expiries>>
vars == <<clock, rules, recs, lock, deleting, job, counted>>

Mode == {"all", "new", "none"}

NoJob ==
    [pc |-> "idle",
     now |-> 0,
     rules |-> [s \in Series |-> "none"],   \* as read
     known |-> {},                          \* existing_program_keys
     todo |-> {},                           \* airings still to look at
     clean |-> FALSE]                       \* history: no view changed anything since

TypeOK ==
    /\ clock \in Nat /\ lock \in BOOLEAN /\ deleting \subseteq Series
    /\ rules \in [Series -> Mode] /\ recs \in [Airing -> Nat]

SeriesOfAiring(a) == SeriesOf[EpisodeOf[a]]
At(w, l) == job[w].pc = l
Dirty == [w \in Worker |-> [job[w] EXCEPT !.clean = FALSE]]

Init ==
    /\ clock = 0 /\ rules = [s \in Series |-> "none"] /\ recs = [a \in Airing |-> 0]
    /\ lock = FALSE /\ deleting = {} /\ job = [w \in Worker |-> NoJob]
    /\ edits = 0 /\ removals = 0 /\ expiries = 0

-----------------------------------------------------------------------------
\* The lock is taken, or the evaluation skipped.
Acquire(w) ==
    /\ At(w, "idle") /\ ~lock
    /\ lock' = TRUE /\ job' = [job EXCEPT ![w].pc = "rules", ![w].clean = deleting = {}]
    /\ UNCHANGED <<clock, rules, recs, deleting, counted>>

\* The rules are read, then the recordings that have not ended.
ReadRules(w) ==
    /\ At(w, "rules")
    /\ job' = [job EXCEPT ![w].pc = "known", ![w].now = clock, ![w].rules = rules]
    /\ UNCHANGED <<clock, rules, recs, lock, deleting, counted>>

ReadKnown(w) ==
    /\ At(w, "known")
    /\ job' = [job EXCEPT ![w].pc = "pick",
                          ![w].known = {a \in Airing : recs[a] > 0 /\ TimeOf[a] + 1 >= job[w].now}]
    /\ UNCHANGED <<clock, rules, recs, lock, deleting, counted>>

\* The airings that a rule covers and that are not over.
Covered(rule, now) ==
    {a \in Airing : /\ TimeOf[a] + 1 > now /\ TimeOf[a] <= now + Horizon
                    /\ \/ rule[SeriesOfAiring(a)] = "all"
                       \/ rule[SeriesOfAiring(a)] = "new" /\ a \in New}

\* earliest_by_key: of each episode, the first of them.
Earliest(as) == {a \in as : \A b \in as : EpisodeOf[a] = EpisodeOf[b] => TimeOf[a] <= TimeOf[b]}

\* Slip: the earliest of all airings is taken, and kept if a rule covers it.
EarliestThenMode(rule, now) ==
    Earliest(Covered([s \in Series |-> "all"], now)) \cap Covered(rule, now)
Chosen(rule, now) == Earliest(Covered(rule, now))

Pick(w) ==
    /\ At(w, "pick")
    /\ job' = [job EXCEPT ![w].pc = "check", ![w].known = {},
                          ![w].rules = NoJob.rules,
                          ![w].todo = Chosen(job[w].rules, job[w].now) \ job[w].known]
    /\ UNCHANGED <<clock, rules, recs, lock, deleting, counted>>

\* One after another: if the database has none for the airing, a recording is created.
Check(w) ==
    /\ At(w, "check")
    /\ \E a \in job[w].todo :
          job' = [job EXCEPT ![w].pc = IF recs[a] > 0 THEN "check" ELSE "create",
                             ![w].todo = IF recs[a] > 0 THEN @ \ {a} ELSE {a} \cup @,
                             ![w].known = IF recs[a] > 0 THEN {} ELSE {a}]
    /\ UNCHANGED <<clock, rules, recs, lock, deleting, counted>>

Create(w) ==
    /\ At(w, "create")
    /\ recs' = [a \in Airing |-> IF a \in job[w].known THEN recs[a] + 1 ELSE recs[a]]
    /\ job' = [job EXCEPT ![w].pc = "check", ![w].todo = @ \ job[w].known, ![w].known = {}]
    /\ UNCHANGED <<clock, rules, lock, deleting, counted>>

Done(w) ==
    /\ At(w, "check") /\ job[w].todo = {}
    /\ lock' = FALSE /\ job' = [job EXCEPT ![w] = NoJob]
    /\ UNCHANGED <<clock, rules, recs, deleting, counted>>

\* The lock is for five minutes.
Expire ==
    /\ lock /\ expiries < MaxExpiries /\ expiries' = expiries + 1 /\ lock' = FALSE
    /\ UNCHANGED <<clock, rules, recs, deleting, job, edits, removals>>

-----------------------------------------------------------------------------
\* A rule is set, or replaced. (All rules are one setting, read and written as a whole:
\* what two requests lose of each other's rules needs two series and is not modelled.)
AddRule(s, mode) ==
    /\ edits < MaxEdits /\ edits' = edits + 1
    /\ rules' = [rules EXCEPT ![s] = mode] /\ job' = Dirty
    /\ UNCHANGED <<clock, recs, lock, deleting, removals, expiries>>

\* A rule is deleted, ...
DeleteRule(s) ==
    /\ rules[s] # "none"
    /\ edits < MaxEdits /\ edits' = edits + 1
    /\ rules' = [rules EXCEPT ![s] = "none"] /\ deleting' = deleting \cup {s} /\ job' = Dirty
    /\ UNCHANGED <<clock, recs, lock, removals, expiries>>

\* Slip: all recordings go, made ones too.
DropAll(s) ==
    /\ s \in deleting /\ deleting' = deleting \ {s}
    /\ recs' = [a \in Airing |-> IF SeriesOfAiring(a) = s THEN 0 ELSE recs[a]]
    /\ UNCHANGED <<clock, rules, lock, job, counted>>

\* ... then the recordings that have not started.
DropUpcoming(s) ==
    /\ s \in deleting /\ deleting' = deleting \ {s}
    /\ recs' = [a \in Airing |-> IF SeriesOfAiring(a) = s /\ TimeOf[a] >= clock THEN 0 ELSE recs[a]]
    /\ UNCHANGED <<clock, rules, lock, job, counted>>

\* The user deletes a recording, or all that are still to come of a series, or all.
Remove(as) ==
    /\ removals < MaxRemovals /\ removals' = removals + 1
    /\ recs' = [a \in Airing |-> IF a \in as THEN 0 ELSE recs[a]] /\ job' = Dirty
    /\ UNCHANGED <<clock, rules, lock, deleting, edits, expiries>>

RemoveOne == \E a \in Airing : recs[a] > 0 /\ Remove({a})
RemoveSeries == \E s \in Series : Remove({a \in Airing : SeriesOfAiring(a) = s /\ TimeOf[a] >= clock})
RemoveUpcoming == Remove({a \in Airing : TimeOf[a] > clock})

Tick ==
    /\ clock < MaxClock /\ clock' = clock + 1
    /\ UNCHANGED <<rules, recs, lock, deleting, job, counted>>

Next ==
    \/ \E w \in Worker :
          Acquire(w) \/ ReadRules(w) \/ ReadKnown(w) \/ Pick(w) \/ Check(w) \/ Create(w) \/ Done(w)
    \/ \E s \in Series : DeleteRule(s) \/ DropUpcoming(s) \/ \E m \in {"all", "new"} : AddRule(s, m)
    \/ RemoveOne \/ RemoveSeries \/ RemoveUpcoming \/ Expire \/ Tick

Spec == Init /\ [][Next]_vars

-----------------------------------------------------------------------------
(* Properties                                                              *)

\* Concurrent evaluations do not record an airing twice (as long as none outlives
\* the lock).
AiringOnce == expiries = 0 => \A a \in Airing : recs[a] <= 1

\* An evaluation no view interfered with leaves every episode a rule covers with a
\* recording of its first airing ahead: also if its first airing is not a new one,
\* and whatever had been recorded or removed before.
EvaluationSchedules ==
    \A w \in Worker : At(w, "check") /\ job[w].todo = {} /\ job[w].clean =>
        \A a \in Covered(rules, job[w].now) :
            (\A b \in Covered(rules, job[w].now) :
                EpisodeOf[a] = EpisodeOf[b] => TimeOf[a] <= TimeOf[b]) => recs[a] > 0

\* Only a user deletes a recording that has started: deleting a rule "preserves
\* previously recorded episodes".
KeepsMade ==
    \A a \in Airing : recs[a] > 0 /\ TimeOf[a] < clock =>
        recs'[a] >= recs[a] \/ removals' # removals
MadeStays == [][KeepsMade]_vars
=============================================================================
