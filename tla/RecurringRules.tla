---------------------------- MODULE RecurringRules ----------------------------
(***************************************************************************)
(* A recurring rule of the DVR: on given days of the week a channel is     *)
(* recorded at a given time. Its views (apps/channels/api_views.py) and a  *)
(* daily task (apps/channels/tasks.py) create the recordings of the days   *)
(* to come; nothing keeps them from doing so at the same time.             *)
(*                                                                         *)
(* The clock counts days, and is read in the middle of a day: a recording  *)
(* of the early slot has then started, one of the late slot has not.       *)
(***************************************************************************)
EXTENDS Integers, FiniteSets

CONSTANTS
    Worker, None,
    Week, Horizon,      \* days in a week; days the daily task looks ahead
    Rules,              \* the rules that the views may save
    LastDay,            \* bound on the clock and on the windows
    MaxEdits, MaxRuns   \* bounds

Day == 0 .. LastDay + Horizon
Slot == {"early", "late"}
\* RecurringRecordingRule: days_of_week, start_time, end_date or None, enabled.
Rule == [days : SUBSET (0 .. Week - 1), slot : Slot, end : Day \cup {None}, on : BOOLEAN]

RecurringAssumption ==
    /\ {Week, Horizon, LastDay} \subseteq Nat \ {0} /\ {MaxEdits, MaxRuns} \subseteq Nat
    /\ Rules \subseteq Rule

VARIABLES
    clock,
    rule,       \* the rule, or None when deleted
    recs,       \* per day and slot, how many recordings of the rule there are
    job,        \* per worker, its sync
    edits, runs

counted == <<edits, runs>>
vars == <<clock, rule, recs, job, counted>>

NoJob ==
    [pc |-> "idle",
     drop |-> FALSE,    \* drop_existing
     rule |-> None, now |-> 0,
     todo |-> {},       \* days still to look at
     day |-> {},        \* the day to create a recording for
     alone |-> FALSE]   \* history: nothing else happened since it began

TypeOK ==
    /\ clock \in Nat /\ rule \in Rule \cup {None}
    /\ recs \in [Day \X Slot -> Nat]

At(w, l) == job[w].pc = l
Others(w) == [v \in Worker |-> IF v = w THEN job[v] ELSE [job[v] EXCEPT !.alone = FALSE]]
Idle == \A w \in Worker : At(w, "idle")
Started(d, s, now) == d < now \/ (d = now /\ s = "early")

Init ==
    /\ clock = 0 /\ rule = None /\ recs = [x \in Day \X Slot |-> 0]
    /\ job = [w \in Worker |-> NoJob] /\ edits = 0 /\ runs = 0

-----------------------------------------------------------------------------
Start(w, l, drop) ==
    job' = [Others(w) EXCEPT ![w] = [NoJob EXCEPT !.pc = l, !.drop = drop, !.alone = Idle]]

\* perform_create, perform_update and perform_destroy: the rule is saved, its
\* recordings are replaced or, if it is now off or gone, just dropped.
Edit(w, new) ==
    /\ At(w, "idle") /\ edits < MaxEdits /\ edits' = edits + 1
    /\ rule' = new
    /\ \/ new = None /\ rule # None /\ Start(w, "only_purge", TRUE)
       \/ new # None /\ Start(w, IF new.on \/ rule = None THEN "read" ELSE "only_purge", TRUE)
    /\ UNCHANGED <<clock, recs, runs>>

\* maintain_recurring_recordings adds what is missing.
Maintain(w) ==
    /\ At(w, "idle") /\ runs < MaxRuns /\ runs' = runs + 1
    /\ rule # None /\ rule.on /\ Start(w, "read", FALSE)
    /\ UNCHANGED <<clock, rule, recs, edits>>

ReadRule(w) ==
    /\ At(w, "read")
    /\ job' = [job EXCEPT ![w].pc = IF job[w].drop THEN "purge" ELSE "window",
                          ![w].rule = rule, ![w].now = clock]
    /\ UNCHANGED <<clock, rule, recs, counted>>

\* purge_recurring_rule_impl: what has not started.
Purged == [x \in Day \X Slot |-> IF Started(x[1], x[2], clock) THEN recs[x] ELSE 0]

Purge(w) ==
    /\ job[w].pc \in {"purge", "only_purge"} /\ recs' = Purged
    /\ job' = [Others(w) EXCEPT ![w] = IF At(w, "purge") THEN [job[w] EXCEPT !.pc = "window"]
                                       ELSE NoJob]
    /\ UNCHANGED <<clock, rule, counted>>

\* The days from today to the horizon or the rule's end, or to its end even if that
\* is later when the recordings are replaced.
Window(r, now, drop) ==
    IF drop /\ r.end # None THEN now .. r.end
    ELSE {d \in now .. now + Horizon : r.end # None => d <= r.end}

Wanted(r, now, drop) ==
    {d \in Window(r, now, drop) : d % Week \in r.days /\ ~Started(d, r.slot, now)}

MakeWindow(w) ==
    LET r == job[w].rule IN
    /\ At(w, "window")
    /\ \/ /\ r = None
          /\ job' = [job EXCEPT ![w] = NoJob]
       \/ /\ r # None
          /\ job' = IF r.on THEN [job EXCEPT ![w].pc = "check",
                                             ![w].todo = Wanted(r, job[w].now, job[w].drop)]
                    ELSE [job EXCEPT ![w] = NoJob]
    /\ UNCHANGED <<clock, rule, recs, counted>>

\* Day by day: what does not exist is created.
Check(w) ==
    /\ At(w, "check")
    /\ \E d \in job[w].todo :
          /\ \A e \in job[w].todo : d <= e
          /\ job' = [job EXCEPT ![w].todo = @ \ {d},
                                ![w].pc = IF recs[d, job[w].rule.slot] > 0 THEN "check" ELSE "create",
                                ![w].day = IF recs[d, job[w].rule.slot] > 0 THEN {} ELSE {d}]
    /\ UNCHANGED <<clock, rule, recs, counted>>

Create(w) ==
    /\ At(w, "create")
    /\ \E d \in job[w].day : recs' = [recs EXCEPT ![d, job[w].rule.slot] = @ + 1]
    /\ job' = [Others(w) EXCEPT ![w].pc = "check", ![w].day = {}]
    /\ UNCHANGED <<clock, rule, counted>>

Done(w) ==
    /\ At(w, "check") /\ job[w].todo = {} /\ job' = [job EXCEPT ![w] = NoJob]
    /\ UNCHANGED <<clock, rule, recs, counted>>

Tick ==
    /\ clock < LastDay /\ clock' = clock + 1
    /\ UNCHANGED <<rule, recs, job, counted>>

Next ==
    \/ \E w \in Worker :
          \/ \E new \in Rules \cup {None} : Edit(w, new)
          \/ Maintain(w) \/ ReadRule(w) \/ Purge(w) \/ MakeWindow(w)
          \/ Check(w) \/ Create(w) \/ Done(w)
    \/ Tick

Spec == Init /\ [][Next]_vars

-----------------------------------------------------------------------------
(* Properties                                                              *)

\* A sync that nothing overlapped leaves each day of the rule ahead with exactly one
\* recording, and, replacing them, nothing else ahead: whatever the rule was before,
\* and whatever an earlier overlap left behind, up to twice the same.
SyncSchedules ==
    \A w \in Worker : At(w, "check") /\ job[w].todo = {} /\ job[w].alone /\ clock = job[w].now =>
        LET r == job[w].rule
            wanted == {<<d, r.slot>> : d \in {d \in Day :
                          /\ d >= clock /\ d % Week \in r.days /\ ~Started(d, r.slot, clock)
                          /\ (r.end # None => d <= r.end)
                          /\ (r.end = None \/ ~job[w].drop => d <= clock + Horizon)}}
        IN  /\ \A x \in wanted : recs[x] > 0
            /\ job[w].drop => \A x \in Day \X Slot :
                   ~Started(x[1], x[2], clock) => recs[x] = IF x \in wanted THEN 1 ELSE 0

\* What has been recorded, or is being, stays when its rule is changed or deleted.
KeepsMade == \A x \in Day \X Slot : Started(x[1], x[2], clock) => recs'[x] >= recs[x]
MadeStays == [][KeepsMade]_vars
=============================================================================
