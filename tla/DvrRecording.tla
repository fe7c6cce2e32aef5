---------------------------- MODULE DvrRecording ----------------------------
(***************************************************************************)
(* Recordings of a channel: the Celery tasks that record, recover after a  *)
(* restart and cut commercials (apps/channels/tasks.py), the signals that  *)
(* schedule them (apps/channels/signals.py) and the views by which a user  *)
(* stops, extends or deletes a recording (apps/channels/api_views.py).     *)
(*                                                                         *)
(* A recording's row keeps its status and files in one JSON field, which   *)
(* every task reads and writes as a whole. Time is counted in ticks; what  *)
(* is recorded is the set of ticks a file covers, for which recording.     *)
(***************************************************************************)
EXTENDS Integers, FiniteSets

CONSTANTS
    Worker, None,
    Rec,            \* the recordings, all of one channel
    Begin, Ends,    \* per recording, start_time and end_time
    Path, Names,    \* file names, each of a .ts and a .mkv file, and per recording
                    \* those _build_output_paths may give it, in its order
    Comskip,        \* whether commercials are cut (get_dvr_comskip_enabled)
    Fresh,          \* whether the server has just started
    Art,            \* recordings whose prefetch_recording_artwork is still to run
    MaxClock, MaxExtends, MaxLosses, MaxRestarts    \* bounds

DvrAssumption ==
    /\ Begin \in [Rec -> Nat] /\ Ends \in [Rec -> Nat] /\ \A r \in Rec : Begin[r] < Ends[r]
    /\ Path \subseteq Nat \ {0} /\ Names \in [Rec -> SUBSET Path] /\ {Comskip, Fresh} \subseteq BOOLEAN
    /\ Art \subseteq Rec
    /\ {MaxClock, MaxExtends, MaxLosses, MaxRestarts} \subseteq Nat

VARIABLES
    clock,
    row,        \* per recording, its Recording row, or None when deleted
    ends,       \* per recording, end_time
    beat,       \* recordings with a PeriodicTask that is still to fire
    sent,       \* tasks in the queue: to run (with start and end), cut, or find art
    ts, mkv,    \* per path, what the files hold; None for a .ts file that is not there
    segs,       \* what the segment_*.mkv files hold: all recordings' directory is one
    deleting,   \* per recording, how far destroy() is, and the path it will remove
    recover,    \* recover_recordings_on_startup is queued
    lock,       \* dvr:recover_lock
    job,        \* per worker, where its task is, and its locals; see NoJob
    losses, restarts,
    apart       \* history: the files have been used by one task at a time, and no restart
                \* has come while a task removed the files it had joined

files == <<ts, mkv, segs>>
tasks == <<beat, sent, recover, lock>>
counted == <<losses, restarts>>
vars == <<clock, row, ends, tasks, files, deleting, job, counted, apart>>

Terminal == {"completed", "stopped", "interrupted"}
Row == [status : {"", "recording"} \cup Terminal, path : Path \cup {0}, before : SUBSET Path]

NoJob ==
    [pc |-> "idle", rec |-> None,
     path |-> 0,            \* final_path, temp_ts_path
     since |-> 0,           \* _stream_started_at
     start |-> 0,           \* start_time
     length |-> 0,          \* duration_seconds
     cut |-> FALSE,         \* its client was stopped
     bad |-> FALSE,         \* interrupted
     mem |-> None,          \* recording_obj, the row as the run knows it
     was |-> None,          \* the row (in recovery, the rows) last read, to be written back
     todo |-> {}]           \* files still to remove; in recovery, recordings still to recover

TypeOK ==
    /\ row \in [Rec -> Row \cup {None}] /\ ends \in [Rec -> Nat]
    /\ beat \subseteq Rec /\ {t[2] : t \in sent} \subseteq Rec
    /\ mkv \in [Path -> SUBSET (Rec \X Nat)] /\ ts \in [Path -> SUBSET (Rec \X Nat) \cup {None}]
    /\ segs \subseteq Rec \X Nat

-----------------------------------------------------------------------------
At(w, l) == job[w].pc = l
Go(w, l) == job' = [job EXCEPT ![w].pc = l]
End(w) == job' = [job EXCEPT ![w] = NoJob]
Exists(r) == row[r] # None
Has(r, status) == Exists(r) /\ row[r].status = status
Data(p) == IF ts[p] = None THEN {} ELSE ts[p]
Wrote(w) == \E t \in 0 .. clock : <<job[w].rec, t>> \in Data(job[w].path)

\* _build_output_paths: the first name of which neither file holds anything; an
\* empty file, which every recording starts with, does not count.
FreePath(r) ==
    LET free == {p \in Names[r] : Data(p) = {} /\ mkv[p] = {}}
    IN  CHOOSE p \in free : \A q \in free : p <= q

\* Writing the row as it was read, changed; the database refuses if it is gone.
Save(r, new) == row' = IF Exists(r) THEN [row EXCEPT ![r] = new] ELSE row

Init ==
    /\ clock = 0
    /\ row = [r \in Rec |-> [status |-> "", path |-> 0, before |-> {}]]
    /\ ends = Ends /\ beat = Rec /\ sent = {<<"art", r>> : r \in Art} /\ recover = Fresh /\ lock = FALSE
    /\ ts = [p \in Path |-> None] /\ mkv = [p \in Path |-> {}] /\ segs = {}
    /\ deleting = [r \in Rec |-> <<"no">>]
    /\ job = [w \in Worker |-> NoJob] /\ losses = 0 /\ restarts = 0 /\ apart = TRUE

-----------------------------------------------------------------------------
(* run_recording                                                           *)

\* schedule_recording_task stored a one-off task: Celery beat sends it, once.
Beat(r) ==
    /\ r \in beat /\ clock >= Begin[r]
    /\ beat' = beat \ {r} /\ sent' = sent \cup {<<"run", r, Begin[r], Ends[r]>>}
    /\ UNCHANGED <<clock, row, ends, recover, lock, files, deleting, job, counted>>

\* The guard against a second run, and the end of the periodic task.
Ready(r) == Exists(r) /\ row[r].status \notin {"recording", "completed", "stopped"}
Take(w, task) ==
    LET r == task[2] IN
    /\ At(w, "idle") /\ task[1] = "run" /\ task \in sent /\ sent' = sent \ {task}
    /\ \/ /\ Ready(r)
          /\ job' = [job EXCEPT ![w] = [NoJob EXCEPT !.pc = "prepare", !.rec = r,
                                   !.start = task[3], !.length = task[4] - task[3]]]
          /\ beat' = beat \ {r}
       \/ ~Ready(r) /\ UNCHANGED <<job, beat>>
    /\ UNCHANGED <<clock, row, ends, recover, lock, files, deleting, counted>>

\* The names of the files are chosen, and details of the programme looked up.
Prepare(w) ==
    LET r == job[w].rec IN
    /\ At(w, "prepare")
    /\ \/ /\ Exists(r) /\ ~Has(r, "stopped")
          /\ job' = [job EXCEPT ![w].pc = "prime", ![w].path = FreePath(r), ![w].mem = row[r]]
       \/ (~Exists(r) \/ Has(r, "stopped")) /\ End(w)
    /\ UNCHANGED <<clock, row, ends, tasks, files, deleting, counted>>

\* The row is read again, ...
Prime(w) ==
    LET r == job[w].rec IN
    /\ At(w, "prime")
    /\ \/ /\ Exists(r) /\ ~Has(r, "stopped")
          /\ job' = [job EXCEPT ![w].pc = "mark", ![w].was = row[r]]
       \/ ~Exists(r) /\ Go(w, "connect")
       \/ Has(r, "stopped") /\ End(w)
    /\ UNCHANGED <<clock, row, ends, tasks, files, deleting, counted>>

\* ... and written as it was read, marked; that it is gone only stops the marking.
Mark(w) ==
    LET new == [job[w].was EXCEPT !.status = "recording", !.path = job[w].path] IN
    /\ At(w, "mark")
    /\ Save(job[w].rec, new)
    /\ job' = [job EXCEPT ![w].pc = "connect", ![w].mem = new, ![w].was = None]
    /\ UNCHANGED <<clock, ends, tasks, files, deleting, counted>>

\* The stream is over, and only what comes after it counts: first, whether there was any.
After(w, bad) ==
    job' = [job EXCEPT ![w] = [NoJob EXCEPT !.pc = "after", !.bad = bad, !.mem = job[w].mem,
                                           !.rec = job[w].rec, !.path = job[w].path]]
Over(w) == IF Wrote(w) THEN After(w, FALSE) ELSE Go(w, "empty")

\* The stream is opened, and the file emptied.
Connect(w) ==
    /\ At(w, "connect")
    /\ ts' = [ts EXCEPT ![job[w].path] = {}]
    /\ job' = [job EXCEPT ![w].pc = "reading", ![w].since = clock]
    /\ UNCHANGED <<clock, row, ends, tasks, mkv, segs, deleting, counted>>

\* No address gives data, whatever the reason.
ConnectFails(w) ==
    /\ At(w, "connect") /\ losses < MaxLosses /\ losses' = losses + 1
    /\ After(w, TRUE)
    /\ UNCHANGED <<clock, row, ends, tasks, files, deleting, restarts>>

\* A chunk is written; the time is up when it has run for the duration, which
\* counts from when it began. (Time stops at MaxClock: by then it is up.)
Deadline(w) == job[w].since + job[w].length
Read(w) ==
    /\ At(w, "reading") /\ ~job[w].cut
    /\ \/ /\ clock < Deadline(w) /\ clock < MaxClock
          /\ <<job[w].rec, clock>> \notin Data(job[w].path)
          /\ ts' = [ts EXCEPT ![job[w].path] = Data(job[w].path) \cup {<<job[w].rec, clock>>}]
          /\ UNCHANGED job
       \/ (clock >= Deadline(w) \/ clock = MaxClock) /\ Over(w) /\ UNCHANGED ts
    /\ UNCHANGED <<clock, row, ends, tasks, mkv, segs, deleting, counted>>

\* Every two seconds the row is looked at: for a stop, its deletion, a later end.
Poll(w) ==
    LET r == job[w].rec
        length == ends[r] - job[w].start
    IN  /\ At(w, "reading") /\ Wrote(w)
        /\ \/ (~Exists(r) \/ Has(r, "stopped")) /\ After(w, FALSE)
           \/ /\ Exists(r) /\ ~Has(r, "stopped") /\ length > job[w].length
              /\ job' = [job EXCEPT ![w].length = length]
        /\ UNCHANGED <<clock, row, ends, tasks, files, deleting, counted>>

\* The proxy ends the response, its client having been stopped or not: the stream is
\* complete as far as this task can see, if there was any.
StreamCut(w) ==
    /\ At(w, "reading") /\ job[w].cut /\ Over(w)
    /\ UNCHANGED <<clock, row, ends, tasks, files, deleting, counted>>

StreamEnds(w) ==
    /\ At(w, "reading") /\ losses < MaxLosses /\ losses' = losses + 1
    /\ Over(w)
    /\ UNCHANGED <<clock, row, ends, tasks, files, deleting, restarts>>

\* The connection is lost, and five attempts to take it up again fail; what has
\* been stopped meanwhile is not interrupted.
StreamLost(w) ==
    /\ At(w, "reading") /\ losses < MaxLosses /\ losses' = losses + 1
    /\ After(w, ~(Wrote(w) /\ Has(job[w].rec, "stopped")))
    /\ UNCHANGED <<clock, row, ends, tasks, files, deleting, restarts>>

\* A stream that gave nothing: unless the user had stopped it, the row is at once
\* written as the run knows it, as interrupted.
Empty(w) ==
    /\ At(w, "empty")
    /\ \/ Has(job[w].rec, "stopped") /\ After(w, FALSE)
       \/ /\ ~Has(job[w].rec, "stopped")
          /\ job' = [job EXCEPT ![w].pc = "nothing", ![w].was = job[w].mem]
    /\ UNCHANGED <<clock, row, ends, tasks, files, deleting, counted>>

MarkEmpty(w) ==
    /\ At(w, "nothing")
    /\ Save(job[w].rec, [job[w].was EXCEPT !.status = "interrupted", !.path = job[w].path])
    /\ After(w, TRUE)
    /\ UNCHANGED <<clock, ends, tasks, files, deleting, counted>>

\* The files of a deleted recording are removed, those the run knows from before a
\* restart too; else the row is read for these.
AfterStream(w) ==
    LET r == job[w].rec
        p == job[w].path
    IN  /\ At(w, "after")
        /\ \/ /\ ~Exists(r) /\ End(w) /\ UNCHANGED segs
              /\ ts' = [q \in Path |-> IF q \in {p} \cup job[w].mem.before THEN None ELSE ts[q]]
              /\ mkv' = [mkv EXCEPT ![p] = {}]
           \/ /\ Exists(r)
              /\ LET old == {q \in row[r].before : Data(q) # {}}
                 IN  IF old # {} /\ ts[p] # None
                     THEN job' = [job EXCEPT ![w].pc = "concat", ![w].was = row[r],
                                             ![w].todo = old \cup {p}]
                     ELSE Go(w, "remux")
              /\ UNCHANGED files
        /\ UNCHANGED <<clock, row, ends, tasks, deleting, counted>>

\* ffmpeg joins them with this one into the .mkv, or fails and leaves nothing of it.
Concat(w) ==
    LET p == job[w].path
        segments == job[w].todo
    IN  /\ At(w, "concat")
        /\ \/ /\ \A q \in segments : ts[q] # None
              /\ mkv' = [mkv EXCEPT ![p] = UNION {ts[q] : q \in segments}] /\ Go(w, "joined")
           \/ /\ mkv' = [mkv EXCEPT ![p] = {}]
              /\ job' = [job EXCEPT ![w].pc = "unjoined", ![w].todo = {}]
        /\ UNCHANGED <<clock, row, ends, tasks, ts, segs, deleting, counted>>

\* What was joined is removed file by file, this one last.
RemoveSegment(w) ==
    /\ At(w, "joined")
    /\ \E q \in job[w].todo :
          /\ q = job[w].path => job[w].todo = {q}
          /\ ts' = [ts EXCEPT ![q] = None] /\ job' = [job EXCEPT ![w].todo = @ \ {q}]
    /\ UNCHANGED <<clock, row, ends, tasks, mkv, segs, deleting, counted>>

\* Joined or not, the row is written as it was read, without them.
ClearSegments(w) ==
    /\ job[w].pc \in {"joined", "unjoined"} /\ job[w].todo = {}
    /\ Save(job[w].rec, [job[w].was EXCEPT !.before = {}])
    /\ job' = [job EXCEPT ![w].pc = IF At(w, "joined") THEN "reread" ELSE "remux", ![w].was = None]
    /\ UNCHANGED <<clock, ends, tasks, files, deleting, counted>>

\* ffmpeg makes the .mkv, and the .ts goes; or it fails, or its result is refused,
\* and the .mkv goes.
Remux(w) ==
    LET p == job[w].path IN
    /\ At(w, "remux")
    /\ \/ ts[p] = None /\ UNCHANGED <<ts, mkv>>
       \/ Data(p) # {} /\ mkv' = [mkv EXCEPT ![p] = ts[p]] /\ ts' = [ts EXCEPT ![p] = None]
       \/ ts[p] # None /\ mkv' = [mkv EXCEPT ![p] = {}] /\ UNCHANGED ts
    /\ Go(w, "reread")
    /\ UNCHANGED <<segs, clock, row, ends, tasks, deleting, counted>>

\* The row is read for its last status, then the proxy asked about the stream, ...
Reread(w) ==
    LET r == job[w].rec IN
    /\ At(w, "reread")
    /\ \/ ~Exists(r) /\ End(w)
       \/ Exists(r) /\ job' = [job EXCEPT ![w].pc = "final", ![w].was = row[r],
                                                 ![w].mem = None, ![w].path = 0]
    /\ UNCHANGED <<clock, row, ends, tasks, files, deleting, counted>>

\* Slip: an interruption comes first.
OutcomeOfStream(w) ==
    CASE job[w].bad -> "interrupted"
      [] ~job[w].bad /\ job[w].was.status = "stopped" -> "stopped"
      [] OTHER -> "completed"

\* The outcome: a stop comes first.
Outcome(w) ==
    CASE job[w].was.status = "stopped" -> "stopped"
      [] job[w].bad -> "interrupted"
      [] OTHER -> "completed"

\* ... and the row written with its final status, if it is still there.
Finish(w) ==
    /\ At(w, "final")
    /\ Save(job[w].rec, [job[w].was EXCEPT !.status = Outcome(w)])
    /\ sent' = IF Comskip THEN sent \cup {<<"cut", job[w].rec>>} ELSE sent
    /\ End(w)
    /\ UNCHANGED <<clock, ends, beat, recover, lock, files, deleting, counted>>

-----------------------------------------------------------------------------
(* The other tasks.                                                        *)

\* comskip_process_recording reads the row ...
HasFile(r) == Exists(r) /\ row[r].path # 0 /\ mkv[row[r].path] # {}
StartComskip(w, r) ==
    /\ At(w, "idle") /\ <<"cut", r>> \in sent /\ sent' = sent \ {<<"cut", r>>}
    /\ \/ /\ HasFile(r)
          /\ job' = [job EXCEPT ![w] = [NoJob EXCEPT !.pc = "segment", !.rec = r,
                                      !.path = row[r].path, !.was = row[r]]]
       \/ ~HasFile(r) /\ UNCHANGED job
    /\ UNCHANGED <<clock, row, ends, beat, recover, lock, files, deleting, counted>>

\* ... copies what is not advertising to segment files, ...
Segments(w) ==
    /\ At(w, "segment") /\ mkv[job[w].path] # {}
    /\ segs' = mkv[job[w].path] /\ Go(w, "join")
    /\ UNCHANGED <<clock, row, ends, tasks, ts, mkv, deleting, counted>>

\* ... joins them into the file, deleted meanwhile or not, ...
Join(w) ==
    /\ At(w, "join") /\ segs # {}
    /\ mkv' = [mkv EXCEPT ![job[w].path] = segs] /\ segs' = {} /\ Go(w, "cut")
    /\ UNCHANGED <<clock, row, ends, tasks, ts, deleting, counted>>

\* ... and, also if there were none or a step failed, writes the row back as it was.
EndComskip(w) ==
    /\ job[w].pc \in {"segment", "join", "cut"}
    /\ Save(job[w].rec, job[w].was) /\ End(w)
    /\ UNCHANGED <<clock, ends, tasks, files, deleting, counted>>

\* prefetch_recording_artwork leaves alone what has started, and looks for a poster;
\* it then reads the row again and at once writes it back. The views for artwork and
\* metadata do the same.
StartArt(w, r) ==
    /\ At(w, "idle") /\ <<"art", r>> \in sent /\ sent' = sent \ {<<"art", r>>}
    /\ \/ /\ Has(r, "")
          /\ job' = [job EXCEPT ![w] = [NoJob EXCEPT !.pc = "poster", !.rec = r]]
       \/ ~Has(r, "") /\ UNCHANGED job
    /\ UNCHANGED <<clock, row, ends, beat, recover, lock, files, deleting, counted>>

FindPoster(w) ==
    LET r == job[w].rec IN
    /\ At(w, "poster")
    /\ \/ Exists(r) /\ job' = [job EXCEPT ![w].pc = "art", ![w].was = row[r]]
       \/ End(w)
    /\ UNCHANGED <<clock, row, ends, tasks, files, deleting, counted>>

EndArt(w) ==
    /\ At(w, "art") /\ Save(job[w].rec, job[w].was) /\ End(w)
    /\ UNCHANGED <<clock, ends, tasks, files, deleting, counted>>

\* recover_recordings_on_startup goes over the recordings, one worker at a time: one cut
\* off by a restart leaves its lock, for ten minutes. It compares their times with the
\* time it began, but reads them for each phase anew. First come those that should be
\* running, ...
Recovering == {"resume", "finalize", "reschedule"}
Phase(w, l, todo) ==
    job' = [job EXCEPT ![w].pc = l, ![w].todo = todo, ![w].start = IF l = "resume" THEN clock ELSE @,
                       ![w].was = IF l = "reschedule" THEN None ELSE row]

StartRecovery(w) ==
    /\ At(w, "idle") /\ recover /\ recover' = FALSE
    /\ lock' = TRUE
    /\ \/ lock /\ UNCHANGED job
       \/ ~lock /\ Phase(w, "resume", {r \in Rec : Exists(r) /\ Begin[r] <= clock /\ clock < ends[r]})
    /\ UNCHANGED <<clock, row, ends, beat, sent, files, deleting, counted>>

LockExpires ==
    /\ lock /\ \A w \in Worker : job[w].pc \notin Recovering
    /\ lock' = FALSE
    /\ UNCHANGED <<clock, row, ends, beat, sent, recover, files, deleting, job, counted>>

Segment(old) == IF old.path # 0 /\ Data(old.path) # {} THEN {old.path} ELSE {}

\* ... which are marked, their file kept as a segment and the rest of them sent to be
\* recorded. (The periodic task stays: the name revoke_task is not known there, and
\* the error is swallowed.)
Resume(w) ==
    /\ At(w, "resume")
    /\ \/ \E r \in job[w].todo :
             LET old == job[w].was[r] IN
             /\ \/ old.status \in {"completed", "stopped"} /\ UNCHANGED <<row, sent>>
                \/ /\ old.status \notin {"completed", "stopped"}
                   /\ Save(r, [old EXCEPT !.status = "interrupted",
                                          !.before = @ \cup Segment(old)])
                   /\ sent' = IF Exists(r) THEN sent \cup {<<"run", r, job[w].start, ends[r]>>} ELSE sent
             /\ job' = [job EXCEPT ![w].todo = @ \ {r}]
       \/ /\ job[w].todo = {}
          /\ Phase(w, "finalize", {r \in Rec : Has(r, "recording") /\ ends[r] <= job[w].start})
          /\ UNCHANGED <<row, sent>>
    /\ UNCHANGED <<clock, ends, beat, recover, lock, files, deleting, counted>>

\* Slip: only those with something to convert are finished.
FinalizeWithFile(w) ==
    /\ At(w, "finalize")
    /\ \/ \E r \in job[w].todo :
             LET old == job[w].was[r] IN
             /\ IF Segment(old) = {} THEN UNCHANGED row
                ELSE Save(r, [old EXCEPT !.status = "interrupted"])
             /\ job' = [job EXCEPT ![w].todo = @ \ {r}]
       \/ job[w].todo = {} /\ Phase(w, "reschedule", {}) /\ UNCHANGED row
    /\ UNCHANGED <<clock, ends, tasks, files, deleting, counted>>

\* Those that were running and should be over are finished with what there is: the
\* last file alone is converted, which also when it fails empties the .mkv.
Finalize(w) ==
    /\ At(w, "finalize")
    /\ \/ \E r \in job[w].todo :
             LET old == job[w].was[r]
                 p   == old.path
             IN  /\ \/ /\ Segment(old) # {}
                       /\ mkv' = [mkv EXCEPT ![p] = ts[p]] /\ ts' = [ts EXCEPT ![p] = None]
                    \/ Segment(old) # {} /\ mkv' = [mkv EXCEPT ![p] = {}] /\ UNCHANGED ts
                    \/ Segment(old) = {} /\ UNCHANGED <<ts, mkv>>
                 /\ Save(r, [old EXCEPT !.status = "interrupted"])
                 /\ job' = [job EXCEPT ![w].todo = @ \ {r}]
       \/ /\ job[w].todo = {} /\ UNCHANGED <<row, ts, mkv>>
          /\ Phase(w, "reschedule", {r \in Rec : Exists(r) /\ Begin[r] > job[w].start})
    /\ UNCHANGED <<segs, clock, ends, tasks, deleting, counted>>

\* Those still to come get a task again, if they have none.
Reschedule(w) ==
    /\ At(w, "reschedule")
    /\ beat' = beat \cup {r \in job[w].todo : Exists(r)}
    /\ lock' = FALSE /\ End(w)
    /\ UNCHANGED <<clock, row, ends, sent, recover, files, deleting, counted>>

\* The server is restarted: tasks and threads are gone, queue and database stay.
Restart ==
    /\ restarts < MaxRestarts /\ restarts' = restarts + 1
    /\ job' = [w \in Worker |-> NoJob] /\ recover' = TRUE
    /\ deleting' = [r \in Rec |-> <<"no">>]
    /\ UNCHANGED <<clock, row, ends, beat, sent, lock, files, losses>>

-----------------------------------------------------------------------------
(* The views.                                                              *)

\* stop() marks the row; its thread stops the client and takes the task back.
Stop(r) ==
    /\ Exists(r) /\ row[r].status \notin {"completed", "interrupted", "stopped"}
    /\ row' = [row EXCEPT ![r].status = "stopped"]
    /\ job' = [w \in Worker |-> IF At(w, "reading") /\ job[w].rec = r
                                THEN [job[w] EXCEPT !.cut = TRUE] ELSE job[w]]
    /\ beat' = beat \ {r}
    /\ UNCHANGED <<clock, ends, sent, recover, lock, files, deleting, counted>>

Extend(r) ==
    /\ Exists(r) /\ row[r].status \notin Terminal /\ ends[r] < Ends[r] + MaxExtends
    /\ ends' = [ends EXCEPT ![r] = @ + 1]
    /\ UNCHANGED <<clock, row, tasks, files, deleting, job, counted>>

\* destroy() stops the clients of the channel's recordings first, ...
Destroy(r) ==
    /\ Exists(r) /\ deleting[r] = <<"no">>
    /\ deleting' = [deleting EXCEPT ![r] = <<"clients">>]
    /\ job' = [w \in Worker |-> IF At(w, "reading") THEN [job[w] EXCEPT !.cut = TRUE]
                                ELSE job[w]]
    /\ UNCHANGED <<clock, row, ends, tasks, files, counted>>

\* ... then deletes the row and with it the periodic task, ...
DestroyRow(r) ==
    /\ deleting[r] = <<"clients">>
    /\ deleting' = [deleting EXCEPT
          ![r] = IF Exists(r) /\ row[r].path # 0 THEN <<"files", row[r].path>> ELSE <<"no">>]
    /\ row' = [row EXCEPT ![r] = None] /\ beat' = beat \ {r}
    /\ UNCHANGED <<clock, ends, sent, recover, lock, files, job, counted>>

\* ... and its thread removes the files the row had named.
RemoveFiles(r) ==
    /\ deleting[r][1] = "files"
    /\ ts' = [ts EXCEPT ![deleting[r][2]] = None] /\ mkv' = [mkv EXCEPT ![deleting[r][2]] = {}]
    /\ deleting' = [deleting EXCEPT ![r] = <<"no">>]
    /\ UNCHANGED <<segs, clock, row, ends, tasks, job, counted>>

Tick ==
    /\ clock < MaxClock /\ clock' = clock + 1
    /\ UNCHANGED <<row, ends, tasks, files, deleting, job, counted>>

-----------------------------------------------------------------------------
Work(w) ==
    \/ \E task \in sent : Take(w, task) \/ StartComskip(w, task[2]) \/ StartArt(w, task[2])
    \/ Prepare(w) \/ Prime(w) \/ Mark(w) \/ Connect(w) \/ Read(w)
    \/ Empty(w) \/ MarkEmpty(w) \/ AfterStream(w)
    \/ Concat(w) \/ RemoveSegment(w) \/ ClearSegments(w) \/ Remux(w) \/ Reread(w) \/ Finish(w)
    \/ Segments(w) \/ Join(w) \/ EndComskip(w)
    \/ FindPoster(w) \/ EndArt(w) \/ StartRecovery(w)
    \/ Resume(w) \/ Finalize(w) \/ Reschedule(w)
    \/ StreamCut(w)

Step ==
    \/ \E w \in Worker : Work(w) \/ ConnectFails(w) \/ Poll(w) \/ StreamEnds(w) \/ StreamLost(w)
    \/ \E r \in Rec :
          \/ Beat(r) \/ Stop(r) \/ Extend(r)
          \/ Destroy(r) \/ DestroyRow(r) \/ RemoveFiles(r)
    \/ LockExpires \/ Restart \/ Tick

\* What uses a file name: rows, the threads that delete files, and tasks.
Users(p) ==
    {<<"row", r>> : r \in {r \in Rec : Exists(r) /\ p \in row[r].before \cup {row[r].path}}}
    \cup {<<"deleted", r>> : r \in {r \in Rec : deleting[r] = <<"files", p>>}}
Runs(p) == {w \in Worker : job[w].path = p}
Apart ==
    /\ \A p \in Path : /\ Cardinality(Users(p)) <= 1 /\ Cardinality(Runs(p)) <= 1
                       /\ \A w \in Runs(p) : Users(p) \subseteq {<<"row", job[w].rec>>}
    /\ Cardinality({w \in Worker : job[w].pc \in {"segment", "join"}}) <= 1
    /\ \A v, w \in Worker : job[v].pc \in Recovering => job[w].path = 0
\* A restart between the removal of the first joined file and of the last one: the .mkv
\* still has all, but the recovery may make it anew, from the file that is left.
Torn ==
    /\ restarts' # restarts
    /\ \E w \in Worker : At(w, "joined") /\ job[w].todo # {} /\ \E q \in job[w].was.before : ts[q] = None
Watch == apart' = (apart /\ Apart' /\ ~Torn)

Next == Step /\ Watch

\* The queue's tasks are run, Celery beat runs, and time passes.
Fairness ==
    /\ \A w \in Worker : WF_vars(Work(w) /\ Watch)
    /\ \A r \in Rec : WF_vars(Beat(r) /\ Watch)
    /\ WF_vars(Tick /\ Watch)

Spec == Init /\ [][Next]_vars
FairSpec == Spec /\ Fairness

-----------------------------------------------------------------------------
(* Properties                                                              *)

\* Once stopped, a recording stays stopped, unless a task writes back a row it had
\* read before: no run resumes it, completes it or calls it interrupted.
Before(w, r) ==
    CASE job[w].was = None -> None
      [] job[w].was # None /\ job[w].pc \in Recovering -> job[w].was[r]
      [] OTHER -> IF job[w].rec = r THEN job[w].was ELSE None
HeedsStop ==
    \A r \in Rec : Has(r, "stopped") /\ row'[r] # None /\ row'[r].status # "stopped" =>
        \E w \in Worker : Before(w, r) # None /\ Before(w, r).status # "stopped"
\* What was recorded of a recording stays on the disk until the user deletes it,
\* through lost connections, failing conversions, cuts and restarts: as long as no
\* name is used twice, no two recordings are cut at a time in a directory, none is
\* recovered while a task has it, and no restart comes amid the removal of joined files.
On(p, r, t) == <<r, t>> \in Data(p) \cup mkv[p]
Kept(r, t) == (\E p \in Path : On(p, r, t)) => (\E p \in Path : On(p, r, t))'
KeepsFootage == apart => \A r \in Rec : Exists(r) => \A t \in 0 .. MaxClock : Kept(r, t)
\* What is being recorded gets an outcome, also after a restart: unless it is extended
\* while the recovery reads the rows, which then finds it neither to be resumed nor over.
Settles == \A r \in Rec : Has(r, "recording") ~> ~Has(r, "recording")

=============================================================================
