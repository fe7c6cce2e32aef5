----------------------------- MODULE EpgRefresh -----------------------------
(***************************************************************************)
(* One XMLTV source of the programme guide (apps/epg/tasks.py). A refresh  *)
(* downloads the guide's file, brings the source's entries (EPGData) up to *)
(* date with it and replaces the programmes of the entries that channels   *)
(* use. Whenever a channel is given an entry, a task of its own reads the  *)
(* programmes of that entry from the same file. Each kind of task has its  *)
(* lock (core/utils.py), but nothing keeps the two kinds apart: they share *)
(* the file, its temporary copy, the source's row and the programmes.      *)
(***************************************************************************)
EXTENDS Integers, FiniteSets

CONSTANTS
    Worker, None, Channel,
    Entry,          \* identifiers (tvg_id) a guide may list
    Guides,         \* what the provider's file may list at a time
    Sources,        \* whether the source has a URL, or is a local file
    MaxRefreshes, MaxMaps, MaxCrashes   \* bounds on what happens in a behaviour

EpgAssumption ==
    /\ Guides \subseteq SUBSET Entry /\ Sources \subseteq BOOLEAN
    /\ {MaxRefreshes, MaxMaps, MaxCrashes} \subseteq Nat
    /\ None \notin Entry \cup Worker /\ "refresh" \notin Entry   \* as names of locks
    /\ "dead" \notin Worker
ASSUME EpgAssumption

VARIABLES
    hasUrl,
    files,      \* what the files "xml" and "tmp" of the cache hold: a guide, or Missing
    path,       \* source.file_path
    status,     \* of the source
    entries,    \* the EPGData rows
    epg,        \* per channel, its entry, or None
    programs,   \* per entry, the ProgramData rows: the version, the half and the
                \* task that inserted it, for each half of the entry's programmes
    queued,     \* per entry, the tasks dispatched for it
    locks,      \* per lock, its holder, or None, or "dead" when that was killed
    job,        \* per worker, where it is, and its locals; see NoJob
    version,    \* downloads so far
    refreshes, maps, crashes

cached == <<hasUrl, files, path>>
guide == <<entries, programs>>
counted == <<version, refreshes, maps, crashes>>
vars == <<cached, status, guide, epg, queued, locks, job, counted>>

Missing == [n |-> 0, lists |-> {None}]
Lock == Entry \cup {"refresh"}

NoJob ==
    [pc |-> "idle",
     lock |-> None,         \* the lock it took: its entry's, or "refresh"
     path |-> "xml",        \* file_path of its copy of the source
     after |-> None,        \* where it goes on after fetch_xmltv
     known |-> {},          \* existing_tvg_ids; then what is about to be deleted
     late |-> {},           \* entries of these that channels got meanwhile
     mapped |-> {},         \* mapped_epg_ids
     read |-> Missing,      \* what it read of the file
     clean |-> FALSE]       \* a refresh nothing has disturbed

TypeOK ==
    /\ hasUrl \in BOOLEAN /\ path \in {"xml", "tmp"}
    /\ \A f \in {"xml", "tmp"} : files[f] = Missing \/ files[f].lists \subseteq Entry
    /\ status \in {"idle", "fetching", "parsing", "error", "success"}
    /\ entries \subseteq Entry /\ epg \in [Channel -> Entry \cup {None}]
    /\ programs \in [Entry -> SUBSET ((1 .. version) \X {1, 2} \X Worker)]
    /\ \A e \in Entry : programs[e] # {} => e \in entries
    /\ locks \in [Lock -> Worker \cup {None, "dead"}]

-----------------------------------------------------------------------------
At(w, l) == job[w].pc = l
Go(w, l) == job' = [job EXCEPT ![w].pc = l]
Used == {epg[c] : c \in Channel} \ {None}
Exists(w) == files[job[w].path] # Missing
Refreshing(w) == job[w].lock = "refresh"
Whole(w) == {<<job[w].read.n, h, w>> : h \in {1, 2}}

Acquire(w, l) == locks[l] = None /\ locks' = [locks EXCEPT ![l] = w]
Unlock(w) == locks' = [locks EXCEPT ![job[w].lock] = None]

\* The worker's next job, where the refreshes of others are no longer clean.
Disturb(w, next) ==
    job' = [v \in Worker |-> IF v = w THEN next ELSE [job[v] EXCEPT !.clean = FALSE]]

\* An early return: the lock is released here, and by the "finally" once more.
Leave(w) ==
    Unlock(w) /\ job' = [job EXCEPT ![w] = [NoJob EXCEPT !.pc = "left", !.lock = job[w].lock]]

\* A part of the task fails and has said so in the status. A refresh whose
\* programmes cannot be read goes on, and so finishes like any other.
Fail(w) ==
    /\ status' = "error"
    /\ IF job[w].after = "programs"
       THEN job' = [job EXCEPT ![w].pc = "finish", ![w].clean = FALSE] /\ UNCHANGED locks
       ELSE Leave(w)

Init ==
    /\ hasUrl \in Sources
    /\ \E file \in IF hasUrl THEN {Missing} ELSE {Missing, [n |-> 1, lists |-> Entry]} :
          files = [xml |-> file, tmp |-> Missing]
    /\ version = 1 /\ path = "xml" /\ status = "idle"
    /\ entries \in Guides /\ programs = [e \in Entry |-> {}]
    /\ epg \in [Channel -> entries \cup {None}] /\ queued = [e \in Entry |-> 0]
    /\ locks = [l \in Lock |-> None] /\ job = [w \in Worker |-> NoJob]
    /\ refreshes = 0 /\ maps = 0 /\ crashes = 0

-----------------------------------------------------------------------------
(* Slips: each breaks one of the properties below in place of its original.*)

\* The new programmes are added to those there are.
WriteAdds(w) ==
    LET new == job[w].mapped \cap job[w].read.lists IN
    /\ At(w, "write")
    /\ \/ /\ new \subseteq entries
          /\ programs' = [e \in Entry |-> IF e \in new THEN programs[e] \cup Whole(w) ELSE {}]
          /\ status' = "success"
          /\ job' = [job EXCEPT ![w].pc = "finish", ![w].read = Missing]
          /\ UNCHANGED locks
       \/ Fail(w) /\ UNCHANGED programs
    /\ UNCHANGED <<cached, entries, epg, queued, counted>>

\* Stale entries that channels use are deleted, too.
FindStaleUsed(w) ==
    /\ At(w, "stale")
    /\ job' = [job EXCEPT ![w].pc = "delete",
                          ![w].known = (@ \cap entries) \ job[w].read.lists]
    /\ UNCHANGED <<cached, status, guide, epg, queued, locks, counted>>

-----------------------------------------------------------------------------
(* fetch_xmltv, for either kind of task.                                   *)

\* A local file is used as it is; without file and URL there is nothing to do.
UseLocalFile(w) ==
    /\ At(w, "fetch") /\ ~hasUrl
    /\ \/ Exists(w) /\ status' = "success" /\ Go(w, job[w].after) /\ UNCHANGED locks
       \/ ~Exists(w) /\ Fail(w)
    /\ UNCHANGED <<cached, guide, epg, queued, counted>>

RequestFile(w) ==
    /\ At(w, "fetch") /\ hasUrl
    /\ status' = "fetching" /\ Go(w, "download")
    /\ UNCHANGED <<cached, guide, epg, queued, locks, counted>>

\* The guide is written to the temporary file; when two tasks write to it, what
\* the recovering parser finds there later may be nothing.
Download(w) ==
    /\ At(w, "download")
    /\ \E lists \in Guides \cup
             (IF \E v \in Worker \ {w} : At(v, "download") THEN {{}} ELSE {}) :
          files' = [files EXCEPT !["tmp"] = [n |-> version + 1, lists |-> lists]]
    /\ version' = version + 1
    /\ Go(w, "swap")
    /\ UNCHANGED <<hasUrl, path, status, guide, epg, queued, locks, refreshes, maps, crashes>>

\* The server answers with an error, or not at all.
DownloadFails(w) ==
    /\ At(w, "download") /\ Fail(w)
    /\ UNCHANGED <<cached, guide, epg, queued, counted>>

\* The format is detected from the temporary file, and the old file removed ...
RemoveOld(w) ==
    /\ At(w, "swap")
    /\ \/ files["tmp"] # Missing /\ files' = [files EXCEPT !["xml"] = Missing]
          /\ Go(w, "publish") /\ UNCHANGED <<status, locks>>
       \/ files["tmp"] = Missing /\ Fail(w) /\ UNCHANGED files
    /\ UNCHANGED <<hasUrl, path, guide, epg, queued, counted>>

\* The temporary file, renamed or extracted to its place (extract_compressed_file).
InPlace == [xml |-> files["tmp"], tmp |-> Missing]

\* ... and the new one renamed or extracted to its place; if that fails, the
\* source is left with the temporary one.
Publish(w) ==
    LET moved == files["tmp"] # Missing
        at == IF moved THEN "xml" ELSE "tmp"
    IN  /\ At(w, "publish")
        /\ files' = IF moved THEN InPlace ELSE files
        /\ path' = at /\ status' = "parsing"
        /\ job' = [job EXCEPT ![w].pc = job[w].after, ![w].path = at]
        /\ UNCHANGED <<hasUrl, guide, epg, queued, locks, counted>>

\* The file is missing when a task wants to read it: it is fetched again.
Refetch(w, from, after) ==
    /\ At(w, from) /\ ~Exists(w)
    /\ path' = IF hasUrl THEN "xml" ELSE path
    /\ job' = [job EXCEPT ![w].pc = "fetch", ![w].after = after, ![w].path = path']
    /\ UNCHANGED <<hasUrl, files, status, guide, epg, queued, locks, counted>>

-----------------------------------------------------------------------------
(* refresh_epg_data                                                        *)

\* Started by Celery beat, by the user, or for a new source.
StartRefresh(w) ==
    /\ At(w, "idle") /\ refreshes < MaxRefreshes /\ refreshes' = refreshes + 1
    /\ Acquire(w, "refresh")
    /\ Disturb(w, [NoJob EXCEPT !.pc = "fetch", !.lock = "refresh", !.path = path,
                                !.after = "channels",
                                !.clean = \A v \in Worker \ {w} : At(v, "idle")])
    /\ UNCHANGED <<cached, status, guide, epg, queued, version, maps, crashes>>

\* parse_channels_only: the entries that exist are read; without the file and a
\* URL that is all.
ReadEntries(w) ==
    /\ At(w, "channels") \/ At(w, "channels again")
    /\ \/ /\ Exists(w)
          /\ job' = [job EXCEPT ![w].pc = "parse channels", ![w].known = entries]
          /\ UNCHANGED <<status, locks>>
       \/ ~Exists(w) /\ (At(w, "channels again") \/ ~hasUrl) /\ Fail(w)
    /\ UNCHANGED <<cached, guide, epg, queued, counted>>

\* The channels of the file get their entries, unless it is missing or cannot be parsed.
ParseChannels(w) ==
    /\ At(w, "parse channels")
    /\ \/ /\ Exists(w)
          /\ entries' = entries \cup files[job[w].path].lists
          /\ job' = [job EXCEPT ![w].pc = "stale", ![w].read = files[job[w].path]]
          /\ UNCHANGED <<status, locks>>
       \/ Fail(w) /\ UNCHANGED entries
    /\ UNCHANGED <<cached, programs, epg, queued, counted>>

\* Entries known before, not listed now and not used by a channel are stale.
FindStale(w) ==
    /\ At(w, "stale")
    /\ job' = [job EXCEPT ![w].pc = "delete",
                          ![w].known = (@ \cap entries) \ (job[w].read.lists \cup Used)]
    /\ UNCHANGED <<cached, status, guide, epg, queued, locks, counted>>

\* They are deleted, and a channel that got one meanwhile loses it, or else the
\* database refuses and the refresh fails.
DeleteStale(w) ==
    LET stale == job[w].known IN
    /\ At(w, "delete")
    /\ \/ /\ entries' = entries \ stale
          /\ programs' = [e \in Entry |-> IF e \in stale THEN {} ELSE programs[e]]
          /\ epg' = [c \in Channel |-> IF epg[c] \in stale THEN None ELSE epg[c]]
          /\ status' = "success"
          /\ job' = [job EXCEPT ![w].pc = "mapped", ![w].after = "programs",
                                ![w].known = {}, ![w].late = {}]
          /\ UNCHANGED locks
       \/ stale \cap Used # {} /\ Fail(w) /\ UNCHANGED <<guide, epg>>
    /\ UNCHANGED <<cached, queued, counted>>

\* parse_programs_for_source: the entries that channels use are read ...
ReadMapped(w) ==
    /\ At(w, "mapped")
    /\ \/ Used = {} /\ status' = "success" /\ Go(w, "finish")
       \/ Used # {} /\ UNCHANGED status
          /\ job' = [job EXCEPT ![w].pc = "file", ![w].mapped = Used]
    /\ UNCHANGED <<cached, guide, epg, queued, locks, counted>>

\* ... their programmes parsed, ...
ParsePrograms(w) ==
    /\ \/ At(w, "programs")
       \/ At(w, "file") /\ Exists(w)
    /\ \/ Exists(w) /\ job' = [job EXCEPT ![w].pc = "write", ![w].read = files[job[w].path]]
          /\ UNCHANGED <<status, locks>>
       \/ ~Exists(w) /\ Fail(w)
    /\ UNCHANGED <<cached, guide, epg, queued, counted>>

\* ... and replaced in one transaction, while those of all other entries are
\* deleted. The database refuses the programmes of an entry that is gone.
WriteGuide(w) ==
    LET new == job[w].mapped \cap job[w].read.lists IN
    /\ At(w, "write")
    /\ \/ /\ new \subseteq entries
          /\ programs' = [e \in Entry |-> IF e \in new THEN Whole(w) ELSE {}]
          /\ status' = "success"
          /\ job' = [job EXCEPT ![w].pc = "finish", ![w].read = Missing]
          /\ UNCHANGED locks
       \/ Fail(w) /\ UNCHANGED programs
    /\ UNCHANGED <<cached, entries, epg, queued, counted>>

\* The refresh, or the other task, releases its lock and ends; after an early
\* return this is the second time.
End(w) ==
    /\ At(w, "finish") \/ At(w, "left")
    /\ Unlock(w) /\ job' = [job EXCEPT ![w] = NoJob]
    /\ UNCHANGED <<cached, status, guide, epg, queued, counted>>

-----------------------------------------------------------------------------
(* parse_programs_for_tvg_id                                               *)

\* A dispatched task starts, or ends at once, its lock being held.
StartEntry(w, e) ==
    /\ At(w, "idle") /\ queued[e] > 0
    /\ queued' = [queued EXCEPT ![e] = @ - 1]
    /\ \/ Acquire(w, e)
          /\ Disturb(w, [NoJob EXCEPT !.pc = "entry", !.lock = e, !.path = path])
       \/ locks[e] # None /\ UNCHANGED <<locks, job>>
    /\ UNCHANGED <<cached, status, guide, epg, counted>>

\* The entry's programmes are deleted, if there is the entry and a channel uses it.
ClearEntry(w) ==
    LET e == job[w].lock IN
    /\ At(w, "entry")
    /\ \/ e \notin entries /\ Go(w, "finish") /\ UNCHANGED <<programs, locks>>
       \/ e \in entries \ Used /\ Leave(w) /\ UNCHANGED programs
       \/ e \in entries \cap Used /\ programs' = [programs EXCEPT ![e] = {}]
          /\ Go(w, "entry file") /\ UNCHANGED locks
    /\ UNCHANGED <<cached, status, entries, epg, queued, counted>>

\* The file is opened; what a new download has put in its place does not matter
\* any more. A file lost after a download is an error.
OpenFile(w) ==
    /\ At(w, "entry file") \/ At(w, "entry fetched")
    /\ \/ Exists(w) /\ job' = [job EXCEPT ![w].pc = "first", ![w].read = files[job[w].path]]
          /\ UNCHANGED <<status, locks>>
       \/ ~Exists(w) /\ At(w, "entry fetched") /\ Fail(w)
    /\ UNCHANGED <<cached, guide, epg, queued, counted>>

\* The programmes are inserted in batches; of a deleted entry, none are.
InsertBatch(w, from, half, next) ==
    LET e == job[w].lock IN
    /\ At(w, from)
    /\ programs' = IF e \in entries \cap job[w].read.lists
                   THEN [programs EXCEPT ![e] = @ \cup {<<job[w].read.n, half, w>>}]
                   ELSE programs
    /\ Go(w, next)
    /\ UNCHANGED <<cached, status, entries, epg, queued, locks, counted>>

-----------------------------------------------------------------------------
\* The user gives a channel an entry or takes it away: no, one or two tasks are
\* dispatched for the entry, as it is done by a bulk edit, the form or a view.
SetEpg(c, e) ==
    /\ maps < MaxMaps /\ maps' = maps + 1
    /\ e \in entries \cup {None} /\ e # epg[c]
    /\ epg' = [epg EXCEPT ![c] = e]
    /\ \E n \in 0 .. 2 :
          queued' = [d \in Entry |-> IF d = e THEN queued[d] + n ELSE queued[d]]
    /\ job' = [w \in Worker |-> IF e \in job[w].known THEN [job[w] EXCEPT !.late = @ \cup {e}]
                                ELSE job[w]]
    /\ UNCHANGED <<cached, status, guide, locks, version, refreshes, crashes>>

\* A worker is killed; its locks expire, as nobody renews them any more.
Crash(w) ==
    /\ ~At(w, "idle") /\ crashes < MaxCrashes /\ crashes' = crashes + 1
    /\ locks' = [l \in Lock |-> IF locks[l] = w THEN "dead" ELSE locks[l]]
    /\ job' = [job EXCEPT ![w] = NoJob]
    /\ UNCHANGED <<cached, status, guide, epg, queued, version, refreshes, maps>>

Expire(l) ==
    /\ locks[l] = "dead" /\ locks' = [locks EXCEPT ![l] = None]
    /\ UNCHANGED <<cached, status, guide, epg, queued, job, counted>>

-----------------------------------------------------------------------------
Next ==
    \/ \E w \in Worker :
          \/ UseLocalFile(w) \/ RequestFile(w) \/ Download(w) \/ DownloadFails(w)
          \/ RemoveOld(w) \/ Publish(w)
          \/ hasUrl /\ Refetch(w, "channels", "channels again")
          \/ Refetch(w, "file", "programs")
          \/ Refetch(w, "entry file", "entry fetched")
          \/ StartRefresh(w) \/ ReadEntries(w) \/ ParseChannels(w) \/ FindStale(w)
          \/ DeleteStale(w) \/ ReadMapped(w) \/ ParsePrograms(w) \/ WriteGuide(w)
          \/ End(w)
          \/ \E e \in Entry : StartEntry(w, e)
          \/ ClearEntry(w) \/ OpenFile(w)
          \/ InsertBatch(w, "first", 1, "second") \/ InsertBatch(w, "second", 2, "finish")
          \/ Crash(w)
    \/ \E c \in Channel, e \in Entry \cup {None} : SetEpg(c, e)
    \/ \E l \in Lock : Expire(l)

Spec == Init /\ [][Next]_vars

-----------------------------------------------------------------------------
(* Properties                                                              *)

\* Whatever earlier tasks, overlapping or killed, have left behind, a refresh
\* that runs alone and reports success leaves an entry for each channel of the new
\* guide, and for each entry a channel uses its programmes, complete and once, and
\* no others.
RefreshHeals ==
    \A w \in Worker : At(w, "finish") /\ Refreshing(w) /\ job[w].clean =>
        /\ status = "success" /\ files["xml"].lists \subseteq entries
        /\ job[w].mapped # {} => \A e \in Entry :
              programs[e] = IF e \in job[w].mapped \cap files["xml"].lists
                            THEN {<<files["xml"].n, h, w>> : h \in {1, 2}} ELSE {}

\* The variables have their types, and a refresh that runs alone heals the guide.
GuideHeals == TypeOK /\ RefreshHeals

\* A channel keeps its entry until the user takes it away, unless the entry was
\* found to be stale before the channel got it.
KeepsEpg ==
    \A c \in Channel : epg[c] # None /\ epg'[c] = None =>
        maps' # maps \/ \E w \in Worker : epg[c] \in job[w].late

\* parse_programs_for_source promises that "clients never see empty/partial EPG
\* data": the programmes of an entry in use disappear only for its own task, or
\* when the refresh did not know the entry to be in use or reads a guide without it.
KeepsGuide ==
    \A e \in Used : programs[e] # {} /\ programs'[e] = {} =>
        \E w \in Worker :
            \/ At(w, "entry") /\ job[w].lock = e
            \/ e \in job[w].late
            \/ At(w, "write") /\ e \notin job[w].mapped \cap job[w].read.lists

\* No step takes a channel's entry, or the programmes of an entry in use, outside these races.
GuideKept == [][KeepsEpg /\ KeepsGuide]_vars
=============================================================================
