-------------------------- MODULE EpgRefreshProofs --------------------------
(***************************************************************************)
(* Proofs about EpgRefresh, for any channels, entries, guides and workers: *)
(* whatever tasks that overlapped, failed or were killed left behind, a    *)
(* refresh that runs alone and succeeds leaves the new guide's entries,    *)
(* and for each entry in use its programmes; and no task takes a channel's *)
(* entry, or the programmes of one in use, outside the named races.        *)
(*   A refresh is `clean' while nothing else has run beside it.  Clean     *)
(* says, label by label, what such a refresh has established so far.       *)
(***************************************************************************)
EXTENDS EpgRefresh, TLAPS

-----------------------------------------------------------------------------
(* The inductive invariant.                                                *)

\* A guide that was downloaded, or is the local file.
Guide(upTo) == [n : 1 .. upTo, lists : SUBSET Entry]
Held == Guide(version) \cup {Missing}

Fetching == {"fetch", "download", "swap", "publish"}
Reading == {"channels", "channels again", "parse channels"}
Labels ==
    Fetching \cup Reading
    \cup {"idle", "stale", "delete", "mapped", "file", "programs", "write", "finish", "left",
          "entry", "entry file", "entry fetched", "first", "second"}
Returns == {"channels", "channels again", "programs", "entry fetched"}

Jobs ==
    [pc : Labels, lock : Lock \cup {None}, path : {"xml", "tmp"}, after : Returns \cup {None},
     known : SUBSET Entry, late : SUBSET Entry, mapped : SUBSET Entry,
     read : Held, clean : BOOLEAN]

Statuses == {"idle", "fetching", "parsing", "error", "success"}
Rows == (1 .. version) \X {1, 2} \X Worker

Typed ==
    /\ hasUrl \in BOOLEAN /\ path \in {"xml", "tmp"} /\ status \in Statuses
    /\ version \in Nat \ {0} /\ maps \in Nat
    /\ files \in [{"xml", "tmp"} -> Held]
    /\ entries \subseteq Entry /\ epg \in [Channel -> Entry \cup {None}]
    /\ locks \in [Lock -> Worker \cup {None, "dead"}]
    /\ job \in [Worker -> Jobs]

\* A task knows where it goes on before it fetches the file, which it does from a URL or else
\* uses where it is, and has read a guide before it writes programmes.
Fits(j) ==
    /\ j.pc \in Fetching => j.after \in Returns
    /\ j.pc \in {"download", "swap", "publish"} => hasUrl
    /\ ~hasUrl => j.path = "xml"
    /\ j.pc \in {"write", "first", "second"} => j.read # Missing

Orderly ==
    /\ ~hasUrl => path = "xml"
    /\ \A w \in Worker : Fits(job[w])

\* Programmes are of entries that there are, and of guides that there were.
Programmes ==
    /\ programs \in [Entry -> SUBSET Rows]
    /\ \A e \in Entry : programs[e] # {} => e \in entries

\* A channel that uses an entry that is about to be deleted got it after the entry was found stale.
Late == \A w \in Worker : At(w, "delete") => job[w].known \cap Used \subseteq job[w].late

\* How far the refresh of w has brought the records, if nothing disturbs it.
Progress(w) ==
    LET j == job[w]
        xml == files["xml"]
        listed == xml # Missing /\ xml.lists \subseteq entries
    IN  \/ j.pc \in Fetching /\ j.after \in {"channels", "channels again"} /\ j.mapped = {}
           /\ (j.pc = "publish" => files["tmp"] # Missing)
        \/ j.pc \in Reading /\ j.path = "xml" /\ j.mapped = {}
        \/ j.pc = "stale" /\ j.path = "xml" /\ j.mapped = {} /\ j.read = xml /\ listed
        \/ j.pc = "delete" /\ j.path = "xml" /\ j.mapped = {} /\ listed
           /\ j.known \cap xml.lists = {}
        \/ j.pc = "mapped" /\ j.path = "xml" /\ j.mapped = {} /\ listed
        \/ j.pc = "file" /\ j.path = "xml" /\ listed
        \/ j.pc = "write" /\ j.read = xml /\ listed
        \/ j.pc = "finish" /\ status = "success" /\ listed
           /\ (j.mapped # {} => \A e \in Entry :
                  programs[e] = IF e \in j.mapped \cap xml.lists
                                THEN {<<xml.n, h, w>> : h \in {1, 2}} ELSE {})

\* A refresh is clean only while no other task is under way.
Clean ==
    \A w \in Worker : job[w].clean =>
        /\ Refreshing(w) /\ \A v \in Worker \ {w} : At(v, "idle")
        /\ Progress(w)

IInv == Typed /\ Orderly /\ Programmes /\ Late /\ Clean

USE EpgAssumption DEF EpgAssumption

-----------------------------------------------------------------------------
(* Types.                                                                  *)

LEMMA GuideIs ==
    ASSUME NEW g \in Held, version \in Nat \ {0}
    PROVE  /\ g # Missing => g.n \in 1 .. version /\ g.lists \subseteq Entry
           /\ Missing \in Held
BY DEF Held, Guide

LEMMA JobIs ==
    ASSUME NEW j \in Jobs
    PROVE  /\ j.pc \in Labels /\ j.lock \in Lock \cup {None} /\ j.path \in {"xml", "tmp"}
           /\ j.after \in Returns \cup {None} /\ j.known \subseteq Entry /\ j.late \subseteq Entry
           /\ j.mapped \subseteq Entry /\ j.read \in Held /\ j.clean \in BOOLEAN
BY DEF Jobs

LEMMA NoJobTyped == version \in Nat \ {0} => NoJob \in Jobs
BY DEF NoJob, Jobs, Labels, Returns, Held

\* The guides and rows of a version are there in the next, and otherwise the same.
LEMMA GuidesStay ==
    ASSUME version \in Nat \ {0}, version' = version \/ version' = version + 1
    PROVE  /\ Held \subseteq Held' /\ Rows \subseteq Rows' /\ Jobs \subseteq Jobs'
           /\ version' \in Nat \ {0}
<1>1. 1 .. version \subseteq 1 .. version'
  OBVIOUS
<1>2. Held \subseteq Held' BY <1>1 DEF Held, Guide
<1>3. Rows \subseteq Rows' BY <1>1 DEF Rows
<1>4. Jobs \subseteq Jobs' BY <1>2 DEF Jobs
<1>5. version' \in Nat \ {0} OBVIOUS
<1> QED BY <1>2, <1>3, <1>4, <1>5

LEMMA LocksTyped ==
    ASSUME locks \in [Lock -> Worker \cup {None, "dead"}], NEW w \in Worker, NEW l
    PROVE  /\ Acquire(w, l) => locks' \in [Lock -> Worker \cup {None, "dead"}]
           /\ Unlock(w) => locks' \in [Lock -> Worker \cup {None, "dead"}]
BY DEF Acquire, Unlock

\* A job in which a worker goes elsewhere and keeps everything else is a job.
LEMMA GoTyped ==
    ASSUME job \in [Worker -> Jobs], NEW w \in Worker, NEW l \in Labels, Go(w, l)
    PROVE  job' \in [Worker -> Jobs] /\ job' = [job EXCEPT ![w] = [job[w] EXCEPT !.pc = l]]
BY JobIs DEF Go, Jobs

LEMMA FailTyped ==
    ASSUME job \in [Worker -> Jobs], locks \in [Lock -> Worker \cup {None, "dead"}],
           version \in Nat \ {0}, NEW w \in Worker, Fail(w)
    PROVE  /\ job' \in [Worker -> Jobs]
           /\ locks' \in [Lock -> Worker \cup {None, "dead"}]
           /\ status' = "error"
<1>1. CASE job[w].after = "programs"
  <2> DEFINE j == [job[w] EXCEPT !.pc = "finish", !.clean = FALSE]
  <2>1. j \in Jobs
    <3>1. job[w] \in Jobs /\ "finish" \in Labels
      BY DEF Labels
    <3> QED BY <3>1 DEF Jobs
  <2>2. job' = [job EXCEPT ![w] = j]
    <3>1. job' = [job EXCEPT ![w].pc = "finish", ![w].clean = FALSE]
      BY <1>1 DEF Fail
    <3>2. job \in [Worker -> Jobs] /\ job[w] \in Jobs
      OBVIOUS
    <3> QED BY ONLY <3>1, <3>2, w \in Worker DEF Jobs
  <2>3. UNCHANGED locks /\ status' = "error"
    BY <1>1 DEF Fail
  <2> QED BY <2>1, <2>2, <2>3
<1>2. CASE job[w].after # "programs"
  <2>1. [NoJob EXCEPT !.pc = "left", !.lock = job[w].lock] \in Jobs
    BY NoJobTyped, JobIs DEF Jobs, Labels
  <2> QED BY <1>2, <2>1 DEF Fail, Leave, Unlock
<1> QED BY <1>1, <1>2

-----------------------------------------------------------------------------
(* The job of a worker after each of its steps.                            *)

LEMMA Moved ==
    ASSUME job \in [Worker -> Jobs], NEW w \in Worker, NEW j \in Jobs,
           job' = [job EXCEPT ![w] = j]
    PROVE  job' \in [Worker -> Jobs]
OBVIOUS

LEMMA DisturbTyped ==
    ASSUME job \in [Worker -> Jobs], NEW w \in Worker, NEW j \in Jobs, Disturb(w, j)
    PROVE  job' \in [Worker -> Jobs]
<1>1. ASSUME NEW v \in Worker PROVE [job[v] EXCEPT !.clean = FALSE] \in Jobs
  <2>1. job[v] \in Jobs
    OBVIOUS
  <2> QED BY ONLY <2>1 DEF Jobs
<1> QED BY <1>1 DEF Disturb

LEMMA PublishJob ==
    ASSUME job \in [Worker -> Jobs], Orderly, NEW w \in Worker, Publish(w)
    PROVE  \E at \in {"xml", "tmp"} :
              /\ job' = [job EXCEPT ![w] = [job[w] EXCEPT !.pc = job[w].after, !.path = at]]
              /\ job' \in [Worker -> Jobs] /\ path' = at
              /\ files["tmp"] # Missing => at = "xml" /\ files' = InPlace
<1> DEFINE at == IF files["tmp"] # Missing THEN "xml" ELSE "tmp"
           j == [job[w] EXCEPT !.pc = job[w].after, !.path = at]
<1>1. job[w] \in Jobs /\ at \in {"xml", "tmp"}
  OBVIOUS
<1>2. job[w].after \in Labels
  BY <1>1, JobIs DEF Publish, At, Orderly, Fits, Fetching, Returns, Labels, Reading
<1>3. j \in Jobs
  BY <1>1, <1>2 DEF Jobs
<1>4. job' = [job EXCEPT ![w] = j]
  BY <1>1 DEF Publish, Jobs
<1>5. job' \in [Worker -> Jobs]
  BY <1>3, <1>4, Moved
<1>6. path' = at /\ (files["tmp"] # Missing => files' = InPlace)
  BY DEF Publish
<1> QED BY <1>1, <1>4, <1>5, <1>6

LEMMA RefetchJob ==
    ASSUME job \in [Worker -> Jobs], path \in {"xml", "tmp"}, NEW w \in Worker, NEW from,
           NEW after \in Returns, Refetch(w, from, after)
    PROVE  /\ job' = [job EXCEPT ![w] = [job[w] EXCEPT !.pc = "fetch", !.after = after,
                                                       !.path = path']]
           /\ job' \in [Worker -> Jobs] /\ path' \in {"xml", "tmp"}
<1> DEFINE j == [job[w] EXCEPT !.pc = "fetch", !.after = after, !.path = path']
<1>1. job[w] \in Jobs /\ path' \in {"xml", "tmp"} /\ "fetch" \in Labels
  BY DEF Refetch, Labels, Fetching
<1>2. j \in Jobs
  BY <1>1 DEF Jobs
<1>3. job' = [job EXCEPT ![w] = j]
  BY <1>1 DEF Refetch, Jobs
<1> QED BY <1>1, <1>2, <1>3, Moved

LEMMA StartRefreshJob ==
    ASSUME job \in [Worker -> Jobs], path \in {"xml", "tmp"}, version \in Nat \ {0},
           NEW w \in Worker, StartRefresh(w)
    PROVE  \E clean \in BOOLEAN :
              /\ clean => \A v \in Worker \ {w} : At(v, "idle")
              /\ Disturb(w, [NoJob EXCEPT !.pc = "fetch", !.lock = "refresh", !.path = path,
                                          !.after = "channels", !.clean = clean])
              /\ job' \in [Worker -> Jobs]
<1> DEFINE clean == \A v \in Worker \ {w} : At(v, "idle")
           j == [NoJob EXCEPT !.pc = "fetch", !.lock = "refresh", !.path = path,
                              !.after = "channels", !.clean = clean]
<1>1. clean \in BOOLEAN /\ "fetch" \in Labels /\ "refresh" \in Lock /\ "channels" \in Returns
  BY DEF Labels, Fetching, Lock, Returns
<1>2. NoJob \in Jobs
  BY NoJobTyped
<1>3. j \in Jobs
  <2> HIDE DEF clean
  <2> QED BY <1>1, <1>2 DEF Jobs
<1>4. Disturb(w, j)
  BY DEF StartRefresh
<1>5. job' \in [Worker -> Jobs]
  <2> HIDE DEF j
  <2> QED BY <1>3, <1>4, DisturbTyped
<1> WITNESS clean \in BOOLEAN
<1> QED BY <1>4, <1>5

LEMMA StartEntryJob ==
    ASSUME job \in [Worker -> Jobs], path \in {"xml", "tmp"}, version \in Nat \ {0},
           NEW w \in Worker, NEW e \in Entry, StartEntry(w, e)
    PROVE  /\ \/ job' = job
              \/ Disturb(w, [NoJob EXCEPT !.pc = "entry", !.lock = e, !.path = path])
           /\ job' \in [Worker -> Jobs]
<1> DEFINE j == [NoJob EXCEPT !.pc = "entry", !.lock = e, !.path = path]
<1>1. NoJob \in Jobs /\ "entry" \in Labels /\ e \in Lock
  BY NoJobTyped DEF Labels, Lock
<1>2. j \in Jobs
  BY <1>1 DEF Jobs
<1>3. job' = job \/ Disturb(w, j)
  BY DEF StartEntry
<1> QED BY <1>2, <1>3, DisturbTyped

LEMMA ReadEntriesJob ==
    ASSUME job \in [Worker -> Jobs], entries \subseteq Entry, NEW w \in Worker, ReadEntries(w)
    PROVE  \/ /\ job' = [job EXCEPT ![w] = [job[w] EXCEPT !.pc = "parse channels",
                                                          !.known = entries]]
              /\ job' \in [Worker -> Jobs] /\ UNCHANGED <<status, locks>>
           \/ Fail(w)
<1> DEFINE j == [job[w] EXCEPT !.pc = "parse channels", !.known = entries]
<1>1. job[w] \in Jobs /\ "parse channels" \in Labels
  BY DEF Labels, Reading
<1>2. j \in Jobs
  BY <1>1 DEF Jobs
<1>3. Fail(w) \/ (job' = [job EXCEPT ![w] = j] /\ UNCHANGED <<status, locks>>)
  <2>1. \/ Fail(w)
        \/ /\ job' = [job EXCEPT ![w].pc = "parse channels", ![w].known = entries]
           /\ UNCHANGED <<status, locks>>
    BY DEF ReadEntries
  <2> QED BY ONLY <1>1, <2>1, job \in [Worker -> Jobs], w \in Worker DEF Jobs
<1> QED BY <1>2, <1>3, Moved

LEMMA ParseChannelsJob ==
    ASSUME job \in [Worker -> Jobs], files \in [{"xml", "tmp"} -> Held], NEW w \in Worker,
           ParseChannels(w)
    PROVE  \/ /\ job' = [job EXCEPT ![w] = [job[w] EXCEPT !.pc = "stale",
                                                          !.read = files[job[w].path]]]
              /\ files[job[w].path] # Missing
              /\ job' \in [Worker -> Jobs] /\ UNCHANGED <<status, locks>>
           \/ Fail(w) /\ UNCHANGED entries
<1> DEFINE j == [job[w] EXCEPT !.pc = "stale", !.read = files[job[w].path]]
<1>1. job[w] \in Jobs /\ "stale" \in Labels /\ files[job[w].path] \in Held
  BY JobIs DEF Labels
<1>2. j \in Jobs
  BY <1>1 DEF Jobs
<1>3. \/ Fail(w) /\ UNCHANGED entries
      \/ job' = [job EXCEPT ![w] = j] /\ Exists(w) /\ UNCHANGED <<status, locks>>
  <2>1. \/ Fail(w) /\ UNCHANGED entries
        \/ /\ job' = [job EXCEPT ![w].pc = "stale", ![w].read = files[job[w].path]]
           /\ Exists(w) /\ UNCHANGED <<status, locks>>
    BY DEF ParseChannels
  <2> QED BY ONLY <1>1, <2>1, job \in [Worker -> Jobs], w \in Worker DEF Jobs
<1> QED BY <1>2, <1>3, Moved DEF Exists

LEMMA FindStaleJob ==
    ASSUME job \in [Worker -> Jobs], NEW w \in Worker, FindStale(w)
    PROVE  /\ job' = [job EXCEPT ![w] = [job[w] EXCEPT !.pc = "delete",
                         !.known = (job[w].known \cap entries) \ (job[w].read.lists \cup Used)]]
           /\ job' \in [Worker -> Jobs]
<1> DEFINE found == (job[w].known \cap entries) \ (job[w].read.lists \cup Used)
           j == [job[w] EXCEPT !.pc = "delete", !.known = found]
<1>1. job[w] \in Jobs /\ "delete" \in Labels
  BY DEF Labels
<1>2. found \subseteq Entry
  BY <1>1, JobIs
<1>3. job' = [job EXCEPT ![w] = j]
  BY <1>1 DEF FindStale, Jobs
<1>4. j \in Jobs
  <2> HIDE DEF found
  <2> QED BY <1>1, <1>2 DEF Jobs
<1> QED BY <1>3, <1>4, Moved

LEMMA DeleteStaleJob ==
    ASSUME job \in [Worker -> Jobs], NEW w \in Worker, DeleteStale(w)
    PROVE  \/ /\ job' = [job EXCEPT ![w] = [job[w] EXCEPT !.pc = "mapped", !.after = "programs",
                                                          !.known = {}, !.late = {}]]
              /\ job' \in [Worker -> Jobs] /\ status' = "success" /\ UNCHANGED locks
              /\ entries' = entries \ job[w].known
              /\ programs' = [e \in Entry |-> IF e \in job[w].known THEN {} ELSE programs[e]]
              /\ epg' = [c \in Channel |-> IF epg[c] \in job[w].known THEN None ELSE epg[c]]
           \/ Fail(w) /\ UNCHANGED <<guide, epg>>
<1> DEFINE j == [job[w] EXCEPT !.pc = "mapped", !.after = "programs", !.known = {}, !.late = {}]
<1>1. job[w] \in Jobs /\ "mapped" \in Labels /\ "programs" \in Returns
  BY DEF Labels, Returns
<1>2. j \in Jobs
  BY <1>1 DEF Jobs
<1>3. CASE Fail(w) /\ UNCHANGED <<guide, epg>>
  BY <1>3
<1>4. CASE ~(Fail(w) /\ UNCHANGED <<guide, epg>>)
  <2>1. job' = [job EXCEPT ![w] = j]
    <3>1. job' = [job EXCEPT ![w].pc = "mapped", ![w].after = "programs",
                             ![w].known = {}, ![w].late = {}]
      BY <1>4 DEF DeleteStale
    <3>2. job \in [Worker -> Jobs]
      OBVIOUS
    <3> QED BY ONLY <1>1, <3>1, <3>2, w \in Worker DEF Jobs
  <2>2. /\ status' = "success" /\ UNCHANGED locks
        /\ entries' = entries \ job[w].known
        /\ programs' = [e \in Entry |-> IF e \in job[w].known THEN {} ELSE programs[e]]
        /\ epg' = [c \in Channel |-> IF epg[c] \in job[w].known THEN None ELSE epg[c]]
    BY <1>4 DEF DeleteStale
  <2> QED BY <1>2, <2>1, <2>2, Moved
<1> QED BY <1>3, <1>4

LEMMA ReadMappedJob ==
    ASSUME job \in [Worker -> Jobs], epg \in [Channel -> Entry \cup {None}], NEW w \in Worker,
           ReadMapped(w)
    PROVE  /\ job' \in [Worker -> Jobs]
           /\ \/ /\ job' = [job EXCEPT ![w] = [job[w] EXCEPT !.pc = "finish"]]
                 /\ status' = "success"
              \/ /\ job' = [job EXCEPT ![w] = [job[w] EXCEPT !.pc = "file", !.mapped = Used]]
                 /\ UNCHANGED status
<1> DEFINE j == [job[w] EXCEPT !.pc = "finish"]
           k == [job[w] EXCEPT !.pc = "file", !.mapped = Used]
<1>1. job[w] \in Jobs /\ "finish" \in Labels /\ "file" \in Labels
  BY DEF Labels
<1>2. Used \subseteq Entry
  BY DEF Used
<1>3. j \in Jobs /\ k \in Jobs
  BY <1>1, <1>2 DEF Jobs
<1>4. \/ job' = [job EXCEPT ![w] = j] /\ status' = "success"
      \/ job' = [job EXCEPT ![w] = k] /\ UNCHANGED status
  BY <1>1 DEF ReadMapped, Go, Jobs
<1> QED BY <1>3, <1>4, Moved

LEMMA ParseProgramsJob ==
    ASSUME job \in [Worker -> Jobs], files \in [{"xml", "tmp"} -> Held], NEW w \in Worker,
           ParsePrograms(w)
    PROVE  \/ /\ job' = [job EXCEPT ![w] = [job[w] EXCEPT !.pc = "write",
                                                          !.read = files[job[w].path]]]
              /\ files[job[w].path] # Missing
              /\ job' \in [Worker -> Jobs] /\ UNCHANGED <<status, locks>>
           \/ Fail(w)
<1> DEFINE j == [job[w] EXCEPT !.pc = "write", !.read = files[job[w].path]]
<1>1. job[w] \in Jobs /\ "write" \in Labels /\ files[job[w].path] \in Held
  BY JobIs DEF Labels
<1>2. j \in Jobs
  BY <1>1 DEF Jobs
<1>3. \/ Fail(w)
      \/ job' = [job EXCEPT ![w] = j] /\ Exists(w) /\ UNCHANGED <<status, locks>>
  <2>1. \/ Fail(w)
        \/ /\ job' = [job EXCEPT ![w].pc = "write", ![w].read = files[job[w].path]]
           /\ Exists(w) /\ UNCHANGED <<status, locks>>
    BY DEF ParsePrograms
  <2> QED BY ONLY <1>1, <2>1, job \in [Worker -> Jobs], w \in Worker DEF Jobs
<1> QED BY <1>2, <1>3, Moved DEF Exists

LEMMA OpenFileJob ==
    ASSUME job \in [Worker -> Jobs], files \in [{"xml", "tmp"} -> Held], NEW w \in Worker,
           OpenFile(w)
    PROVE  \/ /\ job' = [job EXCEPT ![w] = [job[w] EXCEPT !.pc = "first",
                                                          !.read = files[job[w].path]]]
              /\ files[job[w].path] # Missing
              /\ job' \in [Worker -> Jobs] /\ UNCHANGED <<status, locks>>
           \/ Fail(w)
<1> DEFINE j == [job[w] EXCEPT !.pc = "first", !.read = files[job[w].path]]
<1>1. job[w] \in Jobs /\ "first" \in Labels /\ files[job[w].path] \in Held
  BY JobIs DEF Labels
<1>2. j \in Jobs
  BY <1>1 DEF Jobs
<1>3. \/ Fail(w)
      \/ job' = [job EXCEPT ![w] = j] /\ Exists(w) /\ UNCHANGED <<status, locks>>
  <2>1. \/ Fail(w)
        \/ /\ job' = [job EXCEPT ![w].pc = "first", ![w].read = files[job[w].path]]
           /\ Exists(w) /\ UNCHANGED <<status, locks>>
    BY DEF OpenFile
  <2> QED BY ONLY <1>1, <2>1, job \in [Worker -> Jobs], w \in Worker DEF Jobs
<1> QED BY <1>2, <1>3, Moved DEF Exists

LEMMA WriteGuideJob ==
    ASSUME job \in [Worker -> Jobs], version \in Nat \ {0}, NEW w \in Worker, WriteGuide(w)
    PROVE  \/ /\ job' = [job EXCEPT ![w] = [job[w] EXCEPT !.pc = "finish", !.read = Missing]]
              /\ job' \in [Worker -> Jobs] /\ status' = "success" /\ UNCHANGED locks
              /\ job[w].mapped \cap job[w].read.lists \subseteq entries
              /\ programs' = [e \in Entry |-> IF e \in job[w].mapped \cap job[w].read.lists
                                              THEN Whole(w) ELSE {}]
           \/ Fail(w) /\ UNCHANGED programs
<1> DEFINE j == [job[w] EXCEPT !.pc = "finish", !.read = Missing]
<1>1. job[w] \in Jobs /\ "finish" \in Labels /\ Missing \in Held
  BY DEF Labels, Held
<1>2. j \in Jobs
  BY <1>1 DEF Jobs
<1>3. CASE Fail(w) /\ UNCHANGED programs
  BY <1>3
<1>4. CASE ~(Fail(w) /\ UNCHANGED programs)
  <2>1. job' = [job EXCEPT ![w] = j]
    <3>1. job' = [job EXCEPT ![w].pc = "finish", ![w].read = Missing]
      BY <1>4 DEF WriteGuide
    <3>2. job \in [Worker -> Jobs]
      OBVIOUS
    <3> QED BY ONLY <1>1, <3>1, <3>2, w \in Worker DEF Jobs
  <2>2. /\ status' = "success" /\ UNCHANGED locks
        /\ job[w].mapped \cap job[w].read.lists \subseteq entries
        /\ programs' = [e \in Entry |-> IF e \in job[w].mapped \cap job[w].read.lists
                                        THEN Whole(w) ELSE {}]
    BY <1>4 DEF WriteGuide
  <2> QED BY <1>2, <2>1, <2>2, Moved
<1> QED BY <1>3, <1>4

LEMMA EndJob ==
    ASSUME job \in [Worker -> Jobs], version \in Nat \ {0}, NEW w \in Worker, End(w) \/ Crash(w)
    PROVE  job' = [job EXCEPT ![w] = NoJob] /\ job' \in [Worker -> Jobs]
BY NoJobTyped DEF End, Crash

LEMMA ClearEntryJob ==
    ASSUME job \in [Worker -> Jobs], version \in Nat \ {0}, NEW w \in Worker, ClearEntry(w)
    PROVE  /\ \/ \E l \in {"finish", "entry file"} :
                    job' = [job EXCEPT ![w] = [job[w] EXCEPT !.pc = l]] /\ UNCHANGED locks
              \/ Leave(w)
           /\ job' \in [Worker -> Jobs]
<1>1. CASE Leave(w)
  <2>1. [NoJob EXCEPT !.pc = "left", !.lock = job[w].lock] \in Jobs
    <3>1. NoJob \in Jobs /\ "left" \in Labels /\ job[w].lock \in Lock \cup {None}
      BY NoJobTyped, JobIs DEF Labels
    <3> QED BY <3>1 DEF Jobs
  <2> QED BY <1>1, <2>1 DEF Leave
<1>2. CASE ~Leave(w)
  <2>1. \E l \in {"finish", "entry file"} : Go(w, l) /\ UNCHANGED locks
    BY <1>2 DEF ClearEntry
  <2>2. "finish" \in Labels /\ "entry file" \in Labels
    BY DEF Labels
  <2> QED BY <2>1, <2>2, GoTyped
<1> QED BY <1>1, <1>2

LEMMA SetEpgJob ==
    ASSUME job \in [Worker -> Jobs], NEW c \in Channel, NEW e \in Entry \cup {None}, SetEpg(c, e)
    PROVE  /\ job' \in [Worker -> Jobs]
           /\ \A w \in Worker :
                 \E late \in SUBSET Entry :
                    /\ job'[w] = [job[w] EXCEPT !.late = late] /\ job[w].late \subseteq late
                    /\ e \in job[w].known => e \in late
<1>1. ASSUME NEW w \in Worker
      PROVE  \E late \in SUBSET Entry :
                /\ job'[w] = [job[w] EXCEPT !.late = late] /\ job[w].late \subseteq late
                /\ job'[w] \in Jobs
                /\ e \in job[w].known => e \in late
  <2>1. job[w] \in Jobs /\ job[w].late \in SUBSET Entry /\ job[w].known \in SUBSET Entry
    BY JobIs
  <2>2. CASE e \in job[w].known
    <3>1. job'[w] = [job[w] EXCEPT !.late = job[w].late \cup {e}]
      BY <2>1, <2>2 DEF SetEpg, Jobs
    <3>2. job[w].late \cup {e} \in SUBSET Entry
      BY <2>1, <2>2
    <3>3. job'[w] \in Jobs
      <4> DEFINE late == job[w].late \cup {e}
      <4> HIDE DEF late
      <4>1. late \in SUBSET Entry /\ job'[w] = [job[w] EXCEPT !.late = late]
        BY <3>1, <3>2 DEF late
      <4> QED BY <2>1, <4>1 DEF Jobs
    <3> QED BY <3>1, <3>2, <3>3
  <2>3. CASE e \notin job[w].known
    <3>1. job'[w] = job[w]
      BY <2>3 DEF SetEpg
    <3>2. job[w] = [job[w] EXCEPT !.late = job[w].late]
      BY <2>1 DEF Jobs
    <3> QED BY <2>1, <2>3, <3>1, <3>2
  <2> QED BY <2>2, <2>3
<1>2. job' = [w \in Worker |-> job'[w]]
  BY DEF SetEpg
<1> QED BY <1>1, <1>2

-----------------------------------------------------------------------------
(* Every step keeps the types.                                             *)

LEMMA TypedFrom ==
    ASSUME Typed, UNCHANGED <<hasUrl, version>>, maps' \in Nat,
           path' \in {"xml", "tmp"}, status' \in Statuses, files' \in [{"xml", "tmp"} -> Held],
           entries' \subseteq Entry, epg' \in [Channel -> Entry \cup {None}],
           locks' \in [Lock -> Worker \cup {None, "dead"}], job' \in [Worker -> Jobs]
    PROVE  Typed' /\ Held' = Held /\ Jobs' = Jobs
<1>1. Held' = Held
  BY DEF Held, Guide
<1>2. Jobs' = Jobs
  BY <1>1 DEF Jobs
<1> QED BY <1>1, <1>2 DEF Typed

LEMMA TypedIs ==
    ASSUME Typed
    PROVE  /\ hasUrl \in BOOLEAN /\ path \in {"xml", "tmp"} /\ status \in Statuses
           /\ version \in Nat \ {0} /\ maps \in Nat
           /\ files \in [{"xml", "tmp"} -> Held]
           /\ entries \subseteq Entry /\ epg \in [Channel -> Entry \cup {None}]
           /\ locks \in [Lock -> Worker \cup {None, "dead"}]
           /\ job \in [Worker -> Jobs]
BY DEF Typed

LEMMA FileReplaced ==
    ASSUME NEW held, NEW file \in held, NEW f \in [{"xml", "tmp"} -> held]
    PROVE  /\ [f EXCEPT !["xml"] = file] \in [{"xml", "tmp"} -> held]
           /\ [xml |-> f["tmp"], tmp |-> file] \in [{"xml", "tmp"} -> held]
<1>1. [xml |-> f["tmp"], tmp |-> file]
      = [x \in {"xml", "tmp"} |-> IF x = "xml" THEN f["tmp"] ELSE file]
  OBVIOUS
<1> QED BY <1>1

\* What a task does with the file of the guide.
LEMMA FetchTyped ==
    ASSUME Typed, Orderly, NEW w \in Worker,
           \/ UseLocalFile(w) \/ RequestFile(w) \/ DownloadFails(w) \/ RemoveOld(w) \/ Publish(w)
           \/ Refetch(w, "channels", "channels again") \/ Refetch(w, "file", "programs")
           \/ Refetch(w, "entry file", "entry fetched")
    PROVE  Typed'
<1> USE TypedIs
<1>0. /\ "error" \in Statuses /\ "success" \in Statuses /\ "fetching" \in Statuses
      /\ "parsing" \in Statuses /\ "download" \in Labels /\ "publish" \in Labels
      /\ Missing \in Held
  BY DEF Statuses, Labels, Fetching, Held
<1>1. CASE UseLocalFile(w)
  <2>1. job[w].after \in Labels
    BY <1>1, JobIs DEF UseLocalFile, At, Orderly, Fits, Fetching, Returns, Labels, Reading
  <2>2. /\ job' \in [Worker -> Jobs] /\ status' \in Statuses
        /\ locks' \in [Lock -> Worker \cup {None, "dead"}]
    <3>1. CASE Fail(w)
      BY <1>0, <3>1, FailTyped
    <3>2. CASE ~Fail(w)
      <4>1. status' = "success" /\ UNCHANGED locks
        BY <1>1, <3>2 DEF UseLocalFile
      <4>2. PICK l \in Labels : Go(w, l)
        BY <1>1, <2>1, <3>2 DEF UseLocalFile
      <4>3. job' \in [Worker -> Jobs]
        BY ONLY <4>2, GoTyped, job \in [Worker -> Jobs], w \in Worker, l \in Labels
      <4> QED BY <1>0, <4>1, <4>3
    <3> QED BY <3>1, <3>2
  <2> QED BY <1>1, <2>2, TypedFrom DEF UseLocalFile, cached, guide, counted
<1>2. CASE RequestFile(w)
  <2>1. job' \in [Worker -> Jobs] /\ status' \in Statuses
    BY <1>0, <1>2, GoTyped DEF RequestFile
  <2> QED BY <1>2, <2>1, TypedFrom DEF RequestFile, cached, guide, counted
<1>3. CASE DownloadFails(w)
  <2>1. /\ job' \in [Worker -> Jobs] /\ status' \in Statuses
        /\ locks' \in [Lock -> Worker \cup {None, "dead"}]
    BY <1>0, <1>3, FailTyped DEF DownloadFails
  <2> QED BY <1>3, <2>1, TypedFrom DEF DownloadFails, cached, guide, counted
<1>4. CASE RemoveOld(w)
  <2>1. /\ job' \in [Worker -> Jobs] /\ status' \in Statuses
        /\ locks' \in [Lock -> Worker \cup {None, "dead"}]
    BY <1>0, <1>4, GoTyped, FailTyped DEF RemoveOld
  <2>2. files' \in [{"xml", "tmp"} -> Held]
    <3>1. files' = [files EXCEPT !["xml"] = Missing] \/ files' = files
      BY <1>4 DEF RemoveOld
    <3>2. [files EXCEPT !["xml"] = Missing] \in [{"xml", "tmp"} -> Held]
      BY <1>0, FileReplaced
    <3> QED BY <3>1, <3>2
  <2> QED BY <1>4, <2>1, <2>2, TypedFrom DEF RemoveOld, guide, counted
<1>5. CASE Publish(w)
  <2>1. job' \in [Worker -> Jobs] /\ path' \in {"xml", "tmp"}
    BY <1>5, PublishJob
  <2>2. files' \in [{"xml", "tmp"} -> Held]
    <3>1. files' = [xml |-> files["tmp"], tmp |-> Missing] \/ files' = files
      BY <1>5 DEF Publish, InPlace
    <3>2. [xml |-> files["tmp"], tmp |-> Missing] \in [{"xml", "tmp"} -> Held]
      BY <1>0, FileReplaced
    <3> QED BY <3>1, <3>2
  <2> QED BY <1>0, <1>5, <2>1, <2>2, TypedFrom DEF Publish, guide, counted
<1>6. ASSUME NEW from, NEW after \in Returns, Refetch(w, from, after) PROVE Typed'
  <2>1. job' \in [Worker -> Jobs] /\ path' \in {"xml", "tmp"}
    BY <1>6, RefetchJob
  <2> QED BY <1>6, <2>1, TypedFrom DEF Refetch, guide, counted
<1>7. "channels again" \in Returns /\ "programs" \in Returns /\ "entry fetched" \in Returns
  BY DEF Returns
<1> QED BY <1>1, <1>2, <1>3, <1>4, <1>5, <1>6, <1>7

LEMMA DownloadTyped ==
    ASSUME Typed, NEW w \in Worker, Download(w)
    PROVE  Typed' /\ job' \in [Worker -> Jobs]
           /\ job' = [job EXCEPT ![w] = [job[w] EXCEPT !.pc = "swap"]]
           /\ files'["tmp"] # Missing /\ files'["xml"] = files["xml"]
<1> USE TypedIs
<1>1. /\ version' = version + 1 /\ Held \subseteq Held' /\ Jobs \subseteq Jobs'
      /\ version' \in Nat \ {0}
  BY GuidesStay DEF Download
<1>2. /\ job' \in [Worker -> Jobs]
      /\ job' = [job EXCEPT ![w] = [job[w] EXCEPT !.pc = "swap"]]
  BY GoTyped DEF Download, Labels, Fetching
<1>3. PICK lists \in SUBSET Entry :
         files' = [files EXCEPT !["tmp"] = [n |-> version + 1, lists |-> lists]]
  BY DEF Download
<1>4. [n |-> version + 1, lists |-> lists] \in Held'
  <2>1. version + 1 \in 1 .. version'
    BY <1>1
  <2> QED BY <2>1 DEF Held, Guide
<1>5. files' \in [{"xml", "tmp"} -> Held']
  BY <1>1, <1>3, <1>4
<1>6. [n |-> version + 1, lists |-> lists] # Missing
  BY DEF Missing
<1>7. files'["tmp"] # Missing /\ files'["xml"] = files["xml"]
  BY <1>3, <1>6
<1>8. Typed'
  BY <1>1, <1>2, <1>5 DEF Typed, Download, guide
<1> QED BY <1>2, <1>7, <1>8

\* What a refresh does with the records.
LEMMA RefreshTyped ==
    ASSUME Typed, NEW w \in Worker,
           \/ StartRefresh(w) \/ ReadEntries(w) \/ ParseChannels(w) \/ FindStale(w)
           \/ DeleteStale(w) \/ ReadMapped(w) \/ ParsePrograms(w) \/ WriteGuide(w)
    PROVE  Typed'
<1> USE TypedIs
<1>0. "error" \in Statuses /\ "success" \in Statuses
  BY DEF Statuses
<1>f. Fail(w) => /\ job' \in [Worker -> Jobs] /\ status' \in Statuses
                 /\ locks' \in [Lock -> Worker \cup {None, "dead"}]
  BY <1>0, FailTyped
<1>u. /\ UNCHANGED status => status' \in Statuses
      /\ UNCHANGED locks => locks' \in [Lock -> Worker \cup {None, "dead"}]
  OBVIOUS
<1>1. CASE StartRefresh(w)
  <2>1. job' \in [Worker -> Jobs]
    BY <1>1, StartRefreshJob
  <2>2. locks' \in [Lock -> Worker \cup {None, "dead"}]
    BY <1>1, LocksTyped DEF StartRefresh
  <2> QED BY <1>1, <2>1, <2>2, TypedFrom DEF StartRefresh, cached, guide
<1>2. CASE ReadEntries(w)
  <2>1. /\ job' \in [Worker -> Jobs] /\ status' \in Statuses
        /\ locks' \in [Lock -> Worker \cup {None, "dead"}]
    <3>1. \/ job' \in [Worker -> Jobs] /\ UNCHANGED <<status, locks>>
          \/ Fail(w)
      BY <1>2, ReadEntriesJob
    <3> QED BY ONLY <1>0, <1>f, <1>u, <3>1
  <2> QED BY <1>2, <2>1, TypedFrom DEF ReadEntries, cached, guide, counted
<1>3. CASE ParseChannels(w)
  <2>1. /\ job' \in [Worker -> Jobs] /\ status' \in Statuses
        /\ locks' \in [Lock -> Worker \cup {None, "dead"}]
    <3>1. \/ job' \in [Worker -> Jobs] /\ UNCHANGED <<status, locks>>
          \/ Fail(w)
      BY <1>3, ParseChannelsJob
    <3> QED BY ONLY <1>0, <1>f, <1>u, <3>1
  <2>2. entries' \subseteq Entry
    <3>1. CASE Fail(w) /\ UNCHANGED entries
      BY <3>1
    <3>2. CASE ~(Fail(w) /\ UNCHANGED entries)
      <4>1. files[job[w].path] \in Held /\ files[job[w].path] # Missing
        <5>1. files[job[w].path] # Missing
          BY <1>3, <3>2 DEF ParseChannels, Exists
        <5>2. job[w] \in Jobs
          OBVIOUS
        <5>3. job[w].path \in {"xml", "tmp"}
          BY ONLY <5>2, JobIs
        <5> QED BY ONLY <5>1, <5>3, TypedIs, Typed
      <4>2. files[job[w].path].lists \subseteq Entry
        BY <4>1, GuideIs
      <4> QED BY <1>3, <3>2, <4>2 DEF ParseChannels
    <3> QED BY <3>1, <3>2
  <2> QED BY <1>3, <2>1, <2>2, TypedFrom DEF ParseChannels, cached, counted
<1>4. CASE FindStale(w)
  <2>1. job' \in [Worker -> Jobs]
    BY <1>4, FindStaleJob
  <2> QED BY <1>4, <2>1, TypedFrom DEF FindStale, cached, guide, counted
<1>5. CASE DeleteStale(w)
  <2>1. /\ job' \in [Worker -> Jobs] /\ status' \in Statuses
        /\ locks' \in [Lock -> Worker \cup {None, "dead"}]
    <3>1. \/ job' \in [Worker -> Jobs] /\ status' = "success" /\ UNCHANGED locks
          \/ Fail(w)
      BY <1>5, DeleteStaleJob
    <3> QED BY ONLY <1>0, <1>f, <1>u, <3>1
  <2>2. entries' \subseteq Entry /\ epg' \in [Channel -> Entry \cup {None}]
    <3>1. \/ entries' = entries /\ epg' = epg
          \/ /\ entries' = entries \ job[w].known
             /\ epg' = [c \in Channel |-> IF epg[c] \in job[w].known THEN None ELSE epg[c]]
      BY ONLY <1>5 DEF DeleteStale, guide
    <3>2. entries \subseteq Entry /\ epg \in [Channel -> Entry \cup {None}]
      OBVIOUS
    <3> QED BY ONLY <3>1, <3>2
  <2> QED BY <1>5, <2>1, <2>2, TypedFrom DEF DeleteStale, cached, counted
<1>6. CASE ReadMapped(w)
  <2>1. job' \in [Worker -> Jobs] /\ status' \in Statuses
    BY <1>0, <1>6, ReadMappedJob
  <2> QED BY <1>6, <2>1, TypedFrom DEF ReadMapped, cached, guide, counted
<1>7. CASE ParsePrograms(w)
  <2>1. /\ job' \in [Worker -> Jobs] /\ status' \in Statuses
        /\ locks' \in [Lock -> Worker \cup {None, "dead"}]
    <3>1. \/ job' \in [Worker -> Jobs] /\ UNCHANGED <<status, locks>>
          \/ Fail(w)
      BY <1>7, ParseProgramsJob
    <3> QED BY ONLY <1>0, <1>f, <1>u, <3>1
  <2> QED BY <1>7, <2>1, TypedFrom DEF ParsePrograms, cached, guide, counted
<1>8. CASE WriteGuide(w)
  <2>1. /\ job' \in [Worker -> Jobs] /\ status' \in Statuses
        /\ locks' \in [Lock -> Worker \cup {None, "dead"}]
    <3>1. \/ job' \in [Worker -> Jobs] /\ status' = "success" /\ UNCHANGED locks
          \/ Fail(w)
      BY <1>8, WriteGuideJob
    <3> QED BY ONLY <1>0, <1>f, <1>u, <3>1
  <2> QED BY <1>8, <2>1, TypedFrom DEF WriteGuide, cached, counted
<1> QED BY <1>1, <1>2, <1>3, <1>4, <1>5, <1>6, <1>7, <1>8

\* The rest: the tasks of single entries, the user, and what happens to workers.
LEMMA OthersTyped ==
    ASSUME Typed,
           \/ \E w \in Worker :
                 \/ End(w) \/ (\E e \in Entry : StartEntry(w, e)) \/ ClearEntry(w) \/ OpenFile(w)
                 \/ InsertBatch(w, "first", 1, "second") \/ InsertBatch(w, "second", 2, "finish")
                 \/ Crash(w)
           \/ \E c \in Channel, e \in Entry \cup {None} : SetEpg(c, e)
           \/ \E l \in Lock : Expire(l)
           \/ UNCHANGED vars
    PROVE  Typed'
<1> USE TypedIs
<1>0. "error" \in Statuses
  BY DEF Statuses
<1>1. ASSUME NEW w \in Worker, End(w) \/ Crash(w) PROVE Typed'
  <2>1. job' \in [Worker -> Jobs]
    BY <1>1, EndJob
  <2>2. locks' \in [Lock -> Worker \cup {None, "dead"}]
    BY <1>1, LocksTyped DEF End, Crash
  <2> QED BY <1>1, <2>1, <2>2, TypedFrom DEF End, Crash, cached, guide, counted
<1>2. ASSUME NEW w \in Worker, NEW e \in Entry, StartEntry(w, e) PROVE Typed'
  <2>1. job' \in [Worker -> Jobs]
    BY <1>2, StartEntryJob
  <2>2. locks' \in [Lock -> Worker \cup {None, "dead"}]
    BY <1>2, LocksTyped DEF StartEntry
  <2> QED BY <1>2, <2>1, <2>2, TypedFrom DEF StartEntry, cached, guide, counted
<1>3. ASSUME NEW w \in Worker, ClearEntry(w) PROVE Typed'
  <2>1. job' \in [Worker -> Jobs]
    BY <1>3, ClearEntryJob
  <2>2. locks' \in [Lock -> Worker \cup {None, "dead"}]
    BY <1>3, ClearEntryJob, LocksTyped DEF Leave
  <2> QED BY <1>3, <2>1, <2>2, TypedFrom DEF ClearEntry, cached, guide, counted
<1>4. ASSUME NEW w \in Worker, OpenFile(w) PROVE Typed'
  <2>1. /\ job' \in [Worker -> Jobs] /\ status' \in Statuses
        /\ locks' \in [Lock -> Worker \cup {None, "dead"}]
    BY <1>0, <1>4, OpenFileJob, FailTyped
  <2> QED BY <1>4, <2>1, TypedFrom DEF OpenFile, cached, guide, counted
<1>5. ASSUME NEW w \in Worker, NEW from, NEW half, NEW next \in Labels,
             InsertBatch(w, from, half, next)
      PROVE  Typed'
  <2>1. job' \in [Worker -> Jobs]
    BY <1>5, GoTyped DEF InsertBatch
  <2> QED BY <1>5, <2>1, TypedFrom DEF InsertBatch, cached, counted
<1>6. ASSUME NEW c \in Channel, NEW e \in Entry \cup {None}, SetEpg(c, e) PROVE Typed'
  <2>1. job' \in [Worker -> Jobs]
    BY <1>6, SetEpgJob
  <2>2. maps' \in Nat /\ epg' \in [Channel -> Entry \cup {None}]
    BY <1>6 DEF SetEpg
  <2> QED BY <1>6, <2>1, <2>2, TypedFrom DEF SetEpg, cached, guide
<1>7. ASSUME NEW l \in Lock, Expire(l) PROVE Typed'
  <2>1. locks' \in [Lock -> Worker \cup {None, "dead"}]
    BY <1>7 DEF Expire
  <2> QED BY <1>7, <2>1, TypedFrom DEF Expire, cached, guide, counted
<1>8. CASE UNCHANGED vars
  BY <1>8, TypedFrom DEF vars, cached, guide, counted
<1>9. "second" \in Labels /\ "finish" \in Labels
  BY DEF Labels
<1> QED BY <1>1, <1>2, <1>3, <1>4, <1>5, <1>6, <1>7, <1>8, <1>9

LEMMA TypedStep == Typed /\ Orderly /\ [Next]_vars => Typed'
BY FetchTyped, DownloadTyped, RefreshTyped, OthersTyped DEF Next

-----------------------------------------------------------------------------
(* The steps of one worker leave the jobs of others as they are, or say     *)
(* that they are not alone any more.                                       *)

LEMMA FailJob ==
    ASSUME job \in [Worker -> Jobs], version \in Nat \ {0}, NEW w \in Worker, Fail(w)
    PROVE  \E j \in Jobs :
              /\ job' = [job EXCEPT ![w] = j] /\ ~j.clean
              /\ j.pc \in {"finish", "left"} /\ j.path \in {"xml", job[w].path}
<1>1. job[w] \in Jobs /\ NoJob \in Jobs /\ "finish" \in Labels /\ "left" \in Labels
      /\ job[w].lock \in Lock \cup {None}
  BY NoJobTyped, JobIs DEF Labels
<1>2. CASE job[w].after = "programs"
  <2> DEFINE j == [job[w] EXCEPT !.pc = "finish", !.clean = FALSE]
  <2>1. j \in Jobs /\ j.pc = "finish" /\ ~j.clean /\ j.path = job[w].path
    BY <1>1 DEF Jobs
  <2>2. job' = [job EXCEPT ![w] = j]
    <3>1. job' = [job EXCEPT ![w].pc = "finish", ![w].clean = FALSE]
      BY <1>2 DEF Fail
    <3>2. job \in [Worker -> Jobs] /\ job[w] \in Jobs
      BY <1>1
    <3> QED BY ONLY <3>1, <3>2, w \in Worker DEF Jobs
  <2> QED BY <2>1, <2>2
<1>3. CASE job[w].after # "programs"
  <2> DEFINE j == [NoJob EXCEPT !.pc = "left", !.lock = job[w].lock]
  <2>1. j \in Jobs
    BY <1>1 DEF Jobs
  <2>2. j.pc = "left" /\ ~j.clean /\ j.path = "xml"
    BY DEF NoJob
  <2>3. job' = [job EXCEPT ![w] = j]
    BY <1>3 DEF Fail, Leave
  <2> QED BY <2>1, <2>2, <2>3
<1> QED BY <1>2, <1>3

LEMMA LeaveJob ==
    ASSUME job \in [Worker -> Jobs], NEW w \in Worker, Leave(w)
    PROVE  /\ job'[w].pc = "left" /\ job'[w].path = "xml" /\ ~job'[w].clean
           /\ \A v \in Worker \ {w} : job'[v] = job[v]
BY DEF Leave, NoJob

LEMMA DisturbJob ==
    ASSUME job \in [Worker -> Jobs], NEW w \in Worker, NEW j, Disturb(w, j)
    PROVE  /\ job'[w] = j
           /\ \A v \in Worker \ {w} :
                 /\ ~job'[v].clean
                 /\ job'[v].pc = job[v].pc /\ job'[v].after = job[v].after
                 /\ job'[v].path = job[v].path /\ job'[v].read = job[v].read
                 /\ job'[v].known = job[v].known /\ job'[v].late = job[v].late
                 /\ job'[v].mapped = job[v].mapped
<1>1. job'[w] = j
  BY DEF Disturb
<1>2. ASSUME NEW v \in Worker \ {w}
      PROVE  /\ ~job'[v].clean
             /\ job'[v].pc = job[v].pc /\ job'[v].after = job[v].after
             /\ job'[v].path = job[v].path /\ job'[v].read = job[v].read
             /\ job'[v].known = job[v].known /\ job'[v].late = job[v].late
             /\ job'[v].mapped = job[v].mapped
  <2>1. job'[v] = [job[v] EXCEPT !.clean = FALSE] /\ job[v] \in Jobs
    BY DEF Disturb
  <2> QED BY <2>1 DEF Jobs
<1> QED BY <1>1, <1>2

\* Once this holds of the worker that took the step, it holds of all.
LEMMA StepFrom ==
    ASSUME Orderly, Late, NEW w \in Worker, \A v \in Worker \ {w} : job'[v] = job[v],
           hasUrl' = hasUrl, ~hasUrl => path' = "xml", Used' \subseteq Used, Fits(job'[w]),
           job'[w].pc = "delete" => job'[w].known \cap Used' \subseteq job'[w].late
    PROVE  Orderly' /\ Late'
<1>1. ASSUME NEW v \in Worker PROVE Fits(job[v])'
  <2>1. CASE v = w BY <2>1 DEF Fits
  <2>2. CASE v # w BY <2>2 DEF Fits, Orderly
  <2> QED BY <2>1, <2>2
<1>2. ASSUME NEW v \in Worker, At(v, "delete")' PROVE job'[v].known \cap Used' \subseteq job'[v].late
  <2>1. CASE v = w BY <1>2, <2>1 DEF At
  <2>2. CASE v # w BY <1>2, <2>2 DEF At, Late
  <2> QED BY <2>1, <2>2
<1> QED BY <1>1, <1>2 DEF Orderly, Late

\* So it does where another task starts.
LEMMA DisturbFrom ==
    ASSUME job \in [Worker -> Jobs], Orderly, Late, NEW w \in Worker, NEW j, Disturb(w, j),
           UNCHANGED <<hasUrl, path, epg>>, Fits(j), j.pc # "delete"
    PROVE  Orderly' /\ Late'
<1>1. job'[w] = j
  BY DisturbJob
<1>2. ASSUME NEW v \in Worker PROVE Fits(job[v])'
  <2>1. CASE v = w BY <1>1, <2>1 DEF Fits
  <2>2. CASE v # w BY <2>2, DisturbJob DEF Fits, Orderly
  <2> QED BY <2>1, <2>2
<1>3. ASSUME NEW v \in Worker, At(v, "delete")' PROVE job'[v].known \cap Used' \subseteq job'[v].late
  <2>1. Used' = Used
    BY DEF Used
  <2>2. CASE v = w BY <1>1, <1>3, <2>2 DEF At
  <2>3. CASE v # w BY <1>3, <2>1, <2>3, DisturbJob DEF At, Late
  <2> QED BY <2>2, <2>3
<1> QED BY <1>2, <1>3 DEF Orderly, Late

-----------------------------------------------------------------------------
(* Tasks stay orderly, and late entries are known to be late.              *)

LEMMA GoJob ==
    ASSUME job \in [Worker -> Jobs], NEW w \in Worker, NEW l \in Labels, Go(w, l)
    PROVE  /\ \A v \in Worker \ {w} : job'[v] = job[v]
           /\ job'[w] = [job[w] EXCEPT !.pc = l]
           /\ job'[w].pc = l /\ job'[w].after = job[w].after /\ job'[w].path = job[w].path
           /\ job'[w].read = job[w].read /\ job'[w].mapped = job[w].mapped
           /\ job'[w].clean = job[w].clean /\ job'[w].lock = job[w].lock
           /\ job'[w].known = job[w].known /\ job'[w].late = job[w].late
<1>1. \A v \in Worker \ {w} : job'[v] = job[v]
  BY GoTyped
<1>2. job'[w] = [job[w] EXCEPT !.pc = l] /\ job[w] \in Jobs
  BY GoTyped
<1> QED BY <1>1, <1>2 DEF Jobs

\* A worker that fails is no concern any more.
LEMMA FailFrom ==
    ASSUME Typed, Orderly, Late, NEW w \in Worker, Fail(w), UNCHANGED <<hasUrl, path, epg>>
    PROVE  Orderly' /\ Late'
<1>1. PICK j \in Jobs :
         /\ job' = [job EXCEPT ![w] = j] /\ ~j.clean
         /\ j.pc \in {"finish", "left"} /\ j.path \in {"xml", job[w].path}
  BY FailJob, TypedIs
<1>2. job'[w] = j /\ \A v \in Worker \ {w} : job'[v] = job[v]
  BY <1>1, TypedIs
<1>3. Fits(j)
  BY <1>1 DEF Fits, Fetching, Orderly
<1>4. Fits(job'[w]) /\ job'[w].pc # "delete"
  BY <1>1, <1>2, <1>3
<1>5. Used' = Used /\ (~hasUrl => path' = "xml")
  BY DEF Used, Orderly
<1> QED BY <1>2, <1>4, <1>5, StepFrom

LEMMA FetchOrderly ==
    ASSUME Typed, Orderly, Late, NEW w \in Worker,
           \/ UseLocalFile(w) \/ RequestFile(w) \/ Download(w) \/ DownloadFails(w) \/ RemoveOld(w)
           \/ Publish(w)
    PROVE  Orderly' /\ Late'
<1> USE TypedIs
<1>0. /\ "download" \in Labels /\ "publish" \in Labels /\ "swap" \in Labels
      /\ Fits(job[w]) /\ (~hasUrl => path = "xml")
      /\ (epg' = epg => Used' = Used)
  <2>1. "download" \in Labels /\ "publish" \in Labels /\ "swap" \in Labels
    BY DEF Labels, Fetching
  <2>3. Fits(job[w]) /\ (~hasUrl => path = "xml")
    BY DEF Orderly
  <2>4. epg' = epg => Used' = Used
    BY DEF Used
  <2> QED BY <2>1, <2>3, <2>4
<1>1. CASE UseLocalFile(w)
  <2>1. CASE Fail(w)
    BY <1>1, <2>1, FailFrom DEF UseLocalFile, cached
  <2>2. CASE ~Fail(w)
    <3>1. Go(w, job[w].after) /\ job[w].after \in Returns /\ job[w].after \in Labels
      BY <1>0, <1>1, <2>2 DEF UseLocalFile, At, Fits, Fetching, Returns, Labels, Reading
    <3>2. Fits(job'[w]) /\ job'[w].pc # "delete"
      BY <1>0, <3>1, GoJob DEF Fits, Returns, Fetching
    <3>3. \A v \in Worker \ {w} : job'[v] = job[v]
      <4>1. PICK l \in Labels : Go(w, l)
        BY <3>1
      <4> QED BY ONLY <4>1, GoJob, job \in [Worker -> Jobs], w \in Worker, l \in Labels
    <3>4. hasUrl' = hasUrl /\ path' = path /\ epg' = epg
      BY <1>1 DEF UseLocalFile, cached
    <3>5. (~hasUrl => path' = "xml") /\ Used' \subseteq Used
      BY ONLY <1>0, <3>4
    <3> QED BY ONLY Orderly, Late, w \in Worker, <3>2, <3>3, <3>4, <3>5, StepFrom
  <2> QED BY <2>1, <2>2
<1>2. CASE RequestFile(w)
  <2>1. Go(w, "download") /\ hasUrl /\ job[w].pc \in Fetching
    BY <1>2 DEF RequestFile, At, Fetching
  <2>2. Fits(job'[w]) /\ job'[w].pc # "delete"
    <3>1. job'[w].pc = "download" /\ job'[w].after = job[w].after /\ job'[w].path = job[w].path
      BY <1>0, <2>1, GoJob
    <3> QED BY <1>0, <2>1, <3>1 DEF Fits
  <2> QED BY <1>0, <1>2, <2>1, <2>2, GoJob, StepFrom DEF RequestFile, cached
<1>3. CASE Download(w)
  <2>1. Go(w, "swap") /\ hasUrl /\ job[w].pc \in Fetching
    BY <1>0, <1>3 DEF Download, At, Fetching, Fits
  <2>2. Fits(job'[w]) /\ job'[w].pc # "delete" /\ hasUrl' = hasUrl
    <3>1. job'[w].pc = "swap" /\ job'[w].after = job[w].after /\ job'[w].path = job[w].path
      BY <1>0, <2>1, GoJob
    <3>2. hasUrl' = hasUrl
      BY <1>3 DEF Download
    <3> QED BY <1>0, <2>1, <3>1, <3>2 DEF Fits
  <2> QED BY <1>0, <1>3, <2>1, <2>2, GoJob, StepFrom DEF Download
<1>4. CASE DownloadFails(w)
  BY <1>4, FailFrom DEF DownloadFails, cached
<1>5. CASE RemoveOld(w)
  <2>1. CASE Fail(w)
    BY <1>5, <2>1, FailFrom DEF RemoveOld
  <2>2. CASE ~Fail(w)
    <3>1. Go(w, "publish") /\ hasUrl /\ job[w].pc \in Fetching
      BY <1>0, <1>5, <2>2 DEF RemoveOld, At, Fetching, Fits
    <3>2. Fits(job'[w]) /\ job'[w].pc # "delete"
      <4>1. job'[w].pc = "publish" /\ job'[w].after = job[w].after /\ job'[w].path = job[w].path
        BY <1>0, <3>1, GoJob
      <4> QED BY <1>0, <3>1, <4>1 DEF Fits
    <3> QED BY <1>0, <1>5, <3>1, <3>2, GoJob, StepFrom DEF RemoveOld
  <2> QED BY <2>1, <2>2
<1>6. CASE Publish(w)
  <2>1. PICK at \in {"xml", "tmp"} :
           /\ job' = [job EXCEPT ![w] = [job[w] EXCEPT !.pc = job[w].after, !.path = at]]
           /\ path' = at
    BY <1>6, PublishJob
  <2>2. hasUrl /\ job[w].after \in Returns /\ hasUrl' = hasUrl /\ epg' = epg
    BY <1>0, <1>6 DEF Publish, At, Fits, Fetching
  <2>3. /\ \A v \in Worker \ {w} : job'[v] = job[v]
        /\ job'[w].pc = job[w].after
    <3>1. job[w] \in Jobs
      OBVIOUS
    <3> QED BY <2>1, <3>1 DEF Jobs
  <2>4. Fits(job'[w]) /\ job'[w].pc # "delete"
    BY <2>2, <2>3 DEF Fits, Returns, Fetching
  <2> QED BY <1>0, <2>2, <2>3, <2>4, StepFrom
<1> QED BY <1>1, <1>2, <1>3, <1>4, <1>5, <1>6

LEMMA RefetchOrderly ==
    ASSUME Typed, Orderly, Late, NEW w \in Worker, NEW from, NEW after \in Returns,
           Refetch(w, from, after)
    PROVE  Orderly' /\ Late'
<1> USE TypedIs
<1>1. /\ job' = [job EXCEPT ![w] = [job[w] EXCEPT !.pc = "fetch", !.after = after,
                                                  !.path = path']]
      /\ job[w] \in Jobs
  BY RefetchJob
<1>2. /\ \A v \in Worker \ {w} : job'[v] = job[v]
      /\ job'[w].pc = "fetch" /\ job'[w].after = after /\ job'[w].path = path'
  BY <1>1 DEF Jobs
<1>3. hasUrl' = hasUrl /\ Used' = Used /\ (~hasUrl => path' = "xml")
  BY DEF Refetch, Used, Orderly
<1>4. Fits(job'[w]) /\ job'[w].pc # "delete"
  BY <1>2, <1>3 DEF Fits
<1> QED BY <1>2, <1>3, <1>4, StepFrom

LEMMA RefreshOrderly ==
    ASSUME Typed, Orderly, Late, NEW w \in Worker,
           \/ StartRefresh(w) \/ ReadEntries(w) \/ ParseChannels(w) \/ FindStale(w)
           \/ DeleteStale(w) \/ ReadMapped(w) \/ ParsePrograms(w) \/ WriteGuide(w)
    PROVE  Orderly' /\ Late'
<1> USE TypedIs
<1>0. /\ job[w] \in Jobs /\ Fits(job[w]) /\ (~hasUrl => path = "xml")
      /\ (epg' = epg => Used' = Used)
  <2>1. Fits(job[w]) /\ (~hasUrl => path = "xml")
    BY DEF Orderly
  <2>2. epg' = epg => Used' = Used
    BY DEF Used
  <2> QED BY <2>1, <2>2
<1>1. CASE StartRefresh(w)
  <2>1. PICK clean \in BOOLEAN :
           Disturb(w, [NoJob EXCEPT !.pc = "fetch", !.lock = "refresh", !.path = path,
                                    !.after = "channels", !.clean = clean])
    BY <1>1, StartRefreshJob
  <2> DEFINE j == [NoJob EXCEPT !.pc = "fetch", !.lock = "refresh", !.path = path,
                                !.after = "channels", !.clean = clean]
  <2>2. j.pc = "fetch" /\ j.after = "channels" /\ j.path = path
    BY DEF NoJob
  <2>3. Fits(j) /\ j.pc # "delete"
    <3>1. "channels" \in Returns
      BY DEF Returns
    <3> QED BY <1>0, <2>2, <3>1 DEF Fits
  <2>4. Disturb(w, j)
    BY <2>1
  <2>5. UNCHANGED <<hasUrl, path, epg>>
    BY <1>1 DEF StartRefresh, cached
  <2> HIDE DEF j
  <2> QED BY <2>3, <2>4, <2>5, DisturbFrom
<1>2. CASE ReadEntries(w)
  <2>1. UNCHANGED <<hasUrl, path, epg>>
    BY <1>2 DEF ReadEntries, cached
  <2>2. CASE Fail(w)
    BY <2>1, <2>2, FailFrom
  <2>3. CASE ~Fail(w)
    <3>1. job' = [job EXCEPT ![w] = [job[w] EXCEPT !.pc = "parse channels", !.known = entries]]
      BY <1>2, <2>3, ReadEntriesJob
    <3>2. /\ \A v \in Worker \ {w} : job'[v] = job[v]
          /\ job'[w].pc = "parse channels" /\ job'[w].path = job[w].path
      BY <1>0, <3>1 DEF Jobs
    <3>3. Fits(job'[w]) /\ job'[w].pc # "delete"
      BY <1>0, <3>2 DEF Fits, Fetching
    <3> QED BY <1>0, <2>1, <3>2, <3>3, StepFrom
  <2> QED BY <2>2, <2>3
<1>3. CASE ParseChannels(w)
  <2>1. UNCHANGED <<hasUrl, path, epg>>
    BY <1>3 DEF ParseChannels, cached
  <2>2. CASE Fail(w)
    BY <2>1, <2>2, FailFrom
  <2>3. CASE ~Fail(w)
    <3>1. job' = [job EXCEPT ![w] = [job[w] EXCEPT !.pc = "stale", !.read = files[job[w].path]]]
      BY <1>3, <2>3, ParseChannelsJob
    <3>2. /\ \A v \in Worker \ {w} : job'[v] = job[v]
          /\ job'[w].pc = "stale" /\ job'[w].path = job[w].path
      BY <1>0, <3>1 DEF Jobs
    <3>3. Fits(job'[w]) /\ job'[w].pc # "delete"
      BY <1>0, <3>2 DEF Fits, Fetching
    <3> QED BY <1>0, <2>1, <3>2, <3>3, StepFrom
  <2> QED BY <2>2, <2>3
<1>4. CASE FindStale(w)
  <2>1. UNCHANGED <<hasUrl, path, epg>>
    BY <1>4 DEF FindStale, cached
  <2> DEFINE found == (job[w].known \cap entries) \ (job[w].read.lists \cup Used)
  <2>2. job' = [job EXCEPT ![w] = [job[w] EXCEPT !.pc = "delete", !.known = found]]
    BY <1>4, FindStaleJob
  <2>3. found \cap Used = {}
    OBVIOUS
  <2> HIDE DEF found
  <2>4. /\ \A v \in Worker \ {w} : job'[v] = job[v]
        /\ job'[w].pc = "delete" /\ job'[w].path = job[w].path /\ job'[w].known = found
    BY <1>0, <2>2 DEF Jobs
  <2>5. Fits(job'[w])
    BY <1>0, <2>4 DEF Fits, Fetching
  <2> QED BY <1>0, <2>1, <2>3, <2>4, <2>5, StepFrom
<1>5. CASE DeleteStale(w)
  <2>1. UNCHANGED <<hasUrl, path>>
    BY <1>5 DEF DeleteStale, cached
  <2>2. CASE Fail(w) /\ UNCHANGED epg
    BY <2>1, <2>2, FailFrom
  <2>3. CASE ~(Fail(w) /\ UNCHANGED epg)
    <3>1. /\ job' = [job EXCEPT ![w] = [job[w] EXCEPT !.pc = "mapped", !.after = "programs",
                                                      !.known = {}, !.late = {}]]
          /\ epg' = [c \in Channel |-> IF epg[c] \in job[w].known THEN None ELSE epg[c]]
      BY <1>5, <2>3, DeleteStaleJob
    <3>2. /\ \A v \in Worker \ {w} : job'[v] = job[v]
          /\ job'[w].pc = "mapped" /\ job'[w].path = job[w].path
      BY <1>0, <3>1 DEF Jobs
    <3>3. Fits(job'[w]) /\ job'[w].pc # "delete"
      BY <1>0, <3>2 DEF Fits, Fetching
    <3>4. Used' \subseteq Used
      BY <3>1 DEF Used
    <3> QED BY <1>0, <2>1, <3>2, <3>3, <3>4, StepFrom
  <2> QED BY <2>2, <2>3
<1>6. CASE ReadMapped(w)
  <2>1. UNCHANGED <<hasUrl, path, epg>>
    BY <1>6 DEF ReadMapped, cached
  <2>2. /\ \A v \in Worker \ {w} : job'[v] = job[v]
        /\ job'[w].pc \in {"finish", "file"} /\ job'[w].path = job[w].path
    <3>1. CASE job' = [job EXCEPT ![w] = [job[w] EXCEPT !.pc = "finish"]]
      <4>1. job'[w] = [job[w] EXCEPT !.pc = "finish"] /\ \A v \in Worker \ {w} : job'[v] = job[v]
        BY <3>1
      <4> QED BY <1>0, <4>1 DEF Jobs
    <3>2. CASE job' = [job EXCEPT ![w] = [job[w] EXCEPT !.pc = "file", !.mapped = Used]]
      <4>1. /\ job'[w] = [job[w] EXCEPT !.pc = "file", !.mapped = Used]
            /\ \A v \in Worker \ {w} : job'[v] = job[v]
        BY <3>2
      <4> QED BY <1>0, <4>1 DEF Jobs
    <3> QED BY <1>6, <3>1, <3>2, ReadMappedJob
  <2>3. Fits(job'[w]) /\ job'[w].pc # "delete"
    BY <1>0, <2>2 DEF Fits, Fetching
  <2> QED BY <1>0, <2>1, <2>2, <2>3, StepFrom
<1>7. CASE ParsePrograms(w)
  <2>1. UNCHANGED <<hasUrl, path, epg>>
    BY <1>7 DEF ParsePrograms, cached
  <2>2. CASE Fail(w)
    BY <2>1, <2>2, FailFrom
  <2>3. CASE ~Fail(w)
    <3>1. /\ job' = [job EXCEPT ![w] = [job[w] EXCEPT !.pc = "write",
                                                      !.read = files[job[w].path]]]
          /\ files[job[w].path] # Missing
      BY <1>7, <2>3, ParseProgramsJob
    <3>2. /\ \A v \in Worker \ {w} : job'[v] = job[v]
          /\ job'[w].pc = "write" /\ job'[w].path = job[w].path /\ job'[w].read # Missing
      BY <1>0, <3>1 DEF Jobs
    <3>3. Fits(job'[w]) /\ job'[w].pc # "delete"
      BY <1>0, <3>2 DEF Fits, Fetching
    <3> QED BY <1>0, <2>1, <3>2, <3>3, StepFrom
  <2> QED BY <2>2, <2>3
<1>8. CASE WriteGuide(w)
  <2>1. UNCHANGED <<hasUrl, path, epg>>
    BY <1>8 DEF WriteGuide, cached
  <2>2. CASE Fail(w)
    BY <2>1, <2>2, FailFrom
  <2>3. CASE ~Fail(w)
    <3>1. job' = [job EXCEPT ![w] = [job[w] EXCEPT !.pc = "finish", !.read = Missing]]
      BY <1>8, <2>3, WriteGuideJob
    <3>2. /\ \A v \in Worker \ {w} : job'[v] = job[v]
          /\ job'[w].pc = "finish" /\ job'[w].path = job[w].path
      BY <1>0, <3>1 DEF Jobs
    <3>3. Fits(job'[w]) /\ job'[w].pc # "delete"
      BY <1>0, <3>2 DEF Fits, Fetching
    <3> QED BY <1>0, <2>1, <3>2, <3>3, StepFrom
  <2> QED BY <2>2, <2>3
<1> QED BY <1>1, <1>2, <1>3, <1>4, <1>5, <1>6, <1>7, <1>8

LEMMA OthersOrderly ==
    ASSUME Typed, Orderly, Late,
           \/ \E w \in Worker :
                 \/ End(w) \/ (\E e \in Entry : StartEntry(w, e)) \/ ClearEntry(w) \/ OpenFile(w)
                 \/ InsertBatch(w, "first", 1, "second") \/ InsertBatch(w, "second", 2, "finish")
                 \/ Crash(w)
           \/ \E c \in Channel, e \in Entry \cup {None} : SetEpg(c, e)
           \/ \E l \in Lock : Expire(l)
           \/ UNCHANGED vars
    PROVE  Orderly' /\ Late'
<1> USE TypedIs
<1>0. /\ \A w \in Worker : job[w] \in Jobs /\ Fits(job[w])
      /\ ~hasUrl => path = "xml"
      /\ epg' = epg => Used' = Used
  BY DEF Orderly, Used
<1>1. ASSUME NEW w \in Worker, End(w) \/ Crash(w) PROVE Orderly' /\ Late'
  <2>1. UNCHANGED <<hasUrl, path, epg>>
    BY <1>1 DEF End, Crash, cached
  <2>2. job'[w] = NoJob /\ \A v \in Worker \ {w} : job'[v] = job[v]
    BY <1>1, EndJob
  <2>3. Fits(job'[w]) /\ job'[w].pc # "delete"
    BY <2>2 DEF Fits, Fetching, NoJob
  <2> QED BY <1>0, <2>1, <2>2, <2>3, StepFrom
<1>2. ASSUME NEW w \in Worker, NEW e \in Entry, StartEntry(w, e) PROVE Orderly' /\ Late'
  <2> DEFINE j == [NoJob EXCEPT !.pc = "entry", !.lock = e, !.path = path]
  <2>1. UNCHANGED <<hasUrl, path, epg>>
    BY <1>2 DEF StartEntry, cached
  <2>2. Fits(j) /\ j.pc # "delete"
    BY <1>0 DEF Fits, Fetching, NoJob
  <2>3. job' = job \/ Disturb(w, j)
    BY <1>2, StartEntryJob
  <2> HIDE DEF j
  <2>4. CASE job' = job
    BY <2>1, <2>4 DEF Orderly, Fits, Late, Used, At
  <2>5. CASE Disturb(w, j)
    BY <2>1, <2>2, <2>5, DisturbFrom
  <2> QED BY <2>3, <2>4, <2>5
<1>3. ASSUME NEW w \in Worker, ClearEntry(w) PROVE Orderly' /\ Late'
  <2>1. UNCHANGED <<hasUrl, path, epg>>
    BY <1>3 DEF ClearEntry, cached
  <2>2. /\ \A v \in Worker \ {w} : job'[v] = job[v]
        /\ job'[w].pc \in {"left", "finish", "entry file"}
        /\ job'[w].path \in {"xml", job[w].path}
    <3>1. CASE Leave(w)
      BY <3>1, LeaveJob
    <3>2. CASE ~Leave(w)
      <4>1. PICK l \in {"finish", "entry file"} :
               job' = [job EXCEPT ![w] = [job[w] EXCEPT !.pc = l]]
        BY <1>3, <3>2, ClearEntryJob
      <4>2. job'[w] = [job[w] EXCEPT !.pc = l] /\ \A v \in Worker \ {w} : job'[v] = job[v]
        BY <4>1
      <4>3. job[w] \in Jobs
        BY <1>0
      <4>4. job'[w].pc = l /\ job'[w].path = job[w].path
        BY <4>2, <4>3 DEF Jobs
      <4> QED BY <4>2, <4>4
    <3> QED BY <3>1, <3>2
  <2>3. Fits(job'[w]) /\ job'[w].pc # "delete"
    BY <1>0, <2>2 DEF Fits, Fetching
  <2> QED BY <1>0, <2>1, <2>2, <2>3, StepFrom
<1>4. ASSUME NEW w \in Worker, OpenFile(w) PROVE Orderly' /\ Late'
  <2>1. UNCHANGED <<hasUrl, path, epg>>
    BY <1>4 DEF OpenFile, cached
  <2>2. CASE Fail(w)
    BY <2>1, <2>2, FailFrom
  <2>3. CASE ~Fail(w)
    <3>1. /\ job' = [job EXCEPT ![w] = [job[w] EXCEPT !.pc = "first",
                                                      !.read = files[job[w].path]]]
          /\ files[job[w].path] # Missing
      BY <1>4, <2>3, OpenFileJob
    <3>2. /\ \A v \in Worker \ {w} : job'[v] = job[v]
          /\ job'[w].pc = "first" /\ job'[w].path = job[w].path /\ job'[w].read # Missing
      BY <1>0, <3>1 DEF Jobs
    <3>3. Fits(job'[w]) /\ job'[w].pc # "delete"
      BY <1>0, <3>2 DEF Fits, Fetching
    <3> QED BY <1>0, <2>1, <3>2, <3>3, StepFrom
  <2> QED BY <2>2, <2>3
<1>5. ASSUME NEW w \in Worker, NEW from \in {"first", "second"}, NEW half,
             NEW next \in {"second", "finish"}, InsertBatch(w, from, half, next)
      PROVE  Orderly' /\ Late'
  <2>1. UNCHANGED <<hasUrl, path, epg>>
    BY <1>5 DEF InsertBatch, cached
  <2>2. Go(w, next) /\ next \in Labels /\ job[w].pc \in {"first", "second"}
    BY <1>5 DEF InsertBatch, At, Labels
  <2>3. job'[w].pc = next /\ job'[w].path = job[w].path /\ job'[w].read = job[w].read
    BY <2>2, GoJob
  <2>4. Fits(job'[w]) /\ job'[w].pc # "delete"
    BY <1>0, <2>2, <2>3 DEF Fits, Fetching
  <2>5. \A v \in Worker \ {w} : job'[v] = job[v]
    BY <2>2, GoJob
  <2> QED BY <1>0, <2>1, <2>4, <2>5, StepFrom
<1>6. ASSUME NEW c \in Channel, NEW e \in Entry \cup {None}, SetEpg(c, e) PROVE Orderly' /\ Late'
  <2>1. UNCHANGED <<hasUrl, path>> /\ Used' \subseteq Used \cup {e}
    BY <1>6 DEF SetEpg, cached, Used
  <2>2. ASSUME NEW w \in Worker
        PROVE  /\ job'[w].pc = job[w].pc /\ job'[w].after = job[w].after
               /\ job'[w].path = job[w].path /\ job'[w].read = job[w].read
               /\ job'[w].known = job[w].known /\ job[w].late \subseteq job'[w].late
               /\ e \in job[w].known => e \in job'[w].late
    <3>1. PICK late \in SUBSET Entry :
             /\ job'[w] = [job[w] EXCEPT !.late = late] /\ job[w].late \subseteq late
             /\ e \in job[w].known => e \in late
      BY <1>6, SetEpgJob
    <3> QED BY <1>0, <3>1 DEF Jobs
  <2>3. ASSUME NEW w \in Worker PROVE Fits(job[w])'
    BY <1>0, <2>1, <2>2 DEF Fits
  <2>4. ASSUME NEW w \in Worker, At(w, "delete")'
        PROVE  job'[w].known \cap Used' \subseteq job'[w].late
    <3>1. job[w].known \cap Used \subseteq job[w].late
      BY <2>2, <2>4 DEF At, Late
    <3> QED BY <2>1, <2>2, <3>1
  <2> QED BY <1>0, <2>1, <2>3, <2>4 DEF Orderly, Late
<1>7. ASSUME UNCHANGED <<hasUrl, path, epg, job>> PROVE Orderly' /\ Late'
  BY <1>7 DEF Orderly, Fits, Late, Used, At
<1>8. ASSUME (\E l \in Lock : Expire(l)) \/ UNCHANGED vars PROVE UNCHANGED <<hasUrl, path, epg, job>>
  BY <1>8 DEF Expire, vars, cached
<1> QED BY <1>1, <1>2, <1>3, <1>4, <1>5, <1>6, <1>7, <1>8

LEMMA OrderlyStep == Typed /\ Orderly /\ Late /\ [Next]_vars => Orderly' /\ Late'
<1>1. /\ "channels again" \in Returns /\ "programs" \in Returns
      /\ "entry fetched" \in Returns
  BY DEF Returns
<1> QED BY <1>1, FetchOrderly, RefetchOrderly, RefreshOrderly, OthersOrderly DEF Next

-----------------------------------------------------------------------------
(* The programmes.                                                         *)

LEMMA ProgrammesStay ==
    ASSUME Typed, Programmes, version' = version \/ version' = version + 1, programs' = programs,
           entries \subseteq entries'
    PROVE  Programmes'
<1>1. Rows \subseteq Rows'
  BY GuidesStay, TypedIs
<1>2. programs' \in [Entry -> SUBSET Rows']
  BY <1>1 DEF Programmes
<1> QED BY <1>2 DEF Programmes

LEMMA RowsSame == version' = version => Rows' = Rows
BY DEF Rows

LEMMA DeleteProgrammes ==
    ASSUME Typed, Programmes, NEW w \in Worker, DeleteStale(w)
    PROVE  Programmes'
<1>1. version' = version /\ Rows' = Rows
  BY RowsSame DEF DeleteStale, counted
<1>2. CASE UNCHANGED guide
  BY <1>1, <1>2, ProgrammesStay DEF guide
<1>3. CASE ~UNCHANGED guide
  <2> DEFINE stale == job[w].known
  <2>1. /\ entries' = entries \ stale
        /\ programs' = [e \in Entry |-> IF e \in stale THEN {} ELSE programs[e]]
    BY <1>3, DeleteStaleJob, TypedIs DEF guide
  <2> HIDE DEF stale
  <2>2. programs' \in [Entry -> SUBSET Rows]
    BY <2>1 DEF Programmes
  <2>3. \A e \in Entry : programs'[e] # {} => e \in entries'
    BY <2>1 DEF Programmes
  <2> QED BY <1>1, <2>2, <2>3 DEF Programmes
<1> QED BY <1>2, <1>3

LEMMA WriteProgrammes ==
    ASSUME Typed, Orderly, Programmes, NEW w \in Worker, WriteGuide(w)
    PROVE  Programmes'
<1>1. version' = version /\ Rows' = Rows /\ entries' = entries
  BY RowsSame DEF WriteGuide, counted
<1>2. CASE programs' = programs
  BY <1>1, <1>2, ProgrammesStay
<1>3. CASE programs' # programs
  <2> DEFINE new == job[w].mapped \cap job[w].read.lists
  <2>1. /\ new \subseteq entries
        /\ programs' = [e \in Entry |-> IF e \in new THEN Whole(w) ELSE {}]
    BY <1>3, WriteGuideJob, TypedIs
  <2>2. Whole(w) \subseteq Rows
    <3>1. job[w].read # Missing /\ job[w].read \in Held
      BY JobIs, TypedIs DEF Orderly, Fits, WriteGuide, At
    <3>2. job[w].read.n \in 1 .. version
      BY <3>1, GuideIs, TypedIs
    <3> QED BY <3>2 DEF Whole, Rows
  <2> HIDE DEF new
  <2>3. programs' \in [Entry -> SUBSET Rows]
    BY <2>1, <2>2
  <2>4. \A e \in Entry : programs'[e] # {} => e \in entries'
    BY <1>1, <2>1
  <2> QED BY <1>1, <2>3, <2>4 DEF Programmes
<1> QED BY <1>2, <1>3

LEMMA EntryProgrammes ==
    ASSUME Typed, Orderly, Programmes, NEW w \in Worker,
           \/ ClearEntry(w)
           \/ InsertBatch(w, "first", 1, "second") \/ InsertBatch(w, "second", 2, "finish")
    PROVE  Programmes'
<1>0. version' = version /\ Rows' = Rows /\ entries' = entries
  BY RowsSame DEF ClearEntry, InsertBatch, counted
<1>1. CASE programs' = programs
  BY <1>0, <1>1, ProgrammesStay
<1>2. CASE ClearEntry(w) /\ programs' # programs
  <2>1. programs' = [programs EXCEPT ![job[w].lock] = {}]
    BY <1>2 DEF ClearEntry
  <2>2. programs' \in [Entry -> SUBSET Rows]
    BY <2>1 DEF Programmes
  <2> QED BY <1>0, <2>1, <2>2 DEF Programmes
<1>3. ASSUME NEW from \in {"first", "second"}, NEW half \in {1, 2}, NEW next,
             InsertBatch(w, from, half, next), programs' # programs
      PROVE  Programmes'
  <2> DEFINE e == job[w].lock
             row == <<job[w].read.n, half, w>>
  <2>1. e \in entries /\ programs' = [programs EXCEPT ![e] = programs[e] \cup {row}]
    BY <1>3 DEF InsertBatch
  <2>2. row \in Rows
    <3>1. job[w].read # Missing /\ job[w].read \in Held
      BY <1>3, JobIs, TypedIs DEF Orderly, Fits, InsertBatch, At
    <3>2. job[w].read.n \in 1 .. version
      BY <3>1, GuideIs, TypedIs
    <3> QED BY <3>2 DEF Rows
  <2>3. e \in Entry
    BY <2>1, TypedIs
  <2> HIDE DEF e, row
  <2>4. programs' \in [Entry -> SUBSET Rows]
    BY <2>1, <2>2, <2>3 DEF Programmes
  <2>5. \A d \in Entry : programs'[d] # {} => d \in entries
    BY <2>1, <2>3 DEF Programmes
  <2> QED BY <1>0, <2>4, <2>5 DEF Programmes
<1> QED BY <1>1, <1>2, <1>3

\* All other steps leave the programmes and what channels have alone.
LEMMA Elsewhere ==
    ASSUME Next
    PROVE  \/ \E w \in Worker :
                 \/ DeleteStale(w) \/ WriteGuide(w) \/ ClearEntry(w)
                 \/ InsertBatch(w, "first", 1, "second") \/ InsertBatch(w, "second", 2, "finish")
           \/ /\ programs' = programs /\ entries \subseteq entries'
              /\ version' = version \/ version' = version + 1
              /\ epg' = epg \/ \E c \in Channel, e \in Entry \cup {None} : SetEpg(c, e)
<1> DEFINE Untouched ==
              /\ programs' = programs /\ entries \subseteq entries'
              /\ version' = version \/ version' = version + 1
              /\ epg' = epg \/ \E c \in Channel, e \in Entry \cup {None} : SetEpg(c, e)
<1>1. ASSUME NEW w \in Worker,
             \/ UseLocalFile(w) \/ RequestFile(w) \/ Download(w) \/ DownloadFails(w)
             \/ RemoveOld(w) \/ Publish(w)
             \/ Refetch(w, "channels", "channels again") \/ Refetch(w, "file", "programs")
             \/ Refetch(w, "entry file", "entry fetched")
      PROVE  Untouched
  BY <1>1 DEF UseLocalFile, RequestFile, Download, DownloadFails, RemoveOld, Publish, Refetch,
              guide, counted
<1>2. ASSUME NEW w \in Worker,
             \/ StartRefresh(w) \/ ReadEntries(w) \/ ParseChannels(w) \/ FindStale(w)
             \/ ReadMapped(w) \/ ParsePrograms(w) \/ End(w) \/ OpenFile(w) \/ Crash(w)
             \/ \E e \in Entry : StartEntry(w, e)
      PROVE  Untouched
  BY <1>2 DEF StartRefresh, ReadEntries, ParseChannels, FindStale, ReadMapped, ParsePrograms, End,
              OpenFile, Crash, StartEntry, guide, counted
<1>3. ASSUME \E c \in Channel, e \in Entry \cup {None} : SetEpg(c, e) PROVE Untouched
  BY <1>3 DEF SetEpg, guide
<1>4. ASSUME \E l \in Lock : Expire(l) PROVE Untouched
  BY <1>4 DEF Expire, guide, counted
<1> HIDE DEF Untouched
<1>5. \/ Untouched
      \/ \E w \in Worker :
            \/ DeleteStale(w) \/ WriteGuide(w) \/ ClearEntry(w)
            \/ InsertBatch(w, "first", 1, "second") \/ InsertBatch(w, "second", 2, "finish")
  BY <1>1, <1>2, <1>3, <1>4 DEF Next
<1> QED BY <1>5 DEF Untouched

LEMMA ProgrammesStep == Typed /\ Orderly /\ Programmes /\ [Next]_vars => Programmes'
<1>1. CASE UNCHANGED vars
  BY <1>1, ProgrammesStay DEF vars, guide, counted
<1> QED BY <1>1, Elsewhere, ProgrammesStay, DeleteProgrammes, WriteProgrammes, EntryProgrammes

LEMMA TypesHold == Typed /\ Programmes => TypeOK
<1> SUFFICES ASSUME Typed, Programmes PROVE TypeOK
  OBVIOUS
<1>1. \A f \in {"xml", "tmp"} : files[f] = Missing \/ files[f].lists \subseteq Entry
  BY TypedIs, GuideIs
<1>2. programs \in [Entry -> SUBSET ((1 .. version) \X {1, 2} \X Worker)]
  BY DEF Programmes, Rows
<1>3. status \in {"idle", "fetching", "parsing", "error", "success"}
  BY TypedIs DEF Statuses
<1> QED BY <1>1, <1>2, <1>3, TypedIs DEF TypeOK, Programmes

-----------------------------------------------------------------------------
(* What steps may not do to the entries of channels and their programmes.  *)

LEMMA GuideStep ==
    ASSUME Typed, Programmes, Late, Next
    PROVE  KeepsEpg /\ KeepsGuide
<1>0. Used \subseteq Entry /\ maps \in Nat
  BY TypedIs DEF Used
<1>1. CASE programs' = programs /\ epg' = epg
  BY <1>1 DEF KeepsEpg, KeepsGuide
<1>2. ASSUME NEW d \in Channel, NEW e \in Entry \cup {None}, SetEpg(d, e)
      PROVE  KeepsEpg /\ KeepsGuide
  <2>1. maps' # maps /\ programs' = programs
    BY <1>0, <1>2 DEF SetEpg, guide
  <2> QED BY <2>1 DEF KeepsEpg, KeepsGuide
<1>3. ASSUME NEW w \in Worker, DeleteStale(w) PROVE KeepsEpg /\ KeepsGuide
  <2>1. CASE UNCHANGED <<guide, epg>>
    BY <1>1, <2>1 DEF guide
  <2>2. CASE ~UNCHANGED <<guide, epg>>
    <3>1. /\ programs' = [e \in Entry |-> IF e \in job[w].known THEN {} ELSE programs[e]]
          /\ epg' = [c \in Channel |-> IF epg[c] \in job[w].known THEN None ELSE epg[c]]
      BY <1>3, <2>2, DeleteStaleJob, TypedIs
    <3>2. job[w].known \cap Used \subseteq job[w].late
      BY <1>3 DEF Late, DeleteStale
    <3>3. KeepsEpg
      <4> SUFFICES ASSUME NEW c \in Channel, epg[c] # None, epg'[c] = None
                   PROVE  epg[c] \in job[w].late
        BY DEF KeepsEpg
      <4>1. epg[c] \in Used
        BY DEF Used
      <4> QED BY <3>1, <3>2, <4>1
    <3>4. KeepsGuide
      <4> SUFFICES ASSUME NEW e \in Used, programs[e] # {}, programs'[e] = {}
                   PROVE  e \in job[w].late
        BY DEF KeepsGuide
      <4> QED BY <1>0, <3>1, <3>2
    <3> QED BY <3>3, <3>4
  <2> QED BY <2>1, <2>2
<1>4. ASSUME NEW w \in Worker, WriteGuide(w) PROVE KeepsEpg /\ KeepsGuide
  <2>1. epg' = epg
    BY <1>4 DEF WriteGuide
  <2>2. CASE programs' = programs
    BY <1>1, <2>1, <2>2
  <2>3. CASE programs' # programs
    <3>1. programs' = [e \in Entry |-> IF e \in job[w].mapped \cap job[w].read.lists
                                       THEN Whole(w) ELSE {}]
      BY <1>4, <2>3, WriteGuideJob, TypedIs
    <3>2. Whole(w) # {} /\ At(w, "write")
      <4>1. <<job[w].read.n, 1, w>> \in Whole(w)
        BY DEF Whole
      <4> QED BY <1>4, <4>1 DEF WriteGuide
    <3>3. KeepsGuide
      <4> SUFFICES ASSUME NEW e \in Used, programs[e] # {}, programs'[e] = {}
                   PROVE  e \notin job[w].mapped \cap job[w].read.lists
        BY <3>2 DEF KeepsGuide
      <4> QED BY <1>0, <3>1, <3>2
    <3> QED BY <2>1, <3>3 DEF KeepsEpg
  <2> QED BY <2>2, <2>3
<1>5. ASSUME NEW w \in Worker, ClearEntry(w) PROVE KeepsEpg /\ KeepsGuide
  <2>1. epg' = epg /\ At(w, "entry")
    BY <1>5 DEF ClearEntry
  <2>2. programs' = programs \/ programs' = [programs EXCEPT ![job[w].lock] = {}]
    BY <1>5 DEF ClearEntry
  <2>3. KeepsGuide
    BY <1>0, <2>1, <2>2 DEF KeepsGuide, Programmes
  <2> QED BY <2>1, <2>3 DEF KeepsEpg
<1>6. ASSUME NEW w \in Worker, NEW from, NEW half, NEW next, InsertBatch(w, from, half, next)
      PROVE  KeepsEpg /\ KeepsGuide
  <2> DEFINE row == <<job[w].read.n, half, w>>
  <2>1. epg' = epg
    BY <1>6 DEF InsertBatch
  <2>2. \/ programs' = programs
        \/ programs' = [programs EXCEPT ![job[w].lock] = programs[job[w].lock] \cup {row}]
    BY <1>6 DEF InsertBatch
  <2> HIDE DEF row
  <2>3. \A e \in Entry : programs[e] # {} => programs'[e] # {}
    BY <2>2 DEF Programmes
  <2>4. KeepsGuide
    BY <1>0, <2>3 DEF KeepsGuide
  <2> QED BY <2>1, <2>4 DEF KeepsEpg
<1>7. \/ \E w \in Worker :
            \/ DeleteStale(w) \/ WriteGuide(w) \/ ClearEntry(w)
            \/ InsertBatch(w, "first", 1, "second") \/ InsertBatch(w, "second", 2, "finish")
      \/ programs' = programs /\ epg' = epg
      \/ \E c \in Channel, e \in Entry \cup {None} : SetEpg(c, e)
  BY Elsewhere
<1> QED BY <1>1, <1>2, <1>3, <1>4, <1>5, <1>6, <1>7

-----------------------------------------------------------------------------
(* What a refresh that nothing disturbs brings about.                      *)

\* The step of a worker that is under way leaves no other clean.
LEMMA CleanFrom ==
    ASSUME Clean, NEW w \in Worker, job[w].pc # "idle", \A v \in Worker \ {w} : job'[v] = job[v],
           job'[w].clean => job[w].clean /\ job'[w].lock = job[w].lock /\ Progress(w)'
    PROVE  Clean'
<1> SUFFICES ASSUME NEW u \in Worker, job'[u].clean
             PROVE  /\ Refreshing(u)' /\ \A v \in Worker \ {u} : At(v, "idle")'
                    /\ Progress(u)'
  BY DEF Clean
<1>1. CASE u # w
  BY <1>1 DEF Clean, At
<1>2. CASE u = w
  <2>1. job[w].lock = "refresh" /\ \A v \in Worker \ {w} : At(v, "idle")
    BY <1>2 DEF Clean, Refreshing
  <2> QED BY <1>2, <2>1 DEF Refreshing, At
<1> QED BY <1>1, <1>2

LEMMA DisturbClean ==
    ASSUME job \in [Worker -> Jobs], NEW w \in Worker, NEW j, Disturb(w, j),
           j.clean => /\ j.lock = "refresh" /\ j.pc = "fetch" /\ j.after = "channels"
                      /\ j.mapped = {} /\ \A v \in Worker \ {w} : At(v, "idle")
    PROVE  Clean'
<1> SUFFICES ASSUME NEW u \in Worker, job'[u].clean
             PROVE  /\ Refreshing(u)' /\ \A v \in Worker \ {u} : At(v, "idle")'
                    /\ Progress(u)'
  BY DEF Clean
<1>1. u = w /\ job'[w] = j /\ \A v \in Worker \ {w} : job'[v].pc = job[v].pc
  BY DisturbJob
<1>2. \A v \in Worker \ {u} : At(v, "idle")'
  BY <1>1 DEF At
<1>3. Progress(u)'
  BY <1>1 DEF Progress, Fetching
<1> QED BY <1>1, <1>2, <1>3 DEF Refreshing

\* A worker that fails is not clean.
LEMMA FailClean ==
    ASSUME Typed, Clean, NEW w \in Worker, job[w].pc # "idle", Fail(w)
    PROVE  Clean'
<1>1. PICK j \in Jobs : job' = [job EXCEPT ![w] = j] /\ ~j.clean
  BY FailJob, TypedIs
<1>2. job'[w] = j /\ \A v \in Worker \ {w} : job'[v] = job[v]
  BY <1>1, TypedIs
<1> QED BY ONLY Clean, w \in Worker, job[w].pc # "idle", <1>1, <1>2, CleanFrom

\* What is known of a clean refresh where it is.
LEMMA ProgressIs ==
    ASSUME Clean, NEW w \in Worker, job[w].clean
    PROVE  /\ Progress(w)
           /\ job[w].pc \notin {"idle", "programs", "left", "entry", "entry file", "entry fetched",
                                "first", "second"}
<1>1. Progress(w)
  BY DEF Clean
<1> QED BY <1>1 DEF Progress, Fetching, Reading

\* A job that goes elsewhere with another path.
LEMMA Published ==
    ASSUME NEW j \in Jobs, NEW l, NEW at
    PROVE  LET k == [j EXCEPT !.pc = l, !.path = at]
           IN  /\ k.pc = l /\ k.path = at /\ k.mapped = j.mapped
               /\ k.clean = j.clean /\ k.lock = j.lock
BY DEF Jobs

LEMMA FetchClean ==
    ASSUME Typed, Orderly, Clean, NEW w \in Worker,
           \/ UseLocalFile(w) \/ RequestFile(w) \/ Download(w) \/ DownloadFails(w) \/ RemoveOld(w)
           \/ Publish(w)
    PROVE  Clean'
<1> USE TypedIs
<1>0. /\ job[w] \in Jobs /\ job[w].pc \in Fetching /\ job[w].pc # "idle"
      /\ job[w].clean => /\ job[w].after \in {"channels", "channels again"}
                         /\ job[w].mapped = {}
                         /\ job[w].pc = "publish" => files["tmp"] # Missing
  <2>1. job[w].pc \in Fetching /\ job[w].pc # "idle"
    BY DEF UseLocalFile, RequestFile, Download, DownloadFails, RemoveOld, Publish, At, Fetching
  <2>2. ASSUME job[w].clean
        PROVE  /\ job[w].after \in {"channels", "channels again"}
               /\ job[w].mapped = {}
               /\ job[w].pc = "publish" => files["tmp"] # Missing
    <3>1. Progress(w)
      BY <2>2, ProgressIs
    <3> QED BY <2>1, <3>1 DEF Progress, Fetching, Reading
  <2> QED BY <2>1, <2>2
<1>1. ASSUME NEW l \in {"download", "swap", "publish"}, Go(w, l),
             l = "publish" => files'["tmp"] # Missing
      PROVE  Clean'
  <2>0. l \in Labels
    BY DEF Labels, Fetching
  <2>1. /\ job'[w].pc = l /\ job'[w].after = job[w].after /\ job'[w].mapped = job[w].mapped
        /\ job'[w].clean = job[w].clean /\ job'[w].lock = job[w].lock
        /\ \A v \in Worker \ {w} : job'[v] = job[v]
    BY <1>1, <2>0, GoJob
  <2>2. job'[w].clean => Progress(w)'
    BY <1>0, <1>1, <2>1 DEF Progress, Fetching
  <2> QED BY ONLY Clean, w \in Worker, <1>0, <2>1, <2>2, CleanFrom
<1>2. ASSUME job'[w].pc = job[w].after, job'[w].clean = job[w].clean,
             job'[w].lock = job[w].lock, job'[w].mapped = job[w].mapped,
             job[w].clean => job'[w].path = "xml", \A v \in Worker \ {w} : job'[v] = job[v]
      PROVE  Clean'
  <2>1. job'[w].clean => Progress(w)'
    BY <1>0, <1>2 DEF Progress, Reading
  <2> QED BY ONLY Clean, w \in Worker, <1>0, <1>2, <2>1, CleanFrom
<1>3. CASE Fail(w)
  BY <1>0, <1>3, FailClean
<1>4. CASE UseLocalFile(w) /\ ~Fail(w)
  <2>1. Go(w, job[w].after) /\ ~hasUrl /\ job[w].after \in Labels
    BY <1>4 DEF UseLocalFile, At, Orderly, Fits, Fetching, Returns, Labels, Reading
  <2>2. job[w].path = "xml"
    BY <2>1 DEF Orderly, Fits
  <2>3. /\ job'[w].pc = job[w].after /\ job'[w].clean = job[w].clean
        /\ job'[w].lock = job[w].lock /\ job'[w].mapped = job[w].mapped
        /\ job'[w].path = "xml" /\ \A v \in Worker \ {w} : job'[v] = job[v]
    <3>1. PICK l \in Labels : l = job[w].after /\ Go(w, l)
      BY <2>1
    <3>2. /\ job'[w].pc = l /\ job'[w].clean = job[w].clean /\ job'[w].lock = job[w].lock
          /\ job'[w].mapped = job[w].mapped /\ job'[w].path = job[w].path
          /\ \A v \in Worker \ {w} : job'[v] = job[v]
      <4>1. Go(w, l) /\ job \in [Worker -> Jobs]
        BY <3>1
      <4> QED BY ONLY <4>1, GoJob, w \in Worker, l \in Labels
    <3> QED BY <2>2, <3>1, <3>2
  <2> QED BY <1>2, <2>3
<1>5. CASE RequestFile(w)
  BY <1>1, <1>5 DEF RequestFile
<1>6. CASE Download(w)
  BY <1>1, <1>6 DEF Download
<1>7. CASE RemoveOld(w) /\ ~Fail(w)
  <2>1. /\ Go(w, "publish") /\ files["tmp"] # Missing
        /\ files' = [files EXCEPT !["xml"] = Missing]
    BY <1>7 DEF RemoveOld
  <2>2. files'["tmp"] # Missing
    BY <2>1
  <2> QED BY <1>1, <2>1, <2>2
<1>8. CASE Publish(w)
  <2>1. PICK at \in {"xml", "tmp"} :
           /\ job' = [job EXCEPT ![w] = [job[w] EXCEPT !.pc = job[w].after, !.path = at]]
           /\ files["tmp"] # Missing => at = "xml"
    BY <1>8, PublishJob
  <2>2. /\ job'[w] = [job[w] EXCEPT !.pc = job[w].after, !.path = at]
        /\ \A v \in Worker \ {w} : job'[v] = job[v]
    BY <2>1
  <2>3. /\ job'[w].pc = job[w].after /\ job'[w].clean = job[w].clean
        /\ job'[w].lock = job[w].lock /\ job'[w].mapped = job[w].mapped
        /\ job'[w].path = at
    <3>1. job[w] \in Jobs /\ job'[w] = [job[w] EXCEPT !.pc = job[w].after, !.path = at]
      BY <1>0, <2>2
    <3> QED BY ONLY <3>1, Published
  <2>4. job[w].clean => at = "xml"
    BY <1>0, <1>8, <2>1 DEF Publish, At
  <2>5. job[w].clean => job'[w].path = "xml"
    BY ONLY <2>3, <2>4
  <2> QED BY ONLY <1>2, <2>2, <2>3, <2>5
<1>9. DownloadFails(w) => Fail(w)
  BY DEF DownloadFails
<1> QED BY <1>3, <1>4, <1>5, <1>6, <1>7, <1>8, <1>9

LEMMA RefetchClean ==
    ASSUME Typed, Clean, NEW w \in Worker,
           \/ Refetch(w, "channels", "channels again") \/ Refetch(w, "file", "programs")
           \/ Refetch(w, "entry file", "entry fetched")
    PROVE  Clean'
<1> USE TypedIs
<1>1. PICK from \in {"channels", "file", "entry file"},
           after \in {"channels again", "programs", "entry fetched"} :
         /\ Refetch(w, from, after)
         /\ from = "channels" => after = "channels again"
  OBVIOUS
<1>2. after \in Returns
  BY DEF Returns
<1>3. /\ job' = [job EXCEPT ![w] = [job[w] EXCEPT !.pc = "fetch", !.after = after,
                                                  !.path = path']]
      /\ job[w] \in Jobs /\ job[w].pc = from
  <2>1. job[w].pc = from
    BY <1>1 DEF Refetch, At
  <2>2. job' = [job EXCEPT ![w] = [job[w] EXCEPT !.pc = "fetch", !.after = after,
                                                 !.path = path']]
    BY <1>1, <1>2, RefetchJob
  <2> QED BY <2>1, <2>2
<1>4. /\ job'[w] = [job[w] EXCEPT !.pc = "fetch", !.after = after, !.path = path']
      /\ \A v \in Worker \ {w} : job'[v] = job[v]
  BY <1>3
<1>5. /\ job'[w].pc = "fetch" /\ job'[w].after = after
      /\ job'[w].clean = job[w].clean /\ job'[w].lock = job[w].lock
      /\ job'[w].mapped = job[w].mapped
  <2>1. job[w] \in Jobs /\ job'[w] = [job[w] EXCEPT !.pc = "fetch", !.after = after,
                                                   !.path = path']
    BY <1>3, <1>4
  <2> QED BY ONLY <2>1 DEF Jobs
<1>6. ASSUME job[w].clean PROVE job[w].pc = "channels" /\ job[w].mapped = {}
  <2>1. Progress(w)
    BY <1>6, ProgressIs
  <2>2. ~Exists(w)
    BY <1>1 DEF Refetch
  <2> QED BY <1>3, <2>1, <2>2 DEF Progress, Fetching, Reading, Exists
<1>7. job'[w].clean => Progress(w)'
  BY <1>1, <1>3, <1>5, <1>6 DEF Progress, Fetching
<1>8. job[w].pc # "idle"
  BY ONLY <1>3, from \in {"channels", "file", "entry file"}
<1>9. job'[w].clean => job[w].clean /\ job'[w].lock = job[w].lock /\ Progress(w)'
  BY ONLY <1>5, <1>7
<1>10. \A v \in Worker \ {w} : job'[v] = job[v]
  BY ONLY <1>4
<1> QED BY ONLY Clean, w \in Worker, <1>8, <1>9, <1>10, CleanFrom

LEMMA RefreshClean ==
    ASSUME Typed, Clean, NEW w \in Worker,
           \/ StartRefresh(w) \/ ReadEntries(w) \/ ParseChannels(w) \/ FindStale(w)
           \/ DeleteStale(w) \/ ReadMapped(w) \/ ParsePrograms(w) \/ WriteGuide(w)
    PROVE  Clean'
<1> USE TypedIs
<1>0. job[w] \in Jobs /\ (job[w].clean => Progress(w))
  BY ProgressIs
<1>1. CASE StartRefresh(w)
  <2>1. PICK clean \in BOOLEAN :
           /\ clean => \A v \in Worker \ {w} : At(v, "idle")
           /\ Disturb(w, [NoJob EXCEPT !.pc = "fetch", !.lock = "refresh", !.path = path,
                                       !.after = "channels", !.clean = clean])
    BY <1>1, StartRefreshJob
  <2> DEFINE j == [NoJob EXCEPT !.pc = "fetch", !.lock = "refresh", !.path = path,
                                !.after = "channels", !.clean = clean]
  <2>2. /\ j.pc = "fetch" /\ j.after = "channels" /\ j.lock = "refresh" /\ j.mapped = {}
        /\ j.clean = clean
    BY DEF NoJob
  <2>3. Disturb(w, j)
    BY <2>1
  <2> HIDE DEF j
  <2> QED BY <2>1, <2>2, <2>3, DisturbClean
<1>2. CASE job[w].pc # "idle" /\ Fail(w)
  BY <1>2, FailClean
<1>3. CASE ReadEntries(w) /\ ~Fail(w)
  <2>1. /\ job' = [job EXCEPT ![w] = [job[w] EXCEPT !.pc = "parse channels", !.known = entries]]
        /\ job[w].pc \in {"channels", "channels again"}
    BY <1>3, ReadEntriesJob DEF ReadEntries, At
  <2>2. /\ job'[w] = [job[w] EXCEPT !.pc = "parse channels", !.known = entries]
        /\ \A v \in Worker \ {w} : job'[v] = job[v]
    BY <2>1
  <2>3. /\ job'[w].pc = "parse channels" /\ job'[w].path = job[w].path
        /\ job'[w].mapped = job[w].mapped
        /\ job'[w].clean = job[w].clean /\ job'[w].lock = job[w].lock
    BY <1>0, <2>2 DEF Jobs
  <2>4. job[w].clean => job[w].path = "xml" /\ job[w].mapped = {}
    BY <1>0, <2>1 DEF Progress, Fetching, Reading
  <2>5. job'[w].clean => Progress(w)'
    BY <2>3, <2>4 DEF Progress, Reading
  <2> QED BY ONLY Clean, w \in Worker, <2>1, <2>2, <2>3, <2>5, CleanFrom
<1>4. CASE ParseChannels(w) /\ ~Fail(w)
  <2>1. /\ job' = [job EXCEPT ![w] = [job[w] EXCEPT !.pc = "stale", !.read = files[job[w].path]]]
        /\ job[w].pc = "parse channels" /\ files[job[w].path] # Missing
        /\ entries' = entries \cup files[job[w].path].lists /\ files' = files
    BY <1>4, ParseChannelsJob DEF ParseChannels, At, cached
  <2>2. /\ job'[w] = [job[w] EXCEPT !.pc = "stale", !.read = files[job[w].path]]
        /\ \A v \in Worker \ {w} : job'[v] = job[v]
    BY <2>1
  <2>3. /\ job'[w].pc = "stale" /\ job'[w].path = job[w].path
        /\ job'[w].mapped = job[w].mapped /\ job'[w].read = files[job[w].path]
        /\ job'[w].clean = job[w].clean /\ job'[w].lock = job[w].lock
    BY <1>0, <2>2 DEF Jobs
  <2>4. job[w].clean => job[w].path = "xml" /\ job[w].mapped = {}
    BY <1>0, <2>1 DEF Progress, Fetching, Reading
  <2>5. job'[w].clean => Progress(w)'
    BY <2>1, <2>3, <2>4 DEF Progress
  <2>6. job[w].pc # "idle"
    BY <2>1
  <2> QED BY ONLY Clean, w \in Worker, <2>2, <2>3, <2>5, <2>6, CleanFrom
<1>5. CASE FindStale(w)
  <2> DEFINE found == (job[w].known \cap entries) \ (job[w].read.lists \cup Used)
  <2>1. /\ job' = [job EXCEPT ![w] = [job[w] EXCEPT !.pc = "delete", !.known = found]]
        /\ job[w].pc = "stale" /\ entries' = entries /\ files' = files
    BY <1>5, FindStaleJob DEF FindStale, At, cached, guide
  <2>2. found \cap job[w].read.lists = {}
    OBVIOUS
  <2> HIDE DEF found
  <2>3. /\ job'[w] = [job[w] EXCEPT !.pc = "delete", !.known = found]
        /\ \A v \in Worker \ {w} : job'[v] = job[v]
    BY <2>1
  <2>4. /\ job'[w].pc = "delete" /\ job'[w].path = job[w].path
        /\ job'[w].mapped = job[w].mapped /\ job'[w].known = found
        /\ job'[w].clean = job[w].clean /\ job'[w].lock = job[w].lock
    BY <1>0, <2>3 DEF Jobs
  <2>5. job[w].clean => /\ job[w].path = "xml" /\ job[w].mapped = {} /\ job[w].read = files["xml"]
                        /\ files["xml"] # Missing /\ files["xml"].lists \subseteq entries
    BY <1>0, <2>1 DEF Progress, Fetching, Reading
  <2>6. job'[w].clean => Progress(w)'
    BY <2>1, <2>2, <2>4, <2>5 DEF Progress
  <2> QED BY ONLY Clean, w \in Worker, <2>1, <2>3, <2>4, <2>6, CleanFrom
<1>6. CASE DeleteStale(w) /\ ~(Fail(w) /\ UNCHANGED <<guide, epg>>)
  <2>1. /\ job' = [job EXCEPT ![w] = [job[w] EXCEPT !.pc = "mapped", !.after = "programs",
                                                    !.known = {}, !.late = {}]]
        /\ job[w].pc = "delete" /\ entries' = entries \ job[w].known /\ files' = files
    BY <1>6, DeleteStaleJob DEF DeleteStale, At, cached
  <2>2. /\ job'[w] = [job[w] EXCEPT !.pc = "mapped", !.after = "programs", !.known = {},
                                    !.late = {}]
        /\ \A v \in Worker \ {w} : job'[v] = job[v]
    BY <2>1
  <2>3. /\ job'[w].pc = "mapped" /\ job'[w].path = job[w].path
        /\ job'[w].mapped = job[w].mapped
        /\ job'[w].clean = job[w].clean /\ job'[w].lock = job[w].lock
    BY <1>0, <2>2 DEF Jobs
  <2>4. job[w].clean => /\ job[w].path = "xml" /\ job[w].mapped = {}
                        /\ files["xml"] # Missing /\ files["xml"].lists \subseteq entries
                        /\ job[w].known \cap files["xml"].lists = {}
    BY <1>0, <2>1 DEF Progress, Fetching, Reading
  <2>5. job'[w].clean => Progress(w)'
    BY <2>1, <2>3, <2>4 DEF Progress
  <2> QED BY ONLY Clean, w \in Worker, <2>1, <2>2, <2>3, <2>5, CleanFrom
<1>7. CASE ReadMapped(w)
  <2>1. job[w].pc = "mapped" /\ entries' = entries /\ files' = files /\ programs' = programs
    BY <1>7 DEF ReadMapped, At, cached, guide
  <2>2. job[w].clean => /\ job[w].path = "xml" /\ job[w].mapped = {}
                        /\ files["xml"] # Missing /\ files["xml"].lists \subseteq entries
    BY <1>0, <2>1 DEF Progress, Fetching, Reading
  <2>3. CASE job' = [job EXCEPT ![w] = [job[w] EXCEPT !.pc = "finish"]] /\ status' = "success"
    <3>1. job'[w] = [job[w] EXCEPT !.pc = "finish"] /\ \A v \in Worker \ {w} : job'[v] = job[v]
      BY <2>3
    <3>2. /\ job'[w].pc = "finish" /\ job'[w].mapped = job[w].mapped
          /\ job'[w].clean = job[w].clean /\ job'[w].lock = job[w].lock
      BY <1>0, <3>1 DEF Jobs
    <3>3. job'[w].clean => Progress(w)'
      BY <2>1, <2>2, <2>3, <3>2 DEF Progress
    <3> QED BY ONLY Clean, w \in Worker, <2>1, <3>1, <3>2, <3>3, CleanFrom
  <2>4. CASE job' = [job EXCEPT ![w] = [job[w] EXCEPT !.pc = "file", !.mapped = Used]]
    <3>1. /\ job'[w] = [job[w] EXCEPT !.pc = "file", !.mapped = Used]
          /\ \A v \in Worker \ {w} : job'[v] = job[v]
      BY <2>4
    <3>2. /\ job'[w].pc = "file" /\ job'[w].path = job[w].path
          /\ job'[w].clean = job[w].clean /\ job'[w].lock = job[w].lock
      BY <1>0, <3>1 DEF Jobs
    <3>3. job'[w].clean => Progress(w)'
      BY <2>1, <2>2, <3>2 DEF Progress
    <3> QED BY ONLY Clean, w \in Worker, <2>1, <3>1, <3>2, <3>3, CleanFrom
  <2> QED BY <1>7, <2>3, <2>4, ReadMappedJob
<1>8. CASE ParsePrograms(w) /\ ~Fail(w)
  <2>1. /\ job' = [job EXCEPT ![w] = [job[w] EXCEPT !.pc = "write", !.read = files[job[w].path]]]
        /\ job[w].pc \in {"programs", "file"} /\ entries' = entries /\ files' = files
    BY <1>8, ParseProgramsJob DEF ParsePrograms, At, cached, guide
  <2>2. /\ job'[w] = [job[w] EXCEPT !.pc = "write", !.read = files[job[w].path]]
        /\ \A v \in Worker \ {w} : job'[v] = job[v]
    BY <2>1
  <2>3. /\ job'[w].pc = "write" /\ job'[w].read = files[job[w].path]
        /\ job'[w].clean = job[w].clean /\ job'[w].lock = job[w].lock
    BY <1>0, <2>2 DEF Jobs
  <2>4. job[w].clean => /\ job[w].path = "xml"
                        /\ files["xml"] # Missing /\ files["xml"].lists \subseteq entries
    BY <1>0, <2>1 DEF Progress, Fetching, Reading
  <2>5. job'[w].clean => Progress(w)'
    BY <2>1, <2>3, <2>4 DEF Progress
  <2> QED BY ONLY Clean, w \in Worker, <2>1, <2>2, <2>3, <2>5, CleanFrom
<1>9. CASE WriteGuide(w) /\ ~(Fail(w) /\ UNCHANGED programs)
  <2>1. /\ job' = [job EXCEPT ![w] = [job[w] EXCEPT !.pc = "finish", !.read = Missing]]
        /\ job[w].pc = "write" /\ entries' = entries /\ files' = files /\ status' = "success"
        /\ programs' = [e \in Entry |-> IF e \in job[w].mapped \cap job[w].read.lists
                                        THEN Whole(w) ELSE {}]
    BY <1>9, WriteGuideJob DEF WriteGuide, At, cached
  <2>2. /\ job'[w] = [job[w] EXCEPT !.pc = "finish", !.read = Missing]
        /\ \A v \in Worker \ {w} : job'[v] = job[v]
    BY <2>1
  <2>3. /\ job'[w].pc = "finish" /\ job'[w].mapped = job[w].mapped
        /\ job'[w].clean = job[w].clean /\ job'[w].lock = job[w].lock
    BY <1>0, <2>2 DEF Jobs
  <2>4. job[w].clean => /\ job[w].read = files["xml"]
                        /\ files["xml"] # Missing /\ files["xml"].lists \subseteq entries
    BY <1>0, <2>1 DEF Progress, Fetching, Reading
  <2>5. job[w].clean =>
           \A e \in Entry : programs'[e] = IF e \in job[w].mapped \cap files["xml"].lists
                                           THEN {<<files["xml"].n, h, w>> : h \in {1, 2}} ELSE {}
    <3>1. job[w].clean => Whole(w) = {<<files["xml"].n, h, w>> : h \in {1, 2}}
      BY <2>4 DEF Whole
    <3> HIDE DEF Whole
    <3> QED BY <2>1, <2>4, <3>1
  <2>6. job'[w].clean => Progress(w)'
    <3> SUFFICES ASSUME job'[w].clean PROVE Progress(w)'
      OBVIOUS
    <3> DEFINE exact == \A e \in Entry :
                  programs'[e] = IF e \in job'[w].mapped \cap files'["xml"].lists
                                 THEN {<<files'["xml"].n, h, w>> : h \in {1, 2}} ELSE {}
    <3>1. exact
      <4>1. job'[w].mapped = job[w].mapped /\ files' = files /\ job[w].clean
        BY <2>1, <2>3
      <4>2. \A e \in Entry : programs'[e] = IF e \in job[w].mapped \cap files["xml"].lists
                                            THEN {<<files["xml"].n, h, w>> : h \in {1, 2}} ELSE {}
        BY ONLY <2>5, <4>1
      <4> QED BY ONLY <4>1, <4>2
    <3>2. /\ job'[w].pc = "finish" /\ status' = "success"
          /\ files'["xml"] # Missing /\ files'["xml"].lists \subseteq entries'
      BY <2>1, <2>3, <2>4
    <3> QED BY <3>1, <3>2 DEF Progress
  <2> QED BY ONLY Clean, w \in Worker, <2>1, <2>2, <2>3, <2>6, CleanFrom
<1>10. StartRefresh(w) \/ job[w].pc # "idle"
  BY DEF ReadEntries, ParseChannels, FindStale, DeleteStale, ReadMapped, ParsePrograms, WriteGuide,
         At
<1> QED BY <1>1, <1>2, <1>3, <1>4, <1>5, <1>6, <1>7, <1>8, <1>9, <1>10

LEMMA ProgressStays ==
    ASSUME NEW w \in Worker, Progress(w), UNCHANGED <<files, entries, status, programs>>,
           job'[w].pc = job[w].pc, job'[w].after = job[w].after, job'[w].path = job[w].path,
           job'[w].read = job[w].read, job'[w].known = job[w].known,
           job'[w].mapped = job[w].mapped
    PROVE  Progress(w)'
<1>1. CASE job[w].pc # "finish"
  BY <1>1 DEF Progress
<1>2. CASE job[w].pc = "finish"
  <2> DEFINE rows == {<<files["xml"].n, h, w>> : h \in {1, 2}}
             exact == \A e \in Entry :
                         programs[e] = IF e \in job[w].mapped \cap files["xml"].lists
                                       THEN rows ELSE {}
  <2>1. /\ status = "success" /\ files["xml"] # Missing /\ files["xml"].lists \subseteq entries
        /\ job[w].mapped # {} => exact
    BY <1>2 DEF Progress, Fetching, Reading
  <2>2. rows' = rows
    OBVIOUS
  <2>3. job'[w].mapped # {} => exact'
    <3> HIDE DEF rows
    <3> QED BY <2>1, <2>2
  <2>4. /\ job'[w].pc = "finish" /\ status' = "success"
        /\ files'["xml"] # Missing /\ files'["xml"].lists \subseteq entries'
    BY <1>2, <2>1
  <2> QED BY <2>3, <2>4 DEF Progress
<1> QED BY <1>1, <1>2

LEMMA OthersClean ==
    ASSUME Typed, Clean,
           \/ \E w \in Worker :
                 \/ End(w) \/ (\E e \in Entry : StartEntry(w, e)) \/ ClearEntry(w) \/ OpenFile(w)
                 \/ InsertBatch(w, "first", 1, "second") \/ InsertBatch(w, "second", 2, "finish")
                 \/ Crash(w)
           \/ \E c \in Channel, e \in Entry \cup {None} : SetEpg(c, e)
           \/ \E l \in Lock : Expire(l)
           \/ UNCHANGED vars
    PROVE  Clean'
<1> USE TypedIs
<1>1. ASSUME NEW w \in Worker, End(w) \/ Crash(w) PROVE Clean'
  <2>1. job'[w] = NoJob /\ \A v \in Worker \ {w} : job'[v] = job[v]
    BY <1>1, EndJob
  <2>2. job[w].pc # "idle" /\ ~job'[w].clean
    BY <1>1, <2>1 DEF End, Crash, At, NoJob
  <2> QED BY ONLY Clean, w \in Worker, <2>1, <2>2, CleanFrom
<1>2. ASSUME job' = job, UNCHANGED <<files, entries, status, programs>> PROVE Clean'
  <2>1. ASSUME NEW u \in Worker, Progress(u) PROVE Progress(u)'
    BY <1>2, <2>1, ProgressStays
  <2> QED BY <1>2, <2>1 DEF Clean, Refreshing, At
<1>3. ASSUME NEW w \in Worker, NEW e \in Entry, StartEntry(w, e) PROVE Clean'
  <2> DEFINE j == [NoJob EXCEPT !.pc = "entry", !.lock = e, !.path = path]
  <2>1. job' = job \/ Disturb(w, j)
    BY <1>3, StartEntryJob
  <2>2. ~j.clean
    BY DEF NoJob
  <2>3. UNCHANGED <<files, entries, status, programs>>
    BY <1>3 DEF StartEntry, cached, guide
  <2> HIDE DEF j
  <2> QED BY <1>2, <2>1, <2>2, <2>3, DisturbClean
\* A task of a single entry was not clean before.
<1>4. ASSUME NEW w \in Worker,
             job[w].pc \in {"entry", "entry file", "entry fetched", "first", "second"},
             job'[w].clean => job[w].clean, \A v \in Worker \ {w} : job'[v] = job[v]
      PROVE  Clean'
  <2>1. ~job[w].clean
    BY <1>4, ProgressIs
  <2> QED BY ONLY Clean, w \in Worker, <1>4, <2>1, CleanFrom
<1>5. ASSUME NEW w \in Worker, ClearEntry(w) PROVE Clean'
  <2>1. job[w].pc = "entry" /\ job[w] \in Jobs
    BY <1>5 DEF ClearEntry, At
  <2>2. CASE Leave(w)
    BY <1>4, <2>1, <2>2, LeaveJob
  <2>3. CASE ~Leave(w)
    <3>1. PICK l \in {"finish", "entry file"} :
             job' = [job EXCEPT ![w] = [job[w] EXCEPT !.pc = l]]
      BY <1>5, <2>3, ClearEntryJob
    <3>2. job'[w] = [job[w] EXCEPT !.pc = l] /\ \A v \in Worker \ {w} : job'[v] = job[v]
      BY <3>1
    <3>3. job'[w].clean = job[w].clean
      BY <2>1, <3>2 DEF Jobs
    <3> QED BY <1>4, <2>1, <3>2, <3>3
  <2> QED BY <2>2, <2>3
<1>6. ASSUME NEW w \in Worker, OpenFile(w) PROVE Clean'
  <2>1. job[w].pc \in {"entry file", "entry fetched"} /\ job[w].pc # "idle" /\ job[w] \in Jobs
    BY <1>6 DEF OpenFile, At
  <2>2. CASE Fail(w)
    BY <2>1, <2>2, FailClean
  <2>3. CASE ~Fail(w)
    <3>1. job' = [job EXCEPT ![w] = [job[w] EXCEPT !.pc = "first", !.read = files[job[w].path]]]
      BY <1>6, <2>3, OpenFileJob
    <3>2. /\ job'[w] = [job[w] EXCEPT !.pc = "first", !.read = files[job[w].path]]
          /\ \A v \in Worker \ {w} : job'[v] = job[v]
      BY <3>1
    <3>3. job'[w].clean = job[w].clean
      BY <2>1, <3>2 DEF Jobs
    <3> QED BY <1>4, <2>1, <3>2, <3>3
  <2> QED BY <2>2, <2>3
<1>7. ASSUME NEW w \in Worker, NEW from \in {"first", "second"}, NEW half,
             NEW next \in {"second", "finish"}, InsertBatch(w, from, half, next)
      PROVE  Clean'
  <2>1. Go(w, next) /\ next \in Labels /\ job[w].pc = from
    BY <1>7 DEF InsertBatch, At, Labels
  <2>2. job'[w].clean = job[w].clean /\ \A v \in Worker \ {w} : job'[v] = job[v]
    BY <2>1, GoJob
  <2> QED BY <1>4, <2>1, <2>2
<1>8. ASSUME NEW c \in Channel, NEW e \in Entry \cup {None}, SetEpg(c, e) PROVE Clean'
  <2>1. UNCHANGED <<files, entries, status, programs>>
    BY <1>8 DEF SetEpg, cached, guide
  <2>2. ASSUME NEW w \in Worker
        PROVE  /\ job'[w].pc = job[w].pc /\ job'[w].after = job[w].after
               /\ job'[w].path = job[w].path /\ job'[w].read = job[w].read
               /\ job'[w].known = job[w].known /\ job'[w].mapped = job[w].mapped
               /\ job'[w].clean = job[w].clean /\ job'[w].lock = job[w].lock
    <3>1. PICK late \in SUBSET Entry : job'[w] = [job[w] EXCEPT !.late = late]
      BY <1>8, SetEpgJob
    <3>2. job[w] \in Jobs
      OBVIOUS
    <3> QED BY <3>1, <3>2 DEF Jobs
  <2> SUFFICES ASSUME NEW u \in Worker, job'[u].clean
               PROVE  /\ Refreshing(u)' /\ \A v \in Worker \ {u} : At(v, "idle")'
                      /\ Progress(u)'
    BY DEF Clean
  <2>3. job[u].lock = "refresh" /\ (\A v \in Worker \ {u} : At(v, "idle")) /\ Progress(u)
    BY <2>2 DEF Clean, Refreshing
  <2>4. Refreshing(u)' /\ \A v \in Worker \ {u} : At(v, "idle")'
    BY <2>2, <2>3 DEF Refreshing, At
  <2>5. Progress(u)'
    BY <2>1, <2>2, <2>3, ProgressStays
  <2> QED BY <2>4, <2>5
<1>9. ASSUME (\E l \in Lock : Expire(l)) \/ UNCHANGED vars PROVE Clean'
  <2>1. job' = job /\ UNCHANGED <<files, entries, status, programs>>
    BY <1>9 DEF Expire, vars, cached, guide
  <2> QED BY <1>2, <2>1
<1> QED BY <1>1, <1>3, <1>5, <1>6, <1>7, <1>8, <1>9

LEMMA CleanStep == Typed /\ Orderly /\ Clean /\ [Next]_vars => Clean'
BY FetchClean, RefetchClean, RefreshClean, OthersClean DEF Next

-----------------------------------------------------------------------------
(* The theorems.                                                           *)

LEMMA InitIInv == Init => IInv
<1> SUFFICES ASSUME Init PROVE IInv
  OBVIOUS
<1>1. version = 1 /\ maps = 0 /\ path = "xml" /\ job = [w \in Worker |-> NoJob]
  BY DEF Init
<1>2. NoJob \in Jobs /\ Missing \in Held
  BY <1>1, NoJobTyped DEF Held
<1>3. hasUrl \in BOOLEAN /\ entries \subseteq Entry /\ epg \in [Channel -> Entry \cup {None}]
  BY DEF Init
<1>4. files \in [{"xml", "tmp"} -> Held]
  <2>1. PICK file \in {Missing, [n |-> 1, lists |-> Entry]} : files = [xml |-> file, tmp |-> Missing]
    BY DEF Init
  <2>2. [n |-> 1, lists |-> Entry] \in Held
    <3>1. 1 \in 1 .. version
      BY <1>1
    <3> QED BY <3>1 DEF Held, Guide
  <2>3. file \in Held
    BY <1>2, <2>1, <2>2
  <2>4. files = [x \in {"xml", "tmp"} |-> IF x = "xml" THEN file ELSE Missing]
    BY <2>1
  <2> QED BY <1>2, <2>3, <2>4
<1>5. locks \in [Lock -> Worker \cup {None, "dead"}] /\ status \in Statuses
  BY DEF Init, Statuses
<1>6. Typed
  BY <1>1, <1>2, <1>3, <1>4, <1>5 DEF Typed
<1>7. \A w \in Worker : job[w].pc = "idle" /\ job[w].path = "xml" /\ ~job[w].clean
  BY <1>1 DEF NoJob
<1>8. Orderly /\ Late /\ Clean
  BY <1>1, <1>7 DEF Orderly, Fits, Fetching, Late, At, Clean
<1>9. Programmes
  BY DEF Init, Programmes
<1> QED BY <1>6, <1>8, <1>9 DEF IInv

LEMMA NextIInv == IInv /\ [Next]_vars => IInv'
BY TypedStep, OrderlyStep, ProgrammesStep, CleanStep DEF IInv

\* What was found out of a clean refresh is what the property asks of it when it is finished.
LEMMA Healed == IInv => GuideHeals
<1> SUFFICES ASSUME IInv PROVE GuideHeals
  OBVIOUS
<1>1. TypeOK
  BY TypesHold DEF IInv
<1>2. ASSUME NEW w \in Worker, At(w, "finish"), job[w].clean
      PROVE  /\ status = "success" /\ files["xml"].lists \subseteq entries
             /\ job[w].mapped # {} => \A e \in Entry :
                   programs[e] = IF e \in job[w].mapped \cap files["xml"].lists
                                 THEN {<<files["xml"].n, h, w>> : h \in {1, 2}} ELSE {}
  <2>1. Progress(w) /\ job[w].pc = "finish"
    BY <1>2, ProgressIs DEF IInv, At
  <2> QED BY <2>1 DEF Progress, Fetching, Reading
<1>3. RefreshHeals
  BY <1>2 DEF RefreshHeals
<1> QED BY <1>1, <1>3 DEF GuideHeals

\* Whatever earlier tasks, overlapping, failed or killed, have left behind, a refresh that runs
\* alone and ends in success has an entry for everything the new guide lists and, for each entry
\* that channels used, exactly the programmes of that guide (refresh_epg_data).
THEOREM RefreshesHeal == Spec => []GuideHeals
<1>1. Init => IInv
  BY InitIInv
<1>2. IInv /\ [Next]_vars => IInv'
  BY NextIInv
<1>3. IInv => GuideHeals
  BY Healed
<1> QED BY <1>1, <1>2, <1>3, PTL DEF Spec

\* No task takes a channel's entry away, or the programmes of an entry in use, except in the
\* races the properties name: a channel that gets an entry which a refresh has already found
\* stale, and the task of the entry itself (parse_channels_only, parse_programs_for_source).
THEOREM GuideIsKept == Spec => GuideKept
<1>1. Init => IInv
  BY InitIInv
<1>2. IInv /\ [Next]_vars => IInv'
  BY NextIInv
<1>3. IInv /\ [Next]_vars => [KeepsEpg /\ KeepsGuide]_vars
  BY GuideStep DEF IInv
<1> QED BY <1>1, <1>2, <1>3, PTL DEF Spec, GuideKept
=============================================================================
