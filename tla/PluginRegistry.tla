--------------------------- MODULE PluginRegistry ---------------------------
(***************************************************************************)
(* Plugins (apps/plugins/loader.py, api_views.py): directories on a shared *)
(* disk, configuration rows in the database, and in every worker process a *)
(* registry of what its last discovery found and loaded. Workers learn of  *)
(* each other's changes from the time stamp of a file, .reload_token:      *)
(* whoever reloads touches it, and who finds it newer than his last one    *)
(* reloads. Only comparisons with the newest stamp matter, so a stamp is   *)
(* "current", the newest there is, or not.                                 *)
(*                                                                         *)
(* A release stands for the code in a directory; an entry is the directory *)
(* of a plugin or the backup an update makes of it, which a discovery takes*)
(* for one more plugin. Requests of one worker interleave (greenlets).     *)
(***************************************************************************)
EXTENDS Naturals, FiniteSets

CONSTANTS
    Worker, Request, None,
    Plugin, Release, Repo,
    RepoOf,             \* the repository a release is from, or None
    MaxOps, MaxRestarts \* bounds

PluginAssumption ==
    /\ RepoOf \in [Release -> Repo \cup {None}]
    /\ {MaxOps, MaxRestarts} \subseteq Nat

Directory == Plugin \X {"live", "backup"}
Live(p) == <<p, "live">>
Backup(p) == <<p, "backup">>

VARIABLES
    disk,       \* per entry: the release in that directory, or None
    row,        \* per entry: its PluginConfig, or None
    repos,      \* repositories that are configured
    registry,   \* _registry: per worker and entry, "absent", "listed" or the release loaded
    current,    \* workers whose _last_reload_token is the newest
    running,    \* <<worker, plugin>>: an instance has been told to run, and not to stop
    job,
    raced,      \* history: workers whose registry an older discovery may have written,
                \* or that may have seen an update that was rolled back
    mixed,      \* history: plugins that two requests changed at a time
    ops, restarts

vars == <<disk, row, repos, registry, current, running, job, raced, mixed, ops, restarts>>

NoJob ==
    [pc |-> "idle",
     w |-> None,                    \* the worker that serves it
     p |-> None,                    \* the plugin it is about
     rel |-> None, repo |-> None,   \* what it installs
     on |-> FALSE,                  \* what it sets enabled to
     lost |-> FALSE,                \* the row it read has been deleted
     force |-> FALSE, sync |-> FALSE,   \* arguments of discover_plugins
     newest |-> FALSE,              \* the stamp it made is still the newest
     conf |-> {},                   \* entries it read as enabled
     found |-> [e \in Directory |-> "absent"],
     next |-> "idle"]               \* where it goes on after the discovery

At(r, l) == job[r].pc = l
Busy(p) == {r \in Request : job[r].p = p}
Enabled(e) == row[e] # None /\ row[e].on
Loaded(w, p) == registry[w][Live(p)] \in Release
\* A change has been made that no stamp tells of yet.
Untold == \E r \in Request : job[r].pc \in {"swap", "register", "unlist", "begin"}

TypeOK ==
    /\ disk \in [Directory -> Release \cup {None}]
    /\ \A e \in Directory : row[e] = None \/ row[e] \in [on : BOOLEAN, repo : Repo \cup {None}]
    /\ repos \subseteq Repo /\ current \subseteq Worker /\ running \subseteq Worker \X Plugin
    /\ registry \in [Worker -> [Directory -> Release \cup {"absent", "listed"}]]

Init ==
    /\ disk = [e \in Directory |-> None] /\ row = [e \in Directory |-> None] /\ repos = Repo
    /\ registry = [w \in Worker |-> NoJob.found] /\ current = Worker /\ running = {}
    /\ job = [r \in Request |-> NoJob] /\ raced = {} /\ mixed = {} /\ ops = 0 /\ restarts = 0

-----------------------------------------------------------------------------
(* Discovery.                                                              *)

\* Slip: a reload leaves the stamp alone.
BeginQuietly(r) ==
    /\ At(r, "begin") /\ job' = [job EXCEPT ![r].pc = "configs", ![r].newest = job[r].w \notin current]
    /\ UNCHANGED <<disk, row, repos, registry, current, running, raced, mixed, ops, restarts>>

\* A discovery is forced by its caller, or because the stamp is newer than the worker's: it
\* sets a stamp newer than all others. (It reads the stamp before and after: one set in
\* between is newer still, and the directory is read later than all this.)
BeginDiscovery(r) ==
    /\ At(r, "begin")
    /\ IF job[r].force \/ job[r].w \notin current
       THEN /\ job' = [q \in Request |-> IF q = r THEN [job[r] EXCEPT !.pc = "configs", !.newest = TRUE]
                                         ELSE [job[q] EXCEPT !.newest = FALSE]]
            /\ current' = {} /\ raced' = {}
       ELSE job' = [job EXCEPT ![r].pc = "configs"] /\ UNCHANGED <<current, raced>>
    /\ UNCHANGED <<disk, row, repos, registry, running, mixed, ops, restarts>>

ReadConfigs(r) ==
    /\ At(r, "configs")
    /\ job' = [job EXCEPT ![r].pc = "scan", ![r].conf = {e \in Directory : Enabled(e)}]
    /\ UNCHANGED <<disk, row, repos, registry, current, running, raced, mixed, ops, restarts>>

\* Of the directories found, the enabled ones are loaded.
Scan(r) ==
    /\ At(r, "scan")
    /\ job' = [job EXCEPT ![r].pc = "install", ![r].conf = {},
                 ![r].found = [e \in Directory |-> IF disk[e] = None THEN "absent"
                                               ELSE IF e \in job[r].conf THEN disk[e] ELSE "listed"]]
    /\ UNCHANGED <<disk, row, repos, registry, current, running, raced, mixed, ops, restarts>>

\* The registry is replaced; the worker's stamp only ever gets newer.
InstallRegistry(r) ==
    /\ At(r, "install")
    /\ LET w == job[r].w IN
       /\ registry' = [registry EXCEPT ![w] = job[r].found]
       /\ current' = IF job[r].newest THEN current \cup {w} ELSE current
       /\ raced' = IF \E q \in Request \ {r} : job[q].w = w /\ job[q].pc \in {"configs", "scan", "install"}
                   THEN raced \cup {w} ELSE raced
    /\ job' = IF job[r].sync \/ job[r].next # "idle"
              THEN [job EXCEPT ![r].pc = IF job[r].sync THEN "sync" ELSE job[r].next, ![r].newest = FALSE,
                               ![r].found = IF job[r].sync THEN @ ELSE NoJob.found]
              ELSE [job EXCEPT ![r] = NoJob]
    /\ UNCHANGED <<disk, row, repos, running, mixed, ops, restarts>>

\* _sync_db_with_registry: whatever was found gets a row.
SyncRows(r) ==
    /\ At(r, "sync")
    /\ row' = [e \in Directory |-> IF row[e] = None /\ job[r].found[e] # "absent"
                               THEN [on |-> FALSE, repo |-> None] ELSE row[e]]
    /\ job' = [job EXCEPT ![r] = NoJob]
    /\ UNCHANGED <<disk, repos, registry, current, running, raced, mixed, ops, restarts>>

Discovery(r) ==
    BeginDiscovery(r) \/ ReadConfigs(r) \/ Scan(r) \/ InstallRegistry(r) \/ SyncRows(r)

Reload(j) == [j EXCEPT !.pc = "begin", !.force = TRUE, !.sync = TRUE, !.next = "idle",
                       !.rel = None, !.repo = None, !.on = FALSE, !.lost = FALSE]

-----------------------------------------------------------------------------
(* Requests.                                                               *)

\* A free request takes up an operation on worker w and plugin p.
Take(r, w, p) == /\ At(r, "idle") /\ ops < MaxOps /\ ops' = ops + 1
                 /\ mixed' = IF Busy(p) # {} THEN mixed \cup {p} ELSE mixed

\* stop_plugin: the instance this worker has loaded, of an enabled plugin, is told to stop.
Stopped(w, ps) == {<<w, p>> : p \in {q \in ps : Loaded(w, q) /\ Enabled(Live(q))}}

\* The list of plugins is answered from the registry if it is there and its stamp is current.
ListPlugins(r, w) ==
    /\ At(r, "idle")
    /\ w \notin current \/ \A e \in Directory : registry[w][e] = "absent"
    /\ job' = [job EXCEPT ![r].pc = "begin", ![r].w = w]
    /\ UNCHANGED <<disk, row, repos, registry, current, running, raced, mixed, ops, restarts>>

ReloadAll(r, w) ==
    /\ At(r, "idle") /\ ops < MaxOps /\ ops' = ops + 1
    /\ running' = running \ Stopped(w, Plugin)
    /\ job' = [job EXCEPT ![r] = Reload([NoJob EXCEPT !.w = w])]
    /\ UNCHANGED <<disk, row, repos, registry, current, raced, mixed, restarts>>

\* Enabled or disabled: told to stop if it was on, ...
Switch(r, w, p, on) ==
    /\ Take(r, w, p) /\ row[Live(p)] # None
    /\ running' = IF on THEN running ELSE running \ Stopped(w, {p})
    /\ job' = [job EXCEPT ![r] = [NoJob EXCEPT !.pc = "save", !.w = w, !.p = p, !.on = on]]
    /\ UNCHANGED <<disk, row, repos, registry, current, raced, restarts>>

\* ... then saved (in vain if the row has been deleted), then everything is discovered anew.
SaveSwitch(r) ==
    /\ At(r, "save")
    /\ IF job[r].lost
       THEN job' = [job EXCEPT ![r] = NoJob] /\ UNCHANGED row
       ELSE /\ row' = [row EXCEPT ![Live(job[r].p)].on = job[r].on]
            /\ job' = [job EXCEPT ![r] = Reload(@)]
    /\ UNCHANGED <<disk, repos, registry, current, running, raced, mixed, ops, restarts>>

\* An action of an enabled plugin: with no instance here, one discovery, neither forced nor synced.
RunAction(r, w, p) ==
    /\ Take(r, w, p) /\ Enabled(Live(p))
    /\ job' = [job EXCEPT ![r] = [NoJob EXCEPT !.pc = IF Loaded(w, p) THEN "act" ELSE "begin",
                                               !.w = w, !.p = p, !.next = "act"]]
    /\ UNCHANGED <<disk, row, repos, registry, current, running, raced, restarts>>

Act(r) ==
    /\ At(r, "act")
    /\ running' = IF Loaded(job[r].w, job[r].p) /\ Enabled(Live(job[r].p))
                  THEN running \cup {<<job[r].w, job[r].p>>} ELSE running
    /\ job' = [job EXCEPT ![r] = NoJob]
    /\ UNCHANGED <<disk, row, repos, registry, current, raced, mixed, ops, restarts>>

\* Deleted: told to stop, its directory removed, ...
DeleteFiles(r, w, p) ==
    /\ Take(r, w, p) /\ disk[Live(p)] # None
    /\ running' = running \ Stopped(w, {p})
    /\ disk' = [disk EXCEPT ![Live(p)] = None]
    /\ job' = [job EXCEPT ![r] = [NoJob EXCEPT !.pc = "unlist", !.w = w, !.p = p]]
    /\ UNCHANGED <<row, repos, registry, current, raced, restarts>>

\* ... then its row.
DeleteRow(r) ==
    /\ At(r, "unlist")
    /\ row' = [row EXCEPT ![Live(job[r].p)] = None]
    /\ job' = [q \in Request |-> IF q = r THEN Reload(job[r])
                                 ELSE [job[q] EXCEPT !.lost = @ \/ (At(q, "save") /\ job[q].p = job[r].p)]]
    /\ UNCHANGED <<disk, repos, registry, current, running, raced, mixed, ops, restarts>>

-----------------------------------------------------------------------------
(* Installing: an upload (repo is None), or a download from a repository.  *)

\* A new plugin's directory is put in place.
InstallNew(r, w, p, rel, repo) ==
    /\ Take(r, w, p) /\ disk[Live(p)] = None
    /\ disk' = [disk EXCEPT ![Live(p)] = rel]
    /\ job' = [job EXCEPT ![r] = [NoJob EXCEPT !.pc = "register", !.w = w, !.p = p, !.rel = rel, !.repo = repo]]
    /\ UNCHANGED <<row, repos, registry, current, running, raced, restarts>>

\* An existing one (an upload must say so, a download needs its row) is set aside, ...
SetAside(r, w, p, rel, repo) ==
    /\ Take(r, w, p) /\ disk[Live(p)] # None
    /\ repo = None \/ row[Live(p)] # None
    /\ disk' = [disk EXCEPT ![Backup(p)] = disk[Live(p)], ![Live(p)] = None]
    /\ job' = [job EXCEPT ![r] = [NoJob EXCEPT !.pc = "swap", !.w = w, !.p = p, !.rel = rel, !.repo = repo]]
    /\ UNCHANGED <<row, repos, registry, current, running, raced, restarts>>

\* ... the new one moved in (inside a directory somebody else has put there) and the old
\* one removed, ...
MoveIn(r) ==
    /\ At(r, "swap")
    /\ disk' = [disk EXCEPT ![Live(job[r].p)] = IF @ = None THEN job[r].rel ELSE @,
                            ![Backup(job[r].p)] = None]
    /\ job' = [job EXCEPT ![r].pc = "register"]
    /\ UNCHANGED <<row, repos, registry, current, running, raced, mixed, ops, restarts>>

\* ... or, on failure, the old one is put back.
RollBack(r) ==
    /\ At(r, "swap")
    /\ disk' = [disk EXCEPT ![Live(job[r].p)] = disk[Backup(job[r].p)], ![Backup(job[r].p)] = None]
    /\ job' = [job EXCEPT ![r] = NoJob] /\ raced' = Worker
    /\ UNCHANGED <<row, repos, registry, current, running, mixed, ops, restarts>>

\* The row is made or linked anew: an upload belongs to no repository.
Register(r) ==
    /\ At(r, "register")
    /\ IF job[r].repo \in repos \cup {None}
       THEN LET e == Live(job[r].p) IN
            /\ row' = [row EXCEPT ![e] =
                         IF @ = None THEN [on |-> FALSE, repo |-> job[r].repo]
                         ELSE [@ EXCEPT !.repo = job[r].repo]]
            /\ job' = [job EXCEPT ![r] = Reload(@)]
       ELSE UNCHANGED row /\ job' = [job EXCEPT ![r] = NoJob]    \* the repository has gone: an error
    /\ raced' = IF job[r].repo \in repos \cup {None} THEN raced ELSE Worker
    /\ UNCHANGED <<disk, repos, registry, current, running, mixed, ops, restarts>>

\* A repository is removed, or its manifest no longer lists some plugins: their links go.
DropRepo(x) ==
    /\ x \in repos /\ repos' = repos \ {x}
    /\ row' = [e \in Directory |-> IF row[e] # None /\ row[e].repo = x THEN [row[e] EXCEPT !.repo = None] ELSE row[e]]
    /\ UNCHANGED <<disk, registry, current, running, job, raced, mixed, ops, restarts>>

Unmanage(x, p) ==
    /\ x \in repos /\ row[Live(p)] # None /\ row[Live(p)].repo = x
    /\ row' = [row EXCEPT ![Live(p)].repo = None]
    /\ UNCHANGED <<disk, repos, registry, current, running, job, raced, mixed, ops, restarts>>

-----------------------------------------------------------------------------
\* A worker restarts: its requests are gone, and it discovers before it serves any.
Restart(r, w) ==
    /\ restarts < MaxRestarts /\ restarts' = restarts + 1
    /\ At(r, "idle") \/ job[r].w = w
    /\ job' = [q \in Request |-> IF q = r THEN [NoJob EXCEPT !.pc = "begin", !.w = w]
                                 ELSE IF job[q].w = w THEN NoJob ELSE job[q]]
    /\ registry' = [registry EXCEPT ![w] = NoJob.found]
    /\ current' = current \ {w} /\ running' = running \ ({w} \X Plugin)
    /\ mixed' = mixed \cup (Plugin \cap {job[q].p : q \in {s \in Request : job[s].w = w}})
    /\ UNCHANGED <<disk, row, repos, raced, ops>>

Install(r, w, p) ==
    \E rel \in Release : InstallNew(r, w, p, rel, RepoOf[rel]) \/ SetAside(r, w, p, rel, RepoOf[rel])

Next ==
    \/ \E r \in Request :
          \/ Discovery(r) \/ SaveSwitch(r) \/ Act(r) \/ DeleteRow(r)
          \/ MoveIn(r) \/ RollBack(r) \/ Register(r)
          \/ \E w \in Worker :
                \/ ListPlugins(r, w) \/ ReloadAll(r, w) \/ Restart(r, w)
                \/ \E p \in Plugin : \/ \E on \in BOOLEAN : Switch(r, w, p, on)
                                     \/ RunAction(r, w, p) \/ DeleteFiles(r, w, p) \/ Install(r, w, p)
    \/ \E x \in Repo : DropRepo(x) \/ \E p \in Plugin : Unmanage(x, p)

Spec == Init /\ [][Next]_vars

-----------------------------------------------------------------------------
(* Properties.                                                             *)

Expected(e) == IF disk[e] = None THEN "absent" ELSE IF Enabled(e) THEN disk[e] ELSE "listed"

\* A worker that answers from its registry, its stamp being the newest (loader.py:75), answers
\* what the disk and the rows say: nothing disabled, deleted or replaced stays loaded. Excepted
\* are workers whose registry an older discovery of their own may have overwritten.
CacheTrue ==
    \A w \in current \ raced : Untold \/ \A e \in Directory : registry[w][e] = Expected(e)

\* A row linked to a repository (api_views.py:395, _unmanage_dropped_slugs) is of a plugin
\* whose code is from there, unless two requests changed the plugin at a time.
LinkTrue ==
    \A p \in Plugin \ mixed :
        LET e == Live(p) IN
        (Busy(p) = {} /\ row[e] # None /\ row[e].repo # None)
            => disk[e] # None /\ RepoOf[disk[e]] = row[e].repo

\* An update that fails (api_views.py:272) leaves the old plugin, and no update leaves a backup.
UpdateKeeps ==
    \A p \in Plugin \ mixed :
        /\ (\E r \in Busy(p) : At(r, "register")) => disk[Live(p)] # None
        /\ Busy(p) = {} => disk[Backup(p)] = None
=============================================================================
