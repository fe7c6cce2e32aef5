--------------------------- MODULE AccountRefresh ---------------------------
(***************************************************************************)
(* Refreshing an M3U or Xtream Codes account (apps/m3u/tasks.py): workers  *)
(* run the full refresh and the refresh of the groups under their task     *)
(* locks (core/utils.py), which a renewer keeps while the worker lives.    *)
(* The rows of the account's streams and groups are brought up to date     *)
(* with what the provider lists, rows not seen for a while are removed,    *)
(* and the automatic channels of the synchronised groups follow.           *)
(*                                                                         *)
(* Time is counted in full refreshes: last_seen and stale_stream_days are  *)
(* numbers of refreshes.                                                   *)
(***************************************************************************)
EXTENDS Integers, FiniteSets, FiniteSetsExt

CONSTANTS
    Worker, None,
    Stream,         \* what a provider may list, by its hash; the order is the row id's
    Group, GroupOf,
    Listings,       \* what the provider may list at a time
    Chno,           \* the channel number a stream's entry carries, 0 for none
    Manual,         \* numbers of the channels the user made
    Retention,      \* stale_stream_days
    Channel,        \* the identities (UUID) of automatic channels, a bound on their number
    Accounts,       \* type, numbering mode of the groups, auto_enable_new_groups_live
    Troubles,       \* what may go wrong, once in a behaviour; see below
    MaxScans        \* bound: full refreshes in a behaviour

\* "outage": an XC provider lists no streams, or none that can be read; "batch":
\* the rows of a batch cannot be written; "leak": the groups cannot be written;
\* "crash": a worker is killed; "deactivate": the account is switched off;
\* "toggle": a group is switched on or off, which is nothing wrong
Trouble == {"outage", "batch", "leak", "crash", "deactivate", "toggle"}
Lock == {"refresh", "groups"}
Busy == {"fetching", "parsing"}

RefreshAssumption ==
    /\ Stream \subseteq Nat \ {0} /\ Channel \subseteq Nat \ {0}
    /\ GroupOf \in [Stream -> Group] /\ Chno \in [Stream -> Nat]
    /\ Listings \subseteq SUBSET Stream /\ Manual \subseteq Nat /\ IsFiniteSet(Manual)
    /\ IsFiniteSet(Stream) /\ Retention \in Nat /\ MaxScans \in Nat /\ Troubles \subseteq Trouble
    /\ None \notin Worker \cup {"dead"} /\ "dead" \notin Worker
    /\ Accounts \subseteq [kind : {"STD", "XC"}, autoEnable : BOOLEAN,
                           numbering : {"fixed", "next_available", "provider"}]
ASSUME RefreshAssumption

VARIABLES
    given,      \* the account's entry of Accounts
    seen,       \* per stream, last_seen of its row, 0 without a row
    stale,      \* streams with is_stale
    groupSeen,  \* per group, last_seen of its relation to the account, 0 without one
    staleGroup, \* groups whose relation has is_stale
    enabled,    \* groups whose relation is enabled
    carries,    \* per channel, its stream; 0: no such channel, -1: its stream is deleted
    number,     \* per channel, channel_number, 0 without the channel
    cache,      \* {account}.json: the streams of the last groups refresh, or None
    status,     \* of the account
    locks,      \* per task lock, its holder, or None, or "dead" when the holder was killed
    job,        \* per worker, where its task is, and its locals; see NoJob
    scans,      \* full refreshes so far
    trouble     \* what may still go wrong, or "none", or "over", or "leaked"

rows == <<seen, stale, groupSeen, staleGroup, enabled>>
channels == <<carries, number>>
vars == <<given, rows, channels, cache, status, locks, job, scans, trouble>>

Absent == 0
Gone == -1

NoJob ==
    [pc |-> "idle",
     full |-> FALSE,    \* the task is the full refresh
     start |-> 0,       \* refresh_start_timestamp
     data |-> {},       \* extinf_data: what the provider listed
     picked |-> {},     \* existing_groups, less those a later query finds disabled
     left |-> {},       \* auto_sync_groups still to synchronise
     group |-> None,    \* the one being synchronised
     todo |-> {},       \* streams still to write, later to give a channel
     used |-> {},       \* used_numbers
     next |-> 0]        \* current_channel_number

TypeOK ==
    /\ given \in Accounts
    /\ stale \subseteq Stream /\ staleGroup \cup enabled \subseteq Group
    /\ seen \in [Stream -> 0 .. MaxScans + 1] /\ groupSeen \in [Group -> 0 .. MaxScans + 1]
    /\ carries \in [Channel -> Stream \cup {Absent, Gone}] /\ number \in [Channel -> Nat]
    /\ cache = None \/ cache \subseteq Stream
    /\ status \in Busy \cup {"idle", "error", "success", "pending_setup", "disabled"}
    /\ locks \in [Lock -> Worker \cup {None, "dead"}]
    /\ scans \in 1 .. MaxScans + 1 /\ trouble \in Trouble \cup {"none", "over", "leaked"}

-----------------------------------------------------------------------------
At(w, l) == job[w].pc = l
Go(w, l) == job' = [job EXCEPT ![w].pc = l]
Forget(w) == job' = [job EXCEPT ![w] = NoJob]
\* The part of the groups ends: the full refresh goes on at l.
EndGroups(w, l) == IF job[w].full THEN Go(w, l) ELSE Forget(w)
GoesWrong(t) == trouble = t /\ trouble' = "over"

Rows == {k \in Stream : seen[k] # 0}
GroupChannels(g) == {c \in Channel : carries[c] \in {k \in Stream : GroupOf[k] = g}}
ChannelsOf(k) == {c \in Channel : carries[c] = k}
Current(w, g) == {k \in Rows : GroupOf[k] = g /\ seen[k] >= job[w].start}
Running(w) == job[w].full /\ ~At(w, "idle")

Acquire(w, l) == locks[l] = None /\ locks' = [locks EXCEPT ![l] = w]
Release(l) == locks' = [locks EXCEPT ![l] = None]

Delete(dead) ==
    /\ carries' = [c \in Channel |-> IF c \in dead THEN Absent ELSE carries[c]]
    /\ number' = [c \in Channel |-> IF c \in dead THEN 0 ELSE number[c]]

\* The least number, from a given one on, that is not used.
LeastFree(from, taken) ==
    CHOOSE n \in from .. from + Cardinality(taken) :
        n \notin taken /\ \A m \in from .. n - 1 : m \in taken

\* Slip: its own number without a look at who has it.
TargetNumberGiven(k, from, taken) ==
    CASE given.numbering = "provider" /\ Chno[k] # 0 -> Chno[k]
      [] given.numbering = "fixed" -> LeastFree(from, taken)
      [] OTHER -> LeastFree(1, taken)

\* The number of a stream's channel: its own in "provider" mode, if it is free.
TargetNumber(k, from, taken) ==
    CASE given.numbering = "provider" /\ Chno[k] \notin taken \cup {0} -> Chno[k]
      [] given.numbering = "fixed" -> LeastFree(from, taken)
      [] OTHER -> LeastFree(1, taken)

Init ==
    /\ given \in Accounts
    /\ seen = [k \in Stream |-> 0] /\ stale = {}
    /\ groupSeen = [g \in Group |-> 0] /\ staleGroup = {} /\ enabled = {}
    /\ carries = [c \in Channel |-> Absent] /\ number = [c \in Channel |-> 0]
    /\ cache = None /\ status = "idle" /\ locks = [l \in Lock |-> None]
    /\ job = [w \in Worker |-> NoJob]
    /\ scans = 1
    /\ trouble \in Troubles \cup {"none"}

-----------------------------------------------------------------------------
(* Slips: each breaks one of the properties below in place of its original.*)

\* The renewer is not started: the lock of a living worker expires.
ExpireHeld(l) ==
    /\ locks[l] # None /\ Release(l)
    /\ UNCHANGED <<given, rows, channels, cache, status, job, scans, trouble>>

\* The lock has no expiry.
ExpireNever(l) == FALSE /\ UNCHANGED vars

\* Only the first channel of the group is taken for processed.
KeepFirst(w) ==
    LET g == job[w].group IN {c \in GroupChannels(g) : carries[c] # Min(Current(w, g))}

-----------------------------------------------------------------------------
(* The refresh of the groups, on its own or as a part of the full one.     *)

\* The view or the signal asks for the groups.
AskForGroups(w) ==
    /\ At(w, "idle") /\ locks["groups"] # w
    /\ Go(w, "groups")
    /\ UNCHANGED <<given, rows, channels, cache, status, locks, scans, trouble>>

\* refresh_m3u_groups; the full refresh gives up when it is refused the lock.
LockGroups(w) ==
    /\ At(w, "groups")
    /\ \/ Acquire(w, "groups") /\ Go(w, "fetch")
       \/ locks["groups"] # None /\ EndGroups(w, "release") /\ UNCHANGED locks
    /\ UNCHANGED <<given, rows, channels, cache, status, scans, trouble>>

\* fetch_m3u_lines downloads the playlist of a standard account, which it marks.
FetchLines(w) ==
    /\ At(w, "fetch") /\ given.kind = "STD" /\ status # "disabled"
    /\ \E listed \in Listings :
          /\ job' = [job EXCEPT ![w].pc = "process", ![w].data = listed]
          /\ cache' = listed
    /\ status' = "fetching"
    /\ UNCHANGED <<given, rows, channels, locks, scans, trouble>>

\* An XC account has its categories listed, its streams later.
FetchCategories(w) ==
    /\ At(w, "fetch") /\ given.kind = "XC" /\ status # "disabled"
    /\ Go(w, "process")
    /\ UNCHANGED <<given, rows, channels, cache, status, locks, scans, trouble>>

\* The account is off, or the download fails, or holds no playlist.
FetchFails(w) ==
    /\ At(w, "fetch")
    /\ status' = IF status = "disabled" THEN status ELSE "error"
    /\ Release("groups") /\ EndGroups(w, "release")
    /\ UNCHANGED <<given, rows, channels, cache, scans, trouble>>

ProcessGroups(w) ==
    LET now == IF job[w].full THEN job[w].start ELSE scans
        listed == IF given.kind = "XC" THEN Group ELSE {GroupOf[k] : k \in job[w].data} IN
    /\ At(w, "process")
    /\ enabled' = enabled \cup {g \in listed : groupSeen[g] = 0 /\ given.autoEnable}
    /\ groupSeen' = [g \in Group |-> IF g \in listed THEN now ELSE groupSeen[g]]
    /\ staleGroup' = staleGroup \ listed
    /\ Release("groups") /\ Go(w, "processed")
    /\ UNCHANGED <<given, seen, stale, channels, cache, status, scans, trouble>>

\* It raises: nothing releases the lock or stops its renewer.
ProcessGroupsRaises(w) ==
    /\ At(w, "process") /\ trouble = "leak" /\ trouble' = "leaked"
    /\ status' = IF job[w].full THEN "error" ELSE status
    /\ EndGroups(w, "release")
    /\ UNCHANGED <<given, rows, channels, cache, locks, scans>>

GroupsDone(w) ==
    /\ At(w, "processed") /\ ~job[w].full
    /\ status' = "pending_setup" /\ Forget(w)
    /\ UNCHANGED <<given, rows, channels, cache, locks, scans, trouble>>

-----------------------------------------------------------------------------
(* The full refresh.                                                       *)

\* refresh_single_m3u_account.
StartRefresh(w) ==
    /\ At(w, "idle") /\ scans <= MaxScans /\ status # "disabled"
    /\ Acquire(w, "refresh")
    /\ scans' = scans + 1 /\ status' = "fetching"
    /\ job' = [job EXCEPT ![w] = [NoJob EXCEPT !.pc = "cache", !.full = TRUE, !.start = scans + 1]]
    /\ UNCHANGED <<given, rows, channels, cache, trouble>>

\* What the refresh of the groups kept is used instead of a download.
ReadCache(w) ==
    /\ At(w, "cache")
    /\ IF cache \in {None, {}} THEN Go(w, "groups")
       ELSE job' = [job EXCEPT ![w].pc = "parse", ![w].data = cache]
    /\ UNCHANGED <<given, rows, channels, cache, status, locks, scans, trouble>>

\* A standard account needs entries, an XC account's come later.
CheckListed(w) ==
    /\ At(w, "processed") /\ job[w].full
    /\ IF given.kind = "STD" /\ job[w].data = {}
       THEN status' = "error" /\ Go(w, "release")
       ELSE Go(w, "parse") /\ UNCHANGED status
    /\ UNCHANGED <<given, rows, channels, cache, locks, scans, trouble>>

\* The enabled groups are read and the entries split into batches.
Parse(w, entries) ==
    /\ At(w, "parse")
    /\ status' = "parsing"
    /\ job' = [job EXCEPT ![w].pc = "batches", ![w].picked = enabled,
                          ![w].data = entries, ![w].todo = entries]
    /\ UNCHANGED <<given, rows, channels, cache, locks, scans>>

ParseEntries(w) == given.kind = "STD" /\ Parse(w, job[w].data) /\ UNCHANGED trouble

\* collect_xc_streams: the streams in enabled groups that the provider lists, or
\* nothing when it cannot be read.
CollectXcStreams(w) ==
    /\ given.kind = "XC"
    /\ \/ /\ \E listed \in Listings : Parse(w, {k \in listed : GroupOf[k] \in enabled})
          /\ UNCHANGED trouble
       \/ Parse(w, {}) /\ GoesWrong("outage")

SeenAt(w, k) == job[w].start

\* process_m3u_batch_direct: a row is made or seen again; batches end in any order.
WriteBatch(w) ==
    \E k \in job[w].todo :
        /\ At(w, "batches")
        /\ \/ /\ GroupOf[k] \in job[w].picked /\ UNCHANGED trouble
              /\ seen' = [seen EXCEPT ![k] = SeenAt(w, k)] /\ stale' = stale \ {k}
           \/ GroupOf[k] \notin job[w].picked /\ UNCHANGED <<seen, stale, trouble>>
           \/ GoesWrong("batch") /\ UNCHANGED <<seen, stale>>
        /\ job' = [job EXCEPT ![w].todo = @ \ {k}]
        /\ UNCHANGED <<given, groupSeen, staleGroup, enabled, channels, cache, status, locks,
                       scans>>

MarkStale(w) ==
    /\ At(w, "batches") /\ job[w].todo = {}
    /\ stale' = stale \cup {k \in Rows : seen[k] < job[w].start}
    /\ staleGroup' = staleGroup \cup {g \in Group : groupSeen[g] \in 1 .. job[w].start - 1}
    /\ Go(w, "streams")
    /\ UNCHANGED <<given, seen, groupSeen, enabled, channels, cache, status, locks, scans,
                   trouble>>

\* cleanup_streams: rows of groups that are off, and rows not seen for long.
CleanupStreams(w) ==
    LET dead == {k \in Rows : \/ GroupOf[k] \notin enabled
                              \/ seen[k] < job[w].start - Retention} IN
    /\ At(w, "streams") /\ status # "disabled"
    /\ seen' = [k \in Stream |-> IF k \in dead THEN 0 ELSE seen[k]] /\ stale' = stale \ dead
    /\ carries' = [c \in Channel |-> IF carries[c] \in dead THEN Gone ELSE carries[c]]
    /\ job' = [job EXCEPT ![w].pc = "relations", ![w].picked = @ \cap enabled]
    /\ UNCHANGED <<given, groupSeen, staleGroup, enabled, number, cache, status, locks,
                   scans, trouble>>

\* The account is not found, being off: the refresh fails.
CleanupFails(w) ==
    /\ At(w, "streams") /\ status = "disabled"
    /\ status' = "error" /\ cache' = None /\ Go(w, "release")
    /\ UNCHANGED <<given, rows, channels, locks, scans, trouble>>

\* cleanup_stale_group_relationships.
CleanupGroups(w) ==
    LET dead == {g \in Group : groupSeen[g] \in 1 .. job[w].start - Retention - 1} IN
    /\ At(w, "relations")
    /\ groupSeen' = [g \in Group |-> IF g \in dead THEN 0 ELSE groupSeen[g]]
    /\ staleGroup' = staleGroup \ dead /\ enabled' = enabled \ dead
    /\ Go(w, "sync")
    /\ UNCHANGED <<given, seen, stale, channels, cache, status, locks, scans, trouble>>

-----------------------------------------------------------------------------
(* sync_auto_channels, for an account whose groups all synchronise.        *)

StartSync(w) ==
    /\ At(w, "sync")
    /\ job' = [job EXCEPT ![w].pc = "groups_left", ![w].used = Manual, ![w].left = enabled,
                          ![w].picked = @ \cap enabled]
    /\ UNCHANGED <<given, rows, channels, cache, status, locks, scans, trouble>>

\* The channels that exist are numbered again, in the order of their streams.
Renumber(w, existing) ==
    LET done[n \in 0 .. Cardinality(existing)] ==
            IF n = 0 THEN [left |-> existing, from |-> 1, used |-> job[w].used, numbers |-> number]
            ELSE LET acc == done[n - 1]
                     k == Min(acc.left)
                     target == TargetNumber(k, acc.from, acc.used) IN
                 [left |-> acc.left \ {k}, from |-> acc.from + 1, used |-> acc.used \cup {target},
                  numbers |-> [c \in Channel |-> IF carries[c] = k THEN target
                                                ELSE acc.numbers[c]]]
    IN done[Cardinality(existing)]

\* A group's streams of this refresh; without any, its channels are deleted.
SyncGroup(w) ==
    \E g \in job[w].left :
        LET existing == Current(w, g) \cap {carries[c] : c \in Channel}
            renumbered == Renumber(w, existing) IN
        /\ At(w, "groups_left")
        /\ IF Current(w, g) = {}
           THEN Delete(GroupChannels(g)) /\ job' = [job EXCEPT ![w].left = @ \ {g}]
           ELSE /\ number' = renumbered.numbers /\ UNCHANGED carries
                /\ job' = [job EXCEPT ![w].pc = "streams_left", ![w].left = @ \ {g},
                                      ![w].group = g, ![w].next = 1,
                                      ![w].used = renumbered.used, ![w].todo = Current(w, g)]
        /\ UNCHANGED <<given, rows, cache, status, locks, scans, trouble>>

\* A channel that exists has its number already; the rest is brought up to date.
UpdateChannel(w, k) ==
    /\ ChannelsOf(k) # {}
    /\ job' = [job EXCEPT ![w].todo = @ \ {k}, ![w].next = @ + 1]
    /\ UNCHANGED <<carries, number>>

CreateChannel(w, k) ==
    LET n == TargetNumber(k, job[w].next, job[w].used)
        fresh == Min(ChannelsOf(Absent)) IN
    /\ ChannelsOf(k) = {} /\ ChannelsOf(Absent) # {}
    /\ carries' = [carries EXCEPT ![fresh] = k]
    /\ number' = [number EXCEPT ![fresh] = n]
    /\ job' = [job EXCEPT ![w].todo = @ \ {k}, ![w].next = @ + 1, ![w].used = @ \cup {n}]

\* The streams are taken in their order.
SyncStream(w) ==
    /\ At(w, "streams_left") /\ job[w].todo # {}
    /\ LET k == Min(job[w].todo) IN UpdateChannel(w, k) \/ CreateChannel(w, k)
    /\ UNCHANGED <<given, rows, cache, status, locks, scans, trouble>>

\* The channels of the group's other streams.
Unprocessed(w) ==
    LET g == job[w].group IN {c \in GroupChannels(g) : carries[c] \notin Current(w, g)}

SyncDrop(w) ==
    /\ At(w, "streams_left") /\ job[w].todo = {}
    /\ Delete(Unprocessed(w))
    /\ Go(w, "groups_left")
    /\ UNCHANGED <<given, rows, cache, status, locks, scans, trouble>>

\* Channels that are left without a stream.
SyncOrphans(w) ==
    /\ At(w, "groups_left") /\ job[w].left = {}
    /\ Delete(ChannelsOf(Gone))
    /\ Go(w, "finish")
    /\ UNCHANGED <<given, rows, cache, status, locks, scans, trouble>>

Finish(w) ==
    /\ At(w, "finish")
    /\ status' = "success" /\ cache' = None /\ Go(w, "release")
    /\ UNCHANGED <<given, rows, channels, locks, scans, trouble>>

\* The finally clause of the task; the lock is deleted whoever holds it.
EndRefresh(w) ==
    /\ At(w, "release")
    /\ Release("refresh") /\ Forget(w)
    /\ UNCHANGED <<given, rows, channels, cache, status, scans, trouble>>

-----------------------------------------------------------------------------
(* Killed workers, and what the user does.                                 *)

Crash(w) ==
    /\ \/ ~At(w, "idle") /\ GoesWrong("crash")
       \/ At(w, "idle") /\ trouble = "leaked" /\ locks["groups"] = w /\ UNCHANGED trouble
    /\ locks' = [l \in Lock |-> IF locks[l] = w THEN "dead" ELSE locks[l]]
    /\ Forget(w)
    /\ UNCHANGED <<given, rows, channels, cache, status, scans>>

\* A lock that nobody renews expires. (The renewer of a living worker is taken to be in
\* time: it renews every two minutes what is set for five, and goes on when Redis fails.)
Expire(l) ==
    /\ locks[l] = "dead" /\ Release(l)
    /\ UNCHANGED <<given, rows, channels, cache, status, job, scans, trouble>>

\* update_group_settings, once.
ToggleGroup(g) ==
    /\ groupSeen[g] # 0 /\ trouble = "toggle" /\ trouble' = "none"
    /\ enabled' = IF g \in enabled THEN enabled \ {g} ELSE enabled \cup {g}
    /\ UNCHANGED <<given, seen, stale, groupSeen, staleGroup, channels, cache, status, locks,
                   job, scans>>

Deactivate ==
    /\ status # "disabled" /\ GoesWrong("deactivate")
    /\ status' = "disabled"
    /\ UNCHANGED <<given, rows, channels, cache, locks, job, scans>>

GroupsTask(w) ==
    \/ LockGroups(w) \/ FetchLines(w) \/ FetchCategories(w) \/ FetchFails(w)
    \/ ProcessGroups(w) \/ ProcessGroupsRaises(w) \/ GroupsDone(w)
RefreshTask(w) ==
    \/ ReadCache(w) \/ CheckListed(w) \/ ParseEntries(w) \/ CollectXcStreams(w)
    \/ WriteBatch(w) \/ MarkStale(w) \/ CleanupStreams(w) \/ CleanupFails(w) \/ CleanupGroups(w)
    \/ StartSync(w) \/ SyncGroup(w) \/ SyncStream(w) \/ SyncDrop(w) \/ SyncOrphans(w)
    \/ Finish(w) \/ EndRefresh(w)

Next ==
    \/ \E w \in Worker : \/ AskForGroups(w) \/ StartRefresh(w) \/ GroupsTask(w)
                         \/ RefreshTask(w) \/ Crash(w)
    \/ \E l \in Lock : Expire(l)
    \/ \E g \in Group : ToggleGroup(g)
    \/ Deactivate

\* Workers carry their tasks on, and Redis expires keys.
Fairness ==
    /\ \A w \in Worker : WF_vars(GroupsTask(w) \/ RefreshTask(w))
    /\ \A l \in Lock : WF_vars(Expire(l))

Spec == Init /\ [][Next]_vars /\ Fairness

-----------------------------------------------------------------------------
(* Properties.                                                             *)

AsPlanned == trouble \notin {"over", "leaked"}

\* The account is refreshed by one worker at a time, through crashes and the
\* expiry of their locks.
OneRefresh == \A v, w \in Worker : Running(v) /\ Running(w) => v = w

\* When the channels are about to be synchronised, the streams that were listed
\* have fresh rows, and other rows are stale and not older than the retention.
CatalogueFresh ==
    AsPlanned =>
        \A w \in Worker : At(w, "sync") =>
            \A k \in Stream : GroupOf[k] \in job[w].picked =>
                IF k \in job[w].data
                THEN seen[k] = job[w].start /\ k \notin stale
                ELSE seen[k] # 0 => k \in stale /\ seen[k] >= job[w].start - Retention

\* A refresh leaves one channel for each stream that was listed in a
\* synchronised group, and no other channel in the group or without a stream.
ChannelsFollow ==
    AsPlanned =>
        \A w \in Worker : At(w, "finish") =>
            /\ ChannelsOf(Gone) = {}
            /\ \A k \in Stream : GroupOf[k] \in job[w].picked =>
                   Cardinality(ChannelsOf(k)) = IF k \in job[w].data THEN 1 ELSE 0

\* It gives no two channels of the synchronised groups one number, and none the
\* number of a channel that the user made.
NumbersUnique ==
    \A w \in Worker : At(w, "finish") =>
        LET mine == {c \in Channel : carries[c] \in {k \in Stream : GroupOf[k] \in job[w].picked}} IN
        \A c \in mine : number[c] \notin Manual /\ \A d \in mine \ {c} : number[d] # number[c]

\* The account's rows and the channels are what was listed, when a refresh has got there.
RefreshTakesOver == CatalogueFresh /\ ChannelsFollow /\ NumbersUnique

\* A channel keeps its identity while its group is on and the refreshes list
\* its stream.
KeepsIdentity ==
    \A c \in Channel : carries[c] \in Stream /\ carries'[c] # carries[c] =>
        \/ ~AsPlanned
        \/ GroupOf[carries[c]] \notin enabled
        \/ \E w \in Worker : Running(w) /\ (carries[c] \notin job[w].data
                                            \/ GroupOf[carries[c]] \notin job[w].picked)
IdentityKept == [][KeepsIdentity]_vars

\* A task lock that is held is given up or expires, if no task leaks it.
LocksFreed == \A l \in Lock : locks[l] # None ~> (locks[l] = None \/ trouble = "leaked")

\* The account does not stay at "fetching" or "parsing": a refresh that gives up
\* its place to a refresh of the groups has the latter settle the status.
StatusSettles == status \in Busy ~> (status \notin Busy \/ ~AsPlanned)
=============================================================================
