# Verification of Dispatcharr

Dispatcharr shares a household's IPTV subscriptions: it imports M3U, Xtream
Codes and EPG sources, makes channels out of provider streams, relays live
channels and films to its clients, and records.  Several uWSGI workers, each
with many gevent greenlets, and several Celery workers do this at once.  They
agree on who does what through Redis keys, rows of a PostgreSQL database, files,
and task locks that expire.  A provider account allows a few concurrent
connections (`max_streams`): one connection too many gets the account refused,
and one slot that is never given back locks a user out.

This project keeps TLA+ models of the parts where steps of several actors meet
beside the code, model-checks them with TLC, and proves with TLAPS, for every
value of the constants, what it can.  Paths are relative to the repository's
`apps/` unless they start with `core/` or `scripts/`; `ts_proxy/` and
`vod_proxy/` are under `apps/proxy/`.

## 1. Inventory

| component | state | operations | interacts with |
|---|---|---|---|
| connection slots: `channels/models.py` 541-840 | Redis `profile_connections`, `channel_stream`, `stream_profile`; ids in the channel's metadata hash | `get_stream`, `release_stream`, `update_stream_profile` | every component below that connects to a provider |
| request entry: `ts_proxy/views.py`, `url_utils.py` | locals of one greenlet | obtain a stream with retries, redirect, initialize, attach a client | slots, channel start, clients |
| channel start and stop, ownership: `ts_proxy/server.py`, `services/channel_service.py` | lease with a TTL, record, heartbeats; per worker stream managers, buffers, client managers | `initialize_channel`, `stop_channel`, `try_acquire_ownership`, `extend_ownership`, zombie and orphan clean-up | events over pub/sub, slots |
| stream manager: `ts_proxy/stream_manager.py` | current stream, `tried_stream_ids`, health flags, one thread and process | connect, retry, reconnect, switch, health monitor | slots (failover), buffer |
| stream buffer: `ts_proxy/stream_buffer.py` | chunks with a TTL and their index in Redis, a write buffer | `add_chunk`, reset at a switch, reads of ranges, search for the oldest | manager (writer), generators (readers) |
| clients: `ts_proxy/client_manager.py`, `stream_generator.py`; limits of users: `proxy/utils.py` | client set and records with TTLs in Redis, local sets, positions | register, heartbeat, ghosts, stop, limit | buffer, ownership, status pages |
| VOD proxy: `vod_proxy/` | sessions with counts and locks in Redis, the profile's counter | start, reuse and end of streams, delayed clean-up | the same counters as live channels |
| account refresh: `m3u/tasks.py` | rows of streams and groups, automatic channels, status, task locks, a cache file | groups refresh, full refresh, stale rows, channel sync | user edits, crashes |
| VOD catalogue: `vod/tasks.py`, `vod/api_views.py` | titles, relations, categories | scan of an account, details and episodes on demand, merges | scans and views race |
| guide: `epg/tasks.py` | XML file and its temporary copy, entries, programmes | refresh, parse of one entry, clean-up | channel edits map entries |
| recordings: `channels/tasks.py`, `signals.py`, `api_views.py` | a JSON field per recording, files, series and recurring rules | record, recover, cut, stop, extend, delete, evaluate rules | restarts, users |
| channel records: `channels/api_views.py`, `serializers.py` | numbers, fields, profile rows | create, reorder, assign, edit singly and in bulk, match with the guide | requests race |
| plugins: `plugins/loader.py`, `api_views.py` | directories, rows, one registry per worker, a reload token | discover, install, update with roll-back, switch, delete | workers learn of changes late |

Without a module: outputs and tuner emulation, backups, integrations, accounts and
permissions, settings, the older HLS proxy, preview slots, HTTP reader and SSAI
preprocessor, the web interface and packaging.  Section 6 and the components in
`PROJECT.json` say why.

What is hard here: greenlets switch at each Redis command and no lock is held
around them; something fails after a slot was taken; stop paths run twice;
leases, records, chunks and task locks expire while their holders live; tasks
read, work for minutes, and then write what they found; a restart loses tasks but
not rows or files.  `PROJECT.json` lists these hazards, each at its line, with
the properties about it.

What makes each component correct is what section 3 says its run checks.

## 2. Modules and code

Each module has one action per Redis command, transaction, or section under a
lock: exactly where another actor may come in between.  Every definition that
stands for code is mapped to its lines in `PROJECT.json`.  Some modules hold
*slips*, wrong versions of a definition that no action uses; one put in the place of
its original must violate the property it is listed with.

| module | models | state | actions |
|---|---|---|---|
| `ConnectionSlots` | `get_stream`, `release_stream`, `update_stream_profile` and the flows of `stream_ts`, stop, last client and failover around them | the Redis keys, the running managers, `frame[r]`: label, locals and return of each greenlet | one per Redis command; `StartPlay` `StartStop` `StartLeave` `StartSwitch` begin the flows |
| `SlotPool` | what the slots promise: a holder takes a free slot in one step and gives it back | `holds` | implemented by `ConnectionSlots` (`PoolSpec`) |
| `ChannelOwnership` | one channel over several workers | lease, record, flags, client set, heartbeats; managers, buffers, viewers, stray threads; events under way; frames | start, join, leave, stop, events, cleanup cycle, orphans and zombies, failing streams, TTLs, crashes |
| `StreamFailover` | `StreamManager.run`, the health monitor, switches by others, stop | the thread's place, URL, `tried_stream_ids`, retries, flags, the connection | connect, read, retry, reconnect, switch, checks, time-outs |
| `StreamDelivery` | `StreamBuffer`, the stream thread's reads and switches, the generators | chunks, index, partial packets, the connection and what was read from it; per client position and place | connect, read, add, store, stamp, fail over or be switched, stop, flush, expire; fetch, search, jump, wait |
| `ClientPresence` | registration, heartbeats, ghosts, stop keys, user limits | set, records with ages, local sets, generators, heartbeat threads | request, admit, evict, record, member, send, clean up, scan, refresh, prune, tick, crash |
| `VodConnections` | the VOD proxy's sessions | `active`, `counter`, session locks, requests | find, take, reserve, create, open, end, release, delayed clean-up, expiry |
| `AccountRefresh` | `refresh_m3u_groups`, `refresh_single_m3u_account`, `sync_auto_channels` under their task locks | rows, stale flags, groups, channels with numbers, cache, status, locks, each worker's task | each stage of the tasks, crash, expiry, toggle, deactivation |
| `VodImport` | scans of catalogues, details and episodes on demand | titles, relations, categories, tasks | chunks of the catalogue (`Chunk` entries each, a transaction per chunk), clean-up, orphans, merges |
| `EpgRefresh` | the guide's refresh and the parses of single entries | file and copy, entries, programmes, links of channels, locks | download, parse, clean-up, entry tasks, crash, expiry |
| `DvrRecording` | a recording's task, recovery, cutting, posters, views | rows, files by the ticks they cover, tasks | record, concatenate, remove what was joined file by file, remux, recover, stop, extend, destroy, restart |
| `SeriesRules`, `RecurringRules` | evaluation of rules | rules, recordings, lock, tasks | read, pick, check, create; edits, deletions |
| `ChannelOrder`, `ChannelRecords`, `ChannelFields` | the arithmetic of numbers; numbers and profile rows; the other fields | rows, what requests have read | requests that read, and later write |
| `PluginRegistry` | loader and views of plugins | disk, rows, registries, reload token | discover, reload, switch, install, set aside, move in, roll back, delete |

Abstractions that matter.  *Slots*: `Candidates[c]` is the sequence of pairs that
the nested loop of `get_stream` visits; a failure of URL building or
initialization is a choice; the retry clock is the bound `MaxAttempts`.
*Ownership*: the states before ACTIVE are one; a TTL runs out only when nothing
renews it, unless the fault `delay` is on; `Serial` lets one start, leave, stop
or failure report run at a time, which separates what the protocol gets wrong by
itself from what it gets wrong in a race.  *Streams*: `behaves` says what a
provider may do.  *Time* is counted in heartbeats, refreshes, scans or ticks, as each
module's header says.  *Contents* (bytes, texts, logos, XML) are members of
small sets.  *Delivery*: a half packet is known by the stream it came from; a new
connection of the same stream does not reset the buffer, as in the code.
Task locks of living workers do not expire in `AccountRefresh` and `EpgRefresh`: the
renewer is taken to be in time.  Where a definition is coarser than its lines its
comment says so: `InitializeFails` (no dead worker's record), `UpdateUrl` and
`TryNextStream` (streams have ids and addresses of their own), `Cleanup` of
`ClientPresence` (the client manager is there), `DeleteLogos` (two updates in one),
`AddRule` (the list of all rules is one value per series), `BeginDiscovery` (the token
is read once).  What each module leaves out is in the note of its component.

## 3. Runs

Modules that share no state are checked in one run where their instances fit: an
MC module EXTENDS one of them, INSTANCEs the others with variables and constants
of their own, and the variable `part`, chosen in the initial state, says whose
behaviour this is; the variables of the others stay as they are initially.  A run
EXTENDS the module whose theorems state its properties.  Such a run
explores the union of the instances' states, not their product.

| run | instance | what it shows |
|---|---|---|
| `slots` | three channels, one request each, two one-slot profiles, a redirect; or two channels that fail over between accounts | counters are exact, limits hold, a stopped channel holds nothing (`SerialSound`, `SwitchSound`), a running one its slot; the pool of slots is implemented (`PoolSpec`) |
| `races` | two requests that race on one channel for one slot on each of two profiles; or two workers that refresh an account, with one trouble | the limit holds in races (`CountWithinLimit`), no key is built from a missing id (`LocalsPresent`), requests finish; task locks are freed and the account's status comes to rest |
| `streaming` | a stream thread with two streams, each of which fails, stalls, works or may do any of it, and one switch by somebody else; or a recording through a restart, or extended while its stream may be lost | failover never returns to a tried stream and an ended thread holds nothing (`FailoverSound`); stops and switches are heeded, failing streams given up and a working one found; recordings reach a final status |
| `ownership` | two workers: joins and leaves with one start, leave or failure report at a time, all faults but `delay`; or two starts that race, a crash, the orphan check | a worker's resources stay together; one provider, on the owner (`ProvidersOwn`), and nothing left behind (`NothingLeft`); a dead worker's record does not stay (`OrphansCleared`) |
| `own_races` | two starts race with a cleanup cycle; or with leases and heartbeats that run out late (`delay`); or with a stop from the other worker | the lease changes hands only through "no owner" (`NoTakeover`); a worker that runs the channel without the lease settles (`LeaseSettles`) |
| `live_clients` | clients on two workers, one of which may crash | clients are in the set, leave nothing, and keep to the limit (`PresenceSound`); ghosts leave |
| `delivery` | three chunks, two streams, any number of connections, one reader on the owner's or on another worker | chunks of one stream until a request's switch meets bytes in hand, the search finds the oldest (`DeliverySound`), positions move forward over expired chunks only (`ReadsForward`), slow readers catch up |
| `playback` | two requests of one VOD session and one of another for one slot; a recording with a restart and a loss of its stream, with its poster, or, on one worker, with two restarts; three airings; rules of two-day weeks | `VodSound`; rules schedule what they say and keep what they made; stops are heeded and footage kept |
| `imports` | a refresh of two groups and three streams, of which a provider changes its list, by two workers, with one trouble; a catalogue of two accounts in chunks of two | one refresh at a time; rows, channels and numbers are as listed (`RefreshTakesOver`), channels keep their identity (`IdentityKept`); scans leave what was listed and take nothing else |
| `library` | two entries of the guide, with overlapping or killed tasks; three channels with whole and half numbers; two profiles; two channels with edits; a plugin on two workers | an undisturbed refresh heals; links and programmes in use are kept; numbers unique, moves land; edits stand, matching respects links; registries are true and updates roll back |
| `slots_double_release` | two stops of one channel | violated: both decrement for one slot, which CHANGELOG.md:301 and models.py:716 rule out |
| `records_reorder` | channels 2, 2.5 and another | violated: 2.5 moved behind 2 gets the number 2, which api_views.py:1495 and 1536 rule out |

*Bounds.*  A conflict here is between two workers, two requests, or a request and
a task; the third request of `slots` and `playback` is there to notice a lost
count.  `MaxAttempts` 1 and 2 are no and one retry; `MaxSwitches` 1 with two
streams is a failover and a return; `MaxScans`, `MaxRefreshes` and `MaxOps` are
two or three, as a stale row, a second evaluation or a roll-back needs an earlier
one.  A second restart is what may find a recording amid the joining of its files.  In chunks
of two, a film that doubles another comes in the same chunk or in the next.  Three chunks show a search over an expired,
a present and an unwritten one.  Where the code does not count, requests repeat
without bound.  `SYMMETRY` is used only in runs without liveness, for workers and
for requests that play equal roles.

*Fairness.*  Weak fairness of what a scheduler or a loop takes on: a greenlet
under way reaches its next Redis command (gevent, with Redis's time-outs as
failure branches), threads and tasks go on, events arrive, heartbeats and the
periodic tasks run, time passes, and Redis expires keys.  Nothing is assumed of clients,
users, providers, or which branch of a choice is taken.  `CHECK_DEADLOCK` is off
where the system may rest (a channel whose viewers stay, tasks that are done).

*Divergences without a run.*  TLC also finds these, which is why some properties are
stated for serial requests, for instances without the operation, or "as planned":

- Two first requests of one channel both INCR (`channels/models.py:589`); one
  count is left with nobody.
- A starter that found another's slot and fails releases it
  (`ts_proxy/views.py:379`).
- Two channels carry one stream (`models.py:646`): `stream_profile` is overwritten.
- Failover takes the slot without a test (`url_utils.py:346`): two channels on one.
- The owner's last client leaves (`stream_generator.py:572`): the slot is free while
  the connection stays through the shutdown delay.
- A worker that finds another owner has already written its own name into the
  record (`server.py:546`).
- A stop from another worker deletes the lease.  An owner whose event listener
  gets to it only after that no longer takes itself for the owner and drops the
  event (`server.py:210`, 1014): its connection runs on without a lease.
- `release_ownership` compares with a GET and deletes with a later DEL
  (`server.py:455`).
- An XC account that lists nothing has its rows and channels taken for removed
  (`m3u/tasks.py:867`).
- A restart while the files of an earlier one are joined and removed
  (`channels/tasks.py:2266`): recovery writes the last `.ts` over the joined `.mkv`
  (`tasks.py:2701`), and the footage before it is lost.  `RecordingKept` exempts it.
- A request switches a channel's stream while the stream thread has read bytes or is
  connecting (`ts_proxy/stream_manager.py:1566`): they are added after the reset, and a
  chunk mixes two streams.  `DeliverySound` exempts what follows.  Retries and
  reconnections (`stream_manager.py:273`) join bytes of two connections of one stream.
- Entries of a catalogue with one key are reduced to the first only within a chunk
  (`vod/tasks.py:168`, 430): one of a later chunk is imported, too.
- Deleting a recording stops what records on its channel
  (`channels/api_views.py:2809`); deleting a series rule while it is evaluated
  leaves recordings (`api_views.py:3035`).

## 4. Proofs

TLAPS checks every proof below for any sets of workers, requests, clients, streams,
channels and so on, any limits, faults and operations.  The hypotheses are the
assumptions on the constants that each module declares and TLC evaluates on its
instance (the finite ones say that the sets the code counts are finite), and, where
the table says so, what the theorem's own ASSUME adds: the code breaks those
properties otherwise, see *Divergences* above.

| proof module | theorem | property of a run |
|---|---|---|
| `ConnectionSlotsProofs` | `TypeCorrect`, `LocalsArePresent`; `CapacityBound` (without failover); `SerialSlotsSound`, `SlotsImplementPool` (requests of one channel do not overlap, no failover) | `LocalsPresent`, `CountWithinLimit`, `SerialSound`, `PoolSpec` |
| `ChannelOwnershipProofs` | `TypeInvariant`, `ResourcesTogether`, `LeaseNotTaken`; `OwnerProvides`, `NothingStays` (one start, leave or report at a time, no `delay`, no stop by a user) | `TypeOK`, `LocalTogether`, `NoTakeover`, `ProvidersOwn`, `NothingLeft` |
| `StreamFailoverProofs` | `FailoverIsSound`, from `TypeInvariant`, `TriedKnown`, `NothingHeldAtEnd` | `FailoverSound` |
| `StreamDeliveryProofs` | `DeliveryIsSound`, `PositionsGoForward` | `DeliverySound`, `ReadsForward` |
| `ClientPresenceProofs` | `TypeInvariant`, `PresenceIsSound` | `PresenceSound` |
| `VodConnectionsProofs` | `TypeInvariant`, `VodIsSound` | `VodSound` |
| `AccountRefreshProofs` | `OneRefreshAtATime`, `ListedTakenOver`, `IdentityStays` | `OneRefresh`, `RefreshTakesOver`, `IdentityKept` |
| `EpgRefreshProofs` | `RefreshesHeal`, `GuideIsKept` | `GuideHeals`, `GuideKept` |

The arguments:

- *Slots.*  `TypeOK` is not inductive: `streamProfile[None]` would be undefined, so
  typing a step needs that each label has read the ids it uses (`LocalsPresent`).
  `CapacityBound`: the counter minus the increments under roll-back changes only in
  `Reserve`, `Rollback` and `Decrement`, and grows only below the limit.
- *Slots, one request per channel at a time.*  `Coherent` says at every label what the
  keys, the fields of the metadata and the request's locals agree on; a request
  touches only its own channel and streams (`Local`), so that the others stay
  coherent, and each step takes a slot, gives one back, or leaves what is owed and
  counted as it was.  The counter of a limited profile is then the number of channels
  and requests that owe it a slot, so no slot that is counted is ever dropped, and the
  slots held move as `SlotPool` says or stay.
- *Ownership.*  `TypeOK` is inductive; a manager is only made, and a viewer only
  added, where the buffer is; the lease is written by SET NX or deleted.
- *Ownership, one request at a time.*  `SerialInv`: at most one greenlet is in a
  start, leave, report or orphan check (`NobodyElse`); whoever runs the channel is
  alive, has the lease, and the record says so unless it is being stopped (`Runners`);
  and at each label of a request the invariant says who may run, whether the
  worker's thread is ending, and which keys are set (`Coherent`).  A step changes none
  of what these speak of (`Calm`), or ends with nobody running, or is the creation of
  a manager by the worker that has both lease and record.  `NothingLeft` follows as
  nothing but a request deletes the record, and it has stopped the runner first.
- *Failover.*  A URL that is being dialled may no longer be the current one when it
  is opened, and then makes itself current again: it too must be among the tried
  (`Tracked`).  The counters need the place of the thread (`Counted`).
- *Delivery.*  The chunks that exist are the last ones that were stored
  (`LastOnes`): expiry takes the oldest, and what a flush or a reset leaves is numbered
  from there.  The binary search keeps its two ends around the oldest chunk; that it
  ends there goes through sets of naturals, as below (`SearchEnds`).  Until a request's
  switch races with the stream thread, what is read, waits or is sliced is of the stream
  that is set, and during a switch nothing is in hand (`Unraced`); what is already cut
  off may be of the stream before, but of one.  A fetch on the
  owner's worker takes its distance from the index of its own process: what was asked
  for beyond one chunk was stored, and is sent or has expired since.
- *Clients.*  `IInv` has what the three promises rest on: the lock keeps the
  heartbeat's scan and refresh on the clients the worker has (`BeatHolds`), a record
  is never older than a tick (`RecordsKept`), what the statistics task is about to
  remove no worker has or will have (`GhostsGone`), and one request at a time has
  found, or made, room under the limit (`OneAtATime`, `RoomLeft`).
- *VOD.*  The promises are about quiet states; the invariant says between the steps
  whom a session's count includes (`Counted`), which sessions and which requests
  have a slot (`Busy`, `Holding`), and that a session that is new or being taken
  counts nobody else (`Alone`).  The cardinalities move by one with each step.
- *Refresh.*  `IInv` says that a running refresh has the lock and the last timestamp
  (`Holds`), how far the rows are written (`Rewritten`), which groups' channels follow
  (`Followed`) and which have a number of their own (`Numbered`).  Lemmas on the
  operators say that the search for a free number ends on one (`Free`, `TargetFree`)
  and that renumbering gives the existing channels different, unused numbers
  (`Renumbered`).
- *Guide.*  A refresh counts as clean while nothing else is running beside it.
  `Clean` says at each of its labels what it has established so far: which file it
  has read, that every entry the guide lists is there, which programmes are gone
  and which are written; it needs that the others are idle, so any task that begins
  ends it.  For what must hold of tasks that are not clean, `Late` says that an entry
  which is about to be deleted and has come into use since is among those the
  properties name, and `Programmes` that a row belongs to a guide there has been.

*Induction over data.*  The library's induction theorems take an operator as a
parameter, which no installed prover instantiates.  Where induction over numbers was
needed it goes through sets: every set of naturals has a least member
(`Least`, from `WFMin` and `NatLessThanWellFounded`), hence a set that has 0 and is closed under successor up to a bound
has the bound (`UpTo`).  `Renumber` is a recursive function; that the
function its recursion defines exists is proved the same way.

Only model-checked: all liveness (`RequestsFinish`, `RequestsHeeded`,
`StreamsResolved`, `LeaseSettles`, `OrphansCleared`, `OwnerCatchesUp`,
`GhostsLeave`, `Settles`, `RefreshSettles`), which is out of the prover's reach; and
without a proof so far `SwitchSound`, for which the serial argument would have to
speak of two profiles of a request at once, and the properties of the catalogue
(`ScanTakesOver`, `StreamsKept`), recordings and rules (`RecordingKept`,
`RulesSchedule`, `RulesKeepMade`), records (`RecordsRight`, `ReorderPlaces`,
`EditsStand`, `MatchRespects`) and plugins (`PluginsSound`).

## 5. Plan

Done: every module of section 2 with its runs; the proofs of section 4.  Next, in
order: `SwitchSound` of `ConnectionSlots`; `HeedsStop` and `KeepsFootage` of
`DvrRecording`; `EditsStand` of `ChannelFields`.  Not planned as modules: see section 6.

## 6. What is not modelled

Formatting of outputs (M3U, XMLTV, HDHomeRun), parsing of playlists and guides,
backups (calls of `pg_dump`), webhooks, permissions, settings and the web client have no
protocol between actors.  `Stream.get_stream` of previews shares the counters of
`ConnectionSlots` and is left out of it, as are zombie clean-up of slots and the manual
switch endpoint's release.  Redis outages, several channels of one worker in
`ChannelOwnership`, the choice among several profiles in `VodConnections`, and
Schedules Direct in `EpgRefresh` are left out.  Hazards
outside the models: a worker that dies between the INCR and the SET of `get_stream`
(`channels/models.py:645`), or leaves a record that a failing start finds
(`ts_proxy/views.py:257`); a negative VOD counter that is set to 0 over another's INCR
(`multi_worker_connection_manager.py:810`); requests that overwrite each other's series
rules (`channels/api_views.py:3005`).  Each component's note in
`PROJECT.json` names what it leaves out.

## 7. Checking it

    tlc -workers 2 -config slots.cfg MCSlots
    tlc -workers 2 -config imports.cfg MCImports
    tlapm StreamDeliveryProofs.tla
    tlapm EpgRefreshProofs.tla

Each run takes under four minutes on two cores, each proof module about three at
most.
