----------------------------- MODULE VodImport -----------------------------
(***************************************************************************)
(* Importing the films and series of Xtream Codes accounts (apps/vod):     *)
(* the scan of an account, which runs under no lock, writes what the       *)
(* provider lists and then clears away what it did not see; the views of   *)
(* a film and of a series fetch details and episodes on demand, merging    *)
(* rows that turn out to be the same film.                                 *)
(*                                                                         *)
(* A title is a Movie or Series row, shared by the accounts; a stream is   *)
(* an entry of a provider, and its relation says which title it plays.     *)
(* Time is counted in scans.                                               *)
(***************************************************************************)
EXTENDS Integers, FiniteSets

CONSTANTS
    Worker, None, Account,
    Stream,         \* the order is that of the provider's list
    OwnerOf,        \* per stream, its account
    KindOf,         \* per stream, "movie" or "series"
    NameOf,         \* per stream, name and year
    ListedId,       \* per stream, the external identifier in the list, or None
    DetailId,       \* per film, the identifier in its details, or None
    CategoryOf,     \* per stream, its category; Uncategorized without one
    Uncategorized,
    AutoEnable,     \* accounts that enable new categories
    Listings,       \* what the providers may list at a time
    Imported,       \* the streams that earlier scans may have imported
    Episode, SeriesOf,  \* the episodes' streams, and the series' stream
    Row,            \* title rows
    Chunk,          \* entries of a list that are imported at a time (chunk_size)
    MaxScans, MaxViews  \* bounds: scans and views in a behaviour

VodImportAssumption ==
    /\ Stream \subseteq Nat \ {0} /\ Row \subseteq Nat \ {0}
    /\ OwnerOf \in [Stream -> Account] /\ KindOf \in [Stream -> {"movie", "series"}]
    /\ SeriesOf \in [Episode -> {s \in Stream : KindOf[s] = "series"}]
    /\ AutoEnable \subseteq Account /\ Listings \subseteq SUBSET (Stream \cup Episode)
    /\ Imported \subseteq SUBSET Stream
    /\ Chunk \in Nat \ {0} /\ MaxScans \in Nat /\ MaxViews \in Nat

VARIABLES
    title,      \* per row, its kind, name and identifier, or None without the row
    plays,      \* per stream, the row its relation names, 0 without a relation
    seen,       \* per stream, last_seen of its relation
    category,   \* the VODCategory rows
    carried,    \* per account, the categories it has a relation to
    enabled,    \* per account, those of them that are enabled
    episode,    \* per episode stream, the series row its Episode belongs to, or 0
    job,        \* per worker, where it is, and its locals; see NoJob
    scans, views

categories == <<category, carried, enabled>>
relations == <<plays, seen, episode>>
vars == <<title, relations, categories, job, scans, views>>

NoJob ==
    [pc |-> "idle", account |-> None,
     start |-> 0,       \* scan_start_time
     data |-> {},       \* what the provider listed and is still to be imported
     known |-> {},      \* existing_categories, later the enabled ones of the account
     batch |-> {},      \* of a chunk, one stream per film or series
     picked |-> {},     \* those of all chunks so far
     had |-> {},        \* pairs of a stream of the batch and the row found for it
     linked |-> {},     \* existing_relations
     clean |-> FALSE,   \* nobody and nothing has disturbed the scan
     orphans |-> {},    \* rows about to be deleted
     late |-> {},       \* streams related to one of them since it was chosen
     stream |-> 0, row |-> 0,   \* what a view is about
     was |-> None,      \* the title as the view has it in memory
    old |-> 0]         \* last_seen of the relation as the view has it

TypeOK ==
    /\ title \in [Row -> [kind : {"movie", "series"}, name : {NameOf[s] : s \in Stream},
                          id : {None} \cup {ListedId[s] : s \in Stream}
                                      \cup {DetailId[s] : s \in Stream}] \cup {None}]
    /\ plays \in [Stream -> Row \cup {0}] /\ seen \in [Stream -> 0 .. MaxScans]
    /\ episode \in [Episode -> Row \cup {0}]
    /\ \A a \in Account : enabled[a] \subseteq carried[a] /\ carried[a] \subseteq category
    /\ \A s \in Stream : plays[s] # 0 => title[plays[s]] # None

-----------------------------------------------------------------------------
At(w, l) == job[w].pc = l
Go(w, l) == job' = [job EXCEPT ![w].pc = l]
Rows == {r \in Row : title[r] # None}
Related(r) == {s \in Stream : plays[s] = r}
Streams(a) == {s \in Stream : OwnerOf[s] = a}
Categories(w) == {CategoryOf[s] : s \in job[w].data \cap Streams(job[w].account)}
Owners(streams) == {OwnerOf[s] : s \in streams}

\* The key of an entry: the identifier, or else the name and year.
Key(s) == <<KindOf[s], IF ListedId[s] # None THEN ListedId[s] ELSE NameOf[s]>>

\* The row found by a stream's key; a name finds rows without an identifier only.
Holds(t, s) ==
    /\ t # None /\ t.kind = KindOf[s] /\ t.id = ListedId[s]
    /\ ListedId[s] = None => t.name = NameOf[s]

\* What the database's constraints allow.
Unique(table) ==
    \A q, r \in Row :
        q # r /\ table[q] # None /\ table[r] # None /\ table[q].kind = table[r].kind
        /\ table[q].id = table[r].id
        => table[q].id = None /\ table[q].name # table[r].name

\* Row numbers nobody has or remembers, given to new titles in their order.
FreshRow(s, new) ==
    LET taken == Rows \cup UNION {{job[w].row} \cup job[w].orphans
                                  \cup {p[2] : p \in job[w].had} : w \in Worker}
        free == Row \ taken
    IN  CHOOSE r \in free : Cardinality({q \in free : q < r}) = Cardinality({q \in new : q < s})

\* Rows and relations deleted, with what hangs on them.
Delete(rows, streams) ==
    LET gone == {s \in Stream : plays[s] \in rows} \cup streams IN
    /\ title' = [r \in Row |-> IF r \in rows THEN None ELSE title[r]]
    /\ plays' = [s \in Stream |-> IF s \in gone THEN 0 ELSE plays[s]]
    /\ episode' = [e \in Episode |-> IF SeriesOf[e] \in gone \/ episode[e] \in rows THEN 0
                                     ELSE episode[e]]
    /\ seen' = [s \in Stream |-> IF s \in gone THEN 0 ELSE seen[s]]

\* The worker's next job, where the scans of some accounts are no longer clean
\* and some relations came too late for those about to delete their rows.
Step(w, next, disturbed, new) ==
    job' = [v \in Worker |->
        IF v = w THEN [next EXCEPT !.clean = @ /\ next.account \notin disturbed]
        ELSE [job[v] EXCEPT !.clean = @ /\ job[v].account \notin disturbed,
                            !.late = @ \cup {p[1] : p \in {p \in new : p[2] \in job[v].orphans}}]]
Do(w, next) == Step(w, next, {}, {})

\* Each stream imported earlier has a title of its own, with the stream's number,
\* and its category is there.
Init ==
    /\ \E streams \in Imported :
          /\ title = [r \in Row |-> IF r \in streams
                 THEN [kind |-> KindOf[r], name |-> NameOf[r], id |-> ListedId[r]] ELSE None]
          /\ Unique(title)
          /\ plays = [s \in Stream |-> IF s \in streams THEN s ELSE 0]
          /\ category = {CategoryOf[s] : s \in streams}
          /\ carried = [a \in Account |-> {CategoryOf[s] : s \in streams \cap Streams(a)}]
    /\ enabled = [a \in Account |-> IF a \in AutoEnable THEN carried[a] ELSE {}]
    /\ seen = [s \in Stream |-> 0] /\ episode = [e \in Episode |-> 0]
    /\ job = [w \in Worker |-> NoJob] /\ scans = 0 /\ views = 0

-----------------------------------------------------------------------------
(* Slips: each breaks one of the properties below in place of its original.*)

\* last_seen is set for new relations only.
RelateUnseen(w, row) ==
    LET written == {s \in DOMAIN row : (s \in job[w].linked) = (plays[s] # 0)} IN
    /\ plays' = [s \in Stream |-> IF s \in written THEN row[s] ELSE plays[s]]
    /\ seen' = [s \in Stream |-> IF s \in written \ job[w].linked THEN job[w].start
                                 ELSE seen[s]]

\* The cleanup is not limited to the account.
CleanupAll(w) ==
    /\ At(w, "cleanup")
    /\ Delete({}, {s \in Stream : plays[s] # 0 /\ seen[s] < job[w].start})
    /\ Go(w, "orphans")
    /\ UNCHANGED <<categories, scans, views>>

-----------------------------------------------------------------------------
(* The scan of an account.                                                 *)

\* refresh_vod_content: no lock is taken; another scan of the account makes this
\* one, and this one makes that one, unclean.
RefreshVodContent(w, a) ==
    LET twice == \E v \in Worker : job[v].account = a IN
    /\ At(w, "idle") /\ scans < MaxScans /\ scans' = scans + 1
    /\ \E data \in Listings :
          Step(w, [NoJob EXCEPT !.pc = "categories", !.account = a, !.start = scans + 1,
                                !.data = data, !.clean = TRUE],
               IF twice THEN {a} ELSE {}, {})
    /\ UNCHANGED <<title, relations, categories, views>>

\* batch_create_categories reads the categories that exist ...
ReadCategories(w) ==
    /\ At(w, "categories")
    /\ Do(w, [job[w] EXCEPT !.pc = "relate", !.known = Categories(w) \cap category])
    /\ UNCHANGED <<title, relations, categories, scans, views>>

\* ... creates the others and the account's relations, and deletes the relations
\* to categories that are not listed, and those categories that have none left.
\* A category that is gone meanwhile is an exception, which ends the scan.
WriteCategories(w) ==
    LET a == job[w].account
        wanted == Categories(w) \cup {Uncategorized}
        now == [carried EXCEPT ![a] = wanted]
        unused == {c \in carried[a] : \A b \in Account : c \notin now[b]}
    IN  /\ At(w, "relate")
        /\ IF job[w].known \subseteq category
           THEN /\ carried' = now
                /\ category' = (category \cup wanted) \ unused
                /\ enabled' = [enabled EXCEPT
                      ![a] = (@ \cap wanted)
                             \cup (IF a \in AutoEnable THEN wanted \ carried[a] ELSE {})]
                /\ Do(w, [job[w] EXCEPT !.pc = "movie", !.known = enabled'[a]])
           ELSE /\ category' = category \cup (wanted \ job[w].known)
                /\ Do(w, NoJob) /\ UNCHANGED <<carried, enabled>>
        /\ UNCHANGED <<title, relations, scans, views>>

\* The next entries of the list, whatever their category.
NextChunk(w, kind) ==
    LET left == {s \in job[w].data \cap Streams(job[w].account) : KindOf[s] = kind}
    IN  {s \in left : Cardinality({q \in left : q < s}) < Chunk}

\* What is imported of them: those of enabled categories, the first of each key.
Batch(w, kind) ==
    LET usable == {s \in NextChunk(w, kind) : CategoryOf[s] \in job[w].known}
    IN  {s \in usable : \A q \in usable : Key(q) = Key(s) => s <= q}

\* The loop of refresh_movies and refresh_series, and process_*_batch up to its
\* transaction: the rows and the relations that exist for a chunk are read.
ReadBatch(w, kind, write, next) ==
    LET batch == Batch(w, kind) IN
    /\ At(w, kind)
    /\ \/ NextChunk(w, kind) = {} /\ Do(w, [job[w] EXCEPT !.pc = next])
       \/ /\ NextChunk(w, kind) # {}
          /\ Do(w, [job[w] EXCEPT
                 !.pc = write, !.data = @ \ NextChunk(w, kind),
                 !.batch = batch, !.picked = @ \cup batch,
                 !.had = {p \in batch \X Row : Holds(title[p[2]], p[1])},
                 !.linked = {s \in batch : plays[s] # 0}])
    /\ UNCHANGED <<title, relations, categories, scans, views>>

RefreshMovies(w) == ReadBatch(w, "movie", "write_movies", "series")
RefreshSeries(w) == ReadBatch(w, "series", "write_series", "cleanup")

\* The relations of a batch, each stream's row being known: one that existed is
\* updated unless it was deleted since, another is created unless it was since.
Relate(w, row) ==
    LET written == {s \in DOMAIN row : (s \in job[w].linked) = (plays[s] # 0)} IN
    /\ plays' = [s \in Stream |-> IF s \in written THEN row[s] ELSE plays[s]]
    /\ seen' = [s \in Stream |-> IF s \in written THEN job[w].start ELSE seen[s]]

\* The transaction of a batch. Titles not found before are looked for again and
\* else created; those found may be written as they were read, with their
\* identifier. A row or category that is gone, a key that is taken, or anything
\* else the database refuses rolls the batch back, and the scan goes on to the next.
WriteBatch(w, kind) ==
    LET batch == job[w].batch
        ended == [job[w] EXCEPT !.pc = kind, !.batch = {}, !.had = {}, !.linked = {}]
        Had(s) == {p[2] : p \in {p \in job[w].had : p[1] = s}}
        Found(s) == IF Had(s) # {} THEN Had(s) ELSE {r \in Row : Holds(title[r], s)}
        new == {s \in batch : Found(s) = {}}
        row == [s \in batch |-> IF s \in new THEN FreshRow(s, new)
                                 ELSE CHOOSE r \in Found(s) : TRUE]
        Written(rewrites) == [r \in Row |->
            IF \E s \in new : row[s] = r
            THEN LET s == CHOOSE s \in new : row[s] = r
                 IN  [kind |-> kind, name |-> NameOf[s], id |-> ListedId[s]]
            ELSE IF rewrites /\ title[r] # None /\ \E s \in batch : r \in Had(s)
            THEN [title[r] EXCEPT !.id = ListedId[CHOOSE s \in batch : r \in Had(s)]]
            ELSE title[r]]
    IN  /\ \/ \E rewrites \in BOOLEAN :
                 /\ title' = Written(rewrites) /\ Unique(title')
                 /\ \A s \in batch : title'[row[s]] # None /\ CategoryOf[s] \in category
                 /\ Relate(w, row)
                 /\ Step(w, ended, {}, {p \in batch \X Row : row[p[1]] = p[2]})
           \/ /\ Step(w, ended, {job[w].account}, {})
              /\ UNCHANGED <<title, plays, seen>>
        /\ UNCHANGED <<episode, categories, scans, views>>

ProcessMovieBatch(w) == At(w, "write_movies") /\ WriteBatch(w, "movie")
ProcessSeriesBatch(w) == At(w, "write_series") /\ WriteBatch(w, "series")

\* cleanup_orphaned_vod_content: the account's relations that this scan has not
\* seen are deleted ...
CleanupRelations(w) ==
    /\ At(w, "cleanup")
    /\ Delete({}, {s \in Streams(job[w].account) : plays[s] # 0 /\ seen[s] < job[w].start})
    /\ Do(w, [job[w] EXCEPT !.pc = "orphans", !.data = {}, !.known = {}])
    /\ UNCHANGED <<categories, scans, views>>

\* ... and the titles without any relation looked for (films, then series) ...
FindOrphans(w) ==
    /\ At(w, "orphans")
    /\ Do(w, [job[w] EXCEPT !.pc = "delete", !.orphans = {r \in Rows : Related(r) = {}}])
    /\ UNCHANGED <<title, relations, categories, scans, views>>

\* ... and deleted. A relation written meanwhile goes with its title, or makes
\* the database refuse.
DeleteOrphans(w) ==
    LET rows == job[w].orphans
        caught == {s \in Stream : plays[s] \in rows}
        ended == [job[w] EXCEPT !.pc = "done", !.orphans = {}, !.late = {}]
    IN  /\ At(w, "delete")
        /\ \/ Delete(rows, {}) /\ Step(w, ended, Owners(caught), {})
           \/ /\ caught # {} /\ Step(w, ended, Account, {})
              /\ UNCHANGED <<title, relations>>
        /\ UNCHANGED <<categories, scans, views>>

\* A scan or a view ends; at any time also by an exception, the provider's or the
\* database's, or with its process: after it has written or deleted something it may
\* leave titles without a relation.
End(w) ==
    LET changed == job[w].picked # job[w].batch \/ job[w].pc \in {"orphans", "delete", "drop"}
    IN  /\ ~At(w, "idle")
        /\ Step(w, NoJob, IF changed THEN Account ELSE {}, {})
        /\ UNCHANGED <<title, relations, categories, scans, views>>

\* update_group_settings: the user switches a category of the account on or off;
\* the relation is made if it is gone.
SwitchCategory(a, c) ==
    /\ views < MaxViews /\ views' = views + 1
    /\ carried' = [carried EXCEPT ![a] = @ \cup {c}]
    /\ enabled' = [enabled EXCEPT ![a] = (@ \ {c}) \cup ({c} \ @)]
    /\ UNCHANGED <<title, relations, category, job, scans>>

-----------------------------------------------------------------------------
(* The views.                                                              *)

\* provider_info, series_info: the title and its relation are read.
View(w, s) ==
    /\ At(w, "idle") /\ plays[s] # 0 /\ views < MaxViews /\ views' = views + 1
    /\ Do(w, [NoJob EXCEPT !.pc = IF KindOf[s] = "movie" THEN "movie_info"
                                                            ELSE "series_info", !.stream = s, !.row = plays[s],
                           !.was = title[plays[s]]])
    /\ UNCHANGED <<title, relations, categories, scans>>

\* save() of a title writes all of it, and makes a deleted row anew.
Save(r, t) == title' = [title EXCEPT ![r] = t] /\ Unique(title')
Identified(w) == [job[w].was EXCEPT !.id = DetailId[job[w].stream]]

\* refresh_movie_advanced_data: the details may name an identifier, and another
\* row may have it already (handle_movie_id_conflicts). That row loses it first.
FindConflict(w) ==
    LET id == DetailId[job[w].stream]
        holders == {r \in Rows : title[r].kind = "movie" /\ title[r].id = id} \ {job[w].row}
    IN  /\ At(w, "movie_info")
        /\ \/ /\ id \in {None, job[w].was.id} \/ holders = {}
              /\ Do(w, [job[w] EXCEPT !.pc = "save",
                                      !.was.id = IF id = None THEN @ ELSE id])
              /\ UNCHANGED title
           \/ /\ id \notin {None, job[w].was.id}
              /\ \E r \in holders :
                    /\ Save(r, [title[r] EXCEPT !.id = None])
                    /\ Do(w, [job[w] EXCEPT !.pc = "merge", !.orphans = {r}])
        /\ UNCHANGED <<relations, categories, scans, views>>

\* merge_movie_data: the film takes what it lacks, its identifier included.
MergeData(w) ==
    /\ At(w, "merge")
    /\ IF job[w].was.id = None
       THEN Save(job[w].row, Identified(w))
       ELSE Save(job[w].row, job[w].was) \/ UNCHANGED title
    /\ Step(w, [job[w] EXCEPT !.pc = "transfer",
                              !.was = IF @.id = None THEN Identified(w) ELSE @],
            IF title[job[w].row] = None THEN Account ELSE {}, {})
    /\ UNCHANGED <<relations, categories, scans, views>>

\* The other row's relations become the film's.
TransferRelations(w) ==
    LET moved == {s \in Stream : plays[s] \in job[w].orphans} IN
    /\ At(w, "transfer")
    /\ moved = {} \/ title[job[w].row] # None
    /\ plays' = [s \in Stream |-> IF s \in moved THEN job[w].row ELSE plays[s]]
    /\ Step(w, [job[w] EXCEPT !.pc = "drop", !.late = {}], {}, moved \X {job[w].row})
    /\ UNCHANGED <<title, seen, episode, categories, scans, views>>

\* The other row is deleted.
DropMerged(w) ==
    /\ At(w, "drop")
    /\ Delete(job[w].orphans, {})
    /\ Step(w, [job[w] EXCEPT !.pc = "save", !.orphans = {}, !.late = {},
                              !.was.id = DetailId[job[w].stream]],
            Owners({s \in Stream : plays[s] \in job[w].orphans}), {})
    /\ UNCHANGED <<categories, scans, views>>

\* The film is saved, if anything of it changed; without its identifier, if that
\* one is taken by now.
SaveMovie(w) ==
    LET with == [title EXCEPT ![job[w].row] = job[w].was] IN
    /\ At(w, "save")
    /\ \/ title' = with /\ Unique(with)
       \/ ~Unique(with) /\ Save(job[w].row, [job[w].was EXCEPT !.id = None])
       \/ title[job[w].row] = job[w].was /\ UNCHANGED title
    /\ Step(w, NoJob, IF title[job[w].row] = None THEN Account ELSE {}, {})
    /\ UNCHANGED <<relations, categories, scans, views>>

\* refresh_series_episodes: the provider's episodes are fetched, the series saved
\* if that told more about it, and the relation read.
FetchEpisodes(w) ==
    LET s == job[w].stream IN
    /\ At(w, "series_info")
    /\ \/ Save(job[w].row, job[w].was) \/ UNCHANGED title
    /\ plays[s] # 0
    /\ \E data \in Listings :
          Step(w, [job[w] EXCEPT !.pc = "episodes", !.data = {e \in Episode \cap data :
                                                            SeriesOf[e] = s},
                                !.had = {<<s, plays[s]>>}, !.old = seen[s]],
               IF title[job[w].row] = None THEN Account ELSE {}, {})
    /\ UNCHANGED <<relations, categories, scans, views>>

\* batch_process_episodes: one transaction writes the episodes that are listed and
\* deletes the relations of those that are not, unless none is listed.
WriteEpisodes(w) ==
    LET s == job[w].stream IN
    /\ At(w, "episodes")
    /\ \/ job[w].data = {} /\ UNCHANGED episode
       \/ /\ job[w].data # {} /\ title[job[w].row] # None /\ plays[s] # 0
          /\ episode' = [e \in Episode |-> IF e \in job[w].data THEN job[w].row
                                           ELSE IF SeriesOf[e] = s THEN 0 ELSE episode[e]]
    /\ Go(w, "mark")
    /\ UNCHANGED <<title, plays, seen, categories, scans, views>>

\* The relation is saved as it was read: the title and last_seen with it.
SaveSeriesRelation(w) ==
    LET s == job[w].stream IN
    /\ At(w, "mark")
    /\ \E r \in Rows :
          /\ <<s, r>> \in job[w].had
          /\ plays' = [plays EXCEPT ![s] = r] /\ seen' = [seen EXCEPT ![s] = job[w].old]
          /\ Step(w, NoJob, IF plays[s] # r \/ seen[s] # job[w].old THEN {OwnerOf[s]} ELSE {},
                  {<<s, r>>})
    /\ UNCHANGED <<title, episode, categories, scans, views>>

-----------------------------------------------------------------------------
Next ==
    \/ \E w \in Worker :
          \/ \E a \in Account : RefreshVodContent(w, a)
          \/ ReadCategories(w) \/ WriteCategories(w)
          \/ RefreshMovies(w) \/ ProcessMovieBatch(w)
          \/ RefreshSeries(w) \/ ProcessSeriesBatch(w)
          \/ CleanupRelations(w) \/ FindOrphans(w) \/ DeleteOrphans(w)
          \/ End(w)
          \/ \E s \in Stream : View(w, s)
          \/ FindConflict(w) \/ MergeData(w) \/ TransferRelations(w) \/ DropMerged(w)
          \/ SaveMovie(w)
          \/ FetchEpisodes(w) \/ WriteEpisodes(w) \/ SaveSeriesRelation(w)
    \/ \E a \in Account, c \in category : SwitchCategory(a, c)

Spec == Init /\ [][Next]_vars

-----------------------------------------------------------------------------
(* Properties                                                              *)

\* A scan that nothing disturbed has every film and series it took from the list, chunk
\* by chunk, in the library and marked as seen: it plays some title of its kind, however
\* the scans of other accounts and the views of the same titles interleave with it.
ScanImports ==
    \A w \in Worker : At(w, "done") /\ job[w].clean =>
        \A s \in job[w].picked :
            plays[s] # 0 /\ title[plays[s]].kind = KindOf[s] /\ seen[s] = job[w].start

\* And nothing else of the account: what is not listed any more, what is in a category
\* switched off, and what has the key of an earlier entry of its chunk is gone. (An entry
\* with the key of one in another chunk is taken, too.)
ScanForgets ==
    \A w \in Worker : At(w, "done") /\ job[w].clean =>
        \A s \in Streams(job[w].account) \ job[w].picked : plays[s] = 0

\* When such a scan ends and no other task runs, every title can be played.
OrphansGone ==
    \A w \in Worker :
        (At(w, "done") /\ job[w].clean /\ \A v \in Worker \ {w} : At(v, "idle"))
        => \A r \in Rows : Related(r) # {}

\* A stream leaves the library only because a scan of its own account has not
\* seen it, or because it was related to a title after that one was found
\* orphaned or merged: not by another account's scan nor by a merge.
KeepsStreams ==
    \A s \in Stream : plays[s] # 0 /\ plays'[s] = 0 =>
        \E w \in Worker :
            \/ s \in job[w].late
            \/ At(w, "cleanup") /\ job[w].account = OwnerOf[s] /\ seen[s] < job[w].start
=============================================================================
