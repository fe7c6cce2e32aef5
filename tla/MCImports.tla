------------------------------ MODULE MCImports ------------------------------
(* For TLC, what is taken over from providers: the streams of an account    *)
(* and the channels made from them (AccountRefresh), and the library of     *)
(* films and series (VodImport).  They share no state, so a behaviour is    *)
(* one of the one or of the other.                                          *)
EXTENDS AccountRefresh, TLC

CONSTANTS w1, w2, g1, g2

VARIABLES
    part,   \* which of the two this behaviour is of
    title, plays, seenTitle, category, carried, enabledCategories, episode, importJob,
    vodScans, views

importVars == <<title, plays, seenTitle, category, carried, enabledCategories, episode,
                importJob, vodScans, views>>

Workers == Permutations(Worker)

-----------------------------------------------------------------------------
\* Two streams in a group and one in another, with and without a number; one is listed no
\* more, then none is.
TwoGroups == <<g1, g1, g2>>
Clash == <<2, 0, 2>>
Changing == {{1, 2, 3}, {2, 3}, {}}
SomeAccounts ==
    {[kind |-> "STD", autoEnable |-> TRUE, numbering |-> "provider"],
     [kind |-> "STD", autoEnable |-> FALSE, numbering |-> "next_available"],
     [kind |-> "XC", autoEnable |-> TRUE, numbering |-> "fixed"]}

\* Two accounts, whose lists are imported by two entries at a time. A lists a film twice, in
\* one chunk or in two, without the identifier its details have, another film whose details
\* have that one, too, and a series; B lists the first film with the identifier.
Import ==
    INSTANCE VodImport WITH
        Account <- {"A", "B"}, Stream <- 1 .. 5, Chunk <- 2,
        OwnerOf <- <<"A", "A", "B", "A", "A">>,
        KindOf <- <<"movie", "movie", "movie", "series", "movie">>,
        NameOf <- <<"Heat", "Ronin", "Heat (1995)", "Heat", "Heat">>,
        ListedId <- <<None, "u", "t", None, None>>,
        DetailId <- <<"t", "t", "t", None, None>>,
        CategoryOf <- <<"Drama", "Drama", "Drama", "none", "Drama">>, Uncategorized <- "none",
        AutoEnable <- {"A", "B"},
        Listings <- {{1, 3, 4, 5, 11}, {1, 2, 5, 12}, {}},
        Imported <- {{}, {1, 3, 4}, {2, 3}},
        Episode <- {11, 12}, SeriesOf <- [e \in {11, 12} |-> 4],
        Row <- 1 .. 6, MaxScans <- 2, MaxViews <- 1,
        seen <- seenTitle, enabled <- enabledCategories, job <- importJob, scans <- vodScans

ASSUME Import!VodImportAssumption

-----------------------------------------------------------------------------
ImportsInit ==
    \/ part = "live" /\ Init
       /\ Import!Init /\ (\A s \in 1 .. 5 : plays[s] = 0)
    \/ part = "vod" /\ Import!Init
       /\ Init /\ given.kind = "XC" /\ trouble = "none"

ImportsNext ==
    /\ UNCHANGED part
    /\ \/ part = "live" /\ Next /\ UNCHANGED importVars
       \/ part = "vod" /\ Import!Next /\ UNCHANGED vars

ImportsSpec == ImportsInit /\ [][ImportsNext]_<<part, vars, importVars>>

-----------------------------------------------------------------------------
\* A scan leaves in the library what it took from the list, nothing else of its account, and
\* no title that nothing plays.
ScanTakesOver == part = "vod" => Import!ScanImports /\ Import!ScanForgets /\ Import!OrphansGone

\* No stream leaves the library but for a scan of its account, or a title found orphaned.
StreamsKept == [][part = "vod" => Import!KeepsStreams]_importVars
=============================================================================
