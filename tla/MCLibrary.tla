------------------------------ MODULE MCLibrary ------------------------------
(* For TLC, the records users and tasks keep: the guide and the entries     *)
(* that channels take from it (EpgRefresh), channels' numbers and profiles  *)
(* (ChannelRecords), their other fields (ChannelFields), and plugins        *)
(* (PluginRegistry).  They share no state, so a behaviour is one of the one *)
(* or of another.                                                           *)
EXTENDS EpgRefresh, TLC

CONSTANTS w1, w2, r1, r2, Request

VARIABLES
    part,   \* which of them this behaviour is of
    number, gone, profiles, member, owed, clean, recordsJob, recordsOps,
    row, guideEntries, logos, chosen, racedFields, fieldsJob, fieldsOps,
    disk, config, repos, registry, current, running, pluginJob, racedWorkers, mixed,
    pluginOps, restarts

recordsVars == <<number, gone, profiles, member, owed, clean, recordsJob, recordsOps>>
fieldsVars == <<row, guideEntries, logos, chosen, racedFields, fieldsJob, fieldsOps>>
pluginVars == <<disk, config, repos, registry, current, running, pluginJob, racedWorkers, mixed,
                pluginOps, restarts>>

Symmetric == Permutations(Worker) \cup Permutations(Request)

-----------------------------------------------------------------------------
\* The guide with a worker that is killed, while the user leaves the channels alone.
Killed == INSTANCE EpgRefresh WITH MaxCrashes <- 1, MaxMaps <- 0

\* Three channels, of which users and providers name the numbers 1 and 2.5; and two channels
\* and two profiles.
Numbers ==
    INSTANCE ChannelRecords WITH
        Channel <- {"a", "b", "c"}, Profile <- {}, Number <- {2, 5},
        Wants <- {<<None, 2>>, <<2, 2>>}, MaxOps <- 3,
        job <- recordsJob, ops <- recordsOps
Profiles ==
    INSTANCE ChannelRecords WITH
        Channel <- {"a", "b"}, Profile <- {"p", "s"}, Number <- {2},
        Wants <- {<<None, 2>>}, MaxOps <- 3,
        job <- recordsJob, ops <- recordsOps

\* Two channels, two entries of the guide, and a rename that gives both channels one name.
Fields ==
    INSTANCE ChannelFields WITH
        Channel <- {"a", "b"}, Entry <- {"e", "g"}, Text <- {"t", "u"},
        Rename <- [x \in {"t", "u", "e", "g"} |-> IF x = "t" THEN "u" ELSE x],
        Updates <- {[name |-> "t"], [epg |-> "e"], [epg |-> None]}, MaxOps <- 3,
        entries <- guideEntries, raced <- racedFields, job <- fieldsJob, ops <- fieldsOps

\* A plugin, uploaded or from a repository: three operations, or two and a worker's restart.
Plugins ==
    INSTANCE PluginRegistry WITH
        Plugin <- {"p"}, Release <- {"up", "hub1"}, Repo <- {"hub"},
        RepoOf <- [up |-> None, hub1 |-> "hub"], MaxOps <- 3, MaxRestarts <- 0,
        row <- config, job <- pluginJob, raced <- racedWorkers, ops <- pluginOps
Restarted ==
    INSTANCE PluginRegistry WITH
        Plugin <- {"p"}, Release <- {"up", "hub1"}, Repo <- {"hub"},
        RepoOf <- [up |-> None, hub1 |-> "hub"], MaxOps <- 2, MaxRestarts <- 1,
        row <- config, job <- pluginJob, raced <- racedWorkers, ops <- pluginOps

ASSUME Numbers!RecordsAssumption /\ Profiles!RecordsAssumption
ASSUME Fields!FieldsAssumption /\ Plugins!PluginAssumption

-----------------------------------------------------------------------------
NothingImported == ~hasUrl /\ files["xml"] = Missing /\ entries = Entry /\ \A c \in Channel : epg[c] = None

LibraryInit ==
    /\ part \in {"guide", "killed", "numbers", "profiles", "fields", "plugins", "restart"}
    /\ Init /\ (part \in {"guide", "killed"} \/ NothingImported)
    /\ IF part = "numbers" THEN Numbers!Init ELSE Profiles!Init
    /\ Plugins!Init
    /\ Fields!Init /\ (part = "fields" \/ \A c \in DOMAIN row : row[c].name = "t")

LibraryNext ==
    /\ UNCHANGED part
    /\ \/ part = "guide" /\ Next /\ UNCHANGED <<recordsVars, fieldsVars, pluginVars>>
       \/ part = "killed" /\ Killed!Next /\ UNCHANGED <<recordsVars, fieldsVars, pluginVars>>
       \/ part = "numbers" /\ Numbers!Next /\ UNCHANGED <<vars, fieldsVars, pluginVars>>
       \/ part = "profiles" /\ Profiles!Next /\ UNCHANGED <<vars, fieldsVars, pluginVars>>
       \/ part = "fields" /\ Fields!Next /\ UNCHANGED <<vars, recordsVars, pluginVars>>
       \/ part = "plugins" /\ Plugins!Next /\ UNCHANGED <<vars, recordsVars, fieldsVars>>
       \/ part = "restart" /\ Restarted!Next /\ UNCHANGED <<vars, recordsVars, fieldsVars>>

LibrarySpec ==
    LibraryInit /\ [][LibraryNext]_<<part, vars, recordsVars, fieldsVars, pluginVars>>

-----------------------------------------------------------------------------
\* No two channels have one number, and each is in the profiles it was made for, as long as
\* the requests concerned do not overlap.
RecordsRight ==
    /\ part = "numbers" => Numbers!TypeOK /\ Numbers!NumbersUnique
    /\ part = "profiles" => Profiles!TypeOK /\ Profiles!RowsMade

\* A channel is moved where the user wants it, and the others stay in their order.
ReorderPlaces == [][part = "numbers" => Numbers!Places]_recordsVars

\* What was last asked for a field stands, unless requests for the channel overlap.
EditsStand == part = "fields" => Fields!TypeOK /\ Fields!EditsStand

\* Matching channels with the guide leaves alone what they are linked to.
MatchRespects == [][part = "fields" => Fields!Respects]_fieldsVars

\* Workers run the plugins that are on the disk and enabled, updated from where they came
\* from, and whole, too, when an update fails.
PluginsSound ==
    part \in {"plugins", "restart"} =>
        Plugins!TypeOK /\ Plugins!CacheTrue /\ Plugins!LinkTrue /\ Plugins!UpdateKeeps
=============================================================================
