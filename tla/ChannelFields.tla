---------------------------- MODULE ChannelFields ----------------------------
(***************************************************************************)
(* Edits of the fields of channels (apps/channels/api_views.py,            *)
(* serializers.py, tasks.py): single and bulk edits, the tasks that take   *)
(* names, logos and ids from the guide, the matching of channels with guide*)
(* entries, and the removal of logos. Each reads channels, computes, and   *)
(* later writes some of their fields; nothing keeps two of them apart.     *)
(*                                                                         *)
(* A value of "name", "tvg" or "logo" is a user's, or the one a guide entry*)
(* gives, and stands for it; of "epg" it is the entry the channel is linked*)
(* to. The streams of a channel are left out.                              *)
(***************************************************************************)
EXTENDS Naturals, FiniteSets

CONSTANTS
    Channel, Entry, Request, None,
    Text,               \* names and ids that users give
    Rename,             \* what a bulk rename makes of each name
    Updates,            \* what an edit says of a channel: values for some fields
    MaxOps              \* bound

FieldsAssumption ==
    /\ Rename \in [Text \cup Entry -> Text \cup Entry] /\ MaxOps \in Nat
    /\ \A u \in Updates : DOMAIN u \subseteq {"name", "tvg", "logo", "epg"}

Field == {"name", "tvg", "logo", "epg"}

VARIABLES
    row,                \* per channel: its row, or None
    entries, logos,     \* guide entries there are; those whose picture is a logo
    chosen,             \* history: per channel, the values asked for last
    raced,              \* history: <<channel, field>> set by one request, while another had
                        \* read the channel
    job, ops

vars == <<row, entries, logos, chosen, raced, job, ops>>

NoJob ==
    [pc |-> "idle",
     read |-> <<>>,         \* rows of the channels it has read
     says |-> <<>>,         \* per channel: the values it is to set
     doomed |-> {}]         \* logos it has found unused

At(r, l) == job[r].pc = l
Exists(c) == row[c] # None
Unlinked(c) == Exists(c) /\ row[c].epg = None
Linked(c) == Exists(c) /\ row[c].epg # None
Begin(r, j) == At(r, "idle") /\ ops < MaxOps /\ ops' = ops + 1 /\ job' = [job EXCEPT ![r] = j]
Finish(r) == job' = [job EXCEPT ![r] = NoJob]
Merged(w, u) == [f \in Field |-> IF f \in DOMAIN u THEN u[f] ELSE w[f]]
Refers(w) == w.epg \in entries \cup {None} /\ w.logo \in logos \cup {None}

TypeOK ==
    /\ logos \subseteq Entry /\ entries \subseteq Entry
    /\ \A c \in Channel : Exists(c) => /\ row[c].name \in Text \cup Entry /\ row[c].tvg \in Text \cup Entry
                                       /\ Refers(row[c])

Init ==
    /\ \E t \in Text : row = [c \in Channel |-> [name |-> t, tvg |-> t, logo |-> None, epg |-> None]]
    /\ entries = Entry /\ logos = {} /\ chosen = row /\ raced = {}
    /\ job = [r \in Request |-> NoJob] /\ ops = 0

\* Another request has read the channel, or has found the logo it is given unused.
Watched(r, c, f, u) ==
    \E q \in Request \ {r} : \/ c \in DOMAIN job[q].read
                            \/ (f = "logo" /\ u.logo \in job[q].doomed)
\* Links that a removal takes away, of channels that some request has read.
LinksRead == (UNION {DOMAIN job[q].read : q \in Request}) \X {"epg", "logo"}

\* Request r writes these rows, having been asked for what says says. A link to what is not
\* there fails the whole write.
Write(r, new, says) ==
    IF \A c \in DOMAIN new : Refers(new[c])
    THEN /\ row' = [c \in Channel |-> IF c \in DOMAIN new THEN new[c] ELSE row[c]]
         /\ chosen' = [c \in Channel |-> IF c \in DOMAIN new THEN Merged(chosen[c], says[c]) ELSE chosen[c]]
         /\ raced' = raced \cup {x \in (DOMAIN new) \X Field :
                                   x[2] \in DOMAIN says[x[1]] /\ Watched(r, x[1], x[2], says[x[1]])}
    ELSE UNCHANGED <<row, chosen, raced>>

-----------------------------------------------------------------------------
(* Edits.                                                                  *)

\* A request reads the channels it is about, and knows what to set.
Reading(r, l, says) ==
    /\ Begin(r, [NoJob EXCEPT !.pc = l, !.says = says, !.read = [c \in DOMAIN says |-> row[c]]])
    /\ UNCHANGED <<row, entries, logos, chosen, raced>>

EditOne(r, c, u) == Exists(c) /\ Reading(r, "save", [d \in {c} |-> u])
EditBulk(r, says) == (\A c \in DOMAIN says : Exists(c)) /\ Reading(r, "write", says)
RenameBulk(r, cs) ==
    Reading(r, "write", [c \in {d \in cs : Exists(d) /\ Rename[row[d].name] # row[d].name} |->
                           [name |-> Rename[row[c].name]]])

\* A single edit saves the whole row as it was read, and a deleted channel is there again.
SaveWhole(r) ==
    /\ At(r, "save")
    /\ LET says == job[r].says IN Write(r, [c \in DOMAIN says |-> Merged(job[r].read[c], says[c])], says)
    /\ Finish(r) /\ UNCHANGED <<entries, logos, ops>>

\* Slip: every channel gets what one of them is to have.
SavedAlike(says, read, c) == Merged(row[c], says[CHOOSE d \in DOMAIN says : TRUE])
\* A bulk update saves in every channel each field that is named for one of them: for the
\* others as it was read.
Saved(says, read, c) ==
    LET fields == UNION {DOMAIN says[d] : d \in DOMAIN says} IN
    [f \in Field |-> IF f \in fields THEN Merged(read[c], says[c])[f] ELSE row[c][f]]

BulkUpdate(r) ==
    /\ At(r, "write")
    /\ LET j == job[r] IN
       Write(r, [c \in {d \in DOMAIN j.says : Exists(d)} |-> Saved(j.says, j.read, c)], j.says)
    /\ Finish(r) /\ UNCHANGED <<entries, logos, ops>>

\* Channels are linked to guide entries; nothing else is written.
SetEpg(r, cs, e) ==
    /\ \A c \in cs : Exists(c)
    /\ Begin(r, NoJob)
    /\ Write(r, [c \in cs |-> [row[c] EXCEPT !.epg = e]], [c \in cs |-> [epg |-> e]])
    /\ UNCHANGED <<entries, logos>>

-----------------------------------------------------------------------------
(* What the guide says. The tasks for names and ids write what differs; the*)
(* one for logos makes the logos it needs first.                           *)

Differing(cs, f) == {c \in cs : Linked(c) /\ row[c].epg # row[c][f]}

SetNames(r, cs) == Reading(r, "write", [c \in Differing(cs, "name") |-> [name |-> row[c].epg]])
SetTvgIds(r, cs) == Reading(r, "write", [c \in Differing(cs, "tvg") |-> [tvg |-> row[c].epg]])
SetLogos(r, cs) == Reading(r, "logos", [c \in Differing(cs, "logo") |-> [logo |-> row[c].epg]])

MakeLogos(r) ==
    /\ At(r, "logos")
    /\ logos' = logos \cup {job[r].says[c].logo : c \in DOMAIN job[r].says}
    /\ job' = [job EXCEPT ![r].pc = "write"]
    /\ UNCHANGED <<row, entries, chosen, raced, ops>>

\* Slip: channels that have an entry are matched too.
MatchAll(r, found) == (\A c \in DOMAIN found : Exists(c)) /\ Reading(r, "link", found)
\* Channels without an entry are compared with all entries, which takes long; some match.
Match(r, found) == (\A c \in DOMAIN found : Unlinked(c)) /\ Reading(r, "link", found)

MatchOne(r, c, e) == Match(r, [d \in {c} |-> [epg |-> e]])
MatchSelected(r, cs, e) == Match(r, [c \in cs |-> [epg |-> e]])

\* Channels and entries are read again. Those that are still there are linked, whatever the
\* channel is linked to by now.
Link(r) ==
    /\ At(r, "link")
    /\ LET says == job[r].says
           found == {c \in DOMAIN says : Exists(c) /\ says[c].epg \in entries} IN
       Write(r, [c \in found |-> [row[c] EXCEPT !.epg = says[c].epg]], says)
    /\ Finish(r) /\ UNCHANGED <<entries, logos, ops>>

-----------------------------------------------------------------------------
(* Removals.                                                               *)

\* What refers to removed entries or logos refers to nothing.
Without(rows, es, ls) ==
    [c \in Channel |-> IF rows[c] = None THEN None
                       ELSE [rows[c] EXCEPT !.epg = IF @ \in es THEN None ELSE @,
                                            !.logo = IF @ \in ls THEN None ELSE @]]

Unused == {l \in logos : \A c \in Channel : Exists(c) => row[c].logo # l}

FindUnused(r) ==
    /\ Begin(r, [NoJob EXCEPT !.pc = "remove", !.doomed = Unused])
    /\ UNCHANGED <<row, entries, logos, chosen, raced>>

\* Nobody asked for a channel to lose its logo.
RemoveUnused(r) ==
    /\ At(r, "remove")
    /\ logos' = logos \ job[r].doomed /\ row' = Without(row, {}, job[r].doomed)
    /\ Finish(r) /\ UNCHANGED <<entries, chosen, raced, ops>>

\* The channels' links go, then the logos; a link made in between goes with its logo, so
\* that this is one step.
DeleteLogos(r, ls) ==
    /\ ls \subseteq logos /\ Begin(r, NoJob)
    /\ logos' = logos \ ls /\ row' = Without(row, {}, ls) /\ chosen' = Without(chosen, {}, ls)
    /\ raced' = raced \cup LinksRead
    /\ UNCHANGED entries

DeleteChannel(r, c) ==
    /\ Exists(c) /\ Begin(r, NoJob)
    /\ row' = [row EXCEPT ![c] = None]
    /\ raced' = raced \cup ({c} \X Field)
    /\ UNCHANGED <<entries, logos, chosen>>

DeleteEntry(r, e) ==
    /\ e \in entries /\ Begin(r, NoJob)
    /\ entries' = entries \ {e}
    /\ row' = Without(row, {e}, {}) /\ chosen' = Without(chosen, {e}, {})
    /\ raced' = raced \cup LinksRead
    /\ UNCHANGED logos

-----------------------------------------------------------------------------
Groups == (SUBSET Channel) \ {{}}
Next ==
    \E r \in Request :
       \/ SaveWhole(r) \/ BulkUpdate(r) \/ MakeLogos(r) \/ Link(r) \/ FindUnused(r) \/ RemoveUnused(r)
       \/ \E c \in Channel : \/ DeleteChannel(r, c)
                             \/ \E u \in Updates : EditOne(r, c, u)
                             \/ \E e \in Entry : MatchOne(r, c, e)
       \/ \E e \in Entry : DeleteEntry(r, e) \/ DeleteLogos(r, {e})
       \/ \E cs \in Groups :
             \/ RenameBulk(r, cs) \/ SetNames(r, cs) \/ SetTvgIds(r, cs) \/ SetLogos(r, cs)
             \/ \E e \in Entry : MatchSelected(r, cs, e)
             \/ \E e \in entries \cup {None} : SetEpg(r, cs, e)
             \/ \E says \in [cs -> Updates] : EditBulk(r, says)

Spec == Init /\ [][Next]_vars

-----------------------------------------------------------------------------
(* Properties.                                                             *)

\* A channel has the values that were asked for last (api_views.py:682 and the tasks), its logo
\* too when unused logos are removed (api_views.py:1829), except where a request set one while
\* another had already read the channel, or found the logo unused.
EditsStand ==
    \A c \in Channel, f \in Field :
        (Exists(c) /\ <<c, f>> \notin raced) => row[c][f] = chosen[c][f]

Relinked(r) ==
    {c \in Channel : At(r, "link") /\ Linked(c) /\ row'[c] # None /\ row'[c].epg # row[c].epg}

\* Matching replaces no link (tasks.py:790) that the channel had when the matching began.
Respects == \A r \in Request : \A c \in Relinked(r) : job'[r] = NoJob => <<c, "epg">> \in raced
MatchRespects == [][Respects]_vars
=============================================================================
