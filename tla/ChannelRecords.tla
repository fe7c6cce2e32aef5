--------------------------- MODULE ChannelRecords ---------------------------
(***************************************************************************)
(* Channels, their numbers, and their rows in the channel profiles         *)
(* (apps/channels/api_views.py, serializers.py, signals.py, and the task   *)
(* bulk_create_channels_from_streams). A request reads, and writes in a    *)
(* transaction; what it read may have changed when it writes. A profile    *)
(* shows a channel only through a row; whether the row is switched on is   *)
(* left out. Ids are not used again.                                       *)
(***************************************************************************)
EXTENDS ChannelOrder

CONSTANTS
    Request, Profile,
    Number,             \* numbers that users and providers name
    Wants,              \* lists of the numbers the streams of a bulk creation name
    MaxOps              \* bound

RecordsAssumption ==
    /\ Number \subseteq Nat \ {0} /\ MaxOps \in Nat
    /\ Wants \subseteq Seq(Number \cup {None})

VARIABLES
    number,             \* per channel: its number, or None
    gone,               \* channels and profiles that have been deleted
    profiles,           \* profiles there are
    member,             \* ChannelProfileMembership: <<profile, channel>>
    owed,               \* history: rows a creation was to make
    clean,              \* history: what is not spoilt by overlapping requests, or by users
    job, ops

vars == <<number, gone, profiles, member, owed, clean, job, ops>>

NoJob ==
    [pc |-> "idle",
     what |-> "none",           \* "create", "stream", "bulk", "reorder", "profile" or "copy"
     wants |-> <<>>,            \* the number each of its streams names, or None
     start |-> 0,               \* where the numbers it finds itself start, 0: after the highest
     used |-> {},               \* the numbers it has read
     all |-> FALSE,             \* the new channels are for all profiles
     in |-> {},                 \* the profiles they are for
     c |-> None, after |-> None,    \* the channel to move, and the one to move it after
     old |-> 0, desired |-> 0,  \* what it has read of the two
     p |-> None,                \* the profile it makes
     chans |-> {}]              \* channels it has read

At(r, l) == job[r].pc = l
Making == {"create", "stream", "bulk"}
Numbering == Making \cup {"reorder"}
Touching(area) == IF area = "numbers" THEN Numbering ELSE Making \cup {"profile", "copy"}
Active(area) == \E r \in Request : job[r].what \in Touching(area)
\* A change to these areas has been started or made.
Spoil(areas) == clean' = clean \ {a \in areas : Active(a)}

TypeOK ==
    /\ number \in [Channel -> Nat \cup {None}] /\ gone \subseteq Channel \cup Profile
    /\ profiles \subseteq Profile /\ {owed, member} \subseteq SUBSET (Profile \X Channel)
    /\ clean \subseteq {"numbers", "profiles"}

Init ==
    /\ number = [c \in Channel |-> None] /\ gone = {} /\ profiles = {} /\ member = {}
    /\ owed = {} /\ clean = {"numbers", "profiles"} /\ job = [r \in Request |-> NoJob] /\ ops = 0

Take == ops < MaxOps /\ ops' = ops + 1
Begin(r, j) == At(r, "idle") /\ Take /\ job' = [job EXCEPT ![r] = j]
Finish(r) == job' = [job EXCEPT ![r] = NoJob]

-----------------------------------------------------------------------------
(* New channels.                                                           *)

\* profile: a set of profiles, or None for all.
Make(r, what, wants, start, in) ==
    /\ Begin(r, [NoJob EXCEPT !.pc = "numbers", !.what = what, !.wants = wants, !.start = start,
                              !.all = in = None, !.in = IF in = None THEN {} ELSE in])
    /\ Spoil({"numbers", "profiles"})
    /\ UNCHANGED <<number, gone, profiles, member, owed>>

Create(r, want, in) == Make(r, "create", <<want>>, One, in)
FromStream(r, want, start, in) == (want # None => start = One) /\ Make(r, "stream", <<want>>, start, in)
BulkCreate(r, wants, start, in) == Make(r, "bulk", wants, start, in)

Start(j, used) == IF j.start = 0 THEN AfterAll(used) ELSE j.start

\* The numbers in use. A new channel takes the number its user names, whatever others have;
\* one made from a stream the first free one from there.
ReadNumbers(r) ==
    /\ At(r, "numbers")
    /\ LET j == job[r]
           used == Used(number)
           want == j.wants[1] IN
       job' = [job EXCEPT ![r] =
                 IF j.what = "bulk"
                 THEN [j EXCEPT !.pc = "choose", !.used = used, !.start = Start(j, used)]
                 ELSE [j EXCEPT !.pc = "profiles",
                          !.wants = <<IF want = None THEN NextFree(Start(j, used), used)
                                      ELSE IF j.what = "create" THEN want
                                      ELSE NextFree(want, used)>>]]
    /\ UNCHANGED <<number, gone, profiles, member, owed, clean, ops>>

Choose(r) ==
    /\ At(r, "choose")
    /\ job' = [job EXCEPT ![r].pc = "profiles", ![r].used = {},
                 ![r].wants = Picked(@, job[r].start, job[r].used, Used(number))]
    /\ UNCHANGED <<number, gone, profiles, member, owed, clean, ops>>

\* The profiles asked for. A single creation that names one that does not exist is answered
\* with an error, and makes its channel without any row.
Chosen(j) ==
    IF j.all THEN profiles
    ELSE IF j.what = "bulk" \/ j.in \subseteq profiles THEN j.in \cap profiles
    ELSE {}

ReadProfiles(r) ==
    /\ At(r, "profiles")
    /\ job' = [job EXCEPT ![r].pc = "commit", ![r].in = Chosen(job[r])]
    /\ UNCHANGED <<number, gone, profiles, member, owed, clean, ops>>

\* The channels with their rows, or, if one of the profiles has gone, nothing.
Commit(r) ==
    /\ At(r, "commit")
    /\ LET nums == job[r].wants IN
       IF job[r].in \subseteq profiles
       THEN \E cs \in [DOMAIN nums -> Channel \ (gone \cup Made(number))] :
              LET new == {cs[i] : i \in DOMAIN nums} IN
              /\ \A i, k \in DOMAIN nums : cs[i] = cs[k] => i = k
              /\ number' = [c \in Channel |-> IF c \in new
                                              THEN nums[CHOOSE i \in DOMAIN nums : cs[i] = c]
                                              ELSE number[c]]
              /\ member' = member \cup (job[r].in \X new)
              /\ owed' = IF job[r].all THEN owed \cup (profiles \X new) ELSE owed
              \* The user has named a number that was in use.
              /\ clean' = IF job[r].what = "create" /\ nums[1] \in Used(number)
                          THEN clean \ {"numbers"} ELSE clean
       ELSE UNCHANGED <<number, member, owed, clean>>
    /\ Finish(r)
    /\ UNCHANGED <<gone, profiles, ops>>

-----------------------------------------------------------------------------
(* Other changes of channels.                                              *)

SetNumber(c, n) ==
    /\ Take /\ number[c] # None
    /\ number' = [number EXCEPT ![c] = n]
    /\ clean' = IF Active("numbers") \/ n \in Used([number EXCEPT ![c] = None])
                THEN clean \ {"numbers"} ELSE clean
    /\ UNCHANGED <<gone, profiles, member, owed, job>>

\* Auto-assign: the channels in this order, from n on, whatever the others have.
Assign(cs, n) ==
    /\ Take /\ {cs[i] : i \in DOMAIN cs} \subseteq Made(number)
    /\ LET place == [c \in Channel |-> IF \E i \in DOMAIN cs : cs[i] = c
                                       THEN n + One * ((CHOOSE i \in DOMAIN cs : cs[i] = c) - 1)
                                       ELSE number[c]] IN
       /\ number' = place
       /\ clean' = IF Active("numbers") \/ ~Distinct(place) THEN clean \ {"numbers"} ELSE clean
    /\ UNCHANGED <<gone, profiles, member, owed, job>>

DeleteChannel(c) ==
    /\ Take /\ number[c] # None
    /\ number' = [number EXCEPT ![c] = None] /\ gone' = gone \cup {c}
    /\ member' = {m \in member : m[2] # c}
    /\ Spoil({"numbers", "profiles"})
    /\ UNCHANGED <<profiles, owed, job>>

\* Moved after another channel, or to the beginning.
Reorder(r, c, after) ==
    /\ number[c] # None /\ after # None => number[after] # None
    /\ Begin(r, [NoJob EXCEPT !.pc = "places", !.what = "reorder", !.c = c, !.after = after])
    /\ Spoil({"numbers"})
    /\ UNCHANGED <<number, gone, profiles, member, owed>>

ReadPlaces(r) ==
    /\ At(r, "places")
    /\ LET c == job[r].c
           after == job[r].after IN
       IF number[c] = None \/ (after # None /\ number[after] = None)
       THEN Finish(r)
       ELSE job' = [job EXCEPT ![r].pc = "shift", ![r].old = number[c],
                      ![r].desired = IF after = None THEN One ELSE After(number[after])]
    /\ UNCHANGED <<number, gone, profiles, member, owed, clean, ops>>

Shift(r) ==
    /\ At(r, "shift")
    /\ LET j == job[r] IN
       /\ number' = IF j.desired = j.old \/ number[j.c] = None THEN number
                    ELSE Moved(number, j.c, j.old, j.desired)
       /\ clean' = IF \A n \in Used(number) : Whole(n) THEN clean ELSE clean \ {"numbers"}
    /\ Finish(r)
    /\ UNCHANGED <<gone, profiles, member, owed, ops>>

-----------------------------------------------------------------------------
(* Profiles.                                                               *)

\* A new profile is there before the signal handler has given it its rows.
AddProfile(r, p) ==
    /\ p \notin profiles \cup gone /\ \A q \in Request : job[q].p # p
    /\ Begin(r, [NoJob EXCEPT !.pc = "signal", !.what = "profile", !.p = p])
    /\ profiles' = profiles \cup {p} /\ Spoil({"profiles"})
    /\ UNCHANGED <<number, gone, member, owed>>

\* A copy is one transaction, the signal handler included.
CopyProfile(r, p) ==
    /\ p \notin profiles \cup gone /\ profiles # {} /\ \A q \in Request : job[q].p # p
    /\ Begin(r, [NoJob EXCEPT !.pc = "signal", !.what = "copy", !.p = p])
    /\ Spoil({"profiles"})
    /\ UNCHANGED <<number, gone, profiles, member, owed>>

ReadChannels(r) ==
    /\ At(r, "signal")
    /\ job' = [job EXCEPT ![r].pc = "rows", ![r].chans = Made(number)]
    /\ UNCHANGED <<number, gone, profiles, member, owed, clean, ops>>

\* One insertion for all channels: a row that is there already, or a channel that is not
\* there any more, and none is made.
MakeRows(r) ==
    /\ At(r, "rows")
    /\ LET rows == {job[r].p} \X job[r].chans
           ok == rows \cap member = {} /\ job[r].chans \subseteq Made(number)
                 /\ (job[r].what = "profile" => job[r].p \in profiles) IN
       /\ member' = IF ok THEN member \cup rows ELSE member
       /\ profiles' = IF ok /\ job[r].what = "copy" THEN profiles \cup {job[r].p} ELSE profiles
       /\ owed' = IF ok \/ job[r].what = "profile"
                  THEN owed \cup ({job[r].p} \X Made(number)) ELSE owed
    /\ Finish(r)
    /\ UNCHANGED <<number, gone, clean, ops>>

DeleteProfile(p) ==
    /\ Take /\ p \in profiles
    /\ profiles' = profiles \ {p} /\ gone' = gone \cup {p} /\ member' = {m \in member : m[1] # p}
    /\ Spoil({"profiles"})
    /\ UNCHANGED <<number, owed, job>>

\* Switching a channel on or off makes its row if there is none.
SetMembership(p, c) ==
    /\ Take /\ p \in profiles /\ number[c] # None
    /\ member' = member \cup {<<p, c>>} /\ Spoil({"profiles"})
    /\ UNCHANGED <<number, gone, profiles, owed, job>>

-----------------------------------------------------------------------------
Choices == {None} \cup SUBSET Profile
Next ==
    \/ \E r \in Request :
          \/ ReadNumbers(r) \/ Choose(r) \/ ReadProfiles(r) \/ Commit(r)
          \/ ReadPlaces(r) \/ Shift(r) \/ ReadChannels(r) \/ MakeRows(r)
          \/ \E in \in Choices :
                \/ \E want \in Number \cup {None} :
                      Create(r, want, in) \/ \E start \in {0, One} : FromStream(r, want, start, in)
                \/ \E wants \in Wants, start \in {0, One} \cup Number : BulkCreate(r, wants, start, in)
          \/ \E c \in Channel, after \in Channel \cup {None} : Reorder(r, c, after)
          \/ \E p \in Profile : AddProfile(r, p) \/ CopyProfile(r, p)
    \/ \E c \in Channel :
          \/ DeleteChannel(c)
          \/ \E n \in Number : SetNumber(c, n) \/ \E d \in Channel \ {c} : Assign(<<c, d>>, n)
          \/ \E p \in Profile : SetMembership(p, c)
    \/ \E p \in Profile : DeleteProfile(p)

Spec == Init /\ [][Next]_vars

-----------------------------------------------------------------------------
(* Properties.                                                             *)

\* No two channels have one number (models.py:376), as long as the requests that give out or
\* shift numbers do not overlap, users name no number that is in use, and channels are moved
\* only among whole numbers.
NumbersUnique == "numbers" \in clean => Distinct(number)

\* A channel moved after another comes directly after it, one moved to the beginning comes
\* first, and the others stay in their order (api_views.py:1492), under the same conditions.
Places ==
    \A r \in Request :
        (At(r, "shift") /\ job'[r] = NoJob /\ "numbers" \in clean' /\ number[job[r].c] # None) =>
          LET c == job[r].c
              t == job[r].after
              others == Made(number) \ {c} IN
          /\ \A x, y \in others : number[x] < number[y] <=> number'[x] < number'[y]
          /\ t = None => \A x \in others : number'[c] < number'[x]
          /\ t \in others => /\ number'[t] < number'[c]
                             /\ \A x \in others : ~(number'[t] < number'[x] /\ number'[x] < number'[c])
ReorderPlaces == [][Places]_vars

\* A channel made for all profiles has its row in each (api_views.py:496), and a new profile
\* one for each channel (signals.py:81), as long as the requests that make them do not overlap.
RowsMade ==
    "profiles" \in clean =>
        \A m \in owed : (m[1] \in profiles /\ number[m[2]] # None) => m \in member

\* "Shifts other channels as needed to maintain contiguous ordering" (api_views.py:1495): no
\* two channels end up with one number, when nothing has changed since the request began.
ShiftKeepsApart ==
    [][\A r \in Request :
          (/\ At(r, "shift") /\ job'[r] = NoJob /\ "numbers" \in clean)
             => Distinct(number')]_vars
=============================================================================
