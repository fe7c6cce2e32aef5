---------------------------- MODULE ChannelOrder ----------------------------
(***************************************************************************)
(* The arithmetic of channel numbers (apps/channels/models.py, api_views.py*)
(* and tasks.py). A number is a float; here it counts halves, so that 4 is *)
(* channel 2 and 5 is channel 2.5. A channel that does not exist has the   *)
(* number None.                                                            *)
(***************************************************************************)
EXTENDS Integers, FiniteSets, Sequences

CONSTANTS Channel, None

One == 2
Whole(n) == n % One = 0
Made(number) == {c \in Channel : number[c] # None}
Used(number) == {number[c] : c \in Made(number)}

\* The first of n, n + 1, ... that is not used.
NextFree(n, used) ==
    n + One * (CHOOSE k \in 0 .. Cardinality(used) :
                 /\ n + One * k \notin used
                 /\ \A i \in 0 .. k - 1 : n + One * i \in used)

\* int(n) + 1, of a target's number or of the highest one.
After(n) == (n - (n % One)) + One
Highest(used) == CHOOSE n \in used : \A m \in used : m <= n
AfterAll(used) == IF used = {} THEN One ELSE After(Highest(used))

\* Slip: a channel that moves down leaves the ones it passes where they are.
MovedOverwriting(number, c, old, desired) ==
    [x \in Channel |->
        IF number[x] = None THEN None
        ELSE IF x = c THEN IF desired > old THEN desired - One ELSE desired
        ELSE IF desired <= number[x] /\ number[x] < old THEN number[x] + One
        ELSE number[x]]

\* Channel c, with number old, moved to where desired is: the channels it passes make room.
Moved(number, c, old, desired) ==
    [x \in Channel |->
        IF number[x] = None THEN None
        ELSE IF x = c THEN IF desired > old THEN desired - One ELSE desired
        ELSE IF desired <= number[x] /\ number[x] < old THEN number[x] + One
        ELSE IF old < number[x] /\ number[x] < desired /\ desired > old + One
        THEN number[x] - One
        ELSE number[x]]

\* Slip: the numbers picked for the streams before are forgotten.
PickedApart(wants, start, used, now) ==
    [i \in DOMAIN wants |->
        IF wants[i] # None /\ wants[i] \notin used \cup now THEN wants[i] ELSE NextFree(start, used)]

\* A number for each of a list of streams: the one it wants, if nothing had it at the start
\* (used) and nothing has it now, or the next free one.
Picked(wants, start, used, now) ==
    LET picked[i \in 0 .. Len(wants)] ==
            IF i = 0 THEN <<>>
            ELSE LET taken == used \cup {picked[i - 1][j] : j \in 1 .. i - 1} IN
                 Append(picked[i - 1],
                        IF wants[i] # None /\ wants[i] \notin taken \cup now
                        THEN wants[i] ELSE NextFree(start, taken))
    IN picked[Len(wants)]

Distinct(number) ==
    \A x, y \in Made(number) : number[x] = number[y] => x = y
=============================================================================
