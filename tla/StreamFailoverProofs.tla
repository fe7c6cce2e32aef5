------------------------ MODULE StreamFailoverProofs ------------------------
(***************************************************************************)
(* Proofs about StreamFailover, for any streams, provider and limits on    *)
(* retries, switches and checks: whoever switches, and whenever, run()     *)
(* knows every stream it may have come from; the counters stay within the  *)
(* limits; and a thread that ended holds no connection.                    *)
(***************************************************************************)
EXTENDS StreamFailover, TLAPS

\* Between its test of the retries and the outcome a URL has a retry left, and
\* inside an iteration of the outer loop the thread has a switch left.
Counted ==
    /\ retries \in 0..MaxRetries /\ switches \in 0..MaxSwitches + 1
    /\ pc \in {"open", "read"} => retries < MaxRetries
    /\ pc \in {"connect", "open", "read", "failed"} => switches <= MaxSwitches

\* The URL that is being dialled may be the current one no more when it is
\* opened, and makes itself current again: it too must count as tried.  After
\* its finally block the thread makes no connection, others only take one away.
Tracked ==
    /\ url \in Stream /\ tried \subseteq Stream
    /\ dialing \in Stream \cup {None} /\ link \in Link \cup {None}
    /\ pc = "open" => dialing \in Stream /\ Adaptive
    /\ dialing # None => dialing \in tried
    /\ CurrentTried /\ EndedHoldsNothing

Flagged ==
    /\ given \in Circumstance
    /\ pc \in {"top", "connect", "open", "read", "failed", "closing", "ended"}
    /\ others \subseteq {"switch", "stop"} /\ other \in Stream \cup {None, "stop"}
    /\ checks \in 0..MaxChecks
    /\ connected \in BOOLEAN /\ idle \in BOOLEAN /\ switching \in BOOLEAN
    /\ needsReconnect \in BOOLEAN /\ needsSwitch \in BOOLEAN
    /\ healthy \in BOOLEAN /\ cooling \in BOOLEAN
    /\ running \in BOOLEAN /\ stopRequested \in BOOLEAN

IInv == Counted /\ Tracked /\ Flagged

LEMMA WhatFollows == IInv => TypeOK /\ CurrentTried /\ EndedHoldsNothing
  BY DEF IInv, Counted, Tracked, Flagged, TypeOK

-----------------------------------------------------------------------------
\* The behaviours of a stream are its provider's.
LEMMA BehavesType ==
    ASSUME given \in Circumstance, NEW s \in Stream, NEW f \in behaves[s]
    PROVE  f \in {"refuses", "ends", "stalls", "flows"}
  BY DEF Circumstance, behaves

\* A connection that is made has the type of one.
LEMMA LinkMade ==
    ASSUME NEW s \in Stream, NEW f \in {"refuses", "ends", "stalls", "flows"}, f # "refuses"
    PROVE  /\ [stream |-> s, feed |-> IF f = "ends" THEN "over" ELSE f, long |-> FALSE] \in Link
           /\ [stream |-> s, feed |-> IF f = "ends" THEN "over" ELSE f, long |-> FALSE].stream = s
  BY DEF Link

LEMMA LinkChanged ==
    ASSUME NEW k \in Link, NEW f \in {"flows", "stalls", "over"}, NEW l \in BOOLEAN
    PROVE  /\ [k EXCEPT !.feed = f] \in Link /\ [k EXCEPT !.feed = f].stream = k.stream
           /\ [k EXCEPT !.long = l] \in Link /\ [k EXCEPT !.long = l].stream = k.stream
  BY DEF Link

LEMMA KilledType ==
    ASSUME NEW k \in Link \cup {None}
    PROVE  /\ Killed(k) \in Link \cup {None}
           /\ Killed(k) # None => k # None /\ Killed(k).stream = k.stream
  BY LinkChanged DEF Killed

-----------------------------------------------------------------------------
LEMMA InitInv == ASSUME FailoverAssumption, Init PROVE IInv
<1>1. pc = "top" /\ pc # "ended" /\ given \in Circumstance
  BY DEF FailoverAssumption, Init
<1>2. /\ connected \in BOOLEAN /\ idle \in BOOLEAN /\ switching \in BOOLEAN
      /\ needsReconnect \in BOOLEAN /\ needsSwitch \in BOOLEAN
      /\ healthy \in BOOLEAN /\ cooling \in BOOLEAN
      /\ running \in BOOLEAN /\ stopRequested \in BOOLEAN
  BY DEF Init
<1>3. /\ dialing = None /\ url = Start /\ tried = {Start} /\ retries = 0 /\ switches = 0
      /\ link = None /\ others \subseteq {"switch", "stop"} /\ other = None /\ checks = 0
  BY DEF Init
<1>4. Counted
  BY <1>1, <1>3 DEF Counted, FailoverAssumption
<1>5. Tracked
  BY <1>1, <1>3 DEF Tracked, CurrentTried, EndedHoldsNothing, FailoverAssumption
<1>6. Flagged
  BY <1>1, <1>2, <1>3 DEF Flagged, FailoverAssumption
<1> QED
  BY <1>4, <1>5, <1>6 DEF IInv

-----------------------------------------------------------------------------
USE DEF vars, counts, flags, monitor, life, meddling

LEMMA StepInv == ASSUME FailoverAssumption, IInv, [Next]_vars PROVE IInv'
<1> USE DEF IInv, Counted, Tracked, Flagged, CurrentTried, EndedHoldsNothing, Adaptive
<1>1. CASE UNCHANGED vars
  BY <1>1
<1>2. CASE Leave
  BY <1>2 DEF Leave
<1>3. CASE Reconnect
  <2>1. PICK f \in behaves[url] :
           /\ link' = IF f = "refuses" THEN None
                      ELSE [stream |-> url, feed |-> IF f = "ends" THEN "over" ELSE f,
                            long |-> FALSE]
           /\ connected' = (f # "refuses")
           /\ needsSwitch' = (needsSwitch \/ f = "refuses")
           /\ healthy' = (healthy \/ (~Transcoded /\ f # "refuses"))
    BY <1>3 DEF Reconnect
  <2>2. /\ link' \in Link \cup {None}
        /\ link' # None => link'.stream = url
    BY <2>1, BehavesType, LinkMade
  <2>3. /\ connected' \in BOOLEAN /\ needsSwitch' \in BOOLEAN
        /\ healthy' \in BOOLEAN /\ needsReconnect' \in BOOLEAN
    BY <1>3, <2>1 DEF Reconnect
  <2>4. /\ pc = "top"
        /\ UNCHANGED <<given, pc, dialing, url, counts, idle, switching, meddling,
                       checks, cooling, life>>
    BY <1>3 DEF Reconnect, InLoop
  <2> QED
    BY <2>2, <2>3, <2>4
<1>4. CASE SwitchRequested
  <2>1. /\ pc = "top" /\ switches <= MaxSwitches /\ needsSwitch' = FALSE
        /\ UNCHANGED <<given, dialing, idle, meddling, needsReconnect, monitor, life>>
    BY <1>4 DEF SwitchRequested, InLoop
  <2>2. CASE \E s \in Untried : UpdateUrl(s) /\ switches' = switches + 1 /\ UNCHANGED pc
    <3>1. PICK s \in Stream : UpdateUrl(s) /\ switches' = switches + 1 /\ UNCHANGED pc
      BY <2>2 DEF Untried
    <3>2. Counted'
      BY <2>1, <3>1 DEF UpdateUrl, FailoverAssumption
    <3>3. Tracked'
      BY <2>1, <3>1 DEF UpdateUrl
    <3>4. Flagged'
      BY <2>1, <3>1 DEF UpdateUrl
    <3> QED
      BY <3>2, <3>3, <3>4
  <2>3. CASE /\ retries' = 0 /\ pc' = "connect" /\ UNCHANGED switches
             /\ UNCHANGED <<url, tried, link, connected, switching>>
    <3>1. Counted'
      BY <2>1, <2>3 DEF FailoverAssumption
    <3>2. Tracked'
      BY <2>1, <2>3
    <3>3. Flagged'
      BY <2>1, <2>3
    <3> QED
      BY <3>1, <3>2, <3>3
  <2> QED
    BY <1>4, <2>2, <2>3 DEF SwitchRequested, TryNextStream
<1>5. CASE Proceed
  BY <1>5 DEF Proceed, InLoop, FailoverAssumption
<1>6. CASE Dial
  BY <1>6 DEF Dial, Retrying
<1>7. CASE LeaveRetries
  BY <1>7 DEF LeaveRetries
<1>8. CASE Open
  <2>1. PICK f \in behaves[url'] :
          IF f = "refuses"
          THEN /\ link' = None /\ connected' = FALSE
               /\ Retry /\ UNCHANGED healthy
          ELSE /\ link' = [stream |-> url', feed |-> IF f = "ends" THEN "over" ELSE f,
                           long |-> FALSE]
               /\ connected' = TRUE /\ pc' = "read"
               /\ healthy' = (healthy \/ ~Transcoded)
               /\ UNCHANGED retries
    BY <1>8 DEF Open
  <2>2. /\ pc \in {"open", "connect"} /\ retries < MaxRetries
        /\ url' \in Stream /\ url' \in tried /\ dialing' = None
        /\ UNCHANGED <<given, tried, switches, idle, switching, meddling, flags, checks,
                       cooling, life>>
    <3>1. /\ pc \in {"open", "connect"} /\ dialing' = None
          /\ url' = IF Adaptive THEN dialing ELSE url
          /\ UNCHANGED <<given, tried, switches, idle, switching, meddling, flags, checks,
                         cooling, life>>
      BY <1>8 DEF Open
    <3>2. retries < MaxRetries
      BY <1>8 DEF Open, Retrying
    <3>3. Adaptive => pc = "open"
      BY <1>8 DEF Open
    <3>4. url' \in Stream /\ url' \in tried
      <4>1. CASE Adaptive
        BY <3>1, <3>3, <4>1 DEF FailoverAssumption
      <4>2. CASE ~Adaptive
        BY <3>1, <4>2
      <4> QED
        BY <4>1, <4>2
    <3> QED
      BY <3>1, <3>2, <3>4
  <2>3. /\ link' \in Link \cup {None}
        /\ link' # None => link'.stream = url'
    <3>1. f \in {"refuses", "ends", "stalls", "flows"}
      BY <2>2, BehavesType
    <3> HIDE DEF Counted, Tracked, Flagged
    <3> QED
      BY <2>1, <2>2, <3>1, LinkMade, ZenonT(60)
  <2>4. /\ pc' \in {"closing", "failed", "connect", "read"}
        /\ retries' \in 0..MaxRetries /\ (pc' = "read" => retries' < MaxRetries)
    BY <2>1, <2>2 DEF Retry, FailoverAssumption
  <2>5. connected' \in BOOLEAN /\ healthy' \in BOOLEAN
    BY <2>1
  <2>6. Counted'
    BY <2>2, <2>4
  <2>7. Tracked'
    BY <2>2, <2>3, <2>4
  <2>8. Flagged'
    BY <2>2, <2>4, <2>5
  <2> QED
    BY <2>6, <2>7, <2>8
<1>9. CASE Fetch
  <2>1. /\ pc = "read" /\ idle' = FALSE /\ link # None
        /\ \E l \in BOOLEAN : link' = [link EXCEPT !.long = l]
        /\ UNCHANGED <<given, pc, dialing, url, counts, connected, switching,
                       meddling, flags, monitor, life>>
    <3>1. PICK l \in BOOLEAN : link' = [link EXCEPT !.long = @ \/ l]
      BY <1>9 DEF Fetch
    <3>2. link.long \/ l \in BOOLEAN
      OBVIOUS
    <3> QED
      BY <1>9, <3>1, <3>2 DEF Fetch, Reading
  <2>2. link' \in Link /\ link'.stream = link.stream
    BY <2>1, LinkChanged, ZenonT(60)
  <2> QED
    BY <2>1, <2>2, ZenonT(60)
<1>10. CASE StopReading
  <2>1. /\ pc = "read" /\ connected' = FALSE
        /\ link' \in {link, None}
        /\ UNCHANGED <<given, dialing, url, tried, idle, switching, meddling, flags,
                       monitor, life>>
    BY <1>10 DEF StopReading
  <2>2. /\ pc' \in {"top", "closing", "failed", "connect"}
        /\ retries' \in 0..MaxRetries
        /\ switches' \in {0, switches}
    BY <1>10 DEF StopReading, Retry, FailoverAssumption
  <2>3. Counted'
    BY <2>1, <2>2 DEF FailoverAssumption
  <2>4. Tracked'
    BY <2>1, <2>2
  <2>5. Flagged'
    BY <2>1, <2>2, ZenonT(60)
  <2> QED
    BY <2>3, <2>4, <2>5
<1>11. CASE UrlFailed
  <2>1. /\ pc = "failed"
        /\ UNCHANGED <<given, dialing, idle, meddling, flags, monitor, life>>
    BY <1>11 DEF UrlFailed
  <2>2. CASE \E s \in Untried : UpdateUrl(s) /\ switches' = switches + 1 /\ pc' = "top"
    <3>1. PICK s \in Stream : UpdateUrl(s) /\ switches' = switches + 1 /\ pc' = "top"
      BY <2>2 DEF Untried
    <3>2. Counted'
      BY <2>1, <3>1 DEF UpdateUrl, FailoverAssumption
    <3>3. Tracked'
      BY <2>1, <3>1 DEF UpdateUrl
    <3>4. Flagged'
      BY <2>1, <3>1 DEF UpdateUrl
    <3> QED
      BY <3>2, <3>3, <3>4
  <2>3. CASE pc' = "closing" /\ UNCHANGED <<url, counts, link, connected, switching>>
    BY <2>1, <2>3
  <2> QED
    BY <1>11, <2>2, <2>3 DEF UrlFailed, TryNextStream
<1>12. CASE Close
  BY <1>12, ZenonT(60) DEF Close
<1>13. CASE Provider
  <2>1. PICK f \in behaves[link.stream] \ {"refuses"} :
           link' = [link EXCEPT !.feed = IF f = "ends" THEN "over" ELSE f]
    BY <1>13 DEF Provider
  <2>2. /\ link # None /\ link \in Link /\ link.stream \in Stream
        /\ UNCHANGED <<given, pc, dialing, url, counts, connected, idle, switching,
                       meddling, flags, monitor, life>>
    BY <1>13 DEF Provider, Link
  <2>3. f \in {"ends", "stalls", "flows"}
    BY <2>1, <2>2, BehavesType
  <2>4. link' \in Link /\ link'.stream = link.stream
    BY <2>1, <2>2, <2>3, LinkChanged
  <2>5. Tracked'
    BY <2>2, <2>4
  <2> QED
    BY <2>2, <2>5
<1>14. CASE GoQuiet
  BY <1>14 DEF GoQuiet
<1>15. CASE ReadTimeout
  <2>1. /\ link # None /\ link' = [link EXCEPT !.feed = "over"]
        /\ UNCHANGED <<given, pc, dialing, url, counts, connected, idle, switching,
                       meddling, flags, monitor, life>>
    BY <1>15 DEF ReadTimeout
  <2>2. link' \in Link /\ link'.stream = link.stream
    BY <2>1, LinkChanged
  <2> QED
    BY <2>1, <2>2
<1>16. CASE CheckHealth
  <2>1. UNCHANGED <<given, pc, dialing, url, counts, link, connected, idle,
                    switching, meddling, life>>
    BY <1>16 DEF CheckHealth
  <2>2. checks' \in 0..MaxChecks
    BY <1>16 DEF CheckHealth, FailoverAssumption
  <2>3. healthy' \in BOOLEAN
    BY <1>16 DEF CheckHealth
  <2>4. needsReconnect' \in BOOLEAN /\ needsSwitch' \in BOOLEAN
    BY <1>16 DEF CheckHealth
  <2>5. cooling' \in BOOLEAN
    BY <1>16 DEF CheckHealth
  <2> QED
    BY <2>1, <2>2, <2>3, <2>4, <2>5
<1>17. CASE CoolDown
  <2>1. /\ cooling' = FALSE
        /\ UNCHANGED <<given, pc, dialing, url, counts, link, connected, idle,
                       switching, meddling, flags, healthy, checks, life>>
    BY <1>17 DEF CoolDown
  <2>2. Counted' /\ Tracked'
    BY <2>1
  <2>3. Flagged'
    BY <2>1, ZenonT(60)
  <2> QED
    BY <2>2, <2>3
<1>18. CASE BeginSwitch
  BY <1>18, KilledType DEF BeginSwitch
<1>19. CASE EndSwitch
  <2>1. /\ other \in Stream /\ other' = None
        /\ url' = other /\ tried' = tried \cup {other} /\ retries' = 0
        /\ link' = None /\ connected' = FALSE /\ switching' = FALSE
        /\ UNCHANGED <<others, given, pc, dialing, switches, idle, flags, monitor, life>>
    BY <1>19 DEF EndSwitch, UpdateUrl
  <2>2. Counted'
    BY <2>1 DEF FailoverAssumption
  <2>3. Tracked'
    BY <2>1
  <2>4. Flagged'
    BY <2>1
  <2> QED
    BY <2>2, <2>3, <2>4
<1>20. CASE BeginStop
  BY <1>20, KilledType DEF BeginStop
<1>21. CASE EndStop
  <2>1. /\ running' = FALSE /\ link' = None /\ connected' = FALSE /\ other' = None
        /\ UNCHANGED <<others, given, pc, dialing, url, counts, idle, switching, flags,
                       monitor, stopRequested>>
    BY <1>21 DEF EndStop
  <2>2. Counted' /\ Tracked'
    BY <2>1
  <2>3. Flagged'
    BY <2>1
  <2> QED
    BY <2>2, <2>3
<1> QED
  BY <1>1, <1>2, <1>3, <1>4, <1>5, <1>6, <1>7, <1>8, <1>9, <1>10, <1>11, <1>12, <1>13,
     <1>14, <1>15, <1>16, <1>17, <1>18, <1>19, <1>20, <1>21 DEF Next, Run

-----------------------------------------------------------------------------
LEMMA Inductive == ASSUME FailoverAssumption PROVE Spec => []IInv
<1>1. Init => IInv
  BY InitInv
<1>2. IInv /\ [Next]_vars => IInv'
  BY StepInv
<1> QED
  BY <1>1, <1>2, PTL DEF Spec

\* The variables keep their types, the counters among them: run() never makes more
\* attempts at a URL, nor starts more switches, than it is configured to, with an
\* administrator, the stderr reader and the monitor interfering.
THEOREM TypeInvariant == ASSUME FailoverAssumption PROVE Spec => []TypeOK
  BY Inductive, WhatFollows, PTL

\* Failover knows every stream it may have come from (tried_stream_ids): the
\* current stream and that of the connection count as tried, whoever switched.
THEOREM TriedKnown == ASSUME FailoverAssumption PROVE Spec => []CurrentTried
  BY Inductive, WhatFollows, PTL

\* A thread that ended left no connection with the manager (the finally block of run()).
THEOREM NothingHeldAtEnd == ASSUME FailoverAssumption PROVE Spec => []EndedHoldsNothing
  BY Inductive, WhatFollows, PTL

\* The three together: the thread of run(), and all that interferes with it, keep their types,
\* failover never returns to a stream it has tried, and a thread that ended holds nothing.
THEOREM FailoverIsSound == Spec => []FailoverSound
  BY FailoverAssumption, TypeInvariant, TriedKnown, NothingHeldAtEnd, PTL DEF FailoverSound
=============================================================================
