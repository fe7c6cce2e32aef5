--------------------------- MODULE StreamFailover ---------------------------
(***************************************************************************)
(* The StreamManager of a channel (stream_manager.py): the thread that     *)
(* connects to the current stream, reads it, retries and goes to the next  *)
(* one; the health monitor that tells it to reconnect or to switch; the    *)
(* switches that other threads make (an administrator's, the one of the    *)
(* stderr reader when ffmpeg is too slow); and the stop.                   *)
(*                                                                         *)
(* A stream stands for its URL, connection slots are in ConnectionSlots.   *)
(***************************************************************************)
EXTENDS Integers, FiniteSets

CONSTANTS
    Stream, Start, None,
    MaxRetries,     \* Config.MAX_RETRIES
    MaxSwitches,    \* Config.MAX_STREAM_SWITCHES
    MaxChecks,      \* max_unhealthy_checks
    Circumstances   \* the circumstances a behaviour may be in

VARIABLES
    given,          \* the circumstances, which do not change
    pc,             \* where run() is
    dialing,        \* the URL a connection is being made to
    url, tried, retries, switches,
    link,           \* the connection the manager holds, None if it holds none
    connected, idle,
    switching,      \* url_switching
    others,         \* what other threads have yet to do: "switch", "stop", once each
    other,          \* what another thread is in the middle of: a stream, "stop", None
    needsReconnect, needsSwitch, healthy, checks, cooling,
    running, stopRequested

flags == <<needsReconnect, needsSwitch>>
monitor == <<healthy, checks, cooling>>
life == <<running, stopRequested>>
meddling == <<others, other>>
counts == <<tried, retries, switches>>
vars == <<given, pc, dialing, url, counts, link, connected, idle,
          switching, others, other, flags, monitor, life>>

\* behaves: per stream, what its connections may do; transcoded: a process reads
\* the stream, not the HTTP reader; adaptive: an HLS URL, which connecting
\* replaces by its rendition.
Circumstance ==
    [behaves : [Stream -> SUBSET {"refuses", "ends", "stalls", "flows"}],
     transcoded : BOOLEAN, adaptive : BOOLEAN]

behaves == given.behaves
Transcoded == given.transcoded
Adaptive == given.adaptive

\* What the configuration and the behaviours that are looked at have to be.
FailoverAssumption ==
    /\ Start \in Stream /\ None \notin Stream /\ Circumstances \subseteq Circumstance
    /\ MaxRetries \in Nat /\ MaxSwitches \in Nat /\ MaxChecks \in Nat
ASSUME FailoverAssumption

\* long: it has been stable for 30 seconds.
Link == [stream : Stream, feed : {"flows", "stalls", "over"}, long : BOOLEAN]

TypeOK ==
    /\ given \in Circumstance
    /\ pc \in {"top", "connect", "open", "read", "failed", "closing", "ended"}
    /\ dialing \in Stream \cup {None} /\ url \in Stream
    /\ tried \subseteq Stream /\ retries \in 0..MaxRetries /\ switches \in 0..MaxSwitches + 1
    /\ link \in Link \cup {None}
    /\ others \subseteq {"switch", "stop"} /\ other \in Stream \cup {None, "stop"}
    /\ checks \in 0..MaxChecks
    /\ connected \in BOOLEAN /\ idle \in BOOLEAN /\ switching \in BOOLEAN
    /\ needsReconnect \in BOOLEAN /\ needsSwitch \in BOOLEAN
    /\ healthy \in BOOLEAN /\ cooling \in BOOLEAN
    /\ running \in BOOLEAN /\ stopRequested \in BOOLEAN

Init ==
    /\ given \in Circumstances
    /\ pc = "top" /\ dialing = None /\ url = Start
    /\ tried = {Start} /\ retries = 0 /\ switches = 0
    /\ link = None /\ connected = FALSE /\ idle = FALSE
    /\ switching = FALSE /\ others \in SUBSET {"switch", "stop"} /\ other = None
    /\ needsReconnect = FALSE /\ needsSwitch = FALSE /\ healthy = TRUE /\ checks = 0
    /\ cooling = FALSE
    /\ running = TRUE /\ stopRequested = FALSE

Untried == Stream \ (tried \cup {url})

\* _close_socket kills the process, or stops the reader: what is left of its
\* output can be read until the end.
Killed(l) == IF l = None THEN None ELSE [l EXCEPT !.feed = "over"]

-----------------------------------------------------------------------------
(* Slips: each breaks one of the properties below in place of its original.*)

\* A failed attempt is not counted.
RetryForever ==
    IF stopRequested \/ ~running THEN pc' = "closing" /\ UNCHANGED retries
    ELSE pc' = "connect" /\ UNCHANGED retries

\* The reading loop ignores the request to switch.
ReadingOn ==
    /\ connected /\ link # None /\ link.feed # "over"
    /\ running /\ ~stopRequested

\* The thread ends without closing its connection.
CloseNothing ==
    /\ pc = "closing"
    /\ pc' = "ended" /\ connected' = FALSE
    /\ UNCHANGED <<given, dialing, url, counts, link, idle, switching,
                   meddling, flags, monitor, life>>

-----------------------------------------------------------------------------
(* run(): the outer loop.                                                  *)

\* update_url without its waits, as run() executes it. (A switch to a bare URL, which
\* names no stream and marks none as tried, is not modelled.)
UpdateUrl(s) ==
    /\ url' = s /\ tried' = tried \cup {s} /\ retries' = 0
    /\ link' = None /\ connected' = FALSE /\ switching' = FALSE

\* _try_next_stream: an untried stream, or none is left. (Each stream can be looked up
\* and has an address of its own; the code passes over those of which this is not so.)
TryNextStream(success, failure) ==
    \/ \E s \in Untried : UpdateUrl(s) /\ success
    \/ Untried = {} /\ failure /\ UNCHANGED <<url, tried, link, connected, switching>>

Leave ==
    /\ pc = "top" /\ (~running \/ switches > MaxSwitches)
    /\ pc' = "closing"
    /\ UNCHANGED <<given, dialing, url, counts, link, connected, idle,
                   switching, meddling, flags, monitor, life>>

InLoop == pc = "top" /\ running /\ switches <= MaxSwitches

\* _attempt_reconnect closes the connection and opens one to the same URL; the
\* loop continues, and will connect once more.  If that fails it switches.
Reconnect ==
    /\ InLoop /\ needsReconnect /\ ~switching
    /\ needsReconnect' = FALSE
    /\ \E f \in behaves[url] :
          /\ link' = IF f = "refuses" THEN None
                     ELSE [stream |-> url, feed |-> IF f = "ends" THEN "over" ELSE f,
                           long |-> FALSE]
          /\ connected' = (f # "refuses")
          /\ needsSwitch' = (needsSwitch \/ f = "refuses")
          /\ healthy' = (healthy \/ (~Transcoded /\ f # "refuses"))
    /\ UNCHANGED <<given, pc, dialing, url, counts, idle, switching, meddling,
                   checks, cooling, life>>

SwitchRequested ==
    /\ InLoop /\ needsSwitch /\ ~switching /\ ~needsReconnect
    /\ needsSwitch' = FALSE
    /\ TryNextStream(switches' = switches + 1 /\ UNCHANGED pc,
                     retries' = 0 /\ pc' = "connect" /\ UNCHANGED switches)
    /\ UNCHANGED <<given, dialing, idle, meddling, needsReconnect, monitor, life>>

\* Nothing requested, and no switch in progress: on to connect.
Proceed ==
    /\ InLoop /\ ~switching /\ ~needsReconnect /\ ~needsSwitch
    /\ retries' = 0 /\ pc' = "connect"
    /\ UNCHANGED <<given, dialing, url, tried, switches, link, connected, idle,
                   switching, meddling, flags, monitor, life>>

-----------------------------------------------------------------------------
(* run(): the retries of one URL.  They do not look at url_switching.      *)

Retrying == running /\ retries < MaxRetries /\ ~needsSwitch

\* The playlist of an HLS stream is fetched before the process is started.
Dial ==
    /\ pc = "connect" /\ Retrying /\ Adaptive
    /\ pc' = "open" /\ dialing' = url
    /\ UNCHANGED <<given, url, counts, link, connected, idle, switching,
                   meddling, flags, monitor, life>>

LeaveRetries ==
    /\ pc = "connect" /\ ~Retrying
    /\ pc' = IF running THEN "top" ELSE "closing"
    /\ UNCHANGED <<given, dialing, url, counts, link, connected, idle,
                   switching, meddling, flags, monitor, life>>

\* Another attempt, or the URL failed; a stop ends the thread.
Retry ==
    IF stopRequested \/ ~running THEN pc' = "closing" /\ UNCHANGED retries
    ELSE /\ retries' = retries + 1
         /\ pc' = IF retries + 1 >= MaxRetries THEN "failed" ELSE "connect"

\* _establish_transcode_connection closes a process it finds; the HTTP reader
\* that is found is left to itself.
Open ==
    /\ \/ pc = "open"
       \/ pc = "connect" /\ Retrying /\ ~Adaptive
    /\ url' = IF Adaptive THEN dialing ELSE url
    /\ dialing' = None
    /\ \E f \in behaves[url'] :
          IF f = "refuses"
          THEN /\ link' = None /\ connected' = FALSE
               /\ Retry /\ UNCHANGED healthy
          ELSE /\ link' = [stream |-> url', feed |-> IF f = "ends" THEN "over" ELSE f,
                           long |-> FALSE]
               /\ connected' = TRUE /\ pc' = "read"
               /\ healthy' = (healthy \/ ~Transcoded)
               /\ UNCHANGED retries
    /\ UNCHANGED <<given, tried, switches, idle, switching, meddling, flags, checks, cooling,
                   life>>

\* The loop of _process_stream_data goes on.
Reading ==
    /\ connected /\ link # None /\ link.feed # "over"
    /\ running /\ ~stopRequested /\ ~needsSwitch

\* Data arrives.
Fetch ==
    /\ pc = "read" /\ Reading /\ link.feed = "flows"
    /\ idle' = FALSE
    /\ \E l \in BOOLEAN : link' = [link EXCEPT !.long = @ \/ l]
    /\ UNCHANGED <<given, pc, dialing, url, counts, connected, switching,
                   meddling, flags, monitor, life>>

\* An end that is read closes the socket; a flag that is seen does not.
StopReading ==
    /\ pc = "read" /\ ~Reading
    /\ connected' = FALSE
    /\ link' = IF connected /\ link # None /\ link.feed = "over" THEN None ELSE link
    /\ IF needsSwitch THEN pc' = "top" /\ UNCHANGED <<retries, switches>>
       ELSE /\ switches' = IF link # None /\ link.long THEN 0 ELSE switches
            /\ Retry
    /\ UNCHANGED <<given, dialing, url, tried, idle, switching, meddling,
                   flags, monitor, life>>

\* The URL failed: another stream, or the end.
UrlFailed ==
    /\ pc = "failed"
    /\ IF running
       THEN TryNextStream(switches' = switches + 1 /\ pc' = "top",
                          pc' = "closing" /\ UNCHANGED <<retries, switches>>)
       ELSE pc' = "closing" /\ UNCHANGED <<url, counts, link, connected, switching>>
    /\ UNCHANGED <<given, dialing, idle, meddling, flags, monitor, life>>

\* The finally block closes what is open.
Close ==
    /\ pc = "closing"
    /\ pc' = "ended" /\ link' = None /\ connected' = FALSE
    /\ UNCHANGED <<given, dialing, url, counts, idle, switching, meddling,
                   flags, monitor, life>>

-----------------------------------------------------------------------------
(* The provider.                                                           *)

\* A connection goes quiet, comes back, or is closed by the other side.
Provider ==
    /\ link # None /\ link.feed # "over"
    /\ \E f \in behaves[link.stream] \ {"refuses"} :
          link' = [link EXCEPT !.feed = IF f = "ends" THEN "over" ELSE f]
    /\ UNCHANGED <<given, pc, dialing, url, counts, connected, idle, switching,
                   meddling, flags, monitor, life>>

\* CONNECTION_TIMEOUT without data.
GoQuiet ==
    /\ connected /\ link # None /\ link.feed = "stalls" /\ ~idle
    /\ idle' = TRUE
    /\ UNCHANGED <<given, pc, dialing, url, counts, link, connected, switching,
                   meddling, flags, monitor, life>>

\* The HTTP reader gives up a read after 30 seconds.
ReadTimeout ==
    /\ ~Transcoded /\ link # None /\ link.feed = "stalls"
    /\ link' = [link EXCEPT !.feed = "over"]
    /\ UNCHANGED <<given, pc, dialing, url, counts, connected, idle, switching,
                   meddling, flags, monitor, life>>

-----------------------------------------------------------------------------
(* _monitor_health.                                                        *)

CheckHealth ==
    /\ running /\ connected
    /\ IF idle
       THEN /\ healthy' = FALSE
            /\ IF checks + 1 < MaxChecks \/ cooling
               THEN /\ checks' = IF checks < MaxChecks THEN checks + 1 ELSE MaxChecks
                    /\ UNCHANGED <<flags, cooling>>
               ELSE /\ checks' = 0
                    /\ IF link # None /\ link.long
                       THEN /\ needsReconnect' = TRUE /\ UNCHANGED needsSwitch
                            /\ cooling' = ~needsReconnect
                       ELSE /\ needsSwitch' = TRUE /\ UNCHANGED needsReconnect
                            /\ cooling' = ~needsSwitch
       ELSE /\ healthy' = TRUE /\ checks' = 0 /\ UNCHANGED cooling
            /\ IF healthy THEN UNCHANGED flags
               ELSE needsReconnect' = FALSE /\ needsSwitch' = FALSE
    /\ UNCHANGED <<given, pc, dialing, url, counts, link, connected, idle,
                   switching, meddling, life>>

\* action_cooldown: by then a connection that works has brought data.
CoolDown ==
    /\ cooling /\ ~(idle /\ link # None /\ link.feed = "flows")
    /\ cooling' = FALSE
    /\ UNCHANGED <<given, pc, dialing, url, counts, link, connected, idle,
                   switching, meddling, flags, healthy, checks, life>>

-----------------------------------------------------------------------------
(* Other threads.  Between the kill and the rest they wait for the process *)
(* or the reader.                                                          *)

\* update_url by an administrator, to any stream, or by the stderr reader when
\* ffmpeg is slower than the stream, to an untried one.
BeginSwitch ==
    /\ "switch" \in others /\ other = None /\ running
    /\ others' = others \ {"switch"}
    /\ other' \in (Stream \ {url})
    /\ switching' = TRUE /\ link' = Killed(link)
    /\ UNCHANGED <<given, pc, dialing, url, counts, connected, idle, flags,
                   monitor, life>>

EndSwitch ==
    /\ other \in Stream /\ other' = None /\ UNCHANGED others
    /\ UpdateUrl(other)
    /\ UNCHANGED <<given, pc, dialing, switches, idle, flags, monitor, life>>

BeginStop ==
    /\ "stop" \in others /\ other = None /\ running
    /\ others' = others \ {"stop"}
    /\ other' = "stop" /\ stopRequested' = TRUE /\ link' = Killed(link)
    /\ UNCHANGED <<given, pc, dialing, url, counts, connected, idle, switching,
                   flags, monitor, running>>

EndStop ==
    /\ other = "stop" /\ other' = None /\ UNCHANGED others
    /\ running' = FALSE /\ link' = None /\ connected' = FALSE
    /\ UNCHANGED <<given, pc, dialing, url, counts, idle, switching, flags, monitor,
                   stopRequested>>

-----------------------------------------------------------------------------
Run ==
    \/ Leave \/ Reconnect \/ SwitchRequested \/ Proceed
    \/ Dial \/ LeaveRetries \/ Open \/ Fetch \/ StopReading \/ UrlFailed \/ Close

Next ==
    \/ Run \/ Provider \/ GoQuiet \/ ReadTimeout \/ CheckHealth \/ CoolDown
    \/ BeginSwitch \/ EndSwitch \/ BeginStop \/ EndStop

Spec == Init /\ [][Next]_vars

\* The threads run, and time passes; the provider owes nothing.
FairSpec ==
    /\ Spec
    /\ WF_vars(Run) /\ WF_vars(GoQuiet) /\ WF_vars(ReadTimeout)
    /\ WF_vars(CheckHealth) /\ WF_vars(CoolDown)
    /\ WF_vars(EndSwitch) /\ WF_vars(EndStop)

-----------------------------------------------------------------------------
(* Properties.                                                             *)

\* Failover knows every stream it may have come from: whoever switched, the
\* current stream counts as tried, so that run() never returns to it.
CurrentTried == url \in tried /\ (link # None => link.stream \in tried)

\* A thread that ended left no connection with the manager.
EndedHoldsNothing == pc = "ended" => link = None /\ ~connected

\* Failover never returns to a stream it has tried, and a thread that ended holds
\* nothing.
FailoverSound == TypeOK /\ CurrentTried /\ EndedHoldsNothing

\* A stop ends the thread, and every connection but those of a stalled process
\* nobody holds.
StopWorks == stopRequested ~> pc = "ended" /\ link = None

\* A request to switch is heeded, or taken back by the data that came.
SwitchHeeded == needsSwitch ~> ~needsSwitch \/ pc = "ended"

\* Streams that all fail are given up; they are not tried for ever.
GivesUp ==
    (\A s \in Stream : behaves[s] \subseteq {"refuses", "ends"})
        ~> pc = "ended"

\* With a stream that works, and nobody who interferes, the channel gets to it.
\* (A switch that comes when the retries are used up is overruled by run().)
FindsWorking ==
    (~Adaptive /\ others = {} /\ \E s \in Stream : behaves[s] = {"flows"} /\
        \A t \in Stream \ {s} : behaves[t] = {"stalls"} \/ behaves[t] \subseteq {"refuses", "ends"})
        => <>(pc = "read" /\ behaves[url] = {"flows"})
=============================================================================
