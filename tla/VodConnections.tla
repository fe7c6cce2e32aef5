--------------------------- MODULE VodConnections ---------------------------
(***************************************************************************)
(* The VOD proxy: sessions shared by the workers through Redis, the number *)
(* of streams a session has, and the connection slot of the profile that a *)
(* session holds while it has any (multi_worker_connection_manager.py,     *)
(* vod_proxy/views.py).                                                    *)
(*                                                                         *)
(* All requests are for one title and profile; each command, or section    *)
(* under the session's lock, is a step.                                    *)
(***************************************************************************)
EXTENDS Integers, FiniteSets

CONSTANTS
    Session, Request, None,
    SessionOf,      \* the session id in the URL of a request
    Limit,          \* max_streams of the profile, 0 meaning no limit
    Troubles        \* what may go wrong, once in a behaviour; see below

\* "overlap": a request comes while another is connecting
\* "hurry": a cleanup comes due while its session, removed by an earlier one, is
\* made anew
\* "fails": the provider refuses a connection; "range": it cannot serve the
\* range that is asked for
\* "contention": an attempt at the session's lock fails (it does not wait)
Trouble == {"overlap", "hurry", "fails", "range", "contention"}

ASSUME VodAssumption ==
    /\ Troubles \subseteq Trouble /\ Limit \in Nat /\ SessionOf \in [Request -> Session]
    /\ IsFiniteSet(Request) /\ IsFiniteSet(Session) /\ None \notin Nat

VARIABLES
    counter,    \* Redis profile_connections:{profile}
    active,     \* per session, active_streams of its record, None without a record
    pc,         \* per request, where it is
    session,    \* per request, the session it uses
    fresh,      \* per request, it found no record: existing_state is None
    matched,    \* per request, it took over an idle session
    reserved,   \* per request, profile_connections_incremented
    trouble,    \* what may still go wrong, or "none", or "over"
    cleanups    \* sessions with a cleanup that waits its second

request == <<session, fresh, matched, reserved>>
vars == <<counter, active, pc, request, trouble, cleanups>>

Max0(n) == IF n < 0 THEN 0 ELSE n

TypeOK ==
    /\ counter \in Nat
    /\ active \in [Session -> Nat \cup {None}]
    /\ pc \in [Request -> {"idle", "match", "lookup", "reserve", "create", "increment",
                           "again", "open", "save", "start", "stream", "end", "release",
                           "undo", "giveback"}]
    /\ session \in [Request -> Session]
    /\ fresh \in [Request -> BOOLEAN] /\ matched \in [Request -> BOOLEAN]
    /\ reserved \in [Request -> BOOLEAN]
    /\ trouble \in Trouble \cup {"none", "over"} /\ cleanups \subseteq Session

Init ==
    /\ counter = 0 /\ active = [s \in Session |-> None]
    /\ pc = [r \in Request |-> "idle"] /\ session = SessionOf
    /\ fresh = [r \in Request |-> FALSE] /\ matched = fresh /\ reserved = fresh
    /\ trouble \in Troubles \cup {"none"} /\ cleanups = {}

At(r, l) == pc[r] = l
Go(r, l) == pc' = [pc EXCEPT ![r] = l]
Recorded(s) == active[s] # None

\* What can go wrong does, or it does not.
GoesWrong(t) == trouble = t /\ trouble' = "over"
GoesWell == UNCHANGED trouble
Locked(works) == IF works THEN GoesWell ELSE GoesWrong("contention")

Connecting(r) == pc[r] \in {"match", "lookup", "reserve", "create", "increment", "again",
                            "open", "save", "start", "undo", "giveback"}
Streaming(s) == {r \in Request : pc[r] = "stream" /\ session[r] = s}

-----------------------------------------------------------------------------
(* Slips: each breaks one of the properties below in place of its original.*)

\* The generator of a new session leaves the count as it is.
StartUncounted(r) ==
    /\ At(r, "start") /\ Go(r, "stream")
    /\ UNCHANGED <<counter, active, request, trouble, cleanups>>

-----------------------------------------------------------------------------
(* A request finds its session.                                            *)

\* stream_vod: a session with a record keeps its profile, another needs a
\* profile with room.
Arrive(r) ==
    LET s == SessionOf[r] IN
    /\ At(r, "idle")
    /\ Recorded(s) \/ Limit = 0 \/ counter < Limit
    /\ IF \A q \in Request : ~Connecting(q) THEN GoesWell ELSE GoesWrong("overlap")
    /\ Go(r, "match")
    /\ session' = [session EXCEPT ![r] = s]
    /\ fresh' = [fresh EXCEPT ![r] = FALSE]
    /\ matched' = [matched EXCEPT ![r] = FALSE]
    /\ reserved' = [reserved EXCEPT ![r] = FALSE]
    /\ UNCHANGED <<counter, active, cleanups>>

\* find_matching_idle_session: a record of the title, whose viewer may be this
\* one, without streams.
FindIdle(r) ==
    /\ At(r, "match") /\ ~matched[r]
    /\ \/ /\ active[SessionOf[r]] # 0
          /\ Go(r, "lookup") /\ UNCHANGED <<session, matched>>
       \/ \E s \in Session :
             /\ active[s] = 0
             /\ session' = [session EXCEPT ![r] = s]
             /\ matched' = [matched EXCEPT ![r] = TRUE]
             /\ UNCHANGED pc
    /\ UNCHANGED <<trouble, counter, active, fresh, reserved, cleanups>>

\* It is taken at once by incrementing its streams; if that fails the request
\* goes on with its own session.
TakeIdle(r) ==
    LET s == session[r] IN
    /\ At(r, "match") /\ matched[r]
    /\ \E works \in BOOLEAN :
          /\ Locked(works)
          /\ IF works /\ Recorded(s)
             THEN active' = [active EXCEPT ![s] = @ + 1] /\ UNCHANGED <<session, matched>>
             ELSE /\ session' = [session EXCEPT ![r] = SessionOf[r]]
                  /\ matched' = [matched EXCEPT ![r] = FALSE]
                  /\ UNCHANGED active
    /\ Go(r, "lookup")
    /\ UNCHANGED <<counter, fresh, reserved, cleanups>>

Lookup(r) ==
    LET found == Recorded(session[r]) IN
    /\ At(r, "lookup")
    /\ fresh' = [fresh EXCEPT ![r] = ~found]
    /\ Go(r, IF ~found THEN "reserve" ELSE IF matched[r] THEN "again" ELSE "increment")
    /\ UNCHANGED <<trouble, counter, active, session, matched, reserved, cleanups>>

-----------------------------------------------------------------------------
(* It gets a slot, and counts itself if the session has a record.          *)

\* _check_and_reserve_profile_slot, with its rollback.
Room == Limit = 0 \/ counter < Limit
TakeSlot(r) ==
    /\ counter' = IF Limit = 0 THEN counter ELSE counter + 1
    /\ reserved' = [reserved EXCEPT ![r] = TRUE]

Reserve(r) ==
    /\ At(r, "reserve")
    /\ IF Room THEN TakeSlot(r) /\ Go(r, "create")
       ELSE Go(r, "idle") /\ UNCHANGED <<counter, reserved>>
    /\ UNCHANGED <<trouble, active, session, fresh, matched, cleanups>>

\* RedisBackedVODConnection.create_connection; a record that appeared will do.
Create(r) ==
    LET s == session[r] IN
    /\ At(r, "create")
    /\ \E works \in BOOLEAN :
          /\ Locked(works)
          /\ IF works THEN /\ active' = [active EXCEPT ![s] = IF Recorded(s) THEN @ ELSE 0]
                           /\ Go(r, "open")
             ELSE Go(r, "giveback") /\ UNCHANGED active
    /\ UNCHANGED <<counter, request, cleanups>>

\* increment_active_streams tells whether the session was idle: then its slot
\* has been given back.
Increment(r) ==
    LET s == session[r] IN
    /\ At(r, "increment")
    /\ \E works \in BOOLEAN :
          /\ Locked(works)
          /\ IF works /\ Recorded(s)
             THEN /\ active' = [active EXCEPT ![s] = @ + 1]
                  /\ Go(r, IF active[s] = 0 THEN "again" ELSE "open")
             ELSE Go(r, "idle") /\ UNCHANGED active
    /\ UNCHANGED <<counter, request, cleanups>>

ReserveAgain(r) ==
    /\ At(r, "again")
    /\ IF Room THEN TakeSlot(r) /\ Go(r, "open")
       ELSE Go(r, "undo") /\ UNCHANGED <<counter, reserved>>
    /\ UNCHANGED <<trouble, active, session, fresh, matched, cleanups>>

-----------------------------------------------------------------------------
(* It connects to the provider.                                            *)

\* get_stream: no record, or a range that cannot be served; a refusal closes
\* the connection, but leaves the session's count of streams as it is.
Open(r) ==
    LET s == session[r] IN
    /\ At(r, "open")
    /\ \/ Recorded(s) /\ Go(r, "save") /\ GoesWell
       \/ /\ IF Recorded(s) THEN GoesWrong("range") ELSE GoesWell
          /\ Go(r, IF fresh[r] THEN "giveback" ELSE "undo")
       \/ GoesWrong("fails") /\ Go(r, "giveback")
    /\ UNCHANGED <<counter, active, request, cleanups>>

\* The record is written back with the streams it has now; one that was
\* removed meanwhile comes back.
SaveState(r) ==
    LET s == session[r] IN
    /\ At(r, "save")
    /\ \E works \in BOOLEAN :
          /\ Locked(works)
          /\ active' = IF works /\ ~Recorded(s)
                       THEN [active EXCEPT ![s] = IF fresh[r] THEN 0 ELSE 1] ELSE active
    /\ Go(r, IF fresh[r] THEN "start" ELSE "stream")
    /\ UNCHANGED <<counter, request, cleanups>>

\* The generator of a new session counts itself now.
StartStream(r) ==
    LET s == session[r] IN
    /\ At(r, "start")
    /\ \E works \in BOOLEAN :
          /\ Locked(works)
          /\ active' = IF works /\ Recorded(s) THEN [active EXCEPT ![s] = @ + 1] ELSE active
    /\ Go(r, "stream")
    /\ UNCHANGED <<counter, request, cleanups>>

\* decrement_active_streams after a slot that was refused, or no stream.
Undo(r) ==
    LET s == session[r] IN
    /\ At(r, "undo")
    /\ \E works \in BOOLEAN :
          /\ Locked(works)
          /\ active' = IF works /\ Recorded(s) THEN [active EXCEPT ![s] = Max0(@ - 1)]
                       ELSE active
    /\ Go(r, "giveback")
    /\ UNCHANGED <<counter, request, cleanups>>

\* _decrement_profile_connections on the way out.
GiveBack(r) ==
    /\ At(r, "giveback")
    /\ counter' = IF reserved[r] THEN Max0(counter - 1) ELSE counter
    /\ Go(r, "idle")
    /\ UNCHANGED <<trouble, active, request, cleanups>>

-----------------------------------------------------------------------------
(* The stream ends.                                                        *)

\* The content was sent, a stop key was found, the player left or the provider
\* broke off.
Finish(r) ==
    /\ At(r, "stream") /\ Go(r, "end")
    /\ UNCHANGED <<trouble, counter, active, request, cleanups>>

\* decrement_active_streams_and_check, which is tried twice; the last stream
\* gives the slot back, and so does one that finds no record or no streams when
\* its player left.
EndStream(r) ==
    LET s == session[r] IN
    /\ At(r, "end")
    /\ \/ /\ active[s] \notin {None, 0}
          /\ active' = [active EXCEPT ![s] = @ - 1]
          /\ Go(r, IF active[s] = 1 THEN "release" ELSE "idle") /\ GoesWell
       \/ /\ active[s] \in {None, 0}
          /\ \/ Go(r, "release") \/ Go(r, "idle")
          /\ UNCHANGED <<active, trouble>>
       \/ GoesWrong("contention") /\ Go(r, "idle") /\ UNCHANGED active
    /\ UNCHANGED <<counter, request, cleanups>>

\* The slot first, the record a second later.
Release(r) ==
    /\ At(r, "release")
    /\ counter' = Max0(counter - 1)
    /\ cleanups' = cleanups \cup {session[r]}
    /\ Go(r, "idle")
    /\ UNCHANGED <<trouble, active, request>>

\* cleanup looks again under the lock.
Cleanup(s) ==
    /\ s \in cleanups /\ cleanups' = cleanups \ {s}
    /\ IF \E r \in Request : session[r] = s /\ fresh[r] /\ Connecting(r)
       THEN GoesWrong("hurry") ELSE GoesWell
    /\ active' = [active EXCEPT ![s] = IF @ = 0 THEN None ELSE @]
    /\ UNCHANGED <<counter, pc, request>>

\* A record that nobody wrote for an hour.
Expire(s) ==
    /\ Recorded(s) /\ \A r \in Request : pc[r] = "idle" \/ session[r] # s
    /\ active' = [active EXCEPT ![s] = None]
    /\ UNCHANGED <<trouble, counter, pc, request, cleanups>>

-----------------------------------------------------------------------------
Serve(r) ==
    \/ FindIdle(r) \/ TakeIdle(r) \/ Lookup(r)
    \/ Reserve(r) \/ Create(r) \/ Increment(r) \/ ReserveAgain(r)
    \/ Open(r) \/ SaveState(r) \/ StartStream(r) \/ Undo(r) \/ GiveBack(r)
    \/ EndStream(r) \/ Release(r)

Next ==
    \/ \E r \in Request : Arrive(r) \/ Serve(r) \/ Finish(r)
    \/ \E s \in Session : Cleanup(s) \/ Expire(s)

Spec == Init /\ [][Next]_vars

-----------------------------------------------------------------------------
(* Properties.                                                             *)

\* As long as nothing goes wrong, and no request is on its way in or out, every
\* stream is counted in its session ...
Quiet == trouble # "over" /\ \A r \in Request : pc[r] \in {"idle", "stream"}

StreamsCounted ==
    Quiet => \A s \in Session :
                IF Streaming(s) = {} THEN active[s] \in {None, 0}
                ELSE active[s] = Cardinality(Streaming(s))

\* ... and the counter of the profile is the number of sessions that stream.
SlotsCounted ==
    Quiet /\ Limit > 0 => counter = Cardinality({s \in Session : Streaming(s) # {}})

\* As long as nothing goes wrong no cleanup takes the record of a session away
\* from a stream, though they look at the count before the lock and after it.
RecordStays ==
    \A r \in Request : pc[r] = "stream" /\ trouble # "over" => Recorded(session[r])

\* Until then the sessions that stream are no more than the profile has slots,
\* whatever requests arrive between the steps of those that end.
WithinLimit ==
    Limit > 0 /\ trouble # "over" =>
        Cardinality({s \in Session : Streaming(s) # {}}) <= Limit

\* Hence, as long as nothing goes wrong, what the proxy counts are its streams.
VodSound == StreamsCounted /\ SlotsCounted /\ RecordStays /\ WithinLimit
=============================================================================
