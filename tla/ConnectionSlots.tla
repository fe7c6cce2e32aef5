-------------------------- MODULE ConnectionSlots --------------------------
(***************************************************************************)
(* Provider connection slots of the live TS proxy.                         *)
(*                                                                         *)
(* An M3U account profile allows max_streams concurrent connections.  The  *)
(* uWSGI workers count them in Redis (profile_connections:{profile}) and   *)
(* remember what a channel holds in channel_stream:{channel},              *)
(* stream_profile:{stream} and, as a fallback, in the channel's metadata   *)
(* hash.  A request (a greenlet of some worker) is a sequence of Redis     *)
(* commands; each command, with the local code up to the next one, is one  *)
(* action, so requests interleave exactly where the code lets them.        *)
(***************************************************************************)
EXTENDS Integers, Sequences, FiniteSets

CONSTANTS
    Request,      \* greenlets: client requests, cleanup loops, stream threads
    Channel, Stream, Profile,
    None,         \* a missing Redis key or hash field
    ChanOf,       \* the channel each request works on
    Candidates,   \* per channel, the <<stream, profile>> pairs in the order
                  \* get_stream visits them (stream order, default profile first)
    MaxStreams,   \* M3UAccountProfile.max_streams, 0 meaning unlimited
    RedirectChannels,   \* channels whose stream profile is the redirect one
    Ops,          \* the operations requests may start
    MaxAttempts   \* bound on the attempts the 3 s retry clock allows

AllOps == {"play", "stop", "leave", "switch"}

ASSUME SlotsAssumption ==
    /\ None \notin Stream \cup Profile
    /\ IsFiniteSet(Request)
    /\ ChanOf \in [Request -> Channel]
    /\ Candidates \in [Channel -> Seq(Stream \X Profile)]
    /\ MaxStreams \in [Profile -> Nat]
    /\ RedirectChannels \subseteq Channel
    /\ Ops \subseteq AllOps
    /\ MaxAttempts \in Nat \ {0}

VARIABLES
    channelStream,   \* Redis channel_stream:{channel.id}
    streamProfile,   \* Redis stream_profile:{stream.id}
    connections,     \* Redis profile_connections:{profile.id}
    metaStream,      \* metadata hash field stream_id
    metaProfile,     \* metadata hash field m3u_profile
    running,         \* the owner has a StreamManager for the channel
    current,         \* StreamManager.current_stream_id
    frame            \* per request, where it is and the locals still needed

keys    == <<channelStream, streamProfile>>
meta    == <<metaStream, metaProfile>>
manager == <<running, current>>
vars    == <<keys, connections, meta, manager, frame>>

SwitchLabel == {"sw_scan", "sw_cs", "sw_sp", "sw_test", "sw_take",
                "usp_cs", "usp_sp", "usp_count", "usp_exec", "sw_meta"}

Label ==
    {"idle", "stop", "del_meta"}
      \cup {"get_cs", "get_sp", "reserve", "rollback", "set_cs", "set_sp"}
      \cup {"url", "recheck", "retry", "read_cs", "read_sp", "chosen", "init", "publish"}
      \cup {"rel_cs", "rel_del_cs", "rel_sp", "rel_del_sp", "rel_meta",
            "rel_count", "rel_decr", "rel_hdel"}
      \cup {"fb_stream", "fb_profile", "fb_del_cs", "fb_del_sp",
            "fb_hdel", "fb_count", "fb_decr"}
      \cup SwitchLabel

\* Why get_stream was called, or where release_stream returns to.
ReturnLabel == {"url", "recheck", "retry", "idle", "del_meta"}

Frame == [pc : Label,
          ret : ReturnLabel,
          stream : Stream \cup {None},
          profile : Profile \cup {None},
          index : Nat \ {0},             \* position in Candidates
          attempts : 0..MaxAttempts,
          count : Int,                   \* a counter value read before its use
          oldStream : Stream \cup {None},   \* what a switch finds held
          oldProfile : Profile \cup {None}]

\* A handler or a call starts with fresh locals; one that ends has none.
Fresh(l, back, n) == [pc |-> l, ret |-> back, stream |-> None, profile |-> None,
                      index |-> 1, attempts |-> n, count |-> 0,
                      oldStream |-> None, oldProfile |-> None]
Idle == Fresh("idle", "idle", 0)

Limited(p) == MaxStreams[p] > 0

StreamsOf(c) == {Candidates[c][i][1] : i \in DOMAIN Candidates[c]}

TypeOK ==
    /\ channelStream \in [Channel -> Stream \cup {None}]
    /\ streamProfile \in [Stream -> Profile \cup {None}]
    /\ connections \in [Profile -> Int]
    /\ metaStream \in [Channel -> Stream \cup {None}]
    /\ metaProfile \in [Channel -> Profile \cup {None}]
    /\ running \in [Channel -> BOOLEAN]
    /\ current \in [Channel -> Stream \cup {None}]
    /\ frame \in [Request -> Frame]

Init ==
    /\ channelStream = [c \in Channel |-> None]
    /\ streamProfile = [s \in Stream |-> None]
    /\ connections = [p \in Profile |-> 0]
    /\ metaStream = [c \in Channel |-> None]
    /\ metaProfile = [c \in Channel |-> None]
    /\ running = [c \in Channel |-> FALSE]
    /\ current = [c \in Channel |-> None]
    /\ frame = [r \in Request |-> Idle]

At(r, l) == frame[r].pc = l
Set(f, k, v) == [f EXCEPT ![k] = v]

\* Request r goes on at label l with locals g.
Go(r, g, l) ==
    frame' = Set(frame, r, IF l = "idle" THEN Idle ELSE [g EXCEPT !.pc = l])
Goto(r, l) == Go(r, frame[r], l)

\* A call returns to back; the retry loop keeps its attempt number n.
Call(r, l, back, n) == frame' = Set(frame, r, Fresh(l, back, n))

-----------------------------------------------------------------------------
(* Slips the code could have made.  The actions below the section do not   *)
(* use them: each one, put in the place of its original, breaks a property *)
(* of the runs, which shows that the property depends on that line.        *)

\* The limit is compared with the count before the INCR.
ReserveOffByOne(r) ==
    LET cand == Candidates[ChanOf[r]]
        i    == frame[r].index
        p    == cand[i][2] IN
    /\ At(r, "reserve")
    /\ i \in DOMAIN cand
    /\ connections' = IF Limited(p) THEN Set(connections, p, connections[p] + 1) ELSE connections
    /\ Go(r, [frame[r] EXCEPT !.stream = cand[i][1], !.profile = p],
          IF Limited(p) /\ connections[p] > MaxStreams[p] THEN "rollback" ELSE "set_cs")
    /\ UNCHANGED <<keys, meta, manager>>

\* The INCR that went over the limit stays.
RollbackForgotten(r) ==
    /\ At(r, "rollback")
    /\ Go(r, [frame[r] EXCEPT !.index = @ + 1], "reserve")
    /\ UNCHANGED <<keys, connections, meta, manager>>

\* The profile at its limit is tried again.
RollbackSameProfile(r) ==
    /\ At(r, "rollback")
    /\ connections' = Set(connections, frame[r].profile, connections[frame[r].profile] - 1)
    /\ Goto(r, "reserve")
    /\ UNCHANGED <<keys, meta, manager>>

\* The recovered ids are used without a look.
FallbackProfileUnchecked(r) ==
    /\ At(r, "fb_profile")
    /\ Go(r, [frame[r] EXCEPT !.profile = metaProfile[ChanOf[r]]], "fb_del_cs")
    /\ UNCHANGED <<keys, connections, meta, manager>>

\* The old profile keeps its count.
MoveSlotCountsBoth(r) ==
    LET f == frame[r] IN
    /\ At(r, "usp_exec")
    /\ connections' = Set(connections, f.profile, connections[f.profile] + 1)
    /\ streamProfile' = Set(streamProfile, f.oldStream, f.profile)
    /\ Goto(r, "sw_meta")
    /\ UNCHANGED <<channelStream, meta, manager>>

-----------------------------------------------------------------------------
(* Channel.get_stream: reuse what the channel holds, or reserve a slot.    *)

GetChannelStream(r) ==
    LET held == channelStream[ChanOf[r]] IN
    /\ At(r, "get_cs")
    /\ Go(r, [frame[r] EXCEPT !.stream = held], IF held = None THEN "reserve" ELSE "get_sp")
    /\ UNCHANGED <<keys, connections, meta, manager>>

\* generate_stream_url goes on to build the URL; stream_ts's bare call does not.
Found(r) == IF frame[r].ret = "recheck" THEN "retry" ELSE "url"
\* stream_ts asks get_stream again for the reason after the first failure only.
Refused(r) ==
    IF frame[r].ret # "recheck" /\ frame[r].attempts = 1 THEN "recheck" ELSE "retry"

GetStreamProfile(r) ==
    LET held == streamProfile[frame[r].stream] IN
    /\ At(r, "get_sp")
    /\ Go(r, [frame[r] EXCEPT !.profile = held], IF held = None THEN "reserve" ELSE Found(r))
    /\ UNCHANGED <<keys, connections, meta, manager>>

\* _check_and_reserve_profile_slot for the next candidate: INCR first, then check.
Reserve(r) ==
    LET i    == frame[r].index
        cand == Candidates[ChanOf[r]]
        p    == cand[i][2]
        picked == [frame[r] EXCEPT !.stream = cand[i][1], !.profile = p] IN
    /\ At(r, "reserve")
    /\ i \in DOMAIN cand
    /\ \/ /\ MaxStreams[p] = 0
          /\ Go(r, picked, "set_cs")
          /\ UNCHANGED connections
       \/ /\ MaxStreams[p] # 0
          /\ connections' = Set(connections, p, connections[p] + 1)
          /\ Go(r, picked, IF connections[p] + 1 <= MaxStreams[p] THEN "set_cs" ELSE "rollback")
    /\ UNCHANGED <<keys, meta, manager>>

Rollback(r) ==
    LET p == frame[r].profile IN
    /\ At(r, "rollback")
    /\ connections' = Set(connections, p, connections[p] - 1)
    /\ Go(r, [frame[r] EXCEPT !.index = @ + 1], "reserve")
    /\ UNCHANGED <<keys, meta, manager>>

NoCandidateLeft(r) ==
    /\ At(r, "reserve")
    /\ frame[r].index \notin DOMAIN Candidates[ChanOf[r]]
    /\ Goto(r, Refused(r))
    /\ UNCHANGED <<keys, connections, meta, manager>>

SetChannelStream(r) ==
    /\ At(r, "set_cs")
    /\ channelStream' = Set(channelStream, ChanOf[r], frame[r].stream)
    /\ Goto(r, "set_sp")
    /\ UNCHANGED <<streamProfile, connections, meta, manager>>

SetStreamProfile(r) ==
    /\ At(r, "set_sp")
    /\ streamProfile' = Set(streamProfile, frame[r].stream, frame[r].profile)
    /\ Goto(r, Found(r))
    /\ UNCHANGED <<channelStream, connections, meta, manager>>

GetStream(r) ==
    \/ GetChannelStream(r) \/ GetStreamProfile(r) \/ Reserve(r) \/ Rollback(r)
    \/ NoCandidateLeft(r) \/ SetChannelStream(r) \/ SetStreamProfile(r)

-----------------------------------------------------------------------------
(* stream_ts and ChannelService.initialize_channel: starting a channel.    *)

StartPlay(r) ==
    /\ At(r, "idle")
    /\ "play" \in Ops
    /\ ~running[ChanOf[r]]
    /\ Call(r, "get_cs", "url", 1)
    /\ UNCHANGED <<keys, connections, meta, manager>>

\* The first failure is followed by a bare get_stream() for its reason.
Recheck(r) ==
    /\ At(r, "recheck")
    /\ Call(r, "get_cs", "recheck", frame[r].attempts)
    /\ UNCHANGED <<keys, connections, meta, manager>>

Retry(r) ==
    /\ At(r, "retry")
    /\ frame[r].attempts < MaxAttempts
    /\ Call(r, "get_cs", "url", frame[r].attempts + 1)
    /\ UNCHANGED <<keys, connections, meta, manager>>

\* 503: the clock ran out, or the reason is not retryable.
GiveUp(r) ==
    /\ At(r, "retry")
    /\ Call(r, "rel_cs", "idle", frame[r].attempts)
    /\ UNCHANGED <<keys, connections, meta, manager>>

\* generate_stream_url builds the URL, or releases the slot when that fails.
BuildUrl(r) ==
    /\ At(r, "url")
    /\ Goto(r, "read_cs") \/ Call(r, "rel_cs", Refused(r), frame[r].attempts)
    /\ UNCHANGED <<keys, connections, meta, manager>>

\* stream_ts reads the assignment back rather than keep what get_stream returned.
ReadChannelStream(r) ==
    LET held == channelStream[ChanOf[r]] IN
    /\ At(r, "read_cs")
    /\ Go(r, [frame[r] EXCEPT !.stream = held, !.profile = None],
          IF held = None THEN "chosen" ELSE "read_sp")
    /\ UNCHANGED <<keys, connections, meta, manager>>

ReadStreamProfile(r) ==
    /\ At(r, "read_sp")
    /\ Go(r, [frame[r] EXCEPT !.profile = streamProfile[frame[r].stream]], "chosen")
    /\ UNCHANGED <<keys, connections, meta, manager>>

\* A redirect profile gives the slot back and sends the client to the provider.
Redirect(r) ==
    /\ At(r, "chosen")
    /\ ChanOf[r] \in RedirectChannels
    /\ Call(r, "rel_cs", "idle", frame[r].attempts)
    /\ UNCHANGED <<keys, connections, meta, manager>>

\* A hash field is written only when the value is there ("if stream_id: ...").
Field(h, c, v) == IF v = None THEN h ELSE Set(h, c, v)

PresetStreamId(r) ==
    /\ At(r, "chosen")
    /\ ChanOf[r] \notin RedirectChannels
    /\ metaStream' = Field(metaStream, ChanOf[r], frame[r].stream)
    /\ Goto(r, "init")
    /\ UNCHANGED <<keys, connections, metaProfile, manager>>

\* ProxyServer.initialize_channel: the first starter creates the StreamManager,
\* a later one finds the state active and only attaches.
InitializeChannel(r) ==
    LET c == ChanOf[r]
        fields == Field(metaStream, c, frame[r].stream) IN
    /\ At(r, "init")
    /\ \/ /\ running[c]
          /\ UNCHANGED <<metaStream, manager>>
       \/ /\ ~running[c]
          /\ metaStream' = fields
          /\ running' = Set(running, c, TRUE)
          /\ current' = Set(current, c, fields[c])
    /\ Goto(r, "publish")
    /\ UNCHANGED <<keys, connections, metaProfile>>

\* It fails, and the slot is given back: the request had started the channel for want of
\* a record. (One that found the record of a worker that died keeps it, views.py:257;
\* no worker dies here.)
InitializeFails(r) ==
    /\ At(r, "init")
    /\ Call(r, "rel_cs", "idle", frame[r].attempts)
    /\ UNCHANGED <<keys, connections, meta, manager>>

Publish(r) ==
    /\ At(r, "publish")
    /\ metaStream' = Field(metaStream, ChanOf[r], frame[r].stream)
    /\ metaProfile' = Field(metaProfile, ChanOf[r], frame[r].profile)
    /\ Goto(r, "idle")
    /\ UNCHANGED <<keys, connections, manager>>

Play(r) ==
    \/ StartPlay(r) \/ Recheck(r) \/ Retry(r) \/ GiveUp(r) \/ BuildUrl(r)
    \/ ReadChannelStream(r) \/ ReadStreamProfile(r) \/ Redirect(r)
    \/ PresetStreamId(r) \/ InitializeChannel(r) \/ InitializeFails(r) \/ Publish(r)

-----------------------------------------------------------------------------
(* Channel.release_stream, and the flows that end in it.                   *)

RelChannelStream(r) ==
    LET held == channelStream[ChanOf[r]] IN
    /\ At(r, "rel_cs")
    /\ Go(r, [frame[r] EXCEPT !.stream = held],
          IF held = None THEN "fb_stream" ELSE "rel_del_cs")
    /\ UNCHANGED <<keys, connections, meta, manager>>

DelChannelStream(r, from, to) ==
    /\ At(r, from)
    /\ channelStream' = Set(channelStream, ChanOf[r], None)
    /\ Goto(r, to)
    /\ UNCHANGED <<streamProfile, connections, meta, manager>>

RelStreamProfile(r) ==
    LET held == streamProfile[frame[r].stream] IN
    /\ At(r, "rel_sp")
    /\ Go(r, [frame[r] EXCEPT !.profile = held],
          IF held = None THEN "rel_meta" ELSE "rel_del_sp")
    /\ UNCHANGED <<keys, connections, meta, manager>>

DelStreamProfile(r, from, to) ==
    /\ At(r, from)
    /\ streamProfile' = Set(streamProfile, frame[r].stream, None)
    /\ Goto(r, to)
    /\ UNCHANGED <<channelStream, connections, meta, manager>>

\* stream_profile is gone: the profile may still be in the metadata hash.
RelMetaProfile(r) ==
    LET held == metaProfile[ChanOf[r]] IN
    /\ At(r, "rel_meta")
    /\ Go(r, [frame[r] EXCEPT !.profile = held],
          IF held = None THEN frame[r].ret ELSE "rel_count")
    /\ UNCHANGED <<keys, connections, meta, manager>>

\* The guard of the decrement is a GET of its own.
TestCount(r, from, positive, zero) ==
    /\ At(r, from)
    /\ Goto(r, IF connections[frame[r].profile] > 0 THEN positive ELSE zero)
    /\ UNCHANGED <<keys, connections, meta, manager>>

Decrement(r, from, to) ==
    LET p == frame[r].profile IN
    /\ At(r, from)
    /\ connections' = Set(connections, p, connections[p] - 1)
    /\ Goto(r, to)
    /\ UNCHANGED <<keys, meta, manager>>

ClearMetadata(r, from, to) ==
    /\ At(r, from)
    /\ metaStream' = Set(metaStream, ChanOf[r], None)
    /\ metaProfile' = Set(metaProfile, ChanOf[r], None)
    /\ Goto(r, to)
    /\ UNCHANGED <<keys, connections, manager>>

\* channel_stream is gone: recover stream and profile from the metadata hash.
FallbackStream(r) ==
    /\ At(r, "fb_stream")
    /\ Go(r, [frame[r] EXCEPT !.stream = metaStream[ChanOf[r]]], "fb_profile")
    /\ UNCHANGED <<keys, connections, meta, manager>>

FallbackProfile(r) ==
    LET held == metaProfile[ChanOf[r]] IN
    /\ At(r, "fb_profile")
    /\ Go(r, [frame[r] EXCEPT !.profile = held],
          IF frame[r].stream = None \/ held = None THEN frame[r].ret ELSE "fb_del_cs")
    /\ UNCHANGED <<keys, connections, meta, manager>>

ReleaseByKeys(r) ==
    \/ RelChannelStream(r)
    \/ DelChannelStream(r, "rel_del_cs", "rel_sp")
    \/ RelStreamProfile(r)
    \/ DelStreamProfile(r, "rel_del_sp", "rel_count")
    \/ RelMetaProfile(r)
    \/ TestCount(r, "rel_count", "rel_decr", "rel_hdel")
    \/ Decrement(r, "rel_decr", "rel_hdel")
    \/ ClearMetadata(r, "rel_hdel", frame[r].ret)

ReleaseByMetadata(r) ==
    \/ FallbackStream(r)
    \/ FallbackProfile(r)
    \/ DelChannelStream(r, "fb_del_cs", "fb_del_sp")
    \/ DelStreamProfile(r, "fb_del_sp", "fb_hdel")
    \/ ClearMetadata(r, "fb_hdel", "fb_count")
    \/ TestCount(r, "fb_count", "fb_decr", frame[r].ret)
    \/ Decrement(r, "fb_decr", frame[r].ret)

ReleaseStream(r) == ReleaseByKeys(r) \/ ReleaseByMetadata(r)

\* StreamGenerator._cleanup: the last client of the owner leaves; the
\* StreamManager runs on until the delayed shutdown.
StartLeave(r) ==
    /\ At(r, "idle")
    /\ "leave" \in Ops
    /\ running[ChanOf[r]]
    /\ metaStream[ChanOf[r]] # None
    /\ Call(r, "rel_cs", "idle", 0)
    /\ UNCHANGED <<keys, connections, meta, manager>>

\* Two stops may both have seen the channel running before either acts.
StartStop(r) ==
    /\ At(r, "idle")
    /\ "stop" \in Ops
    /\ running[ChanOf[r]]
    /\ Goto(r, "stop")
    /\ UNCHANGED <<keys, connections, meta, manager>>

\* ProxyServer.stop_channel, then _clean_redis_keys: release, delete the keys.
StopManager(r) ==
    /\ At(r, "stop")
    /\ running' = Set(running, ChanOf[r], FALSE)
    /\ current' = Set(current, ChanOf[r], None)
    /\ Call(r, "rel_cs", "del_meta", 0)
    /\ UNCHANGED <<keys, connections, meta>>

\* ChannelService.stop_channel releases once more after the keys are deleted.
DeleteChannelKeys(r) ==
    /\ At(r, "del_meta")
    /\ metaStream' = Set(metaStream, ChanOf[r], None)
    /\ metaProfile' = Set(metaProfile, ChanOf[r], None)
    /\ Goto(r, "idle") \/ Call(r, "rel_cs", "idle", 0)
    /\ UNCHANGED <<keys, connections, manager>>

Stop(r) == StartLeave(r) \/ StartStop(r) \/ StopManager(r) \/ DeleteChannelKeys(r)

-----------------------------------------------------------------------------
(* StreamManager._try_next_stream: failover to another stream.             *)

\* tried_stream_ids only narrows the choice of the stream.
StartSwitch(r) ==
    LET c == ChanOf[r] IN
    /\ At(r, "idle")
    /\ "switch" \in Ops
    /\ running[c]
    /\ \E s \in StreamsOf(c) \ {current[c]} : Go(r, [Idle EXCEPT !.stream = s], "sw_scan")
    /\ UNCHANGED <<keys, connections, meta, manager>>

\* get_alternate_streams: the first profile of the stream with room.
ScanProfile(r) ==
    LET i    == frame[r].index
        cand == Candidates[ChanOf[r]] IN
    /\ At(r, "sw_scan")
    /\ i \in DOMAIN cand
    /\ \/ /\ cand[i][1] # frame[r].stream
          /\ Go(r, [frame[r] EXCEPT !.index = i + 1], "sw_scan")
       \/ /\ cand[i][1] = frame[r].stream
          /\ Go(r, [frame[r] EXCEPT !.profile = cand[i][2], !.count = connections[cand[i][2]]],
                "sw_cs")
    /\ UNCHANGED <<keys, connections, meta, manager>>

\* The two GETs that tell what the channel holds, for a check or for an update.
ReadHeldStream(r, from, found, missing) ==
    LET held == channelStream[ChanOf[r]] IN
    /\ At(r, from)
    /\ Go(r, [frame[r] EXCEPT !.oldStream = held, !.oldProfile = None],
          IF held = None THEN missing ELSE found)
    /\ UNCHANGED <<keys, connections, meta, manager>>

ReadHeldProfile(r, from, other, same) ==
    LET held == streamProfile[frame[r].oldStream] IN
    /\ At(r, from)
    /\ Go(r, [frame[r] EXCEPT !.oldProfile = held],
          IF held \in {None, frame[r].profile} THEN same ELSE other)
    /\ UNCHANGED <<keys, connections, meta, manager>>

HasRoom(f) ==
    \/ MaxStreams[f.profile] = 0
    \/ f.count - (IF f.oldProfile = f.profile THEN 1 ELSE 0) < MaxStreams[f.profile]

TestProfile(r) ==
    /\ At(r, "sw_test")
    /\ \/ HasRoom(frame[r]) /\ Goto(r, "sw_take")
       \/ ~HasRoom(frame[r]) /\ Go(r, [frame[r] EXCEPT !.index = @ + 1], "sw_scan")
    /\ UNCHANGED <<keys, connections, meta, manager>>

\* No room anywhere, or get_stream_info_for_switch refused, or the same URL.
AbandonSwitch(r) ==
    /\ \/ At(r, "sw_scan") /\ frame[r].index \notin DOMAIN Candidates[ChanOf[r]]
       \/ At(r, "sw_take")
    /\ Goto(r, "idle")
    /\ UNCHANGED <<keys, connections, meta, manager>>

\* update_url moves the slot only when the stream really changes.
TakeStream(r) ==
    /\ At(r, "sw_take")
    /\ Goto(r, IF current[ChanOf[r]] \in {None, frame[r].stream} THEN "sw_meta" ELSE "usp_cs")
    /\ UNCHANGED <<keys, connections, meta, manager>>

\* update_stream_profile: the GET of the old profile's count...
ReadOldCount(r) ==
    /\ At(r, "usp_count")
    /\ Go(r, [frame[r] EXCEPT !.count = connections[frame[r].oldProfile]], "usp_exec")
    /\ UNCHANGED <<keys, connections, meta, manager>>

\* ... and its MULTI/EXEC: DECR the old, SET stream_profile, INCR the new.
MoveSlot(r) ==
    LET f == frame[r] IN
    /\ At(r, "usp_exec")
    /\ connections' = [connections EXCEPT
                          ![f.oldProfile] = IF f.count > 0 THEN @ - 1 ELSE @,
                          ![f.profile] = @ + 1]
    /\ streamProfile' = Set(streamProfile, f.oldStream, f.profile)
    /\ Goto(r, "sw_meta")
    /\ UNCHANGED <<channelStream, meta, manager>>

UpdateStreamProfile(r) ==
    \/ ReadHeldStream(r, "usp_cs", "usp_sp", "sw_meta")
    \/ ReadHeldProfile(r, "usp_sp", "usp_count", "sw_meta")
    \/ ReadOldCount(r)
    \/ MoveSlot(r)

\* The result of update_stream_profile is only logged.
RecordSwitch(r) ==
    LET c == ChanOf[r] IN
    /\ At(r, "sw_meta")
    /\ current' = IF running[c] THEN Set(current, c, frame[r].stream) ELSE current
    /\ metaStream' = Set(metaStream, c, frame[r].stream)
    /\ metaProfile' = Set(metaProfile, c, frame[r].profile)
    /\ Goto(r, "idle")
    /\ UNCHANGED <<keys, connections, running>>

Switch(r) ==
    \/ StartSwitch(r) \/ ScanProfile(r)
    \/ ReadHeldStream(r, "sw_cs", "sw_sp", "sw_test")
    \/ ReadHeldProfile(r, "sw_sp", "sw_test", "sw_test")
    \/ TestProfile(r) \/ AbandonSwitch(r) \/ TakeStream(r)
    \/ UpdateStreamProfile(r) \/ RecordSwitch(r)

-----------------------------------------------------------------------------
Step(r) == GetStream(r) \/ Play(r) \/ ReleaseStream(r) \/ Stop(r) \/ Switch(r)

Next == \E r \in Request : Step(r)

\* A request under way always reaches its next Redis command; starting one
\* is the environment's choice.
Continue(r) == ~At(r, "idle") /\ Step(r)

Spec == Init /\ [][Next]_vars

FairSpec == Spec /\ \A r \in Request : WF_vars(Continue(r))

-----------------------------------------------------------------------------
(* Properties.                                                             *)

UsesStream  == SwitchLabel \cup {"get_sp", "set_cs", "set_sp", "read_sp", "rel_del_cs",
                                "rel_sp", "rel_del_sp", "fb_del_cs", "fb_del_sp"}
UsesProfile == (SwitchLabel \ {"sw_scan"}) \cup
    {"rollback", "set_cs", "set_sp", "rel_del_sp", "rel_count", "rel_decr",
     "fb_del_cs", "fb_del_sp", "fb_hdel", "fb_count", "fb_decr"}

\* The locals f needs at its label are there.
Present(f) ==
    /\ f.pc \in UsesStream => f.stream # None
    /\ f.pc \in UsesProfile => f.profile # None
    /\ f.pc \in {"sw_sp", "usp_sp", "usp_count", "usp_exec"} => f.oldStream # None
    /\ f.pc \in {"usp_count", "usp_exec"} => f.oldProfile # None

Overshoot(p) == {r \in Request : At(r, "rollback") /\ frame[r].profile = p}

\* Apart from increments about to be rolled back, the counter of a limited
\* profile never exceeds max_streams, however many requests race, also on one
\* channel or stream (_check_and_reserve_profile_slot; no failover).
CountWithinLimit ==
    \A p \in Profile :
        Limited(p) => connections[p] - Cardinality(Overshoot(p)) <= MaxStreams[p]

\* The slot the keys and the handler's locals account to the channel of r.
Owed(r) ==
    IF frame[r].pc \in {"rollback", "set_cs", "set_sp", "rel_del_sp", "rel_count", "rel_decr"}
    THEN frame[r].profile
    ELSE IF At(r, "rel_sp") THEN streamProfile[frame[r].stream]
    ELSE IF channelStream[ChanOf[r]] = None THEN None
    ELSE streamProfile[channelStream[ChanOf[r]]]

Owers(p) == {r \in Request : Owed(r) = p}

\* One request per channel at a time, and no stream shared between channels.
Serial ==
    /\ \A q, r \in Request : ChanOf[q] = ChanOf[r] => q = r
    /\ \A c, d \in Channel : c # d => StreamsOf(c) \cap StreamsOf(d) = {}

\* With serial requests the counter is exact: it counts the channels that hold
\* the profile, and no failing or retried start, release or double release
\* loses a slot or frees one twice.
CountExact ==
    \A p \in Profile : Limited(p) => connections[p] = Cardinality(Owers(p))

\* No handler builds a Redis key from a local it has not read or has read as
\* missing (get_stream, release_stream and update_stream_profile return first).
LocalsPresent == \A r \in Request : Present(frame[r])

\* No more channels hold a limited profile than the provider allows.
HoldersWithinLimit ==
    \A p \in Profile :
        Limited(p) => Cardinality(Owers(p) \ Overshoot(p)) <= MaxStreams[p]

AtRest(c) == \A r \in Request : ChanOf[r] = c => At(r, "idle")

\* A channel that neither runs nor is being worked on left nothing behind in
\* the keys or in the fallback fields, so its next start reserves afresh.
StoppedHoldsNothing ==
    \A c \in Channel :
        AtRest(c) /\ ~running[c] =>
            channelStream[c] = None /\ metaStream[c] = None /\ metaProfile[c] = None

\* A running channel holds the slot its provider connection uses.
RunningHoldsSlot ==
    \A c \in Channel :
        AtRest(c) /\ running[c] =>
            /\ channelStream[c] # None
            /\ streamProfile[channelStream[c]] # None
            /\ metaProfile[c] = streamProfile[channelStream[c]]

\* The counter never falls below the number of channels that hold the profile,
\* so a slot in use is never offered to somebody else.
CountCoversHolders ==
    \A p \in Profile :
        Limited(p) /\ (\A c \in Channel : AtRest(c)) =>
            connections[p] >= Cardinality({c \in Channel :
                                              /\ channelStream[c] # None
                                              /\ streamProfile[channelStream[c]] = p})

\* The strengthening that makes CountExact inductive for serial requests
\* without failover: the two keys and the fallback field agree at every label.
Coherent(r) ==
    LET c == ChanOf[r]
        f == frame[r] IN
    /\ {channelStream[c], metaStream[c], f.stream} \subseteq StreamsOf(c) \cup {None}
    /\ f.pc \in {"reserve", "rollback", "set_cs", "rel_sp", "rel_del_sp", "rel_count",
                "rel_decr", "rel_hdel", "fb_stream", "fb_profile"} => channelStream[c] = None
    /\ f.pc \in {"get_sp", "set_sp", "read_sp", "rel_del_cs"} => channelStream[c] = f.stream
    /\ f.pc \in {"get_sp", "set_sp", "url", "read_cs", "read_sp", "chosen", "init", "publish",
                "rel_del_cs"} => channelStream[c] # None
    /\ f.pc \in {"set_cs", "set_sp", "rel_sp", "rel_del_sp"} => f.stream # None
    /\ f.pc \in {"rollback", "set_cs", "set_sp", "rel_del_sp", "rel_count", "rel_decr"} =>
           f.profile # None
    /\ f.pc = "rollback" => Limited(f.profile)
    /\ f.pc = "rel_sp" => streamProfile[f.stream] # None
    /\ channelStream[c] # None /\ f.pc # "set_sp" => streamProfile[channelStream[c]] # None
    /\ metaProfile[c] # None /\ channelStream[c] = None =>
           f.pc \in {"rel_sp", "rel_del_sp", "rel_count", "rel_decr", "rel_hdel"}
    /\ metaStream[c] # None /\ channelStream[c] = None =>
           f.pc \in {"rel_sp", "rel_del_sp", "rel_count", "rel_decr", "rel_hdel"}
    /\ f.pc = "publish" => running[c]
    /\ f.pc = "del_meta" => channelStream[c] = None
    /\ f.pc \in {"rel_cs", "rel_del_cs", "rel_sp", "rel_del_sp", "rel_count", "rel_decr",
                "rel_hdel", "fb_stream", "fb_profile"} => f.ret # "url"
    /\ f.pc \notin SwitchLabel \cup {"rel_meta", "fb_del_cs", "fb_del_sp", "fb_hdel",
                                   "fb_count", "fb_decr"}

SerialInv == \A r \in Request : Coherent(r)

\* With one request to a channel the counters are exactly the slots held, within the limits,
\* and a stopped channel holds none.
SerialSound == SerialInv /\ CountExact /\ HoldersWithinLimit /\ StoppedHoldsNothing

\* The slot the provider would see r hold: an increment about to be undone is none.
Held == [r \in Request |-> IF At(r, "rollback") THEN None ELSE Owed(r)]

\* Serial requests without failover implement the pool of slots: the INCR that
\* stays below the limit takes a slot, the DECR of a release gives it back.
Pool == INSTANCE SlotPool WITH Holder <- Request, held <- Held
PoolSpec == Pool!Spec

\* Every request that starts finishes: retries, scans and releases end.
RequestsFinish == \A r \in Request : ~At(r, "idle") ~> At(r, "idle")
=============================================================================
