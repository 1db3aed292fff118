----------------------------- MODULE VideoService -----------------------------
(***************************************************************************)
(* One video service of the controlled side: the subscriber registry of    *)
(* server/service.rs, the capture thread that server/video_service.rs runs *)
(* on it, and the connections that subscribe through server.rs.            *)
(*                                                                         *)
(* The registry is one RwLock.  Each critical section is a step of its     *)
(* own, so a snapshot (a read of new_subscribes, the callback, the swap in *)
(* ServiceSwap::drop) is interleaved with the connections.  Operations of  *)
(* connections exclude each other: they hold the Server's write lock, the  *)
(* variable op is the one holding it.                                      *)
(*                                                                         *)
(* Frames are abstracted to key or delta; the display geometry to whether  *)
(* it differs from the one the running capturer was created for.           *)
(***************************************************************************)
EXTENDS Naturals, FiniteSets

CONSTANTS Conns,        \* connection ids, Server::get_new_id never reuses one
          KeyInterval,  \* key frame distance of the encoder (120 or 240)
          RepeatMax,    \* repeat_encode_max (3)
          MaxCalls,     \* bound: refresh and subscribe requests of the peers
          MaxSwitch,    \* bound: changes of codec, display, privacy mode, errors
          EncodeFails   \* whether encode_to_message may fail

ASSUME VideoAssumption ==
    /\ KeyInterval \in Nat \ {0}
    /\ RepeatMax \in Nat /\ MaxCalls \in Nat /\ MaxSwitch \in Nat
    /\ EncodeFails \in BOOLEAN

VARIABLES
    subs, news,     \* ServiceInner.subscribes, new_subscribes
    active,         \* ServiceInner.active
    refresh,        \* OPTION_REFRESH
    conn,           \* "new", "in" (Server.connections) or "closed"
    op,             \* the Server::subscribe call in progress
    pc,             \* the service thread
    flag,           \* its local: switching (in a snapshot) or key (of a frame)
    after,          \* where try_broadcast_display_changed returns to
    gop,            \* frames since the encoder's last key frame, 0: key is next
    captured, rep,  \* the run has an image (yuv), repeat_encode_counter
    changed,        \* the display differs from the capturer's
    calls, switches,                    \* the bounded environment
    seen, asked, told, missed, lone, raced, excluded \* history

registry == <<subs, news, active, refresh>>
client   == <<conn, op>>
local    == <<flag, after, gop, captured, rep>>
env      == <<changed, calls, switches>>
hist     == <<seen, asked, told, missed, lone, raced, excluded>>
vars     == <<registry, client, pc, local, env, hist>>

NoOp == [at |-> "none"]
Ops  == {NoOp} \cup [at : {"first", "second", "act"}, id : Conns, sub : BOOLEAN]

Init ==
    /\ subs = {} /\ news = {} /\ active = TRUE /\ refresh = FALSE
    /\ conn = [c \in Conns |-> "new"] /\ op = NoOp
    /\ pc = "idle" /\ flag = FALSE /\ after = "idle"
    /\ gop = 0 /\ captured = FALSE /\ rep = 0
    /\ changed = FALSE /\ calls = 0 /\ switches = 0
    /\ seen = [c \in Conns |-> "none"] /\ asked = [c \in Conns |-> FALSE]
    /\ told = {} /\ missed = {} /\ lone = {} /\ raced = {} /\ excluded = {}

has_subscribes == subs # {} \/ news # {}

-----------------------------------------------------------------------------
(* The registry's own operations. *)

on_subscribe_unchecked(c) ==
    /\ news' = news \cup {c}
    /\ seen' = IF c \in subs \cup news THEN seen ELSE [seen EXCEPT ![c] = "none"]
    /\ lone' = IF c \in subs \cup news THEN lone ELSE lone \ {c}
    /\ missed' = IF pc = "dswap" THEN missed \cup {c} ELSE missed
    /\ UNCHANGED subs

\* A subscriber that starts over has seen nothing.
on_subscribe(c) ==
    /\ news' = IF c \in subs THEN news ELSE news \cup {c}
    /\ seen' = IF c \in subs \cup news THEN seen ELSE [seen EXCEPT ![c] = "none"]
    /\ lone' = IF c \in subs \cup news THEN lone ELSE lone \ {c}
    /\ missed' = IF pc = "dswap" THEN missed \cup {c} ELSE missed
    /\ UNCHANGED subs

on_unsubscribe(c) ==
    /\ subs' = subs \ {c}
    /\ news' = IF c \in subs THEN news ELSE news \ {c}
    /\ asked' = [asked EXCEPT ![c] = FALSE]

swap_new_subscribes ==
    /\ subs' = subs \cup news
    /\ news' = {}
    /\ raced' = IF op.at = "second" /\ ~op.sub
                THEN raced \cup (news \cap {op.id}) ELSE raced

-----------------------------------------------------------------------------
(* Connections, under the Server's write lock (server.rs).  The Server is    *)
(* gone once join has run.                                                   *)

ServerFree == active /\ op = NoOp

add_connection(c) ==
    /\ ServerFree /\ conn[c] = "new"
    /\ on_subscribe(c)
    /\ conn' = [conn EXCEPT ![c] = "in"]
    /\ UNCHANGED <<active, refresh, op, pc, local, env, asked, told, raced, excluded>>

\* is_subed takes the read lock twice, once for each map, and returns after
\* the first one when it finds the id there.
SubscribeBegin(c, sub) ==
    /\ ServerFree /\ conn[c] = "in" /\ calls < MaxCalls
    /\ calls' = calls + 1
    /\ op' = [at |-> "first", id |-> c, sub |-> sub]
    /\ raced' = raced \ {c} /\ excluded' = excluded \ {c}
    /\ UNCHANGED <<registry, conn, pc, local, changed, switches, seen, asked, told, missed, lone>>

\* The call returns: the history keeps the ids that were told to leave.
SubscribeReturn ==
    /\ op' = NoOp
    /\ excluded' = IF op.sub THEN excluded ELSE excluded \cup {op.id}

SubscribeTested(isSubed) ==
    IF isSubed = op.sub
    THEN SubscribeReturn
    ELSE op' = [op EXCEPT !.at = "act"] /\ UNCHANGED excluded

IsSubedFirstOnly ==
    /\ op.at = "first"
    /\ SubscribeTested(op.id \in subs)
    /\ UNCHANGED <<registry, conn, pc, local, env, seen, asked, told, missed, lone, raced>>

IsSubedFirst ==
    /\ op.at = "first"
    /\ IF op.id \in subs THEN SubscribeTested(TRUE)
                         ELSE op' = [op EXCEPT !.at = "second"] /\ UNCHANGED excluded
    /\ UNCHANGED <<registry, conn, pc, local, env, seen, asked, told, missed, lone, raced>>

IsSubedSecond ==
    /\ op.at = "second"
    /\ SubscribeTested(op.id \in news)
    /\ UNCHANGED <<registry, conn, pc, local, env, seen, asked, told, missed, lone, raced>>

SubscribeAct ==
    /\ op.at = "act"
    /\ \/ op.sub /\ on_subscribe(op.id) /\ UNCHANGED asked
       \/ ~op.sub /\ on_unsubscribe(op.id) /\ UNCHANGED <<seen, lone, missed>>
    /\ SubscribeReturn
    /\ UNCHANGED <<active, refresh, conn, pc, local, env, told, raced>>

\* The connection loop's end.
remove_connection(c) ==
    /\ ServerFree /\ conn[c] = "in"
    /\ on_unsubscribe(c)
    /\ conn' = [conn EXCEPT ![c] = "closed"]
    /\ UNCHANGED <<active, refresh, op, pc, local, env, seen, told, missed, lone, raced, excluded>>

\* Misc::RefreshVideo; only the Server's read lock is taken.
refresh_video_display(c) ==
    /\ ServerFree /\ conn[c] = "in" /\ calls < MaxCalls
    /\ refresh' = TRUE
    /\ calls' = calls + 1
    /\ asked' = [asked EXCEPT ![c] = c \in subs \cup news]
    /\ UNCHANGED <<subs, news, active, client, pc, local, changed, switches,
                   seen, told, missed, lone, raced, excluded>>

\* Server::drop; it then waits for the thread, see JoinReturns.
join ==
    /\ ServerFree
    /\ active' = FALSE
    /\ UNCHANGED <<subs, news, refresh, client, pc, local, env, hist>>

\* External: the user changes the resolution or plugs a monitor.
DisplayChange ==
    /\ active /\ ~changed /\ switches < MaxSwitch
    /\ changed' = TRUE
    /\ switches' = switches + 1
    /\ UNCHANGED <<registry, client, pc, local, calls, hist>>

-----------------------------------------------------------------------------
(* The thread: GenericService::run around video_service::run. *)

Thread(from, to) == pc = from /\ pc' = to
Pure(from, to)   == Thread(from, to) /\ UNCHANGED <<registry, client, local, env, hist>>

Idle ==
    \/ ~active /\ Pure("idle", "done")
    \/ active /\ has_subscribes /\ Pure("idle", "setup")

\* get_capturer or setup_encoder fails: the outer loop tries again.
SetupFail == Pure("setup", "idle")

\* A capturer for the display as it is now, an encoder that starts with a key
\* frame.
SetupOk ==
    /\ Thread("setup", "clear")
    /\ gop' = 0 /\ captured' = FALSE /\ rep' = 0
    /\ changed' = FALSE
    /\ told' = {} /\ missed' = {}
    /\ UNCHANGED <<registry, client, flag, after, calls, switches,
                   seen, asked, lone, raced, excluded>>

ClearRefresh ==
    /\ Thread("clear", "loop")
    /\ refresh' = FALSE
    /\ UNCHANGED <<subs, news, active, client, local, env, hist>>

OkIgnoresActive ==
    \/ has_subscribes /\ Pure("loop", "checks")
    \/ ~has_subscribes /\ Pure("loop", "idle")

\* while sp.ok()
Ok ==
    \/ active /\ has_subscribes /\ Pure("loop", "checks")
    \/ ~(active /\ has_subscribes) /\ Pure("loop", "idle")

Broadcast(from, to) ==
    /\ Thread(from, "bcast")
    /\ after' = to
    /\ UNCHANGED <<registry, client, flag, gop, captured, rep, changed, calls, hist>>

RefreshGoesOn == refresh /\ Broadcast("checks", "capture") /\ UNCHANGED switches

RefreshSwitch == refresh /\ Broadcast("checks", "idle") /\ UNCHANGED switches

\* The codec, the portable service, i444 or the desktop changed, a screenshot
\* needs another encoder, or the first frame took too long.
OtherSwitch ==
    /\ \/ pc = "checks" /\ ~refresh
       \/ pc = "capture"
    /\ switches < MaxSwitch
    /\ switches' = switches + 1
    /\ pc' = "idle"
    /\ UNCHANGED <<registry, client, local, changed, calls, hist>>

\* check_privacy_mode_changed
PrivacySwitch ==
    /\ ~refresh /\ switches < MaxSwitch
    /\ switches' = switches + 1
    /\ Broadcast("checks", "idle")

\* The display check of once a second, or no check in this iteration.
CheckDisplays == ~refresh /\ Broadcast("checks", "capture") /\ UNCHANGED switches
NoCheck       == ~refresh /\ Pure("checks", "capture")

(* try_broadcast_display_changed: two sends and a swap, each under a lock of  *)
(* its own.  It ends the run when the display has changed.                    *)
SendDisplayChanged ==
    \/ /\ ~changed /\ Pure("bcast", after)
    \/ /\ changed
       /\ Thread("bcast", "dsnap")
       /\ told' = subs /\ missed' = {}
       /\ UNCHANGED <<registry, client, local, env, seen, asked, lone, raced, excluded>>

DisplaySnapshot ==
    \/ news = {} /\ Pure("dsnap", "idle")
    \/ news # {} /\ Pure("dsnap", "dsend")

SendSubscribesAgain ==
    /\ Thread("dsend", "dswap")
    /\ told' = told \cup subs
    /\ UNCHANGED <<registry, client, local, env, seen, asked, missed, lone, raced, excluded>>

SendNewSubscribes ==
    /\ Thread("dsend", "dswap")
    /\ told' = told \cup news
    /\ UNCHANGED <<registry, client, local, env, seen, asked, missed, lone, raced, excluded>>

DisplaySwap ==
    /\ Thread("dswap", "idle")
    /\ swap_new_subscribes
    /\ UNCHANGED <<active, refresh, client, local, env, seen, asked, told, missed, lone, excluded>>

(* c.frame(spf) *)
Frame ==
    /\ Thread("capture", "fsnap")
    /\ captured' = TRUE /\ rep' = 0
    /\ UNCHANGED <<registry, client, flag, after, gop, env, hist>>

WouldBlock == Pure("capture", "loop")

RepeatEncodeOnceMore ==
    /\ captured /\ rep <= RepeatMax
    /\ Thread("capture", "fsnap")
    /\ rep' = rep + 1
    /\ UNCHANGED <<registry, client, flag, after, gop, captured, env, hist>>

\* An encoder that is not latency free gets the old image again.
RepeatEncode ==
    /\ captured /\ rep < RepeatMax
    /\ Thread("capture", "fsnap")
    /\ rep' = rep + 1
    /\ UNCHANGED <<registry, client, flag, after, gop, captured, env, hist>>

\* The capturer fails: the run ends, or (Windows) goes on with GDI.
CaptureError ==
    /\ switches < MaxSwitch
    /\ switches' = switches + 1
    /\ \E to \in {"idle", "loop"} : Broadcast("capture", to)

(* handle_one_frame *)
FrameSnapshot ==
    \/ news = {} /\ Pure("fsnap", "encode")
    \/ news # {} /\ Pure("fsnap", "fcheck")

NoSwitchForOld ==
    /\ Thread("fcheck", "fswap")
    /\ flag' = FALSE
    /\ UNCHANGED <<registry, client, after, gop, captured, rep, env, hist>>

\* sps.has_subscribes(): only the old ones.
SwitchForOld ==
    /\ Thread("fcheck", "fswap")
    /\ flag' = (subs # {})
    /\ UNCHANGED <<registry, client, after, gop, captured, rep, env, hist>>

FrameSwap ==
    /\ pc = "fswap"
    /\ pc' = IF flag THEN "idle" ELSE "encode"
    /\ swap_new_subscribes
    /\ lone' = IF ~flag /\ subs = {} /\ gop # 0 THEN lone \cup news ELSE lone
    /\ UNCHANGED <<active, refresh, client, local, env, seen, asked, told, missed, excluded>>

EncodeOk ==
    /\ Thread("encode", "send")
    /\ flag' = (gop = 0)
    /\ gop' = (gop + 1) % KeyInterval
    /\ UNCHANGED <<registry, client, after, captured, rep, env, hist>>

\* The frame is dropped, or the (hardware) encoder is given up.
EncodeFail == EncodeFails /\ \E to \in {"loop", "idle"} : Pure("encode", to)

send_video_frame ==
    /\ Thread("send", "loop")
    /\ seen' = [c \in Conns |-> IF c \in subs /\ seen[c] = "none"
                                THEN IF flag THEN "key" ELSE "delta"
                                ELSE seen[c]]
    /\ asked' = [c \in Conns |-> asked[c] /\ ~(c \in subs /\ flag)]
    /\ UNCHANGED <<registry, client, local, env, told, missed, lone, raced, excluded>>

\* External: handle.join() returned and the process is over.
JoinReturns == pc = "done" /\ UNCHANGED vars

-----------------------------------------------------------------------------
ConnStep ==
    \/ \E c \in Conns : \/ add_connection(c)
                        \/ remove_connection(c)
                        \/ refresh_video_display(c)
                        \/ \E sub \in BOOLEAN : SubscribeBegin(c, sub)
    \/ IsSubedFirst \/ IsSubedSecond \/ SubscribeAct

\* What the thread does whatever the capturer and the encoder answer.
Sequential ==
    \/ Idle \/ ClearRefresh \/ Ok \/ RefreshSwitch
    \/ CheckDisplays \/ NoCheck \/ SendDisplayChanged \/ DisplaySnapshot
    \/ SendNewSubscribes \/ DisplaySwap \/ FrameSnapshot \/ SwitchForOld
    \/ FrameSwap \/ send_video_frame

Answers ==
    \/ SetupFail \/ SetupOk \/ Frame \/ WouldBlock \/ RepeatEncode
    \/ CaptureError \/ EncodeOk \/ EncodeFail \/ OtherSwitch \/ PrivacySwitch

Next == ConnStep \/ join \/ DisplayChange \/ Sequential \/ Answers \/ JoinReturns

Spec == Init /\ [][Next]_vars

\* The thread is scheduled, every call it makes returns, a capturer that has
\* delivered nothing yet delivers its first image, and the setup does not fail
\* for ever.  A static screen may block every later capture.
Fairness ==
    /\ WF_vars(Sequential) /\ WF_vars(Answers)
    /\ SF_vars(SetupOk) /\ SF_vars(Frame /\ ~captured)

FairSpec == Spec /\ Fairness

-----------------------------------------------------------------------------
(* Properties *)

Pcs == {"idle", "setup", "clear", "loop", "checks", "bcast", "dsnap", "dsend",
        "dswap", "capture", "fsnap", "fcheck", "fswap", "encode", "send", "done"}

\* Every variable keeps its type.
TypeOK ==
    /\ subs \subseteq Conns /\ news \subseteq Conns
    /\ active \in BOOLEAN /\ refresh \in BOOLEAN
    /\ conn \in [Conns -> {"new", "in", "closed"}] /\ op \in Ops
    /\ pc \in Pcs /\ flag \in BOOLEAN /\ after \in {"idle", "capture", "loop"}
    /\ gop \in 0 .. KeyInterval - 1 /\ captured \in BOOLEAN /\ rep \in 0 .. RepeatMax
    /\ changed \in BOOLEAN
    /\ calls \in 0 .. MaxCalls /\ switches \in 0 .. MaxSwitch
    /\ seen \in [Conns -> {"none", "key", "delta"}] /\ asked \in [Conns -> BOOLEAN]
    /\ told \subseteq Conns /\ missed \subseteq Conns /\ lone \subseteq Conns
    /\ raced \subseteq Conns /\ excluded \subseteq Conns

\* A connection whose loop has ended is in neither map, whatever swap ran
\* meanwhile: on_unsubscribe removes an id from one map only, so this needs the
\* maps to stay disjoint (service.rs on_subscribe, on_unsubscribe, swap).
ClosedNotSubscribed ==
    \A c \in Conns : conn[c] = "closed" => c \notin subs \cup news

\* A subscriber's first frame is a key frame, except one admitted to an encoder
\* that is already running when no old subscriber was left at the snapshot to
\* ask for a restart (handle_one_frame's SWITCH): all left after sp.ok().
KeyFrameFirst ==
    \A c \in subs : seen[c] = "delta" => c \in lone

\* A Server::subscribe(.., false) that has returned leaves the connection
\* subscribed only when a swap ran between is_subed's two reads.
LeaveSticks ==
    \A c \in Conns : /\ c \in excluded
                     /\ c \in subs \cup news
                     => c \in raced

\* The display changed message reaches every subscriber, old and new ("add
\* snapshot to send to new subscribers"), before the run ends; only a connection
\* that subscribes between that send and the swap is admitted without it.
DisplayChangeTold ==
    pc = "idle" /\ told # {} => subs \subseteq told \cup missed

\* A peer that asks for a refresh while subscribed gets a key frame, leaves, or
\* the service stops; no race with the thread clearing the option loses it.
RefreshServed ==
    \A c \in Conns : asked[c] ~> (~asked[c] \/ ~active)

\* join returns: the thread ends once the service is deactivated, whatever it
\* was waiting for (sp.ok() and sp.active() are read again after every wait).
JoinCompletes == ~active ~> pc = "done"

=============================================================================
