-------------------------- MODULE VideoServiceProofs --------------------------
(***************************************************************************)
(* Safety of the subscriber registry and of the first frame, for every set *)
(* of connections, key frame interval and bound.                           *)
(***************************************************************************)
EXTENDS VideoService, TLAPS

\* An id is in one map at most, and only while its connection is registered;
\* the call in progress belongs to such a connection.
Registered ==
    /\ subs \cap news = {}
    /\ \A c \in subs \cup news : conn[c] = "in"
    /\ op # NoOp => conn[op.id] = "in"

\* A new subscriber has been sent nothing, and one that is admitted without a
\* switch is admitted alone.
Unseen ==
    /\ \A c \in news : seen[c] = "none"
    /\ pc = "fswap" /\ ~flag => subs = {}

\* What a subscriber that has seen nothing gets next is a key frame.
KeyFrameNext ==
    \A c \in subs \ lone : seen[c] = "none" =>
        \/ pc \in {"idle", "setup", "done"}
        \/ pc = "send" /\ flag
        \/ pc # "send" /\ gop = 0

\* A call that found its id in neither map has missed it only by a swap, and
\* the id of a call in progress is not settled.
Leaving ==
    /\ op # NoOp => op.id \notin excluded
    /\ op.at = "second" /\ ~op.sub /\ op.id \in subs => op.id \in raced
    /\ \A c \in excluded : conn[c] # "new"

\* Whom the display changed message has reached at each step of
\* try_broadcast_display_changed, and until the next run begins.
Telling ==
    /\ pc \in {"dsnap", "dsend"} => subs \subseteq told
    /\ pc = "dswap" => subs \cup news \subseteq told \cup missed
    /\ pc \in {"idle", "setup", "done"} /\ told # {} => subs \subseteq told \cup missed
    /\ pc \notin {"dsnap", "dsend", "dswap", "idle", "setup", "done"} => told = {}

IInv == TypeOK /\ Registered /\ Unseen /\ KeyFrameNext /\ KeyFrameFirst
               /\ Leaving /\ LeaveSticks /\ Telling

\* The steps of the thread that touch no subscriber and encode nothing.
Quiet ==
    \/ Idle \/ ClearRefresh \/ Ok \/ RefreshSwitch \/ CheckDisplays \/ NoCheck
    \/ SendDisplayChanged \/ DisplaySnapshot \/ SendNewSubscribes \/ FrameSnapshot
    \/ SetupFail \/ Frame \/ WouldBlock \/ RepeatEncode \/ CaptureError
    \/ EncodeFail \/ OtherSwitch \/ PrivacySwitch \/ JoinReturns

USE VideoAssumption

\* The call in progress is a well-typed record.
LEMMA OpType ==
  ASSUME op \in Ops
  PROVE  /\ op = NoOp <=> op.at = "none"
         /\ op # NoOp => /\ op.id \in Conns /\ op.sub \in BOOLEAN
                         /\ \A l \in {"second", "act"} :
                              LET new == [op EXCEPT !.at = l]
                              IN  /\ new \in Ops /\ new # NoOp
                                  /\ new.at = l /\ new.id = op.id /\ new.sub = op.sub
  BY DEF Ops, NoOp

\* The ranges of the counters hold zero.
LEMMA ZeroCounters ==
  0 \in 0 .. KeyInterval - 1 /\ 0 \in 0 .. RepeatMax /\ 0 \in 0 .. MaxCalls /\ 0 \in 0 .. MaxSwitch
  BY VideoAssumption

\* The initial state satisfies the inductive invariant.
LEMMA InitIInv == Init => IInv
<1> SUFFICES ASSUME Init PROVE IInv
  OBVIOUS
<1>1. conn \in [Conns -> {"new", "in", "closed"}] /\ seen \in [Conns -> {"none", "key", "delta"}]
  BY DEF Init
<1>2. asked \in [Conns -> BOOLEAN] /\ op \in Ops
  BY DEF Init, Ops
<1>3. TypeOK
  BY <1>1, <1>2, ZeroCounters DEF Init, TypeOK, Pcs
<1> QED
  BY <1>3 DEF IInv, Init, Registered, Unseen, KeyFrameNext, KeyFrameFirst, Leaving, LeaveSticks, Telling, NoOp

\* Every step keeps the types.
LEMMA TypeStep == TypeOK /\ [Next]_vars => TypeOK'
<1> SUFFICES ASSUME TypeOK, [Next]_vars PROVE TypeOK'
  OBVIOUS
<1>1. ASSUME NEW c \in Conns, add_connection(c) PROVE TypeOK'
  BY <1>1 DEF add_connection, on_subscribe, ServerFree, registry, client, local, env, hist, TypeOK, Ops
<1>2. ASSUME NEW c \in Conns, remove_connection(c) PROVE TypeOK'
  BY <1>2 DEF remove_connection, on_unsubscribe, ServerFree, registry, client, local, env, hist, TypeOK, Ops
<1>3. ASSUME NEW c \in Conns, refresh_video_display(c) PROVE TypeOK'
  BY <1>3 DEF refresh_video_display, ServerFree, registry, client, local, env, hist, TypeOK, Ops
<1>4. ASSUME NEW c \in Conns, NEW sub \in BOOLEAN, SubscribeBegin(c, sub) PROVE TypeOK'
  BY <1>4 DEF SubscribeBegin, ServerFree, NoOp, registry, client, local, env, hist, TypeOK, Ops
<1>5. CASE IsSubedFirst
  BY <1>5, OpType DEF IsSubedFirst, SubscribeTested, SubscribeReturn, NoOp, registry, client, local, env, hist, TypeOK, Ops
<1>6. CASE IsSubedSecond
  BY <1>6, OpType DEF IsSubedSecond, SubscribeTested, SubscribeReturn, NoOp, registry, client, local, env, hist, TypeOK, Ops
<1>7. CASE SubscribeAct
  BY <1>7, OpType DEF SubscribeAct, on_subscribe, on_unsubscribe, SubscribeReturn, NoOp, registry, client, local, env, hist, TypeOK, Ops
<1>8. CASE join
  BY <1>8 DEF join, ServerFree, registry, client, local, env, hist, TypeOK, Ops
<1>9. CASE DisplayChange
  BY <1>9 DEF DisplayChange, registry, client, local, env, hist, TypeOK, Ops
<1>10. CASE Idle
  BY <1>10 DEF Idle, Pure, Thread, registry, client, local, env, hist, TypeOK, Pcs
<1>11. CASE ClearRefresh
  BY <1>11 DEF ClearRefresh, Thread, registry, client, local, env, hist, TypeOK, Pcs
<1>12. CASE Ok
  BY <1>12 DEF Ok, Pure, Thread, registry, client, local, env, hist, TypeOK, Pcs
<1>13. CASE RefreshSwitch
  BY <1>13 DEF RefreshSwitch, Broadcast, Thread, registry, client, local, env, hist, TypeOK, Pcs
<1>14. CASE CheckDisplays
  BY <1>14 DEF CheckDisplays, Broadcast, Thread, registry, client, local, env, hist, TypeOK, Pcs
<1>15. CASE NoCheck
  BY <1>15 DEF NoCheck, Pure, Thread, registry, client, local, env, hist, TypeOK, Pcs
<1>16. CASE SendDisplayChanged
  BY <1>16 DEF SendDisplayChanged, Pure, Thread, registry, client, local, env, hist, TypeOK, Pcs
<1>17. CASE DisplaySnapshot
  BY <1>17 DEF DisplaySnapshot, Pure, Thread, registry, client, local, env, hist, TypeOK, Pcs
<1>18. CASE SendNewSubscribes
  BY <1>18 DEF SendNewSubscribes, Thread, registry, client, local, env, hist, TypeOK, Pcs
<1>19. CASE FrameSnapshot
  BY <1>19 DEF FrameSnapshot, Pure, Thread, registry, client, local, env, hist, TypeOK, Pcs
<1>20. CASE SetupFail
  BY <1>20 DEF SetupFail, Pure, Thread, registry, client, local, env, hist, TypeOK, Pcs
<1>21. CASE Frame
  BY <1>21, ZeroCounters DEF Frame, Thread, registry, client, local, env, hist, TypeOK, Pcs
<1>22. CASE WouldBlock
  BY <1>22 DEF WouldBlock, Pure, Thread, registry, client, local, env, hist, TypeOK, Pcs
<1>23. CASE RepeatEncode
  BY <1>23 DEF RepeatEncode, Thread, registry, client, local, env, hist, TypeOK, Pcs
<1>24. CASE CaptureError
  BY <1>24 DEF CaptureError, Broadcast, Thread, registry, client, local, env, hist, TypeOK, Pcs
<1>25. CASE EncodeFail
  BY <1>25 DEF EncodeFail, Pure, Thread, registry, client, local, env, hist, TypeOK, Pcs
<1>26. CASE OtherSwitch
  BY <1>26 DEF OtherSwitch, registry, client, local, env, hist, TypeOK, Pcs
<1>27. CASE PrivacySwitch
  BY <1>27 DEF PrivacySwitch, Broadcast, Thread, registry, client, local, env, hist, TypeOK, Pcs
<1>28. CASE JoinReturns
  BY <1>28 DEF JoinReturns, vars, registry, client, local, env, hist, TypeOK, Pcs
<1>29. CASE DisplaySwap
  BY <1>29 DEF DisplaySwap, Thread, swap_new_subscribes, registry, client, local, env, hist, TypeOK, Pcs
<1>30. CASE SwitchForOld
  BY <1>30 DEF SwitchForOld, Thread, registry, client, local, env, hist, TypeOK, Pcs
<1>31. CASE FrameSwap
  BY <1>31 DEF FrameSwap, swap_new_subscribes, registry, client, local, env, hist, TypeOK, Pcs
<1>32. CASE send_video_frame
  BY <1>32 DEF send_video_frame, Thread, registry, client, local, env, hist, TypeOK, Pcs
<1>33. CASE SetupOk
  BY <1>33, ZeroCounters DEF SetupOk, Thread, registry, client, local, env, hist, TypeOK, Pcs
<1>34. CASE EncodeOk
  BY <1>34 DEF EncodeOk, Thread, registry, client, local, env, hist, TypeOK, Pcs
<1>35. CASE UNCHANGED vars
  BY <1>35 DEF vars, registry, client, local, env, hist, TypeOK
<1> QED
  BY <1>1, <1>2, <1>3, <1>4, <1>5, <1>6, <1>7, <1>8, <1>9, <1>10, <1>11, <1>12, <1>13, <1>14, <1>15, <1>16, <1>17, <1>18, <1>19, <1>20, <1>21, <1>22, <1>23, <1>24, <1>25, <1>26, <1>27, <1>28, <1>29, <1>30, <1>31, <1>32, <1>33, <1>34, <1>35
     DEF Next, ConnStep, Sequential, Answers

\* A quiet step leaves the subscribers and the encoder alone and never enters
\* or leaves a send or a swap.
LEMMA QuietStep ==
  ASSUME TypeOK, Quiet
  PROVE  /\ UNCHANGED <<subs, news, conn, op, seen, lone, raced, excluded, gop, flag>>
         /\ pc # "send" /\ pc' \notin {"send", "fswap"}
         /\ pc \in {"idle", "setup", "done"} => pc' \in {"idle", "setup", "done"}
<1>1. CASE Idle
  BY <1>1 DEF Idle, Pure, Thread, registry, client, local, env, hist
<1>2. CASE ClearRefresh
  BY <1>2 DEF ClearRefresh, Thread, registry, client, local, env, hist
<1>3. CASE Ok
  BY <1>3 DEF Ok, Pure, Thread, registry, client, local, env, hist
<1>4. CASE RefreshSwitch
  BY <1>4 DEF RefreshSwitch, Broadcast, Thread, registry, client, local, env, hist
<1>5. CASE CheckDisplays
  BY <1>5 DEF CheckDisplays, Broadcast, Thread, registry, client, local, env, hist
<1>6. CASE NoCheck
  BY <1>6 DEF NoCheck, Pure, Thread, registry, client, local, env, hist
<1>7. CASE SendDisplayChanged
  BY <1>7 DEF SendDisplayChanged, Pure, Thread, registry, client, local, env, hist, TypeOK
<1>8. CASE DisplaySnapshot
  BY <1>8 DEF DisplaySnapshot, Pure, Thread, registry, client, local, env, hist
<1>9. CASE SendNewSubscribes
  BY <1>9 DEF SendNewSubscribes, Thread, registry, client, local, env, hist
<1>10. CASE FrameSnapshot
  BY <1>10 DEF FrameSnapshot, Pure, Thread, registry, client, local, env, hist
<1>11. CASE SetupFail
  BY <1>11 DEF SetupFail, Pure, Thread, registry, client, local, env, hist
<1>12. CASE Frame
  BY <1>12 DEF Frame, Thread, registry, client, local, env, hist
<1>13. CASE WouldBlock
  BY <1>13 DEF WouldBlock, Pure, Thread, registry, client, local, env, hist
<1>14. CASE RepeatEncode
  BY <1>14 DEF RepeatEncode, Thread, registry, client, local, env, hist
<1>15. CASE CaptureError
  BY <1>15 DEF CaptureError, Broadcast, Thread, registry, client, local, env, hist
<1>16. CASE EncodeFail
  BY <1>16 DEF EncodeFail, Pure, Thread, registry, client, local, env, hist
<1>17. CASE OtherSwitch
  BY <1>17 DEF OtherSwitch, registry, client, local, env, hist
<1>18. CASE PrivacySwitch
  BY <1>18 DEF PrivacySwitch, Broadcast, Thread, registry, client, local, env, hist
<1>19. CASE JoinReturns
  BY <1>19 DEF JoinReturns, vars, registry, client, local, env, hist
<1> QED
  BY <1>1, <1>2, <1>3, <1>4, <1>5, <1>6, <1>7, <1>8, <1>9, <1>10, <1>11, <1>12, <1>13, <1>14, <1>15, <1>16, <1>17, <1>18, <1>19 DEF Quiet

\* The maps stay disjoint and hold registered connections only.
LEMMA RegisteredStep ==
  ASSUME TypeOK, Registered, [Next]_vars
  PROVE  Registered'
<1>1. ASSUME NEW c \in Conns, add_connection(c) PROVE Registered'
  BY <1>1 DEF add_connection, on_subscribe, ServerFree, registry, client, local, env, hist, TypeOK, Registered
<1>2. ASSUME NEW c \in Conns, remove_connection(c) PROVE Registered'
  BY <1>2 DEF remove_connection, on_unsubscribe, ServerFree, registry, client, local, env, hist, TypeOK, Registered
<1>3. ASSUME NEW c \in Conns, refresh_video_display(c) PROVE Registered'
  BY <1>3 DEF refresh_video_display, ServerFree, registry, client, local, env, hist, TypeOK, Registered
<1>4. ASSUME NEW c \in Conns, NEW sub \in BOOLEAN, SubscribeBegin(c, sub) PROVE Registered'
  BY <1>4 DEF SubscribeBegin, ServerFree, NoOp, registry, client, local, env, hist, TypeOK, Registered
<1>5. CASE IsSubedFirst
  BY <1>5, OpType DEF IsSubedFirst, SubscribeTested, SubscribeReturn, NoOp, registry, client, local, env, hist, TypeOK, Registered
<1>6. CASE IsSubedSecond
  BY <1>6, OpType DEF IsSubedSecond, SubscribeTested, SubscribeReturn, NoOp, registry, client, local, env, hist, TypeOK, Registered
<1>7. CASE SubscribeAct
  BY <1>7, OpType DEF SubscribeAct, on_subscribe, on_unsubscribe, SubscribeReturn, NoOp, registry, client, local, env, hist, TypeOK, Registered
<1>8. CASE join
  BY <1>8, OpType DEF join, ServerFree, registry, client, local, env, hist, TypeOK, Registered
<1>9. CASE DisplayChange
  BY <1>9, OpType DEF DisplayChange, registry, client, local, env, hist, TypeOK, Registered
<1>10. CASE Quiet
  BY <1>10, QuietStep DEF TypeOK, Registered
<1>11. CASE DisplaySwap
  BY <1>11 DEF DisplaySwap, Thread, swap_new_subscribes, registry, client, local, env, hist, TypeOK, Registered
<1>12. CASE SwitchForOld
  BY <1>12 DEF SwitchForOld, Thread, registry, client, local, env, hist, TypeOK, Registered
<1>13. CASE FrameSwap
  BY <1>13 DEF FrameSwap, swap_new_subscribes, registry, client, local, env, hist, TypeOK, Registered
<1>14. CASE send_video_frame
  BY <1>14 DEF send_video_frame, Thread, registry, client, local, env, hist, TypeOK, Registered
<1>15. CASE SetupOk
  BY <1>15 DEF SetupOk, Thread, registry, client, local, env, hist, TypeOK, Registered
<1>16. CASE EncodeOk
  BY <1>16 DEF EncodeOk, Thread, registry, client, local, env, hist, TypeOK, Registered
<1>17. CASE UNCHANGED vars
  BY <1>17 DEF vars, registry, client, local, env, hist, TypeOK, Registered
<1> QED
  BY <1>1, <1>2, <1>3, <1>4, <1>5, <1>6, <1>7, <1>8, <1>9, <1>10, <1>11, <1>12, <1>13, <1>14, <1>15, <1>16, <1>17
     DEF Next, ConnStep, Sequential, Answers, Quiet

\* New subscribers have been sent nothing.
LEMMA UnseenStep ==
  ASSUME TypeOK, Registered, Unseen, [Next]_vars
  PROVE  Unseen'
<1>1. ASSUME NEW c \in Conns, add_connection(c) PROVE Unseen'
  BY <1>1 DEF add_connection, on_subscribe, ServerFree, registry, client, local, env, hist, TypeOK, Registered, Unseen
<1>2. ASSUME NEW c \in Conns, remove_connection(c) PROVE Unseen'
  BY <1>2 DEF remove_connection, on_unsubscribe, ServerFree, registry, client, local, env, hist, TypeOK, Registered, Unseen
<1>3. ASSUME NEW c \in Conns, refresh_video_display(c) PROVE Unseen'
  BY <1>3 DEF refresh_video_display, ServerFree, registry, client, local, env, hist, TypeOK, Registered, Unseen
<1>4. ASSUME NEW c \in Conns, NEW sub \in BOOLEAN, SubscribeBegin(c, sub) PROVE Unseen'
  BY <1>4 DEF SubscribeBegin, ServerFree, NoOp, registry, client, local, env, hist, TypeOK, Registered, Unseen
<1>5. CASE IsSubedFirst
  BY <1>5, OpType DEF IsSubedFirst, SubscribeTested, SubscribeReturn, NoOp, registry, client, local, env, hist, TypeOK, Registered, Unseen
<1>6. CASE IsSubedSecond
  BY <1>6, OpType DEF IsSubedSecond, SubscribeTested, SubscribeReturn, NoOp, registry, client, local, env, hist, TypeOK, Registered, Unseen
<1>7. CASE SubscribeAct
  BY <1>7, OpType DEF SubscribeAct, on_subscribe, on_unsubscribe, SubscribeReturn, NoOp, registry, client, local, env, hist, TypeOK, Registered, Unseen
<1>8. CASE join
  BY <1>8, OpType DEF join, ServerFree, registry, client, local, env, hist, TypeOK, Registered, Unseen
<1>9. CASE DisplayChange
  BY <1>9, OpType DEF DisplayChange, registry, client, local, env, hist, TypeOK, Registered, Unseen
<1>10. CASE Quiet
  BY <1>10, QuietStep DEF TypeOK, Registered, Unseen
<1>11. CASE DisplaySwap
  BY <1>11 DEF DisplaySwap, Thread, swap_new_subscribes, registry, client, local, env, hist, TypeOK, Registered, Unseen
<1>12. CASE SwitchForOld
  BY <1>12 DEF SwitchForOld, Thread, registry, client, local, env, hist, TypeOK, Registered, Unseen
<1>13. CASE FrameSwap
  BY <1>13 DEF FrameSwap, swap_new_subscribes, registry, client, local, env, hist, TypeOK, Registered, Unseen
<1>14. CASE send_video_frame
  BY <1>14 DEF send_video_frame, Thread, registry, client, local, env, hist, TypeOK, Registered, Unseen
<1>15. CASE SetupOk
  BY <1>15 DEF SetupOk, Thread, registry, client, local, env, hist, TypeOK, Registered, Unseen
<1>16. CASE EncodeOk
  BY <1>16 DEF EncodeOk, Thread, registry, client, local, env, hist, TypeOK, Registered, Unseen
<1>17. CASE UNCHANGED vars
  BY <1>17 DEF vars, registry, client, local, env, hist, TypeOK, Registered, Unseen
<1> QED
  BY <1>1, <1>2, <1>3, <1>4, <1>5, <1>6, <1>7, <1>8, <1>9, <1>10, <1>11, <1>12, <1>13, <1>14, <1>15, <1>16, <1>17
     DEF Next, ConnStep, Sequential, Answers, Quiet

\* The first frame of a subscriber that was not admitted alone is a key frame.
LEMMA KeyFrameStep ==
  ASSUME TypeOK, Registered, Unseen, KeyFrameNext, KeyFrameFirst, [Next]_vars
  PROVE  KeyFrameNext' /\ KeyFrameFirst'
<1>1. ASSUME NEW c \in Conns, add_connection(c) PROVE KeyFrameNext' /\ KeyFrameFirst'
  BY <1>1 DEF add_connection, on_subscribe, ServerFree, registry, client, local, env, hist, TypeOK, Registered, Unseen, KeyFrameNext, KeyFrameFirst
<1>2. ASSUME NEW c \in Conns, remove_connection(c) PROVE KeyFrameNext' /\ KeyFrameFirst'
  BY <1>2 DEF remove_connection, on_unsubscribe, ServerFree, registry, client, local, env, hist, TypeOK, Registered, Unseen, KeyFrameNext, KeyFrameFirst
<1>3. ASSUME NEW c \in Conns, refresh_video_display(c) PROVE KeyFrameNext' /\ KeyFrameFirst'
  BY <1>3 DEF refresh_video_display, ServerFree, registry, client, local, env, hist, TypeOK, Registered, Unseen, KeyFrameNext, KeyFrameFirst
<1>4. ASSUME NEW c \in Conns, NEW sub \in BOOLEAN, SubscribeBegin(c, sub) PROVE KeyFrameNext' /\ KeyFrameFirst'
  BY <1>4 DEF SubscribeBegin, ServerFree, NoOp, registry, client, local, env, hist, TypeOK, Registered, Unseen, KeyFrameNext, KeyFrameFirst
<1>5. CASE IsSubedFirst
  BY <1>5, OpType DEF IsSubedFirst, SubscribeTested, SubscribeReturn, NoOp, registry, client, local, env, hist, TypeOK, Registered, Unseen, KeyFrameNext, KeyFrameFirst
<1>6. CASE IsSubedSecond
  BY <1>6, OpType DEF IsSubedSecond, SubscribeTested, SubscribeReturn, NoOp, registry, client, local, env, hist, TypeOK, Registered, Unseen, KeyFrameNext, KeyFrameFirst
<1>7. CASE SubscribeAct
  BY <1>7, OpType DEF SubscribeAct, on_subscribe, on_unsubscribe, SubscribeReturn, NoOp, registry, client, local, env, hist, TypeOK, Registered, Unseen, KeyFrameNext, KeyFrameFirst
<1>8. CASE join
  BY <1>8, OpType DEF join, ServerFree, registry, client, local, env, hist, TypeOK, Registered, Unseen, KeyFrameNext, KeyFrameFirst
<1>9. CASE DisplayChange
  BY <1>9, OpType DEF DisplayChange, registry, client, local, env, hist, TypeOK, Registered, Unseen, KeyFrameNext, KeyFrameFirst
<1>10. CASE Quiet
  BY <1>10, QuietStep DEF TypeOK, Registered, Unseen, KeyFrameNext, KeyFrameFirst
<1>11. CASE DisplaySwap
  BY <1>11 DEF DisplaySwap, Thread, swap_new_subscribes, registry, client, local, env, hist, TypeOK, Registered, Unseen, KeyFrameNext, KeyFrameFirst
<1>12. CASE SwitchForOld
  BY <1>12 DEF SwitchForOld, Thread, registry, client, local, env, hist, TypeOK, Registered, Unseen, KeyFrameNext, KeyFrameFirst
<1>13. CASE FrameSwap
  BY <1>13 DEF FrameSwap, swap_new_subscribes, registry, client, local, env, hist, TypeOK, Registered, Unseen, KeyFrameNext, KeyFrameFirst
<1>14. CASE send_video_frame
  BY <1>14 DEF send_video_frame, Thread, registry, client, local, env, hist, TypeOK, Registered, Unseen, KeyFrameNext, KeyFrameFirst
<1>15. CASE SetupOk
  BY <1>15 DEF SetupOk, Thread, registry, client, local, env, hist, TypeOK, Registered, Unseen, KeyFrameNext, KeyFrameFirst
<1>16. CASE EncodeOk
  BY <1>16 DEF EncodeOk, Thread, registry, client, local, env, hist, TypeOK, Registered, Unseen, KeyFrameNext, KeyFrameFirst
<1>17. CASE UNCHANGED vars
  BY <1>17 DEF vars, registry, client, local, env, hist, TypeOK, Registered, Unseen, KeyFrameNext, KeyFrameFirst
<1> QED
  BY <1>1, <1>2, <1>3, <1>4, <1>5, <1>6, <1>7, <1>8, <1>9, <1>10, <1>11, <1>12, <1>13, <1>14, <1>15, <1>16, <1>17
     DEF Next, ConnStep, Sequential, Answers, Quiet

\* An unsubscribed connection is back only through the is_subed race.
LEMMA LeaveStep ==
  ASSUME TypeOK, Registered, Leaving, LeaveSticks, [Next]_vars
  PROVE  Leaving' /\ LeaveSticks'
<1>1. ASSUME NEW c \in Conns, add_connection(c) PROVE Leaving' /\ LeaveSticks'
  BY <1>1 DEF add_connection, on_subscribe, ServerFree, registry, client, local, env, hist, TypeOK, Registered, Leaving, LeaveSticks
<1>2. ASSUME NEW c \in Conns, remove_connection(c) PROVE Leaving' /\ LeaveSticks'
  BY <1>2 DEF remove_connection, on_unsubscribe, ServerFree, registry, client, local, env, hist, TypeOK, Registered, Leaving, LeaveSticks
<1>3. ASSUME NEW c \in Conns, refresh_video_display(c) PROVE Leaving' /\ LeaveSticks'
  BY <1>3 DEF refresh_video_display, ServerFree, registry, client, local, env, hist, TypeOK, Registered, Leaving, LeaveSticks
<1>4. ASSUME NEW c \in Conns, NEW sub \in BOOLEAN, SubscribeBegin(c, sub) PROVE Leaving' /\ LeaveSticks'
  BY <1>4 DEF SubscribeBegin, ServerFree, NoOp, registry, client, local, env, hist, TypeOK, Registered, Leaving, LeaveSticks
<1>5. CASE IsSubedFirst
  <2>1. /\ op # NoOp /\ op.id \in Conns /\ op.sub \in BOOLEAN
        /\ \A l \in {"second", "act"} :
             LET new == [op EXCEPT !.at = l]
             IN  new # NoOp /\ new.at = l /\ new.id = op.id /\ new.sub = op.sub
    BY <1>5, OpType DEF IsSubedFirst, TypeOK
  <2>2. UNCHANGED <<subs, news, conn, raced>>
    BY <1>5 DEF IsSubedFirst, registry
  <2>3. CASE SubscribeReturn
    <3>1. op' = NoOp /\ op'.at = "none"
      BY <2>3 DEF SubscribeReturn, NoOp
    <3>2. \A c \in excluded' : conn[c] # "new" /\ (c \in subs \cup news => c \in raced)
      BY <1>5, <2>1, <2>3 DEF IsSubedFirst, SubscribeTested, SubscribeReturn, NoOp, TypeOK, Registered, Leaving, LeaveSticks
    <3> QED
      BY <2>2, <3>1, <3>2 DEF Leaving, LeaveSticks
  <2>4. CASE op.id \notin subs /\ op' = [op EXCEPT !.at = "second"] /\ UNCHANGED excluded
    BY <2>1, <2>2, <2>4 DEF Leaving, LeaveSticks
  <2>5. CASE op' = [op EXCEPT !.at = "act"] /\ UNCHANGED excluded
    BY <2>1, <2>2, <2>5 DEF Leaving, LeaveSticks
  <2> QED
    BY <1>5, <2>3, <2>4, <2>5 DEF IsSubedFirst, SubscribeTested
<1>6. CASE IsSubedSecond
  <2>1. /\ op # NoOp /\ op.id \in Conns /\ op.sub \in BOOLEAN
        /\ \A l \in {"second", "act"} :
             LET new == [op EXCEPT !.at = l]
             IN  new # NoOp /\ new.at = l /\ new.id = op.id /\ new.sub = op.sub
    BY <1>6, OpType DEF IsSubedSecond, TypeOK
  <2>2. UNCHANGED <<subs, news, conn, raced>>
    BY <1>6 DEF IsSubedSecond, registry
  <2>3. CASE SubscribeReturn
    <3>1. op' = NoOp /\ op'.at = "none"
      BY <2>3 DEF SubscribeReturn, NoOp
    <3>2. \A c \in excluded' : conn[c] # "new" /\ (c \in subs \cup news => c \in raced)
      BY <1>6, <2>1, <2>3 DEF IsSubedSecond, SubscribeTested, SubscribeReturn, NoOp, TypeOK, Registered, Leaving, LeaveSticks
    <3> QED
      BY <2>2, <3>1, <3>2 DEF Leaving, LeaveSticks
  <2>5. CASE op' = [op EXCEPT !.at = "act"] /\ UNCHANGED excluded
    BY <2>1, <2>2, <2>5 DEF Leaving, LeaveSticks
  <2> QED
    BY <1>6, <2>3, <2>5 DEF IsSubedSecond, SubscribeTested
<1>7. CASE SubscribeAct
  BY <1>7, OpType DEF SubscribeAct, on_subscribe, on_unsubscribe, SubscribeReturn, NoOp, registry, client, local, env, hist, TypeOK, Registered, Leaving, LeaveSticks
<1>8. CASE join
  BY <1>8, OpType DEF join, ServerFree, registry, client, local, env, hist, TypeOK, Registered, Leaving, LeaveSticks
<1>9. CASE DisplayChange
  BY <1>9, OpType DEF DisplayChange, registry, client, local, env, hist, TypeOK, Registered, Leaving, LeaveSticks
<1>10. CASE Quiet
  BY <1>10, QuietStep DEF TypeOK, Registered, Leaving, LeaveSticks
<1>11. CASE DisplaySwap
  BY <1>11, OpType DEF DisplaySwap, Thread, swap_new_subscribes, registry, client, local, env, hist, TypeOK, Registered, Leaving, LeaveSticks
<1>12. CASE SwitchForOld
  BY <1>12, OpType DEF SwitchForOld, Thread, registry, client, local, env, hist, TypeOK, Registered, Leaving, LeaveSticks
<1>13. CASE FrameSwap
  BY <1>13, OpType DEF FrameSwap, swap_new_subscribes, registry, client, local, env, hist, TypeOK, Registered, Leaving, LeaveSticks
<1>14. CASE send_video_frame
  BY <1>14, OpType DEF send_video_frame, Thread, registry, client, local, env, hist, TypeOK, Registered, Leaving, LeaveSticks
<1>15. CASE SetupOk
  BY <1>15, OpType DEF SetupOk, Thread, registry, client, local, env, hist, TypeOK, Registered, Leaving, LeaveSticks
<1>16. CASE EncodeOk
  BY <1>16, OpType DEF EncodeOk, Thread, registry, client, local, env, hist, TypeOK, Registered, Leaving, LeaveSticks
<1>17. CASE UNCHANGED vars
  BY <1>17 DEF vars, registry, client, local, env, hist, TypeOK, Registered, Leaving, LeaveSticks
<1> QED
  BY <1>1, <1>2, <1>3, <1>4, <1>5, <1>6, <1>7, <1>8, <1>9, <1>10, <1>11, <1>12, <1>13, <1>14, <1>15, <1>16, <1>17
     DEF Next, ConnStep, Sequential, Answers, Quiet

\* The display changed message reaches every subscriber that is admitted.
LEMMA TellingStep ==
  ASSUME TypeOK, Telling, [Next]_vars
  PROVE  Telling'
<1>1. ASSUME NEW c \in Conns, add_connection(c) PROVE Telling'
  BY <1>1 DEF add_connection, on_subscribe, ServerFree, registry, client, local, env, hist, TypeOK, Telling
<1>2. ASSUME NEW c \in Conns, remove_connection(c) PROVE Telling'
  BY <1>2 DEF remove_connection, on_unsubscribe, ServerFree, registry, client, local, env, hist, TypeOK, Telling
<1>3. ASSUME NEW c \in Conns, refresh_video_display(c) PROVE Telling'
  BY <1>3 DEF refresh_video_display, ServerFree, registry, client, local, env, hist, TypeOK, Telling
<1>4. ASSUME NEW c \in Conns, NEW sub \in BOOLEAN, SubscribeBegin(c, sub) PROVE Telling'
  BY <1>4 DEF SubscribeBegin, ServerFree, NoOp, registry, client, local, env, hist, TypeOK, Telling
<1>5. CASE IsSubedFirst
  BY <1>5, OpType DEF IsSubedFirst, SubscribeTested, SubscribeReturn, NoOp, registry, client, local, env, hist, TypeOK, Telling
<1>6. CASE IsSubedSecond
  BY <1>6, OpType DEF IsSubedSecond, SubscribeTested, SubscribeReturn, NoOp, registry, client, local, env, hist, TypeOK, Telling
<1>7. CASE SubscribeAct
  BY <1>7, OpType DEF SubscribeAct, on_subscribe, on_unsubscribe, SubscribeReturn, NoOp, registry, client, local, env, hist, TypeOK, Telling
<1>8. CASE join
  BY <1>8 DEF join, ServerFree, registry, client, local, env, hist, TypeOK, Telling
<1>9. CASE DisplayChange
  BY <1>9 DEF DisplayChange, registry, client, local, env, hist, TypeOK, Telling
<1>10. CASE Idle
  BY <1>10 DEF Idle, Pure, Thread, registry, client, local, env, hist, TypeOK, Telling
<1>11. CASE ClearRefresh
  BY <1>11 DEF ClearRefresh, Thread, registry, client, local, env, hist, TypeOK, Telling
<1>12. CASE Ok
  BY <1>12 DEF Ok, Pure, Thread, registry, client, local, env, hist, TypeOK, Telling
<1>13. CASE RefreshSwitch
  BY <1>13 DEF RefreshSwitch, Broadcast, Thread, registry, client, local, env, hist, TypeOK, Telling
<1>14. CASE CheckDisplays
  BY <1>14 DEF CheckDisplays, Broadcast, Thread, registry, client, local, env, hist, TypeOK, Telling
<1>15. CASE NoCheck
  BY <1>15 DEF NoCheck, Pure, Thread, registry, client, local, env, hist, TypeOK, Telling
<1>16. CASE SendDisplayChanged
  BY <1>16 DEF SendDisplayChanged, Pure, Thread, registry, client, local, env, hist, TypeOK, Telling
<1>17. CASE DisplaySnapshot
  BY <1>17 DEF DisplaySnapshot, Pure, Thread, registry, client, local, env, hist, TypeOK, Telling
<1>18. CASE SendNewSubscribes
  BY <1>18 DEF SendNewSubscribes, Thread, registry, client, local, env, hist, TypeOK, Telling
<1>19. CASE FrameSnapshot
  BY <1>19 DEF FrameSnapshot, Pure, Thread, registry, client, local, env, hist, TypeOK, Telling
<1>20. CASE SetupFail
  BY <1>20 DEF SetupFail, Pure, Thread, registry, client, local, env, hist, TypeOK, Telling
<1>21. CASE Frame
  BY <1>21 DEF Frame, Thread, registry, client, local, env, hist, TypeOK, Telling
<1>22. CASE WouldBlock
  BY <1>22 DEF WouldBlock, Pure, Thread, registry, client, local, env, hist, TypeOK, Telling
<1>23. CASE RepeatEncode
  BY <1>23 DEF RepeatEncode, Thread, registry, client, local, env, hist, TypeOK, Telling
<1>24. CASE CaptureError
  BY <1>24 DEF CaptureError, Broadcast, Thread, registry, client, local, env, hist, TypeOK, Telling
<1>25. CASE EncodeFail
  BY <1>25 DEF EncodeFail, Pure, Thread, registry, client, local, env, hist, TypeOK, Telling
<1>26. CASE OtherSwitch
  BY <1>26 DEF OtherSwitch, registry, client, local, env, hist, TypeOK, Telling
<1>27. CASE PrivacySwitch
  BY <1>27 DEF PrivacySwitch, Broadcast, Thread, registry, client, local, env, hist, TypeOK, Telling
<1>28. CASE JoinReturns
  BY <1>28 DEF JoinReturns, vars, registry, client, local, env, hist, TypeOK, Telling
<1>29. CASE DisplaySwap
  BY <1>29 DEF DisplaySwap, Thread, swap_new_subscribes, registry, client, local, env, hist, TypeOK, Telling
<1>30. CASE SwitchForOld
  BY <1>30 DEF SwitchForOld, Thread, registry, client, local, env, hist, TypeOK, Telling
<1>31. CASE FrameSwap
  BY <1>31 DEF FrameSwap, swap_new_subscribes, registry, client, local, env, hist, TypeOK, Telling
<1>32. CASE send_video_frame
  BY <1>32 DEF send_video_frame, Thread, registry, client, local, env, hist, TypeOK, Telling
<1>33. CASE SetupOk
  BY <1>33 DEF SetupOk, Thread, registry, client, local, env, hist, TypeOK, Telling
<1>34. CASE EncodeOk
  BY <1>34 DEF EncodeOk, Thread, registry, client, local, env, hist, TypeOK, Telling
<1>35. CASE UNCHANGED vars
  BY <1>35 DEF vars, registry, client, local, env, hist, TypeOK, Telling
<1> QED
  BY <1>1, <1>2, <1>3, <1>4, <1>5, <1>6, <1>7, <1>8, <1>9, <1>10, <1>11, <1>12, <1>13, <1>14, <1>15, <1>16, <1>17, <1>18, <1>19, <1>20, <1>21, <1>22, <1>23, <1>24, <1>25, <1>26, <1>27, <1>28, <1>29, <1>30, <1>31, <1>32, <1>33, <1>34, <1>35
     DEF Next, ConnStep, Sequential, Answers

\* Every step preserves the inductive invariant.
LEMMA NextIInv == IInv /\ [Next]_vars => IInv'
  BY TypeStep, RegisteredStep, UnseenStep, KeyFrameStep, LeaveStep, TellingStep DEF IInv

\* Type correctness of the video service model.
THEOREM VideoTypes == Spec => []TypeOK
  BY InitIInv, NextIInv, PTL DEF Spec, IInv

\* However subscriptions, swaps and the end of connection loops interleave, a
\* closed connection is in neither map of the service.
THEOREM ClosedStaysOut == Spec => []ClosedNotSubscribed
<1>1. IInv => ClosedNotSubscribed
  BY DEF IInv, TypeOK, Registered, ClosedNotSubscribed
<1> QED
  BY InitIInv, NextIInv, <1>1, PTL DEF Spec

\* Every subscriber starts with a key frame, unless the service admitted it to
\* a running encoder that had lost all its subscribers.
THEOREM FirstFrameDecodes == Spec => []KeyFrameFirst
  BY InitIInv, NextIInv, PTL DEF Spec, IInv

\* An unsubscribe that returned is undone only by a swap between the two reads
\* of is_subed.
THEOREM LeaveIsFinal == Spec => []LeaveSticks
  BY InitIInv, NextIInv, PTL DEF Spec, IInv

\* A run that ends because the display has changed has told every subscriber so,
\* but for those that subscribed between the second send and the swap.
THEOREM EveryoneIsTold == Spec => []DisplayChangeTold
<1>1. IInv => DisplayChangeTold
  BY DEF IInv, Telling, DisplayChangeTold
<1> QED
  BY InitIInv, NextIInv, <1>1, PTL DEF Spec
=============================================================================
