------------------------ MODULE PortableCaptureProofs ------------------------
(***************************************************************************)
(* What PortableCapture promises, proved for every counter of at least     *)
(* five values, every number of changes of the geometry and of faults.     *)
(*                                                                         *)
(* NewFrameKept is not inductive: a call of frame stores a sequence it     *)
(* loaded earlier, and the service has published since.  The argument is a *)
(* count of what can still be published before that store: one frame by    *)
(* the capturer there is, and one more by the capturer that a recreate     *)
(* asks for.  It bounds how far the slot write runs ahead of a sequence    *)
(* that is held (HeldInv) and of the slot read (ReadInv), so neither laps  *)
(* the other.                                                              *)
(***************************************************************************)
EXTENDS PortableCapture, TLAPS

\* How many values the counter moves from a to b.
Dist(a, b) == IF b >= a THEN b - a ELSE b - a + MAX + 1

Busy       == svc \in {"grab", "data", "load", "fix", "store"}
Publishing == svc \in {"fix", "store"}
Resetting  == vid \in {"reset_read", "reset_write", "flag", "request"}

\* The frames that can still be published although the last one is unread: by
\* this capturer, by one that the flag in the memory asks for, and by one that
\* the flag asks for when the video thread has written it back.
ByThis   == IF Busy \/ ~capturer.first THEN 1 ELSE 0
ByNext   == IF para.recreate /\ capturer.geometry # None /\ svc # "ready" THEN 1 ELSE 0
ByCopied == IF copy.recreate THEN 1 ELSE 0

\* new has reset the slot write after publish loaded it.
Stale == Publishing /\ cur # write

\* Nothing but the first frame was published since the memory was cleared.
Fresh ==
    /\ IF capturer.first THEN write = 1 /\ ~Busy ELSE write = 0
    /\ ~para.recreate /\ ~copy.recreate
    /\ Publishing => cur = 0

\* A sequence that the video thread will store in the slot read.
Held(s) ==
    /\ IF Stale THEN svc = "store" /\ cur = MAX /\ read = MAX /\ s = 0
                ELSE Dist(s, write) + ByThis + ByNext <= 2
    /\ IF svc = "store" THEN read # next(cur) ELSE ~equal
    /\ s = write => ~unread

\* The service did not see a frame of the cleared memory taken, as a sequence of
\* before it was in the slot read.
Loose(s) ==
    /\ cleared /\ s = 0 /\ read = 1 /\ ~para.recreate /\ ~Stale
    /\ write + ByThis <= 2 /\ (write = 0 => svc = "store")

VidInv ==
    /\ vid # "para_back" => copy = NoPara
    /\ vid \notin {"idle", "call", "encode", "drop"} => pending = NoSeq
    /\ vid = "encode" => pending # NoSeq

SvcInv ==
    /\ svc = "ready" \/ svc = "check" \/ Busy => capturer.geometry # None
    /\ svc = "create" => capturer.geometry = None
    /\ svc = "ready" \/ capturer.geometry = None => ~capturer.first
    /\ Stale => write = 0 /\ (svc = "fix" => read = 0)
    /\ svc = "fix" => cur \in {0, MAX}

\* Nothing is the newest request's before new has made it, or after
\* start_portable_service has cleared it.
NewestInv ==
    /\ svc = "down" => ~unread
    /\ Resetting => ~cleared
    /\ Resetting \/ cleared =>
         ~unread /\ ~capturer.newest /\ ~seen.newest /\ ~para.newest /\ ~copy.newest
    /\ unread \/ capturer.newest => ~Stale

KeptInv ==
    /\ unread /\ svc # "store" => ~equal
    /\ svc = "store" /\ (unread \/ capturer.newest) => read # next(cur)

\* What publish is about to store differs from the slot read.
StoreInv ==
    svc = "store" /\ ~Stale /\ vid \notin {"reset_read", "reset_write"} =>
       read # next(cur) \/ (cleared /\ write = 0)

\* A capturer that has published waits for the last frame to be consumed.
WaitInv ==
    svc \in {"grab", "data", "load"} /\ capturer.first /\ ~cleared =>
       vid = "reset_read" \/ (vid = "reset_write" /\ read = 0) \/ equal

Slack ==
    IF vid \in {"para_back", "look", "found"} \/ pending # NoSeq THEN 4
    ELSE IF vid \in {"reset_write", "flag", "request"} THEN 2 ELSE 3

ReadInv ==
    \/ read = 0
    \/ Stale /\ svc = "store" /\ read = MAX /\ cur = MAX
    \/ ~Stale /\ Dist(read, write) + ByThis + ByNext + ByCopied <= Slack
    \/ Fresh /\ vid \notin {"reset_write", "flag", "request"}

\* publish has moved the slot read that new had just reset.
ResetInv ==
    vid = "reset_write" /\ read # 0 =>
       read = MAX /\ (write = MAX => svc = "store" /\ cur = MAX)

HeldInv ==
    /\ vid = "found" => Held(sequence) \/ Loose(sequence)
    /\ pending # NoSeq => \/ Held(pending)
                          \/ Loose(pending)
                          \/ cleared /\ read = 0 /\ Fresh

IInv ==
    /\ VidInv /\ SvcInv /\ NewestInv
    /\ svc # "down" => KeptInv /\ StoreInv /\ WaitInv /\ ReadInv /\ ResetInv /\ HeldInv

-----------------------------------------------------------------------------
(* The types. *)

\* Every step keeps the types: next wraps at MAX, and what is stored in a slot
\* was loaded from one.
LEMMA TypesKeep ==
    ASSUME TypeOK, [Next]_vars
    PROVE  TypeOK'
<1> USE CaptureAssumption DEF Serve, Run, Fault, equal, next, NoPara, NoCapturer, None, NoSeq,
      counter, shmem, service, video, env, hist
<1> DEFINE Capturers ==
      [geometry : Geometries \cup {None}, first : BOOLEAN, newest : BOOLEAN]
<1>a. NoPara \in Para /\ NoCapturer \in Capturers
  BY DEF Para
<1>b. 0 \in 0 .. MAX
  OBVIOUS
<1>1. CASE StartService
  <2>1. unread' \in BOOLEAN /\ cleared' \in BOOLEAN /\ wouldblock' \in BOOLEAN
    BY <1>1, Zenon DEF StartService, TypeOK
  <2> QED
    BY <1>1, <1>a, <1>b, <2>1 DEF StartService, TypeOK, Para, Geometries
<1>2. CASE ServiceExit
  <2>1. unread' \in BOOLEAN
    BY <1>2, Zenon DEF ServiceExit, TypeOK
  <2> QED
    BY <1>2, <1>a, <1>b, <2>1 DEF ServiceExit, TypeOK, Para, Geometries
<1>3. CASE SetRunning
  BY <1>3, <1>a, <1>b DEF SetRunning, TypeOK, Para, Geometries
<1>4. CASE Top
  <2>1. seen' \in Para /\ UNCHANGED <<shmem, cur, video, env, hist>>
    BY <1>4, <1>a DEF Top, TypeOK
  <2>2. capturer' \in Capturers
    BY <1>4, <1>a DEF Top, TypeOK
  <2>3. svc' \in {"create", "top", "check"}
    BY <1>4 DEF Top
  <2> QED
    BY <2>1, <2>2, <2>3 DEF TypeOK
<1>5. CASE Create
  BY <1>5, <1>a, <1>b DEF Create, TypeOK, Para, Geometries
<1>6. CASE Ready
  <2>1. para' \in Para
    BY <1>6 DEF Ready, TypeOK, Para
  <2> QED
    BY <1>6, <1>a, <2>1 DEF Ready, TypeOK
<1>7. CASE Check
  BY <1>7, <1>a, <1>b DEF Check, TypeOK, Para, Geometries
<1>8. CASE GrabNothing
  BY <1>8, <1>a, <1>b DEF GrabNothing, TypeOK, Para, Geometries
<1>9. CASE GrabError
  <2>1. wouldblock' \in BOOLEAN
    BY <1>9, Zenon DEF GrabError, TypeOK
  <2> QED
    BY <1>9, <1>a, <1>b, <2>1 DEF GrabError, TypeOK, Para, Geometries
<1>10. CASE Grab
  BY <1>10, <1>a, <1>b DEF Grab, TypeOK, Para, Geometries
<1>11. CASE WriteData
  BY <1>11, <1>a, <1>b DEF WriteData, TypeOK, Para, Geometries
<1>12. CASE PublishLoad
  BY <1>12, <1>a, <1>b DEF PublishLoad, TypeOK, Para, Geometries
<1>13. CASE PublishFix
  BY <1>13, <1>a, <1>b DEF PublishFix, TypeOK, Para, Geometries
<1>14. CASE PublishStore
  <2>1. unread' \in BOOLEAN
    BY <1>14, Zenon DEF PublishStore, TypeOK
  <2>2. capturer' \in Capturers
    BY <1>14 DEF PublishStore, TypeOK
  <2> QED
    BY <1>14, <1>b, <2>1, <2>2 DEF PublishStore, TypeOK
<1>15. CASE New
  BY <1>15, <1>a, <1>b DEF New, TypeOK, Para, Geometries
<1>16. CASE ResetRead
  BY <1>16, <1>a, <1>b DEF ResetRead, TypeOK, Para, Geometries
<1>17. CASE ResetWrite
  BY <1>17, <1>a, <1>b DEF ResetWrite, TypeOK, Para, Geometries
<1>18. CASE SetFlag
  BY <1>18, <1>a, <1>b DEF SetFlag, TypeOK, Para, Geometries
<1>19. CASE Request
  BY <1>19, <1>a, <1>b DEF Request, TypeOK, Para, Geometries
<1>20. CASE LoopCheck
  BY <1>20, <1>a, <1>b DEF LoopCheck, TypeOK, Para, Geometries
<1>21. CASE FrameCall
  BY <1>21, <1>a, <1>b DEF FrameCall, consume_pending, TypeOK, Para, Geometries
<1>22. CASE GetPara
  BY <1>22, <1>a, <1>b DEF GetPara, TypeOK, Para, Geometries
<1>23. CASE SetPara
  BY <1>23, <1>a, <1>b DEF SetPara, TypeOK, Para, Geometries
<1>24. CASE NoFrame
  BY <1>24, <1>a, <1>b DEF NoFrame, TypeOK, Para, Geometries
<1>25. CASE Look
  <2>1. unread' \in BOOLEAN
    BY <1>25, Zenon DEF Look, TypeOK
  <2> QED
    BY <1>25, <1>a, <1>b, <2>1 DEF Look, TypeOK, Para, Geometries
<1>26. CASE Mismatch
  BY <1>26, <1>a, <1>b DEF Mismatch, TypeOK, Para, Geometries
<1>27. CASE TooLarge
  BY <1>27, <1>a, <1>b DEF TooLarge, TypeOK, Para, Geometries
<1>28. CASE Take
  BY <1>28, <1>a, <1>b DEF Take, TypeOK, Para, Geometries
<1>29. CASE Encoded
  <2>1. first_frame_sent' \in BOOLEAN
    BY <1>29, Zenon DEF Encoded, TypeOK
  <2> QED
    BY <1>29, <1>a, <1>b, <2>1 DEF Encoded, TypeOK, Para, Geometries
<1>30. CASE EndRun
  BY <1>30, <1>a, <1>b DEF EndRun, TypeOK, Para, Geometries
<1>31. CASE Drop
  BY <1>31, <1>a, <1>b DEF Drop, consume_pending, TypeOK, Para, Geometries
<1>32. CASE ChangeGeometry
  BY <1>32, <1>a, <1>b DEF ChangeGeometry, TypeOK, Para, Geometries
<1>33. CASE FirstFrameTimeout
  BY <1>33, <1>a, <1>b DEF FirstFrameTimeout, TypeOK, Para, Geometries
<1>34. CASE UNCHANGED vars
  BY <1>34, <1>a, <1>b DEF vars, TypeOK, Para, Geometries
<1> QED
  BY <1>1, <1>2, <1>3, <1>4, <1>5, <1>6, <1>7, <1>8, <1>9, <1>10, <1>11, <1>12, <1>13, <1>14, <1>15, <1>16, <1>17, <1>18, <1>19, <1>20, <1>21, <1>22, <1>23, <1>24, <1>25, <1>26, <1>27, <1>28, <1>29, <1>30, <1>31, <1>32, <1>33, <1>34 DEF Next, Capture, NewSteps, FrameSteps

-----------------------------------------------------------------------------
(* The counter. *)

\* Every step of the two threads keeps the inductive invariant.
LEMMA InvKeeps ==
    ASSUME TypeOK, IInv, [Next]_vars
    PROVE  IInv'
<1> USE CaptureAssumption DEF Serve, Run, Fault, equal, next, NoPara, NoCapturer, None, NoSeq,
      counter, shmem, service, video, env, hist, TypeOK, Para, Geometries, Unlocked,
      IInv, VidInv, SvcInv, NewestInv, KeptInv, StoreInv, WaitInv, ReadInv, ResetInv, HeldInv, Held, Loose,
      Slack, Fresh, Stale, ByThis, ByNext, ByCopied, Resetting, Publishing, Busy, Dist
<1>1. CASE StartService
  <2>1. VidInv' /\ SvcInv' /\ NewestInv' /\ KeptInv' /\ StoreInv' /\ WaitInv' /\ ResetInv'
    BY <1>1 DEF StartService
  <2>2. ReadInv'
    BY <1>1 DEF StartService
  <2>3. HeldInv'
    BY <1>1 DEF StartService
  <2> QED
    BY <2>1, <2>2, <2>3
<1>2. CASE ServiceExit
  BY <1>2 DEF ServiceExit
<1>3. CASE SetRunning
  BY <1>3 DEF SetRunning
<1>4. CASE Top
  BY <1>4 DEF Top
<1>5. CASE Create
  BY <1>5 DEF Create
<1>6. CASE Ready
  BY <1>6 DEF Ready
<1>7. CASE Check
  BY <1>7 DEF Check
<1>8. CASE GrabNothing
  <2>1. VidInv' /\ SvcInv' /\ NewestInv' /\ KeptInv' /\ StoreInv' /\ WaitInv' /\ ResetInv'
    BY <1>8 DEF GrabNothing
  <2>2. ReadInv'
    BY <1>8 DEF GrabNothing
  <2>3. HeldInv'
    BY <1>8 DEF GrabNothing
  <2> QED
    BY <2>1, <2>2, <2>3
<1>9. CASE GrabError
  BY <1>9 DEF GrabError
<1>10. CASE Grab
  BY <1>10 DEF Grab
<1>11. CASE WriteData
  BY <1>11 DEF WriteData
<1>12. CASE PublishLoad
  BY <1>12 DEF PublishLoad
<1>13. CASE PublishFix
  BY <1>13 DEF PublishFix
<1>14. CASE PublishStore
  <2>1. VidInv' /\ SvcInv' /\ NewestInv' /\ KeptInv' /\ StoreInv' /\ WaitInv' /\ ResetInv'
    BY <1>14 DEF PublishStore
  <2>2. ReadInv'
    BY <1>14 DEF PublishStore
  <2>3. HeldInv'
    BY <1>14 DEF PublishStore
  <2> QED
    BY <2>1, <2>2, <2>3
<1>15. CASE New
  BY <1>15 DEF New
<1>16. CASE ResetRead
  BY <1>16 DEF ResetRead
<1>17. CASE ResetWrite
  BY <1>17 DEF ResetWrite
<1>18. CASE SetFlag
  BY <1>18 DEF SetFlag
<1>19. CASE Request
  BY <1>19 DEF Request
<1>20. CASE LoopCheck
  BY <1>20 DEF LoopCheck
<1>21. CASE FrameCall
  BY <1>21 DEF FrameCall, consume_pending
<1>22. CASE GetPara
  BY <1>22 DEF GetPara
<1>23. CASE SetPara
  BY <1>23 DEF SetPara
<1>24. CASE NoFrame
  BY <1>24 DEF NoFrame
<1>25. CASE Look
  <2>1. VidInv' /\ SvcInv' /\ NewestInv' /\ KeptInv' /\ StoreInv' /\ WaitInv' /\ ResetInv'
    BY <1>25 DEF Look
  <2>2. svc' # "down" => ReadInv'
    BY <1>25 DEF Look
  <2>3. svc' # "down" => HeldInv'
    BY <1>25 DEF Look
  <2> HIDE DEF VidInv, SvcInv, NewestInv, KeptInv, StoreInv, WaitInv, ReadInv, ResetInv, HeldInv
  <2> QED
    BY <2>1, <2>2, <2>3
<1>26. CASE Mismatch
  BY <1>26 DEF Mismatch
<1>27. CASE TooLarge
  BY <1>27 DEF TooLarge
<1>28. CASE Take
  BY <1>28 DEF Take
<1>29. CASE Encoded
  BY <1>29 DEF Encoded
<1>30. CASE EndRun
  BY <1>30 DEF EndRun
<1>31. CASE Drop
  BY <1>31 DEF Drop, consume_pending
<1>32. CASE ChangeGeometry
  BY <1>32 DEF ChangeGeometry
<1>33. CASE FirstFrameTimeout
  BY <1>33 DEF FirstFrameTimeout
<1>34. CASE UNCHANGED vars
  BY <1>34 DEF vars
<1> QED
  BY <1>1, <1>2, <1>3, <1>4, <1>5, <1>6, <1>7, <1>8, <1>9, <1>10, <1>11, <1>12, <1>13, <1>14, <1>15, <1>16, <1>17, <1>18, <1>19, <1>20, <1>21, <1>22, <1>23, <1>24, <1>25, <1>26, <1>27, <1>28, <1>29, <1>30, <1>31, <1>32, <1>33, <1>34, ZenonT(30) DEF Next, Capture, NewSteps, FrameSteps

\* The program's start satisfies the invariant.
LEMMA InvHolds == Spec => [](TypeOK /\ IInv)
<1>1. Init => TypeOK
  <2> USE CaptureAssumption DEF Init, NoPara, NoCapturer, None, NoSeq, Para, Geometries
  <2>1. Init => wouldblock \in BOOLEAN /\ running \in BOOLEAN /\ first_frame_sent \in BOOLEAN
                /\ unread \in BOOLEAN /\ cleared \in BOOLEAN
    BY Zenon
  <2> QED
    BY <2>1 DEF TypeOK
<1>2. Init => IInv
  BY CaptureAssumption DEF Init, IInv, VidInv, SvcInv, NewestInv, NoPara, NoCapturer, None, NoSeq,
     Stale, Publishing, Resetting, Busy
<1>3. TypeOK /\ IInv /\ [Next]_vars => TypeOK' /\ IInv'
  BY TypesKeep, InvKeeps
<1> QED
  BY <1>1, <1>2, <1>3, PTL DEF Spec

-----------------------------------------------------------------------------
\* Type correctness: the slots of the counter stay values that are not negative
\* through every wrap, reset and store of the two threads.
THEOREM CaptureTypes == Spec => []TypeOK
  BY InvHolds, PTL

\* A frame published for the newest request is not lost: not by the resets of
\* new, by a sequence stored late, or by a wrap of a counter that is large
\* enough to tell what was published meanwhile apart.
THEOREM NewFrameIsKept == Spec => []NewFrameKept
<1>1. IInv => NewFrameKept
  BY DEF IInv, NewestInv, KeptInv, NewFrameKept
<1> QED
  BY <1>1, InvHolds, PTL

\* The service writes no pixels over a frame the encoder reads, but for the
\* first frame of a capturer and after the memory was cleared.
THEOREM HeldFrameIsStable == Spec => HeldFrameStable
<1> DEFINE Safe ==
      vid = "encode" /\ svc = "data" /\ svc' = "load" => ~capturer.first \/ cleared
<1>1. TypeOK /\ IInv => (vid = "encode" /\ svc = "data" => ~capturer.first \/ cleared)
  BY DEF TypeOK, IInv, VidInv, WaitInv, HeldInv, Held, Loose, equal
<1>2. TypeOK /\ IInv => [Safe]_vars
  BY <1>1
<1> QED
  BY <1>2, InvHolds, PTL DEF HeldFrameStable
=============================================================================
