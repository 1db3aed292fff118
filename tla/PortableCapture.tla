--------------------------- MODULE PortableCapture ---------------------------
(***************************************************************************)
(* Screen capture through the portable service of Windows: a privileged    *)
(* process captures the screen into shared memory (run_capture) and the    *)
(* video thread of the server process takes the frames from there          *)
(* (CapturerPortable), in step by two counters of shared_counter.rs.       *)
(*                                                                         *)
(* Nothing locks the memory against the other process: each access is a    *)
(* step of its own.  Within the server process SHMEM is a mutex that the   *)
(* video thread holds for a whole call.  Only the primary display is       *)
(* captured this way, so a request for a capturer is abstracted to whether *)
(* it is the newest one, and the display to its geometry.                  *)
(***************************************************************************)
EXTENDS Integers

CONSTANTS MAX,           \* i32::MAX
          MaxGeometry,   \* bound: changes of the display's geometry
          MaxFaults      \* bound: capture errors, ended runs, process exits

\* The counter tells five frames apart: with a smaller one a frame can be lost
\* (see NewFrameKept).
ASSUME CaptureAssumption ==
    MAX \in Nat /\ MAX >= 4 /\ MaxGeometry \in Nat /\ MaxFaults \in Nat

NoSeq == -1
None  == 0                      \* no geometry
Geometries == 1 .. MaxGeometry + 1

VARIABLES
    \* the shared memory
    write, read,      \* the two slots of ADDR_CAPTURE_FRAME_COUNTER
    para,             \* CapturerPara: recreate; newest: of the newest request
    info,             \* FrameInfo: the geometry of the frame
    wouldblock,       \* ADDR_CAPTURE_WOULDBLOCK
    \* the portable service
    svc,              \* the thread run_capture
    seen,             \* its copy of para, while it creates a capturer
    capturer,         \* its capturer: geometry, first_frame_captured, newest
    cur,              \* publish: the value of the slot write it has loaded
    \* the video thread
    vid,
    dims, pending,    \* CapturerPortable: width and height, pending_sequence
    copy, sequence,   \* frame: the para it writes back, the sequence it found
    first_frame_sent, \* run: a frame of this run went to a subscriber
    running,          \* RUNNING
    \* the environment
    geometry, faults,
    unread,           \* history: a frame for the newest request was published
                      \* and no call of frame has met it
    cleared           \* history: the memory was cleared under this capturer

counter == <<write, read>>
shmem   == <<counter, para, info, wouldblock>>
service == <<svc, seen, capturer, cur>>
video   == <<vid, dims, first_frame_sent, pending, copy, sequence>>
env     == <<running, geometry, faults>>
hist    == <<unread, cleared>>
vars    == <<shmem, service, video, env, hist>>

NoPara     == [recreate |-> FALSE, newest |-> FALSE]
NoCapturer == [geometry |-> None, first |-> FALSE, newest |-> FALSE]

\* The mutex SHMEM is free: the video thread is not inside new, frame or drop.
Unlocked == vid \in {"none", "idle", "call", "encode"}

Init ==
    /\ write = 0 /\ read = 0 /\ para = NoPara /\ info = None /\ wouldblock = FALSE
    /\ svc = "down" /\ seen = NoPara /\ capturer = NoCapturer /\ cur = 0
    /\ vid = "none" /\ dims = None /\ pending = NoSeq /\ copy = NoPara /\ sequence = 0
    /\ first_frame_sent = FALSE
    /\ running = FALSE /\ geometry = 1 /\ faults = 0
    /\ unread = FALSE /\ cleared = FALSE

Serve(from, to) == svc = from /\ svc' = to
Run(from, to)   == vid = from /\ vid' = to
Fault           == faults < MaxFaults /\ faults' = faults + 1

equal == write = read

-----------------------------------------------------------------------------
(* The process of the portable service. *)

\* start_portable_service clears the memory and starts the process.
StartService ==
    /\ ~running /\ Unlocked
    /\ Serve("down", "top")
    /\ write' = 0 /\ read' = 0 /\ para' = NoPara /\ info' = None /\ wouldblock' = FALSE
    /\ seen' = NoPara /\ capturer' = NoCapturer
    /\ unread' = FALSE /\ cleared' = TRUE
    /\ UNCHANGED <<cur, video, env>>

\* The process ends; the ipc connection it pings over opens and closes.
ServiceExit ==
    /\ svc # "down" /\ svc' = "down" /\ Fault
    /\ unread' = FALSE
    /\ UNCHANGED <<shmem, seen, capturer, cur, video, running, geometry, cleared>>

SetRunning ==
    /\ running' = (svc # "down") /\ running' # running
    /\ UNCHANGED <<shmem, service, video, geometry, faults, hist>>

-----------------------------------------------------------------------------
(* run_capture. *)

Top ==
    /\ svc = "top"
    /\ IF capturer.geometry = None
         THEN svc' = "create" /\ seen' = para /\ UNCHANGED capturer
         ELSE IF para.recreate
           THEN svc' = "top" /\ capturer' = NoCapturer /\ UNCHANGED seen
           ELSE svc' = "check" /\ UNCHANGED <<seen, capturer>>
    /\ UNCHANGED <<shmem, cur, video, env, hist>>

Create ==
    /\ Serve("create", "ready")
    /\ capturer' = [geometry |-> geometry, first |-> FALSE, newest |-> seen.newest]
    /\ UNCHANGED <<shmem, seen, cur, video, env, hist>>

\* The whole of para is written back with recreate cleared.
Ready ==
    /\ Serve("ready", "check")
    /\ para' = [seen EXCEPT !.recreate = FALSE] /\ seen' = NoPara
    /\ UNCHANGED <<counter, info, wouldblock, capturer, cur, video, env, hist>>

\* The first frame of a capturer does not wait for the previous one.
Check ==
    /\ svc = "check"
    /\ svc' = IF capturer.first /\ ~equal THEN "top" ELSE "grab"
    /\ UNCHANGED <<shmem, seen, capturer, cur, video, env, hist>>

GrabNothing ==
    /\ Serve("grab", "top")
    /\ wouldblock' = TRUE
    /\ UNCHANGED <<counter, para, info, seen, capturer, cur, video, env, hist>>

\* The desktop changed, or the capturer failed too often.  One of an old geometry
\* may fail at any time, or, with GDI, go on for ever.
GrabError ==
    /\ Serve("grab", "top")
    /\ capturer' = NoCapturer
    /\ wouldblock' \in {wouldblock, FALSE}
    /\ IF capturer.geometry # geometry THEN UNCHANGED faults ELSE Fault
    /\ UNCHANGED <<counter, para, info, seen, cur, video, running, geometry, hist>>

Grab ==
    /\ Serve("grab", "data")
    /\ info' = capturer.geometry
    /\ UNCHANGED <<counter, para, wouldblock, seen, capturer, cur, video, env, hist>>

\* The pixels are copied to ADDR_CAPTURE_FRAME.
WriteData ==
    /\ Serve("data", "load")
    /\ wouldblock' = TRUE
    /\ UNCHANGED <<counter, para, info, seen, capturer, cur, video, env, hist>>

next_unbounded(n) == n + 1

next(n) == IF n = MAX THEN 0 ELSE n + 1

\* publish: the slot read is moved away from the value to be written.
PublishLoad ==
    /\ svc = "load"
    /\ cur' = write
    /\ svc' = IF read = next(write) THEN "fix" ELSE "store"
    /\ UNCHANGED <<shmem, seen, capturer, video, env, hist>>

PublishFix ==
    /\ Serve("fix", "store")
    /\ read' = cur
    /\ UNCHANGED <<write, para, info, wouldblock, seen, capturer, cur, video, env, hist>>

PublishStore ==
    /\ Serve("store", "top")
    /\ write' = next(cur) /\ cur' = 0
    /\ capturer' = [capturer EXCEPT !.first = TRUE]
    /\ unread' = (unread \/ capturer.newest)
    /\ UNCHANGED <<read, para, info, wouldblock, seen, video, env, cleared>>

-----------------------------------------------------------------------------
(* CapturerPortable::new, one store after the other. *)

\* A request that asks before it resets.
NewEarly ==
    /\ Run("none", "reset_read") /\ running
    /\ dims' = geometry /\ first_frame_sent' = FALSE
    /\ para' = [recreate |-> TRUE, newest |-> TRUE]
    /\ seen' = [seen EXCEPT !.newest = FALSE]
    /\ capturer' = [capturer EXCEPT !.newest = FALSE]
    /\ unread' = FALSE /\ cleared' = FALSE
    /\ UNCHANGED <<counter, info, wouldblock, svc, cur, pending, copy, sequence, env>>

\* From here on the requests before this one are not the newest.
New ==
    /\ Run("none", "reset_read") /\ running
    /\ dims' = geometry /\ first_frame_sent' = FALSE
    /\ para' = [para EXCEPT !.newest = FALSE]
    /\ seen' = [seen EXCEPT !.newest = FALSE]
    /\ capturer' = [capturer EXCEPT !.newest = FALSE]
    /\ unread' = FALSE /\ cleared' = FALSE
    /\ UNCHANGED <<counter, info, wouldblock, svc, cur, pending, copy, sequence, env>>

ResetRead ==
    /\ Run("reset_read", "reset_write")
    /\ read' = 0
    /\ UNCHANGED <<write, para, info, wouldblock, service, dims, first_frame_sent,
                   pending, copy, sequence, env, hist>>

ResetWrite ==
    /\ Run("reset_write", "flag")
    /\ write' = 0
    /\ UNCHANGED <<read, para, info, wouldblock, service, dims, first_frame_sent,
                   pending, copy, sequence, env, hist>>

SetFlag ==
    /\ Run("flag", "request")
    /\ wouldblock' = TRUE
    /\ UNCHANGED <<counter, para, info, service, dims, first_frame_sent,
                   pending, copy, sequence, env, hist>>

Request ==
    /\ Run("request", "idle")
    /\ para' = [recreate |-> TRUE, newest |-> TRUE]
    /\ UNCHANGED <<counter, info, wouldblock, service, dims, first_frame_sent,
                   pending, copy, sequence, env, hist>>

(* CapturerPortable::frame. *)

consume_pending ==
    /\ read' = IF pending = NoSeq THEN read ELSE pending
    /\ pending' = NoSeq

\* The loop of the video service looks at RUNNING before it calls frame.
LoopCheck ==
    /\ Run("idle", "call") /\ running
    /\ UNCHANGED <<shmem, service, dims, first_frame_sent,
                   pending, copy, sequence, env, hist>>

FrameCall ==
    /\ Run("call", "para")
    /\ consume_pending
    /\ UNCHANGED <<write, para, info, wouldblock, service, dims, first_frame_sent,
                   copy, sequence, env, hist>>

GetPara ==
    /\ vid = "para"
    /\ \/ vid' = "look" /\ UNCHANGED copy
       \/ vid' = "para_back" /\ copy' = para
    /\ UNCHANGED <<shmem, service, dims, first_frame_sent, pending, sequence, env, hist>>

\* The timeout has changed: all of para is written back.
SetPara ==
    /\ Run("para_back", "look")
    /\ para' = copy /\ copy' = NoPara
    /\ UNCHANGED <<counter, info, wouldblock, service, dims, first_frame_sent,
                   pending, sequence, env, hist>>

NoFrame ==
    /\ vid = "look" /\ equal
    /\ vid' = IF wouldblock THEN "idle" ELSE "drop"
    /\ UNCHANGED <<shmem, service, dims, first_frame_sent,
                   pending, copy, sequence, env, hist>>

\* What is published from here on is another frame.
Look ==
    /\ Run("look", "found") /\ ~equal
    /\ sequence' = write
    /\ unread' = FALSE
    /\ UNCHANGED <<shmem, service, dims, first_frame_sent, pending, copy, env, cleared>>

Mismatch ==
    /\ Run("found", "idle") /\ info # dims
    /\ read' = sequence /\ sequence' = 0
    /\ UNCHANGED <<write, para, info, wouldblock, service, dims, first_frame_sent,
                   pending, copy, env, hist>>

\* The frame does not fit the memory, sized for the displays of an earlier time.
TooLarge ==
    /\ Run("found", "drop") /\ info = dims /\ Fault
    /\ read' = sequence /\ sequence' = 0
    /\ UNCHANGED <<write, para, info, wouldblock, service, dims, first_frame_sent,
                   pending, copy,
                   running, geometry, hist>>

TakeAndConsume ==
    /\ Run("found", "encode") /\ info = dims
    /\ read' = sequence /\ sequence' = 0
    /\ UNCHANGED <<write, para, info, wouldblock, service, dims, first_frame_sent,
                   pending, copy, env, hist>>

\* The caller gets a slice of the shared memory.
Take ==
    /\ Run("found", "encode") /\ info = dims
    /\ pending' = sequence /\ sequence' = 0
    /\ UNCHANGED <<shmem, service, dims, first_frame_sent, copy, env, hist>>

\* Without a subscriber the frame is not sent.
Encoded ==
    /\ Run("encode", "idle")
    /\ first_frame_sent' \in {first_frame_sent, TRUE}
    /\ UNCHANGED <<shmem, service, dims, pending, copy, sequence, env, hist>>

\* The run of the video service ends: the display or RUNNING changed, or
\* something else made it start over.
EndRun ==
    /\ Run("idle", "drop")
    /\ IF dims # geometry \/ ~running THEN UNCHANGED faults ELSE Fault
    /\ UNCHANGED <<shmem, service, dims, first_frame_sent,
                   pending, copy, sequence, running, geometry, hist>>

\* The capture goes on with the next pass of the loop.
FirstFrameRetry ==
    /\ Run("idle", "idle") /\ ~first_frame_sent
    /\ UNCHANGED <<shmem, service, dims, first_frame_sent,
                   pending, copy, sequence, env, hist>>

\* A capturer of the geometry the run expects, or a new one, hands over a frame
\* within FIRST_FRAME_TIMEOUT, unless something held it up.
OldGeometry == capturer.geometry \notin {None, dims}

FirstFrameTimeout ==
    /\ Run("idle", "drop") /\ ~first_frame_sent
    /\ IF OldGeometry THEN UNCHANGED faults ELSE Fault
    /\ UNCHANGED <<shmem, service, dims, first_frame_sent, pending, copy, sequence,
                   running, geometry, hist>>

Drop ==
    /\ Run("drop", "none")
    /\ consume_pending
    /\ UNCHANGED <<write, para, info, wouldblock, service, dims, first_frame_sent,
                   copy, sequence, env, hist>>

ChangeGeometry ==
    /\ geometry < MaxGeometry + 1 /\ geometry' = geometry + 1
    /\ UNCHANGED <<shmem, service, video, running, faults, hist>>

-----------------------------------------------------------------------------
Capture == Top \/ Create \/ Ready \/ Check \/ Grab \/ GrabNothing \/ GrabError
           \/ WriteData \/ PublishLoad \/ PublishFix \/ PublishStore

FrameSteps == LoopCheck \/ FrameCall \/ GetPara \/ SetPara \/ NoFrame \/ Look
              \/ Mismatch \/ TooLarge \/ Take \/ Encoded

NewSteps == New \/ ResetRead \/ ResetWrite \/ SetFlag \/ Request

Next ==
    \/ StartService \/ ServiceExit \/ SetRunning \/ Capture
    \/ NewSteps \/ FrameSteps \/ EndRun \/ FirstFrameTimeout \/ Drop
    \/ ChangeGeometry

\* Both threads run on and the screen changes now and then.  Every pass of the
\* video loop tests what a run ends for: a changed display, RUNNING, and, once
\* the time is up, that no frame was sent.
Fairness ==
    /\ WF_vars(Capture) /\ SF_vars(Grab)
    /\ WF_vars(NewSteps) /\ WF_vars(FrameSteps) /\ WF_vars(Drop) /\ WF_vars(SetRunning)
    /\ SF_vars(EndRun /\ (dims # geometry \/ ~running))
    /\ SF_vars(FirstFrameTimeout /\ OldGeometry)

Spec     == Init /\ [][Next]_vars
FairSpec == Spec /\ Fairness

-----------------------------------------------------------------------------
(* Properties *)

Para == [recreate : BOOLEAN, newest : BOOLEAN]

\* Every variable keeps its type; the slots of the counter are i32 values that
\* are not negative, wherever the counter wraps.
TypeOK ==
    /\ write \in 0 .. MAX /\ read \in 0 .. MAX /\ cur \in 0 .. MAX
    /\ pending \in (0 .. MAX) \cup {NoSeq}
    /\ para \in Para /\ seen \in Para /\ copy \in Para
    /\ info \in Geometries \cup {None} /\ dims \in Geometries \cup {None}
    /\ geometry \in Geometries
    /\ capturer \in [geometry : Geometries \cup {None}, first : BOOLEAN, newest : BOOLEAN]
    /\ svc \in {"down", "top", "create", "ready", "check", "grab", "data", "load", "fix",
               "store"}
    /\ vid \in {"none", "reset_read", "reset_write", "flag", "request", "idle", "call", "para",
                "para_back", "look", "found", "encode", "drop"}
    /\ sequence \in 0 .. MAX
    /\ wouldblock \in BOOLEAN /\ running \in BOOLEAN /\ first_frame_sent \in BOOLEAN
    /\ unread \in BOOLEAN /\ cleared \in BOOLEAN
    /\ faults \in 0 .. MaxFaults

\* CapturerPortable::new: "Publish recreate only after resetting the old frame.
\* Otherwise the service can publish a new frame between these writes and lose
\* it": a frame published for the newest request stays pending until a call of
\* frame has met it, wherever the counter wraps.  Only while publish is between
\* its two stores may the pending frame, about to be replaced, look consumed.
NewFrameKept == unread /\ svc # "store" => ~equal

\* While the encoder reads the frame it took, the portable service writes
\* pixels over it only as the first frame of a capturer, which does not look at
\* the counter, or after start_portable_service cleared the memory it shares with the
\* capturer, whose sequence is then out of step.
HeldFrameStable ==
    [][vid = "encode" /\ svc = "data" /\ svc' = "load" => ~capturer.first \/ cleared]_vars

\* Frames keep coming to a video thread that goes on capturing through a
\* portable service that stays: no frame is left pending that nobody takes, and
\* when run_capture writes its copy of para over a request for a capturer, and
\* goes on with one of an old geometry whose frames are all refused, the
\* first-frame timeout makes the request again.
FramesFlow ==
    <>[](svc # "down" /\ running) => []<>(vid = "encode")
=============================================================================
