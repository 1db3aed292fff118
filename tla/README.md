# Verification of LUODA Remote Desktop

TLA+ models of the concurrent core of LUODA Remote Desktop, the TLC runs that
check them on small instances and the TLAPS proofs that hold for every value of
the constants.  Paths such as `src/src/server.rs` are relative to the directory
that holds both `src/` (the repository) and `tla/`.  `PROJECT.json` ties every
definition to its lines and lists the runs, mutants, findings, hazards and
theorems.

## 1. The system

One program plays several parts, in one or more processes of a machine: the
*controlled side* (server process), its *user interface*, its *connection
manager*, a privileged *portable service* on Windows, and the *controlling
side* (client).  Between machines it relies on a rendezvous server (`hbbs`) and a
relay (`hbbr`), neither of which is in the repository.

| Component | State it keeps | Operations | Hard behaviour | What makes it correct |
|---|---|---|---|---|
| Rendezvous registration (`rendezvous_mediator.rs`, `rendezvous_transport.rs`) | id, key, confirmation flags, latency table in `Config`; `SHOULD_EXIT`, `SOLVING_PK_MISMATCH`; failures and transport per task | supervisor rounds, UDP and TCP loops, `handle_resp`, `restart` | tasks, option changes and answers interleave; UDP loses, duplicates, reorders | a peer that may register gets online; a round told to end ends; the shared marks have an owner |
| Direct access and UPnP (same file) | `DIRECT_PORT`, the listener, six options | bind, fall back, accept, exit; map a port, report it | options written by three actors, one from a stale copy | callers find the listener, and what is reported is so |
| Services (`server/service.rs`, `server.rs`) and video (`server/video_service.rs`) | two subscriber maps, options, the encoder of a run | subscribe, snapshot, run, switch, join | the capture thread's critical sections interleave with connections | no ghost subscriber, decodable first frame, no lost refresh, `join` returns |
| Connection registries (`server/connection.rs`, `display_service.rs`) | `ALIVE_CONNS`, `AUTHED_CONNS`, `SESSIONS`, wake lock, wallpaper, changed resolutions | login, close, drop, expiry | one lock per statement, many tasks | what the last remote connection must restore is restored |
| Portable capture (`server/portable_service.rs`, `shared_counter.rs`) | shared memory: request, frame info, two counter slots, a flag | capture, publish, take, consume, recreate, restart | two processes without a lock | no lost frame, no stall, no frame written over while in use |
| Punch hole, relay, intranet handlers | last relay request | answer, connect, relay | duplicated requests | one connection per request |
| Login and message loop (`connection.rs`) | per-connection flags, permissions | login, 2FA, options, switches | order of messages | nothing before authorization |
| File transfer (`hbb_common/src/fs.rs`, `client/io_loop.rs`, `ui_cm_interface.rs`, `connection.rs`) | jobs on both sides, open file, digest, `.download` files, saved jobs | read, write, confirm, skip, resume, cancel | crash, resume, several jobs on one loop, a user who answers late | the finished file is the source file, and nothing else is touched |
| Terminal (`server/terminal_service.rs`) | persistent services, sessions, channels, output buffers | open, data, resize, close, reconnect, clean up | reconnection against the old connection's thread and against clean-up | the stream goes on where the replay ends, the end of a shell is told, the size is the client's |
| Privacy mode (`privacy_mode.rs`) | one implementation and its owner | on, off, switch | the 7.5 s timeout | one owner, and it knows |
| Video QoS (`server/video_qos.rs`) | users, displays, fps, ratio | delay reports, adjustment | float and integer bounds | fps and ratio stay in range |
| Downloads, heartbeat, updater (`hbbs_http/`, `updater.rs`) | `DOWNLOADERS`, modified-at | start, cancel, remove, poll | a job replaced while its thread runs | a job's result is its own |
| Client (`client.rs`, `client/io_loop.rs`) | attempts, session loop | connect by several ways, reconnect | races of attempts | one winner, the rest closed |
| Transports, configuration, ipc, discovery | sockets, files | encode, decode, save | limits of lengths | what is read is what was written |
| User interfaces, platform code, codecs, input, clipboard, plugins | | | device and system calls | |

How they interact: the registration task receives punch hole and relay requests
and spawns connections; a connection registers with `Server`, which subscribes
it to services; the video service takes frames from the platform's capturer or
from the portable service; the last connection restores the desktop; user
interface and server process exchange options over ipc; file actions go on to
the connection manager, which writes (and on Windows reads) the files; terminal
actions go to a service that may outlive the connection.

## 2. Modules

Every component has a module (state, actions, specification, properties), an
`MC` module with what TLC needs beyond it, and, where it is proved about, a
`Proofs` module.  A step is one critical section, one atomic access or one
handler that nothing else can interrupt; the program counter of an actor names
the step it is about to take.

**`Rendezvous`** – `SupTop` … `SupReset` are the rounds of `start_all`:
`SupTop` reads the options, `SupSpawn` stores `SHOULD_EXIT = false` and spawns,
`SupJoin` waits.  A task is a program of `start`: `Connected`, `TickUdp`,
`TickTcp`, `TickExit`, `SocketError` and `Failed` with the fallback from UDP to TCP or
back, and one action per branch of `handle_resp`.  `RegisterPkOk`,
`ConfirmHost` and `ConfirmSolved` are its OK branch, split where it awaits
or writes another shared variable.
`SetOption` followed by `restart` is what ipc and the tray do.  `hbbs` (`Serve`,
`ServerForget`) is external, modelled from its answers; `TcpRegisters` says whether it
registers over TCP, which the comments of the code deny, so that it is `FALSE` in every
run.  `StartTransports` says what a task may begin with, which proxy, websocket and UDP
options decide.  `test_rendezvous_server`, `TestBegin`, `TestLatency` and
`TestReset` are the thread of `common.rs`, which enters latencies of its own in the table
of online hosts and then empties it.  Time is abstracted: a tick
finds an interval expired or not, and `TickTcpSilent` finds a TCP connection silent for
too long.

**`VideoService`** – `subs` and `news` are `subscribes` and `new_subscribes`;
`IsSubedFirst`, `IsSubedSecond`, `SubscribeAct` are `Server::subscribe` with the
two reads of `is_subed`; the actions from `Idle` to `send_video_frame` are the
thread.  A frame is a key frame or a delta frame, and `gop` counts to the next
key frame.  A snapshot is three steps (read, send, swap), as it is in the code.
Connections' own operations exclude each other, because they hold the write lock of
`Server`.

**`ConnRegistry`** – a connection goes from `Start` through `Login`,
`PushAuthed`, the counts for the wake lock, `LinkSession` and
`on_remote_authorized` to `in`, and back through the checks of
`check_remove_session`, the removal of expired sessions and `Drop for
AuthedConnID`; each statement that takes a lock is a step.  The wake lock thread receives
the counts over a channel (`Receiving`, `SetWakeLock`), reads the keep-awake option
(`SetKeepAwake` changes it) and creates, adjusts or drops its lock as `Platform` has it:
Linux always keeps the display on, and elsewhere `set_display` may fail while
`last_display` is set all the same.  `check_wake_lock_on_setting_changed` is the
connection's timer, the other sender.  The remembered password and the login's
verification are left out, as is resetting virtual displays.

**`DirectServer`** – the task `direct_server`, from `Start` to `Accept` and
`Exit`; the UPnP threads, `Check`, `Map`, `PublishPort`, `PublishStatus`; the user
interface: `UiSync` refreshes its copy of the options, `UiToggle` and `UiOpen`
write the whole copy back, as `ui_interface::set_option` does through
`ipc::set_options`.  `direct` stands for `direct-server` and `stop-service`
together, and a thread's look at two options is one step (the gap that matters
comes after it).  Init includes the options a crashed process left behind.

**`PortableCapture`** – `Top` to `PublishStore` are the thread `run_capture` of
the privileged process, with `publish` in three steps; `New` to `Drop` are
`CapturerPortable`; `StartService`, `ServiceExit`, `SetRunning` the life of
the process.  The two loads of `pending` and of `equal` are one step: the other
process changes at most one of the two slots in between, and each outcome is that of
an atomic look before or after it.  `EndRun` and `FirstFrameTimeout` are the ends of a run
of the video loop; a timeout while the capturer has the geometry the run expects is
counted as a fault, since twelve seconds are ample for a frame.  `newest` tells a request from the ones before it and is
not in the code; it only feeds the history variable `unread`.

**`TransferJob`**, **`FileTransfer`**, **`FileCopy`** – `TransferJob` holds the
operators on one `fs::TransferJob`: `Write` with `ModifyTime`,
`WriteNeedConfirmation`, `Confirm` with `SetStreamOffset` and `SetFileSkipped`,
`InitDataStream`, `Read`. A file is a sequence of blocks that know their file,
version and place; beside it lie its `.download` part and the `.digest` of that
part. `FileTransfer` is the protocol over one connection at a time: the user
(`SendFiles`, `ResumeJob`, `CancelJob`, `SetConfirmOverrideFile`), one action per
message on either side, the two timers (`TickClient`, `TickServer`), `Disconnect`
with the jobs saved or, after a crash, not, `Connect`, and sources that change
between sessions. `cmReads` chooses once between the two readers of the controlled
side, the connection (`HandleReadJobs`) and the connection manager
(`HandleReadJobsTick`), which treat errors differently. Merged or left out: the pipe
to the connection manager forwards in order and is part of the message queue; job
ids are not used again; both peers know overwrite detection and resuming; a sender
blocks when `MaxInFlight` messages are under way; listing, removal and renaming,
printer jobs and one-way options. `told` is what the file manager shows. `FileCopy`
is the abstract specification: a running job touches only the files it was agreed to
write, and is reported done when each of these is a copy. `Copy == INSTANCE FileCopy
WITH ...` maps jobs, decisions and directories to it and `KeepsPromise` states the
refinement. It holds up to the files `misplaced` records (see *Violations*): a file is
in it from the answer that only the reader follows until the writer begins the file
anew. It used to leave it with the next answer, which is too early: with four starts
and three losses TLC finds a part without its beginning that is resumed correctly.

**`OutputBuffer`** – `append` and `get_recent` byte by byte; a byte is its position and
kind (newline, UTF-8 continuation, other), and `total_size` a number that wraps as in a
release build.  `uncounted` records what `append` leaves out of its account.

**`TerminalService`** – the service registry with one service id, the sessions, a
task and a run thread per connection, the clean-up thread and the shells. A step is
what an actor does under one lock: `ReadOutputs` takes the list of sessions,
`ReadSession` (or `SkipSession`, when `try_lock` fails) handles one, `SendResponses`
removes the terminals that ended and sends; `RunEnds` and `RunRemoves`,
`CleanupChooses` and `CleanupRemoves` are the two halves of looking and removing. A
service is named after the connection that created it, so that an object outlives
its place in the registry as an `Arc` does, and a session nobody names is dropped.
Output is a sequence of numbered chunks, since the bytes are `OutputBuffer`'s. Time
is arbitrary: clean-up may choose at any step, as neither output nor a login counts
as activity. What a thread has read waits in `run.out`, per id, until
`SendResponses`. `screen` is what each client has been shown. `Alone` is the condition
under which that is promised: no other connection's run thread is left, and this
connection's own thread holds neither the session under an older id, nor another
session under this id, nor responses under this id that were meant for another. The
last two clauses were missing until the proof of `StreamContinues` failed on them;
with two sessions TLC shows both races. `SessionOwned` says that a session
lives exactly as long as a service or a thread names it, and under one id.

## 3. Runs

Each run takes from a few seconds to four minutes with two workers.

| Run | Bounds | What it shows |
|---|---|---|
| `rendezvous_safety` | two hosts with one name prefix, one id taken, one message each way and one fault | the marks of tasks, supervisor and server test agree: `ExitPropagates`, `SolvingHasOwner`, `StatusFresh` |
| `rendezvous_live` | one host, the first id taken, a changing key, the limits of the code | `ExitCompletes`, `RegisteredOverUdp` |
| `video_safety` | two connections, two calls, one switch, key frame every second frame | `ClosedNotSubscribed`, `KeyFrameFirst`, `LeaveSticks`, `DisplayChangeTold` |
| `video_live` | no encoder failure, two calls | `RefreshServed`, `JoinCompletes` |
| `registry_safety` | two connections, one session key, Windows, one message to the wake lock thread under way | `WallpaperRestored`, `AuthedAlive`, `WakeLockSettles` |
| `direct` | two ports, one UPnP thread with two tries, two writes of the user interface, one port taken or released | `FallbackEarned`, `EventuallyListening`, `StopReported` |
| `portable` | the counter wraps at 5, one change of geometry, two faults | `NewFrameKept`, `HeldFrameStable`, `FramesFlow` |
| `transfer_safety` | one download of two files of up to two blocks, three starts, two lost connections, two versions of each source | `DoneMeansCopied`, `SkippedUntouched`, and the refinement of `FileCopy` (`KeepsPromise`) |
| `transfer_live` | two downloads and an upload on one connection, two starts, one read or open error | `DownloadEnds` |
| `transfer_resume` (violation) | one download, as above, with one error | a resumed file without its beginning is reported done |
| `output_buffer` | seven bytes of three kinds in chunks of up to three | `TailKept`, `RecentIsTail` |
| `terminal` | two connections, two ids, one session, two chunks, a channel of one, a buffer of two, one resize, failure, option change or clean-up | `SessionOwned`, `StreamContinues`, `EndIsTold`, `SizeRestored`, `LeftoverIsPersistent` |

Why the bounds are enough to be interesting: two connections (hosts, threads)
are the fewest that race, and every race found needs two.  One fault suffices for
each error path, and the unbounded loops (ticks, rounds, frames) are not bounded
at all.  A key frame distance of two has delta frames and a periodic key frame.  The limits
2, 4, 4 on failures are the code's own in the live run.  The counter wraps
in the portable run; it must not wrap within the frames that can be published
while one frame is held, or an old sequence is mistaken for a new one.  Those are
few: a capturer publishes without a look at the counter once, and while a frame is
held at most one more capturer is asked for.  A counter of five values (`MAX = 4`) is
enough, whatever the faults, which is the assumption of the module and of its proof;
with `MAX = 3` TLC loses a frame.  In a transfer two files are the fewest for
which the writer can stand at another file than the reader, two blocks the fewest that
leave a part, and three starts with two losses give a part of an earlier attempt
beside a resumed one.  A terminal needs two connections (the old and the new one), two ids
for a remap, and a channel and a replay smaller than the output.  A second session
takes TLC beyond its time; what a remap does with several sessions is covered by the
proofs, which hold for any number of them.  Logins of the
`terminal` run ask for persistence, and the option may then be turned off.

Each property has a mutant, a plausible slip in the code it is about, under which
TLC finds it violated (`PROJECT.json`, "mutants"; the mutated operators stand
before the ones they replace).

### Violations, read against the code

`PROJECT.json` "findings" quotes the lines. `transfer_resume` shows a defect of
`confirm()`: a job is cut off in its first file and resumed; its second file too has
a part, left by an earlier attempt. The digest of the second file is answered while
the writer's `file_num` still is the first, so the writer ignores the offset it has
just told the reader to use, truncates the part when the first block arrives, and
the file is reported done without its beginning. `DoneMeansCopied` and
`KeepsPromise` except exactly the files for which this happened (`misplaced`).

Further deviations from comments of the code are visible in the models and are
described with their lines under "hazards", without a run of their own: a restart
lost between the read of the options and the store of `SHOULD_EXIT`; an OK for an
old key that confirms a new one; a task that falls back to TCP after four late answers,
where hbbs answers `RegisterPk` with `NOT_SUPPORT`, takes that for a sign of life, is shown
as online and never registered again (TLC gives this behaviour, without a fault, when
`RegisteredOverUdp` is asked without its exception `via[h] = "tcp"`); a record of changed resolutions that a dropped connection clears for the next; a default port
put back on display by the user interface; uploads that wait for ever, because
`NewWrite` never hands the list of files to its job; the replay or the output of a
reconnected terminal taken by the old connection's thread; in `OutputBuffer::append`, an
unfinished line that passes the limit of 1 MB, since the early return skips the trimming,
and the bytes that complete a line, which are not counted: removing that line takes
`total_size` below zero, where it wraps, and the loop runs for ever with nothing left to
remove, holding the session (TLC reaches `spinning` in four chunks: an unfinished line as
long as the limit, completed by a chunk that begins another).

Properties state the exception a race makes, with a history variable for it:
`DisplayChangeTold` does not cover a subscriber admitted between the read of the
subscribers and the swap of a snapshot (`missed`), and `WakeLockSettles` does not
cover counts taken while another `check_wake_lock` stood between its counts and its send
(`overlapped`), since the older may be sent last, nor an option that the timers have not
reported yet. `StatusFresh` allows the entries that a server test, which may outlast the
round it began in, has still to reset. The properties of `TerminalService` state
theirs in `Alone`, `dead` (a persistent terminal that ended before the reconnection)
and `entered` (a run thread told to end before it began). Three further races are
visible in the models, but no text of the repository promises otherwise, so no
property is about them: a UPnP result published after its listener is gone
(`rendezvous_mediator.rs:1046`), a "listening" status that an old copy of the
options undoes, and a session removed while a connection with its key logs in
(`connection.rs:5207` and `:5521`).

## 4. Fairness

- *Rendezvous*: weak fairness of the supervisor and of the timers and reads of each
  task, which are threads and tokio intervals; strong fairness of serving and of
  receiving an answer, as a message sent over and over gets through; hbbs answers.
- *VideoService*: weak fairness of the thread; strong fairness of a successful setup
  and of the first frame of a capturer. No fairness of later frames: a static screen
  may block for ever.
- *DirectServer*: weak fairness of the task and of each thread. None of the user
  interface, the router or other programs.
- *PortableCapture*: weak fairness of both threads; strong fairness of a grab (the
  screen changes now and then) and of the two ends of a run that every pass of the
  video loop tests: a changed display or portable service, and the first-frame timeout
  while the capturer has an old geometry. No fairness of a capturer's failure: a GDI
  capturer of an old geometry may go on for ever (`portable_service.rs:465`), after a
  request that `run_capture` overwrote with the one it had read (`:383`), and it is the
  timeout that makes `FramesFlow` hold.
- *FileTransfer*: weak fairness of receiving and of the timer on both sides, each a
  branch of a `select!` loop. None of the user: a prompt may stay unanswered, and
  none of reconnecting.
- *TerminalService* and *OutputBuffer* state no liveness: a shell may stay silent,
  and `try_lock` may fail any number of times.

## 5. Proofs

One inductive invariant for each component, in its `Proofs` module.

- `RendezvousProofs`: `IInv` adds to the types that tasks exist exactly while the
  supervisor waits for them (`Rounds`) and that the mark names a host of the round
  (`SolvingInRound`). `SolvingHasOwner` then needs `ExitPropagates`: an owner whose
  task ended has raised `SHOULD_EXIT`. `StatusFresh` is inductive with `Rounds`: only a
  task of the round or the server test enters a latency, and the test is still to reset.
- `VideoServiceProofs`: `Registered` (the maps are disjoint and hold open
  connections only) carries `ClosedNotSubscribed`; `KeyFrameNext` (while an admitted
  subscriber has seen nothing, the next frame is a key frame) carries
  `KeyFrameFirst`; `Leaving` carries `LeaveSticks`. `EveryoneIsTold` follows who has
  the message through the steps of a snapshot.
- `ConnRegistryProofs`: `Listed` says where a connection is when it is in each list;
  the wallpaper invariant is inductive with it. `WakeLockIsRight` adds what the counts
  under way, or the last ones in the channel, say (`WakeInv`), that the lock fits the
  counts received and the option last read (`LockFits`) and that `last_display` is what
  the lock does (`LastDisplayTrue`, on Windows). For any finite set of connections and
  every platform.
- `DirectServerProofs`: `Tried` (every port below `DIRECT_PORT` has failed),
  `Without` (where the task has no listener) and `OnPort`. `OnlyDisabledExits`
  follows: the test `port != get_direct_port()` of the accept loop never fires.
- `TerminalServiceProofs`: a session by itself is `Good`: what its shell wrote is, in
  order, in the buffer and then in the channel, but for what a full channel dropped
  and what the buffer has shed (`Recorded`), and its height is the client's once no
  phase is left (`SizeRestored`). `Threads`, `Unborn` and `Watched` say what a
  connection and its thread may hold (`LeftoverIsPersistent`). For a client that has a
  terminal alone, `Attached` says that its thread has the session under this id only
  (`EndIsTold`), and `Delivered` that screen, responses under way, pending replay
  and channel join without a gap (`StreamContinues`). One lemma per action and
  part; the lemmas on sequences (rising joins, tails, the elements of a join) come first.
- `OutputBufferProofs`: `Holds` says that the output is something and then the bytes of
  the held lines, none of which is empty, and that `total_size` lacks what was never
  counted, modulo the range of a usize; with the numbering of the bytes it is
  inductive. `FlattenSeq` and `SplitLines` are recursive functions; that they exist and
  what they keep is shown by well-founded induction over sets of numbers
  (`NatByStep`, `IterationExists`, `FlattenConcat`, `SplitKeeps`). `RecentHolds` goes through the three answers of `get_recent`.
- `PortableCaptureProofs`: the frames that can still be published before a held
  sequence is stored are counted: one by the capturer there is (`ByThis`), one by the
  capturer a request asks for (`ByNext`), one more if the video thread writes an old
  request back (`ByCopied`). `HeldInv` and `ReadInv` bound with it how far the slot
  `write` runs ahead of a held sequence and of the slot `read`. Two states do not fit
  the count and have invariants of their own: `publish` overtaken by the resets of
  `new` (`Stale`, `ResetInv`), and a sequence of before `start_portable_service` cleared
  the memory (`Fresh`, `Loose`), which can belong to no frame of the newest request.
- `FileTransferProofs`: the jobs share two queues and the list
  `read_jobs`; the invariant is stated for each job over the messages of that job alone
  (`CM(j)`, `SM(j)`), and the lemmas on `Only` say what a step of one job does to
  the subsequences of the others: nothing. A download is `Listed`, its request is under way
  (`Requested`), or it is in `Flow`: the list of files or blocks are on their way to the
  writer (`Front`), and behind them the transfer has failed (`Broken`), is complete
  (`Over`), stands between two files (`Closed`), waits for an answer about a file
  (`Waits`) or sends its blocks (`Streams`). In each stage the place of the reader is
  that of the writer plus what is under way (`Fed`, `CaughtUp`), which is why "done"
  finds every file complete. `Answers1` says that an answer never meets a reader that
  has moved on. `Content` relates the directory to this: a part is a beginning of the
  version its digest names (`Parts`), the open one is of the source's version
  (`Open`), the files behind the writer are copied (`Copied`), and what a saved job
  claims is so (`Saved`). Uploads write nothing (`Upload`; see "hazards" on
  `NewWrite`). One lemma per action shows that the step keeps `IInv`, leaves skipped
  files alone and is a step of `FileCopy` or none: it is one job's (`OneJob`), no
  download notices it (`AllQuiet`), or several stop at once (`AllStop`).
  `DoneMeansCopied`, `SkippedUntouched` and `KeepsPromise` follow. For any finite set
  of jobs and any number of files, blocks, versions, losses and faults.

The assumptions are the `ASSUME`s of the modules: ranges of the limits, and that the
"none" values are not members of the sets they extend; for `PortableCapture` that the
counter has five values (the code's has 2^31); for `FileTransfer` that the jobs are
finitely many; for `OutputBuffer` that the output is shorter than the range of a usize
less the size limit (2^64 bytes in the code).

Only model-checked: all liveness (the prover does not handle fairness).

## 6. Not modelled, and why

See "components" in `PROJECT.json`. Device and system calls, codecs, sockets, files,
user interfaces and generated bindings have no state of their own that a model would
explain. Within the modelled components: recording and camera sources, the cursor
counter, torn copies of the request in shared memory, two portable service processes
at once, the text of errors, router mappings that are never removed; errors of the
writer's disk, file lists over the limit, directories and empty directories;
keyboard input, the reaper of child processes, the limit on services and the helper
process of Windows.

## 7. Plan

Next, in this order, most important first:

1. `PrivacyMode`: owner, timeout, late result.
2. `Downloads`: jobs by URL, replaced jobs, cancel, automatic deletion.
3. `RelayRequests`: punch hole, relay and intranet handlers, duplicate
   suppression; composed with `DirectServer`'s options (the reported port).
4. `VideoQos` and the policy functions (`headless_policy`, `host_startup`, `tray_exit`,
   `BytesCodec`): operators against reference definitions over bounded inputs.
5. `Subscription`, an abstract specification of the service registry (a set of
   members, each served from a key frame on), and `VideoService` shown to
   implement it; the same for `PortableCapture` as a one-place buffer.
6. Client: the race of connection attempts and reconnection.
