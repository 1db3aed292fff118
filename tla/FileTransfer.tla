---------------------------- MODULE FileTransfer ----------------------------
(***************************************************************************)
(* File transfer between a controlling client (src/client/io_loop.rs) and a*)
(* controlled peer (src/server/connection.rs, with the connection manager  *)
(* of src/ui_cm_interface.rs behind it): jobs are started, resumed after a *)
(* lost connection, confirmed file by file and cancelled by the user of the*)
(* client; blocks and answers travel in order over one connection.         *)
(*                                                                         *)
(* A download is read on the controlled side, by the connection itself or, *)
(* on Windows, by the connection manager, and written by the client.  An   *)
(* upload is read by the client and written by the connection manager.     *)
(* The connection manager is reached over an ordered pipe that the         *)
(* connection only forwards to, so both are one actor here.                *)
(***************************************************************************)
EXTENDS TransferJob, FiniteSets

CONSTANTS
    Jobs,           \* job ids
    Uploads,        \* those of them that go from the client to the peer
    MaxVersion,     \* bound: contents a source file has over time
    MaxStarts,      \* bound: times a job is started or resumed
    MaxBreaks,      \* bound: connections lost
    MaxFaults,      \* bound: open and read errors of source files
    MaxInFlight     \* bound: messages in one direction the reader waits for

ASSUME FileTransferAssumption ==
    /\ IsFiniteSet(Jobs) /\ Uploads \subseteq Jobs
    /\ {MaxVersion, MaxInFlight} \subseteq Nat \ {0}
    /\ {MaxStarts, MaxBreaks, MaxFaults} \subseteq Nat

VARIABLES
    cmReads,    \* the peer reads in its connection manager (Windows)
    connected,  \* a session is up
    writing,    \* ids in the client's write_jobs
    cmWriting,  \* ids in the connection manager's write_jobs
    writer,     \* the writing job of each id
    reading,    \* ids in read_jobs, in order, of each side
    reader,     \* the reading job of each id
    toClient,   \* messages under way
    toServer,
    dir,        \* destination directory of each job: file, part and digest
    version,    \* content of the source files
    saved,      \* file_num of the jobs in the peer's configuration, -1: none
    prompts,    \* questions "overwrite?" on the user's screen
    told,       \* the last status the user was shown of each job
    failed,     \* history: jobs of which an error was shown since they began
    decided,    \* history: the answer given for each file of each job
    kept,       \* history: those answers when the jobs were last saved
    misplaced,  \* history: files resumed by the reader but not by the writer,
                \* until they are begun anew
    starts, breaks, faults

vars == <<cmReads, connected, writing, cmWriting, writer, reading, reader,
          toClient, toServer, dir, version, saved, prompts, told, failed,
          decided, kept, misplaced, starts, breaks, faults>>

Sides == {"client", "server"}
Elems(q) == {q[i] : i \in DOMAIN q}

\* The elements of q that are in T, in their order.
Only(q, T) ==
    LET chosen[n \in 0 .. Len(q)] ==
            IF n = 0 THEN <<>>
            ELSE IF q[n] \in T THEN Append(chosen[n - 1], q[n]) ELSE chosen[n - 1]
    IN  chosen[Len(q)]

Entry == [final : Seq(Files \X (0 .. MaxVersion) \X Nat),
          part : Seq(Files \X (0 .. MaxVersion) \X Nat),
          digest : 0 .. MaxVersion]
Job == [file : 0 .. NFiles, listed : BOOLEAN, pos : Nat \cup {-1},
        confirmed : BOOLEAN, waiting : BOOLEAN, skipped : BOOLEAN,
        last : BOOLEAN, resume : BOOLEAN,
        strategy : {"ask", "overwrite", "skip"}, digest : 0 .. MaxVersion]

Answers == [Files -> {"open", "copy", "skip"}]
Unanswered == [f \in Files |-> "open"]

TypeOK ==
    /\ cmReads \in BOOLEAN /\ connected \in BOOLEAN
    /\ writing \subseteq Jobs \ Uploads /\ cmWriting \subseteq Uploads
    /\ writer \in [Jobs -> Job] /\ reader \in [Jobs -> Job]
    /\ \A s \in Sides : Elems(reading[s]) \subseteq Jobs
    /\ \A m \in Elems(toClient) : m.t \in {"dir", "digest", "block", "done", "error"}
    /\ \A m \in Elems(toServer) :
          m.t \in {"send", "receive", "confirm", "cancel", "digest", "block",
                   "done", "error"}
    /\ dir \in [Jobs -> [Files -> Entry]]
    /\ version \in [Jobs -> [Files -> 1 .. MaxVersion]]
    /\ saved \in [Jobs -> -1 .. NFiles]
    /\ prompts \subseteq Jobs \X Files
    /\ told \in [Jobs -> {"none", "listed", "running", "done", "error"}]
    /\ failed \subseteq Jobs /\ misplaced \subseteq Jobs \X Files
    /\ decided \in [Jobs -> Answers] /\ kept \in [Jobs -> Answers]
    /\ starts \in 0 .. MaxStarts /\ breaks \in 0 .. MaxBreaks
    /\ faults \in 0 .. MaxFaults

\* The destination holds an older file of some of the names.
OldFile(f) == <<<<f, 0, 1>>>>

Init ==
    /\ cmReads \in BOOLEAN /\ connected = TRUE
    /\ writing = {} /\ cmWriting = {}
    /\ writer = [j \in Jobs |-> NewJob(0, FALSE)]
    /\ reading = [s \in Sides |-> <<>>]
    /\ reader = [j \in Jobs |-> NewJob(0, FALSE)]
    /\ toClient = <<>> /\ toServer = <<>>
    /\ dir = [j \in Jobs |-> [f \in Files |->
                 [final |-> IF f = 0 THEN OldFile(f) ELSE NoFile,
                  part |-> NoFile, digest |-> NoDigest]]]
    /\ version = [j \in Jobs |-> [f \in Files |-> 1]]
    /\ saved = [j \in Jobs |-> -1]
    /\ prompts = {} /\ told = [j \in Jobs |-> "none"]
    /\ failed = {} /\ misplaced = {}
    /\ decided = [j \in Jobs |-> Unanswered] /\ kept = decided
    /\ starts = 0 /\ breaks = 0 /\ faults = 0

\* What the source of a job looks like to set_stream_offset.
SourceDir(j) ==
    [f \in Files |-> [final |-> Source(f, version[j][f]), part |-> NoFile,
                      digest |-> NoDigest]]

ClientHas(j) == j \in writing \/ j \in Elems(reading["client"])
Without(q, j) == Only(q, Jobs \ {j})
Dir(j) == [t |-> "dir", j |-> j]
Digest(j, f) == [t |-> "digest", j |-> j, file |-> f, version |-> version[j][f]]
Block(j, f, d) == [t |-> "block", j |-> j, file |-> f, data |-> d]
Done(j) == [t |-> "done", j |-> j]
Error(j) == [t |-> "error", j |-> j]
Answer(j, f, skip, offset) ==
    [t |-> "confirm", j |-> j, file |-> f, skip |-> skip, offset |-> offset]

\* The user interface has forgotten the jobs that were cancelled or lost.
Tell(j, status) ==
    told' = [told EXCEPT ![j] = IF @ = "none" THEN "none" ELSE status]
DropPrompts(j) == prompts' = {p \in prompts : p[1] # j}
---------------------------------------------------------------------------
(* The user of the client                                                  *)

\* Job ids are not used again: nothing of an earlier job of this id is left.
Unused(j) ==
    /\ ~ClientHas(j) /\ j \notin cmWriting \cup Elems(reading["server"])
    /\ \A m \in Elems(toClient) \cup Elems(toServer) : m.j # j

\* SendFiles: a new job to the same directory, from the first file on.
SendFiles(j) ==
    /\ connected /\ Unused(j) /\ starts < MaxStarts
    /\ starts' = starts + 1
    /\ told' = [told EXCEPT ![j] = "running"]
    /\ failed' = failed \ {j}
    /\ decided' = [decided EXCEPT ![j] = Unanswered]
    /\ kept' = [kept EXCEPT ![j] = Unanswered]
    /\ IF j \in Uploads
       THEN /\ reading' = [reading EXCEPT !["client"] = Append(@, j)]
            /\ reader' = [reader EXCEPT ![j] = NewJob(0, TRUE)]
            /\ toServer' = Append(toServer, [t |-> "receive", j |-> j, file |-> 0])
            /\ UNCHANGED <<writing, writer>>
       ELSE /\ writing' = writing \cup {j}
            /\ writer' = [writer EXCEPT ![j] = NewJob(0, FALSE)]
            /\ toServer' = Append(toServer, [t |-> "send", j |-> j, file |-> 0])
            /\ UNCHANGED <<reading, reader>>
    /\ UNCHANGED <<cmReads, connected, cmWriting, toClient, dir, version, saved,
                   prompts, misplaced, breaks, faults>>

\* ResumeJob: go on with a job listed after a reconnection.
ResumeJob(j) ==
    /\ connected /\ starts < MaxStarts
    /\ starts' = starts + 1
    /\ IF j \in Uploads
       THEN /\ j \in Elems(reading["client"]) /\ reader[j].last
            /\ reader' = [reader EXCEPT ![j].last = FALSE, ![j].resume = TRUE]
            /\ toServer' = Append(toServer, [t |-> "receive", j |-> j,
                                             file |-> reader[j].file])
            /\ UNCHANGED writer
       ELSE /\ j \in writing /\ writer[j].last
            /\ writer' = [writer EXCEPT ![j].last = FALSE, ![j].resume = TRUE]
            /\ toServer' = Append(toServer, [t |-> "send", j |-> j,
                                             file |-> writer[j].file])
            /\ UNCHANGED reader
    /\ told' = [told EXCEPT ![j] = "running"]
    /\ failed' = failed \ {j}
    /\ UNCHANGED <<cmReads, connected, writing, cmWriting, reading, toClient,
                   dir, version, saved, prompts, decided, kept, misplaced, breaks,
                   faults>>

\* CancelJob: the peer is told, the part of the current file is removed.
CancelJob(j) ==
    /\ connected /\ ClientHas(j)
    /\ toServer' = Append(toServer, [t |-> "cancel", j |-> j])
    /\ dir' = IF j \in writing
              THEN [dir EXCEPT ![j] = RemoveDownloadFile(writer[j], @)]
              ELSE dir
    /\ writing' = writing \ {j}
    /\ reading' = [reading EXCEPT !["client"] = Without(@, j)]
    /\ told' = [told EXCEPT ![j] = "none"]
    /\ DropPrompts(j)
    /\ UNCHANGED <<cmReads, connected, cmWriting, writer, reader, toClient,
                   version, saved, failed, decided, kept, misplaced, starts, breaks,
                   faults>>

\* Mutant of Decide: the answer is sent but not applied to the writer.
DecideForReader(j, job, f, skip, offset) ==
    /\ writer' = [writer EXCEPT ![j] = job]
    /\ toServer' = Append(toServer, Answer(j, f, skip, offset))
    /\ decided' = [decided EXCEPT ![j][f] = IF skip THEN "skip" ELSE "copy"]
    /\ UNCHANGED misplaced

\* The writer answers for a file: it applies the answer to itself and sends it.
Decide(j, job, f, skip, offset) ==
    /\ writer' = [writer EXCEPT ![j] =
                     Confirm(job, dir[j], Answer(j, f, skip, offset))]
    /\ toServer' = Append(toServer, Answer(j, f, skip, offset))
    /\ decided' = [decided EXCEPT ![j][f] = IF skip THEN "skip" ELSE "copy"]
    /\ misplaced' = IF ~skip /\ offset > 0 /\ job.file # f
                    THEN misplaced \cup {<<j, f>>} ELSE misplaced

\* SetConfirmOverrideFile: the user answers, perhaps once for all files.
SetConfirmOverrideFile(j, f, overwrite, remember) ==
    /\ connected /\ <<j, f>> \in prompts /\ j \in writing
    /\ prompts' = prompts \ {<<j, f>>}
    /\ LET strategy == IF remember THEN IF overwrite THEN "overwrite" ELSE "skip"
                       ELSE writer[j].strategy
       IN  Decide(j, [writer[j] EXCEPT !.strategy = strategy], f, ~overwrite, 0)
    /\ UNCHANGED <<cmReads, connected, writing, cmWriting, reading, reader,
                   toClient, dir, version, saved, told, failed, kept, starts,
                   breaks, faults>>
---------------------------------------------------------------------------
(* The client's side of the connection                                     *)

ClientGets(type) == connected /\ toClient # <<>> /\ Head(toClient).t = type

\* FileResponse::Dir: the write job learns its files.
ClientDir ==
    /\ ClientGets("dir")
    /\ toClient' = Tail(toClient)
    /\ LET j == Head(toClient).j
       IN  writer' = IF j \in writing THEN [writer EXCEPT ![j].listed = TRUE]
                     ELSE writer
    /\ UNCHANGED <<cmReads, connected, writing, cmWriting, reading, reader,
                   toServer, dir, version, saved, prompts, told, failed, decided,
                   kept, misplaced, starts, breaks, faults>>

\* FileResponse::Digest of a download: answer at once, or ask the user.
ClientDigest ==
    /\ ClientGets("digest")
    /\ toClient' = Tail(toClient)
    /\ LET m == Head(toClient)
           job == [writer[m.j] EXCEPT !.digest = m.version]
           need == WriteNeedConfirmation(job.resume, dir[m.j][m.file], m.version)
       IN  IF m.j \notin writing \/ ~InList(writer[m.j], m.file)
           THEN UNCHANGED <<writer, toServer, decided, misplaced, prompts>>
           ELSE IF need.result = "ask" /\ job.strategy = "ask"
           THEN /\ writer' = [writer EXCEPT ![m.j] = job]
                /\ prompts' = prompts \cup {<<m.j, m.file>>}
                /\ UNCHANGED <<toServer, decided, misplaced>>
           ELSE /\ Decide(m.j, job, m.file,
                          need.result = "ask" /\ job.strategy = "skip", need.offset)
                /\ UNCHANGED prompts
    /\ UNCHANGED <<cmReads, connected, writing, cmWriting, reading, reader, dir,
                   version, saved, told, failed, kept, starts, breaks, faults>>

\* The data is the first of the file, and the job begins a new part with it.
BeginsFile(job, f, data) ==
    /\ InList(job, f) /\ (f # job.file \/ job.pos = -1)
    /\ IF data = <<>> THEN Size[f] = 0 ELSE data[1][3] = 1

\* FileResponse::Block.
ClientBlock ==
    /\ ClientGets("block")
    /\ toClient' = Tail(toClient)
    /\ LET m == Head(toClient)
           w == Write(writer[m.j], dir[m.j], m.file, m.data)
       IN  IF m.j \in writing
           THEN /\ writer' = [writer EXCEPT ![m.j] = w.job]
                /\ dir' = [dir EXCEPT ![m.j] = w.dir]
                /\ misplaced' = IF BeginsFile(writer[m.j], m.file, m.data)
                                THEN misplaced \ {<<m.j, m.file>>} ELSE misplaced
           ELSE UNCHANGED <<writer, dir, misplaced>>
    /\ UNCHANGED <<cmReads, connected, writing, cmWriting, reading, reader,
                   toServer, version, saved, prompts, told, failed, decided,
                   kept, starts, breaks, faults>>

\* FileResponse::Done: the last file is put in place; the user is told, even
\* when the job is no longer there.
ClientDone ==
    /\ ClientGets("done")
    /\ toClient' = Tail(toClient)
    /\ LET j == Head(toClient).j
           skipped == j \in writing /\ writer[j].listed /\ JobSkipped(writer[j])
       IN  /\ dir' = IF j \in writing
                     THEN [dir EXCEPT ![j] = ModifyTime(writer[j], @)]
                     ELSE dir
           /\ writing' = writing \ {j}
           /\ Tell(j, IF skipped THEN "error" ELSE "done")
           /\ failed' = IF skipped THEN failed \cup {j} ELSE failed
    /\ UNCHANGED <<cmReads, connected, cmWriting, writer, reading, reader,
                   toServer, version, saved, prompts, decided, kept, misplaced, starts,
                   breaks, faults>>

\* FileResponse::Error: the job is dropped, of whichever kind it is.
ClientError ==
    /\ ClientGets("error")
    /\ toClient' = Tail(toClient)
    /\ LET j == Head(toClient).j
       IN  /\ writing' = writing \ {j}
           /\ reading' = [reading EXCEPT !["client"] =
                             IF j \in writing THEN @ ELSE Without(@, j)]
           /\ Tell(j, "error")
           /\ failed' = failed \cup {j}
           /\ DropPrompts(j)
    /\ UNCHANGED <<cmReads, connected, cmWriting, writer, reader, toServer, dir,
                   version, saved, decided, kept, misplaced, starts, breaks, faults>>
---------------------------------------------------------------------------
(* The controlled side of the connection                                   *)

ServerGets(type) == connected /\ toServer # <<>> /\ Head(toServer).t = type

\* FileAction::Send: list the files, send the list, start reading; or fail.
ServerSend ==
    /\ ServerGets("send")
    /\ toServer' = Tail(toServer)
    /\ LET m == Head(toServer)
       IN  \/ /\ toClient' = Append(toClient, Dir(m.j))
              /\ reading' = [reading EXCEPT !["server"] = Append(@, m.j)]
              /\ reader' = [reader EXCEPT ![m.j] = NewJob(m.file, TRUE)]
              /\ UNCHANGED faults
           \/ /\ faults < MaxFaults
              /\ faults' = faults + 1
              /\ toClient' = Append(toClient, Error(m.j))
              /\ UNCHANGED <<reading, reader>>
    /\ UNCHANGED <<cmReads, connected, writing, cmWriting, writer, dir, version,
                   saved, prompts, told, failed, decided, kept, misplaced, starts,
                   breaks>>

\* FileAction::Receive, NewWrite: the file list is converted but never handed
\* to the job.
ServerReceive ==
    /\ ServerGets("receive")
    /\ toServer' = Tail(toServer)
    /\ LET m == Head(toServer)
       IN  /\ cmWriting' = cmWriting \cup {m.j}
           /\ writer' = [writer EXCEPT ![m.j] = NewJob(m.file, FALSE)]
    /\ UNCHANGED <<cmReads, connected, writing, reading, reader, toClient, dir,
                   version, saved, prompts, told, failed, decided, kept, misplaced,
                   starts, breaks, faults>>

\* FileAction::SendConfirm: in the connection the answer must be about the
\* current file; for a job of the connection manager it always is.
ServerConfirm ==
    /\ ServerGets("confirm")
    /\ toServer' = Tail(toServer)
    /\ LET m == Head(toServer)
           c == IF cmReads THEN [m EXCEPT !.file = reader[m.j].file] ELSE m
       IN  reader' = IF m.j \in Elems(reading["server"])
                     THEN [reader EXCEPT ![m.j] = Confirm(@, SourceDir(m.j), c)]
                     ELSE reader
    /\ UNCHANGED <<cmReads, connected, writing, cmWriting, writer, reading,
                   toClient, dir, version, saved, prompts, told, failed, decided,
                   kept, misplaced, starts, breaks, faults>>

\* FileAction::Cancel: CancelWrite and CancelRead.
ServerCancel ==
    /\ ServerGets("cancel")
    /\ toServer' = Tail(toServer)
    /\ LET j == Head(toServer).j
       IN  /\ dir' = IF j \in cmWriting
                     THEN [dir EXCEPT ![j] = RemoveDownloadFile(writer[j], @)]
                     ELSE dir
           /\ cmWriting' = cmWriting \ {j}
           /\ reading' = [reading EXCEPT !["server"] = Without(@, j)]
    /\ UNCHANGED <<cmReads, connected, writing, writer, reader, toClient, version,
                   saved, prompts, told, failed, decided, kept, misplaced, starts,
                   breaks, faults>>

\* CheckDigest of an upload answers for a file of the job's list, and NewWrite
\* left that list empty.
ServerDigest ==
    /\ ServerGets("digest")
    /\ LET m == Head(toServer) IN m.j \in cmWriting => ~InList(writer[m.j], m.file)
    /\ toServer' = Tail(toServer)
    /\ UNCHANGED <<cmReads, connected, writing, cmWriting, writer, reading, reader,
                   toClient, dir, version, saved, prompts, told, failed, decided,
                   kept, misplaced, starts, breaks, faults>>

\* WriteDone and WriteError of an upload.
ServerWriteEnds ==
    /\ connected /\ toServer # <<>> /\ Head(toServer).t \in {"done", "error"}
    /\ toServer' = Tail(toServer)
    /\ LET m == Head(toServer)
       IN  IF m.j \in cmWriting
           THEN /\ cmWriting' = cmWriting \ {m.j}
                /\ dir' = IF m.t = "done"
                          THEN [dir EXCEPT ![m.j] = ModifyTime(writer[m.j], @)]
                          ELSE dir
                /\ toClient' = Append(toClient, m)
           ELSE UNCHANGED <<cmWriting, dir, toClient>>
    /\ UNCHANGED <<cmReads, connected, writing, writer, reading, reader, version,
                   saved, prompts, told, failed, decided, kept, misplaced, starts,
                   breaks, faults>>
---------------------------------------------------------------------------
(* Reading: one tick of the file timer                                     *)

Live(side) == Only(reading[side], {j \in Jobs : ~reader[j].last})
Post(side, msgs) ==
    IF side = "client"
    THEN toServer' = toServer \o msgs /\ UNCHANGED toClient
    ELSE toClient' = toClient \o msgs /\ UNCHANGED toServer
Room(side) == Len(IF side = "client" THEN toServer ELSE toClient) < MaxInFlight

\* The jobs of which the source file fails to open in one tick: at most one.
Unopened == {{}} \cup {{j} : j \in Jobs}

\* At most one source file fails to open or to read in one tick.
Failure(side, bad, readFails) ==
    /\ bad \subseteq {j \in Elems(Live(side)) : Opens(reader[j])}
    /\ readFails => bad = {}
    /\ faults' = IF bad # {} \/ readFails THEN faults + 1 ELSE faults
    /\ faults' <= MaxFaults

ReadNow(j, job, fails) == Read(job, version[j][IF job.file < NFiles THEN job.file ELSE 0], fails)
InitMessage(j, init) ==
    IF init.out = "digest" THEN Digest(j, init.job.file) ELSE Error(j)
ReadMessage(j, job, r) ==
    CASE r.out = "block" -> <<Block(j, job.file, r.data)>>
      [] r.out = "error" -> <<Error(j)>>
      [] OTHER -> IF JobCompleted(r.job)
                  THEN IF JobSkipped(r.job) THEN <<Error(j)>> ELSE <<Done(j)>>
                  ELSE <<>>
Finishes(r) == r.out = "none" /\ JobCompleted(r.job)

\* handle_read_jobs: every job is initialised, the first one is read.  A job
\* whose read failed stays and goes on with its next file.
HandleReadJobs(side, bad, readFails) ==
    LET q == Live(side)
        init == [j \in Elems(q) |-> InitDataStream(reader[j], j \in bad)]
        senders == Only(q, {j \in Elems(q) : init[j].out # "none"})
        sent == [n \in DOMAIN senders |-> InitMessage(senders[n], init[senders[n]])]
        h == q[1]
        r == ReadNow(h, init[h].job, readFails)
    IN  /\ connected /\ q # <<>> /\ Room(side)
        /\ Failure(side, bad, readFails)
        /\ readFails => init[h].job.confirmed
        /\ reader' = [j \in Jobs |->
                         IF j \notin Elems(q) THEN reader[j]
                         ELSE IF j = h THEN r.job ELSE init[j].job]
        /\ Post(side, sent \o ReadMessage(h, init[h].job, r))
        /\ reading' = IF Finishes(r) THEN [reading EXCEPT ![side] = Without(@, h)]
                      ELSE reading
        /\ UNCHANGED <<cmReads, connected, writing, cmWriting, writer, dir, version,
                       saved, prompts, told, failed, decided, kept, misplaced, starts,
                       breaks>>

\* handle_read_jobs_tick of the connection manager: a job that fails is
\* finished; the first other one is initialised and read.
HandleReadJobsTick(bad, readFails) ==
    LET q == Live("server")
        rest == Only(q, Jobs \ bad)
        h == rest[1]
        init == InitDataStream(reader[h], FALSE)
        r == ReadNow(h, init.job, readFails)
        ended == bad \cup (IF rest # <<>> /\ (Finishes(r) \/ r.out = "error")
                           THEN {h} ELSE {})
    IN  /\ connected /\ q # <<>> /\ Room("server")
        /\ Failure("server", bad, readFails)
        /\ bad \subseteq {q[1]}
        /\ readFails => init.job.confirmed
        /\ reader' = IF rest = <<>> THEN reader ELSE [reader EXCEPT ![h] = r.job]
        /\ Post("server",
                (IF bad = {} THEN <<>> ELSE <<Error(q[1])>>)
                \o (IF rest = <<>> THEN <<>>
                    ELSE (IF init.out = "none" THEN <<>> ELSE <<InitMessage(h, init)>>)
                         \o ReadMessage(h, init.job, r)))
        /\ reading' = [reading EXCEPT !["server"] = Only(@, Jobs \ ended)]
        /\ UNCHANGED <<cmReads, connected, writing, cmWriting, writer, dir, version,
                       saved, prompts, told, failed, decided, kept, misplaced, starts,
                       breaks>>

TickClient(bad, readFails) == HandleReadJobs("client", bad, readFails)
TickServer(bad, readFails) ==
    IF cmReads THEN HandleReadJobsTick(bad, readFails)
    ELSE HandleReadJobs("server", bad, readFails)
---------------------------------------------------------------------------
(* The connection and the world around it                                  *)

\* The session ends: sync_jobs_status_to_local saves the client's jobs.  When
\* the client's process dies instead, what was saved before stays.
Disconnect(saves) ==
    /\ connected /\ breaks < MaxBreaks
    /\ breaks' = breaks + 1
    /\ connected' = FALSE
    /\ saved' = IF saves
                THEN [j \in Jobs |-> IF j \in writing THEN writer[j].file
                                     ELSE IF j \in Elems(reading["client"])
                                     THEN reader[j].file ELSE -1]
                ELSE saved
    /\ kept' = IF saves THEN decided ELSE kept
    /\ writing' = {} /\ cmWriting' = {}
    /\ reading' = [s \in Sides |-> <<>>]
    /\ toClient' = <<>> /\ toServer' = <<>> /\ prompts' = {}
    /\ writer' = [j \in Jobs |-> NewJob(0, FALSE)] /\ reader' = writer'
    /\ told' = [j \in Jobs |-> IF told[j] \in {"running", "listed"} THEN "none"
                               ELSE told[j]]
    /\ UNCHANGED <<cmReads, dir, version, failed, decided, misplaced, starts,
                   faults>>

\* A new session: load_last_jobs and AddJob list what was saved.
Connect ==
    /\ ~connected
    /\ connected' = TRUE
    /\ LET jobs == {j \in Jobs : saved[j] # -1}
           last(j) == [NewJob(saved[j], j \in Uploads) EXCEPT !.last = TRUE]
       IN  /\ writing' = jobs \ Uploads
           /\ writer' = [j \in Jobs |-> IF j \in jobs \ Uploads THEN last(j)
                                        ELSE writer[j]]
           /\ \E q \in {q \in [1 .. Cardinality(jobs \cap Uploads) -> jobs \cap Uploads] :
                           Elems(q) = jobs \cap Uploads} :
                 reading' = [reading EXCEPT !["client"] = q]
           /\ reader' = [j \in Jobs |-> IF j \in jobs \cap Uploads THEN last(j)
                                        ELSE reader[j]]
           /\ decided' = [j \in Jobs |-> IF j \in jobs THEN kept[j] ELSE decided[j]]
           /\ told' = [j \in Jobs |-> IF j \in jobs THEN "listed" ELSE told[j]]
    /\ UNCHANGED <<cmReads, cmWriting, toClient, toServer, dir, version, saved,
                   prompts, failed, kept, misplaced, starts, breaks, faults>>

\* Source files change between sessions, not while a job reads them.
SourceChanges(j, f) ==
    /\ ~connected /\ version[j][f] < MaxVersion
    /\ version' = [version EXCEPT ![j][f] = @ + 1]
    /\ UNCHANGED <<cmReads, connected, writing, cmWriting, writer, reading, reader,
                   toClient, toServer, dir, saved, prompts, told, failed, decided,
                   kept, misplaced, starts, breaks, faults>>
---------------------------------------------------------------------------
ClientReceives == ClientDir \/ ClientDigest \/ ClientBlock \/ ClientDone \/ ClientError
ServerReceives == ServerSend \/ ServerReceive \/ ServerConfirm \/ ServerCancel
                      \/ ServerDigest \/ ServerWriteEnds
ClientTicks == \E bad \in Unopened, r \in BOOLEAN : TickClient(bad, r)
ServerTicks == \E bad \in Unopened, r \in BOOLEAN : TickServer(bad, r)
User == \E j \in Jobs :
           \/ SendFiles(j) \/ ResumeJob(j) \/ CancelJob(j)
           \/ \E f \in Files, o, r \in BOOLEAN : SetConfirmOverrideFile(j, f, o, r)
World == \/ \E s \in BOOLEAN : Disconnect(s)
         \/ Connect
         \/ \E j \in Jobs, f \in Files : SourceChanges(j, f)

Next == User \/ ClientReceives \/ ServerReceives \/ ClientTicks \/ ServerTicks \/ World

Spec == Init /\ [][Next]_vars

\* Both loops keep polling their socket and their timer.
FairSpec == Spec /\ WF_vars(ClientReceives) /\ WF_vars(ServerReceives)
                 /\ WF_vars(ClientTicks) /\ WF_vars(ServerTicks)
---------------------------------------------------------------------------
(* Properties                                                              *)

Whole(j, f) == dir[j][f].final \in {Source(f, v) : v \in 1 .. version[j][f]}

\* When the user is told that a job is done, and was told of no error, every
\* file that was to be copied is a whole copy of one version of its source,
\* across lost connections, crashes, resumed parts and changed sources.
\* Excepted are the files resumed by the reader alone (fs.rs, confirm).
DoneMeansCopied ==
    \A j \in Jobs : told[j] = "done" /\ j \notin failed =>
        \A f \in Files : decided[j][f] = "copy" =>
            Whole(j, f) \/ <<j, f>> \in misplaced

\* The same without the exception, as the comment in confirm() has it: a
\* confirmation that is ignored because of its file number is harmless.
DoneIsWhole ==
    \A j \in Jobs : told[j] = "done" /\ j \notin failed =>
        \A f \in Files : decided[j][f] = "copy" => Whole(j, f)

\* A file the user chose to keep is not replaced, whatever parts of earlier
\* attempts lie beside it and wherever the writer's file number stands.
SkippedUntouched ==
    [][\A j \in Jobs, f \in Files :
          decided[j][f] = "skip" /\ decided'[j][f] = "skip"
              => dir'[j][f].final = dir[j][f].final]_vars

\* A download that runs ends, unless it waits for the user's answer, the
\* connection is lost, or the peer's connection met an unreadable file: the
\* loop there goes on with a job the client has dropped and then waits for
\* an answer, with all later jobs behind it.
DownloadEnds ==
    \A j \in Jobs \ Uploads :
        told[j] = "running" ~>
            \/ told[j] # "running" \/ ~connected
            \/ \E p \in prompts : TRUE
            \/ ~cmReads /\ faults > 0

\* What the user sees of the jobs.
Copy == INSTANCE FileCopy WITH
    phase <- [j \in Jobs |->
                 IF told[j] \in {"running", "done"} /\ j \notin failed THEN told[j]
                 ELSE "stopped"],
    agreed <- [j \in Jobs |->
                 IF told[j] = "running" /\ j \notin failed THEN {f \in Files : decided[j][f] = "copy"}
                 ELSE {}],
    dest <- [j \in Jobs |-> [f \in Files |->
                 IF Whole(j, f) \/ <<j, f>> \in misplaced THEN "copy" ELSE "other"]]

\* The transfer keeps the promise of FileCopy, up to the misplaced files.
KeepsPromise == Copy!CopySpec
============================================================================
