---------------------------- MODULE TransferJob ----------------------------
(***************************************************************************)
(* TransferJob of libs/hbb_common/src/fs.rs: what one job does to its own  *)
(* record and to the directory it writes.  The same type serves both ends: *)
(* the reader walks through the source files and waits, file by file, for  *)
(* the writer's confirmation; the writer collects blocks in                *)
(* "<name>.download", notes the source's size and time in "<name>.digest"  *)
(* and renames the first over "<name>" when the next file begins or the    *)
(* job is done.                                                            *)
(*                                                                         *)
(* Data: a file's content is a sequence of blocks <<file, version, index>>;*)
(* a digest (size and modification time) is the version it was taken from. *)
(* Generic jobs between peers that detect overwriting, the default since   *)
(* version 1.1.10.                                                         *)
(***************************************************************************)
EXTENDS Integers, Sequences

CONSTANTS
    NFiles,    \* files of a job
    Size       \* [0 .. NFiles - 1 -> Nat], the blocks of each source file

ASSUME TransferJobAssumption ==
    NFiles \in Nat \ {0} /\ Size \in [0 .. NFiles - 1 -> Nat]

Files == 0 .. NFiles - 1
NoDigest == 0
NoFile == <<<<0, 0, 0>>>>
Source(f, v) == [i \in 1 .. Size[f] |-> <<f, v, i>>]

\* The record of a job; pos is the position of its open stream, -1 for none.
\* The file list is empty or complete.
NewJob(k, listed) ==
    [file |-> k, listed |-> listed, pos |-> -1, confirmed |-> FALSE,
     waiting |-> FALSE, skipped |-> FALSE, last |-> FALSE, resume |-> FALSE,
     strategy |-> "ask", digest |-> NoDigest]

InList(job, f) == job.listed /\ f < NFiles
---------------------------------------------------------------------------
(* The writer                                                              *)

\* modify_time: the part of the current file becomes the file.
ModifyTime(job, dir) ==
    IF InList(job, job.file)
    THEN [dir EXCEPT ![job.file] =
             [final |-> IF @.part = NoFile THEN @.final ELSE @.part,
              part |-> NoFile, digest |-> NoDigest]]
    ELSE dir

\* Mutant of RemoveDownloadFile: what was received of the file is kept.
KeepDownloadFile(job, dir) == ModifyTime(job, dir)

RemoveDownloadFile(job, dir) ==
    IF InList(job, job.file)
    THEN [dir EXCEPT ![job.file] =
             [@ EXCEPT !.part = NoFile, !.digest = NoDigest]]
    ELSE dir

Overwrite(content, pos, data) ==
    SubSeq(content, 1, pos) \o data
        \o SubSeq(content, pos + Len(data) + 1, Len(content))

\* write: a block of another file, or the first one, finishes the current
\* file and starts a new part; then the data goes where the stream stands.
Write(job, dir, f, data) ==
    LET opens == f # job.file \/ job.pos = -1
        finished == IF opens THEN ModifyTime(job, dir) ELSE dir
        started == IF opens
                   THEN [finished EXCEPT ![f] =
                            [@ EXCEPT !.part = <<>>, !.digest = job.digest]]
                   ELSE finished
        pos == IF opens THEN 0 ELSE job.pos
    IN  IF ~InList(job, f) THEN [job |-> job, dir |-> dir]
        ELSE [job |-> [job EXCEPT !.file = f, !.pos = pos + Len(data)],
              dir |-> [started EXCEPT ![f].part = Overwrite(@, pos, data)]]

\* Mutant of WriteNeedConfirmation: the digests are not compared.
AnyDigestResumes(resume, entry, digest) ==
    IF resume /\ entry.digest # NoDigest /\ entry.part # NoFile
              /\ Len(entry.part) > 0
    THEN [result |-> "resume", offset |-> Len(entry.part)]
    ELSE [result |-> IF entry.final # NoFile THEN "ask" ELSE "new", offset |-> 0]

\* is_write_need_confirmation: what stands at the destination, against the
\* digest of the source.
WriteNeedConfirmation(resume, entry, digest) ==
    IF resume /\ entry.digest # NoDigest /\ entry.part # NoFile
              /\ entry.digest = digest /\ Len(entry.part) > 0
    THEN [result |-> "resume", offset |-> Len(entry.part)]
    ELSE [result |-> IF entry.final # NoFile THEN "ask" ELSE "new", offset |-> 0]
---------------------------------------------------------------------------
(* Both ends: a confirmation                                               *)

SetFileSkipped(job) ==
    [job EXCEPT !.pos = -1, !.confirmed = FALSE, !.waiting = FALSE,
                !.file = @ + 1, !.skipped = TRUE]

\* set_stream_offset: the writer's part, or else the reader's file.
SetStreamOffset(job, entry, offset) ==
    IF (entry.part # NoFile /\ entry.digest # NoDigest) \/ entry.final # NoFile
    THEN [job EXCEPT !.pos = offset]
    ELSE job

\* confirm: for another file than the current one it is ignored.
Confirm(job, dir, c) ==
    IF job.file # c.file THEN job
    ELSE IF c.skip THEN SetFileSkipped(job)
    ELSE LET agreed == [job EXCEPT !.confirmed = TRUE, !.skipped = FALSE]
         IN  IF c.offset > 0 THEN SetStreamOffset(agreed, dir[c.file], c.offset)
             ELSE agreed
---------------------------------------------------------------------------
(* The reader                                                              *)

Opens(job) == job.pos = -1 /\ job.file < NFiles

\* Mutant of InitDataStream: the end of the list is passed once more.
InitPassesEnd(job, fails) ==
    IF job.file >= NFiles
    THEN [job |-> [job EXCEPT !.pos = -1, !.file = @ + 1], out |-> "none"]
    ELSE [job |-> [job EXCEPT !.pos = IF Opens(job) THEN 0 ELSE @, !.waiting = TRUE],
          out |-> IF job.waiting THEN "none" ELSE "digest"]

\* open_data_stream and init_data_stream: open the current file and, once
\* for each file, have its digest sent; an open error gives the file up.
InitDataStream(job, fails) ==
    IF job.file >= NFiles THEN [job |-> [job EXCEPT !.pos = -1], out |-> "none"]
    ELSE IF Opens(job) /\ fails
    THEN [job |-> [job EXCEPT !.file = @ + 1, !.confirmed = FALSE,
                              !.waiting = FALSE],
          out |-> "error"]
    ELSE LET opened == IF Opens(job)
                       THEN [job EXCEPT !.pos = 0, !.confirmed = FALSE,
                                        !.waiting = FALSE]
                       ELSE job
         IN  IF ~opened.confirmed /\ ~opened.waiting
             THEN [job |-> [opened EXCEPT !.waiting = TRUE], out |-> "digest"]
             ELSE [job |-> opened, out |-> "none"]

\* Mutant of NextFile: the file still waits for its answer.
NextKeepsWaiting(job) ==
    [job EXCEPT !.file = @ + 1, !.pos = -1, !.confirmed = FALSE]

NextFile(job) ==
    [job EXCEPT !.file = @ + 1, !.pos = -1, !.confirmed = FALSE,
                !.waiting = FALSE]

\* read: nothing before the confirmation, then the blocks, then an empty
\* block that ends the file; a read error gives the file up.
Read(job, version, fails) ==
    IF ~job.confirmed \/ job.file >= NFiles
    THEN [job |-> job, out |-> "none", data |-> <<>>]
    ELSE IF fails
    THEN [job |-> NextFile(job), out |-> "error", data |-> <<>>]
    ELSE IF job.pos >= Size[job.file]
    THEN [job |-> NextFile(job), out |-> "block", data |-> <<>>]
    ELSE [job |-> [job EXCEPT !.pos = @ + 1], out |-> "block",
          data |-> <<<<job.file, version, job.pos + 1>>>>]

JobCompleted(job) == ~job.confirmed /\ ~job.waiting
JobSkipped(job) == job.skipped /\ NFiles = 1
============================================================================
