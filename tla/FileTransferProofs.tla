------------------------- MODULE FileTransferProofs -------------------------
(***************************************************************************)
(* Proofs about FileTransfer, for every number of jobs, files, blocks,     *)
(* source versions, connection losses and faults: the types, what "done"   *)
(* means, that a file the user chose to keep is left alone, and that the   *)
(* transfer implements FileCopy.                                           *)
(*                                                                         *)
(* The jobs share two message queues and a list of reading jobs, yet do    *)
(* not disturb each other.  The invariant is therefore stated job by job,  *)
(* over the messages of that job alone: CM(j) and SM(j), subsequences of   *)
(* the queues.  The first lemmas say what taking and adding a message does *)
(* to such a subsequence, and how the messages of the client, its answers  *)
(* and the reader's ticks move one download from one stage to the next.    *)
(*                                                                         *)
(* Then one lemma per action shows that a step keeps the invariant, leaves *)
(* skipped files alone and is a step of FileCopy or none (Keeps).  A step  *)
(* is that of one job (OneJob), one that no download notices (AllQuiet) or *)
(* one by which several downloads stop at once (AllStop).  The theorems    *)
(* stand at the end.                                                       *)
(***************************************************************************)
EXTENDS FileTransfer, SequenceTheorems, FiniteSetTheorems, WellFoundedInduction, TLAPS

Downloads == Jobs \ Uploads

\* The messages of a job in either direction.
Blocks == Seq(Files \X (0 .. MaxVersion) \X Nat)
DigestMsg(j) == [t : {"digest"}, j : {j}, file : Files, version : 0 .. MaxVersion]
BlockMsg(j) == [t : {"block"}, j : {j}, file : Files, data : Blocks]
CMsg(j) == [t : {"dir", "done", "error"}, j : {j}] \cup DigestMsg(j) \cup BlockMsg(j)
SMsg(j) == IF j \in Uploads
           THEN [t : {"cancel", "done", "error"}, j : {j}] \cup DigestMsg(j)
                    \cup BlockMsg(j) \cup [t : {"receive"}, j : {j}, file : 0 .. NFiles]
           ELSE [t : {"cancel"}, j : {j}] \cup [t : {"send"}, j : {j}, file : 0 .. NFiles]
                    \cup [t : {"confirm"}, j : {j}, file : Files, skip : BOOLEAN,
                          offset : Nat]
CMsgs == UNION {CMsg(j) : j \in Jobs}
SMsgs == UNION {SMsg(j) : j \in Jobs}
CM(j) == Only(toClient, CMsg(j))
SM(j) == Only(toServer, SMsg(j))
Asked(j) == {f \in Files : <<j, f>> \in prompts}
Bad(j) == {f \in Files : <<j, f>> \in misplaced}
Reads(j) == j \in Elems(reading["server"])
---------------------------------------------------------------------------
(* The invariant of one download.  w and r are the writing and the reading *)
(* job, reads: r is in read_jobs, cm and sm: the messages under way, ver:  *)
(* the source's versions, asked: the open questions, dec: the answers,     *)
(* bad: the misplaced files.                                               *)

\* The k-th block of file f, of which the one behind the last is empty.
Blk(j, f, k, ver) ==
    [t |-> "block", j |-> j, file |-> f,
     data |-> IF k > Size[f] THEN <<>> ELSE <<<<f, ver[f], k>>>>]
Dig(j, f, ver) == [t |-> "digest", j |-> j, file |-> f, version |-> ver[f]]

\* How much of file f the writer has got in its open stream.
At(w, f) == IF w.file = f /\ w.pos >= 0 THEN w.pos ELSE 0

\* The writer's current file was to be copied and is complete.
Complete(w, dec, bad) ==
    /\ w.pos >= 0 /\ dec[w.file] = "copy"
    /\ w.file \notin bad => w.pos = Size[w.file]

\* When file g begins, nothing before it is missing.
Ready(w, g, dec, bad) ==
    w.file < g => /\ Complete(w, dec, bad)
                  /\ \A h \in Files : w.file < h /\ h < g => dec[h] = "skip"

\* What comes next of file f is its block lo + 1, and the writer expects it.
Fed(w, f, lo, ver, dec, bad) ==
    /\ dec[f] = "copy" /\ w.digest = ver[f]
    /\ w.file <= f /\ Ready(w, f, dec, bad)
    /\ f \notin bad => lo = At(w, f)

\* The writer has all there is of the files before g, and g is not begun.
CaughtUp(w, g, dec, bad) ==
    w.file <= g /\ Ready(w, g, dec, bad) /\ (w.file = g => w.pos = -1)

\* The first messages to the client: perhaps the list of files (d is 1), or n
\* blocks of file f from the one behind lo on.
Front(j, w, cm, ver, dec, bad, d, n, f, lo) ==
    /\ d \in 0 .. 1 /\ n \in Nat /\ lo \in Nat /\ f \in Files
    /\ d + n <= Len(cm) /\ (d = 1 => n = 0)
    /\ d = 1 => cm[1] = Dir(j) /\ w.pos = -1
    /\ d = 0 /\ ~w.listed => cm # <<>> /\ cm[1] = Error(j)
    /\ \A i \in 1 .. n : cm[i] = Blk(j, f, lo + i, ver) /\ (i < n => lo + i <= Size[f])
    /\ n > 0 => Fed(w, f, lo, ver, dec, bad)

\* The reader has nothing more to send of the files before g.
Sent(w, g, dec, bad, n, f, lo) ==
    IF n = 0 THEN CaughtUp(w, g, dec, bad) ELSE g = f + 1 /\ lo + n > Size[f]

\* The reader has reported an error: whatever follows, the job will end.
Broken(cm, sm, asked, d, n) ==
    /\ d + n < Len(cm) /\ cm[d + n + 1].t = "error"
    /\ sm = <<>> /\ asked = {}

\* The job is done and this is under way.
Over(j, w, reads, cm, sm, asked, dec, bad, d, n, f, lo) ==
    /\ Len(cm) = d + n + 1 /\ cm[d + n + 1] = Done(j)
    /\ sm = <<>> /\ asked = {} /\ ~reads
    /\ Sent(w, NFiles, dec, bad, n, f, lo)

\* The reader has not opened its next file.
Closed(w, reads, r, cm, sm, asked, dec, bad, d, n, f, lo) ==
    /\ Len(cm) = d + n /\ sm = <<>> /\ asked = {} /\ reads
    /\ ~r.confirmed /\ ~r.waiting /\ r.pos = -1
    /\ Sent(w, r.file, dec, bad, n, f, lo)

\* The reader waits for the answer to the digest of its file: the digest is
\* under way, or the user is asked, or the answer is under way.
Waits(j, w, reads, r, cm, sm, ver, asked, dec, bad, d, n, f, lo) ==
    /\ reads /\ ~r.confirmed /\ r.waiting /\ r.pos = 0 /\ r.file < NFiles
    /\ \/ /\ Len(cm) = d + n + 1 /\ cm[d + n + 1] = Dig(j, r.file, ver)
          /\ sm = <<>> /\ asked = {}
          /\ Sent(w, r.file, dec, bad, n, f, lo)
       \/ /\ cm = <<>> /\ sm = <<>> /\ asked = {r.file} /\ w.digest = ver[r.file]
          /\ CaughtUp(w, r.file, dec, bad)
       \/ /\ cm = <<>> /\ asked = {}
          /\ Len(sm) = 1 /\ sm[1].t = "confirm" /\ sm[1].file = r.file
          /\ IF sm[1].skip
             THEN dec[r.file] = "skip" /\ CaughtUp(w, r.file + 1, dec, bad)
             ELSE Fed(w, r.file, sm[1].offset, ver, dec, bad)

\* The reader sends the blocks of its file.
Streams(w, reads, r, cm, sm, ver, asked, dec, bad, d, n, f, lo) ==
    /\ reads /\ r.confirmed /\ r.waiting /\ r.file = f /\ r.pos = lo + n
    /\ d = 0 /\ Len(cm) = n /\ sm = <<>> /\ asked = {}
    /\ \A i \in 1 .. n : lo + i <= Size[f]
    /\ Fed(w, f, lo, ver, dec, bad)

Flow(j, w, reads, r, cm, sm, ver, asked, dec, bad, d, n, f, lo) ==
    /\ Front(j, w, cm, ver, dec, bad, d, n, f, lo)
    /\ \/ Broken(cm, sm, asked, d, n)
       \/ Over(j, w, reads, cm, sm, asked, dec, bad, d, n, f, lo)
       \/ Closed(w, reads, r, cm, sm, asked, dec, bad, d, n, f, lo)
       \/ Waits(j, w, reads, r, cm, sm, ver, asked, dec, bad, d, n, f, lo)
       \/ Streams(w, reads, r, cm, sm, ver, asked, dec, bad, d, n, f, lo)

\* The request is under way.
Requested(w, reads, cm, sm, asked) ==
    /\ Len(sm) = 1 /\ sm[1].t = "send" /\ sm[1].file = w.file
    /\ cm = <<>> /\ asked = {} /\ ~reads
    /\ ~w.listed /\ w.pos = -1

\* The job is in the client's list and is not running.
Listed(w, reads, cm, sm, asked) ==
    w.last /\ cm = <<>> /\ sm = <<>> /\ asked = {} /\ ~reads /\ ~w.listed /\ w.pos = -1

Protocol(j, in, w, reads, r, cm, sm, ver, asked, dec, bad) ==
    in => \/ Listed(w, reads, cm, sm, asked)
          \/ ~w.last /\ Requested(w, reads, cm, sm, asked)
          \/ /\ ~w.last
             /\ \E d \in 0 .. 1, n \in Nat, f \in Files, lo \in Nat :
                   Flow(j, w, reads, r, cm, sm, ver, asked, dec, bad, d, n, f, lo)

\* Whatever the client has done since, the reader waits for an answer under
\* way, and a request under way is the only one.
Answers1(reads, r, sm) ==
    /\ \A i \in DOMAIN sm : sm[i].t \in {"send", "confirm"} => i = 1
    /\ sm # <<>> /\ sm[1].t = "send" => ~reads
    /\ sm # <<>> /\ sm[1].t = "confirm" /\ reads =>
          r.waiting /\ ~r.confirmed /\ r.pos = 0 /\ r.file = sm[1].file

\* A part is a beginning of a version of the file, unless it is misplaced.
Parts(dir_, ver, bad) ==
    \A f \in Files :
        LET e == dir_[f] IN
        /\ e.part # NoFile /\ f \notin bad =>
              /\ Len(e.part) <= Size[f]
              /\ \A i \in 1 .. Len(e.part) : e.part[i] = <<f, e.digest, i>>
        /\ \A i \in DOMAIN e.part : e.part[i][2] <= ver[f]
        /\ \A i \in DOMAIN e.final : e.final[i][2] <= ver[f]

\* The open part is of the source's version and ends where the stream stands.
Open(in, w, dir_, ver) ==
    in /\ w.pos >= 0 =>
        /\ w.file < NFiles /\ w.listed
        /\ dir_[w.file].part # NoFile /\ dir_[w.file].digest = ver[w.file]
        /\ Len(dir_[w.file].part) = w.pos

IsWhole(f, entry, ver) == entry.final \in {Source(f, v) : v \in 1 .. ver[f]}

\* The files before the g-th that were to be copied are.
Copied(g, dir_, ver, dec, bad) ==
    \A f \in Files : f < g /\ dec[f] = "copy" => IsWhole(f, dir_[f], ver) \/ f \in bad

\* What is saved of the job is true of the directory.
Saved(in, w, dir_, ver, saved_, kept_, bad) ==
    /\ Copied(saved_, dir_, ver, kept_, bad)
    /\ in => \A f \in Files : f < saved_ /\ kept_[f] = "copy" => f < w.file

\* What the user is shown.
Shown(in, w, dir_, ver, dec, bad, told_, failed_) ==
    /\ in <=> told_ \in {"running", "listed"}
    /\ told_ = "error" => failed_
    /\ in => /\ w.last <=> told_ = "listed"
             /\ told_ = "running" => ~failed_
             /\ w.skipped /\ NFiles = 1 => w.file = 1
    /\ told_ = "done" /\ ~failed_ => Copied(NFiles, dir_, ver, dec, bad)

Content(in, w, dir_, ver, dec, bad, saved_, kept_, told_, failed_) ==
    /\ Parts(dir_, ver, bad)
    /\ Open(in, w, dir_, ver)
    /\ in => Copied(w.file, dir_, ver, dec, bad)
    /\ Saved(in, w, dir_, ver, saved_, kept_, bad)
    /\ Shown(in, w, dir_, ver, dec, bad, told_, failed_)

Download(j) ==
    /\ Protocol(j, j \in writing, writer[j], Reads(j), reader[j], CM(j), SM(j),
                version[j], Asked(j), decided[j], Bad(j))
    /\ Answers1(Reads(j), reader[j], SM(j))
    /\ Content(j \in writing, writer[j], dir[j], version[j], decided[j], Bad(j),
               saved[j], kept[j], told[j], j \in failed)

\* Uploads stop short of their first block: nothing is written for them.
Upload(j) ==
    /\ ~writer[j].listed
    /\ decided[j] = Unanswered /\ kept[j] = Unanswered
    /\ told[j] = "error" => j \in failed
    /\ told[j] = "listed" => CM(j) = <<>> /\ SM(j) = <<>> /\ reader[j].last
    /\ Parts(dir[j], version[j], Bad(j))

\* The types, with those of the messages.
Types ==
    /\ TypeOK
    /\ toClient \in Seq(CMsgs) /\ toServer \in Seq(SMsgs)
    /\ reading \in [Sides -> Seq(Jobs)]
    /\ Elems(reading["client"]) \subseteq Uploads
    /\ Elems(reading["server"]) \subseteq Downloads
    /\ IsInjective(reading["server"])
    /\ prompts \subseteq writing \X Files
    /\ ~connected => /\ writing = {} /\ cmWriting = {} /\ prompts = {}
                     /\ toClient = <<>> /\ toServer = <<>>
                     /\ \A s \in Sides : reading[s] = <<>>
                     /\ writer = [j \in Jobs |-> NewJob(0, FALSE)]
                     /\ reader = writer

IInv ==
    /\ Types
    /\ \A j \in Downloads : Download(j)
    /\ \A j \in Uploads : Upload(j)
---------------------------------------------------------------------------
(* Subsequences                                                            *)

\* Induction, over a set of numbers.
LEMMA NatByStep ==
  ASSUME NEW Q, 0 \in Q, \A n \in Nat : n \in Q => n + 1 \in Q
  PROVE  \A n \in Nat : n \in Q
<1> DEFINE B == Nat \ Q
<1> SUFFICES ASSUME B # {} PROVE FALSE
  OBVIOUS
<1>1. PICK i \in B : \A k \in B : ~(<<k, i>> \in OpToRel(<, Nat))
  BY WFMin, NatLessThanWellFounded, Zenon
<1>2. i \in Nat /\ i # 0
  OBVIOUS
<1>3. i - 1 \in Nat /\ i - 1 + 1 = i /\ i - 1 < i
  BY <1>2
<1>4. i - 1 \in B
  BY <1>3
<1>5. <<i - 1, i>> \in OpToRel(<, Nat)
  BY <1>2, <1>3 DEF OpToRel
<1> QED
  BY <1>1, <1>4, <1>5, ZenonT(30)

\* g[i] is the subsequence of the first i elements of q.
Selects(g, q, T, n) ==
    /\ g[0] = <<>>
    /\ \A i \in 1 .. n : g[i] = IF q[i] \in T THEN Append(g[i - 1], q[i]) ELSE g[i - 1]

\* The recursive function in Only exists.
LEMMA SelectsExists ==
  ASSUME NEW S, NEW q \in Seq(S), NEW T
  PROVE  \E g \in [0 .. Len(q) -> Seq(S)] : Selects(g, q, T, Len(q))
<1> DEFINE Q == {n \in Nat : n <= Len(q) => \E g \in [0 .. n -> Seq(S)] : Selects(g, q, T, n)}
<1>1. 0 \in Q
  <2> DEFINE g == [i \in 0 .. 0 |-> <<>>]
  <2>1. <<>> \in Seq(S)
    OBVIOUS
  <2>2. g \in [0 .. 0 -> Seq(S)] /\ g[0] = <<>>
    BY <2>1
  <2> HIDE DEF g
  <2>3. Selects(g, q, T, 0)
    BY <2>2 DEF Selects
  <2> QED
    BY <2>2, <2>3
<1>2. \A n \in Nat : n \in Q => n + 1 \in Q
  <2> SUFFICES ASSUME NEW n \in Nat, n \in Q, n + 1 <= Len(q)
               PROVE  \E g \in [0 .. n + 1 -> Seq(S)] : Selects(g, q, T, n + 1)
    OBVIOUS
  <2>1. PICK g \in [0 .. n -> Seq(S)] : Selects(g, q, T, n)
    OBVIOUS
  <2> DEFINE next == IF q[n + 1] \in T THEN Append(g[n], q[n + 1]) ELSE g[n]
             h == [i \in 0 .. n + 1 |-> IF i = n + 1 THEN next ELSE g[i]]
  <2>2. g[n] \in Seq(S) /\ q[n + 1] \in S
    OBVIOUS
  <2>3. next \in Seq(S)
    BY <2>2
  <2> HIDE DEF next
  <2>4. \A i \in 0 .. n + 1 : h[i] \in Seq(S)
    <3> TAKE i \in 0 .. n + 1
    <3>1. CASE i = n + 1
      BY <3>1, <2>3
    <3>2. CASE i # n + 1
      <4>1. i \in 0 .. n
        BY <3>2
      <4> QED
        BY <4>1, <3>2
    <3> QED
      BY <3>1, <3>2
  <2>5. h[0] = <<>>
    BY <2>1 DEF Selects
  <2>6. \A i \in 1 .. n + 1 :
           h[i] = IF q[i] \in T THEN Append(h[i - 1], q[i]) ELSE h[i - 1]
    <3> TAKE i \in 1 .. n + 1
    <3>1. CASE i = n + 1
      <4>1. h[i] = next /\ h[i - 1] = g[n]
        BY <3>1
      <4> QED
        BY <3>1, <4>1 DEF next
    <3>2. CASE i # n + 1
      <4>1. i \in 1 .. n /\ h[i] = g[i] /\ h[i - 1] = g[i - 1]
        BY <3>2
      <4> QED
        BY <4>1, <2>1, ZenonT(30) DEF Selects
    <3> QED
      BY <3>1, <3>2
  <2>7. h \in [0 .. n + 1 -> Seq(S)]
    BY <2>4
  <2> HIDE DEF h
  <2> QED
    BY <2>5, <2>6, <2>7, ZenonT(30) DEF Selects
<1> HIDE DEF Q
<1>3. Len(q) \in Q
  BY <1>1, <1>2, NatByStep
<1> QED
  BY <1>3 DEF Q

LEMMA OnlyDef ==
  ASSUME NEW S, NEW q \in Seq(S), NEW T
  PROVE  \E g \in [0 .. Len(q) -> Seq(S)] :
            Selects(g, q, T, Len(q)) /\ Only(q, T) = g[Len(q)]
<1> DEFINE F(c) == [n \in 0 .. Len(q) |->
              IF n = 0 THEN <<>>
              ELSE IF q[n] \in T THEN Append(c[n - 1], q[n]) ELSE c[n - 1]]
           chosen == CHOOSE c : c = F(c)
<1>1. Only(q, T) = chosen[Len(q)]
  BY DEF Only
<1>2. PICK g \in [0 .. Len(q) -> Seq(S)] : Selects(g, q, T, Len(q))
  BY SelectsExists, ZenonT(30)
<1>3. g = F(g)
  <2>1. \A n \in 0 .. Len(q) : g[n] = F(g)[n]
    <3> TAKE n \in 0 .. Len(q)
    <3>1. CASE n = 0
      BY <3>1, <1>2 DEF Selects
    <3>2. CASE n # 0
      <4>1. n \in 1 .. Len(q)
        BY <3>2
      <4> QED
        BY <4>1, <1>2, ZenonT(30) DEF Selects
    <3> QED
      BY <3>1, <3>2
  <2> QED
    BY <2>1
<1>4. chosen = F(chosen)
  BY <1>3, ZenonT(30)
<1> HIDE DEF chosen
<1>9. \A n \in 0 .. Len(q) : chosen[n] =
         IF n = 0 THEN <<>>
         ELSE IF q[n] \in T THEN Append(chosen[n - 1], q[n]) ELSE chosen[n - 1]
  <2> DEFINE c == F(chosen)
  <2>1. \A n \in 0 .. Len(q) : c[n] =
           IF n = 0 THEN <<>>
           ELSE IF q[n] \in T THEN Append(chosen[n - 1], q[n]) ELSE chosen[n - 1]
    OBVIOUS
  <2>2. chosen = c
    BY <1>4, ZenonT(30)
  <2> HIDE DEF c
  <2> QED
    BY <2>1, <2>2
<1>5. Selects(chosen, q, T, Len(q))
  <2>1. chosen[0] = <<>>
    BY <1>9
  <2>2. \A i \in 1 .. Len(q) :
           chosen[i] = IF q[i] \in T THEN Append(chosen[i - 1], q[i]) ELSE chosen[i - 1]
    BY <1>9
  <2> QED
    BY <2>1, <2>2 DEF Selects
<1> DEFINE Q == {n \in Nat : n <= Len(q) => chosen[n] = g[n]}
<1>6. 0 \in Q
  BY <1>2, <1>5 DEF Selects
<1>7. \A n \in Nat : n \in Q => n + 1 \in Q
  <2> SUFFICES ASSUME NEW n \in Nat, n \in Q, n + 1 <= Len(q)
               PROVE  chosen[n + 1] = g[n + 1]
    OBVIOUS
  <2>1. n + 1 \in 1 .. Len(q) /\ n + 1 - 1 = n /\ chosen[n] = g[n]
    OBVIOUS
  <2> QED
    BY <2>1, <1>2, <1>5 DEF Selects
<1> HIDE DEF Q
<1>8. Len(q) \in Q
  BY <1>6, <1>7, NatByStep
<1> QED
  BY <1>1, <1>2, <1>8 DEF Q

LEMMA OnlyIs ==
  ASSUME NEW S, NEW q \in Seq(S), NEW T, NEW h, Selects(h, q, T, Len(q))
  PROVE  Only(q, T) = h[Len(q)]
<1>1. PICK g \in [0 .. Len(q) -> Seq(S)] :
         Selects(g, q, T, Len(q)) /\ Only(q, T) = g[Len(q)]
  BY OnlyDef, ZenonT(30)
<1> DEFINE Q == {n \in Nat : n <= Len(q) => h[n] = g[n]}
<1>2. 0 \in Q
  BY <1>1 DEF Selects
<1>3. \A n \in Nat : n \in Q => n + 1 \in Q
  <2> SUFFICES ASSUME NEW n \in Nat, n \in Q, n + 1 <= Len(q)
               PROVE  h[n + 1] = g[n + 1]
    OBVIOUS
  <2>1. n + 1 \in 1 .. Len(q) /\ n + 1 - 1 = n /\ h[n] = g[n]
    OBVIOUS
  <2> QED
    BY <2>1, <1>1 DEF Selects
<1> HIDE DEF Q
<1>4. Len(q) \in Q
  BY <1>2, <1>3, NatByStep
<1> QED
  BY <1>1, <1>4 DEF Q

\* What becomes of the subsequence when an element is appended.
LEMMA OnlyAppend ==
  ASSUME NEW S, NEW q \in Seq(S), NEW T, NEW x \in S
  PROVE  Only(Append(q, x), T) = IF x \in T THEN Append(Only(q, T), x) ELSE Only(q, T)
<1>1. PICK g \in [0 .. Len(q) -> Seq(S)] :
         Selects(g, q, T, Len(q)) /\ Only(q, T) = g[Len(q)]
  BY OnlyDef, ZenonT(30)
<1> DEFINE p == Append(q, x)
           n == Len(q)
           next == IF x \in T THEN Append(g[n], x) ELSE g[n]
           h == [i \in 0 .. n + 1 |-> IF i = n + 1 THEN next ELSE g[i]]
<1>2. /\ p \in Seq(S) /\ Len(p) = n + 1 /\ n \in Nat /\ p[n + 1] = x
      /\ \A i \in 1 .. n : p[i] = q[i]
  OBVIOUS
<1> HIDE DEF p, next
<1>3. h[0] = <<>>
  BY <1>1, <1>2 DEF Selects
<1>4. \A i \in 1 .. n + 1 : h[i] = IF p[i] \in T THEN Append(h[i - 1], p[i]) ELSE h[i - 1]
  <2> TAKE i \in 1 .. n + 1
  <2>1. CASE i = n + 1
    <3>1. h[i] = next /\ h[i - 1] = g[n] /\ p[i] = x
      BY <2>1, <1>2
    <3> QED
      BY <3>1 DEF next
  <2>2. CASE i # n + 1
    <3>1. i \in 1 .. n /\ h[i] = g[i] /\ h[i - 1] = g[i - 1] /\ p[i] = q[i]
      BY <2>2, <1>2
    <3> QED
      BY <3>1, <1>1, ZenonT(30) DEF Selects
  <2> QED
    BY <2>1, <2>2
<1>5. h[n + 1] = next
  BY <1>2
<1> HIDE DEF h
<1>6. Selects(h, p, T, Len(p))
  BY <1>2, <1>3, <1>4 DEF Selects
<1>7. Only(p, T) = h[Len(p)]
  BY <1>2, <1>6, OnlyIs
<1> QED
  BY <1>1, <1>2, <1>5, <1>7 DEF next, p

LEMMA OnlyEmpty ==
  ASSUME NEW T
  PROVE  Only(<<>>, T) = <<>>
<1> DEFINE q == <<>>
<1>1. q \in Seq({}) /\ Len(q) = 0
  OBVIOUS
<1> HIDE DEF q
<1>2. PICK g \in [0 .. Len(q) -> Seq({})] :
         Selects(g, q, T, Len(q)) /\ Only(q, T) = g[Len(q)]
  BY <1>1, OnlyDef, ZenonT(30)
<1> QED
  BY <1>1, <1>2 DEF Selects, q

LEMMA TailOfAppend ==
  ASSUME NEW S, NEW c \in Seq(S), c # <<>>, NEW x \in S
  PROVE  Head(Append(c, x)) = Head(c) /\ Tail(Append(c, x)) = Append(Tail(c), x)
<1> DEFINE u == Tail(Append(c, x))
           v == Append(Tail(c), x)
           t == Tail(c)
<1>1. t \in Seq(S) /\ Len(t) = Len(c) - 1 /\ Len(c) \in Nat \ {0}
      /\ \A i \in 1 .. Len(c) - 1 : t[i] = c[i + 1]
  OBVIOUS
<1>2. u \in Seq(S) /\ Len(u) = Len(c) /\ \A i \in 1 .. Len(c) : u[i] = Append(c, x)[i + 1]
  OBVIOUS
<1>3. v \in Seq(S) /\ Len(v) = Len(c) /\ v[Len(c)] = x
      /\ \A i \in 1 .. Len(c) - 1 : v[i] = t[i]
  BY <1>1
<1>4. Append(c, x)[Len(c) + 1] = x /\ \A i \in 1 .. Len(c) : Append(c, x)[i] = c[i]
  BY <1>1
<1>5. \A i \in 1 .. Len(c) : u[i] = v[i]
  <2> TAKE i \in 1 .. Len(c)
  <2>1. CASE i = Len(c)
    BY <2>1, <1>1, <1>2, <1>3, <1>4
  <2>2. CASE i # Len(c)
    <3> HIDE DEF u, v, t
    <3>0. Len(c) \in Nat
      OBVIOUS
    <3>1. i \in 1 .. Len(c) - 1 /\ i + 1 \in 1 .. Len(c)
      BY <2>2, <3>0
    <3> QED
      BY <3>1, <1>1, <1>2, <1>3, <1>4
  <2> QED
    BY <2>1, <2>2
<1> HIDE DEF u, v
<1>6. u = v
  BY <1>2, <1>3, <1>5, SeqEqual
<1>7. Head(Append(c, x)) = Head(c)
  BY <1>1, <1>4
<1> QED
  BY <1>6, <1>7 DEF u, v

\* What becomes of it when the first element is taken away.
LEMMA OnlyTail ==
  ASSUME NEW S, NEW q \in Seq(S), NEW T, q # <<>>
  PROVE  /\ Only(q, T) \in Seq(S) /\ Only(Tail(q), T) \in Seq(S)
         /\ Head(q) \in T => /\ Only(q, T) # <<>>
                             /\ Head(Only(q, T)) = Head(q)
                             /\ Tail(Only(q, T)) = Only(Tail(q), T)
         /\ Head(q) \notin T => Only(q, T) = Only(Tail(q), T)
<1> DEFINE p == Tail(q)
<1>1. /\ p \in Seq(S) /\ Len(p) \in Nat /\ Len(q) = Len(p) + 1 /\ Head(q) = q[1] /\ q[1] \in S
      /\ \A i \in 1 .. Len(p) : p[i] = q[i + 1] /\ p[i] \in S
  OBVIOUS
<1> HIDE DEF p
<1>2. PICK g \in [0 .. Len(q) -> Seq(S)] :
         Selects(g, q, T, Len(q)) /\ Only(q, T) = g[Len(q)]
  BY OnlyDef
<1>0. p \in Seq(S)
  BY <1>1
<1>3. PICK h \in [0 .. Len(p) -> Seq(S)] :
         Selects(h, p, T, Len(p)) /\ Only(p, T) = h[Len(p)]
  BY <1>0, OnlyDef, ZenonT(30)
<1> DEFINE Rel(a, b) == IF q[1] \in T THEN a # <<>> /\ Head(a) = q[1] /\ Tail(a) = b
                        ELSE a = b
           Q == {n \in Nat : n <= Len(p) => Rel(g[n + 1], h[n])}
<1>4. 0 \in Q
  <2>1. g[0] = <<>> /\ h[0] = <<>> /\ 1 \in 1 .. Len(q)
    BY <1>1, <1>2, <1>3 DEF Selects
  <2>2. g[1] = IF q[1] \in T THEN Append(g[1 - 1], q[1]) ELSE g[1 - 1]
    BY <2>1, <1>2, ZenonT(30) DEF Selects
  <2>3. Append(<<>>, q[1]) # <<>> /\ Head(Append(<<>>, q[1])) = q[1] /\ Tail(Append(<<>>, q[1])) = <<>>
    OBVIOUS
  <2> QED
    BY <2>1, <2>2, <2>3, SMTT(30)
<1>5. \A n \in Nat : n \in Q => n + 1 \in Q
  <2> SUFFICES ASSUME NEW n \in Nat, n \in Q, n + 1 <= Len(p)
               PROVE  Rel(g[n + 2], h[n + 1])
    OBVIOUS
  <2>1. Rel(g[n + 1], h[n])
    OBVIOUS
  <2> HIDE DEF Rel
  <2> DEFINE x == q[n + 2]
             a == g[n + 1]
             b == h[n]
  <2>2. n + 2 \in 1 .. Len(q) /\ n + 1 \in 1 .. Len(p) /\ n + 2 - 1 = n + 1 /\ n + 1 - 1 = n
    BY <1>1
  <2>3. x \in S /\ a \in Seq(S) /\ b \in Seq(S) /\ p[n + 1] = x
    <3>1. n + 1 \in 0 .. Len(q) /\ n \in 0 .. Len(p)
      BY <1>1, <2>2
    <3>2. a \in Seq(S) /\ b \in Seq(S)
      BY <3>1
    <3>3. p[n + 1] = x /\ x \in S
      BY <1>1, <2>2
    <3> QED
      BY <3>2, <3>3
  <2>4. g[n + 2] = IF x \in T THEN Append(a, x) ELSE a
    BY <2>2, <1>2 DEF Selects
  <2>5. h[n + 1] = IF x \in T THEN Append(b, x) ELSE b
    BY <2>2, <2>3, <1>3 DEF Selects
  <2> HIDE DEF x, a, b
  <2>6. a # <<>> /\ Tail(a) = b => /\ Append(a, x) # <<>> /\ Head(Append(a, x)) = Head(a)
                                   /\ Tail(Append(a, x)) = Append(b, x)
    <3>1. \A c \in Seq(S) : c # <<>> =>
             Head(Append(c, x)) = Head(c) /\ Tail(Append(c, x)) = Append(Tail(c), x)
      BY <2>3, TailOfAppend, ZenonT(30)
    <3>2. a \in Seq(S) => Append(a, x) # <<>>
      BY <2>3, AppendProperties, SMTT(30)
    <3> QED
      BY <2>3, <3>1, <3>2, ZenonT(30)
  <2> QED
    BY <2>1, <2>4, <2>5, <2>6, ZenonT(30) DEF Rel, a, b
<1> HIDE DEF Q
<1>6. Len(p) \in Q
  BY <1>1, <1>4, <1>5, NatByStep, ZenonT(30)
<1>7. Rel(Only(q, T), Only(p, T))
  BY <1>1, <1>2, <1>3, <1>6 DEF Q
<1>8. Only(q, T) \in Seq(S) /\ Only(p, T) \in Seq(S)
  BY <1>1, <1>2, <1>3, SMTT(30)
<1> QED
  BY <1>1, <1>7, <1>8 DEF p

\* What it holds.
LEMMA OnlyElems ==
  ASSUME NEW S, NEW q \in Seq(S), NEW T
  PROVE  /\ Only(q, T) \in Seq(S)
         /\ Elems(Only(q, T)) = Elems(q) \cap T
         /\ IsInjective(q) => IsInjective(Only(q, T))
<1>1. PICK g \in [0 .. Len(q) -> Seq(S)] :
         Selects(g, q, T, Len(q)) /\ Only(q, T) = g[Len(q)]
  BY OnlyDef
<1> DEFINE First(n) == {q[i] : i \in 1 .. n}
           R(n) == /\ Elems(g[n]) = First(n) \cap T
                   /\ IsInjective(q) => IsInjective(g[n])
           Q == {n \in Nat : n <= Len(q) => R(n)}
<1>2. 0 \in Q
  <2>1. g[0] = <<>> /\ First(0) = {}
    BY <1>1 DEF Selects
  <2> QED
    BY <2>1 DEF Elems, IsInjective
<1>3. \A n \in Nat : n \in Q => n + 1 \in Q
  <2> HIDE DEF R
  <2> SUFFICES ASSUME NEW n \in Nat, n \in Q, n + 1 <= Len(q)
               PROVE  R(n + 1)
    OBVIOUS
  <2>1. R(n)
    OBVIOUS
  <2> DEFINE x == q[n + 1]
             a == g[n]
  <2>2. n + 1 \in 1 .. Len(q) /\ n + 1 - 1 = n /\ n \in 0 .. Len(q)
    OBVIOUS
  <2>3. x \in S /\ a \in Seq(S)
    BY <2>2
  <2>4. g[n + 1] = IF x \in T THEN Append(a, x) ELSE a
    BY <2>2, <1>1 DEF Selects
  <2>5. First(n + 1) = First(n) \cup {x}
    <3>1. \A i \in 1 .. n + 1 : i = n + 1 \/ i \in 1 .. n
      OBVIOUS
    <3>2. \A i \in 1 .. n : i \in 1 .. n + 1
      OBVIOUS
    <3> QED
      BY <3>1, <3>2
  <2>6. IsInjective(q) => x \notin First(n)
    BY <2>2 DEF IsInjective
  <2> HIDE DEF x, a, First
  <2>7. Elems(Append(a, x)) = Elems(a) \cup {x}
    <3>1. /\ DOMAIN Append(a, x) = 1 .. Len(a) + 1 /\ DOMAIN a = 1 .. Len(a) /\ Len(a) \in Nat
          /\ Append(a, x)[Len(a) + 1] = x
          /\ \A i \in 1 .. Len(a) : Append(a, x)[i] = a[i]
      BY <2>3
    <3>2. \A i \in 1 .. Len(a) + 1 : i = Len(a) + 1 \/ i \in 1 .. Len(a)
      BY <3>1
    <3>3. Len(a) + 1 \in 1 .. Len(a) + 1 /\ \A i \in 1 .. Len(a) : i \in 1 .. Len(a) + 1
      BY <3>1
    <3> QED
      BY <3>1, <3>2, <3>3 DEF Elems
  <2>8. IsInjective(a) /\ x \notin Elems(a) => IsInjective(Append(a, x))
    BY <2>3 DEF IsInjective, Elems
  <2> QED
    BY <2>1, <2>4, <2>5, <2>6, <2>7, <2>8 DEF a, R
<1> HIDE DEF Q
<1>4. Len(q) \in Q
  BY <1>2, <1>3, NatByStep
<1>5. Len(q) \in Nat /\ DOMAIN q = 1 .. Len(q)
  OBVIOUS
<1>6. Elems(q) = First(Len(q))
  BY <1>5 DEF Elems
<1> HIDE DEF First
<1> QED
  BY <1>1, <1>4, <1>5, <1>6 DEF Q

LEMMA OnlyNone ==
  ASSUME NEW S, NEW q \in Seq(S), NEW T, Elems(q) \cap T = {}
  PROVE  Only(q, T) = <<>>
<1>1. Only(q, T) \in Seq(S) /\ Elems(Only(q, T)) = {}
  BY OnlyElems
<1> QED
  BY <1>1 DEF Elems

LEMMA OnlyOne ==
  ASSUME NEW S, NEW q \in Seq(S), NEW T, NEW i \in DOMAIN q, q[i] \in T,
         \A k \in DOMAIN q : k # i => q[k] \notin T
  PROVE  Only(q, T) = <<q[i]>>
<1>1. PICK g \in [0 .. Len(q) -> Seq(S)] :
         Selects(g, q, T, Len(q)) /\ Only(q, T) = g[Len(q)]
  BY OnlyDef, ZenonT(30)
<1> DEFINE one == <<q[i]>>
           Q == {n \in Nat : n <= Len(q) => g[n] = IF i <= n THEN one ELSE <<>>}
<1>2. i \in 1 .. Len(q) /\ i \in Nat /\ Len(q) \in Nat /\ DOMAIN q = 1 .. Len(q)
  OBVIOUS
<1>3. Append(<<>>, q[i]) = one
  OBVIOUS
<1> HIDE DEF one
<1>4. 0 \in Q
  BY <1>1, <1>2 DEF Selects
<1>5. \A n \in Nat : n \in Q => n + 1 \in Q
  <2> SUFFICES ASSUME NEW n \in Nat, n \in Q, n + 1 <= Len(q)
               PROVE  g[n + 1] = IF i <= n + 1 THEN one ELSE <<>>
    OBVIOUS
  <2>1. g[n] = IF i <= n THEN one ELSE <<>>
    OBVIOUS
  <2>2. n + 1 \in 1 .. Len(q) /\ n + 1 - 1 = n
    OBVIOUS
  <2>3. g[n + 1] = IF q[n + 1] \in T THEN Append(g[n], q[n + 1]) ELSE g[n]
    BY <2>2, <1>1 DEF Selects
  <2>4. CASE n + 1 = i
    <3>1. g[n] = <<>>
      BY <2>1, <2>4, <1>2
    <3> QED
      BY <2>3, <2>4, <3>1, <1>3
  <2>5. CASE n + 1 # i
    BY <2>1, <2>2, <2>3, <2>5, <1>2
  <2> QED
    BY <2>4, <2>5
<1> HIDE DEF Q
<1>6. Len(q) \in Q
  BY <1>2, <1>4, <1>5, NatByStep, ZenonT(30)
<1> QED
  BY <1>1, <1>2, <1>6 DEF Q, one

LEMMA OnlyConcat ==
  ASSUME NEW S, NEW p \in Seq(S), NEW q \in Seq(S), NEW T
  PROVE  Only(p \o q, T) = Only(p, T) \o Only(q, T)
<1> DEFINE A(n) == p \o SubSeq(q, 1, n)
           P == Only(p, T)
           Q == {n \in Nat : n <= Len(q) => Only(A(n), T) = P \o Only(SubSeq(q, 1, n), T)}
<1>1. P \in Seq(S) /\ Len(q) \in Nat
  BY OnlyElems
<1>2. 0 \in Q
  <2>1. SubSeq(q, 1, 0) = <<>> /\ A(0) = p /\ P \o <<>> = P
    BY <1>1
  <2> QED
    BY <2>1, OnlyEmpty, ZenonT(30)
<1>3. \A n \in Nat : n \in Q => n + 1 \in Q
  <2> SUFFICES ASSUME NEW n \in Nat, n \in Q, n + 1 <= Len(q)
               PROVE  Only(A(n + 1), T) = P \o Only(SubSeq(q, 1, n + 1), T)
    BY SMTT(30)
  <2> DEFINE b == SubSeq(q, 1, n)
             x == q[n + 1]
  <2>1. Only(p \o b, T) = P \o Only(b, T)
    OBVIOUS
  <2>2. x \in S /\ b \in Seq(S)
    OBVIOUS
  <2>3. SubSeq(q, 1, n + 1) = Append(b, x)
    OBVIOUS
  <2> HIDE DEF b, x, P
  <2>4. p \o Append(b, x) = Append(p \o b, x) /\ p \o b \in Seq(S)
    BY <2>2, SMTT(30)
  <2>5. Only(b, T) \in Seq(S)
    BY <2>2, OnlyElems
  <2>6. P \o Append(Only(b, T), x) = Append(P \o Only(b, T), x)
    BY <2>2, <2>5, <1>1, SMTT(30)
  <2>7. Only(Append(b, x), T) = IF x \in T THEN Append(Only(b, T), x) ELSE Only(b, T)
    BY <2>2, OnlyAppend
  <2>8. Only(Append(p \o b, x), T) = IF x \in T THEN Append(Only(p \o b, T), x) ELSE Only(p \o b, T)
    <3> DEFINE c == p \o b
    <3>1. c \in Seq(S)
      BY <2>4
    <3> HIDE DEF c
    <3>2. Only(Append(c, x), T) = IF x \in T THEN Append(Only(c, T), x) ELSE Only(c, T)
      BY <2>2, <3>1, OnlyAppend
    <3> QED
      BY <3>2 DEF c
  <2> QED
    BY <2>1, <2>3, <2>4, <2>6, <2>7, <2>8, ZenonT(30)
<1>4. SubSeq(q, 1, Len(q)) = q
  OBVIOUS
<1> HIDE DEF Q
<1>5. Len(q) \in Q
  BY <1>1, <1>2, <1>3, NatByStep
<1>6. Only(A(Len(q)), T) = P \o Only(SubSeq(q, 1, Len(q)), T)
  <2> HIDE DEF P, A
  <2> QED
    BY <1>1, <1>5 DEF Q
<1> QED
  BY <1>4, <1>6, Zenon
---------------------------------------------------------------------------
(* One download: how the messages of the client move its protocol.         *)

\* What the head of the queue says about the stage of the transfer.
HeadSays(j, w, reads, r, cm, sm, ver, asked, dec, bad, d, n, f, lo) ==
    /\ Head(cm) = cm[1] /\ Len(cm) \in Nat \ {0}
    /\ d \in 0 .. 1 /\ n \in Nat /\ lo \in Nat /\ f \in Files
    /\ cm[1].t = "dir" => d = 1 /\ n = 0
    /\ cm[1].t = "block" => d = 0 /\ n > 0 /\ w.listed /\ cm[1] = Blk(j, f, lo + 1, ver)
                             /\ Fed(w, f, lo, ver, dec, bad)
    /\ cm[1].t = "digest" =>
          /\ d = 0 /\ n = 0 /\ w.listed
          /\ Len(cm) = 1 /\ cm[1] = Dig(j, r.file, ver)
          /\ sm = <<>> /\ asked = {} /\ reads
          /\ ~r.confirmed /\ r.waiting /\ r.pos = 0 /\ r.file < NFiles
          /\ CaughtUp(w, r.file, dec, bad)
    /\ cm[1].t = "done" => w.listed /\ CaughtUp(w, NFiles, dec, bad) /\ asked = {}

LEMMA HeadOfFlow ==
  ASSUME NEW j, NEW w, NEW reads, NEW r, NEW cm \in Seq(CMsg(j)), NEW sm, NEW ver, NEW asked,
         NEW dec, NEW bad, NEW d, NEW n, NEW f, NEW lo, cm # <<>>,
         Flow(j, w, reads, r, cm, sm, ver, asked, dec, bad, d, n, f, lo)
  PROVE  HeadSays(j, w, reads, r, cm, sm, ver, asked, dec, bad, d, n, f, lo)
<1>1. Head(cm) = cm[1] /\ Len(cm) \in Nat \ {0}
  OBVIOUS
<1>2. Front(j, w, cm, ver, dec, bad, d, n, f, lo)
  BY DEF Flow
<1>3. /\ d \in 0 .. 1 /\ n \in Nat /\ lo \in Nat /\ f \in Files
      /\ d = 1 => n = 0 /\ cm[1].t = "dir"
      /\ d = 0 /\ ~w.listed => cm[1].t = "error"
      /\ d = 0 /\ n > 0 => cm[1] = Blk(j, f, lo + 1, ver) /\ Fed(w, f, lo, ver, dec, bad)
  BY <1>2 DEF Front, Dir, Error
<1>4. d = 0 /\ n > 0 => cm[1].t = "block" /\ w.listed
  BY <1>3 DEF Blk
<1>5. d = 0 /\ n = 0 =>
        \/ cm[1].t = "error"
        \/ cm[1].t = "done" /\ CaughtUp(w, NFiles, dec, bad) /\ asked = {}
        \/ /\ cm[1].t = "digest" /\ Len(cm) = 1 /\ cm[1] = Dig(j, r.file, ver)
           /\ sm = <<>> /\ asked = {} /\ reads
           /\ ~r.confirmed /\ r.waiting /\ r.pos = 0 /\ r.file < NFiles
           /\ CaughtUp(w, r.file, dec, bad)
  <2> SUFFICES ASSUME d = 0, n = 0
               PROVE  \/ cm[1].t = "error"
                      \/ cm[1].t = "done" /\ CaughtUp(w, NFiles, dec, bad) /\ asked = {}
                      \/ /\ cm[1].t = "digest" /\ Len(cm) = 1 /\ cm[1] = Dig(j, r.file, ver)
                         /\ sm = <<>> /\ asked = {} /\ reads
                         /\ ~r.confirmed /\ r.waiting /\ r.pos = 0 /\ r.file < NFiles
                         /\ CaughtUp(w, r.file, dec, bad)
    OBVIOUS
  <2>1. CASE Broken(cm, sm, asked, d, n)
    BY <2>1, <1>1 DEF Broken
  <2>2. CASE Over(j, w, reads, cm, sm, asked, dec, bad, d, n, f, lo)
    BY <2>2, <1>1 DEF Over, Sent, Done
  <2>3. CASE Closed(w, reads, r, cm, sm, asked, dec, bad, d, n, f, lo)
    BY <2>3, <1>1 DEF Closed
  <2>4. CASE Waits(j, w, reads, r, cm, sm, ver, asked, dec, bad, d, n, f, lo)
    BY <2>4, <1>1 DEF Waits, Sent, Dig
  <2>5. CASE Streams(w, reads, r, cm, sm, ver, asked, dec, bad, d, n, f, lo)
    BY <2>5, <1>1 DEF Streams
  <2> QED
    BY <2>1, <2>2, <2>3, <2>4, <2>5 DEF Flow
<1>6. CASE d = 1
  BY <1>1, <1>3, <1>6 DEF HeadSays
<1>7. CASE d = 0 /\ n > 0
  BY <1>1, <1>3, <1>4, <1>7 DEF HeadSays
<1>8. CASE d = 0 /\ n = 0
  BY <1>1, <1>3, <1>5, <1>8 DEF HeadSays
<1> QED
  BY <1>3, <1>6, <1>7, <1>8

\* FileResponse::Dir.
LEMMA FlowDir ==
  ASSUME NEW j, NEW w \in Job, NEW reads, NEW r, NEW cm \in Seq(CMsg(j)), NEW sm, NEW ver,
         NEW asked, NEW dec, NEW bad, NEW n, NEW f, NEW lo,
         Flow(j, w, reads, r, cm, sm, ver, asked, dec, bad, 1, n, f, lo)
  PROVE  Flow(j, [w EXCEPT !.listed = TRUE], reads, r, Tail(cm), sm, ver, asked, dec, bad,
              0, n, f, lo)
<1> DEFINE v == [w EXCEPT !.listed = TRUE]
           tl == Tail(cm)
<1>1. v.listed /\ v.file = w.file /\ v.pos = w.pos /\ v.digest = w.digest
  BY DEF Job
<1>2. Front(j, w, cm, ver, dec, bad, 1, n, f, lo) /\ n = 0 /\ Len(cm) >= 1
  BY DEF Flow, Front
<1>3. /\ Len(cm) \in Nat /\ Len(tl) = Len(cm) - 1
      /\ \A i \in 1 .. Len(cm) - 1 : tl[i] = cm[i + 1]
  BY <1>2
<1> SUFFICES Flow(j, v, reads, r, tl, sm, ver, asked, dec, bad, 0, n, f, lo)
  OBVIOUS
<1> HIDE DEF v, tl
<1>4. Front(j, v, tl, ver, dec, bad, 0, n, f, lo)
  BY <1>1, <1>2, <1>3 DEF Front
<1>5. \A g : Sent(w, g, dec, bad, n, f, lo) => Sent(v, g, dec, bad, n, f, lo)
  BY <1>1, <1>2 DEF Sent, CaughtUp, Ready, Complete
<1>6. CASE Broken(cm, sm, asked, 1, n)
  BY <1>2, <1>3, <1>4, <1>6 DEF Flow, Broken
<1>7. CASE Over(j, w, reads, cm, sm, asked, dec, bad, 1, n, f, lo)
  BY <1>2, <1>3, <1>4, <1>5, <1>7 DEF Flow, Over
<1>8. CASE Closed(w, reads, r, cm, sm, asked, dec, bad, 1, n, f, lo)
  <2>1. Closed(v, reads, r, tl, sm, asked, dec, bad, 0, n, f, lo)
    BY <1>2, <1>3, <1>5, <1>8 DEF Closed
  <2> QED
    BY <2>1, <1>4 DEF Flow
<1>9. CASE Waits(j, w, reads, r, cm, sm, ver, asked, dec, bad, 1, n, f, lo)
  <2>1. Len(cm) = n + 2 /\ cm[n + 2] = Dig(j, r.file, ver) /\ sm = <<>> /\ asked = {}
        /\ Sent(w, r.file, dec, bad, n, f, lo)
    BY <1>2, <1>9 DEF Waits
  <2>2. Len(tl) = n + 1 /\ tl[n + 1] = Dig(j, r.file, ver)
    BY <1>2, <1>3, <2>1
  <2>3. Waits(j, v, reads, r, tl, sm, ver, asked, dec, bad, 0, n, f, lo)
    BY <1>2, <1>5, <1>9, <2>1, <2>2 DEF Waits
  <2> QED
    BY <2>3, <1>4 DEF Flow
<1>10. CASE Streams(w, reads, r, cm, sm, ver, asked, dec, bad, 1, n, f, lo)
  BY <1>10 DEF Streams
<1> QED
  BY <1>6, <1>7, <1>8, <1>9, <1>10 DEF Flow

\* Block lo + 1 of file f is the first of the file, and the writer begins it:
\* then the file is no longer misplaced.
BadCleared(bad, w, f, lo) ==
    IF (f # w.file \/ w.pos = -1) /\ (IF lo + 1 > Size[f] THEN Size[f] = 0 ELSE lo + 1 = 1)
    THEN bad \ {f} ELSE bad

\* v is the writing job when that block has been written.
Accepted(w, v, bad, f, lo) ==
    /\ f \notin bad => At(w, f) <= Size[f]
    /\ v.file = f /\ v.digest = w.digest /\ v.listed
    /\ v.pos = At(w, f) + (IF lo + 1 > Size[f] THEN 0 ELSE 1)

\* FileResponse::Block.
LEMMA FlowBlock ==
  ASSUME NEW j, NEW w \in Job, NEW reads, NEW r, NEW cm \in Seq(CMsg(j)), NEW sm, NEW ver,
         NEW asked, NEW dec, NEW bad, NEW n, NEW f, NEW lo, NEW v, n > 0,
         Flow(j, w, reads, r, cm, sm, ver, asked, dec, bad, 0, n, f, lo), Accepted(w, v, bad, f, lo)
  PROVE  Flow(j, v, reads, r, Tail(cm), sm, ver, asked, dec, BadCleared(bad, w, f, lo), 0, n - 1, f, lo + 1)
<1> DEFINE bad2 == BadCleared(bad, w, f, lo)
<1>0. /\ f \notin bad => At(w, f) <= Size[f]
      /\ v.file = f /\ v.digest = w.digest /\ v.listed
      /\ v.pos = At(w, f) + (IF lo + 1 > Size[f] THEN 0 ELSE 1)
      /\ bad2 = IF (f # w.file \/ w.pos = -1) /\ (IF lo + 1 > Size[f] THEN Size[f] = 0 ELSE lo + 1 = 1)
                THEN bad \ {f} ELSE bad
  BY DEF Accepted, BadCleared
<1> USE <1>0
<1> DEFINE tl == Tail(cm)
<1>1. Front(j, w, cm, ver, dec, bad, 0, n, f, lo)
  BY DEF Flow
<1>2. n \in Nat /\ lo \in Nat /\ f \in Files /\ n <= Len(cm) /\ f \in Int /\ Size[f] \in Nat
  BY <1>1, TransferJobAssumption DEF Front, Files
<1>3. /\ Len(cm) \in Nat /\ Len(tl) = Len(cm) - 1 /\ tl \in Seq(CMsg(j))
      /\ \A i \in 1 .. Len(cm) - 1 : tl[i] = cm[i + 1]
  BY <1>2
<1> SUFFICES Flow(j, v, reads, r, tl, sm, ver, asked, dec, bad2, 0, n - 1, f, lo + 1)
  OBVIOUS
<1> HIDE DEF tl, bad2
<1>4. /\ Fed(w, f, lo, ver, dec, bad)
      /\ \A i \in 1 .. n : cm[i] = Blk(j, f, lo + i, ver)
      /\ \A i \in 1 .. n : i < n => lo + i <= Size[f]
  BY <1>1, ZenonT(30) DEF Front
<1>5. At(w, f) \in Nat /\ w.pos \in Nat \cup {-1}
  BY DEF At, Job
<1>6. At(v, f) = v.pos /\ v.pos \in Nat
  BY <1>2, <1>5 DEF At
<1>7. lo + 1 <= Size[f] => Fed(v, f, lo + 1, ver, dec, bad2)
  <2> SUFFICES ASSUME lo + 1 <= Size[f] PROVE Fed(v, f, lo + 1, ver, dec, bad2)
    OBVIOUS
  <2>1. v.pos = At(w, f) + 1
    BY <1>2
  <2>2. f \notin bad2 => lo = At(w, f)
    BY <1>2, <1>4 DEF Fed, At
  <2>3. dec[f] = "copy" /\ v.digest = ver[f]
    BY <1>4 DEF Fed
  <2>4. v.file <= f /\ Ready(v, f, dec, bad2)
    BY <1>2 DEF Ready
  <2> QED
    BY <1>6, <2>1, <2>2, <2>3, <2>4 DEF Fed
<1>8. lo + 1 > Size[f] => CaughtUp(v, f + 1, dec, bad2)
  <2> SUFFICES ASSUME lo + 1 > Size[f] PROVE CaughtUp(v, f + 1, dec, bad2)
    OBVIOUS
  <2>1. v.pos = At(w, f)
    BY <1>2, <1>5
  <2>2. f \notin bad => At(w, f) = Size[f]
    BY <1>2, <1>4, <1>5 DEF Fed
  <2>3. f \notin bad2 => v.pos = Size[f]
    BY <1>2, <2>1, <2>2 DEF At
  <2>4. Complete(v, dec, bad2)
    BY <1>4, <1>6, <2>3 DEF Complete, Fed
  <2>5. \A h \in Files : ~(f < h /\ h < f + 1)
    BY <1>2 DEF Files
  <2> QED
    BY <1>2, <2>4, <2>5 DEF CaughtUp, Ready
<1>9. n > 1 => lo + 1 <= Size[f]
  BY <1>2, <1>4
<1>10. Front(j, v, tl, ver, dec, bad2, 0, n - 1, f, lo + 1)
  <2>1. \A i \in 1 .. n - 1 : tl[i] = Blk(j, f, lo + 1 + i, ver) /\ (i < n - 1 => lo + 1 + i <= Size[f])
    <3> TAKE i \in 1 .. n - 1
    <3>1. i \in 1 .. Len(cm) - 1 /\ i + 1 \in 1 .. n /\ lo + (i + 1) = lo + 1 + i
      BY <1>2, <1>3
    <3>2. tl[i] = cm[i + 1] /\ cm[i + 1] = Blk(j, f, lo + (i + 1), ver)
      BY <1>3, <1>4, <3>1
    <3>3. i + 1 < n => lo + (i + 1) <= Size[f]
      BY <1>4, <3>1
    <3> QED
      BY <1>2, <3>1, <3>2, <3>3
  <2>2. n - 1 > 0 => Fed(v, f, lo + 1, ver, dec, bad2)
    BY <1>2, <1>7, <1>9
  <2>3. n - 1 \in Nat /\ lo + 1 \in Nat /\ n - 1 <= Len(tl) /\ 0 \in 0 .. 1
    BY <1>2, <1>3
  <2> QED
    BY <1>2, <2>1, <2>2, <2>3 DEF Front
<1>11. \A g : Sent(w, g, dec, bad, n, f, lo) => Sent(v, g, dec, bad2, n - 1, f, lo + 1)
  <2> SUFFICES ASSUME NEW g, Sent(w, g, dec, bad, n, f, lo)
               PROVE  Sent(v, g, dec, bad2, n - 1, f, lo + 1)
    BY ZenonT(30)
  <2>1. g = f + 1 /\ lo + n > Size[f]
    BY <1>2 DEF Sent
  <2>2. CASE n - 1 = 0
    <3>1. CaughtUp(v, g, dec, bad2)
      BY <1>2, <1>8, <2>1, <2>2
    <3> QED
      BY <2>2, <3>1 DEF Sent
  <2>3. CASE n - 1 # 0
    BY <1>2, <2>1, <2>3 DEF Sent
  <2> QED
    BY <2>2, <2>3
<1>12. CASE Broken(cm, sm, asked, 0, n)
  <2>1. Broken(tl, sm, asked, 0, n - 1)
    BY <1>2, <1>3, <1>12 DEF Broken
  <2> QED
    BY <1>10, <2>1 DEF Flow
<1>13. CASE Over(j, w, reads, cm, sm, asked, dec, bad, 0, n, f, lo)
  <2>2. Len(cm) = n + 1 /\ cm[n + 1] = Done(j) /\ Sent(w, NFiles, dec, bad, n, f, lo)
    BY <1>2, <1>3, <1>13 DEF Over
  <2>3. Len(tl) = 0 + (n - 1) + 1 /\ tl[0 + (n - 1) + 1] = Done(j)
    BY <1>2, <1>3, <2>2
  <2>4. Sent(v, NFiles, dec, bad2, n - 1, f, lo + 1)
    BY <1>11, <2>2, ZenonT(30)
  <2>1. Over(j, v, reads, tl, sm, asked, dec, bad2, 0, n - 1, f, lo + 1)
    BY <1>13, <2>3, <2>4 DEF Over
  <2> QED
    BY <1>10, <2>1 DEF Flow
<1>14. CASE Closed(w, reads, r, cm, sm, asked, dec, bad, 0, n, f, lo)
  <2>2. Len(cm) = n /\ Sent(w, r.file, dec, bad, n, f, lo)
    BY <1>2, <1>3, <1>14 DEF Closed
  <2>3. Len(tl) = 0 + (n - 1)
    BY <1>2, <1>3, <2>2
  <2>4. Sent(v, r.file, dec, bad2, n - 1, f, lo + 1)
    BY <1>11, <2>2, ZenonT(30)
  <2>1. Closed(v, reads, r, tl, sm, asked, dec, bad2, 0, n - 1, f, lo + 1)
    BY <1>14, <2>3, <2>4 DEF Closed
  <2> QED
    BY <1>10, <2>1 DEF Flow
<1>15. CASE Waits(j, w, reads, r, cm, sm, ver, asked, dec, bad, 0, n, f, lo)
  <2>1. Len(cm) = n + 1 /\ cm[n + 1] = Dig(j, r.file, ver) /\ sm = <<>> /\ asked = {}
        /\ Sent(w, r.file, dec, bad, n, f, lo)
    BY <1>2, <1>3, <1>15 DEF Waits
  <2>2. Len(tl) = 0 + (n - 1) + 1 /\ tl[0 + (n - 1) + 1] = Dig(j, r.file, ver)
    BY <1>2, <1>3, <2>1
  <2>3. Sent(v, r.file, dec, bad2, n - 1, f, lo + 1)
    BY <1>11, <2>1, ZenonT(30)
  <2>4. Waits(j, v, reads, r, tl, sm, ver, asked, dec, bad2, 0, n - 1, f, lo + 1)
    BY <1>15, <2>1, <2>2, <2>3 DEF Waits
  <2> QED
    BY <1>10, <2>4 DEF Flow
<1>16. CASE Streams(w, reads, r, cm, sm, ver, asked, dec, bad, 0, n, f, lo)
  <2>1. r.pos = lo + n /\ Len(cm) = n /\ \A i \in 1 .. n : lo + i <= Size[f]
    BY <1>16 DEF Streams
  <2>2. Fed(v, f, lo + 1, ver, dec, bad2)
    BY <1>2, <1>7, <2>1
  <2>3. r.pos = lo + 1 + (n - 1) /\ Len(tl) = n - 1
    BY <1>2, <1>3, <2>1
  <2>4. \A i \in 1 .. n - 1 : lo + 1 + i <= Size[f]
    <3> TAKE i \in 1 .. n - 1
    <3>1. i + 1 \in 1 .. n
      BY <1>2
    <3> QED
      BY <1>2, <2>1, <3>1
  <2>5. Streams(v, reads, r, tl, sm, ver, asked, dec, bad2, 0, n - 1, f, lo + 1)
    BY <1>16, <2>2, <2>3, <2>4 DEF Streams
  <2> QED
    BY <1>10, <2>5 DEF Flow
<1> QED
  BY <1>12, <1>13, <1>14, <1>15, <1>16 DEF Flow

\* The writer answers for the reader's file g: v is the writing job, dec are the
\* answers and bad the misplaced files afterwards.
FedBy(w, v, g, ver, dec, bad, skip, offset) ==
    /\ skip => dec[g] = "skip" /\ CaughtUp(v, g + 1, dec, bad)
    /\ ~skip => Fed(v, g, offset, ver, dec, bad)
    /\ v.listed = w.listed /\ v.last = w.last

DecAfter(dec, g, skip) == [dec EXCEPT ![g] = IF skip THEN "skip" ELSE "copy"]
BadAfter(bad, w, g, skip, offset) == IF ~skip /\ offset > 0 /\ w.file # g THEN bad \cup {g} ELSE bad

LEMMA AnswerIsFed ==
  ASSUME NEW w \in Job, NEW g \in Files, NEW dir_, NEW ver, NEW dec \in Answers, NEW bad,
         NEW skip \in BOOLEAN, NEW offset \in Nat, NEW c,
         CaughtUp(w, g, dec, bad), w.digest = ver[g],
         c.file = g, c.skip = skip, c.offset = offset,
         offset > 0 => ~skip /\ dir_[g].part # NoFile /\ dir_[g].digest # NoDigest
  PROVE  FedBy(w, Confirm(w, dir_, c), g, ver, DecAfter(dec, g, skip),
               BadAfter(bad, w, g, skip, offset), skip, offset)
<1> DEFINE v == Confirm(w, dir_, c)
           dec2 == [dec EXCEPT ![g] = IF skip THEN "skip" ELSE "copy"]
           bad2 == IF ~skip /\ offset > 0 /\ w.file # g THEN bad \cup {g} ELSE bad
<1>1. /\ w.file \in Int /\ w.pos \in Int /\ g \in Int /\ w.file <= g
      /\ Ready(w, g, dec, bad) /\ (w.file = g => w.pos = -1)
  BY DEF CaughtUp, Job, Files
<1>2. /\ dec2[g] = IF skip THEN "skip" ELSE "copy"
      /\ \A h \in Files : h # g => dec2[h] = dec[h]
  BY DEF Answers
<1>3. v.listed = w.listed /\ v.last = w.last /\ v.digest = w.digest
  BY DEF Confirm, SetFileSkipped, SetStreamOffset, Job
<1>4. w.file # g => v = w
  BY DEF Confirm
<1>5. w.file = g /\ skip => v.file = g + 1 /\ v.pos = -1
  BY DEF Confirm, SetFileSkipped, Job
<1>6. w.file = g /\ ~skip => v.file = g /\ v.pos = IF offset > 0 THEN offset ELSE -1
  BY <1>1 DEF Confirm, SetStreamOffset, Job
<1>7. w.file < g => Complete(w, dec2, bad2)
  BY <1>1, <1>2 DEF Ready, Complete, Files, Job
<1>8. \A h \in Files : w.file < h /\ h < g => dec2[h] = "skip"
  <2> SUFFICES ASSUME NEW h \in Files, w.file < h, h < g PROVE dec2[h] = "skip"
    OBVIOUS
  <2>1. h # g /\ w.file < g
    BY <1>1 DEF Files
  <2> HIDE DEF dec2
  <2> QED
    BY <1>1, <1>2, <2>1 DEF Ready
<1> HIDE DEF v, dec2, bad2
<1>9. ASSUME skip PROVE CaughtUp(v, g + 1, dec2, bad2)
  <2>1. CASE w.file = g
    BY <1>1, <1>5, <1>9, <2>1 DEF CaughtUp, Ready
  <2>2. CASE w.file # g
    <3>1. w.file < g /\ v = w
      BY <1>1, <1>4, <2>2
    <3>2. \A h \in Files : w.file < h /\ h < g + 1 => dec2[h] = "skip"
      <4> SUFFICES ASSUME NEW h \in Files, w.file < h, h < g + 1 PROVE dec2[h] = "skip"
        OBVIOUS
      <4>1. h = g \/ h < g
        BY <1>1 DEF Files
      <4> QED
        BY <1>2, <1>8, <1>9, <4>1
    <3>3. w.file <= g + 1 /\ w.file # g + 1
      BY <1>1
    <3> QED
      BY <1>7, <3>1, <3>2, <3>3 DEF CaughtUp, Ready
  <2> QED
    BY <2>1, <2>2
<1>10. ASSUME ~skip PROVE Fed(v, g, offset, ver, dec2, bad2)
  <2>1. dec2[g] = "copy" /\ v.digest = ver[g]
    BY <1>2, <1>3, <1>10
  <2>2. CASE w.file = g
    <3>1. v.file <= g /\ Ready(v, g, dec2, bad2)
      BY <1>1, <1>6, <1>10, <2>2 DEF Ready
    <3>2. offset = At(v, g)
      BY <1>6, <1>10, <2>2 DEF At
    <3> QED
      BY <2>1, <3>1, <3>2 DEF Fed
  <2>3. CASE w.file # g
    <3>1. w.file < g /\ v = w
      BY <1>1, <1>4, <2>3
    <3>2. v.file <= g /\ Ready(v, g, dec2, bad2)
      BY <1>1, <1>7, <1>8, <3>1 DEF Ready
    <3>3. g \notin bad2 => offset = 0
      BY <1>10, <2>3 DEF bad2
    <3>4. At(v, g) = 0
      BY <2>3, <3>1 DEF At
    <3> QED
      BY <2>1, <3>2, <3>3, <3>4 DEF Fed
  <2> QED
    BY <2>2, <2>3
<1>11. FedBy(w, v, g, ver, dec2, bad2, skip, offset)
  BY <1>2, <1>3, <1>9, <1>10 DEF FedBy
<1> QED
  BY <1>11 DEF v, dec2, bad2, DecAfter, BadAfter

\* The answer is under way and the reader waits for it.
LEMMA FlowAnswer ==
  ASSUME NEW j, NEW v \in Job, NEW reads, NEW r, NEW sm, NEW ver, NEW dec, NEW bad, NEW f,
         v.listed, f = r.file, f \in Files,
         reads, ~r.confirmed, r.waiting, r.pos = 0, r.file < NFiles,
         Len(sm) = 1, sm[1].t = "confirm", sm[1].file = f,
         sm[1].skip => dec[f] = "skip" /\ CaughtUp(v, f + 1, dec, bad),
         ~sm[1].skip => Fed(v, f, sm[1].offset, ver, dec, bad)
  PROVE  Flow(j, v, reads, r, <<>>, sm, ver, {}, dec, bad, 0, 0, f, 0)
<1> DEFINE cm == <<>>
           no == {}
<1>1. cm = <<>> /\ Len(cm) = 0 /\ no = {}
  OBVIOUS
<1> HIDE DEF cm, no
<1>2. Front(j, v, cm, ver, dec, bad, 0, 0, f, 0)
  BY <1>1 DEF Front
<1>3. Waits(j, v, reads, r, cm, sm, ver, no, dec, bad, 0, 0, f, 0)
  BY <1>1 DEF Waits
<1>4. Flow(j, v, reads, r, cm, sm, ver, no, dec, bad, 0, 0, f, 0)
  BY <1>2, <1>3, ZenonT(30) DEF Flow
<1> QED
  BY <1>1, <1>4, ZenonT(30)

\* The user is asked.
LEMMA FlowAsk ==
  ASSUME NEW j, NEW v \in Job, NEW reads, NEW r, NEW ver, NEW dec, NEW bad, NEW f,
         v.listed, f = r.file, f \in Files,
         reads, ~r.confirmed, r.waiting, r.pos = 0, r.file < NFiles,
         v.digest = ver[f], CaughtUp(v, f, dec, bad)
  PROVE  Flow(j, v, reads, r, <<>>, <<>>, ver, {f}, dec, bad, 0, 0, f, 0)
<1> DEFINE cm == <<>>
<1>1. cm = <<>> /\ Len(cm) = 0
  OBVIOUS
<1> HIDE DEF cm
<1>2. Front(j, v, cm, ver, dec, bad, 0, 0, f, 0)
  BY <1>1 DEF Front
<1>3. Waits(j, v, reads, r, cm, cm, ver, {f}, dec, bad, 0, 0, f, 0)
  BY <1>1 DEF Waits
<1>4. Flow(j, v, reads, r, cm, cm, ver, {f}, dec, bad, 0, 0, f, 0)
  BY <1>2, <1>3, ZenonT(30) DEF Flow
<1> QED
  BY <1>1, <1>4, ZenonT(30)
---------------------------------------------------------------------------
(* One download: the controlled side.                                      *)

\* FileAction::Send.
LEMMA FlowSend ==
  ASSUME NEW j, NEW w \in Job, NEW reads, NEW r, NEW ver, NEW dec, NEW bad,
         ~w.listed, w.pos = -1
  PROVE  /\ Flow(j, w, reads, r, <<Error(j)>>, <<>>, ver, {}, dec, bad, 0, 0, 0, 0)
         /\ Flow(j, w, TRUE, NewJob(w.file, TRUE), <<Dir(j)>>, <<>>, ver, {}, dec, bad, 1, 0, 0, 0)
<1>1. 0 \in Files /\ w.file \in Int
  BY TransferJobAssumption DEF Files, Job
<1>2. Flow(j, w, reads, r, <<Error(j)>>, <<>>, ver, {}, dec, bad, 0, 0, 0, 0)
  <2> DEFINE cm == <<Error(j)>>
  <2>1. cm # <<>> /\ Len(cm) = 1 /\ cm[1] = Error(j)
    OBVIOUS
  <2> HIDE DEF cm
  <2>2. Front(j, w, cm, ver, dec, bad, 0, 0, 0, 0)
    BY <1>1, <2>1 DEF Front
  <2>3. Broken(cm, <<>>, {}, 0, 0)
    BY <2>1 DEF Broken, Error
  <2>4. Flow(j, w, reads, r, cm, <<>>, ver, {}, dec, bad, 0, 0, 0, 0)
    BY <2>2, <2>3 DEF Flow
  <2> QED
    BY <2>4 DEF cm
<1>3. Flow(j, w, TRUE, NewJob(w.file, TRUE), <<Dir(j)>>, <<>>, ver, {}, dec, bad, 1, 0, 0, 0)
  <2> DEFINE cm == <<Dir(j)>>
             q == NewJob(w.file, TRUE)
  <2>1. cm # <<>> /\ Len(cm) = 1 /\ cm[1] = Dir(j)
    OBVIOUS
  <2>2. q.file = w.file /\ q.pos = -1 /\ ~q.confirmed /\ ~q.waiting
    BY DEF NewJob
  <2> HIDE DEF cm, q
  <2>3. Front(j, w, cm, ver, dec, bad, 1, 0, 0, 0)
    BY <1>1, <2>1 DEF Front
  <2>4. Closed(w, TRUE, q, cm, <<>>, {}, dec, bad, 1, 0, 0, 0)
    BY <1>1, <2>1, <2>2 DEF Closed, Sent, CaughtUp, Ready
  <2>5. Flow(j, w, TRUE, q, cm, <<>>, ver, {}, dec, bad, 1, 0, 0, 0)
    BY <2>3, <2>4, ZenonT(30) DEF Flow
  <2> QED
    BY <2>5, ZenonT(30) DEF cm, q
<1> QED
  BY <1>2, <1>3, ZenonT(30)

\* FileAction::SendConfirm.
LEMMA FlowConfirm ==
  ASSUME NEW j, NEW w \in Job, NEW reads, NEW r \in Job, NEW cm \in Seq(CMsg(j)), NEW sm, NEW ver,
         NEW asked, NEW dec, NEW bad, NEW d, NEW n, NEW f, NEW lo, sm # <<>>, NEW c, NEW src,
         Flow(j, w, reads, r, cm, sm, ver, asked, dec, bad, d, n, f, lo),
         sm[1].skip \in BOOLEAN, sm[1].offset \in Nat,
         c.file = r.file, c.skip = sm[1].skip, c.offset = sm[1].offset,
         src[r.file].final # NoFile
  PROVE  Flow(j, w, reads, Confirm(r, src, c), cm, <<>>, ver, asked, dec, bad, 0, 0, r.file,
              IF sm[1].skip THEN 0 ELSE sm[1].offset)
<1> DEFINE q == Confirm(r, src, c)
           lo2 == IF sm[1].skip THEN 0 ELSE sm[1].offset
           none == <<>>
<1>1. Front(j, w, cm, ver, dec, bad, d, n, f, lo)
  BY DEF Flow
<1>2. /\ reads /\ ~r.confirmed /\ r.waiting /\ r.pos = 0 /\ r.file < NFiles
      /\ cm = <<>> /\ asked = {} /\ Len(sm) = 1 /\ sm[1].t = "confirm"
      /\ IF sm[1].skip THEN dec[r.file] = "skip" /\ CaughtUp(w, r.file + 1, dec, bad)
         ELSE Fed(w, r.file, sm[1].offset, ver, dec, bad)
  BY DEF Flow, Broken, Over, Closed, Waits, Streams
<1>3. Len(cm) = 0 /\ r.file \in Files
  BY <1>2, TransferJobAssumption DEF Job, Files
<1>4. w.listed
  BY <1>1, <1>2, <1>3 DEF Front
<1>5. lo2 \in Nat
  OBVIOUS
<1> SUFFICES Flow(j, w, reads, q, cm, none, ver, asked, dec, bad, 0, 0, r.file, lo2)
  OBVIOUS
<1>6. none = <<>>
  OBVIOUS
<1>7. CASE sm[1].skip
  <2>1. q.file = r.file + 1 /\ q.pos = -1 /\ ~q.confirmed /\ ~q.waiting
    BY <1>7 DEF Confirm, SetFileSkipped, Job
  <2> HIDE DEF q, lo2, none
  <2>2. Front(j, w, cm, ver, dec, bad, 0, 0, r.file, lo2)
    BY <1>3, <1>4, <1>5 DEF Front
  <2>3. Closed(w, reads, q, cm, none, asked, dec, bad, 0, 0, r.file, lo2)
    BY <1>2, <1>3, <1>6, <1>7, <2>1 DEF Closed, Sent
  <2> QED
    BY <2>2, <2>3 DEF Flow
<1>8. CASE ~sm[1].skip
  <2>1. q.file = r.file /\ q.pos = sm[1].offset /\ q.confirmed /\ q.waiting
    BY <1>2, <1>8 DEF Confirm, SetStreamOffset, Job
  <2>2. lo2 = sm[1].offset
    BY <1>8
  <2> HIDE DEF q, lo2, none
  <2>3. Front(j, w, cm, ver, dec, bad, 0, 0, r.file, lo2)
    BY <1>3, <1>4, <1>5 DEF Front
  <2>4. Streams(w, reads, q, cm, none, ver, asked, dec, bad, 0, 0, r.file, lo2)
    BY <1>2, <1>3, <1>5, <1>6, <1>8, <2>1, <2>2 DEF Streams
  <2> QED
    BY <2>3, <2>4 DEF Flow
<1> QED
  BY <1>7, <1>8

\* A message more at the end of the queue.
LEMMA FrontAppend ==
  ASSUME NEW j, NEW w, NEW cm \in Seq(CMsg(j)), NEW ver, NEW dec, NEW bad,
         NEW d, NEW n, NEW f, NEW lo, NEW m \in CMsg(j),
         Front(j, w, cm, ver, dec, bad, d, n, f, lo)
  PROVE  /\ Front(j, w, Append(cm, m), ver, dec, bad, d, n, f, lo)
         /\ Append(cm, m) \in Seq(CMsg(j)) /\ Len(Append(cm, m)) = Len(cm) + 1 /\ Len(cm) \in Nat
         /\ Append(cm, m)[Len(cm) + 1] = m
         /\ \A i \in 1 .. Len(cm) : Append(cm, m)[i] = cm[i]
         /\ d \in Nat /\ n \in Nat /\ f \in Files /\ lo \in Nat /\ d + n <= Len(cm)
<1> DEFINE q == Append(cm, m)
<1>1. /\ q \in Seq(CMsg(j)) /\ Len(q) = Len(cm) + 1 /\ Len(cm) \in Nat
      /\ q[Len(cm) + 1] = m /\ \A i \in 1 .. Len(cm) : q[i] = cm[i]
  OBVIOUS
<1>2. cm # <<>> => Len(cm) # 0
  OBVIOUS
<1>3. q # <<>>
  BY AppendProperties
<1> HIDE DEF q
<1>4. d \in Nat /\ n \in Nat /\ f \in Files /\ lo \in Nat /\ d + n <= Len(cm)
  BY DEF Front
<1>5. /\ d = 1 => q[1] = Dir(j) /\ w.pos = -1
      /\ d = 0 /\ ~w.listed => q # <<>> /\ q[1] = Error(j)
  BY <1>1, <1>2, <1>3, <1>4 DEF Front
<1>6. \A i \in 1 .. n : q[i] = Blk(j, f, lo + i, ver) /\ (i < n => lo + i <= Size[f])
  <2> TAKE i \in 1 .. n
  <2>1. i \in 1 .. Len(cm)
    BY <1>1, <1>4
  <2>2. cm[i] = Blk(j, f, lo + i, ver) /\ (i < n => lo + i <= Size[f])
    BY DEF Front
  <2> QED
    BY <1>1, <2>1, <2>2
<1>7. d + n <= Len(q)
  BY <1>1, <1>4
<1>8. Front(j, w, q, ver, dec, bad, d, n, f, lo)
  BY <1>5, <1>6, <1>7 DEF Front
<1> QED
  BY <1>1, <1>4, <1>8 DEF q

\* Nothing mends a broken transfer.
LEMMA FlowBroken ==
  ASSUME NEW j, NEW w, NEW reads, NEW r, NEW cm \in Seq(CMsg(j)), NEW sm, NEW ver, NEW asked,
         NEW dec, NEW bad, NEW d, NEW n, NEW f, NEW lo, NEW m \in CMsg(j),
         Front(j, w, cm, ver, dec, bad, d, n, f, lo), Broken(cm, sm, asked, d, n)
  PROVE  /\ Front(j, w, Append(cm, m), ver, dec, bad, d, n, f, lo)
         /\ Broken(Append(cm, m), sm, asked, d, n)
<1> DEFINE q == Append(cm, m)
<1>1. /\ Front(j, w, q, ver, dec, bad, d, n, f, lo)
      /\ Len(q) = Len(cm) + 1 /\ Len(cm) \in Nat /\ d \in Nat /\ n \in Nat
      /\ \A i \in 1 .. Len(cm) : q[i] = cm[i]
  BY FrontAppend
<1> HIDE DEF q
<1>2. Broken(q, sm, asked, d, n)
  BY <1>1, SMTT(30) DEF Broken
<1> QED
  BY <1>1, <1>2 DEF q

\* An error breaks it.
LEMMA FlowBreaks ==
  ASSUME NEW j, NEW w, NEW reads, NEW r, NEW cm \in Seq(CMsg(j)), NEW sm, NEW ver, NEW asked,
         NEW dec, NEW bad, NEW d, NEW n, NEW f, NEW lo, NEW m \in CMsg(j), m.t = "error",
         Front(j, w, cm, ver, dec, bad, d, n, f, lo), Len(cm) = d + n, sm = <<>>, asked = {}
  PROVE  /\ Front(j, w, Append(cm, m), ver, dec, bad, d, n, f, lo)
         /\ Broken(Append(cm, m), sm, asked, d, n)
<1> DEFINE q == Append(cm, m)
<1>1. /\ Front(j, w, q, ver, dec, bad, d, n, f, lo)
      /\ Len(q) = Len(cm) + 1 /\ Len(cm) \in Nat /\ d \in Nat /\ n \in Nat
      /\ q[Len(cm) + 1] = m
  BY FrontAppend
<1> HIDE DEF q
<1>2. Broken(q, sm, asked, d, n)
  BY <1>1 DEF Broken
<1> QED
  BY <1>1, <1>2 DEF q

\* The next file is opened and its digest sent.
LEMMA FlowDigest ==
  ASSUME NEW j, NEW w, NEW reads, NEW r, NEW cm \in Seq(CMsg(j)), NEW sm, NEW ver, NEW asked,
         NEW dec, NEW bad, NEW d, NEW n, NEW f, NEW lo, NEW q, Dig(j, r.file, ver) \in CMsg(j),
         Front(j, w, cm, ver, dec, bad, d, n, f, lo),
         Closed(w, reads, r, cm, sm, asked, dec, bad, d, n, f, lo),
         q.file = r.file, q.waiting, ~q.confirmed, q.pos = 0, r.file < NFiles
  PROVE  Flow(j, w, reads, q, Append(cm, Dig(j, r.file, ver)), sm, ver, asked, dec, bad, d, n, f, lo)
<1> DEFINE m == Dig(j, r.file, ver)
           p == Append(cm, m)
<1>1. /\ Front(j, w, p, ver, dec, bad, d, n, f, lo)
      /\ Len(p) = Len(cm) + 1 /\ Len(cm) \in Nat /\ d \in Nat /\ n \in Nat
      /\ p[Len(cm) + 1] = m
  BY FrontAppend
<1> HIDE DEF p
<1>2. Len(cm) = d + n /\ sm = <<>> /\ asked = {} /\ Sent(w, q.file, dec, bad, n, f, lo) /\ reads
  BY DEF Closed
<1>3. Waits(j, w, reads, q, p, sm, ver, asked, dec, bad, d, n, f, lo)
  BY <1>1, <1>2 DEF Waits
<1>4. Flow(j, w, reads, q, p, sm, ver, asked, dec, bad, d, n, f, lo)
  BY <1>1, <1>3 DEF Flow
<1> QED
  BY <1>4 DEF p

\* The list of files is at its end.
LEMMA FlowOver ==
  ASSUME NEW j, NEW w, NEW reads, NEW r, NEW cm \in Seq(CMsg(j)), NEW sm, NEW ver, NEW asked,
         NEW dec, NEW bad, NEW d, NEW n, NEW f, NEW lo, NEW q, NEW gone, Done(j) \in CMsg(j),
         Front(j, w, cm, ver, dec, bad, d, n, f, lo),
         Closed(w, reads, r, cm, sm, asked, dec, bad, d, n, f, lo),
         r.file = NFiles, ~gone
  PROVE  Flow(j, w, gone, q, Append(cm, Done(j)), sm, ver, asked, dec, bad, d, n, f, lo)
<1> DEFINE p == Append(cm, Done(j))
<1>1. /\ Front(j, w, p, ver, dec, bad, d, n, f, lo)
      /\ Len(p) = Len(cm) + 1 /\ Len(cm) \in Nat /\ d \in Nat /\ n \in Nat
      /\ p[Len(cm) + 1] = Done(j)
  BY FrontAppend
<1> HIDE DEF p
<1>2. Len(cm) = d + n /\ sm = <<>> /\ asked = {} /\ Sent(w, NFiles, dec, bad, n, f, lo)
  BY DEF Closed
<1>3. Over(j, w, gone, p, sm, asked, dec, bad, d, n, f, lo)
  BY <1>1, <1>2 DEF Over
<1>4. Flow(j, w, gone, q, p, sm, ver, asked, dec, bad, d, n, f, lo)
  BY <1>1, <1>3 DEF Flow
<1> QED
  BY <1>4 DEF p

\* A block more of the file, or the empty one behind its last.
LEMMA FlowRead ==
  ASSUME NEW j, NEW w, NEW reads, NEW r, NEW cm \in Seq(CMsg(j)), NEW sm, NEW ver, NEW asked,
         NEW dec, NEW bad, NEW d, NEW n, NEW f, NEW lo, NEW q, Blk(j, f, lo + n + 1, ver) \in CMsg(j),
         Front(j, w, cm, ver, dec, bad, d, n, f, lo),
         Streams(w, reads, r, cm, sm, ver, asked, dec, bad, d, n, f, lo),
         IF r.pos >= Size[f]
         THEN q.file = r.file + 1 /\ q.pos = -1 /\ ~q.confirmed /\ ~q.waiting
         ELSE q.file = r.file /\ q.pos = r.pos + 1 /\ q.confirmed /\ q.waiting
  PROVE  Flow(j, w, reads, q, Append(cm, Blk(j, f, lo + n + 1, ver)), sm, ver, asked, dec, bad,
              d, n + 1, f, lo)
<1> DEFINE m == Blk(j, f, lo + n + 1, ver)
           p == Append(cm, m)
<1>1. /\ Front(j, w, p, ver, dec, bad, d, n, f, lo)
      /\ Len(p) = Len(cm) + 1 /\ Len(cm) \in Nat
      /\ p[Len(cm) + 1] = m
      /\ \A i \in 1 .. Len(cm) : p[i] = cm[i]
      /\ d \in Nat /\ n \in Nat /\ f \in Files /\ lo \in Nat
  BY FrontAppend
<1> HIDE DEF p, m
<1>2. /\ d = 0 /\ Len(cm) = n /\ sm = <<>> /\ asked = {} /\ r.file = f /\ r.pos = lo + n /\ reads
      /\ \A i \in 1 .. n : lo + i <= Size[f]
      /\ Fed(w, f, lo, ver, dec, bad)
  BY DEF Streams
<1>3. Size[f] \in Nat
  BY <1>1, TransferJobAssumption DEF Files
<1>4. Front(j, w, p, ver, dec, bad, d, n + 1, f, lo)
  <2>1. \A i \in 1 .. n + 1 : p[i] = Blk(j, f, lo + i, ver) /\ (i < n + 1 => lo + i <= Size[f])
    <3> TAKE i \in 1 .. n + 1
    <3>1. CASE i = n + 1
      <4>1. lo + i = lo + n + 1
        BY <1>1, <3>1
      <4> QED
        BY <1>1, <1>2, <3>1, <4>1 DEF m
    <3>2. CASE i # n + 1
      <4>1. i \in 1 .. n
        BY <1>1, <3>2
      <4>2. p[i] = Blk(j, f, lo + i, ver)
        BY <1>1, <4>1 DEF Front
      <4> QED
        BY <1>2, <4>1, <4>2
    <3> QED
      BY <3>1, <3>2
  <2>2. d + (n + 1) <= Len(p) /\ n + 1 \in Nat /\ d # 1
    BY <1>1, <1>2
  <2>3. d \in 0 .. 1 /\ (d = 0 /\ ~w.listed => p # <<>> /\ p[1] = Error(j))
    BY <1>1 DEF Front
  <2> QED
    BY <1>1, <1>2, <2>1, <2>2, <2>3 DEF Front
<1>5. CASE r.pos >= Size[f]
  <2>1. Sent(w, q.file, dec, bad, n + 1, f, lo)
    BY <1>1, <1>2, <1>3, <1>5 DEF Sent
  <2>2. Closed(w, reads, q, p, sm, asked, dec, bad, d, n + 1, f, lo)
    BY <1>1, <1>2, <1>5, <2>1 DEF Closed
  <2> QED
    BY <1>4, <2>2 DEF Flow, p, m
<1>6. CASE ~(r.pos >= Size[f])
  <2>1. \A i \in 1 .. n + 1 : lo + i <= Size[f]
    <3> TAKE i \in 1 .. n + 1
    <3>1. lo + i <= lo + n + 1 /\ lo + n < Size[f]
      BY <1>1, <1>2, <1>3, <1>6
    <3> QED
      BY <1>1, <1>3, <3>1
  <2>2. q.pos = lo + (n + 1) /\ Len(p) = n + 1
    BY <1>1, <1>2, <1>6
  <2>3. Streams(w, reads, q, p, sm, ver, asked, dec, bad, d, n + 1, f, lo)
    BY <1>2, <1>6, <2>1, <2>2 DEF Streams
  <2> QED
    BY <1>4, <2>3 DEF Flow, p, m
<1> QED
  BY <1>5, <1>6
---------------------------------------------------------------------------
(* Types of what a job does.                                               *)

LEMMA NewJobType ==
  ASSUME NEW k \in 0 .. NFiles, NEW listed \in BOOLEAN
  PROVE  NewJob(k, listed) \in Job
<1>1. 0 \in 0 .. MaxVersion
  BY FileTransferAssumption
<1> QED
  BY <1>1 DEF NewJob, Job, NoDigest

LEMMA InitIs ==
  ASSUME NEW r \in Job, NEW fails \in BOOLEAN
  PROVE  LET i == InitDataStream(r, fails) IN
         /\ r.file >= NFiles => i.job = [r EXCEPT !.pos = -1] /\ i.out = "none"
         /\ r.file < NFiles /\ r.pos = -1 /\ fails =>
               /\ i.job = [r EXCEPT !.file = @ + 1, !.confirmed = FALSE, !.waiting = FALSE]
               /\ i.out = "error"
         /\ r.file < NFiles /\ r.pos = -1 /\ ~fails =>
               /\ i.job = [r EXCEPT !.pos = 0, !.confirmed = FALSE, !.waiting = TRUE]
               /\ i.out = "digest"
         /\ r.file < NFiles /\ r.pos # -1 /\ ~r.confirmed /\ ~r.waiting =>
               i.job = [r EXCEPT !.waiting = TRUE] /\ i.out = "digest"
         /\ r.file < NFiles /\ r.pos # -1 /\ (r.confirmed \/ r.waiting) =>
               i.job = r /\ i.out = "none"
<1> DEFINE i == InitDataStream(r, fails)
           opened == [r EXCEPT !.pos = 0, !.confirmed = FALSE, !.waiting = FALSE]
<1>1. NFiles \in Nat /\ r.file \in 0 .. NFiles /\ r.file \in Int
  BY TransferJobAssumption DEF Job
<1>2. ASSUME r.file >= NFiles
      PROVE  i.job = [r EXCEPT !.pos = -1] /\ i.out = "none"
  <2>1. i = [job |-> [r EXCEPT !.pos = -1], out |-> "none"]
    BY <1>2 DEF InitDataStream
  <2> QED
    BY <2>1
<1>3. ASSUME r.file < NFiles, r.pos = -1, fails
      PROVE  /\ i.job = [r EXCEPT !.file = @ + 1, !.confirmed = FALSE, !.waiting = FALSE]
             /\ i.out = "error"
  <2>1. i = [job |-> [r EXCEPT !.file = @ + 1, !.confirmed = FALSE, !.waiting = FALSE], out |-> "error"]
    BY <1>1, <1>3 DEF InitDataStream, Opens
  <2> QED
    BY <2>1
<1>4. ASSUME r.file < NFiles, r.pos = -1, ~fails
      PROVE  /\ i.job = [r EXCEPT !.pos = 0, !.confirmed = FALSE, !.waiting = TRUE]
             /\ i.out = "digest"
  <2>1. ~opened.confirmed /\ ~opened.waiting
    BY DEF Job
  <2>2. i = [job |-> [opened EXCEPT !.waiting = TRUE], out |-> "digest"]
    BY <1>1, <1>4, <2>1 DEF InitDataStream, Opens
  <2>3. [opened EXCEPT !.waiting = TRUE] = [r EXCEPT !.pos = 0, !.confirmed = FALSE, !.waiting = TRUE]
    BY ZenonT(30) DEF Job
  <2> QED
    BY <2>2, <2>3
<1>5. ASSUME r.file < NFiles, r.pos # -1, ~r.confirmed, ~r.waiting
      PROVE  i.job = [r EXCEPT !.waiting = TRUE] /\ i.out = "digest"
  <2>1. i = [job |-> [r EXCEPT !.waiting = TRUE], out |-> "digest"]
    BY <1>1, <1>5 DEF InitDataStream, Opens
  <2> QED
    BY <2>1
<1>6. ASSUME r.file < NFiles, r.pos # -1, r.confirmed \/ r.waiting
      PROVE  i.job = r /\ i.out = "none"
  <2>1. i = [job |-> r, out |-> "none"]
    BY <1>1, <1>6 DEF InitDataStream, Opens
  <2> QED
    BY <2>1
<1> HIDE DEF i, opened
<1> QED
  BY <1>2, <1>3, <1>4, <1>5, <1>6, Zenon DEF i

LEMMA InitType ==
  ASSUME NEW r \in Job, NEW fails \in BOOLEAN
  PROVE  LET i == InitDataStream(r, fails) IN
         /\ i.job \in Job /\ i.out \in {"none", "digest", "error"}
         /\ i.out = "digest" => i.job.file \in Files
<1> DEFINE i == InitDataStream(r, fails)
<1>1. NFiles \in Nat /\ r.file \in 0 .. NFiles /\ r.file \in Int
  BY TransferJobAssumption DEF Job
<1>2. r.file < NFiles => r.file \in Files /\ r.file + 1 \in 0 .. NFiles
  BY <1>1 DEF Files
<1>3. /\ [r EXCEPT !.pos = -1] \in Job
      /\ r.file < NFiles => [r EXCEPT !.file = @ + 1, !.confirmed = FALSE, !.waiting = FALSE] \in Job
      /\ [r EXCEPT !.pos = 0, !.confirmed = FALSE, !.waiting = TRUE] \in Job
      /\ [r EXCEPT !.waiting = TRUE] \in Job
      /\ [r EXCEPT !.pos = 0, !.confirmed = FALSE, !.waiting = TRUE].file = r.file
      /\ [r EXCEPT !.waiting = TRUE].file = r.file
  BY <1>2, ZenonT(30) DEF Job
<1> HIDE DEF i
<1> SUFFICES /\ i.job \in Job /\ i.out \in {"none", "digest", "error"}
             /\ i.out = "digest" => i.job.file \in Files
  BY DEF i
<1>4. /\ r.file >= NFiles => i.job = [r EXCEPT !.pos = -1] /\ i.out = "none"
      /\ r.file < NFiles /\ r.pos = -1 /\ fails =>
            /\ i.job = [r EXCEPT !.file = @ + 1, !.confirmed = FALSE, !.waiting = FALSE]
            /\ i.out = "error"
      /\ r.file < NFiles /\ r.pos = -1 /\ ~fails =>
            /\ i.job = [r EXCEPT !.pos = 0, !.confirmed = FALSE, !.waiting = TRUE]
            /\ i.out = "digest"
      /\ r.file < NFiles /\ r.pos # -1 /\ ~r.confirmed /\ ~r.waiting =>
            i.job = [r EXCEPT !.waiting = TRUE] /\ i.out = "digest"
      /\ r.file < NFiles /\ r.pos # -1 /\ (r.confirmed \/ r.waiting) =>
            i.job = r /\ i.out = "none"
  BY InitIs, ZenonT(30) DEF i
<1>5. r.file >= NFiles \/ r.file < NFiles
  BY <1>1
<1> QED
  BY <1>2, <1>3, <1>4, <1>5, ZenonT(30)

LEMMA ReadType ==
  ASSUME NEW r \in Job, NEW v \in 1 .. MaxVersion, NEW fails \in BOOLEAN
  PROVE  LET i == Read(r, v, fails) IN
         /\ i.job \in Job /\ i.out \in {"none", "block", "error"} /\ i.data \in Blocks
         /\ i.out = "block" => r.file \in Files
<1>1. NFiles \in Nat /\ r.file \in 0 .. NFiles /\ r.file \in Int /\ r.pos + 1 \in Nat
      /\ v \in 0 .. MaxVersion
  BY TransferJobAssumption DEF Job
<1>2. r.file < NFiles => r.file \in Files /\ r.file + 1 \in 0 .. NFiles
  BY <1>1 DEF Files
<1>3. /\ r.file < NFiles => NextFile(r) \in Job
      /\ [r EXCEPT !.pos = @ + 1] \in Job
  BY <1>1, <1>2, ZenonT(30) DEF Job, NextFile
<1>4. <<>> \in Blocks
  BY DEF Blocks
<1>5. r.file < NFiles => <<<<r.file, v, r.pos + 1>>>> \in Blocks
  BY <1>1, <1>2 DEF Blocks
<1> QED
  BY <1>1, <1>2, <1>3, <1>4, <1>5 DEF Read

LEMMA ConfirmType ==
  ASSUME NEW w \in Job, NEW dir_, NEW c, c.offset \in Nat, w.file = c.file => c.file < NFiles
  PROVE  Confirm(w, dir_, c) \in Job
<1>1. NFiles \in Nat /\ w.file \in 0 .. NFiles
  BY TransferJobAssumption DEF Job
<1>2. w.file = c.file => w.file + 1 \in 0 .. NFiles
  BY <1>1
<1>3. /\ w.file = c.file => SetFileSkipped(w) \in Job
      /\ [w EXCEPT !.confirmed = TRUE, !.skipped = FALSE] \in Job
  BY <1>2, ZenonT(30) DEF Job, SetFileSkipped
<1>4. \A v \in Job : \A e : SetStreamOffset(v, e, c.offset) \in Job
  BY DEF Job, SetStreamOffset
<1> QED
  BY <1>3, <1>4 DEF Confirm
---------------------------------------------------------------------------
\* What one tick does to a job before it reads.
InitMessages(j, i) == IF i.out = "none" THEN <<>> ELSE <<InitMessage(j, i)>>

\* The reader opens its next file: the digest or an error is sent.
LEMMA FlowInit ==
  ASSUME NEW j, NEW w \in Job, NEW r \in Job, NEW cm \in Seq(CMsg(j)), NEW sm, NEW ver, NEW asked,
         NEW dec, NEW bad, NEW d, NEW n, NEW f, NEW lo, NEW fails \in BOOLEAN,
         ver = version[j], ver \in [Files -> 1 .. MaxVersion],
         Flow(j, w, TRUE, r, cm, sm, ver, asked, dec, bad, d, n, f, lo)
  PROVE  LET i == InitDataStream(r, fails)
             c == cm \o InitMessages(j, i)
         IN  /\ c \in Seq(CMsg(j))
             /\ Flow(j, w, TRUE, i.job, c, sm, ver, asked, dec, bad, d, n, f, lo)
             /\ Closed(w, TRUE, i.job, c, sm, asked, dec, bad, d, n, f, lo) => i.job.file = NFiles
<1> DEFINE i == InitDataStream(r, fails)
           c == cm \o InitMessages(j, i)
<1>1. NFiles \in Nat /\ r.file \in 0 .. NFiles /\ r.pos \in Nat \cup {-1}
      /\ r.confirmed \in BOOLEAN /\ r.waiting \in BOOLEAN
  BY TransferJobAssumption DEF Job
<1>2. Front(j, w, cm, ver, dec, bad, d, n, f, lo)
  BY DEF Flow
<1>3. i.job \in Job /\ i.out \in {"none", "digest", "error"} /\ (i.out = "digest" => i.job.file \in Files)
  BY InitType
<1>4. i.out # "none" => InitMessage(j, i) \in CMsg(j)
  <2>1. Error(j) \in CMsg(j)
    BY DEF Error, CMsg
  <2>2. i.out = "digest" => Digest(j, i.job.file) \in CMsg(j)
    <3>1. SUFFICES ASSUME i.out = "digest" PROVE Digest(j, i.job.file) \in CMsg(j)
      OBVIOUS
    <3>2. i.job.file \in Files /\ version[j][i.job.file] \in 0 .. MaxVersion
      BY <1>3, <3>1, FileTransferAssumption
    <3> HIDE DEF i
    <3> QED
      BY <3>2 DEF Digest, CMsg, DigestMsg
  <2> QED
    BY <2>1, <2>2 DEF InitMessage
<1>5. c = IF i.out = "none" THEN cm ELSE Append(cm, InitMessage(j, i))
  <2>1. cm \o <<>> = cm
    OBVIOUS
  <2>2. i.out # "none" => cm \o <<InitMessage(j, i)>> = Append(cm, InitMessage(j, i))
    BY <1>4
  <2> QED
    BY <2>1, <2>2 DEF InitMessages
<1>6. c \in Seq(CMsg(j))
  BY <1>4, <1>5
<1> HIDE DEF i, c
<1> SUFFICES /\ Flow(j, w, TRUE, i.job, c, sm, ver, asked, dec, bad, d, n, f, lo)
             /\ Closed(w, TRUE, i.job, c, sm, asked, dec, bad, d, n, f, lo) => i.job.file = NFiles
  BY <1>6, ZenonT(30) DEF i, c
<1>7. d \in 0 .. 1 /\ n \in Nat /\ lo \in Nat /\ f \in Files
  BY <1>2 DEF Front
<1>8. CASE Broken(cm, sm, asked, d, n)
  <2>1. Front(j, w, c, ver, dec, bad, d, n, f, lo) /\ Broken(c, sm, asked, d, n)
    BY <1>2, <1>4, <1>5, <1>8, FlowBroken
  <2>2. Len(c) # d + n
    BY <2>1, <1>6, <1>7 DEF Broken
  <2> QED
    BY <2>1, <2>2 DEF Flow, Closed
<1>9. CASE Closed(w, TRUE, r, cm, sm, asked, dec, bad, d, n, f, lo)
  <2>0. Len(cm) = d + n /\ sm = <<>> /\ asked = {} /\ ~r.confirmed /\ ~r.waiting /\ r.pos = -1
    BY <1>9 DEF Closed
  <2>1. CASE r.file >= NFiles
    <3>1. i.job = [r EXCEPT !.pos = -1] /\ i.out = "none"
      BY <2>1, InitIs, ZenonT(30) DEF i
    <3>2. [r EXCEPT !.pos = -1] = r
      BY <2>0 DEF Job
    <3>3. i.job = r /\ c = cm
      BY <3>1, <3>2, <1>5
    <3>4. r.file = NFiles
      BY <1>1, <2>1, SMTT(30)
    <3> QED
      BY <3>3, <3>4, ZenonT(30)
  <2>2. CASE r.file < NFiles /\ fails
    <3>1. i.out = "error"
      BY <2>0, <2>2, InitIs, ZenonT(30) DEF i
    <3>2. c = Append(cm, Error(j)) /\ Error(j) \in CMsg(j) /\ Error(j).t = "error"
      BY <3>1, <1>5, <1>4 DEF InitMessage, Error
    <3>3. Front(j, w, c, ver, dec, bad, d, n, f, lo) /\ Broken(c, sm, asked, d, n)
      BY <1>2, <2>0, <3>2, FlowBreaks, ZenonT(30)
    <3>4. Len(c) # d + n
      BY <3>3, <1>6, <1>7 DEF Broken
    <3> QED
      BY <3>3, <3>4 DEF Flow, Closed
  <2>3. CASE r.file < NFiles /\ ~fails
    <3>1. i.job = [r EXCEPT !.pos = 0, !.confirmed = FALSE, !.waiting = TRUE] /\ i.out = "digest"
      BY <2>0, <2>3, InitIs, ZenonT(30) DEF i
    <3>2. i.job.file = r.file /\ i.job.waiting /\ ~i.job.confirmed /\ i.job.pos = 0
      BY <3>1 DEF Job
    <3>3. c = Append(cm, Dig(j, r.file, ver)) /\ Dig(j, r.file, ver) \in CMsg(j)
      BY <3>1, <3>2, <1>5, <1>4 DEF InitMessage, Digest, Dig
    <3>4. Flow(j, w, TRUE, i.job, c, sm, ver, asked, dec, bad, d, n, f, lo)
      BY <1>2, <1>9, <2>3, <3>2, <3>3, FlowDigest, ZenonT(30)
    <3> QED
      BY <3>2, <3>4, ZenonT(30) DEF Closed
  <2>4. r.file >= NFiles \/ r.file < NFiles
    BY <1>1
  <2> QED
    BY <2>1, <2>2, <2>3, <2>4, Zenon
<1>10. CASE Waits(j, w, TRUE, r, cm, sm, ver, asked, dec, bad, d, n, f, lo)
            \/ Streams(w, TRUE, r, cm, sm, ver, asked, dec, bad, d, n, f, lo)
  <2>1. r.waiting /\ r.pos # -1 /\ r.file < NFiles
    BY <1>1, <1>7, <1>10, SMTT(30) DEF Waits, Streams, Files
  <2>2. i.job = r /\ i.out = "none"
    BY <2>1, InitIs, ZenonT(30) DEF i
  <2>3. c = cm
    BY <2>2, <1>5
  <2> QED
    BY <2>1, <2>2, <2>3, ZenonT(30) DEF Closed
<1>11. ~Over(j, w, TRUE, cm, sm, asked, dec, bad, d, n, f, lo)
  BY DEF Over
<1> QED
  BY <1>8, <1>9, <1>10, <1>11, ZenonT(30) DEF Flow

\* What the first job of a tick reads.
LEMMA ReadIs ==
  ASSUME NEW r \in Job, NEW v, NEW fails \in BOOLEAN
  PROVE  LET i == Read(r, v, fails) IN
         /\ ~r.confirmed \/ r.file >= NFiles => i.job = r /\ i.out = "none"
         /\ r.confirmed /\ r.file < NFiles /\ fails => i.job = NextFile(r) /\ i.out = "error"
         /\ r.confirmed /\ r.file < NFiles /\ ~fails /\ r.pos >= Size[r.file] =>
               i.job = NextFile(r) /\ i.out = "block" /\ i.data = <<>>
         /\ r.confirmed /\ r.file < NFiles /\ ~fails /\ ~(r.pos >= Size[r.file]) =>
               /\ i.job = [r EXCEPT !.pos = @ + 1] /\ i.out = "block"
               /\ i.data = <<<<r.file, v, r.pos + 1>>>>
<1> DEFINE i == Read(r, v, fails)
<1>1. NFiles \in Nat /\ r.file \in 0 .. NFiles
  BY TransferJobAssumption DEF Job
<1>2. ASSUME ~r.confirmed \/ r.file >= NFiles
      PROVE  i.job = r /\ i.out = "none"
  <2>1. i = [job |-> r, out |-> "none", data |-> <<>>]
    BY <1>2 DEF Read
  <2> QED
    BY <2>1
<1>3. ASSUME r.confirmed, r.file < NFiles, fails
      PROVE  i.job = NextFile(r) /\ i.out = "error"
  <2>1. i = [job |-> NextFile(r), out |-> "error", data |-> <<>>]
    BY <1>1, <1>3 DEF Read
  <2> QED
    BY <2>1
<1>4. ASSUME r.confirmed, r.file < NFiles, ~fails, r.pos >= Size[r.file]
      PROVE  i.job = NextFile(r) /\ i.out = "block" /\ i.data = <<>>
  <2>1. i = [job |-> NextFile(r), out |-> "block", data |-> <<>>]
    BY <1>1, <1>4 DEF Read
  <2> QED
    BY <2>1
<1>5. ASSUME r.confirmed, r.file < NFiles, ~fails, ~(r.pos >= Size[r.file])
      PROVE  /\ i.job = [r EXCEPT !.pos = @ + 1] /\ i.out = "block"
             /\ i.data = <<<<r.file, v, r.pos + 1>>>>
  <2>1. i = [job |-> [r EXCEPT !.pos = @ + 1], out |-> "block",
             data |-> <<<<r.file, v, r.pos + 1>>>>]
    BY <1>1, <1>5 DEF Read
  <2> QED
    BY <2>1
<1> HIDE DEF i
<1> QED
  BY <1>2, <1>3, <1>4, <1>5, Zenon DEF i

\* The type of what is read, and the one message that is sent at most.
LEMMA ReadMessageType ==
  ASSUME NEW j, NEW r \in Job, NEW fails \in BOOLEAN, version[j] \in [Files -> 1 .. MaxVersion]
  PROVE  LET i == ReadNow(j, r, fails) IN
         /\ i.job \in Job /\ i.out \in {"none", "block", "error"}
         /\ ReadMessage(j, r, i) = <<>> \/ \E m \in CMsg(j) : ReadMessage(j, r, i) = <<m>>
<1> DEFINE g == IF r.file < NFiles THEN r.file ELSE 0
           i == ReadNow(j, r, fails)
<1>1. NFiles \in Nat \ {0} /\ r.file \in 0 .. NFiles
  BY TransferJobAssumption DEF Job
<1>2. g \in Files
  BY <1>1 DEF Files
<1> HIDE DEF g
<1>3. version[j][g] \in 1 .. MaxVersion
  BY <1>2
<1>4. i = Read(r, version[j][g], fails)
  BY DEF ReadNow, g
<1> HIDE DEF i
<1>5. i.job \in Job /\ i.out \in {"none", "block", "error"} /\ i.data \in Blocks
      /\ (i.out = "block" => r.file \in Files)
  BY <1>3, <1>4, ReadType
<1>6. Error(j) \in CMsg(j) /\ Done(j) \in CMsg(j)
  BY DEF Error, Done, CMsg
<1>7. i.out = "block" => Block(j, r.file, i.data) \in CMsg(j)
  BY <1>5 DEF Block, CMsg, BlockMsg
<1>8. ReadMessage(j, r, i) = <<>> \/ \E m \in CMsg(j) : ReadMessage(j, r, i) = <<m>>
  <2>1. CASE i.out = "block"
    BY <2>1, <1>7 DEF ReadMessage
  <2>2. CASE i.out = "error"
    BY <2>2, <1>6 DEF ReadMessage
  <2>3. CASE i.out = "none"
    BY <2>3, <1>6 DEF ReadMessage
  <2> QED
    BY <1>5, <2>1, <2>2, <2>3
<1> QED
  BY <1>5, <1>8 DEF i

\* The job at the head of a tick reads: a block, an error, or the end.
LEMMA FlowReads ==
  ASSUME NEW j, NEW w \in Job, NEW r \in Job, NEW cm \in Seq(CMsg(j)), NEW sm, NEW ver, NEW asked,
         NEW dec, NEW bad, NEW d, NEW n, NEW f, NEW lo, NEW fails \in BOOLEAN, NEW reads2 \in BOOLEAN,
         ver = version[j], ver \in [Files -> 1 .. MaxVersion],
         Flow(j, w, TRUE, r, cm, sm, ver, asked, dec, bad, d, n, f, lo),
         Closed(w, TRUE, r, cm, sm, asked, dec, bad, d, n, f, lo) => r.file = NFiles,
         Finishes(ReadNow(j, r, fails)) => ~reads2,
         ~Finishes(ReadNow(j, r, fails)) /\ ReadNow(j, r, fails).out # "error" => reads2
  PROVE  LET i == ReadNow(j, r, fails)
             c == cm \o ReadMessage(j, r, i)
         IN  \E k \in Nat : Flow(j, w, reads2, i.job, c, sm, ver, asked, dec, bad, d, k, f, lo)
<1> DEFINE i == ReadNow(j, r, fails)
           c == cm \o ReadMessage(j, r, i)
           v == ver[IF r.file < NFiles THEN r.file ELSE 0]
<1>1. NFiles \in Nat /\ r.file \in 0 .. NFiles /\ r.pos \in Nat \cup {-1}
      /\ r.confirmed \in BOOLEAN /\ r.waiting \in BOOLEAN
  BY TransferJobAssumption DEF Job
<1>2. Front(j, w, cm, ver, dec, bad, d, n, f, lo)
  BY DEF Flow
<1>3. d \in 0 .. 1 /\ n \in Nat /\ lo \in Nat /\ f \in Files
  BY <1>2 DEF Front
<1>4. i = Read(r, v, fails)
  BY DEF ReadNow
<1>5. i.job \in Job /\ i.out \in {"none", "block", "error"}
      /\ (ReadMessage(j, r, i) = <<>> \/ \E m \in CMsg(j) : ReadMessage(j, r, i) = <<m>>)
  BY ReadMessageType
<1>6. cm \o <<>> = cm /\ \A m \in CMsg(j) : cm \o <<m>> = Append(cm, m)
  OBVIOUS
<1>7. /\ Finishes(i) => ~reads2
      /\ ~Finishes(i) /\ i.out # "error" => reads2
  OBVIOUS
<1> SUFFICES \E k \in Nat : Flow(j, w, reads2, i.job, c, sm, ver, asked, dec, bad, d, k, f, lo)
  OBVIOUS
<1> HIDE DEF i, v
<1>8. CASE Broken(cm, sm, asked, d, n)
  <2>1. Front(j, w, c, ver, dec, bad, d, n, f, lo) /\ Broken(c, sm, asked, d, n)
    <3>1. CASE ReadMessage(j, r, i) = <<>>
      BY <1>2, <1>6, <1>8, <3>1
    <3>2. CASE \E m \in CMsg(j) : ReadMessage(j, r, i) = <<m>>
      BY <1>2, <1>6, <1>8, <3>2, FlowBroken, ZenonT(30)
    <3> QED
      BY <1>5, <3>1, <3>2
  <2>2. Flow(j, w, reads2, i.job, c, sm, ver, asked, dec, bad, d, n, f, lo)
    BY <2>1 DEF Flow
  <2> QED
    BY <2>2, <1>3
<1>9. CASE Closed(w, TRUE, r, cm, sm, asked, dec, bad, d, n, f, lo)
  <2>1. Len(cm) = d + n /\ sm = <<>> /\ asked = {} /\ ~r.confirmed /\ ~r.waiting /\ r.file = NFiles
    BY <1>9 DEF Closed
  <2>2. i.job = r /\ i.out = "none"
    BY <2>1, <1>4, ReadIs, ZenonT(30)
  <2>3. Finishes(i) /\ ~reads2
    BY <1>7, <2>1, <2>2 DEF Finishes, JobCompleted
  <2>4. ReadMessage(j, r, i) = IF JobSkipped(i.job) THEN <<Error(j)>> ELSE <<Done(j)>>
    BY <2>2, <2>3 DEF Finishes, ReadMessage
  <2>5. Error(j) \in CMsg(j) /\ Done(j) \in CMsg(j) /\ Error(j).t = "error"
    BY DEF Error, Done, CMsg
  <2>6. CASE JobSkipped(i.job)
    <3>1. c = Append(cm, Error(j))
      BY <1>6, <2>4, <2>5, <2>6
    <3>2. Front(j, w, c, ver, dec, bad, d, n, f, lo) /\ Broken(c, sm, asked, d, n)
      BY <1>2, <2>1, <2>5, <3>1, FlowBreaks, ZenonT(30)
    <3>3. Flow(j, w, reads2, i.job, c, sm, ver, asked, dec, bad, d, n, f, lo)
      BY <3>2 DEF Flow
    <3> QED
      BY <3>3, <1>3
  <2>7. CASE ~JobSkipped(i.job)
    <3>1. c = Append(cm, Done(j))
      BY <1>6, <2>4, <2>5, <2>7
    <3>2. Flow(j, w, reads2, i.job, c, sm, ver, asked, dec, bad, d, n, f, lo)
      BY <1>2, <1>9, <2>1, <2>3, <2>5, <3>1, FlowOver, ZenonT(30)
    <3> QED
      BY <3>2, <1>3
  <2> QED
    BY <2>6, <2>7
<1>10. CASE Waits(j, w, TRUE, r, cm, sm, ver, asked, dec, bad, d, n, f, lo)
  <2>1. ~r.confirmed /\ r.waiting
    BY <1>10 DEF Waits
  <2>2. i.job = r /\ i.out = "none"
    BY <2>1, <1>4, ReadIs, ZenonT(30)
  <2>3. ~Finishes(i) /\ ReadMessage(j, r, i) = <<>>
    BY <2>1, <2>2 DEF Finishes, JobCompleted, ReadMessage
  <2>4. reads2 = TRUE /\ c = cm
    BY <2>2, <2>3, <1>6, <1>7
  <2>5. Flow(j, w, reads2, i.job, c, sm, ver, asked, dec, bad, d, n, f, lo)
    BY <2>2, <2>4, ZenonT(30)
  <2> QED
    BY <2>5, <1>3
<1>11. CASE Streams(w, TRUE, r, cm, sm, ver, asked, dec, bad, d, n, f, lo)
  <2>1. r.confirmed /\ r.waiting /\ r.file = f /\ r.pos = lo + n /\ d = 0 /\ Len(cm) = n
        /\ sm = <<>> /\ asked = {}
    BY <1>11 DEF Streams
  <2>2. r.file < NFiles /\ v = ver[f]
    BY <1>1, <1>3, <2>1 DEF Files, v
  <2>3. CASE fails
    <3>1. i.out = "error"
      BY <2>1, <2>2, <2>3, <1>4, ReadIs, ZenonT(30)
    <3>2. ReadMessage(j, r, i) = <<Error(j)>> /\ Error(j) \in CMsg(j) /\ Error(j).t = "error"
      BY <3>1 DEF ReadMessage, Error, CMsg
    <3>3. c = Append(cm, Error(j)) /\ Len(cm) = d + n
      BY <1>3, <1>6, <2>1, <3>2
    <3>4. Front(j, w, c, ver, dec, bad, d, n, f, lo) /\ Broken(c, sm, asked, d, n)
      <4>1. sm = <<>> /\ asked = {}
        BY <2>1
      <4> HIDE DEF c
      <4> QED
        BY <1>2, <3>2, <3>3, <4>1, FlowBreaks, ZenonT(30)
    <3>5. Flow(j, w, reads2, i.job, c, sm, ver, asked, dec, bad, d, n, f, lo)
      BY <3>4 DEF Flow
    <3> QED
      BY <3>5, <1>3
  <2>4. CASE ~fails
    <3>0. /\ r.pos >= Size[r.file] => i.out = "block" /\ i.data = <<>>
          /\ ~(r.pos >= Size[r.file]) => i.out = "block" /\ i.data = <<<<r.file, v, r.pos + 1>>>>
      <4>1. r.confirmed /\ r.file < NFiles /\ ~fails
        BY <2>1, <2>2, <2>4
      <4> QED
        BY <4>1, <1>4, ReadIs, ZenonT(30)
    <3>1. i.out = "block" /\ i.data = IF r.pos >= Size[r.file] THEN <<>> ELSE <<<<r.file, v, r.pos + 1>>>>
      BY <3>0, Zenon
    <3>2. i.job = IF r.pos >= Size[r.file] THEN NextFile(r) ELSE [r EXCEPT !.pos = @ + 1]
      BY <2>1, <2>2, <2>4, <1>4, ReadIs
    <3>3. Size[f] \in Nat
      BY <1>3, TransferJobAssumption DEF Files
    <3>4. Block(j, r.file, i.data) = Blk(j, f, lo + n + 1, ver)
      <4>1. r.pos >= Size[r.file] <=> lo + n + 1 > Size[f]
        BY <2>1, <3>3, <1>3
      <4> QED
        BY <2>1, <2>2, <3>1, <4>1, ZenonT(30) DEF Block, Blk
    <3>5. ReadMessage(j, r, i) = <<Blk(j, f, lo + n + 1, ver)>> /\ Blk(j, f, lo + n + 1, ver) \in CMsg(j)
      <4>1. ReadMessage(j, r, i) = <<Blk(j, f, lo + n + 1, ver)>>
        BY <3>1, <3>4 DEF ReadMessage
      <4>2. PICK m \in CMsg(j) : ReadMessage(j, r, i) = <<m>>
        BY <1>5, <4>1
      <4>3. m = Blk(j, f, lo + n + 1, ver)
        BY <4>1, <4>2
      <4> QED
        BY <4>1, <4>3
    <3>6. c = Append(cm, Blk(j, f, lo + n + 1, ver))
      BY <1>6, <3>5
    <3>7. IF r.pos >= Size[f]
          THEN i.job.file = r.file + 1 /\ i.job.pos = -1 /\ ~i.job.confirmed /\ ~i.job.waiting
          ELSE i.job.file = r.file /\ i.job.pos = r.pos + 1 /\ i.job.confirmed /\ i.job.waiting
      BY <2>1, <3>2 DEF NextFile, Job
    <3>8. ~Finishes(i)
      BY <3>1 DEF Finishes
    <3>9. reads2 = TRUE
      BY <3>1, <3>8, <1>7
    <3>10. Flow(j, w, reads2, i.job, c, sm, ver, asked, dec, bad, d, n + 1, f, lo)
      BY <1>2, <1>11, <3>5, <3>6, <3>7, <3>9, FlowRead, ZenonT(30)
    <3> QED
      BY <3>10, <1>3
  <2> QED
    BY <2>3, <2>4
<1>12. ~Over(j, w, TRUE, cm, sm, asked, dec, bad, d, n, f, lo)
  BY DEF Over
<1> QED
  BY <1>8, <1>9, <1>10, <1>11, <1>12, ZenonT(30) DEF Flow

\* The connection manager gives a job up whose next file does not open.
LEMMA FlowGivesUp ==
  ASSUME NEW j, NEW w \in Job, NEW r \in Job, NEW cm \in Seq(CMsg(j)), NEW sm, NEW ver, NEW asked,
         NEW dec, NEW bad, NEW d, NEW n, NEW f, NEW lo, NEW reads2 \in BOOLEAN, Opens(r),
         Flow(j, w, TRUE, r, cm, sm, ver, asked, dec, bad, d, n, f, lo)
  PROVE  Flow(j, w, reads2, r, Append(cm, Error(j)), sm, ver, asked, dec, bad, d, n, f, lo)
<1>1. Front(j, w, cm, ver, dec, bad, d, n, f, lo)
  BY DEF Flow
<1>2. d \in 0 .. 1 /\ n \in Nat /\ lo \in Nat /\ f \in Files
  BY <1>1 DEF Front
<1>3. r.pos = -1 /\ Error(j) \in CMsg(j) /\ Error(j).t = "error"
  BY DEF Opens, Error, CMsg
<1>4. ~Waits(j, w, TRUE, r, cm, sm, ver, asked, dec, bad, d, n, f, lo)
  BY <1>3 DEF Waits
<1>5. ~Streams(w, TRUE, r, cm, sm, ver, asked, dec, bad, d, n, f, lo)
  BY <1>2, <1>3 DEF Streams
<1>6. ~Over(j, w, TRUE, cm, sm, asked, dec, bad, d, n, f, lo)
  BY DEF Over
<1>7. Broken(cm, sm, asked, d, n) \/ (Len(cm) = d + n /\ sm = <<>> /\ asked = {})
  BY <1>4, <1>5, <1>6, ZenonT(30) DEF Flow, Closed
<1>8. /\ Front(j, w, Append(cm, Error(j)), ver, dec, bad, d, n, f, lo)
      /\ Broken(Append(cm, Error(j)), sm, asked, d, n)
  BY <1>1, <1>3, <1>7, FlowBroken, FlowBreaks
<1> QED
  BY <1>8 DEF Flow
---------------------------------------------------------------------------
(* What a job does to its directory.                                       *)

Dirs == [Files -> Entry]
Finished(e) == [final |-> IF e.part = NoFile THEN e.final ELSE e.part,
                part |-> NoFile, digest |-> NoDigest]
Begins(w, f) == f # w.file \/ w.pos = -1

LEMMA NoFileType ==
  NoFile \in Blocks /\ <<>> \in Blocks /\ NoDigest \in 0 .. MaxVersion
  /\ Len(NoFile) = 1 /\ NoFile[1] = <<0, 0, 0>>
<1>1. 0 \in Files /\ 0 \in 0 .. MaxVersion
  BY TransferJobAssumption, FileTransferAssumption DEF Files
<1> QED
  BY <1>1 DEF NoFile, NoDigest, Blocks

LEMMA ModifyTimeIs ==
  ASSUME NEW w \in Job, NEW D \in Dirs
  PROVE  /\ ModifyTime(w, D) \in Dirs
         /\ ~(w.listed /\ w.file < NFiles) => ModifyTime(w, D) = D
         /\ \A g \in Files : w.listed /\ w.file < NFiles =>
               ModifyTime(w, D)[g] = IF g = w.file THEN Finished(D[g]) ELSE D[g]
<1>1. NFiles \in Nat /\ w.file \in 0 .. NFiles
  BY TransferJobAssumption DEF Job
<1>2. CASE ~(w.listed /\ w.file < NFiles)
  BY <1>2 DEF ModifyTime, InList
<1>3. CASE w.listed /\ w.file < NFiles
  <2>1. w.file \in Files
    BY <1>1, <1>3 DEF Files
  <2>2. ModifyTime(w, D) = [D EXCEPT ![w.file] = Finished(D[w.file])]
    BY <1>3 DEF ModifyTime, InList, Finished
  <2>3. Finished(D[w.file]) \in Entry
    <3>1. D[w.file] \in Entry
      BY <2>1 DEF Dirs
    <3> QED
      BY <3>1, NoFileType DEF Finished, Entry, Blocks
  <2> QED
    BY <1>3, <2>1, <2>2, <2>3 DEF Dirs
<1> QED
  BY <1>2, <1>3

LEMMA RemoveIs ==
  ASSUME NEW w \in Job, NEW D \in Dirs
  PROVE  /\ RemoveDownloadFile(w, D) \in Dirs
         /\ ~w.listed => RemoveDownloadFile(w, D) = D
         /\ \A g \in Files :
               /\ RemoveDownloadFile(w, D)[g].final = D[g].final
               /\ \/ RemoveDownloadFile(w, D)[g] = D[g]
                  \/ RemoveDownloadFile(w, D)[g].part = NoFile
<1>1. NFiles \in Nat /\ w.file \in 0 .. NFiles
  BY TransferJobAssumption DEF Job
<1>2. CASE ~(w.listed /\ w.file < NFiles)
  BY <1>2 DEF RemoveDownloadFile, InList
<1>3. CASE w.listed /\ w.file < NFiles
  <2> DEFINE e == [D[w.file] EXCEPT !.part = NoFile, !.digest = NoDigest]
  <2>1. w.file \in Files
    BY <1>1, <1>3 DEF Files
  <2>2. RemoveDownloadFile(w, D) = [D EXCEPT ![w.file] = e]
    BY <1>3 DEF RemoveDownloadFile, InList
  <2>3. e \in Entry /\ e.final = D[w.file].final /\ e.part = NoFile
    <3>1. D[w.file] \in Entry
      BY <2>1 DEF Dirs
    <3> QED
      BY <3>1, NoFileType, ZenonT(30) DEF Entry, Blocks
  <2> HIDE DEF e
  <2> QED
    BY <1>3, <2>1, <2>2, <2>3 DEF Dirs
<1> QED
  BY <1>2, <1>3

\* A block goes to the end of the part.
LEMMA OverwriteIs ==
  ASSUME NEW content \in Blocks, NEW data \in Blocks
  PROVE  Overwrite(content, Len(content), data) = content \o data
<1> DEFINE E == Files \X (0 .. MaxVersion) \X Nat
<1>1. content \in Seq(E) /\ data \in Seq(E) /\ Len(content) \in Nat /\ Len(data) \in Nat
  BY DEF Blocks
<1> HIDE DEF E
<1>2. SubSeq(content, 1, Len(content)) = content
  BY <1>1
<1>3. SubSeq(content, Len(content) + Len(data) + 1, Len(content)) = <<>>
  BY <1>1
<1>4. content \o data \in Seq(E)
  BY <1>1
<1>5. (content \o data) \o <<>> = content \o data
  BY <1>4
<1> QED
  BY <1>2, <1>3, <1>5, ZenonT(30) DEF Overwrite

\* What writing data of file f makes of the job and the directory.
Written(w, D, f, data, x) ==
    /\ x.job = [w EXCEPT !.file = f, !.pos = At(w, f) + Len(data)]
    /\ x.job \in Job /\ x.dir \in Dirs
    /\ \A g \in Files \ {f} :
          x.dir[g] = IF Begins(w, f) /\ g = w.file THEN Finished(D[g]) ELSE D[g]
    /\ x.dir[f].final = IF Begins(w, f) /\ f = w.file THEN Finished(D[f]).final ELSE D[f].final
    /\ x.dir[f].part = IF Begins(w, f) THEN data ELSE D[f].part \o data
    /\ x.dir[f].digest = IF Begins(w, f) THEN w.digest ELSE D[f].digest

LEMMA WriteIs ==
  ASSUME NEW w \in Job, NEW D \in Dirs, NEW f \in Files, NEW data \in Blocks, w.listed,
         w.file = f /\ w.pos >= 0 => Len(D[f].part) = w.pos
  PROVE  Written(w, D, f, data, Write(w, D, f, data))
<1> DEFINE x == Write(w, D, f, data)
           o == Begins(w, f)
           fin == IF o THEN ModifyTime(w, D) ELSE D
           st == IF o THEN [fin EXCEPT ![f] = [@ EXCEPT !.part = <<>>, !.digest = w.digest]] ELSE fin
           pos == IF o THEN 0 ELSE w.pos
<1>1. NFiles \in Nat /\ w.file \in 0 .. NFiles /\ f < NFiles /\ f \in 0 .. NFiles /\ w.pos \in Nat \cup {-1}
      /\ w.digest \in 0 .. MaxVersion /\ f \in Int
  BY TransferJobAssumption DEF Job, Files
<1>2. /\ x.job = [w EXCEPT !.file = f, !.pos = pos + Len(data)]
      /\ x.dir = [st EXCEPT ![f].part = Overwrite(st[f].part, pos, data)]
  <2>1. InList(w, f)
    BY <1>1 DEF InList
  <2>2. x = [job |-> [w EXCEPT !.file = f, !.pos = pos + Len(data)],
             dir |-> [st EXCEPT ![f].part = Overwrite(st[f].part, pos, data)]]
    BY <2>1 DEF Write, Begins
  <2> HIDE DEF x, st, pos
  <2> QED
    BY <2>2
<1>3. pos = At(w, f) /\ pos \in Nat
  BY <1>1 DEF At, Begins
<1>4. fin \in Dirs /\ \A g \in Files : fin[g] = IF o /\ g = w.file THEN Finished(D[g]) ELSE D[g]
  <2>1. CASE o
    <3>1. CASE w.file < NFiles
      BY <2>1, <3>1, ModifyTimeIs
    <3>2. CASE ~(w.file < NFiles)
      <4>1. \A g \in Files : g # w.file
        BY <1>1, <3>2 DEF Files
      <4> QED
        BY <2>1, <3>2, <4>1, ModifyTimeIs
    <3> QED
      BY <3>1, <3>2
  <2>2. CASE ~o
    BY <2>2
  <2> QED
    BY <2>1, <2>2
<1> HIDE DEF x, fin, o
<1>5. fin[f] \in Entry
  BY <1>4 DEF Dirs
<1>6. /\ st \in Dirs /\ st[f].final = fin[f].final
      /\ st[f].part = IF o THEN <<>> ELSE fin[f].part
      /\ st[f].digest = IF o THEN w.digest ELSE fin[f].digest
      /\ \A g \in Files \ {f} : st[g] = fin[g]
  <2> DEFINE e == [fin[f] EXCEPT !.part = <<>>, !.digest = w.digest]
  <2>1. e \in Entry /\ e.final = fin[f].final /\ e.part = <<>> /\ e.digest = w.digest
    BY <1>1, <1>5, NoFileType, ZenonT(30) DEF Entry, Blocks
  <2>2. st = IF o THEN [fin EXCEPT ![f] = e] ELSE fin
    OBVIOUS
  <2> HIDE DEF e, st
  <2>3. CASE o
    <3>1. st = [fin EXCEPT ![f] = e]
      BY <2>2, <2>3
    <3>2. st \in Dirs
      BY <3>1, <2>1, <1>4 DEF Dirs
    <3>3. st[f] = e /\ \A g \in Files \ {f} : st[g] = fin[g]
      BY <3>1, <1>4 DEF Dirs
    <3> QED
      BY <2>1, <2>3, <3>2, <3>3
  <2>4. CASE ~o
    BY <2>2, <2>4, <1>4
  <2> QED
    BY <2>3, <2>4
<1>7. st[f] \in Entry
  BY <1>6, ZenonT(30) DEF Dirs
<1> DEFINE ov == Overwrite(st[f].part, pos, data)
<1>8. ov = IF o THEN data ELSE D[f].part \o data
  <2>1. CASE o
    <3>1. Overwrite(<<>>, 0, data) = <<>> \o data
      <4>1. Len(<<>>) = 0
        OBVIOUS
      <4> QED
        BY <4>1, NoFileType, OverwriteIs, ZenonT(30)
    <3>2. <<>> \o data = data
      BY DEF Blocks
    <3> QED
      BY <2>1, <3>1, <3>2, <1>6
  <2>2. CASE ~o
    <3>1. f = w.file /\ w.pos # -1
      BY <2>2 DEF o, Begins
    <3>2. Len(D[f].part) = w.pos /\ D[f].part \in Blocks
      BY <3>1, <1>1 DEF Dirs, Entry, Blocks
    <3>3. fin[f] = D[f]
      BY <1>4, <2>2
    <3> QED
      BY <2>2, <3>2, <3>3, <1>6, OverwriteIs, ZenonT(30)
  <2> QED
    BY <2>1, <2>2
<1>9. ov \in Blocks
  <2>1. D[f].part \in Blocks
    BY DEF Dirs, Entry, Blocks
  <2>2. D[f].part \o data \in Blocks
    BY <2>1 DEF Blocks
  <2> HIDE DEF ov
  <2> QED
    BY <1>8, <2>2
<1> HIDE DEF ov
<1>10. x.dir = [st EXCEPT ![f].part = ov]
  BY <1>2 DEF ov
<1> DEFINE e == [st[f] EXCEPT !.part = ov]
<1>11. e \in Entry /\ e.final = st[f].final /\ e.part = ov /\ e.digest = st[f].digest
  BY <1>7, <1>9, ZenonT(30) DEF Entry, Blocks
<1>12. x.dir = [st EXCEPT ![f] = e]
  BY <1>10
<1> HIDE DEF e, st
<1>13. x.dir \in Dirs /\ x.dir[f] = e /\ \A g \in Files \ {f} : x.dir[g] = st[g]
  BY <1>6, <1>11, <1>12 DEF Dirs
<1>14. x.job = [w EXCEPT !.file = f, !.pos = At(w, f) + Len(data)]
  BY <1>2, <1>3, ZenonT(30)
<1>15. x.job \in Job
  <2>1. At(w, f) + Len(data) \in Nat
    <3>1. Len(data) \in Nat
      BY DEF Blocks
    <3> QED
      BY <3>1, <1>3
  <2> QED
    BY <1>14, <2>1, <1>1, ZenonT(30) DEF Job
<1>16. \A g \in Files \ {f} : x.dir[g] = IF o /\ g = w.file THEN Finished(D[g]) ELSE D[g]
  BY <1>4, <1>6, <1>13
<1>17. x.dir[f].final = IF o /\ f = w.file THEN Finished(D[f]).final ELSE D[f].final
  BY <1>4, <1>6, <1>11, <1>13
<1>18. x.dir[f].part = IF o THEN data ELSE D[f].part \o data
  BY <1>8, <1>11, <1>13
<1>19. x.dir[f].digest = IF o THEN w.digest ELSE D[f].digest
  <2>1. ~o => fin[f] = D[f]
    BY <1>4
  <2> QED
    BY <2>1, <1>6, <1>11, <1>13
<1> QED
  BY <1>13, <1>14, <1>15, <1>16, <1>17, <1>18, <1>19, Zenon DEF x, o, Written
---------------------------------------------------------------------------
(* What stands in the directory of a download.                             *)

\* A part that is complete is the source.
LEMMA PartIsSource ==
  ASSUME NEW D \in Dirs, NEW ver \in [Files -> 1 .. MaxVersion], NEW bad, NEW g \in Files,
         Parts(D, ver, bad), D[g].part # NoFile, D[g].digest = ver[g], g \notin bad,
         Len(D[g].part) = Size[g]
  PROVE  D[g].part = Source(g, ver[g])
<1> DEFINE p == D[g].part
<1>1. p \in Seq(Files \X (0 .. MaxVersion) \X Nat) /\ Size[g] \in Nat
  BY TransferJobAssumption, ZenonT(30) DEF Dirs, Entry, Files
<1>2. \A i \in 1 .. Len(p) : p[i] = <<g, ver[g], i>>
  BY DEF Parts
<1> HIDE DEF p
<1>3. p = [i \in 1 .. Len(p) |-> p[i]]
  BY <1>1
<1>4. [i \in 1 .. Len(p) |-> p[i]] = [i \in 1 .. Len(p) |-> <<g, ver[g], i>>]
  BY <1>2
<1> QED
  BY <1>3, <1>4, ZenonT(30) DEF Source, p

\* The writer finishes a complete file: it is whole, or misplaced.
LEMMA FinishedIsWhole ==
  ASSUME NEW w \in Job, NEW D \in Dirs, NEW ver \in [Files -> 1 .. MaxVersion], NEW dec, NEW bad,
         Parts(D, ver, bad), Open(TRUE, w, D, ver), Complete(w, dec, bad)
  PROVE  /\ w.file \in Files /\ dec[w.file] = "copy"
         /\ IsWhole(w.file, Finished(D[w.file]), ver) \/ w.file \in bad
<1>1. /\ w.file \in Files /\ D[w.file].part # NoFile
      /\ D[w.file].digest = ver[w.file] /\ Len(D[w.file].part) = w.pos
  BY TransferJobAssumption DEF Complete, Open, Job, Files
<1>2. SUFFICES ASSUME w.file \notin bad
               PROVE  IsWhole(w.file, Finished(D[w.file]), ver)
  BY <1>1 DEF Complete
<1>3. D[w.file].part = Source(w.file, ver[w.file])
  BY <1>1, <1>2, PartIsSource DEF Complete
<1>4. ver[w.file] \in 1 .. ver[w.file]
  BY <1>1
<1>5. Finished(D[w.file]).final = Source(w.file, ver[w.file])
  BY <1>1, <1>3 DEF Finished
<1> QED
  BY <1>4, <1>5 DEF IsWhole

\* The files of which the final content may change.
Untouched(D, D2, dec) ==
    \A g \in Files : dec[g] # "copy" => D2[g].final = D[g].final

LEMMA FinishedVersions ==
  ASSUME NEW D \in Dirs, NEW ver \in [Files -> 1 .. MaxVersion], NEW bad, NEW g \in Files,
         Parts(D, ver, bad)
  PROVE  /\ \A i \in DOMAIN Finished(D[g]).part : Finished(D[g]).part[i][2] <= ver[g]
         /\ \A i \in DOMAIN Finished(D[g]).final : Finished(D[g]).final[i][2] <= ver[g]
<1>1. \A i \in DOMAIN NoFile : NoFile[i][2] <= ver[g]
  BY DEF NoFile
<1>2. \A i \in DOMAIN D[g].part : D[g].part[i][2] <= ver[g]
  BY DEF Parts
<1>3. \A i \in DOMAIN D[g].final : D[g].final[i][2] <= ver[g]
  BY DEF Parts
<1>4. Finished(D[g]).part = NoFile
  BY DEF Finished
<1>5. Finished(D[g]).final = D[g].final \/ Finished(D[g]).final = D[g].part
  BY DEF Finished
<1> QED
  BY <1>1, <1>2, <1>3, <1>4, <1>5

\* The job is done: what it promised is there.
Ending(w, D, ver, dec, bad, saved_, kept_, told_, failed_, told2, failed2) ==
    /\ w \in Job /\ D \in Dirs /\ ver \in [Files -> 1 .. MaxVersion] /\ dec \in Answers
    /\ saved_ \in -1 .. NFiles /\ kept_ \in Answers /\ failed_ \in BOOLEAN /\ failed2 \in BOOLEAN
    /\ Content(TRUE, w, D, ver, dec, bad, saved_, kept_, told_, failed_)
    /\ w.listed /\ CaughtUp(w, NFiles, dec, bad)
    /\ told2 \in {"done", "error"} /\ (told2 = "error" => failed2)
Ended(w, D, ver, dec, bad, saved_, kept_, told2, failed2, M) ==
    /\ Content(FALSE, w, M, ver, dec, bad, saved_, kept_, told2, failed2)
    /\ Copied(NFiles, M, ver, dec, bad) /\ M \in Dirs /\ Untouched(D, M, dec)
    /\ JobSkipped(w) => M = D

LEMMA ContentDone ==
  ASSUME NEW w, NEW D, NEW ver, NEW dec, NEW bad, NEW saved_, NEW kept_, NEW told_, NEW failed_,
         NEW told2, NEW failed2,
         Ending(w, D, ver, dec, bad, saved_, kept_, told_, failed_, told2, failed2)
  PROVE  Ended(w, D, ver, dec, bad, saved_, kept_, told2, failed2, ModifyTime(w, D))
<1>0. /\ w \in Job /\ D \in Dirs /\ ver \in [Files -> 1 .. MaxVersion] /\ dec \in Answers
      /\ saved_ \in -1 .. NFiles /\ kept_ \in Answers /\ failed_ \in BOOLEAN /\ failed2 \in BOOLEAN
      /\ Content(TRUE, w, D, ver, dec, bad, saved_, kept_, told_, failed_)
      /\ w.listed /\ CaughtUp(w, NFiles, dec, bad)
      /\ told2 \in {"done", "error"} /\ (told2 = "error" => failed2)
  BY ZenonT(30) DEF Ending
<1> USE <1>0
<1> DEFINE M == ModifyTime(w, D)
<1>1. NFiles \in Nat /\ w.file \in 0 .. NFiles /\ w.file <= NFiles /\ w.file \in Nat
  BY TransferJobAssumption DEF Job
<1>2. /\ Parts(D, ver, bad) /\ Open(TRUE, w, D, ver) /\ Copied(w.file, D, ver, dec, bad)
      /\ Copied(saved_, D, ver, kept_, bad)
      /\ \A f \in Files : f < saved_ /\ kept_[f] = "copy" => f < w.file
      /\ w.skipped /\ NFiles = 1 => w.file = 1
  BY ZenonT(30) DEF Content, Saved, Shown
<1>3. M \in Dirs
  BY ModifyTimeIs
<1>4. \A g \in Files : M[g] = IF g = w.file THEN Finished(D[g]) ELSE D[g]
  <2>1. CASE w.file < NFiles
    BY <2>1, ModifyTimeIs
  <2>2. CASE ~(w.file < NFiles)
    <3>1. \A g \in Files : g # w.file
      BY <1>1, <2>2 DEF Files
    <3> QED
      BY <2>2, <3>1, ModifyTimeIs
  <2> QED
    BY <2>1, <2>2
<1>5. JobSkipped(w) => M = D
  <2>1. JobSkipped(w) => ~(w.file < NFiles)
    BY <1>1, <1>2 DEF JobSkipped
  <2> QED
    BY <2>1, ModifyTimeIs
<1> HIDE DEF M
<1>6. Parts(M, ver, bad)
  <2> SUFFICES ASSUME NEW g \in Files
               PROVE  /\ M[g].part # NoFile /\ g \notin bad =>
                            /\ Len(M[g].part) <= Size[g]
                            /\ \A i \in 1 .. Len(M[g].part) : M[g].part[i] = <<g, M[g].digest, i>>
                      /\ \A i \in DOMAIN M[g].part : M[g].part[i][2] <= ver[g]
                      /\ \A i \in DOMAIN M[g].final : M[g].final[i][2] <= ver[g]
    BY DEF Parts
  <2>1. CASE g = w.file
    <3>1. M[g] = Finished(D[g]) /\ Finished(D[g]).part = NoFile
      BY <1>4, <2>1 DEF Finished
    <3> QED
      BY <3>1, <1>2, FinishedVersions
  <2>2. CASE g # w.file
    <3>1. M[g] = D[g]
      BY <1>4, <2>2
    <3> QED
      BY <3>1, <1>2 DEF Parts
  <2> QED
    BY <2>1, <2>2
<1>7. w.file < NFiles => /\ w.file \in Files /\ dec[w.file] = "copy"
                         /\ IsWhole(w.file, Finished(D[w.file]), ver) \/ w.file \in bad
                         /\ \A h \in Files : w.file < h /\ h < NFiles => dec[h] = "skip"
  BY <1>2, FinishedIsWhole, ZenonT(30) DEF CaughtUp, Ready
<1>8. Copied(NFiles, M, ver, dec, bad)
  <2> SUFFICES ASSUME NEW g \in Files, g < NFiles, dec[g] = "copy"
               PROVE  IsWhole(g, M[g], ver) \/ g \in bad
    BY DEF Copied
  <2>1. CASE g < w.file
    <3>1. M[g] = D[g]
      BY <1>4, <2>1, <1>1 DEF Files
    <3> QED
      BY <3>1, <1>2, <2>1 DEF Copied
  <2>2. CASE g = w.file
    BY <1>4, <1>7, <2>2
  <2>3. CASE w.file < g
    <3>1. w.file < NFiles
      BY <1>1, <2>3 DEF Files
    <3> QED
      BY <3>1, <1>7, <2>3
  <2> QED
    BY <1>1, <2>1, <2>2, <2>3 DEF Files
<1>9. Copied(saved_, M, ver, kept_, bad)
  <2> SUFFICES ASSUME NEW g \in Files, g < saved_, kept_[g] = "copy"
               PROVE  IsWhole(g, M[g], ver) \/ g \in bad
    BY DEF Copied
  <2>1. g < w.file
    BY <1>2
  <2>2. M[g] = D[g]
    BY <1>1, <1>4, <2>1 DEF Files
  <2> QED
    BY <1>2, <2>2 DEF Copied
<1>10. Untouched(D, M, dec)
  <2> SUFFICES ASSUME NEW g \in Files, dec[g] # "copy"
               PROVE  M[g].final = D[g].final
    BY DEF Untouched
  <2>1. g # w.file
    BY <1>1, <1>7 DEF Files
  <2> QED
    BY <1>4, <2>1
<1>11. /\ Open(FALSE, w, M, ver)
       /\ Saved(FALSE, w, M, ver, saved_, kept_, bad)
       /\ Shown(FALSE, w, M, ver, dec, bad, told2, failed2)
  BY <1>8, <1>9 DEF Open, Saved, Shown
<1>12. Content(FALSE, w, M, ver, dec, bad, saved_, kept_, told2, failed2)
  BY <1>6, <1>11, ZenonT(30) DEF Content
<1>13. Ended(w, D, ver, dec, bad, saved_, kept_, told2, failed2, M)
  BY <1>3, <1>5, <1>8, <1>10, <1>12, ZenonT(30) DEF Ended
<1> QED
  BY <1>13 DEF M

BlkData(f, k, ver) == IF k > Size[f] THEN <<>> ELSE <<<<f, ver[f], k>>>>

\* What the blocks under way do to a part: from the first one on it is a
\* beginning of the source; no part is mistaken for an absent one.
LEMMA BlockData ==
  ASSUME NEW f \in Files, NEW ver \in [Files -> 1 .. MaxVersion], NEW k \in Nat \ {0}
  PROVE  LET data == BlkData(f, k, ver) IN
         /\ data \in Blocks /\ data # NoFile /\ Size[f] \in Nat
         /\ Len(data) = IF k > Size[f] THEN 0 ELSE 1
         /\ \A i \in DOMAIN data : data[i] = <<f, ver[f], k>>
<1>1. Size[f] \in Nat /\ ver[f] \in 0 .. MaxVersion
  BY TransferJobAssumption, FileTransferAssumption, SMTT(30) DEF Files
<1>2. <<<<f, ver[f], k>>>> \in Blocks
  BY <1>1 DEF Blocks
<1>3. <<<<f, ver[f], k>>>> # NoFile
  <2>1. <<f, ver[f], k>> # <<0, 0, 0>>
    OBVIOUS
  <2> QED
    BY <2>1 DEF NoFile
<1>4. <<>> # NoFile
  BY DEF NoFile
<1> QED
  BY <1>1, <1>2, <1>3, <1>4, NoFileType DEF BlkData

Grown(f, ver, k, p, q) ==
    /\ q \in Blocks /\ q # NoFile
    /\ Len(q) = Len(p) + IF k > Size[f] THEN 0 ELSE 1
    /\ \A i \in DOMAIN q : q[i][2] <= ver[f]
    /\ (\A i \in 1 .. Len(p) : p[i] = <<f, ver[f], i>>) /\ Len(p) <= Size[f] /\ k = Len(p) + 1 =>
          /\ Len(q) <= Size[f]
          /\ \A i \in 1 .. Len(q) : q[i] = <<f, ver[f], i>>

LEMMA PartGrows ==
  ASSUME NEW f \in Files, NEW ver \in [Files -> 1 .. MaxVersion], NEW k \in Nat \ {0},
         NEW p \in Blocks, p # NoFile, \A i \in DOMAIN p : p[i][2] <= ver[f]
  PROVE  Grown(f, ver, k, p, p \o BlkData(f, k, ver))
<1> DEFINE data == BlkData(f, k, ver)
<1> DEFINE E == Files \X (0 .. MaxVersion) \X Nat
<1>1. data \in Seq(E) /\ p \in Seq(E) /\ Size[f] \in Nat
      /\ Len(data) = (IF k > Size[f] THEN 0 ELSE 1)
      /\ \A i \in DOMAIN data : data[i] = <<f, ver[f], k>>
  <2>1. /\ data \in Blocks /\ Size[f] \in Nat
        /\ Len(data) = (IF k > Size[f] THEN 0 ELSE 1)
        /\ \A i \in DOMAIN data : data[i] = <<f, ver[f], k>>
    BY BlockData, Zenon
  <2> QED
    BY <2>1 DEF Blocks
<1> HIDE DEF E, data
<1>2. p \o data \in Seq(E) /\ Len(p \o data) = Len(p) + Len(data) /\ Len(p) \in Nat /\ Len(data) \in Nat
  <2>1. \A a, b \in Seq(E) : /\ a \o b \in Seq(E) /\ Len(a \o b) = Len(a) + Len(b)
                            /\ Len(a) \in Nat /\ Len(b) \in Nat
    OBVIOUS
  <2>2. data \in Seq(E) /\ p \in Seq(E)
    BY <1>1
  <2> QED
    BY <2>1, <2>2, Zenon
<1>3. \A i \in 1 .. Len(p) + Len(data) :
         (p \o data)[i] = IF i <= Len(p) THEN p[i] ELSE data[i - Len(p)]
  BY <1>1
<1>4. DOMAIN p = 1 .. Len(p) /\ DOMAIN data = 1 .. Len(data) /\ DOMAIN (p \o data) = 1 .. Len(p \o data)
  <2>1. \A q \in Seq(E) : DOMAIN q = 1 .. Len(q)
    OBVIOUS
  <2>2. data \in Seq(E) /\ p \in Seq(E) /\ p \o data \in Seq(E)
    BY <1>1, <1>2
  <2> QED
    BY <2>1, <2>2, Zenon
<1>5. \A i \in 1 .. Len(p \o data) : i > Len(p) =>
         i = Len(p) + 1 /\ Len(data) = 1 /\ (p \o data)[i] = <<f, ver[f], k>>
  <2> SUFFICES ASSUME NEW i \in 1 .. Len(p \o data), i > Len(p)
               PROVE  i = Len(p) + 1 /\ Len(data) = 1 /\ (p \o data)[i] = <<f, ver[f], k>>
    BY ZenonT(30)
  <2>1. Len(data) = 1 /\ i = Len(p) + 1
    BY <1>1, <1>2
  <2>2. (p \o data)[i] = data[1]
    BY <1>2, <1>3, <2>1
  <2> QED
    BY <1>1, <1>4, <2>1, <2>2
<1>6. \A i \in 1 .. Len(p) : (p \o data)[i] = p[i]
  BY <1>2, <1>3
<1>7. p \o data # NoFile
  <2> SUFFICES ASSUME p \o data = NoFile PROVE FALSE
    OBVIOUS
  <2>1. Len(p) + Len(data) = 1 /\ (p \o data)[1] = <<0, 0, 0>>
    BY <1>2, NoFileType, ZenonT(30)
  <2>2. CASE Len(data) = 0
    <3>1. data = <<>>
      BY <1>1, <2>2
    <3>2. p \o <<>> = p
      <4>1. p \in Seq(E)
        BY <1>1
      <4> QED
        BY <4>1
    <3> QED
      BY <3>1, <3>2
  <2>3. CASE Len(data) = 1
    <3>1. Len(p) = 0 /\ (p \o data)[1] = <<f, ver[f], k>>
      BY <1>2, <1>5, <2>1, <2>3
    <3> QED
      BY <2>1, <3>1
  <2> QED
    BY <1>1, <2>2, <2>3
<1>8. \A i \in DOMAIN (p \o data) : (p \o data)[i][2] <= ver[f]
  <2> SUFFICES ASSUME NEW i \in 1 .. Len(p \o data) PROVE (p \o data)[i][2] <= ver[f]
    BY <1>4
  <2>1. CASE i > Len(p)
    <3>1. (p \o data)[i] = <<f, ver[f], k>> /\ ver[f] \in 1 .. MaxVersion
      BY <1>5, <2>1, ZenonT(30)
    <3> QED
      BY <3>1
  <2>2. CASE ~(i > Len(p))
    <3>1. i \in 1 .. Len(p)
      BY <1>2, <2>2
    <3> QED
      BY <1>4, <1>6, <3>1
  <2> QED
    BY <2>1, <2>2
<1>9. ASSUME \A i \in 1 .. Len(p) : p[i] = <<f, ver[f], i>>, Len(p) <= Size[f], k = Len(p) + 1
      PROVE  /\ Len(p \o data) <= Size[f]
             /\ \A i \in 1 .. Len(p \o data) : (p \o data)[i] = <<f, ver[f], i>>
  <2>1. Len(p \o data) <= Size[f]
    BY <1>1, <1>2, <1>9
  <2>2. ASSUME NEW i \in 1 .. Len(p \o data) PROVE (p \o data)[i] = <<f, ver[f], i>>
    <3>1. CASE i > Len(p)
      BY <1>5, <1>9, <3>1, ZenonT(30)
    <3>2. CASE ~(i > Len(p))
      <4>1. i \in 1 .. Len(p)
        BY <1>2, <3>2
      <4> QED
        BY <1>6, <1>9, <4>1
    <3> QED
      BY <3>1, <3>2
  <2> QED
    BY <2>1, <2>2, ZenonT(30)
<1> QED
  <2>1. p \o data \in Blocks /\ Len(p \o data) = Len(p) + IF k > Size[f] THEN 0 ELSE 1
    BY <1>1, <1>2 DEF E, Blocks
  <2> QED
    BY <2>1, <1>7, <1>8, <1>9, Zenon DEF Grown, data

\* A block is written.
Receiving(w, D, ver, dec, bad, saved_, kept_, told_, failed_, f, lo) ==
    /\ w \in Job /\ D \in Dirs /\ ver \in [Files -> 1 .. MaxVersion] /\ dec \in Answers
    /\ saved_ \in -1 .. NFiles /\ kept_ \in Answers /\ failed_ \in BOOLEAN
    /\ Content(TRUE, w, D, ver, dec, bad, saved_, kept_, told_, failed_) /\ ~w.last /\ w.listed
    /\ f \in Files /\ lo \in Nat /\ Fed(w, f, lo, ver, dec, bad)
Received(w, D, ver, dec, bad, saved_, kept_, told_, failed_, f, lo, x) ==
    /\ Content(TRUE, x.job, x.dir, ver, dec, BadCleared(bad, w, f, lo), saved_, kept_, told_, failed_)
    /\ x.job \in Job /\ x.dir \in Dirs /\ Untouched(D, x.dir, dec)
    /\ ~x.job.last /\ Accepted(w, x.job, bad, f, lo)

LEMMA ContentBlock ==
  ASSUME NEW w, NEW D, NEW ver, NEW dec, NEW bad, NEW saved_, NEW kept_, NEW told_, NEW failed_,
         NEW f, NEW lo, Receiving(w, D, ver, dec, bad, saved_, kept_, told_, failed_, f, lo)
  PROVE  Received(w, D, ver, dec, bad, saved_, kept_, told_, failed_, f, lo,
                  Write(w, D, f, BlkData(f, lo + 1, ver)))
<1> DEFINE data == BlkData(f, lo + 1, ver)
           bad2 == BadCleared(bad, w, f, lo)
<1>0. /\ w \in Job /\ D \in Dirs /\ ver \in [Files -> 1 .. MaxVersion] /\ dec \in Answers
      /\ saved_ \in -1 .. NFiles /\ kept_ \in Answers /\ failed_ \in BOOLEAN
      /\ Content(TRUE, w, D, ver, dec, bad, saved_, kept_, told_, failed_) /\ ~w.last /\ w.listed
      /\ f \in Files /\ lo \in Nat /\ Fed(w, f, lo, ver, dec, bad)
      /\ data = BlkData(f, lo + 1, ver)
      /\ bad2 = IF Begins(w, f) /\ (IF lo + 1 > Size[f] THEN Size[f] = 0 ELSE lo + 1 = 1)
                THEN bad \ {f} ELSE bad
  BY ZenonT(30) DEF Receiving, BadCleared, Begins
<1> USE <1>0
<1> HIDE DEF data, bad2
<1> DEFINE x == Write(w, D, f, data)
           v == x.job
           X == x.dir
           o == Begins(w, f)
<1>1. /\ NFiles \in Nat /\ w.file \in 0 .. NFiles /\ w.file \in Nat /\ f < NFiles /\ f \in Nat
      /\ w.pos \in Nat \cup {-1}
  BY TransferJobAssumption DEF Job, Files
<1>2. /\ Parts(D, ver, bad) /\ Open(TRUE, w, D, ver) /\ Copied(w.file, D, ver, dec, bad)
      /\ Copied(saved_, D, ver, kept_, bad)
      /\ \A g \in Files : g < saved_ /\ kept_[g] = "copy" => g < w.file
      /\ Shown(TRUE, w, D, ver, dec, bad, told_, failed_)
      /\ w.skipped /\ NFiles = 1 => w.file = 1
  BY ZenonT(30) DEF Content, Saved, Shown
<1>3. /\ dec[f] = "copy" /\ w.digest = ver[f] /\ w.file <= f /\ Ready(w, f, dec, bad)
      /\ f \notin bad => lo = At(w, f)
  BY DEF Fed
<1>4. w.file \in Files
  BY <1>1, <1>3 DEF Files
<1>5. /\ data \in Blocks /\ data # NoFile /\ Size[f] \in Nat
      /\ Len(data) = IF lo + 1 > Size[f] THEN 0 ELSE 1
      /\ \A i \in DOMAIN data : data[i] = <<f, ver[f], lo + 1>>
  <2>1. lo + 1 \in Nat \ {0}
    OBVIOUS
  <2> QED
    BY <2>1, BlockData, ZenonT(30)
<1>6. w.pos >= 0 =>
         /\ D[w.file].part # NoFile /\ D[w.file].digest = ver[w.file]
         /\ Len(D[w.file].part) = w.pos
  BY <1>2 DEF Open
<1>7. /\ v = [w EXCEPT !.file = f, !.pos = At(w, f) + Len(data)] /\ v \in Job /\ X \in Dirs
      /\ \A g \in Files \ {f} : X[g] = IF o /\ g = w.file THEN Finished(D[g]) ELSE D[g]
      /\ X[f].final = IF o /\ f = w.file THEN Finished(D[f]).final ELSE D[f].final
      /\ X[f].part = IF o THEN data ELSE D[f].part \o data
      /\ X[f].digest = IF o THEN w.digest ELSE D[f].digest
  <2>1. w.file = f /\ w.pos >= 0 => Len(D[f].part) = w.pos
    BY <1>6
  <2>2. data \in Blocks /\ x = Write(w, D, f, data)
    BY <1>5
  <2> HIDE DEF x, o
  <2>3. Written(w, D, f, data, x)
    BY <2>1, <2>2, WriteIs
  <2> QED
    BY <2>3, Zenon DEF o, Written
<1>8. /\ v.file = f /\ v.digest = w.digest /\ v.listed /\ ~v.last /\ v.skipped = w.skipped
      /\ v.pos = At(w, f) + (IF lo + 1 > Size[f] THEN 0 ELSE 1)
  <2>1. v = [w EXCEPT !.file = f, !.pos = At(w, f) + Len(data)]
    BY <1>7
  <2> HIDE DEF v
  <2>2. v.file = f /\ v.digest = w.digest /\ v.listed = w.listed /\ v.last = w.last
        /\ v.skipped = w.skipped /\ v.pos = At(w, f) + Len(data)
    BY <2>1, ZenonT(30) DEF Job
  <2> QED
    BY <1>5, <2>2
<1>9. At(w, f) \in Nat /\ (o => At(w, f) = 0) /\ (~o => f = w.file /\ w.pos >= 0 /\ At(w, f) = w.pos)
  BY <1>1 DEF At, Begins
<1> HIDE DEF x, v, X
<1>10. f \notin bad => At(w, f) <= Size[f]
  <2>1. CASE o
    BY <1>5, <1>9, <2>1
  <2>2. CASE ~o /\ f \notin bad
    BY <1>2, <1>6, <1>9, <2>2 DEF Parts
  <2> QED
    BY <2>1, <2>2
<1>11. \A g \in Files : X[g].final = IF o /\ g = w.file THEN Finished(D[g]).final ELSE D[g].final
  BY <1>7
<1>12. w.file < f => /\ dec[w.file] = "copy"
                     /\ IsWhole(w.file, Finished(D[w.file]), ver) \/ w.file \in bad
                     /\ \A h \in Files : w.file < h /\ h < f => dec[h] = "skip"
  BY <1>2, <1>3, FinishedIsWhole, ZenonT(30) DEF Ready
<1>13. bad2 \subseteq bad /\ \A g \in Files : g # f => (g \in bad <=> g \in bad2)
  OBVIOUS
<1>14. Untouched(D, X, dec)
  <2> SUFFICES ASSUME NEW g \in Files, dec[g] # "copy" PROVE X[g].final = D[g].final
    BY DEF Untouched
  <2>1. g # w.file
    BY <1>1, <1>3, <1>12 DEF Files
  <2> QED
    BY <1>11, <2>1
<1>15. Copied(saved_, X, ver, kept_, bad2)
  <2> SUFFICES ASSUME NEW g \in Files, g < saved_, kept_[g] = "copy"
               PROVE  IsWhole(g, X[g], ver) \/ g \in bad2
    BY DEF Copied
  <2>1. g < w.file
    BY <1>2
  <2>2. g # w.file /\ g # f
    BY <1>1, <1>3, <2>1, SMTT(30) DEF Files
  <2>3. X[g].final = D[g].final
    BY <1>11, <2>2
  <2>4. IsWhole(g, D[g], ver) \/ g \in bad
    BY <1>2 DEF Copied
  <2> QED
    BY <1>13, <2>2, <2>3, <2>4 DEF IsWhole
<1>16. Copied(f, X, ver, dec, bad2)
  <2> SUFFICES ASSUME NEW g \in Files, g < f, dec[g] = "copy"
               PROVE  IsWhole(g, X[g], ver) \/ g \in bad2
    BY DEF Copied
  <2>0. g # f /\ (g \in bad <=> g \in bad2)
    BY <1>1, <1>13 DEF Files
  <2>1. CASE g < w.file
    <3>1. X[g].final = D[g].final
      BY <1>1, <1>11, <2>1 DEF Files
    <3>2. IsWhole(g, D[g], ver) \/ g \in bad
      BY <1>2, <2>1 DEF Copied
    <3> QED
      BY <2>0, <3>1, <3>2 DEF IsWhole
  <2>2. CASE g = w.file
    <3>1. o
      BY <2>0, <2>2 DEF Begins
    <3>2. X[g].final = Finished(D[g]).final
      BY <1>11, <2>2, <3>1
    <3> QED
      BY <1>12, <2>0, <2>2, <3>2 DEF IsWhole
  <2>3. CASE w.file < g
    <3>1. dec[g] = "skip"
      BY <1>1, <1>12, <2>3, SMTT(30) DEF Files
    <3> QED
      BY <3>1
  <2> QED
    BY <1>1, <2>1, <2>2, <2>3, SMTT(30) DEF Files
<1>17. \A g \in Files : \A i \in DOMAIN X[g].final : X[g].final[i][2] <= ver[g]
  <2> SUFFICES ASSUME NEW g \in Files
               PROVE  \A i \in DOMAIN X[g].final : X[g].final[i][2] <= ver[g]
    OBVIOUS
  <2>1. X[g].final = Finished(D[g]).final \/ X[g].final = D[g].final
    BY <1>11
  <2>2. \A i \in DOMAIN D[g].final : D[g].final[i][2] <= ver[g]
    BY <1>2 DEF Parts
  <2>3. \A i \in DOMAIN Finished(D[g]).final : Finished(D[g]).final[i][2] <= ver[g]
    BY <1>2, FinishedVersions
  <2> QED
    BY <2>1, <2>2, <2>3
<1>18. /\ X[f].part \in Blocks /\ X[f].part # NoFile /\ X[f].digest = ver[f]
       /\ Len(X[f].part) = v.pos
       /\ \A i \in DOMAIN X[f].part : X[f].part[i][2] <= ver[f]
       /\ f \notin bad2 => /\ Len(X[f].part) <= Size[f]
                           /\ \A i \in 1 .. Len(X[f].part) : X[f].part[i] = <<f, ver[f], i>>
  <2>1. CASE o
    <3>1. X[f].part = data /\ X[f].digest = ver[f] /\ v.pos = Len(data)
      BY <1>3, <1>5, <1>7, <1>8, <1>9, <2>1
    <3>2. \A i \in DOMAIN data : data[i][2] <= ver[f]
      BY <1>5
    <3>3. ASSUME f \notin bad2
          PROVE  Len(data) <= Size[f] /\ \A i \in 1 .. Len(data) : data[i] = <<f, ver[f], i>>
      <4>1. IF lo + 1 > Size[f] THEN Size[f] = 0 ELSE lo + 1 = 1
        <5>1. CASE f \in bad
          BY <2>1, <3>3, <5>1
        <5>2. CASE f \notin bad
          BY <1>3, <1>5, <1>9, <2>1, <5>2
        <5> QED
          BY <5>1, <5>2
      <4>2. DOMAIN data = 1 .. Len(data)
        <5>1. data \in Seq(Files \X (0 .. MaxVersion) \X Nat)
          BY <1>5, Zenon DEF Blocks
        <5> QED
          BY <5>1
      <4> QED
        BY <1>5, <4>1, <4>2
    <3> QED
      BY <1>5, <3>1, <3>2, <3>3
  <2>2. CASE ~o
    <3> DEFINE p == D[f].part
    <3>1. X[f].part = p \o data /\ X[f].digest = ver[f] /\ Len(p) = w.pos /\ p # NoFile
      BY <1>6, <1>7, <1>9, <2>2, ZenonT(30)
    <3>2. p \in Blocks /\ \A i \in DOMAIN p : p[i][2] <= ver[f]
      BY <1>2 DEF Parts, Dirs, Entry, Blocks
    <3>3. f \notin bad => /\ Len(p) <= Size[f] /\ lo + 1 = Len(p) + 1
                          /\ \A i \in 1 .. Len(p) : p[i] = <<f, ver[f], i>>
      BY <1>2, <1>3, <1>6, <1>9, <2>2, SMTT(30) DEF Parts
    <3> DEFINE k == lo + 1
    <3>4. bad2 = bad /\ k \in Nat \ {0} /\ data = BlkData(f, k, ver)
      BY <2>2
    <3> HIDE DEF p, k
    <3>5. Grown(f, ver, k, p, p \o data)
      BY <3>1, <3>2, <3>4, PartGrows, ZenonT(30)
    <3>6. v.pos = Len(p) + Len(data)
      BY <1>5, <1>8, <1>9, <2>2, <3>1
    <3> QED
      BY <1>5, <3>1, <3>3, <3>4, <3>5, <3>6, ZenonT(30) DEF k, Grown
  <2> QED
    BY <2>1, <2>2, ZenonT(30)
<1>19. Parts(X, ver, bad2)
  <2> SUFFICES ASSUME NEW g \in Files
               PROVE  /\ X[g].part # NoFile /\ g \notin bad2 =>
                            /\ Len(X[g].part) <= Size[g]
                            /\ \A i \in 1 .. Len(X[g].part) : X[g].part[i] = <<g, X[g].digest, i>>
                      /\ \A i \in DOMAIN X[g].part : X[g].part[i][2] <= ver[g]
                      /\ \A i \in DOMAIN X[g].final : X[g].final[i][2] <= ver[g]
    BY ZenonT(30) DEF Parts
  <2>1. CASE g = f
    BY <1>17, <1>18, <2>1, ZenonT(30)
  <2>2. CASE g # f /\ o /\ g = w.file
    <3>1. X[g] = Finished(D[g]) /\ Finished(D[g]).part = NoFile
      BY <1>7, <2>2 DEF Finished
    <3> QED
      BY <3>1, <1>2, FinishedVersions, ZenonT(30)
  <2>3. CASE g # f /\ ~(o /\ g = w.file)
    <3>1. X[g] = D[g] /\ (g \in bad <=> g \in bad2)
      BY <1>7, <1>13, <2>3
    <3> QED
      BY <3>1, <1>2 DEF Parts
  <2> QED
    BY <2>1, <2>2, <2>3, ZenonT(30)
<1>20. Open(TRUE, v, X, ver)
  BY <1>1, <1>8, <1>18 DEF Open
<1>21. Saved(TRUE, v, X, ver, saved_, kept_, bad2)
  <2>1. \A g \in Files : g < saved_ /\ kept_[g] = "copy" => g < v.file
    BY <1>1, <1>2, <1>3, <1>8, SMTT(30) DEF Files
  <2> QED
    BY <2>1, <1>15 DEF Saved
<1>22. Shown(TRUE, v, X, ver, dec, bad2, told_, failed_)
  <2>1. told_ \in {"running", "listed"} /\ told_ # "listed"
    BY <1>2 DEF Shown
  <2>2. w.skipped /\ NFiles = 1 => FALSE
    BY <1>1, <1>2, <1>3
  <2> QED
    BY <2>1, <2>2, <1>2, <1>8 DEF Shown
<1>23. Content(TRUE, v, X, ver, dec, bad2, saved_, kept_, told_, failed_)
  BY <1>8, <1>16, <1>19, <1>20, <1>21, <1>22, ZenonT(30) DEF Content
<1>24. Accepted(w, v, bad, f, lo)
  BY <1>8, <1>10 DEF Accepted
<1>25. Received(w, D, ver, dec, bad, saved_, kept_, told_, failed_, f, lo, x)
  BY <1>7, <1>8, <1>14, <1>23, <1>24, Zenon DEF x, v, X, Received, bad2
<1> QED
  BY <1>25 DEF x, data

\* The writer's record changes in what the directory does not depend on.
LEMMA ContentSame ==
  ASSUME NEW w, NEW v, NEW D, NEW ver, NEW dec, NEW bad, NEW saved_, NEW kept_, NEW told_, NEW failed_,
         Content(TRUE, w, D, ver, dec, bad, saved_, kept_, told_, failed_),
         v.file = w.file, v.pos = w.pos, v.skipped = w.skipped, v.last = w.last, w.listed => v.listed
  PROVE  Content(TRUE, v, D, ver, dec, bad, saved_, kept_, told_, failed_)
BY DEF Content, Open, Saved, Shown

\* A listed job is resumed.
LEMMA ContentResume ==
  ASSUME NEW w, NEW v, NEW D, NEW ver, NEW dec, NEW bad, NEW saved_, NEW kept_, NEW told_, NEW failed_,
         Content(TRUE, w, D, ver, dec, bad, saved_, kept_, told_, failed_),
         v.file = w.file, v.pos = w.pos, v.skipped = w.skipped, ~v.last, w.listed => v.listed
  PROVE  Content(TRUE, v, D, ver, dec, bad, saved_, kept_, "running", FALSE)
BY DEF Content, Open, Saved, Shown

\* A new job, from the first file on.
LEMMA ContentStarts ==
  ASSUME NEW in \in BOOLEAN, NEW w, NEW D, NEW ver, NEW dec, NEW bad, NEW saved_, NEW kept_, NEW told_,
         NEW failed_,
         Content(in, w, D, ver, dec, bad, saved_, kept_, told_, failed_)
  PROVE  Content(TRUE, NewJob(0, FALSE), D, ver, Unanswered, bad, saved_, Unanswered, "running", FALSE)
<1>1. /\ NewJob(0, FALSE).pos = -1 /\ NewJob(0, FALSE).file = 0 /\ ~NewJob(0, FALSE).last
      /\ ~NewJob(0, FALSE).skipped
  BY DEF NewJob
<1>2. \A f \in Files : Unanswered[f] # "copy"
  BY DEF Unanswered
<1>3. Parts(D, ver, bad)
  BY DEF Content
<1>4. Open(TRUE, NewJob(0, FALSE), D, ver)
  <2> DEFINE n == NewJob(0, FALSE)
  <2>1. n.pos = -1
    BY <1>1, ZenonT(30)
  <2> HIDE DEF n
  <2>2. Open(TRUE, n, D, ver)
    BY <2>1 DEF Open
  <2> QED
    BY <2>2, ZenonT(30) DEF n
<1>5. \A g : Copied(g, D, ver, Unanswered, bad)
  BY <1>2 DEF Copied
<1>6. Saved(TRUE, NewJob(0, FALSE), D, ver, saved_, Unanswered, bad)
  BY <1>2, <1>5, ZenonT(30) DEF Saved
<1>7. Shown(TRUE, NewJob(0, FALSE), D, ver, Unanswered, bad, "running", FALSE)
  BY <1>1, ZenonT(30) DEF Shown
<1> QED
  BY <1>3, <1>4, <1>5, <1>6, <1>7, ZenonT(30) DEF Content

\* What may be saved of a job, and what the user may be shown, when it ends
\* without being done.
SavesAs(in, w, dec, saved_, kept_, saved2, kept2) ==
    \/ saved2 = saved_ /\ kept2 = kept_
    \/ saved2 = -1
    \/ in /\ saved2 = w.file /\ kept2 = dec
ShownAs(in, told_, failed_, told2, failed2) ==
    \/ told2 \in {"none", "error"} /\ (told2 = "error" => failed2)
    \/ told2 = told_ /\ failed2 = failed_ /\ ~in

LEMMA ContentStops ==
  ASSUME NEW in \in BOOLEAN, NEW w, NEW D, NEW ver, NEW dec, NEW bad, NEW saved_, NEW kept_, NEW told_,
         NEW failed_, Content(in, w, D, ver, dec, bad, saved_, kept_, told_, failed_),
         NEW in2 \in BOOLEAN, ~in2, NEW v, NEW D2, NEW saved2, NEW kept2, NEW told2, NEW failed2,
         Parts(D2, ver, bad), \A g \in Files : D2[g].final = D[g].final,
         SavesAs(in, w, dec, saved_, kept_, saved2, kept2), ShownAs(in, told_, failed_, told2, failed2)
  PROVE  Content(in2, v, D2, ver, dec, bad, saved2, kept2, told2, failed2)
<1>1. \A g, a : Copied(g, D, ver, a, bad) => Copied(g, D2, ver, a, bad)
  BY DEF Copied, IsWhole
<1>2. Copied(saved2, D2, ver, kept2, bad)
  <2>1. CASE saved2 = saved_ /\ kept2 = kept_
    BY <1>1, <2>1 DEF Content, Saved
  <2>2. CASE saved2 = -1
    BY <2>2 DEF Copied, Files
  <2>3. CASE in /\ saved2 = w.file /\ kept2 = dec
    BY <1>1, <2>3 DEF Content
  <2> QED
    BY <2>1, <2>2, <2>3 DEF SavesAs
<1>3. Saved(in2, v, D2, ver, saved2, kept2, bad) /\ Open(in2, v, D2, ver)
  BY <1>2 DEF Saved, Open
<1>4. Shown(in2, v, D2, ver, dec, bad, told2, failed2)
  <2>1. CASE told2 \in {"none", "error"} /\ (told2 = "error" => failed2)
    BY <2>1 DEF Shown
  <2>2. CASE told2 = told_ /\ failed2 = failed_ /\ ~in
    BY <1>1, <2>2 DEF Shown, Content
  <2> QED
    BY <2>1, <2>2 DEF ShownAs
<1> QED
  BY <1>3, <1>4 DEF Content

\* The part of the current file is removed.
LEMMA PartsRemoved ==
  ASSUME NEW w \in Job, NEW D \in Dirs, NEW ver \in [Files -> 1 .. MaxVersion], NEW bad, Parts(D, ver, bad)
  PROVE  /\ Parts(RemoveDownloadFile(w, D), ver, bad)
         /\ \A g \in Files : RemoveDownloadFile(w, D)[g].final = D[g].final
<1> DEFINE X == RemoveDownloadFile(w, D)
<1>1. \A g \in Files : X[g].final = D[g].final /\ (X[g] = D[g] \/ X[g].part = NoFile)
  BY RemoveIs
<1> HIDE DEF X
<1>2. Parts(X, ver, bad)
  <2> SUFFICES ASSUME NEW g \in Files
               PROVE  /\ X[g].part # NoFile /\ g \notin bad =>
                            /\ Len(X[g].part) <= Size[g]
                            /\ \A i \in 1 .. Len(X[g].part) : X[g].part[i] = <<g, X[g].digest, i>>
                      /\ \A i \in DOMAIN X[g].part : X[g].part[i][2] <= ver[g]
                      /\ \A i \in DOMAIN X[g].final : X[g].final[i][2] <= ver[g]
    BY DEF Parts
  <2>1. CASE X[g] = D[g]
    BY <2>1 DEF Parts
  <2>2. CASE X[g].part = NoFile
    <3>1. \A i \in DOMAIN NoFile : NoFile[i][2] <= ver[g]
      BY DEF NoFile
    <3>2. \A i \in DOMAIN D[g].final : D[g].final[i][2] <= ver[g]
      BY DEF Parts
    <3> QED
      BY <1>1, <2>2, <3>1, <3>2
  <2> QED
    BY <1>1, <2>1, <2>2
<1> QED
  BY <1>1, <1>2 DEF X

\* The writer answers for the file it has come to.
\* What is left of file g is resumed only when it is of this source.
Resumes(D, ver, g, skip, offset) ==
    offset > 0 => ~skip /\ D[g].part # NoFile /\ D[g].digest = ver[g] /\ Len(D[g].part) = offset

Answering(w, D, ver, dec, bad, saved_, kept_, told_, failed_, g, skip, offset, c) ==
    /\ w \in Job /\ D \in Dirs /\ ver \in [Files -> 1 .. MaxVersion] /\ dec \in Answers
    /\ saved_ \in -1 .. NFiles /\ kept_ \in Answers /\ failed_ \in BOOLEAN
    /\ Content(TRUE, w, D, ver, dec, bad, saved_, kept_, told_, failed_) /\ ~w.last /\ w.listed
    /\ g \in Files /\ CaughtUp(w, g, dec, bad) /\ skip \in BOOLEAN /\ offset \in Nat
    /\ c.file = g /\ c.skip = skip /\ c.offset = offset
    /\ Resumes(D, ver, g, skip, offset)

LEMMA ContentDecides ==
  ASSUME NEW w, NEW D, NEW ver, NEW dec, NEW bad, NEW saved_, NEW kept_, NEW told_, NEW failed_,
         NEW g, NEW skip, NEW offset, NEW c,
         Answering(w, D, ver, dec, bad, saved_, kept_, told_, failed_, g, skip, offset, c)
  PROVE  Content(TRUE, Confirm(w, D, c), D, ver, DecAfter(dec, g, skip), BadAfter(bad, w, g, skip, offset),
                 saved_, kept_, told_, failed_)
<1> DEFINE v == Confirm(w, D, c)
           dec2 == DecAfter(dec, g, skip)
           bad2 == BadAfter(bad, w, g, skip, offset)
<1>0. /\ w \in Job /\ D \in Dirs /\ ver \in [Files -> 1 .. MaxVersion] /\ dec \in Answers
      /\ saved_ \in -1 .. NFiles /\ kept_ \in Answers /\ failed_ \in BOOLEAN
      /\ Content(TRUE, w, D, ver, dec, bad, saved_, kept_, told_, failed_) /\ ~w.last /\ w.listed
      /\ g \in Files /\ CaughtUp(w, g, dec, bad) /\ skip \in BOOLEAN /\ offset \in Nat
      /\ c.file = g /\ c.skip = skip /\ c.offset = offset
      /\ offset > 0 => ~skip /\ D[g].part # NoFile /\ D[g].digest = ver[g] /\ Len(D[g].part) = offset
  BY ZenonT(30) DEF Answering, Resumes
<1> USE <1>0
<1>1. NFiles \in Nat /\ w.file \in 0 .. NFiles /\ w.file \in Nat /\ g \in Nat /\ g < NFiles
      /\ w.file <= g
  BY TransferJobAssumption DEF Job, Files, CaughtUp
<1>2. /\ Parts(D, ver, bad) /\ Open(TRUE, w, D, ver) /\ Copied(w.file, D, ver, dec, bad)
      /\ Copied(saved_, D, ver, kept_, bad)
      /\ \A f \in Files : f < saved_ /\ kept_[f] = "copy" => f < w.file
      /\ Shown(TRUE, w, D, ver, dec, bad, told_, failed_)
      /\ w.skipped /\ NFiles = 1 => w.file = 1
  BY ZenonT(30) DEF Content, Saved, Shown
<1>3. bad \subseteq bad2 /\ dec2[g] = (IF skip THEN "skip" ELSE "copy")
      /\ \A f \in Files \ {g} : dec2[f] = dec[f]
  BY DEF Answers, DecAfter, BadAfter
<1> HIDE DEF dec2, bad2
<1> SUFFICES Content(TRUE, Confirm(w, D, c), D, ver, dec2, bad2, saved_, kept_, told_, failed_)
  BY ZenonT(30) DEF dec2, bad2
<1>4. \A k, a : Copied(k, D, ver, a, bad) => Copied(k, D, ver, a, bad2)
  BY <1>3 DEF Copied
<1>5. Parts(D, ver, bad2)
  BY <1>2, <1>3 DEF Parts
<1>6. Copied(w.file, D, ver, dec2, bad2)
  BY <1>1, <1>2, <1>3, SMTT(30) DEF Copied, Files
<1>7. told_ = "running" /\ ~failed_
  BY <1>2 DEF Shown
<1>8. CASE w.file # g
  <2>1. v = w
    BY <1>8 DEF Confirm
  <2>2. Open(TRUE, w, D, ver) /\ Saved(TRUE, w, D, ver, saved_, kept_, bad2)
        /\ Shown(TRUE, w, D, ver, dec2, bad2, told_, failed_)
    BY <1>2, <1>4, <1>7, ZenonT(30) DEF Saved, Shown
  <2> QED
    BY <2>1, <2>2, <1>5, <1>6, ZenonT(30) DEF Content
<1>9. CASE w.file = g /\ skip
  <2>1. v = SetFileSkipped(w)
    BY <1>9 DEF Confirm
  <2> HIDE DEF v
  <2>2. v.file = g + 1 /\ v.pos = -1 /\ v.last = w.last /\ v.listed = w.listed /\ v.skipped
    BY <2>1, <1>9, ZenonT(30) DEF SetFileSkipped, Job
  <2>3. Copied(g + 1, D, ver, dec2, bad2)
    <3> SUFFICES ASSUME NEW f \in Files, f < g + 1, dec2[f] = "copy"
                 PROVE  IsWhole(f, D[f], ver) \/ f \in bad2
      BY DEF Copied
    <3>1. f < g /\ f # g
      BY <1>1, <1>3, <1>9 DEF Files, bad2, BadAfter
    <3> QED
      BY <3>1, <1>6, <1>9 DEF Copied
  <2>4. Open(TRUE, v, D, ver)
    BY <2>2 DEF Open
  <2>5. Saved(TRUE, v, D, ver, saved_, kept_, bad2)
    <3>1. \A f \in Files : f < saved_ /\ kept_[f] = "copy" => f < v.file
      BY <1>1, <1>2, <1>9, <2>2 DEF Files
    <3> QED
      BY <3>1, <1>2, <1>4 DEF Saved
  <2>6. Shown(TRUE, v, D, ver, dec2, bad2, told_, failed_)
    <3>1. NFiles = 1 => v.file = 1
      BY <1>1, <2>2
    <3> QED
      BY <3>1, <1>7, <2>2 DEF Shown
  <2>7. Copied(v.file, D, ver, dec2, bad2)
    BY <2>2, <2>3
  <2> QED
    BY <1>5, <2>4, <2>5, <2>6, <2>7, ZenonT(30) DEF Content, v
<1>10. CASE w.file = g /\ ~skip
  <2> DEFINE a == [w EXCEPT !.confirmed = TRUE, !.skipped = FALSE]
  <2>1. a.file = g /\ a.pos = w.pos /\ a.last = w.last /\ a.listed = w.listed /\ ~a.skipped /\ a \in Job
    BY <1>10, ZenonT(30) DEF Job
  <2>2. v = IF offset > 0 THEN SetStreamOffset(a, D[g], offset) ELSE a
    BY <1>10 DEF Confirm
  <2> HIDE DEF v, a
  <2>3. v.file = g /\ v.last = w.last /\ v.listed = w.listed /\ ~v.skipped
        /\ v.pos = (IF offset > 0 THEN offset ELSE w.pos)
    <3>1. CASE offset > 0
      <4>1. D[g].digest # NoDigest
        BY <3>1 DEF NoDigest
      <4>2. v = [a EXCEPT !.pos = offset]
        BY <2>2, <3>1, <4>1 DEF SetStreamOffset
      <4> QED
        BY <2>1, <3>1, <4>2, ZenonT(30) DEF Job
    <3>2. CASE ~(offset > 0)
      BY <2>1, <2>2, <3>2, ZenonT(30)
    <3> QED
      BY <3>1, <3>2, ZenonT(30)
  <2>4. Open(TRUE, v, D, ver)
    <3>1. w.pos = -1
      BY <1>10 DEF CaughtUp
    <3> QED
      BY <1>1, <1>10, <2>3, <3>1 DEF Open
  <2>5. Saved(TRUE, v, D, ver, saved_, kept_, bad2)
    BY <1>2, <1>4, <1>10, <2>3 DEF Saved
  <2>6. Shown(TRUE, v, D, ver, dec2, bad2, told_, failed_)
    BY <1>7, <2>3 DEF Shown
  <2>7. Copied(v.file, D, ver, dec2, bad2)
    BY <1>6, <1>10, <2>3
  <2> QED
    BY <1>5, <2>4, <2>5, <2>6, <2>7, ZenonT(30) DEF Content, v
<1> QED
  BY <1>8, <1>9, <1>10, ZenonT(30)
---------------------------------------------------------------------------
(* The queues hold the messages of all jobs: what is taken or sent is of   *)
(* one job, and the others do not notice.                                  *)

LEMMA Owner ==
  ASSUME NEW j, NEW m
  PROVE  (m \in CMsg(j) => m.j = j) /\ (m \in SMsg(j) => m.j = j)
<1>1. m \in CMsg(j) => m.j = j
  BY DEF CMsg, DigestMsg, BlockMsg
<1>2. m \in SMsg(j) => m.j = j
  <2>1. CASE j \in Uploads
    BY <2>1 DEF SMsg, DigestMsg, BlockMsg
  <2>2. CASE j \notin Uploads
    BY <2>2 DEF SMsg
  <2> QED
    BY <2>1, <2>2
<1> QED
  BY <1>1, <1>2

LEMMA OnlyType ==
  ASSUME NEW S, NEW q \in Seq(S), NEW T
  PROVE  Only(q, T) \in Seq(T)
<1> DEFINE p == Only(q, T)
<1>1. p \in Seq(S) /\ Elems(p) \subseteq T
  BY OnlyElems
<1> HIDE DEF p
<1>2. \A i \in 1 .. Len(p) : p[i] \in T
  BY <1>1 DEF Elems
<1>3. p \in Seq(T)
  BY <1>1, <1>2
<1> QED
  BY <1>3 DEF p

\* The first message of q is taken; M(j) are the messages of job j.
TakenC(q, k) ==
    /\ k \in Jobs /\ Head(q) \in CMsg(k) /\ Only(q, CMsg(k)) # <<>>
    /\ Head(Only(q, CMsg(k))) = Head(q) /\ Only(Tail(q), CMsg(k)) = Tail(Only(q, CMsg(k)))
    /\ Tail(q) \in Seq(CMsgs)
    /\ \A j \in Jobs \ {k} : Only(Tail(q), CMsg(j)) = Only(q, CMsg(j))
TakenS(q, k) ==
    /\ k \in Jobs /\ Head(q) \in SMsg(k) /\ Only(q, SMsg(k)) # <<>>
    /\ Head(Only(q, SMsg(k))) = Head(q) /\ Only(Tail(q), SMsg(k)) = Tail(Only(q, SMsg(k)))
    /\ Tail(q) \in Seq(SMsgs)
    /\ \A j \in Jobs \ {k} : Only(Tail(q), SMsg(j)) = Only(q, SMsg(j))

LEMMA TakeC ==
  ASSUME NEW q \in Seq(CMsgs), q # <<>>
  PROVE  TakenC(q, Head(q).j)
<1> DEFINE k == Head(q).j
<1>1. Head(q) \in CMsgs /\ Tail(q) \in Seq(CMsgs)
  OBVIOUS
<1>2. PICK l \in Jobs : Head(q) \in CMsg(l)
  BY <1>1 DEF CMsgs
<1>3. k = l
  BY <1>2, Owner
<1>4. \A j \in Jobs \ {k} : Head(q) \notin CMsg(j)
  BY Owner
<1> HIDE DEF k
<1>5. /\ Only(q, CMsg(k)) # <<>> /\ Head(Only(q, CMsg(k))) = Head(q)
      /\ Tail(Only(q, CMsg(k))) = Only(Tail(q), CMsg(k))
  BY <1>2, <1>3, OnlyTail
<1>6. \A j \in Jobs \ {k} : Only(Tail(q), CMsg(j)) = Only(q, CMsg(j))
  BY <1>4, OnlyTail
<1>7. TakenC(q, k)
  BY <1>1, <1>2, <1>3, <1>5, <1>6 DEF TakenC
<1> QED
  BY <1>7 DEF k

LEMMA TakeS ==
  ASSUME NEW q \in Seq(SMsgs), q # <<>>
  PROVE  TakenS(q, Head(q).j)
<1> DEFINE k == Head(q).j
<1>1. Head(q) \in SMsgs /\ Tail(q) \in Seq(SMsgs)
  OBVIOUS
<1>2. PICK l \in Jobs : Head(q) \in SMsg(l)
  BY <1>1 DEF SMsgs
<1>3. k = l
  BY <1>2, Owner
<1>4. \A j \in Jobs \ {k} : Head(q) \notin SMsg(j)
  BY Owner
<1> HIDE DEF k
<1>5. /\ Only(q, SMsg(k)) # <<>> /\ Head(Only(q, SMsg(k))) = Head(q)
      /\ Tail(Only(q, SMsg(k))) = Only(Tail(q), SMsg(k))
  BY <1>2, <1>3, OnlyTail
<1>6. \A j \in Jobs \ {k} : Only(Tail(q), SMsg(j)) = Only(q, SMsg(j))
  BY <1>4, OnlyTail
<1>7. TakenS(q, k)
  BY <1>1, <1>2, <1>3, <1>5, <1>6 DEF TakenS
<1> QED
  BY <1>7 DEF k

\* A message of job k is sent.
PostedC(q, k, m) ==
    /\ Append(q, m) \in Seq(CMsgs)
    /\ Only(Append(q, m), CMsg(k)) = Append(Only(q, CMsg(k)), m)
    /\ \A j \in Jobs \ {k} : Only(Append(q, m), CMsg(j)) = Only(q, CMsg(j))
PostedS(q, k, m) ==
    /\ Append(q, m) \in Seq(SMsgs)
    /\ Only(Append(q, m), SMsg(k)) = Append(Only(q, SMsg(k)), m)
    /\ \A j \in Jobs \ {k} : Only(Append(q, m), SMsg(j)) = Only(q, SMsg(j))

LEMMA PostC ==
  ASSUME NEW q \in Seq(CMsgs), NEW k \in Jobs, NEW m \in CMsg(k)
  PROVE  PostedC(q, k, m)
<1>1. m \in CMsgs /\ \A j \in Jobs \ {k} : m \notin CMsg(j)
  BY Owner DEF CMsgs
<1>2. Only(Append(q, m), CMsg(k)) = Append(Only(q, CMsg(k)), m)
  BY <1>1, OnlyAppend
<1>3. \A j \in Jobs \ {k} : Only(Append(q, m), CMsg(j)) = Only(q, CMsg(j))
  BY <1>1, OnlyAppend
<1> QED
  BY <1>1, <1>2, <1>3 DEF PostedC

LEMMA PostS ==
  ASSUME NEW q \in Seq(SMsgs), NEW k \in Jobs, NEW m \in SMsg(k)
  PROVE  PostedS(q, k, m)
<1>1. m \in SMsgs /\ \A j \in Jobs \ {k} : m \notin SMsg(j)
  BY Owner DEF SMsgs
<1>2. Only(Append(q, m), SMsg(k)) = Append(Only(q, SMsg(k)), m)
  BY <1>1, OnlyAppend
<1>3. \A j \in Jobs \ {k} : Only(Append(q, m), SMsg(j)) = Only(q, SMsg(j))
  BY <1>1, OnlyAppend
<1> QED
  BY <1>1, <1>2, <1>3 DEF PostedS

\* Nothing of a job is under way.
LEMMA NoneC ==
  ASSUME NEW q \in Seq(CMsgs), NEW k, \A m \in Elems(q) : m.j # k
  PROVE  Only(q, CMsg(k)) = <<>>
<1>1. Elems(q) \cap CMsg(k) = {}
  BY Owner
<1> QED
  BY <1>1, OnlyNone

LEMMA NoneS ==
  ASSUME NEW q \in Seq(SMsgs), NEW k, \A m \in Elems(q) : m.j # k
  PROVE  Only(q, SMsg(k)) = <<>>
<1>1. Elems(q) \cap SMsg(k) = {}
  BY Owner
<1> QED
  BY <1>1, OnlyNone
---------------------------------------------------------------------------
(* One step, job by job.                                                   *)

\* What FileCopy sees of a job.
Ph(j) == IF told[j] \in {"running", "done"} /\ j \notin failed THEN told[j] ELSE "stopped"
Ag(j) == IF told[j] = "running" /\ j \notin failed THEN {f \in Files : decided[j][f] = "copy"} ELSE {}
Ds(j) == [f \in Files |-> IF Whole(j, f) \/ <<j, f>> \in misplaced THEN "copy" ELSE "other"]

\* The step is none of job j's.
Same(j) ==
    /\ (j \in writing') = (j \in writing) /\ (j \in failed') = (j \in failed)
    /\ Reads(j)' = Reads(j)
    /\ writer'[j] = writer[j] /\ reader'[j] = reader[j]
    /\ CM(j)' = CM(j) /\ SM(j)' = SM(j)
    /\ version'[j] = version[j] /\ dir'[j] = dir[j]
    /\ Asked(j)' = Asked(j) /\ Bad(j)' = Bad(j)
    /\ decided'[j] = decided[j] /\ kept'[j] = kept[j]
    /\ saved'[j] = saved[j] /\ told'[j] = told[j]

Quiet(j) == Ph(j)' = Ph(j) /\ Ag(j)' = Ag(j) /\ Ds(j)' = Ds(j)

\* What a step of job k may be to FileCopy.
Begins1(k) == Ph(k) # "running" /\ Ph(k)' = "running" /\ Ds(k)' = Ds(k)
Agrees(k) ==
    /\ Ph(k) = "running" /\ Ph(k)' = "running"
    /\ \E f \in Files :
          /\ Ag(k)' \in {Ag(k) \cup {f}, Ag(k) \ {f}}
          /\ \A g \in Files \ (Ag(k)' \cap {f}) : Ds(k)'[g] = Ds(k)[g]
Puts(k) ==
    /\ Ph(k) = "running" /\ Ph(k)' = "running" /\ Ag(k)' = Ag(k)
    /\ \A g \in Files \ Ag(k) : Ds(k)'[g] = Ds(k)[g]
Finishes1(k) ==
    /\ Ph(k) = "running" /\ Ph(k)' = "done" /\ Ag(k)' = {}
    /\ \A g \in Files \ Ag(k) : Ds(k)'[g] = Ds(k)[g]
    /\ \A g \in Ag(k) : Ds(k)'[g] = "copy"
Stops(k) == Ph(k)' = "stopped" /\ Ag(k)' = {} /\ Ds(k)' = Ds(k)
Local(k) == Quiet(k) \/ Begins1(k) \/ Agrees(k) \/ Puts(k) \/ Finishes1(k) \/ Stops(k)

\* Only files that were to be copied get another content.
Kept(k) == Untouched(dir[k], dir'[k], decided[k])

\* A step of job k alone.
OneJob(k) ==
    /\ k \in Jobs /\ Types' /\ \A j \in Jobs \ {k} : Same(j)
    /\ k \in Downloads => Download(k)'
    /\ k \in Uploads => Upload(k)'
    /\ Local(k) /\ Kept(k)

LEMMA FrameD ==
  ASSUME NEW j, Download(j), Same(j)
  PROVE  Download(j)'
<1>1. Protocol(j, j \in writing, writer[j], Reads(j), reader[j], CM(j), SM(j),
               version[j], Asked(j), decided[j], Bad(j))'
  BY DEF Download, Same
<1>2. Answers1(Reads(j), reader[j], SM(j))'
  BY DEF Download, Same
<1>3. Content(j \in writing, writer[j], dir[j], version[j], decided[j], Bad(j),
              saved[j], kept[j], told[j], j \in failed)'
  BY DEF Download, Same
<1> QED
  BY <1>1, <1>2, <1>3 DEF Download

LEMMA FrameU ==
  ASSUME NEW j, Upload(j), Same(j)
  PROVE  Upload(j)'
BY DEF Upload, Same

LEMMA BadIs ==
  \A j : \A f \in Files : (f \in Bad(j) <=> <<j, f>> \in misplaced)
                       /\ (f \in Bad(j)' <=> <<j, f>> \in misplaced')
BY DEF Bad

LEMMA DsSame ==
  ASSUME NEW j, version'[j] = version[j], dir'[j] = dir[j], Bad(j)' = Bad(j)
  PROVE  Ds(j)' = Ds(j)
<1>1. \A f \in Files : <<j, f>> \in misplaced <=> <<j, f>> \in misplaced'
  BY BadIs
<1> QED
  BY <1>1 DEF Ds, Whole

LEMMA QuietSame ==
  ASSUME NEW j, version'[j] = version[j], dir'[j] = dir[j], Bad(j)' = Bad(j),
         decided'[j] = decided[j], told'[j] = told[j], (j \in failed') = (j \in failed)
  PROVE  Quiet(j)
<1>1. Ds(j)' = Ds(j)
  BY DsSame
<1>2. Ph(j)' = Ph(j) /\ Ag(j)' = Ag(j)
  BY DEF Ph, Ag
<1> QED
  BY <1>1, <1>2 DEF Quiet

LEMMA KeptSame ==
  ASSUME NEW j, dir'[j] = dir[j]
  PROVE  Kept(j)
BY DEF Kept, Untouched

\* The invariant is kept, job by job.
LEMMA OneJobKeeps ==
  ASSUME IInv, NEW k, OneJob(k)
  PROVE  IInv'
<1>1. \A j \in Downloads : Download(j)'
  <2> SUFFICES ASSUME NEW j \in Downloads PROVE Download(j)'
    OBVIOUS
  <2>1. CASE j = k
    BY <2>1 DEF OneJob
  <2>2. CASE j # k
    BY <2>2, FrameD DEF OneJob, IInv, Downloads
  <2> QED
    BY <2>1, <2>2
<1>2. \A j \in Uploads : Upload(j)'
  <2> SUFFICES ASSUME NEW j \in Uploads PROVE Upload(j)'
    OBVIOUS
  <2>1. CASE j = k
    BY <2>1 DEF OneJob
  <2>2. CASE j # k
    BY <2>2, FrameU, FileTransferAssumption DEF OneJob, IInv
  <2> QED
    BY <2>1, <2>2
<1> QED
  BY <1>1, <1>2 DEF OneJob, IInv

LEMMA OneJobUntouched ==
  ASSUME NEW k, OneJob(k)
  PROVE  \A j \in Jobs : Kept(j)
BY KeptSame DEF OneJob, Same
---------------------------------------------------------------------------
(* The transfer implements FileCopy.                                       *)

Phases == [j \in Jobs |-> Ph(j)]
Agreed == [j \in Jobs |-> Ag(j)]
Dests == [j \in Jobs |-> Ds(j)]

LEMMA DsType ==
  ASSUME NEW j
  PROVE  /\ Ds(j) \in [Files -> {"copy", "other"}] /\ Ds(j)' \in [Files -> {"copy", "other"}]
         /\ Ag(j) \subseteq Files /\ Ag(j)' \subseteq Files
BY DEF Ds, Ag

LEMMA LiftStep ==
  ASSUME NEW k \in Jobs, Local(k), \A j \in Jobs \ {k} : Quiet(j)
  PROVE  Copy!CopyNext \/ UNCHANGED <<Phases, Agreed, Dests>>
<1>1. /\ Phases' = [Phases EXCEPT ![k] = Ph(k)']
      /\ Agreed' = [Agreed EXCEPT ![k] = Ag(k)']
      /\ Dests' = [Dests EXCEPT ![k] = Ds(k)']
  <2>1. \A j \in Jobs \ {k} : Ph(j)' = Ph(j) /\ Ag(j)' = Ag(j) /\ Ds(j)' = Ds(j)
    BY DEF Quiet
  <2> QED
    BY <2>1, ZenonT(30) DEF Phases, Agreed, Dests
<1>2. Phases[k] = Ph(k) /\ Agreed[k] = Ag(k) /\ Dests[k] = Ds(k)
      /\ Agreed'[k] = Ag(k)' /\ Dests'[k] = Ds(k)'
  BY DEF Phases, Agreed, Dests
<1>3. Ds(k)' \in [Files -> {"copy", "other"}] /\ Ag(k)' \in SUBSET Files
  BY DsType
<1>4. CASE Quiet(k)
  BY <1>1, <1>2, <1>4 DEF Quiet, Phases, Agreed, Dests
<1>6. CASE Begins1(k)
  <2>1. /\ Phases[k] # "running"
        /\ Phases' = [Phases EXCEPT ![k] = "running"]
        /\ \E A \in SUBSET Files : Agreed' = [Agreed EXCEPT ![k] = A]
        /\ Dests' = Dests
    BY <1>1, <1>2, <1>3, <1>6, ZenonT(30) DEF Begins1, Dests
  <2>2. Copy!Begin(k)
    BY <2>1, ZenonT(30) DEF Copy!Begin, Phases, Agreed, Dests, Ph, Ag, Ds
  <2> QED
    BY <2>2 DEF Copy!CopyNext
<1>7. CASE Agrees(k)
  <2>1. PICK f \in Files :
           /\ Ag(k)' \in {Ag(k) \cup {f}, Ag(k) \ {f}}
           /\ \A g \in Files \ (Ag(k)' \cap {f}) : Ds(k)'[g] = Ds(k)[g]
    BY <1>7 DEF Agrees
  <2>2. /\ Phases[k] = "running" /\ Phases' = Phases
        /\ Agreed' \in {[Agreed EXCEPT ![k] = Agreed[k] \cup {f}], [Agreed EXCEPT ![k] = Agreed[k] \ {f}]}
    <3>1. Phases[k] = "running" /\ Phases' = Phases
      BY <1>1, <1>2, <1>7, ZenonT(30) DEF Agrees, Phases
    <3> QED
      BY <1>1, <1>2, <2>1, <3>1, ZenonT(30)
  <2>3. \E d \in [Files -> {"copy", "other"}] :
           /\ \A g \in Files \ (Agreed'[k] \cap {f}) : d[g] = Dests[k][g]
           /\ Dests' = [Dests EXCEPT ![k] = d]
    BY <1>1, <1>2, <1>3, <2>1, ZenonT(30)
  <2>4. Copy!Agree(k, f)
    BY <2>2, <2>3, ZenonT(30) DEF Copy!Agree, Copy!Touches, Copy!Contents, Phases, Agreed, Dests, Ph, Ag, Ds
  <2> QED
    BY <2>4 DEF Copy!CopyNext
<1>8. CASE Puts(k)
  <2>1. Phases[k] = "running" /\ Phases' = Phases /\ Agreed' = Agreed
    BY <1>1, <1>2, <1>8, ZenonT(30) DEF Puts, Phases, Agreed
  <2>2. \E d \in [Files -> {"copy", "other"}] :
           /\ \A g \in Files \ Agreed[k] : d[g] = Dests[k][g]
           /\ Dests' = [Dests EXCEPT ![k] = d]
    BY <1>1, <1>2, <1>3, <1>8, ZenonT(30) DEF Puts
  <2>3. Copy!Put(k)
    BY <2>1, <2>2, ZenonT(30) DEF Copy!Put, Copy!Touches, Copy!Contents, Phases, Agreed, Dests, Ph, Ag, Ds
  <2> QED
    BY <2>3 DEF Copy!CopyNext
<1>9. CASE Finishes1(k)
  <2>1. /\ Phases[k] = "running" /\ Phases' = [Phases EXCEPT ![k] = "done"]
        /\ Agreed' = [Agreed EXCEPT ![k] = {}]
        /\ \A g \in Agreed[k] : Dests'[k][g] = "copy"
    BY <1>1, <1>2, <1>9 DEF Finishes1
  <2>2. \E d \in [Files -> {"copy", "other"}] :
           /\ \A g \in Files \ Agreed[k] : d[g] = Dests[k][g]
           /\ Dests' = [Dests EXCEPT ![k] = d]
    BY <1>1, <1>2, <1>3, <1>9, ZenonT(30) DEF Finishes1
  <2>3. Copy!Finish(k)
    BY <2>1, <2>2, ZenonT(30) DEF Copy!Finish, Copy!Touches, Copy!Contents, Phases, Agreed, Dests, Ph, Ag, Ds
  <2> QED
    BY <2>3 DEF Copy!CopyNext
<1>10. CASE Stops(k)
  <2>1. /\ Phases' = [j \in Jobs |-> IF j \in {k} THEN "stopped" ELSE Phases[j]]
        /\ Agreed' = [j \in Jobs |-> IF j \in {k} THEN {} ELSE Agreed[j]]
        /\ Dests' = Dests
    BY <1>1, <1>2, <1>10, ZenonT(30) DEF Stops, Phases, Agreed, Dests
  <2>2. Copy!Stop({k})
    BY <2>1 DEF Copy!Stop, Phases, Agreed, Dests, Ph, Ag, Ds
  <2> QED
    BY <2>2 DEF Copy!CopyNext
<1> QED
  BY <1>4, <1>6, <1>7, <1>8, <1>9, <1>10 DEF Local

\* All jobs stop that the user no longer sees running.
LEMMA LiftStop ==
  ASSUME NEW J \in SUBSET Jobs,
         \A j \in Jobs : IF j \in J THEN Stops(j) ELSE Quiet(j)
  PROVE  Copy!CopyNext
<1>1. /\ Phases' = [j \in Jobs |-> IF j \in J THEN "stopped" ELSE Phases[j]]
      /\ Agreed' = [j \in Jobs |-> IF j \in J THEN {} ELSE Agreed[j]]
      /\ Dests' = Dests
  <2>1. \A j \in Jobs : /\ Ph(j)' = (IF j \in J THEN "stopped" ELSE Ph(j))
                        /\ Ag(j)' = (IF j \in J THEN {} ELSE Ag(j))
                        /\ Ds(j)' = Ds(j)
    BY DEF Stops, Quiet
  <2> QED
    BY <2>1 DEF Phases, Agreed, Dests
<1>2. Copy!Stop(J)
  BY <1>1 DEF Copy!Stop, Phases, Agreed, Dests, Ph, Ag, Ds
<1> QED
  BY <1>2 DEF Copy!CopyNext
---------------------------------------------------------------------------
(* The types, for use at both ends of a step.                              *)

CoreA ==
    /\ cmReads \in BOOLEAN /\ connected \in BOOLEAN
    /\ writing \subseteq Downloads /\ cmWriting \subseteq Uploads
    /\ writer \in [Jobs -> Job] /\ reader \in [Jobs -> Job]
    /\ toClient \in Seq(CMsgs) /\ toServer \in Seq(SMsgs)
CoreR ==
    /\ reading \in [Sides -> Seq(Jobs)]
    /\ Elems(reading["client"]) \subseteq Uploads
    /\ Elems(reading["server"]) \subseteq Downloads
    /\ IsInjective(reading["server"])
CoreB ==
    /\ dir \in [Jobs -> Dirs]
    /\ version \in [Jobs -> [Files -> 1 .. MaxVersion]]
    /\ saved \in [Jobs -> -1 .. NFiles]
    /\ prompts \subseteq writing \X Files
    /\ told \in [Jobs -> {"none", "listed", "running", "done", "error"}]
    /\ failed \subseteq Jobs /\ misplaced \subseteq Jobs \X Files
    /\ decided \in [Jobs -> Answers] /\ kept \in [Jobs -> Answers]
    /\ starts \in 0 .. MaxStarts /\ breaks \in 0 .. MaxBreaks
    /\ faults \in 0 .. MaxFaults
CoreC ==
    ~connected => /\ writing = {} /\ cmWriting = {} /\ prompts = {}
                  /\ toClient = <<>> /\ toServer = <<>>
                  /\ \A s \in Sides : reading[s] = <<>>
                  /\ writer = [j \in Jobs |-> NewJob(0, FALSE)]
                  /\ reader = writer

LEMMA TypesAreCore ==
  Types => CoreA /\ CoreR /\ CoreB /\ CoreC
BY ZenonT(30) DEF Types, TypeOK, CoreA, CoreR, CoreB, CoreC, Dirs, Downloads

LEMMA MessageTags ==
  ASSUME NEW j, NEW m
  PROVE  /\ m \in CMsg(j) => m.t \in {"dir", "digest", "block", "done", "error"}
         /\ m \in SMsg(j) => m.t \in {"send", "receive", "confirm", "cancel", "digest", "block",
                                      "done", "error"}
<1>1. m \in CMsg(j) => m.t \in {"dir", "digest", "block", "done", "error"}
  BY DEF CMsg, DigestMsg, BlockMsg
<1>2. m \in SMsg(j) => m.t \in {"send", "receive", "confirm", "cancel", "digest", "block",
                                "done", "error"}
  <2>1. CASE j \in Uploads
    BY <2>1 DEF SMsg, DigestMsg, BlockMsg
  <2>2. CASE j \notin Uploads
    BY <2>2 DEF SMsg
  <2> QED
    BY <2>1, <2>2
<1> QED
  BY <1>1, <1>2

LEMMA QueueTags ==
  /\ \A q \in Seq(CMsgs) : \A m \in Elems(q) : m.t \in {"dir", "digest", "block", "done", "error"}
  /\ \A q \in Seq(SMsgs) : \A m \in Elems(q) :
        m.t \in {"send", "receive", "confirm", "cancel", "digest", "block", "done", "error"}
<1>1. ASSUME NEW S, NEW q \in Seq(S), NEW m \in Elems(q) PROVE m \in S
  BY <1>1 DEF Elems
<1>2. ASSUME NEW q \in Seq(CMsgs), NEW m \in Elems(q)
      PROVE  m.t \in {"dir", "digest", "block", "done", "error"}
  <2>1. m \in CMsgs
    BY <1>1
  <2> QED
    BY <2>1, MessageTags DEF CMsgs
<1>3. ASSUME NEW q \in Seq(SMsgs), NEW m \in Elems(q)
      PROVE  m.t \in {"send", "receive", "confirm", "cancel", "digest", "block", "done", "error"}
  <2>1. m \in SMsgs
    BY <1>1
  <2> QED
    BY <2>1, MessageTags DEF SMsgs
<1> QED
  BY <1>2, <1>3

LEMMA ReadingType ==
  \A rd \in [Sides -> Seq(Jobs)] : \A s \in Sides : Elems(rd[s]) \subseteq Jobs
BY DEF Elems

LEMMA CoreIsTypes ==
  (CoreA /\ CoreR /\ CoreB /\ CoreC => Types) /\ (CoreA' /\ CoreR' /\ CoreB' /\ CoreC' => Types')
<1>1. CoreA /\ CoreR /\ CoreB /\ CoreC => Types
  <2> SUFFICES ASSUME CoreA, CoreR, CoreB, CoreC PROVE Types
    OBVIOUS
  <2>1. \A s \in Sides : Elems(reading[s]) \subseteq Jobs
    BY ReadingType DEF CoreR
  <2>2. /\ \A m \in Elems(toClient) : m.t \in {"dir", "digest", "block", "done", "error"}
        /\ \A m \in Elems(toServer) :
              m.t \in {"send", "receive", "confirm", "cancel", "digest", "block", "done", "error"}
    BY QueueTags DEF CoreA
  <2>3. prompts \subseteq Jobs \X Files
    BY DEF CoreA, CoreB, Downloads
  <2>4. TypeOK
    BY <2>1, <2>2, <2>3, ZenonT(30) DEF CoreA, CoreB, TypeOK, Dirs, Downloads
  <2> QED
    BY <2>4, ZenonT(30) DEF Types, CoreA, CoreR, CoreB, CoreC
<1>2. CoreA' /\ CoreR' /\ CoreB' /\ CoreC' => Types'
  <2> SUFFICES ASSUME CoreA', CoreR', CoreB', CoreC' PROVE Types'
    OBVIOUS
  <2>1. \A s \in Sides : Elems(reading'[s]) \subseteq Jobs
    BY ReadingType DEF CoreR
  <2>2. /\ \A m \in Elems(toClient') : m.t \in {"dir", "digest", "block", "done", "error"}
        /\ \A m \in Elems(toServer') :
              m.t \in {"send", "receive", "confirm", "cancel", "digest", "block", "done", "error"}
    BY QueueTags DEF CoreA
  <2>3. prompts' \subseteq Jobs \X Files
    BY DEF CoreA, CoreB, Downloads
  <2>4. TypeOK'
    BY <2>1, <2>2, <2>3, ZenonT(30) DEF CoreA, CoreB, TypeOK, Dirs, Downloads
  <2> QED
    BY <2>4, ZenonT(30) DEF Types, CoreA, CoreR, CoreB, CoreC
<1> QED
  BY <1>1, <1>2

\* A message of job k is taken from the queue.
TookC(k) ==
    /\ k \in Jobs /\ Head(toClient) \in CMsg(k) /\ CM(k) \in Seq(CMsg(k)) /\ CM(k) # <<>>
    /\ Head(CM(k)) = Head(toClient) /\ CM(k)' = Tail(CM(k)) /\ toClient' \in Seq(CMsgs)
    /\ \A j \in Jobs \ {k} : CM(j)' = CM(j)
TookS(k) ==
    /\ k \in Jobs /\ Head(toServer) \in SMsg(k) /\ SM(k) \in Seq(SMsg(k)) /\ SM(k) # <<>>
    /\ Head(SM(k)) = Head(toServer) /\ SM(k)' = Tail(SM(k)) /\ toServer' \in Seq(SMsgs)
    /\ \A j \in Jobs \ {k} : SM(j)' = SM(j)

LEMMA ClientTakes ==
  ASSUME CoreA, toClient # <<>>, toClient' = Tail(toClient), NEW k, k = Head(toClient).j
  PROVE  TookC(k)
<1>1. TakenC(toClient, k)
  BY TakeC DEF CoreA
<1>2. CM(k) \in Seq(CMsg(k))
  BY OnlyType DEF CoreA, CM
<1> QED
  BY <1>1, <1>2 DEF TakenC, TookC, CM

LEMMA ServerTakes ==
  ASSUME CoreA, toServer # <<>>, toServer' = Tail(toServer), NEW k, k = Head(toServer).j
  PROVE  TookS(k)
<1>1. TakenS(toServer, k)
  BY TakeS DEF CoreA
<1>2. SM(k) \in Seq(SMsg(k))
  BY OnlyType DEF CoreA, SM
<1> QED
  BY <1>1, <1>2 DEF TakenS, TookS, SM

\* A message of job k is sent.
SentC(k, m) ==
    /\ toClient' \in Seq(CMsgs) /\ CM(k) \in Seq(CMsg(k)) /\ CM(k)' = Append(CM(k), m)
    /\ \A j \in Jobs \ {k} : CM(j)' = CM(j)
SentS(k, m) ==
    /\ toServer' \in Seq(SMsgs) /\ SM(k) \in Seq(SMsg(k)) /\ SM(k)' = Append(SM(k), m)
    /\ \A j \in Jobs \ {k} : SM(j)' = SM(j)

LEMMA ClientSent ==
  ASSUME CoreA, NEW k \in Jobs, NEW m \in CMsg(k), toClient' = Append(toClient, m)
  PROVE  SentC(k, m)
<1>1. PostedC(toClient, k, m)
  BY PostC DEF CoreA
<1>2. CM(k) \in Seq(CMsg(k))
  BY OnlyType DEF CoreA, CM
<1> QED
  BY <1>1, <1>2 DEF PostedC, SentC, CM

LEMMA ServerSent ==
  ASSUME CoreA, NEW k \in Jobs, NEW m \in SMsg(k), toServer' = Append(toServer, m)
  PROVE  SentS(k, m)
<1>1. PostedS(toServer, k, m)
  BY PostS DEF CoreA
<1>2. SM(k) \in Seq(SMsg(k))
  BY OnlyType DEF CoreA, SM
<1> QED
  BY <1>1, <1>2 DEF PostedS, SentS, SM
---------------------------------------------------------------------------
(* The three parts of the invariant of a download, in the state.           *)

Prot(j) == Protocol(j, j \in writing, writer[j], Reads(j), reader[j], CM(j), SM(j),
                    version[j], Asked(j), decided[j], Bad(j))
Ans(j) == Answers1(Reads(j), reader[j], SM(j))
Cont(j) == Content(j \in writing, writer[j], dir[j], version[j], decided[j], Bad(j),
                   saved[j], kept[j], told[j], j \in failed)
FlowAt(j, d, n, f, lo) ==
    Flow(j, writer[j], Reads(j), reader[j], CM(j), SM(j), version[j], Asked(j), decided[j],
         Bad(j), d, n, f, lo)

LEMMA DownloadParts ==
  ASSUME NEW j
  PROVE  (Download(j) <=> Prot(j) /\ Ans(j) /\ Cont(j)) /\ (Download(j)' <=> Prot(j)' /\ Ans(j)' /\ Cont(j)')
BY DEF Download, Prot, Ans, Cont

LEMMA Running ==
  ASSUME NEW k, k \in writing, Prot(k), CM(k) # <<>> \/ Asked(k) # {}
  PROVE  ~writer[k].last /\ \E d \in 0 .. 1, n \in Nat, f \in Files, lo \in Nat : FlowAt(k, d, n, f, lo)
BY DEF Prot, Protocol, Listed, Requested, FlowAt

LEMMA FlowProt ==
  ASSUME NEW k, NEW d \in 0 .. 1, NEW n \in Nat, NEW f \in Files, NEW lo \in Nat,
         FlowAt(k, d, n, f, lo)', ~writer'[k].last
  PROVE  Prot(k)'
BY DEF Prot, Protocol, FlowAt

LEMMA OutProt ==
  ASSUME NEW k, k \notin writing'
  PROVE  Prot(k)'
BY DEF Prot, Protocol

LEMMA AnsSame ==
  ASSUME NEW k, Ans(k), Reads(k)' = Reads(k), reader'[k] = reader[k], SM(k)' = SM(k)
  PROVE  Ans(k)'
BY DEF Ans

\* What the types say of a job.
JobTypes(k) ==
    /\ writer[k] \in Job /\ reader[k] \in Job /\ dir[k] \in Dirs
    /\ version[k] \in [Files -> 1 .. MaxVersion] /\ decided[k] \in Answers /\ kept[k] \in Answers
    /\ saved[k] \in -1 .. NFiles /\ Bad(k) \subseteq Files /\ Asked(k) \subseteq Files
    /\ CM(k) \in Seq(CMsg(k)) /\ SM(k) \in Seq(SMsg(k))
    /\ (k \in failed) \in BOOLEAN /\ Reads(k) \in BOOLEAN

LEMMA TypesOfJob ==
  ASSUME CoreA, CoreB, NEW k \in Jobs
  PROVE  JobTypes(k)
<1>1. CM(k) \in Seq(CMsg(k)) /\ SM(k) \in Seq(SMsg(k))
  BY OnlyType, ZenonT(30) DEF CoreA, CM, SM
<1>2. Bad(k) \subseteq Files /\ Asked(k) \subseteq Files
  BY DEF Bad, Asked
<1> QED
  BY <1>1, <1>2 DEF JobTypes, CoreA, CoreB, Reads
---------------------------------------------------------------------------
(* The steps of the client.                                                *)

LEMMA StepClientDir ==
  ASSUME IInv, ClientDir, NEW k, k = Head(toClient).j
  PROVE  OneJob(k)
<1>1. CoreA /\ CoreR /\ CoreB /\ CoreC
  BY TypesAreCore DEF IInv
<1>2. /\ connected /\ toClient # <<>> /\ Head(toClient).t = "dir" /\ toClient' = Tail(toClient)
      /\ writer' = IF k \in writing THEN [writer EXCEPT ![k].listed = TRUE] ELSE writer
      /\ UNCHANGED <<cmReads, connected, writing, cmWriting, reading, reader,
                     toServer, dir, version, saved, prompts, told, failed, decided,
                     kept, misplaced, starts, breaks, faults>>
  BY DEF ClientDir, ClientGets
<1>3. TookC(k)
  BY <1>1, <1>2, ClientTakes
<1>4. /\ k \in Jobs /\ CM(k) \in Seq(CMsg(k)) /\ CM(k) # <<>> /\ Head(CM(k)).t = "dir"
      /\ CM(k)' = Tail(CM(k)) /\ toClient' \in Seq(CMsgs) /\ \A j \in Jobs \ {k} : CM(j)' = CM(j)
  BY <1>2, <1>3 DEF TookC
<1>5. writer[k] \in Job /\ [writer[k] EXCEPT !.listed = TRUE] \in Job
  <2>1. writer[k] \in Job
    BY <1>1, <1>4 DEF CoreA
  <2> QED
    BY <2>1, ZenonT(30) DEF Job
<1>6. /\ writer' \in [Jobs -> Job] /\ \A j \in Jobs \ {k} : writer'[j] = writer[j]
      /\ writer'[k] = IF k \in writing THEN [writer[k] EXCEPT !.listed = TRUE] ELSE writer[k]
  BY <1>1, <1>2, <1>4, <1>5, ZenonT(30) DEF CoreA
<1>7. Types'
  <2>1. CoreA' /\ CoreR' /\ CoreB' /\ CoreC'
    BY <1>1, <1>2, <1>4, <1>6, ZenonT(30) DEF CoreA, CoreR, CoreB, CoreC
  <2> QED
    BY <2>1, CoreIsTypes
<1>8. \A j \in Jobs : /\ SM(j)' = SM(j) /\ Asked(j)' = Asked(j) /\ Bad(j)' = Bad(j) /\ Reads(j)' = Reads(j)
  BY <1>2 DEF SM, Asked, Bad, Reads
<1>9. \A j \in Jobs \ {k} : Same(j)
  BY <1>2, <1>4, <1>6, <1>8 DEF Same
<1>10. Quiet(k) /\ Kept(k)
  BY <1>2, <1>4, <1>8, QuietSame, KeptSame
<1>11. ASSUME k \in Downloads PROVE Download(k)'
  <2>1. Download(k)
    BY <1>11 DEF IInv
  <2>2. CASE k \notin writing
    <3>1. writer'[k] = writer[k] /\ k \notin writing'
      BY <1>2, <1>6, <2>2
    <3>2. Protocol(k, k \in writing, writer[k], Reads(k), reader[k], CM(k), SM(k),
                   version[k], Asked(k), decided[k], Bad(k))'
      BY <3>1 DEF Protocol
    <3>3. Answers1(Reads(k), reader[k], SM(k))'
      BY <1>2, <1>4, <1>8, <2>1 DEF Download
    <3>4. Content(k \in writing, writer[k], dir[k], version[k], decided[k], Bad(k),
                  saved[k], kept[k], told[k], k \in failed)'
      BY <1>2, <1>4, <1>8, <2>1, <3>1 DEF Download
    <3> QED
      BY <3>2, <3>3, <3>4 DEF Download
  <2>3. CASE k \in writing
    <3> DEFINE w == writer[k]
               v == [w EXCEPT !.listed = TRUE]
    <3>1. writer'[k] = v /\ k \in writing' /\ w \in Job
      BY <1>2, <1>5, <1>6, <2>3
    <3>2. v.file = w.file /\ v.pos = w.pos /\ v.skipped = w.skipped /\ v.last = w.last /\ v.listed
      BY <3>1, SMTT(30) DEF Job
    <3>3. PICK d \in 0 .. 1, n \in Nat, f \in Files, lo \in Nat :
             /\ ~w.last
             /\ Flow(k, w, Reads(k), reader[k], CM(k), SM(k), version[k], Asked(k), decided[k], Bad(k),
                     d, n, f, lo)
      BY <1>4, <2>1, <2>3 DEF Download, Protocol, Listed, Requested
    <3> HIDE DEF w, v
    <3>4. d = 1
      <4>1. HeadSays(k, w, Reads(k), reader[k], CM(k), SM(k), version[k], Asked(k), decided[k], Bad(k),
                     d, n, f, lo)
        BY <1>4, <3>3, HeadOfFlow
      <4> QED
        BY <1>4, <4>1 DEF HeadSays
    <3>5. Flow(k, v, Reads(k), reader[k], Tail(CM(k)), SM(k), version[k], Asked(k), decided[k], Bad(k),
               0, n, f, lo)
      BY <1>4, <3>1, <3>3, <3>4, FlowDir, ZenonT(30) DEF v
    <3>6. Protocol(k, k \in writing, writer[k], Reads(k), reader[k], CM(k), SM(k),
                   version[k], Asked(k), decided[k], Bad(k))'
      <4>1. ~v.last /\ 0 \in 0 .. 1 /\ version'[k] = version[k] /\ decided'[k] = decided[k]
            /\ reader'[k] = reader[k]
        BY <1>2, <3>2, <3>3
      <4>2. Flow(k, writer'[k], Reads(k)', reader'[k], CM(k)', SM(k)', version'[k], Asked(k)', decided'[k],
                 Bad(k)', 0, n, f, lo)
        BY <1>4, <1>8, <3>1, <3>5, <4>1, ZenonT(30)
      <4> QED
        BY <3>1, <4>1, <4>2 DEF Protocol
    <3>7. Answers1(Reads(k), reader[k], SM(k))'
      BY <1>2, <1>4, <1>8, <2>1 DEF Download
    <3>8. Content(k \in writing, writer[k], dir[k], version[k], decided[k], Bad(k),
                  saved[k], kept[k], told[k], k \in failed)'
      <4>1. Content(TRUE, w, dir[k], version[k], decided[k], Bad(k), saved[k], kept[k], told[k], k \in failed)
        BY <2>1, <2>3, ZenonT(30) DEF Download, w
      <4>2. Content(TRUE, v, dir[k], version[k], decided[k], Bad(k), saved[k], kept[k], told[k], k \in failed)
        BY <3>2, <4>1, ContentSame, ZenonT(30)
      <4> QED
        BY <1>2, <1>4, <1>8, <3>1, <4>2, ZenonT(30)
    <3> QED
      BY <3>6, <3>7, <3>8 DEF Download
  <2> QED
    BY <2>2, <2>3
<1>12. ASSUME k \in Uploads PROVE Upload(k)'
  <2>1. Upload(k) /\ k \notin writing
    BY <1>1, <1>12 DEF IInv, CoreA, Downloads
  <2>2. CM(k) # <<>> /\ told[k] # "listed"
    BY <1>4, <2>1 DEF Upload
  <2> QED
    BY <1>2, <1>4, <1>6, <1>8, <2>1, <2>2 DEF Upload
<1> QED
  BY <1>4, <1>7, <1>9, <1>10, <1>11, <1>12 DEF OneJob, Local
---------------------------------------------------------------------------
(* Parts of the state that several steps change alike.                     *)

LEMMA Membership ==
  ASSUME NEW S, NEW x
  PROVE  \E b \in BOOLEAN : b = (x \in S)
<1>1. CASE x \in S
  <2>1. TRUE = (x \in S)
    BY <1>1
  <2> QED
    BY <2>1, ZenonT(30)
<1>2. CASE x \notin S
  <2>1. FALSE = (x \in S)
    BY <1>2
  <2> QED
    BY <2>1, ZenonT(30)
<1> QED
  BY <1>1, <1>2

\* The content of the files is as before, whatever becomes of the parts.
LEMMA DsFinal ==
  ASSUME NEW j, version'[j] = version[j], Bad(j)' = Bad(j),
         \A f \in Files : dir'[j][f].final = dir[j][f].final
  PROVE  Ds(j)' = Ds(j) /\ Kept(j)
<1>1. \A f \in Files : <<j, f>> \in misplaced <=> <<j, f>> \in misplaced'
  BY BadIs
<1>2. \A f \in Files : Whole(j, f)' <=> Whole(j, f)
  BY DEF Whole
<1>3. Ds(j)' = Ds(j)
  BY <1>1, <1>2 DEF Ds
<1> QED
  BY <1>3 DEF Kept, Untouched

LEMMA WithoutIs ==
  ASSUME NEW q \in Seq(Jobs), NEW k
  PROVE  /\ Without(q, k) \in Seq(Jobs) /\ Elems(Without(q, k)) = Elems(q) \ {k}
         /\ IsInjective(q) => IsInjective(Without(q, k))
<1>1. Elems(q) \subseteq Jobs
  BY DEF Elems
<1>2. Elems(q) \cap (Jobs \ {k}) = Elems(q) \ {k}
  BY <1>1
<1> QED
  BY <1>2, OnlyElems DEF Without

LEMMA ReadsClient ==
  ASSUME CoreR, NEW q \in Seq(Jobs), Elems(q) \subseteq Uploads,
         reading' = [reading EXCEPT !["client"] = q]
  PROVE  CoreR' /\ \A j : Reads(j)' = Reads(j)
<1>1. reading' \in [Sides -> Seq(Jobs)] /\ reading'["client"] = q /\ reading'["server"] = reading["server"]
  BY DEF CoreR, Sides
<1> QED
  BY <1>1 DEF CoreR, Reads

LEMMA ReadsServer ==
  ASSUME CoreR, NEW q \in Seq(Jobs), Elems(q) \subseteq Downloads, IsInjective(q),
         reading' = [reading EXCEPT !["server"] = q]
  PROVE  /\ CoreR' /\ reading'["client"] = reading["client"]
         /\ \A j : Reads(j)' = (j \in Elems(q))
<1>1. reading' \in [Sides -> Seq(Jobs)] /\ reading'["server"] = q /\ reading'["client"] = reading["client"]
  BY DEF CoreR, Sides
<1> QED
  BY <1>1 DEF CoreR, Reads

LEMMA PromptsDropped ==
  ASSUME CoreB, NEW k, prompts' = {p \in prompts : p[1] # k}
  PROVE  /\ prompts' \subseteq (writing \ {k}) \X Files
         /\ Asked(k)' = {} /\ \A j \in Jobs \ {k} : Asked(j)' = Asked(j)
<1>1. prompts \subseteq writing \X Files
  BY DEF CoreB
<1>2. \A j, f : <<j, f>>[1] = j
  OBVIOUS
<1>3. \A p \in prompts' : p \in (writing \ {k}) \X Files
  BY <1>1
<1> QED
  BY <1>2, <1>3 DEF Asked

\* A message that is neither a request nor an answer is sent.
LEMMA AnsAppend ==
  ASSUME NEW reads, NEW r, NEW S, NEW sm \in Seq(S), NEW m \in S, m.t \notin {"send", "confirm"},
         Answers1(reads, r, sm)
  PROVE  Answers1(reads, r, Append(sm, m))
<1> DEFINE s == Append(sm, m)
<1>1. /\ s \in Seq(S) /\ Len(s) = Len(sm) + 1 /\ Len(sm) \in Nat /\ s[Len(sm) + 1] = m
      /\ DOMAIN s = 1 .. Len(s) /\ DOMAIN sm = 1 .. Len(sm)
      /\ \A i \in 1 .. Len(sm) : s[i] = sm[i]
  BY AppendProperties
<1>2. \A i \in DOMAIN s : i = Len(sm) + 1 \/ i \in DOMAIN sm
  BY <1>1
<1>3. s[1] = m \/ (sm # <<>> /\ s[1] = sm[1])
  <2>1. CASE sm = <<>>
    BY <1>1, <2>1
  <2>2. CASE sm # <<>>
    <3>1. 1 \in 1 .. Len(sm)
      BY <1>1, <2>2, EmptySeq
    <3> QED
      BY <1>1, <2>2, <3>1
  <2> QED
    BY <2>1, <2>2
<1> HIDE DEF s
<1>4. Answers1(reads, r, s)
  BY <1>1, <1>2, <1>3 DEF Answers1
<1> QED
  BY <1>4 DEF s

\* A job ends without being done.
LEMMA ContStops ==
  ASSUME NEW k, Cont(k), k \notin writing', version'[k] = version[k], decided'[k] = decided[k],
         Bad(k)' = Bad(k),
         Parts(dir'[k], version[k], Bad(k)), \A g \in Files : dir'[k][g].final = dir[k][g].final,
         \/ saved'[k] = saved[k] /\ kept'[k] = kept[k]
         \/ saved'[k] = -1
         \/ k \in writing /\ saved'[k] = writer[k].file /\ kept'[k] = decided[k],
         \/ told'[k] \in {"none", "error"} /\ (told'[k] = "error" => k \in failed')
         \/ told'[k] = told[k] /\ (k \in failed') = (k \in failed) /\ k \notin writing
  PROVE  Cont(k)'
<1>1. PICK in \in BOOLEAN : in = (k \in writing)
  BY Membership
<1>2. PICK fail \in BOOLEAN : fail = (k \in failed)
  BY Membership
<1>3. PICK fail2 \in BOOLEAN : fail2 = (k \in failed')
  BY Membership
<1>4. PICK told2, saved2, kept2, D2, v :
         told2 = told'[k] /\ saved2 = saved'[k] /\ kept2 = kept'[k] /\ D2 = dir'[k] /\ v = writer'[k]
  OBVIOUS
<1>5. Content(in, writer[k], dir[k], version[k], decided[k], Bad(k), saved[k], kept[k], told[k], fail)
  BY <1>1, <1>2 DEF Cont
<1>6. Parts(D2, version[k], Bad(k)) /\ \A g \in Files : D2[g].final = dir[k][g].final
  BY <1>4
<1>7. SavesAs(in, writer[k], decided[k], saved[k], kept[k], saved2, kept2)
  BY <1>1, <1>4, ZenonT(30) DEF SavesAs
<1>8. ShownAs(in, told[k], fail, told2, fail2)
  BY <1>1, <1>2, <1>3, <1>4, ZenonT(30) DEF ShownAs
<1>9. PICK in2 \in BOOLEAN : in2 = (k \in writing')
  BY Membership
<1>10. in \in BOOLEAN /\ in2 \in BOOLEAN /\ ~in2
  BY <1>1, <1>9, ZenonT(30)
<1>11. Content(in2, v, D2, version[k], decided[k], Bad(k), saved2, kept2, told2, fail2)
  BY <1>5, <1>6, <1>7, <1>8, <1>10, ContentStops
<1> QED
  BY <1>3, <1>4, <1>9, <1>11 DEF Cont
---------------------------------------------------------------------------
LEMMA StepClientError ==
  ASSUME IInv, ClientError, NEW k, k = Head(toClient).j
  PROVE  OneJob(k)
<1>1. CoreA /\ CoreR /\ CoreB /\ CoreC
  BY TypesAreCore DEF IInv
<1>2. /\ connected /\ toClient # <<>> /\ toClient' = Tail(toClient)
      /\ writing' = writing \ {k}
      /\ reading' = [reading EXCEPT !["client"] = IF k \in writing THEN @ ELSE Without(@, k)]
      /\ told' = [told EXCEPT ![k] = IF @ = "none" THEN "none" ELSE "error"]
      /\ failed' = failed \cup {k}
      /\ prompts' = {p \in prompts : p[1] # k}
      /\ UNCHANGED <<cmReads, connected, cmWriting, writer, reader, toServer, dir,
                     version, saved, decided, kept, misplaced, starts, breaks, faults>>
  BY DEF ClientError, ClientGets, Tell, DropPrompts
<1>3. TookC(k)
  BY <1>1, <1>2, ClientTakes
<1>4. /\ k \in Jobs /\ CM(k)' = Tail(CM(k)) /\ toClient' \in Seq(CMsgs)
      /\ \A j \in Jobs \ {k} : CM(j)' = CM(j)
  BY <1>3 DEF TookC
<1>5. CoreR' /\ \A j : Reads(j)' = Reads(j)
  <2> DEFINE q == IF k \in writing THEN reading["client"] ELSE Without(reading["client"], k)
  <2>1. reading["client"] \in Seq(Jobs) /\ Elems(reading["client"]) \subseteq Uploads
    BY <1>1 DEF CoreR, Sides
  <2>2. q \in Seq(Jobs) /\ Elems(q) \subseteq Uploads
    BY <2>1, WithoutIs
  <2>3. reading' = [reading EXCEPT !["client"] = q]
    BY <1>2
  <2> HIDE DEF q
  <2> QED
    BY <1>1, <2>2, <2>3, ReadsClient, ZenonT(30)
<1>6. /\ prompts' \subseteq (writing \ {k}) \X Files
      /\ Asked(k)' = {} /\ \A j \in Jobs \ {k} : Asked(j)' = Asked(j)
  BY <1>1, <1>2, PromptsDropped, ZenonT(30)
<1>7. /\ told' \in [Jobs -> {"none", "listed", "running", "done", "error"}]
      /\ \A j \in Jobs \ {k} : told'[j] = told[j]
      /\ told'[k] = IF told[k] = "none" THEN "none" ELSE "error"
  BY <1>1, <1>2, <1>4 DEF CoreB
<1>8. Types'
  <2>1. CoreA' /\ CoreC'
    BY <1>1, <1>2, <1>4 DEF CoreA, CoreC
  <2>2. CoreB'
    BY <1>1, <1>2, <1>4, <1>6, <1>7, ZenonT(30) DEF CoreB
  <2> QED
    BY <1>5, <2>1, <2>2, CoreIsTypes
<1>9. \A j \in Jobs : SM(j)' = SM(j) /\ Bad(j)' = Bad(j)
  BY <1>2 DEF SM, Bad
<1>10. \A j \in Jobs \ {k} : Same(j)
  BY <1>2, <1>4, <1>5, <1>6, <1>7, <1>9 DEF Same
<1>11. k \in failed' /\ k \notin writing'
  BY <1>2
<1>12. Stops(k) /\ Kept(k)
  <2>1. Ds(k)' = Ds(k) /\ Kept(k)
    BY <1>2, <1>4, <1>9, DsSame, KeptSame
  <2> QED
    BY <1>11, <2>1 DEF Stops, Ph, Ag
<1>13. ASSUME k \in Downloads PROVE Download(k)'
  <2>1. Prot(k) /\ Ans(k) /\ Cont(k)
    BY <1>13, DownloadParts DEF IInv
  <2>2. Prot(k)'
    BY <1>11, OutProt
  <2>3. Ans(k)'
    BY <1>2, <1>4, <1>5, <1>9, <2>1, AnsSame
  <2>4. Cont(k)'
    <3>1. Parts(dir[k], version[k], Bad(k))
      BY <2>1 DEF Cont, Content
    <3>2. told'[k] \in {"none", "error"} /\ (told'[k] = "error" => k \in failed')
      BY <1>7, <1>11
    <3> QED
      BY <1>2, <1>4, <1>9, <1>11, <2>1, <3>1, <3>2, ContStops
  <2> QED
    BY <2>2, <2>3, <2>4, DownloadParts
<1>14. ASSUME k \in Uploads PROVE Upload(k)'
  <2>1. Upload(k)
    BY <1>14 DEF IInv
  <2> QED
    BY <1>2, <1>7, <1>9, <1>4, <1>11, <2>1 DEF Upload
<1> QED
  BY <1>4, <1>8, <1>10, <1>12, <1>13, <1>14 DEF OneJob, Local

LEMMA StepCancelJob ==
  ASSUME IInv, NEW k \in Jobs, CancelJob(k)
  PROVE  OneJob(k)
<1> DEFINE m == [t |-> "cancel", j |-> k]
<1>1. CoreA /\ CoreR /\ CoreB /\ CoreC
  BY TypesAreCore DEF IInv
<1>2. /\ connected /\ ClientHas(k)
      /\ toServer' = Append(toServer, m)
      /\ dir' = IF k \in writing THEN [dir EXCEPT ![k] = RemoveDownloadFile(writer[k], @)] ELSE dir
      /\ writing' = writing \ {k}
      /\ reading' = [reading EXCEPT !["client"] = Without(@, k)]
      /\ told' = [told EXCEPT ![k] = "none"]
      /\ prompts' = {p \in prompts : p[1] # k}
      /\ UNCHANGED <<cmReads, connected, cmWriting, writer, reader, toClient,
                     version, saved, failed, decided, kept, misplaced, starts, breaks,
                     faults>>
  BY DEF CancelJob, DropPrompts
<1>3. m \in SMsg(k) /\ m.t = "cancel"
  BY DEF SMsg
<1>4. SentS(k, m)
  BY <1>1, <1>2, <1>3, ServerSent
<1>5. /\ toServer' \in Seq(SMsgs) /\ SM(k) \in Seq(SMsg(k)) /\ SM(k)' = Append(SM(k), m)
      /\ \A j \in Jobs \ {k} : SM(j)' = SM(j)
  BY <1>4 DEF SentS
<1> HIDE DEF m
<1>6. CoreR' /\ \A j : Reads(j)' = Reads(j)
  <2>1. reading["client"] \in Seq(Jobs) /\ Elems(reading["client"]) \subseteq Uploads
    BY <1>1 DEF CoreR, Sides
  <2>2. Without(reading["client"], k) \in Seq(Jobs) /\ Elems(Without(reading["client"], k)) \subseteq Uploads
    BY <2>1, WithoutIs
  <2> QED
    BY <1>1, <1>2, <2>2, ReadsClient, ZenonT(30)
<1>7. /\ prompts' \subseteq (writing \ {k}) \X Files
      /\ Asked(k)' = {} /\ \A j \in Jobs \ {k} : Asked(j)' = Asked(j)
  BY <1>1, <1>2, PromptsDropped, ZenonT(30)
<1>8. /\ told' \in [Jobs -> {"none", "listed", "running", "done", "error"}]
      /\ \A j \in Jobs \ {k} : told'[j] = told[j]
      /\ told'[k] = "none"
  BY <1>1, <1>2 DEF CoreB
<1>9. JobTypes(k)
  BY <1>1, TypesOfJob
<1>10. RemoveDownloadFile(writer[k], dir[k]) \in Dirs
       /\ \A g \in Files : RemoveDownloadFile(writer[k], dir[k])[g].final = dir[k][g].final
  BY <1>9, RemoveIs DEF JobTypes
<1>11. /\ dir' \in [Jobs -> Dirs] /\ \A j \in Jobs \ {k} : dir'[j] = dir[j]
       /\ dir'[k] = IF k \in writing THEN RemoveDownloadFile(writer[k], dir[k]) ELSE dir[k]
  BY <1>1, <1>2, <1>10 DEF CoreB
<1>12. Types'
  <2>1. CoreA' /\ CoreC'
    BY <1>1, <1>2, <1>5 DEF CoreA, CoreC
  <2>2. CoreB'
    BY <1>1, <1>2, <1>7, <1>8, <1>11 DEF CoreB
  <2> QED
    BY <1>6, <2>1, <2>2, CoreIsTypes
<1>13. \A j \in Jobs : CM(j)' = CM(j) /\ Bad(j)' = Bad(j)
  BY <1>2 DEF CM, Bad
<1>14. \A j \in Jobs \ {k} : Same(j)
  BY <1>2, <1>5, <1>6, <1>7, <1>8, <1>11, <1>13 DEF Same
<1>15. k \notin writing' /\ \A g \in Files : dir'[k][g].final = dir[k][g].final
  BY <1>2, <1>10, <1>11
<1>16. Stops(k) /\ Kept(k)
  <2>1. Ds(k)' = Ds(k) /\ Kept(k)
    BY <1>2, <1>13, <1>15, DsFinal
  <2> QED
    BY <1>8, <2>1 DEF Stops, Ph, Ag
<1>17. ASSUME k \in Downloads PROVE Download(k)'
  <2>1. Prot(k) /\ Ans(k) /\ Cont(k)
    BY <1>17, DownloadParts DEF IInv
  <2>2. Prot(k)'
    BY <1>15, OutProt
  <2>3. Ans(k)'
    <3>1. Answers1(Reads(k), reader[k], Append(SM(k), m))
      BY <1>3, <1>5, <2>1, AnsAppend DEF Ans
    <3> QED
      BY <1>2, <1>5, <1>6, <3>1 DEF Ans
  <2>4. Parts(dir'[k], version[k], Bad(k))
    <3>1. Parts(dir[k], version[k], Bad(k))
      BY <2>1 DEF Cont, Content
    <3> QED
      BY <1>9, <1>11, <3>1, PartsRemoved DEF JobTypes
  <2>5. Cont(k)'
    BY <1>2, <1>8, <1>13, <1>15, <2>1, <2>4, ContStops
  <2> QED
    BY <2>2, <2>3, <2>5, DownloadParts
<1>18. ASSUME k \in Uploads PROVE Upload(k)'
  <2>1. Upload(k) /\ k \notin writing
    BY <1>1, <1>18 DEF IInv, CoreA, Downloads
  <2> QED
    BY <1>2, <1>8, <1>11, <1>13, <2>1 DEF Upload
<1> QED
  BY <1>12, <1>14, <1>16, <1>17, <1>18 DEF OneJob, Local

---------------------------------------------------------------------------
(* The user starts, resumes and answers.                                   *)

LEMMA AppendElems ==
  ASSUME NEW S, NEW q \in Seq(S), NEW x \in S
  PROVE  /\ Append(q, x) \in Seq(S) /\ Elems(Append(q, x)) = Elems(q) \cup {x}
         /\ IsInjective(q) /\ x \notin Elems(q) => IsInjective(Append(q, x))
<1> DEFINE s == Append(q, x)
<1>1. /\ s \in Seq(S) /\ Len(s) = Len(q) + 1 /\ Len(q) \in Nat /\ s[Len(q) + 1] = x
      /\ DOMAIN s = 1 .. Len(s) /\ DOMAIN q = 1 .. Len(q)
      /\ \A i \in 1 .. Len(q) : s[i] = q[i]
  BY AppendProperties
<1>2. /\ \A i \in DOMAIN s : i = Len(q) + 1 \/ i \in DOMAIN q
      /\ Len(q) + 1 \in DOMAIN s /\ \A i \in DOMAIN q : i \in DOMAIN s
  BY <1>1
<1> HIDE DEF s
<1>3. Elems(s) = Elems(q) \cup {x}
  BY <1>1, <1>2 DEF Elems
<1>4. IsInjective(q) /\ x \notin Elems(q) => IsInjective(s)
  BY <1>1, <1>2 DEF Elems, IsInjective
<1> QED
  BY <1>1, <1>3, <1>4 DEF s

\* The request of a new or a resumed job is all there is of it.
LEMMA RequestProt ==
  ASSUME NEW k, NEW m, m.t = "send", m.file = writer'[k].file, SM(k)' = <<m>>, CM(k)' = <<>>,
         Asked(k)' = {}, ~Reads(k)', ~writer'[k].listed, writer'[k].pos = -1, ~writer'[k].last
  PROVE  Prot(k)' /\ Ans(k)'
<1>1. Len(<<m>>) = 1 /\ <<m>>[1] = m /\ DOMAIN <<m>> = {1}
  OBVIOUS
<1>2. Requested(writer'[k], Reads(k)', CM(k)', SM(k)', Asked(k)')
  BY <1>1 DEF Requested
<1>3. Ans(k)'
  BY <1>1 DEF Ans, Answers1
<1> QED
  BY <1>2, <1>3 DEF Prot, Protocol

LEMMA NothingAgreed ==
  ASSUME NEW k, decided[k] = Unanswered, decided'[k] = Unanswered
  PROVE  Ag(k) = {} /\ Ag(k)' = {}
<1>1. \A f \in Files : Unanswered[f] # "copy"
  BY DEF Unanswered
<1> QED
  BY <1>1 DEF Ag

LEMMA StepSendFiles ==
  ASSUME IInv, NEW k \in Jobs, SendFiles(k)
  PROVE  OneJob(k)
<1>1. CoreA /\ CoreR /\ CoreB /\ CoreC
  BY TypesAreCore DEF IInv
<1>2. /\ connected /\ Unused(k) /\ starts < MaxStarts
      /\ starts' = starts + 1
      /\ told' = [told EXCEPT ![k] = "running"]
      /\ failed' = failed \ {k}
      /\ decided' = [decided EXCEPT ![k] = Unanswered]
      /\ kept' = [kept EXCEPT ![k] = Unanswered]
      /\ UNCHANGED <<cmReads, connected, cmWriting, toClient, dir, version, saved,
                     prompts, misplaced, breaks, faults>>
  BY DEF SendFiles
<1>3. /\ k \notin writing /\ k \notin Elems(reading["client"]) /\ ~Reads(k)
      /\ CM(k) = <<>> /\ SM(k) = <<>> /\ Asked(k) = {}
  <2>1. /\ k \notin writing /\ k \notin Elems(reading["client"]) /\ k \notin Elems(reading["server"])
        /\ \A x \in Elems(toClient) : x.j # k
        /\ \A x \in Elems(toServer) : x.j # k
    BY <1>2 DEF Unused, ClientHas
  <2>2. Asked(k) = {}
    BY <1>1, <2>1 DEF CoreB, Asked
  <2> QED
    BY <1>1, <2>1, <2>2, NoneC, NoneS DEF CoreA, CM, SM, Reads
<1>4. Unanswered \in Answers
  BY DEF Unanswered, Answers
<1>5. CoreB' /\ \A j \in Jobs \ {k} : told'[j] = told[j] /\ decided'[j] = decided[j] /\ kept'[j] = kept[j]
  <2>1. /\ told' \in [Jobs -> {"none", "listed", "running", "done", "error"}]
        /\ decided' \in [Jobs -> Answers] /\ kept' \in [Jobs -> Answers]
    BY <1>1, <1>2, <1>4 DEF CoreB
  <2>2. starts' \in 0 .. MaxStarts
    BY <1>1, <1>2, FileTransferAssumption DEF CoreB
  <2>3. prompts' \subseteq writing' \X Files
    BY <1>1, <1>2, ZenonT(30) DEF CoreB, SendFiles
  <2> QED
    BY <1>1, <1>2, <2>1, <2>2, <2>3 DEF CoreB
<1>6. told'[k] = "running" /\ decided'[k] = Unanswered /\ kept'[k] = Unanswered /\ k \notin failed'
  BY <1>1, <1>2 DEF CoreB
<1>7. \A j \in Jobs : CM(j)' = CM(j) /\ Bad(j)' = Bad(j) /\ Asked(j)' = Asked(j)
  BY <1>2 DEF CM, Bad, Asked
<1>8. Ds(k)' = Ds(k) /\ Kept(k)
  BY <1>2, <1>7, DsSame, KeptSame
<1>9. JobTypes(k)
  BY <1>1, TypesOfJob
<1>10. Ph(k)' = "running"
  BY <1>6 DEF Ph
<1> DEFINE no == FALSE
           yes == TRUE
<1>11. NewJob(0, no) \in Job /\ NewJob(0, yes) \in Job
  <2>1. 0 \in 0 .. NFiles /\ no \in BOOLEAN /\ yes \in BOOLEAN
    BY TransferJobAssumption
  <2> HIDE DEF no, yes
  <2> QED
    BY <2>1, NewJobType
<1>12. CASE k \in Uploads
  <2> DEFINE m == [t |-> "receive", j |-> k, file |-> 0]
  <2>1. /\ reading' = [reading EXCEPT !["client"] = Append(@, k)]
        /\ reader' = [reader EXCEPT ![k] = NewJob(0, yes)]
        /\ toServer' = Append(toServer, m)
        /\ UNCHANGED <<writing, writer>>
    BY <1>12, ZenonT(30) DEF SendFiles
  <2>2. m \in SMsg(k)
    BY <1>12, TransferJobAssumption DEF SMsg
  <2>3. SentS(k, m)
    BY <1>1, <2>1, <2>2, ServerSent
  <2> HIDE DEF m, yes
  <2>4. toServer' \in Seq(SMsgs) /\ \A j \in Jobs \ {k} : SM(j)' = SM(j)
    BY <2>3 DEF SentS
  <2>5. CoreR' /\ \A j : Reads(j)' = Reads(j)
    <3>1. reading["client"] \in Seq(Jobs) /\ Elems(reading["client"]) \subseteq Uploads
      BY <1>1 DEF CoreR, Sides
    <3>2. Append(reading["client"], k) \in Seq(Jobs) /\ Elems(Append(reading["client"], k)) \subseteq Uploads
      BY <1>12, <3>1, AppendElems
    <3> QED
      BY <1>1, <2>1, <3>2, ReadsClient, ZenonT(30)
  <2>6. reader' \in [Jobs -> Job] /\ \A j \in Jobs \ {k} : reader'[j] = reader[j]
    BY <1>1, <1>11, <2>1 DEF CoreA
  <2>7. Types'
    <3>1. CoreA' /\ CoreC'
      BY <1>1, <1>2, <2>1, <2>4, <2>6 DEF CoreA, CoreC
    <3> QED
      BY <1>5, <2>5, <3>1, CoreIsTypes
  <2>8. \A j \in Jobs \ {k} : Same(j)
    BY <1>2, <1>5, <1>7, <2>1, <2>4, <2>5, <2>6 DEF Same
  <2>9. Upload(k) /\ k \notin Downloads
    BY <1>12 DEF IInv, Downloads
  <2>10. Upload(k)'
    BY <1>2, <1>6, <1>7, <2>1, <2>9 DEF Upload
  <2>11. Ag(k) = {} /\ Ag(k)' = {}
    BY <1>6, <2>9, NothingAgreed DEF Upload
  <2>12. Quiet(k) \/ Begins1(k)
    BY <1>8, <1>10, <2>11 DEF Quiet, Begins1
  <2> QED
    BY <1>8, <2>7, <2>8, <2>9, <2>10, <2>12 DEF OneJob, Local
<1>13. CASE k \notin Uploads
  <2> DEFINE m == [t |-> "send", j |-> k, file |-> 0]
             w == NewJob(0, no)
  <2>1. /\ writing' = writing \cup {k}
        /\ writer' = [writer EXCEPT ![k] = w]
        /\ toServer' = Append(toServer, m)
        /\ UNCHANGED <<reading, reader>>
    BY <1>13, ZenonT(30) DEF SendFiles
  <2>2. m \in SMsg(k) /\ k \in Downloads /\ m.t = "send" /\ m.file = 0
    BY <1>13, TransferJobAssumption DEF SMsg, Downloads
  <2>3. SentS(k, m)
    BY <1>1, <2>1, <2>2, ServerSent
  <2>4. w.file = 0 /\ ~w.listed /\ w.pos = -1 /\ ~w.last /\ w \in Job
    BY <1>11 DEF NewJob
  <2>5. Content(TRUE, w, dir[k], version[k], Unanswered, Bad(k), saved[k], Unanswered, "running", FALSE)
    <3>1. PICK in \in BOOLEAN : in = (k \in writing)
      BY Membership
    <3>2. Cont(k) /\ in \in BOOLEAN
      BY <2>2, <3>1, DownloadParts DEF IInv
    <3>3. Content(in, writer[k], dir[k], version[k], decided[k], Bad(k), saved[k], kept[k], told[k], k \in failed)
      BY <3>1, <3>2 DEF Cont
    <3> QED
      BY <3>2, <3>3, ContentStarts, ZenonT(30)
  <2> HIDE DEF m, w
  <2>6. toServer' \in Seq(SMsgs) /\ SM(k)' = <<m>> /\ \A j \in Jobs \ {k} : SM(j)' = SM(j)
    BY <1>3, <2>3 DEF SentS
  <2>7. /\ writer' \in [Jobs -> Job] /\ \A j \in Jobs \ {k} : writer'[j] = writer[j]
        /\ writer'[k] = w
    BY <1>1, <2>1, <2>4 DEF CoreA
  <2>8. \A j : Reads(j)' = Reads(j)
    BY <2>1 DEF Reads
  <2>9. Types'
    <3>1. CoreA' /\ CoreC' /\ CoreR'
      BY <1>1, <1>2, <2>1, <2>2, <2>6, <2>7 DEF CoreA, CoreC, CoreR
    <3> QED
      BY <1>5, <3>1, CoreIsTypes
  <2>10. \A j \in Jobs \ {k} : Same(j)
    BY <1>2, <1>5, <1>7, <2>1, <2>6, <2>7, <2>8 DEF Same
  <2>11. Prot(k)' /\ Ans(k)'
    BY <1>3, <1>7, <2>2, <2>4, <2>6, <2>7, <2>8, RequestProt
  <2>12. Cont(k)'
    <3>1. (k \in writing') = TRUE /\ (k \in failed') = FALSE
      BY <1>6, <2>1
    <3> QED
      BY <1>2, <1>6, <1>7, <2>5, <2>7, <3>1, ZenonT(30) DEF Cont
  <2>13. Download(k)'
    BY <2>11, <2>12, DownloadParts
  <2>14. Begins1(k)
    <3>1. Cont(k)
      BY <2>2, DownloadParts DEF IInv
    <3>2. told[k] # "running"
      BY <1>3, <3>1 DEF Cont, Content, Shown
    <3>3. Ph(k) # "running"
      BY <3>2 DEF Ph
    <3> QED
      BY <1>8, <1>10, <3>3 DEF Begins1
  <2> QED
    BY <1>8, <1>13, <2>9, <2>10, <2>13, <2>14 DEF OneJob, Local
<1> QED
  BY <1>12, <1>13

LEMMA StepResumeJob ==
  ASSUME IInv, NEW k \in Jobs, ResumeJob(k)
  PROVE  OneJob(k)
<1>1. CoreA /\ CoreR /\ CoreB /\ CoreC
  BY TypesAreCore DEF IInv
<1>2. /\ connected /\ starts < MaxStarts
      /\ starts' = starts + 1
      /\ told' = [told EXCEPT ![k] = "running"]
      /\ failed' = failed \ {k}
      /\ UNCHANGED <<cmReads, connected, writing, cmWriting, reading, toClient,
                     dir, version, saved, prompts, decided, kept, misplaced, breaks,
                     faults>>
  BY DEF ResumeJob
<1>3. CoreB' /\ CoreR' /\ \A j \in Jobs \ {k} : told'[j] = told[j]
  <2>1. told' \in [Jobs -> {"none", "listed", "running", "done", "error"}]
    BY <1>1, <1>2 DEF CoreB
  <2>2. starts' \in 0 .. MaxStarts
    BY <1>1, <1>2, FileTransferAssumption DEF CoreB
  <2> QED
    BY <1>1, <1>2, <2>1, <2>2, ZenonT(30) DEF CoreB, CoreR
<1>4. told'[k] = "running" /\ k \notin failed'
  BY <1>1, <1>2 DEF CoreB
<1>5. \A j \in Jobs : CM(j)' = CM(j) /\ Bad(j)' = Bad(j) /\ Asked(j)' = Asked(j) /\ Reads(j)' = Reads(j)
  BY <1>2 DEF CM, Bad, Asked, Reads
<1>6. Ds(k)' = Ds(k) /\ Kept(k)
  BY <1>2, <1>5, DsSame, KeptSame
<1>7. writer[k] \in Job /\ reader[k] \in Job /\ writer[k].file \in 0 .. NFiles /\ reader[k].file \in 0 .. NFiles
  BY <1>1 DEF CoreA, Job
<1>8. Ph(k)' = "running"
  BY <1>4 DEF Ph
<1>9. CASE k \in Uploads
  <2> DEFINE m == [t |-> "receive", j |-> k, file |-> reader[k].file]
             r == [reader[k] EXCEPT !.last = FALSE, !.resume = TRUE]
  <2>1. /\ reader' = [reader EXCEPT ![k] = r]
        /\ toServer' = Append(toServer, m)
        /\ UNCHANGED writer
    <3>1. reader \in [Jobs -> Job]
      BY <1>1 DEF CoreA
    <3>2. reader' = [reader EXCEPT ![k].last = FALSE, ![k].resume = TRUE]
      BY <1>9, ZenonT(30) DEF ResumeJob
    <3>3. reader' = [reader EXCEPT ![k] = r]
      BY <3>1, <3>2, ZenonT(30)
    <3> QED
      BY <1>9, <3>3 DEF ResumeJob
  <2>2. m \in SMsg(k)
    BY <1>7, <1>9 DEF SMsg
  <2>3. SentS(k, m)
    BY <1>1, <2>1, <2>2, ServerSent
  <2>4. r \in Job
    BY <1>7, ZenonT(30) DEF Job
  <2> HIDE DEF m, r
  <2>5. toServer' \in Seq(SMsgs) /\ \A j \in Jobs \ {k} : SM(j)' = SM(j)
    BY <2>3 DEF SentS
  <2>6. reader' \in [Jobs -> Job] /\ \A j \in Jobs \ {k} : reader'[j] = reader[j]
    BY <1>1, <2>1, <2>4 DEF CoreA
  <2>7. Types'
    <3>1. CoreA' /\ CoreC'
      BY <1>1, <1>2, <2>1, <2>5, <2>6 DEF CoreA, CoreC
    <3> QED
      BY <1>3, <3>1, CoreIsTypes
  <2>8. \A j \in Jobs \ {k} : Same(j)
    BY <1>2, <1>3, <1>5, <2>1, <2>5, <2>6 DEF Same
  <2>9. Upload(k) /\ k \notin Downloads
    BY <1>9 DEF IInv, Downloads
  <2>10. Upload(k)'
    BY <1>2, <1>4, <1>5, <2>1, <2>9 DEF Upload
  <2>11. Ag(k) = {} /\ Ag(k)' = {}
    BY <1>2, <2>9, NothingAgreed DEF Upload
  <2>12. Quiet(k) \/ Begins1(k)
    BY <1>6, <1>8, <2>11 DEF Quiet, Begins1
  <2> QED
    BY <1>6, <2>7, <2>8, <2>9, <2>10, <2>12 DEF OneJob, Local
<1>10. CASE k \notin Uploads
  <2> DEFINE m == [t |-> "send", j |-> k, file |-> writer[k].file]
             w == writer[k]
             v == [w EXCEPT !.last = FALSE, !.resume = TRUE]
  <2>1. /\ k \in writing /\ w.last
        /\ writer' = [writer EXCEPT ![k] = v]
        /\ toServer' = Append(toServer, m)
        /\ UNCHANGED reader
    <3>1. writer \in [Jobs -> Job]
      BY <1>1 DEF CoreA
    <3>2. writer' = [writer EXCEPT ![k].last = FALSE, ![k].resume = TRUE]
      BY <1>10, ZenonT(30) DEF ResumeJob
    <3>3. writer' = [writer EXCEPT ![k] = v]
      BY <3>1, <3>2, ZenonT(30)
    <3> QED
      BY <1>10, <3>3 DEF ResumeJob
  <2>2. m \in SMsg(k) /\ k \in Downloads /\ m.t = "send" /\ m.file = w.file
    BY <1>7, <1>10 DEF SMsg, Downloads
  <2>3. SentS(k, m)
    BY <1>1, <2>1, <2>2, ServerSent
  <2>4. /\ v.file = w.file /\ v.pos = w.pos /\ v.listed = w.listed /\ v.skipped = w.skipped
        /\ ~v.last /\ v \in Job
    BY <1>7, ZenonT(30) DEF Job
  <2>5. Prot(k) /\ Cont(k)
    BY <2>2, DownloadParts DEF IInv
  <2>6. Listed(w, Reads(k), CM(k), SM(k), Asked(k))
    BY <2>1, <2>5 DEF Prot, Protocol
  <2>7. Content(TRUE, v, dir[k], version[k], decided[k], Bad(k), saved[k], kept[k], "running", FALSE)
    <3>1. (k \in writing) = TRUE
      BY <2>1
    <3>2. Content(TRUE, w, dir[k], version[k], decided[k], Bad(k), saved[k], kept[k], told[k], k \in failed)
      BY <2>5, <3>1, ZenonT(30) DEF Cont
    <3> QED
      BY <2>4, <3>2, ContentResume, ZenonT(30)
  <2>8. told[k] = "listed"
    BY <2>1, <2>5 DEF Cont, Content, Shown
  <2> HIDE DEF m, w, v
  <2>9. /\ ~w.listed /\ w.pos = -1 /\ CM(k) = <<>> /\ SM(k) = <<>> /\ Asked(k) = {} /\ ~Reads(k)
    BY <2>6 DEF Listed
  <2>10. toServer' \in Seq(SMsgs) /\ SM(k)' = <<m>> /\ \A j \in Jobs \ {k} : SM(j)' = SM(j)
    BY <2>3, <2>9 DEF SentS
  <2>11. /\ writer' \in [Jobs -> Job] /\ \A j \in Jobs \ {k} : writer'[j] = writer[j]
         /\ writer'[k] = v
    BY <1>1, <2>1, <2>4 DEF CoreA
  <2>12. Types'
    <3>1. CoreA' /\ CoreC'
      BY <1>1, <1>2, <2>1, <2>10, <2>11 DEF CoreA, CoreC
    <3> QED
      BY <1>3, <3>1, CoreIsTypes
  <2>13. \A j \in Jobs \ {k} : Same(j)
    BY <1>2, <1>3, <1>5, <2>1, <2>10, <2>11 DEF Same
  <2>14. Prot(k)' /\ Ans(k)'
    BY <1>5, <2>2, <2>4, <2>9, <2>10, <2>11, RequestProt
  <2>15. Cont(k)'
    <3>1. (k \in writing') = TRUE /\ (k \in failed') = FALSE
      BY <1>2, <1>4, <2>1
    <3> QED
      BY <1>2, <1>4, <1>5, <2>7, <2>11, <3>1, ZenonT(30) DEF Cont
  <2>16. Download(k)'
    BY <2>14, <2>15, DownloadParts
  <2>17. Begins1(k)
    <3>1. Ph(k) # "running"
      BY <2>8 DEF Ph
    <3> QED
      BY <1>6, <1>8, <3>1 DEF Begins1
  <2> QED
    BY <1>6, <1>10, <2>12, <2>13, <2>16, <2>17 DEF OneJob, Local
<1> QED
  BY <1>9, <1>10

\* What answering for a file changes.
DecidedAs(k, job, f, skip, offset) ==
    /\ writer' \in [Jobs -> Job] /\ \A j \in Jobs \ {k} : writer'[j] = writer[j]
    /\ writer'[k] = Confirm(job, dir[k], Answer(k, f, skip, offset))
    /\ SentS(k, Answer(k, f, skip, offset))
    /\ decided' \in [Jobs -> Answers] /\ \A j \in Jobs \ {k} : decided'[j] = decided[j]
    /\ decided'[k] = [decided[k] EXCEPT ![f] = IF skip THEN "skip" ELSE "copy"]
    /\ misplaced' \subseteq Jobs \X Files /\ \A j \in Jobs \ {k} : Bad(j)' = Bad(j)
    /\ Bad(k)' = IF ~skip /\ offset > 0 /\ job.file # f THEN Bad(k) \cup {f} ELSE Bad(k)

LEMMA AnswerFields ==
  ASSUME NEW k, NEW f, NEW skip, NEW offset
  PROVE  /\ Answer(k, f, skip, offset).t = "confirm" /\ Answer(k, f, skip, offset).file = f
         /\ Answer(k, f, skip, offset).skip = skip /\ Answer(k, f, skip, offset).offset = offset
BY DEF Answer

LEMMA DecideFrame ==
  ASSUME CoreA, CoreB, NEW k \in Downloads, NEW f \in Files, NEW job \in Job, NEW skip \in BOOLEAN,
         NEW offset \in Nat, Decide(k, job, f, skip, offset)
  PROVE  DecidedAs(k, job, f, skip, offset)
<1> DEFINE a == Answer(k, f, skip, offset)
           ans == IF skip THEN "skip" ELSE "copy"
<1>1. /\ writer' = [writer EXCEPT ![k] = Confirm(job, dir[k], a)]
      /\ toServer' = Append(toServer, a)
      /\ decided' = [decided EXCEPT ![k][f] = ans]
      /\ misplaced' = IF ~skip /\ offset > 0 /\ job.file # f
                      THEN misplaced \cup {<<k, f>>} ELSE misplaced
  BY DEF Decide
<1>2. k \in Jobs /\ k \notin Uploads
  BY DEF Downloads
<1>3. a \in SMsg(k)
  BY <1>2 DEF SMsg, Answer
<1>4. SentS(k, a)
  BY <1>1, <1>2, <1>3, ServerSent
<1>5. Confirm(job, dir[k], a) \in Job
  <2>1. a.offset \in Nat /\ a.file = f /\ f < NFiles
    BY TransferJobAssumption DEF Answer, Files
  <2> HIDE DEF a
  <2> QED
    BY <2>1, ConfirmType
<1> HIDE DEF a
<1>6. /\ writer' \in [Jobs -> Job] /\ \A j \in Jobs \ {k} : writer'[j] = writer[j]
      /\ writer'[k] = Confirm(job, dir[k], a)
  BY <1>1, <1>2, <1>5 DEF CoreA
<1>7. ans \in {"open", "copy", "skip"} /\ decided \in [Jobs -> Answers] /\ decided[k] \in Answers
  BY <1>2 DEF CoreB
<1>8. [decided[k] EXCEPT ![f] = ans] \in Answers
  BY <1>7 DEF Answers
<1> HIDE DEF ans
<1>9. decided' = [decided EXCEPT ![k] = [decided[k] EXCEPT ![f] = ans]]
  BY <1>1, <1>2, <1>7
<1>10. /\ decided' \in [Jobs -> Answers] /\ \A j \in Jobs \ {k} : decided'[j] = decided[j]
       /\ decided'[k] = [decided[k] EXCEPT ![f] = ans]
  BY <1>2, <1>7, <1>8, <1>9
<1>11. misplaced' \subseteq Jobs \X Files
  BY <1>1, <1>2 DEF CoreB
<1>12. \A j, g : <<j, g>> = <<k, f>> <=> j = k /\ g = f
  OBVIOUS
<1>13. /\ \A j \in Jobs \ {k} : Bad(j)' = Bad(j)
       /\ Bad(k)' = IF ~skip /\ offset > 0 /\ job.file # f THEN Bad(k) \cup {f} ELSE Bad(k)
  BY <1>1, <1>12 DEF Bad
<1> QED
  BY <1>4, <1>6, <1>10, <1>11, <1>13 DEF DecidedAs, a, ans

\* The writer has come to file f, with which the reader waits; job is the
\* writing job after the digest has been noted.
AtQuestion(k, job, f) ==
    /\ k \in writing /\ ~writer[k].last /\ writer[k].listed
    /\ CaughtUp(writer[k], f, decided[k], Bad(k)) /\ SM(k) = <<>>
    /\ Reads(k) /\ f = reader[k].file /\ ~reader[k].confirmed /\ reader[k].waiting /\ reader[k].pos = 0
    /\ job.file = writer[k].file /\ job.pos = writer[k].pos /\ job.skipped = writer[k].skipped
    /\ job.last = writer[k].last /\ job.listed = writer[k].listed
    /\ job.digest = version[k][f]

OnlyAnswered(k) ==
    /\ k \in writing' /\ CM(k)' = <<>> /\ Asked(k)' = {}
    /\ Reads(k)' = Reads(k) /\ reader'[k] = reader[k] /\ version'[k] = version[k] /\ dir'[k] = dir[k]
    /\ saved'[k] = saved[k] /\ kept'[k] = kept[k] /\ told'[k] = told[k]
    /\ (k \in failed') = (k \in failed)

\* The writer answers for the file the reader waits with.
LEMMA DecideDownload ==
  ASSUME CoreA, CoreB, NEW k \in Downloads, NEW f \in Files, NEW job \in Job, NEW skip \in BOOLEAN,
         NEW offset \in Nat, DecidedAs(k, job, f, skip, offset), Cont(k), AtQuestion(k, job, f),
         Resumes(dir[k], version[k], f, skip, offset), OnlyAnswered(k)
  PROVE  Download(k)' /\ Agrees(k)
<1> DEFINE a == Answer(k, f, skip, offset)
           v == Confirm(job, dir[k], a)
<1>1. /\ writer'[k] = v /\ SentS(k, a) /\ decided'[k] = [decided[k] EXCEPT ![f] = IF skip THEN "skip" ELSE "copy"]
      /\ Bad(k)' = IF ~skip /\ offset > 0 /\ job.file # f THEN Bad(k) \cup {f} ELSE Bad(k)
      /\ writer'[k] \in Job
  BY DEF DecidedAs, Downloads
<1>2. a.t = "confirm" /\ a.file = f /\ a.skip = skip /\ a.offset = offset
  BY AnswerFields
<1> HIDE DEF a
<1>3. SM(k)' = <<a>>
  BY <1>1 DEF SentS, AtQuestion
<1>4. JobTypes(k)
  BY TypesOfJob DEF Downloads
<1>5. version[k][f] # NoDigest /\ f < NFiles
  <2>1. version[k][f] \in 1 .. MaxVersion
    BY <1>4 DEF JobTypes
  <2> QED
    BY <2>1, TransferJobAssumption DEF NoDigest, Files
<1>6. CaughtUp(job, f, decided[k], Bad(k))
  BY DEF AtQuestion, CaughtUp, Ready, Complete
<1> DEFINE dec2 == DecAfter(decided[k], f, skip)
           bad2 == BadAfter(Bad(k), job, f, skip, offset)
<1>7. FedBy(job, v, f, version[k], dec2, bad2, skip, offset)
  <2>1. decided[k] \in Answers /\ (offset > 0 => ~skip /\ dir[k][f].part # NoFile /\ dir[k][f].digest # NoDigest)
    BY <1>4, <1>5 DEF JobTypes, Resumes
  <2>2. job.digest = version[k][f]
    BY DEF AtQuestion
  <2> QED
    BY <1>2, <1>6, <2>1, <2>2, AnswerIsFed, ZenonT(30)
<1>8. Content(TRUE, v, dir[k], version[k], dec2, bad2, saved[k], kept[k], told[k], k \in failed)
  <2>1. PICK fail \in BOOLEAN : fail = (k \in failed)
    BY Membership
  <2>2. (k \in writing) = TRUE /\ fail \in BOOLEAN
    BY <2>1 DEF AtQuestion
  <2>3. Content(TRUE, writer[k], dir[k], version[k], decided[k], Bad(k), saved[k], kept[k], told[k], fail)
    BY <2>1, <2>2, ZenonT(30) DEF Cont
  <2>4. Content(TRUE, job, dir[k], version[k], decided[k], Bad(k), saved[k], kept[k], told[k], fail)
    <3>1. /\ job.file = writer[k].file /\ job.pos = writer[k].pos /\ job.skipped = writer[k].skipped
          /\ job.last = writer[k].last /\ (writer[k].listed => job.listed)
      BY DEF AtQuestion
    <3> QED
      BY <2>3, <3>1, ContentSame, ZenonT(30)
  <2>5. /\ dir[k] \in Dirs /\ version[k] \in [Files -> 1 .. MaxVersion] /\ decided[k] \in Answers
        /\ saved[k] \in -1 .. NFiles /\ kept[k] \in Answers
    BY <1>4 DEF JobTypes
  <2>7. Content(TRUE, v, dir[k], version[k], dec2, bad2, saved[k], kept[k], told[k], fail)
    <3>1. ~job.last /\ job.listed
      BY DEF AtQuestion
    <3> HIDE DEF v
    <3>2. v = Confirm(job, dir[k], a)
      BY DEF v
    <3>3. Answering(job, dir[k], version[k], decided[k], Bad(k), saved[k], kept[k], told[k], fail,
                    f, skip, offset, a)
      BY <1>2, <1>6, <2>2, <2>4, <2>5, <3>1, ZenonT(30) DEF Answering
    <3>4. Content(TRUE, Confirm(job, dir[k], a), dir[k], version[k], dec2, bad2, saved[k], kept[k], told[k], fail)
      BY <3>3, ContentDecides, ZenonT(30)
    <3> QED
      BY <3>2, <3>4, ZenonT(30)
  <2> QED
    BY <2>1, <2>7, ZenonT(30)
<1>9. decided'[k] = dec2 /\ Bad(k)' = bad2
  BY <1>1 DEF DecAfter, BadAfter
<1> HIDE DEF v, dec2, bad2
<1>10. Prot(k)'
  <2>1. Len(<<a>>) = 1 /\ <<a>>[1] = a
    OBVIOUS
  <2>2. /\ a.skip => dec2[f] = "skip" /\ CaughtUp(v, f + 1, dec2, bad2)
        /\ ~a.skip => Fed(v, f, a.offset, version[k], dec2, bad2)
        /\ v.listed /\ ~v.last /\ v \in Job
    BY <1>1, <1>2, <1>7 DEF FedBy, AtQuestion
  <2>3. Flow(k, v, Reads(k), reader[k], <<>>, <<a>>, version[k], {}, dec2, bad2, 0, 0, f, 0)
    <3>1. Reads(k) /\ f = reader[k].file /\ ~reader[k].confirmed /\ reader[k].waiting /\ reader[k].pos = 0
      BY DEF AtQuestion
    <3> QED
      BY <1>2, <1>5, <2>1, <2>2, <3>1, FlowAnswer, ZenonT(30)
  <2>4. FlowAt(k, 0, 0, f, 0)'
    BY <1>1, <1>3, <1>9, <2>3, ZenonT(30) DEF FlowAt, OnlyAnswered
  <2>5. 0 \in 0 .. 1 /\ 0 \in Nat /\ ~writer'[k].last
    BY <1>1, <2>2
  <2> QED
    BY <2>4, <2>5, FlowProt
<1>11. Ans(k)'
  <2>1. Len(<<a>>) = 1 /\ <<a>>[1] = a /\ DOMAIN <<a>> = {1}
    OBVIOUS
  <2> QED
    BY <1>2, <1>3, <2>1 DEF Ans, Answers1, AtQuestion, OnlyAnswered
<1>12. Cont(k)'
  <2>1. (k \in writing') = TRUE
    BY DEF OnlyAnswered
  <2> QED
    BY <1>1, <1>8, <1>9, <2>1, ZenonT(30) DEF Cont, OnlyAnswered
<1>13. Agrees(k)
  <2>1. told[k] = "running" /\ k \notin failed /\ k \notin failed'
    BY DEF Cont, Content, Shown, AtQuestion, OnlyAnswered
  <2>2. Ph(k) = "running" /\ Ph(k)' = "running"
    BY <2>1 DEF Ph, OnlyAnswered
  <2>3. /\ Ag(k) = {g \in Files : decided[k][g] = "copy"}
        /\ Ag(k)' = {g \in Files : dec2[g] = "copy"}
    BY <1>9, <2>1 DEF Ag, OnlyAnswered
  <2>4. \A g \in Files : dec2[g] = IF g = f THEN IF skip THEN "skip" ELSE "copy" ELSE decided[k][g]
    <3>1. decided[k] \in [Files -> {"open", "copy", "skip"}]
      BY <1>4 DEF JobTypes, Answers
    <3> QED
      BY <3>1 DEF dec2, DecAfter
  <2>5. CASE skip
    <3>1. Ag(k)' = Ag(k) \ {f}
      BY <2>3, <2>4, <2>5
    <3>2. Bad(k)' = Bad(k)
      BY <1>1, <2>5
    <3>3. Ds(k)' = Ds(k)
      BY <3>2, DsSame DEF OnlyAnswered
    <3> QED
      BY <2>2, <3>1, <3>3 DEF Agrees
  <2>6. CASE ~skip
    <3>1. Ag(k)' = Ag(k) \cup {f} /\ f \in Ag(k)'
      BY <2>3, <2>4, <2>6
    <3>2. \A g \in Files \ {f} : g \in Bad(k)' <=> g \in Bad(k)
      BY <1>1
    <3>3. \A g \in Files \ {f} : <<k, g>> \in misplaced' <=> <<k, g>> \in misplaced
      BY <3>2, BadIs
    <3>4. \A g \in Files : Whole(k, g)' <=> Whole(k, g)
      BY DEF Whole, OnlyAnswered
    <3>5. \A g \in Files \ {f} : Ds(k)'[g] = Ds(k)[g]
      BY <3>3, <3>4 DEF Ds
    <3> QED
      BY <2>2, <3>1, <3>5 DEF Agrees
  <2> QED
    BY <2>5, <2>6
<1> QED
  BY <1>10, <1>11, <1>12, <1>13, DownloadParts

\* The user is asked: then the reader waits, and nothing is under way.
LEMMA AskedFlow ==
  ASSUME NEW k, NEW d, NEW n, NEW f, NEW lo, FlowAt(k, d, n, f, lo), Asked(k) # {}
  PROVE  /\ Reads(k) /\ ~reader[k].confirmed /\ reader[k].waiting /\ reader[k].pos = 0
         /\ CM(k) = <<>> /\ SM(k) = <<>> /\ Asked(k) = {reader[k].file}
         /\ writer[k].digest = version[k][reader[k].file] /\ writer[k].listed
         /\ CaughtUp(writer[k], reader[k].file, decided[k], Bad(k))
<1>1. /\ Reads(k) /\ ~reader[k].confirmed /\ reader[k].waiting /\ reader[k].pos = 0
      /\ CM(k) = <<>> /\ SM(k) = <<>> /\ Asked(k) = {reader[k].file}
      /\ writer[k].digest = version[k][reader[k].file]
      /\ CaughtUp(writer[k], reader[k].file, decided[k], Bad(k))
  BY DEF FlowAt, Flow, Broken, Over, Closed, Waits, Streams
<1>2. d \in 0 .. 1 /\ n \in Nat /\ d + n <= Len(CM(k)) /\ (d = 0 /\ ~writer[k].listed => CM(k) # <<>>)
  BY DEF FlowAt, Flow, Front
<1>3. Len(CM(k)) = 0
  BY <1>1
<1>4. d = 0
  BY <1>2, <1>3
<1> QED
  BY <1>1, <1>2, <1>4

LEMMA StepSetConfirmOverrideFile ==
  ASSUME IInv, NEW k \in Jobs, NEW f \in Files, NEW o \in BOOLEAN, NEW r \in BOOLEAN,
         SetConfirmOverrideFile(k, f, o, r)
  PROVE  OneJob(k)
<1> DEFINE st == IF r THEN IF o THEN "overwrite" ELSE "skip" ELSE writer[k].strategy
           job == [writer[k] EXCEPT !.strategy = st]
           skip == ~o
<1>1. CoreA /\ CoreR /\ CoreB /\ CoreC
  BY TypesAreCore DEF IInv
<1>2. /\ connected /\ <<k, f>> \in prompts /\ k \in writing
      /\ prompts' = prompts \ {<<k, f>>}
      /\ Decide(k, job, f, skip, 0)
      /\ UNCHANGED <<cmReads, connected, writing, cmWriting, reading, reader,
                     toClient, dir, version, saved, told, failed, kept, starts,
                     breaks, faults>>
  BY DEF SetConfirmOverrideFile
<1>3. k \in Downloads /\ k \notin Uploads /\ JobTypes(k)
  BY <1>1, <1>2, TypesOfJob DEF CoreA, Downloads
<1>4. writer[k] \in Job /\ st \in {"ask", "overwrite", "skip"}
  BY <1>3 DEF JobTypes, Job
<1> HIDE DEF st
<1>5. /\ job \in Job /\ job.file = writer[k].file /\ job.pos = writer[k].pos
      /\ job.skipped = writer[k].skipped /\ job.last = writer[k].last /\ job.listed = writer[k].listed
      /\ job.digest = writer[k].digest
  BY <1>4 DEF Job
<1>6. skip \in BOOLEAN /\ 0 \in Nat
  OBVIOUS
<1> HIDE DEF job, skip
<1>7. DecidedAs(k, job, f, skip, 0)
  BY <1>1, <1>2, <1>3, <1>5, <1>6, DecideFrame
<1>8. f \in Asked(k) /\ Prot(k) /\ Cont(k)
  BY <1>2, <1>3, DownloadParts DEF Asked, IInv
<1>9. ~writer[k].last /\ \E d \in 0 .. 1, n \in Nat, g \in Files, lo \in Nat : FlowAt(k, d, n, g, lo)
  BY <1>2, <1>8, Running
<1>10. /\ Reads(k) /\ ~reader[k].confirmed /\ reader[k].waiting /\ reader[k].pos = 0
       /\ CM(k) = <<>> /\ SM(k) = <<>> /\ Asked(k) = {reader[k].file}
       /\ writer[k].digest = version[k][reader[k].file] /\ writer[k].listed
       /\ CaughtUp(writer[k], reader[k].file, decided[k], Bad(k))
  BY <1>8, <1>9, AskedFlow
<1>11. f = reader[k].file
  BY <1>8, <1>10
<1>12. AtQuestion(k, job, f)
  BY <1>2, <1>5, <1>9, <1>10, <1>11 DEF AtQuestion
<1>13. Asked(k)' = {} /\ \A j \in Jobs \ {k} : Asked(j)' = Asked(j)
  <2>1. \A j, g : <<j, g>> = <<k, f>> <=> j = k /\ g = f
    OBVIOUS
  <2>2. \A j \in Jobs \ {k} : Asked(j)' = Asked(j)
    BY <1>2, <2>1 DEF Asked
  <2>3. \A g \in Files : <<k, g>> \in prompts => g = f
    BY <1>10, <1>11 DEF Asked
  <2> QED
    BY <1>2, <2>2, <2>3 DEF Asked
<1>14. \A j \in Jobs : CM(j)' = CM(j) /\ Reads(j)' = Reads(j)
  BY <1>2 DEF CM, Reads
<1>15. OnlyAnswered(k)
  BY <1>2, <1>10, <1>13, <1>14, ZenonT(30) DEF OnlyAnswered
<1>16. Resumes(dir[k], version[k], f, skip, 0)
  BY DEF Resumes
<1>17. Download(k)' /\ Agrees(k)
  BY <1>1, <1>3, <1>5, <1>6, <1>7, <1>8, <1>12, <1>15, <1>16, DecideDownload
<1>18. Types'
  <2>1. CoreA' /\ CoreC' /\ CoreR'
    BY <1>1, <1>2, <1>7 DEF CoreA, CoreC, CoreR, DecidedAs, SentS
  <2>2. CoreB'
    BY <1>1, <1>2, <1>7 DEF CoreB, DecidedAs
  <2> QED
    BY <2>1, <2>2, CoreIsTypes
<1>19. \A j \in Jobs \ {k} : Same(j)
  BY <1>2, <1>7, <1>13, <1>14 DEF Same, DecidedAs, SentS
<1>20. Kept(k)
  BY <1>2, KeptSame
<1> QED
  BY <1>3, <1>17, <1>18, <1>19, <1>20 DEF OneJob, Local

\* What is_write_need_confirmation says.
LEMMA NeedIs ==
  ASSUME NEW resume, NEW e \in Entry, NEW dg
  PROVE  LET need == WriteNeedConfirmation(resume, e, dg) IN
         /\ need.offset \in Nat
         /\ need.offset > 0 => /\ need.result # "ask" /\ e.part # NoFile /\ e.digest = dg
                               /\ Len(e.part) = need.offset
<1>1. Len(e.part) \in Nat
  BY DEF Entry
<1> QED
  BY <1>1 DEF WriteNeedConfirmation

LEMMA StepClientDigest ==
  ASSUME IInv, ClientDigest, NEW k, k = Head(toClient).j
  PROVE  OneJob(k)
<1> DEFINE m == Head(toClient)
           job == [writer[k] EXCEPT !.digest = m.version]
           need == WriteNeedConfirmation(job.resume, dir[k][m.file], m.version)
           skip == need.result = "ask" /\ job.strategy = "skip"
<1>1. CoreA /\ CoreR /\ CoreB /\ CoreC
  BY TypesAreCore DEF IInv
<1>2. /\ connected /\ toClient # <<>> /\ m.t = "digest" /\ toClient' = Tail(toClient)
      /\ UNCHANGED <<cmReads, connected, writing, cmWriting, reading, reader, dir,
                     version, saved, told, failed, kept, starts, breaks, faults>>
  BY DEF ClientDigest, ClientGets
<1>3. \/ /\ k \notin writing \/ ~InList(writer[k], m.file)
         /\ UNCHANGED <<writer, toServer, decided, misplaced, prompts>>
      \/ /\ k \in writing /\ writer' = [writer EXCEPT ![k] = job]
         /\ prompts' = prompts \cup {<<k, m.file>>}
         /\ UNCHANGED <<toServer, decided, misplaced>>
      \/ /\ k \in writing /\ Decide(k, job, m.file, skip, need.offset)
         /\ UNCHANGED prompts
  BY DEF ClientDigest
<1>4. TookC(k)
  BY <1>1, <1>2, ClientTakes
<1>5. /\ k \in Jobs /\ m \in CMsg(k) /\ CM(k) \in Seq(CMsg(k)) /\ CM(k) # <<>> /\ Head(CM(k)) = m
      /\ CM(k)' = Tail(CM(k)) /\ toClient' \in Seq(CMsgs) /\ \A j \in Jobs \ {k} : CM(j)' = CM(j)
  BY <1>4 DEF TookC
<1>6. m.file \in Files /\ m.version \in 0 .. MaxVersion
  BY <1>2, <1>5 DEF CMsg, DigestMsg, BlockMsg
<1>7. JobTypes(k) /\ CoreR' /\ \A j \in Jobs : Reads(j)' = Reads(j)
  BY <1>1, <1>2, <1>5, TypesOfJob DEF CoreR, Reads
<1>8. /\ job \in Job /\ job.file = writer[k].file /\ job.pos = writer[k].pos
      /\ job.skipped = writer[k].skipped /\ job.last = writer[k].last /\ job.listed = writer[k].listed
      /\ job.digest = m.version
  <2>1. writer[k] \in Job
    BY <1>7 DEF JobTypes
  <2> QED
    BY <1>6, <2>1 DEF Job
<1>9. skip \in BOOLEAN
  OBVIOUS
<1>10. /\ need.offset \in Nat
       /\ need.offset > 0 => /\ ~skip /\ dir[k][m.file].part # NoFile /\ dir[k][m.file].digest = m.version
                             /\ Len(dir[k][m.file].part) = need.offset
  <2>1. dir[k][m.file] \in Entry
    BY <1>6, <1>7, SMTT(30) DEF JobTypes, Dirs
  <2> QED
    BY <2>1, NeedIs
<1> HIDE DEF m, job, need, skip
<1>11. ASSUME k \in writing
       PROVE  /\ k \in Downloads /\ k \notin Uploads /\ Cont(k) /\ Ans(k) /\ CM(k)' = <<>> /\ Asked(k) = {}
              /\ AtQuestion(k, job, m.file) /\ m.version = version[k][m.file] /\ InList(writer[k], m.file)
  <2>1. k \in Downloads /\ k \notin Uploads
    BY <1>1, <1>11 DEF CoreA, Downloads
  <2>2. Prot(k) /\ Cont(k) /\ Ans(k)
    BY <2>1, DownloadParts DEF IInv
  <2>3. PICK d \in 0 .. 1, n \in Nat, f \in Files, lo \in Nat : FlowAt(k, d, n, f, lo)
    BY <1>5, <1>11, <2>2, Running
  <2>4. HeadSays(k, writer[k], Reads(k), reader[k], CM(k), SM(k), version[k], Asked(k), decided[k], Bad(k),
                 d, n, f, lo)
    BY <1>5, <2>3, HeadOfFlow DEF FlowAt
  <2>5. /\ writer[k].listed /\ Len(CM(k)) = 1 /\ m = Dig(k, reader[k].file, version[k])
        /\ SM(k) = <<>> /\ Asked(k) = {} /\ Reads(k)
        /\ ~reader[k].confirmed /\ reader[k].waiting /\ reader[k].pos = 0 /\ reader[k].file < NFiles
        /\ CaughtUp(writer[k], reader[k].file, decided[k], Bad(k))
    BY <1>2, <1>5, <2>4 DEF HeadSays
  <2>6. m.file = reader[k].file /\ m.version = version[k][m.file]
    BY <2>5 DEF Dig
  <2>7. CM(k)' = <<>>
    <3>1. Tail(CM(k)) \in Seq(CMsg(k)) /\ Len(Tail(CM(k))) = 0
      BY <1>5, <2>5, HeadTailProperties
    <3> QED
      BY <1>5, <3>1, EmptySeq
  <2>8. ~writer[k].last
    BY <1>5, <1>11, <2>2, Running, SMTT(30)
  <2>9. AtQuestion(k, job, m.file)
    BY <1>8, <1>11, <2>5, <2>6, <2>8 DEF AtQuestion
  <2> QED
    BY <2>1, <2>2, <2>5, <2>6, <2>7, <2>9, ZenonT(30) DEF InList
<1>12. CASE /\ k \notin writing \/ ~InList(writer[k], m.file)
            /\ UNCHANGED <<writer, toServer, decided, misplaced, prompts>>
  <2>1. k \notin writing
    BY <1>11, <1>12
  <2>2. \A j \in Jobs : SM(j)' = SM(j) /\ Asked(j)' = Asked(j) /\ Bad(j)' = Bad(j)
    BY <1>12 DEF SM, Asked, Bad
  <2>3. CoreA' /\ CoreB' /\ CoreC'
    BY <1>1, <1>2, <1>5, <1>12, ZenonT(30) DEF CoreA, CoreB, CoreC
  <2>4. \A j \in Jobs \ {k} : Same(j)
    BY <1>2, <1>5, <1>7, <1>12, <2>2 DEF Same
  <2>5. Quiet(k) /\ Kept(k)
    BY <1>2, <1>5, <1>12, <2>2, QuietSame, KeptSame
  <2>6. ASSUME k \in Downloads PROVE Download(k)'
    <3>1. Ans(k) /\ Cont(k)
      BY <2>6, DownloadParts DEF IInv
    <3>2. Prot(k)' /\ Ans(k)'
      BY <1>2, <1>5, <1>7, <2>1, <2>2, <3>1, OutProt, AnsSame
    <3>3. Cont(k)'
      BY <1>2, <1>5, <1>12, <2>2, <3>1 DEF Cont
    <3> QED
      BY <3>2, <3>3, DownloadParts
  <2>7. ASSUME k \in Uploads PROVE Upload(k)'
    <3>1. Upload(k)
      BY <2>7 DEF IInv
    <3> QED
      BY <1>2, <1>5, <1>12, <2>2, <3>1 DEF Upload
  <2> QED
    BY <1>5, <1>7, <2>3, <2>4, <2>5, <2>6, <2>7, CoreIsTypes DEF OneJob, Local
<1>13. CASE /\ k \in writing /\ writer' = [writer EXCEPT ![k] = job]
            /\ prompts' = prompts \cup {<<k, m.file>>}
            /\ UNCHANGED <<toServer, decided, misplaced>>
  <2>1. /\ k \in Downloads /\ k \notin Uploads /\ Cont(k) /\ Ans(k) /\ CM(k)' = <<>> /\ Asked(k) = {}
        /\ AtQuestion(k, job, m.file) /\ m.version = version[k][m.file]
    BY <1>11, <1>13
  <2>2. /\ writer' \in [Jobs -> Job] /\ \A j \in Jobs \ {k} : writer'[j] = writer[j]
        /\ writer'[k] = job
    BY <1>1, <1>5, <1>8, <1>13 DEF CoreA
  <2>3. \A j, g : <<j, g>> = <<k, m.file>> <=> j = k /\ g = m.file
    OBVIOUS
  <2>4. Asked(k)' = {m.file} /\ \A j \in Jobs \ {k} : Asked(j)' = Asked(j)
    <3>1. \A j \in Jobs \ {k} : Asked(j)' = Asked(j)
      BY <1>13, <2>3 DEF Asked
    <3>2. \A g \in Files : <<k, g>> \notin prompts
      BY <2>1 DEF Asked
    <3> QED
      BY <1>6, <1>13, <2>3, <3>1, <3>2 DEF Asked
  <2>5. \A j \in Jobs : SM(j)' = SM(j) /\ Bad(j)' = Bad(j)
    BY <1>13 DEF SM, Bad
  <2>6. CoreA' /\ CoreB' /\ CoreC'
    <3>1. prompts' \subseteq writing' \X Files
      BY <1>1, <1>2, <1>6, <1>13 DEF CoreB
    <3> QED
      BY <1>1, <1>2, <1>5, <1>13, <2>2, <3>1, ZenonT(30) DEF CoreA, CoreB, CoreC
  <2>7. \A j \in Jobs \ {k} : Same(j)
    BY <1>2, <1>5, <1>7, <1>13, <2>2, <2>4, <2>5 DEF Same
  <2>8. Quiet(k) /\ Kept(k)
    BY <1>2, <1>5, <1>13, <2>5, QuietSame, KeptSame
  <2>9. Prot(k)'
    <3>1. /\ job.listed /\ m.file = reader[k].file /\ m.file < NFiles /\ ~job.last
          /\ Reads(k) /\ ~reader[k].confirmed /\ reader[k].waiting /\ reader[k].pos = 0
          /\ job.digest = version[k][m.file] /\ CaughtUp(job, m.file, decided[k], Bad(k)) /\ SM(k) = <<>>
      <4>1. m.file < NFiles
        BY <1>6, TransferJobAssumption, SMTT(30) DEF Files
      <4>2. /\ job.listed /\ m.file = reader[k].file /\ ~job.last /\ Reads(k) /\ SM(k) = <<>>
            /\ ~reader[k].confirmed /\ reader[k].waiting /\ reader[k].pos = 0
            /\ job.digest = version[k][m.file] /\ CaughtUp(writer[k], m.file, decided[k], Bad(k))
            /\ job.file = writer[k].file /\ job.pos = writer[k].pos
        BY <2>1, ZenonT(30) DEF AtQuestion
      <4>3. CaughtUp(job, m.file, decided[k], Bad(k))
        BY <4>2, ZenonT(30) DEF CaughtUp, Ready, Complete
      <4> QED
        BY <4>1, <4>2, <4>3, ZenonT(30)
    <3>2. Flow(k, job, Reads(k), reader[k], <<>>, <<>>, version[k], {m.file}, decided[k], Bad(k),
               0, 0, m.file, 0)
      BY <1>6, <1>8, <3>1, FlowAsk, ZenonT(30)
    <3>3. PICK g \in Files : g = m.file
      BY <1>6
    <3>4. FlowAt(k, 0, 0, g, 0)'
      <4>1. /\ CM(k)' = <<>> /\ SM(k)' = <<>> /\ version'[k] = version[k] /\ decided'[k] = decided[k]
            /\ reader'[k] = reader[k] /\ Reads(k)' = Reads(k) /\ Bad(k)' = Bad(k)
        BY <1>2, <1>5, <1>7, <1>13, <2>1, <2>5, <3>1
      <4> QED
        BY <2>2, <2>4, <3>2, <3>3, <4>1, ZenonT(30) DEF FlowAt
    <3>5. 0 \in 0 .. 1 /\ 0 \in Nat /\ ~writer'[k].last
      BY <2>2, <3>1
    <3> QED
      BY <3>3, <3>4, <3>5, FlowProt, SMTT(30)
  <2>10. Ans(k)'
    BY <1>2, <1>5, <1>7, <2>1, <2>5, AnsSame
  <2>11. Cont(k)'
    <3>1. (k \in writing) = TRUE /\ (k \in writing') = TRUE
      BY <1>2, <1>13
    <3>2. Content(TRUE, writer[k], dir[k], version[k], decided[k], Bad(k), saved[k], kept[k], told[k], k \in failed)
      BY <2>1, <3>1, ZenonT(30) DEF Cont
    <3>3. writer[k].listed => job.listed
      BY <1>8
    <3>4. Content(TRUE, job, dir[k], version[k], decided[k], Bad(k), saved[k], kept[k], told[k], k \in failed)
      BY <1>8, <3>2, <3>3, ContentSame, ZenonT(30)
    <3> QED
      BY <1>2, <1>5, <1>13, <2>2, <2>5, <3>1, <3>4, ZenonT(30) DEF Cont
  <2>12. Download(k)'
    BY <2>9, <2>10, <2>11, DownloadParts
  <2> QED
    BY <1>5, <1>7, <2>1, <2>6, <2>7, <2>8, <2>12, CoreIsTypes DEF OneJob, Local
<1>14. CASE /\ k \in writing /\ Decide(k, job, m.file, skip, need.offset)
            /\ UNCHANGED prompts
  <2>1. /\ k \in Downloads /\ k \notin Uploads /\ Cont(k) /\ CM(k)' = <<>> /\ Asked(k) = {}
        /\ AtQuestion(k, job, m.file) /\ m.version = version[k][m.file]
    BY <1>11, <1>14
  <2>2. need.offset \in Nat /\ skip \in BOOLEAN
    BY <1>9, <1>10
  <2>3. DecidedAs(k, job, m.file, skip, need.offset)
    BY <1>1, <1>6, <1>8, <1>14, <2>1, <2>2, DecideFrame
  <2>4. \A j \in Jobs : Asked(j)' = Asked(j)
    BY <1>14 DEF Asked
  <2>5. OnlyAnswered(k)
    BY <1>2, <1>5, <1>7, <1>14, <2>1, <2>4 DEF OnlyAnswered
  <2>6. Resumes(dir[k], version[k], m.file, skip, need.offset)
    BY <1>10, <2>1 DEF Resumes
  <2>7. Download(k)' /\ Agrees(k)
    BY <1>1, <1>6, <1>8, <2>1, <2>2, <2>3, <2>5, <2>6, DecideDownload
  <2>8. CoreA' /\ CoreC'
    BY <1>1, <1>2, <1>5, <2>3, ZenonT(30) DEF CoreA, CoreC, DecidedAs, SentS
  <2>9. CoreB'
    BY <1>1, <1>2, <1>14, <2>3 DEF CoreB, DecidedAs
  <2>10. \A j \in Jobs \ {k} : Same(j)
    BY <1>2, <1>5, <1>7, <2>3, <2>4 DEF Same, DecidedAs, SentS
  <2>11. Kept(k)
    BY <1>2, KeptSame
  <2> QED
    BY <1>5, <1>7, <2>1, <2>7, <2>8, <2>9, <2>10, <2>11, CoreIsTypes DEF OneJob, Local
<1> QED
  BY <1>3, <1>12, <1>13, <1>14

---------------------------------------------------------------------------
(* Blocks and the end of a job.                                            *)

\* A message to a job that is no longer there is dropped.
LEMMA OnlyTaken ==
  ASSUME IInv, NEW k, TookC(k), k \notin writing,
         UNCHANGED <<cmReads, connected, writing, cmWriting, writer, reading, reader, toServer, dir,
                     version, saved, prompts, told, failed, decided, kept, misplaced, starts,
                     breaks, faults>>,
         connected
  PROVE  OneJob(k)
<1>1. CoreA /\ CoreR /\ CoreB /\ CoreC
  BY TypesAreCore DEF IInv
<1>2. k \in Jobs /\ CM(k) # <<>> /\ toClient' \in Seq(CMsgs) /\ \A j \in Jobs \ {k} : CM(j)' = CM(j)
  BY DEF TookC
<1>3. \A j \in Jobs : SM(j)' = SM(j) /\ Asked(j)' = Asked(j) /\ Bad(j)' = Bad(j) /\ Reads(j)' = Reads(j)
  BY DEF SM, Asked, Bad, Reads
<1>4. CoreA' /\ CoreR' /\ CoreB' /\ CoreC'
  BY <1>1, <1>2, ZenonT(30) DEF CoreA, CoreR, CoreB, CoreC
<1>5. \A j \in Jobs \ {k} : Same(j)
  BY <1>2, <1>3 DEF Same
<1>6. Quiet(k) /\ Kept(k)
  BY <1>2, <1>3, QuietSame, KeptSame
<1>7. ASSUME k \in Downloads PROVE Download(k)'
  <2>1. Ans(k) /\ Cont(k)
    BY <1>7, DownloadParts DEF IInv
  <2>2. Prot(k)' /\ Ans(k)'
    BY <1>2, <1>3, <2>1, OutProt, AnsSame
  <2>3. Cont(k)'
    BY <1>2, <1>3, <2>1 DEF Cont
  <2> QED
    BY <2>2, <2>3, DownloadParts
<1>8. ASSUME k \in Uploads PROVE Upload(k)'
  <2>1. Upload(k)
    BY <1>8 DEF IInv
  <2> QED
    BY <1>2, <1>3, <2>1 DEF Upload
<1> QED
  BY <1>2, <1>4, <1>5, <1>6, <1>7, <1>8, CoreIsTypes DEF OneJob, Local

LEMMA BeginsIs ==
  ASSUME NEW w, w.listed, NEW f \in Files, NEW lo \in Nat, NEW ver
  PROVE  BeginsFile(w, f, BlkData(f, lo + 1, ver)) <=>
            /\ f # w.file \/ w.pos = -1
            /\ IF lo + 1 > Size[f] THEN Size[f] = 0 ELSE lo + 1 = 1
<1>1. f < NFiles
  BY TransferJobAssumption DEF Files
<1>2. CASE lo + 1 > Size[f]
  BY <1>1, <1>2 DEF BeginsFile, InList, BlkData
<1>3. CASE ~(lo + 1 > Size[f])
  <2> DEFINE data == <<<<f, ver[f], lo + 1>>>>
  <2>1. BlkData(f, lo + 1, ver) = data
    BY <1>3 DEF BlkData
  <2>2. data # <<>> /\ data[1][3] = lo + 1
    OBVIOUS
  <2> HIDE DEF data
  <2> QED
    BY <1>1, <1>3, <2>1, <2>2 DEF BeginsFile, InList
<1> QED
  BY <1>2, <1>3

LEMMA StepClientBlock ==
  ASSUME IInv, ClientBlock, NEW k, k = Head(toClient).j
  PROVE  OneJob(k)
<1> DEFINE m == Head(toClient)
           w == writer[k]
           x == Write(w, dir[k], m.file, m.data)
<1>1. CoreA /\ CoreR /\ CoreB /\ CoreC
  BY TypesAreCore DEF IInv
<1>2. /\ connected /\ toClient # <<>> /\ m.t = "block" /\ toClient' = Tail(toClient)
      /\ UNCHANGED <<cmReads, connected, writing, cmWriting, reading, reader,
                     toServer, version, saved, prompts, told, failed, decided,
                     kept, starts, breaks, faults>>
  BY DEF ClientBlock, ClientGets
<1>3. IF k \in writing
      THEN /\ writer' = [writer EXCEPT ![k] = x.job]
           /\ dir' = [dir EXCEPT ![k] = x.dir]
           /\ misplaced' = IF BeginsFile(w, m.file, m.data)
                           THEN misplaced \ {<<k, m.file>>} ELSE misplaced
      ELSE UNCHANGED <<writer, dir, misplaced>>
  BY DEF ClientBlock
<1>4. TookC(k)
  BY <1>1, <1>2, ClientTakes
<1>5. CASE k \notin writing
  BY <1>2, <1>3, <1>4, <1>5, OnlyTaken
<1>6. CASE k \in writing
  <2>1. /\ k \in Jobs /\ CM(k) \in Seq(CMsg(k)) /\ CM(k) # <<>> /\ Head(CM(k)) = m
        /\ CM(k)' = Tail(CM(k)) /\ toClient' \in Seq(CMsgs) /\ \A j \in Jobs \ {k} : CM(j)' = CM(j)
    BY <1>4 DEF TookC
  <2>2. k \in Downloads /\ k \notin Uploads /\ JobTypes(k)
    BY <1>1, <1>6, <2>1, TypesOfJob DEF CoreA, Downloads
  <2>3. Prot(k) /\ Ans(k) /\ Cont(k)
    BY <2>2, DownloadParts DEF IInv
  <2>4. ~w.last /\ \E d \in 0 .. 1, n \in Nat, f \in Files, lo \in Nat : FlowAt(k, d, n, f, lo)
    BY <1>6, <2>1, <2>3, Running
  <2>5. PICK d \in 0 .. 1, n \in Nat, f \in Files, lo \in Nat : FlowAt(k, d, n, f, lo)
    BY <2>4
  <2>6. HeadSays(k, w, Reads(k), reader[k], CM(k), SM(k), version[k], Asked(k), decided[k], Bad(k),
                 d, n, f, lo)
    BY <2>1, <2>5, HeadOfFlow DEF FlowAt
  <2>7. /\ d = 0 /\ n > 0 /\ w.listed /\ m = Blk(k, f, lo + 1, version[k])
        /\ Fed(w, f, lo, version[k], decided[k], Bad(k))
    BY <1>2, <2>1, <2>6 DEF HeadSays
  <2>8. m.file = f /\ m.data = BlkData(f, lo + 1, version[k])
    BY <2>7 DEF Blk, BlkData
  <2> HIDE DEF m
  <2>9. x = Write(w, dir[k], f, BlkData(f, lo + 1, version[k]))
    BY <2>8
  <2>10. PICK fail \in BOOLEAN : fail = (k \in failed)
    BY Membership
  <2>11. Receiving(w, dir[k], version[k], decided[k], Bad(k), saved[k], kept[k], told[k], fail, f, lo)
    <3>1. Content(TRUE, w, dir[k], version[k], decided[k], Bad(k), saved[k], kept[k], told[k], fail)
      <4>1. (k \in writing) = TRUE
        BY <1>6
      <4> QED
        BY <2>3, <2>10, <4>1, ZenonT(30) DEF Cont
    <3> QED
      BY <2>2, <2>4, <2>5, <2>7, <2>10, <3>1, ZenonT(30) DEF Receiving, JobTypes
  <2> HIDE DEF x
  <2>12. Received(w, dir[k], version[k], decided[k], Bad(k), saved[k], kept[k], told[k], fail, f, lo, x)
    BY <2>9, <2>11, ContentBlock
  <2> DEFINE bad2 == BadCleared(Bad(k), w, f, lo)
  <2>13. /\ Content(TRUE, x.job, x.dir, version[k], decided[k], bad2, saved[k], kept[k], told[k], fail)
         /\ x.job \in Job /\ x.dir \in Dirs /\ Untouched(dir[k], x.dir, decided[k])
         /\ ~x.job.last /\ Accepted(w, x.job, Bad(k), f, lo)
    BY <2>12, ZenonT(30) DEF Received
  <2>14. /\ writer' \in [Jobs -> Job] /\ writer'[k] = x.job /\ \A j \in Jobs \ {k} : writer'[j] = writer[j]
         /\ dir' \in [Jobs -> Dirs] /\ dir'[k] = x.dir /\ \A j \in Jobs \ {k} : dir'[j] = dir[j]
    BY <1>1, <1>3, <1>6, <2>1, <2>13, ZenonT(30) DEF CoreA, CoreB
  <2>15. /\ misplaced' \subseteq Jobs \X Files
         /\ Bad(k)' = bad2 /\ \A j \in Jobs \ {k} : Bad(j)' = Bad(j)
         /\ \A g \in Files \ {f} : <<k, g>> \in misplaced' <=> <<k, g>> \in misplaced
    <3>1. \A j, g : <<j, g>> = <<k, f>> <=> j = k /\ g = f
      OBVIOUS
    <3>2. BeginsFile(w, m.file, m.data) <=>
            /\ f # w.file \/ w.pos = -1
            /\ IF lo + 1 > Size[f] THEN Size[f] = 0 ELSE lo + 1 = 1
      BY <2>5, <2>7, <2>8, BeginsIs
    <3>3. CASE BeginsFile(w, m.file, m.data)
      <4>1. misplaced' = misplaced \ {<<k, f>>}
        BY <1>3, <1>6, <2>8, <3>3
      <4>2. bad2 = Bad(k) \ {f}
        BY <3>2, <3>3 DEF BadCleared
      <4>3. Bad(k)' = Bad(k) \ {f} /\ \A j \in Jobs \ {k} : Bad(j)' = Bad(j)
        BY <3>1, <4>1 DEF Bad
      <4> QED
        BY <1>1, <3>1, <4>1, <4>2, <4>3, ZenonT(30) DEF CoreB
    <3>4. CASE ~BeginsFile(w, m.file, m.data)
      <4>1. misplaced' = misplaced
        BY <1>3, <1>6, <3>4
      <4>2. bad2 = Bad(k)
        BY <3>2, <3>4 DEF BadCleared
      <4> QED
        BY <1>1, <4>1, <4>2 DEF CoreB, Bad
    <3> QED
      BY <3>3, <3>4
  <2> HIDE DEF bad2
  <2>16. \A j \in Jobs : SM(j)' = SM(j) /\ Asked(j)' = Asked(j) /\ Reads(j)' = Reads(j)
    BY <1>2 DEF SM, Asked, Reads
  <2>17. Types'
    <3>1. CoreA' /\ CoreR' /\ CoreC'
      BY <1>1, <1>2, <2>1, <2>14 DEF CoreA, CoreR, CoreC
    <3>2. CoreB'
      BY <1>1, <1>2, <2>14, <2>15, ZenonT(30) DEF CoreB
    <3> QED
      BY <3>1, <3>2, CoreIsTypes
  <2>18. \A j \in Jobs \ {k} : Same(j)
    BY <1>2, <2>1, <2>14, <2>15, <2>16 DEF Same
  <2>19. Kept(k)
    BY <2>13, <2>14 DEF Kept
  <2>20. Puts(k)
    <3>1. told[k] = "running" /\ k \notin failed
      BY <1>6, <2>3, <2>4 DEF Cont, Content, Shown
    <3>2. /\ Ph(k) = "running" /\ Ph(k)' = "running" /\ Ag(k)' = Ag(k)
          /\ Ag(k) = {g \in Files : decided[k][g] = "copy"}
      BY <1>2, <3>1 DEF Ph, Ag
    <3>3. f \in Ag(k)
      BY <2>7, <3>2, SMTT(30) DEF Fed
    <3>4. \A g \in Files \ Ag(k) : Whole(k, g)' <=> Whole(k, g)
      BY <1>2, <2>13, <2>14, <3>2 DEF Whole, Untouched
    <3>5. \A g \in Files \ Ag(k) : Ds(k)'[g] = Ds(k)[g]
      BY <2>15, <3>3, <3>4 DEF Ds
    <3> QED
      BY <3>2, <3>5 DEF Puts
  <2>21. Prot(k)'
    <3>1. Flow(k, x.job, Reads(k), reader[k], Tail(CM(k)), SM(k), version[k], Asked(k), decided[k], bad2,
               0, n - 1, f, lo + 1)
      <4>1. w \in Job
        BY <2>2 DEF JobTypes
      <4>2. Flow(k, w, Reads(k), reader[k], CM(k), SM(k), version[k], Asked(k), decided[k], Bad(k),
                 0, n, f, lo)
        BY <2>5, <2>7 DEF FlowAt
      <4> QED
        BY <2>1, <2>7, <2>13, <4>1, <4>2, FlowBlock, ZenonT(30) DEF bad2
    <3>2. FlowAt(k, 0, n - 1, f, lo + 1)'
      BY <1>2, <2>1, <2>14, <2>15, <2>16, <3>1, ZenonT(30) DEF FlowAt
    <3>3. 0 \in 0 .. 1 /\ n - 1 \in Nat /\ lo + 1 \in Nat /\ ~writer'[k].last
      BY <2>7, <2>13, <2>14
    <3> QED
      BY <3>2, <3>3, FlowProt
  <2>22. Ans(k)'
    BY <1>2, <2>1, <2>3, <2>16, AnsSame
  <2>23. Cont(k)'
    <3>1. (k \in writing') = TRUE /\ (k \in failed') = fail
      BY <1>2, <1>6, <2>10
    <3> QED
      BY <1>2, <2>13, <2>14, <2>15, <3>1, ZenonT(30) DEF Cont
  <2> QED
    BY <2>1, <2>2, <2>17, <2>18, <2>19, <2>20, <2>21, <2>22, <2>23, DownloadParts DEF OneJob, Local
<1> QED
  BY <1>5, <1>6

LEMMA StepClientDone ==
  ASSUME IInv, ClientDone, NEW k, k = Head(toClient).j
  PROVE  OneJob(k)
<1> DEFINE w == writer[k]
           skipped == k \in writing /\ w.listed /\ JobSkipped(w)
           status == IF skipped THEN "error" ELSE "done"
<1>1. CoreA /\ CoreR /\ CoreB /\ CoreC
  BY TypesAreCore DEF IInv
<1>2. /\ connected /\ toClient # <<>> /\ Head(toClient).t = "done" /\ toClient' = Tail(toClient)
      /\ dir' = IF k \in writing THEN [dir EXCEPT ![k] = ModifyTime(w, @)] ELSE dir
      /\ writing' = writing \ {k}
      /\ told' = [told EXCEPT ![k] = IF @ = "none" THEN "none" ELSE status]
      /\ failed' = IF skipped THEN failed \cup {k} ELSE failed
      /\ UNCHANGED <<cmReads, connected, cmWriting, writer, reading, reader,
                     toServer, version, saved, prompts, decided, kept, misplaced, starts,
                     breaks, faults>>
  BY DEF ClientDone, ClientGets, Tell
<1>3. TookC(k)
  BY <1>1, <1>2, ClientTakes
<1>4. /\ k \in Jobs /\ CM(k) \in Seq(CMsg(k)) /\ CM(k) # <<>> /\ Head(CM(k)).t = "done"
      /\ CM(k)' = Tail(CM(k)) /\ toClient' \in Seq(CMsgs) /\ \A j \in Jobs \ {k} : CM(j)' = CM(j)
  BY <1>2, <1>3 DEF TookC
<1>5. JobTypes(k) /\ status \in {"done", "error"}
  BY <1>1, <1>4, TypesOfJob
<1>6. /\ told' \in [Jobs -> {"none", "listed", "running", "done", "error"}]
      /\ \A j \in Jobs \ {k} : told'[j] = told[j]
      /\ told'[k] = IF told[k] = "none" THEN "none" ELSE status
  BY <1>1, <1>2, <1>4, <1>5 DEF CoreB
<1>7. ModifyTime(w, dir[k]) \in Dirs
  BY <1>5, ModifyTimeIs DEF JobTypes
<1>8. /\ dir' \in [Jobs -> Dirs] /\ \A j \in Jobs \ {k} : dir'[j] = dir[j]
      /\ dir'[k] = IF k \in writing THEN ModifyTime(w, dir[k]) ELSE dir[k]
  BY <1>1, <1>2, <1>4, <1>7 DEF CoreB
<1>9. \A j \in Jobs : SM(j)' = SM(j) /\ Bad(j)' = Bad(j) /\ Asked(j)' = Asked(j) /\ Reads(j)' = Reads(j)
  BY <1>2 DEF SM, Bad, Asked, Reads
<1>10. ASSUME k \in writing
       PROVE  /\ k \in Downloads /\ k \notin Uploads /\ Prot(k) /\ Ans(k) /\ Cont(k)
              /\ w.listed /\ CaughtUp(w, NFiles, decided[k], Bad(k)) /\ Asked(k) = {}
              /\ told[k] = "running" /\ k \notin failed
  <2>1. k \in Downloads /\ k \notin Uploads
    BY <1>1, <1>10 DEF CoreA, Downloads
  <2>2. Prot(k) /\ Cont(k) /\ Ans(k)
    BY <2>1, DownloadParts DEF IInv
  <2>3. ~w.last /\ \E d \in 0 .. 1, n \in Nat, f \in Files, lo \in Nat : FlowAt(k, d, n, f, lo)
    BY <1>4, <1>10, <2>2, Running
  <2>4. PICK d \in 0 .. 1, n \in Nat, f \in Files, lo \in Nat : FlowAt(k, d, n, f, lo)
    BY <2>3
  <2>5. HeadSays(k, w, Reads(k), reader[k], CM(k), SM(k), version[k], Asked(k), decided[k], Bad(k),
                 d, n, f, lo)
    BY <1>4, <2>4, HeadOfFlow DEF FlowAt
  <2>6. w.listed /\ CaughtUp(w, NFiles, decided[k], Bad(k)) /\ Asked(k) = {}
    BY <1>4, <2>5 DEF HeadSays
  <2>7. told[k] = "running" /\ k \notin failed
    BY <1>10, <2>2, <2>3 DEF Cont, Content, Shown
  <2> QED
    BY <2>1, <2>2, <2>6, <2>7
<1>11. Types'
  <2>1. prompts' \subseteq writing' \X Files
    <3>1. CASE k \notin writing
      BY <1>1, <1>2, <3>1 DEF CoreB
    <3>2. CASE k \in writing
      <4>1. \A g \in Files : <<k, g>> \notin prompts
        BY <1>10, <3>2 DEF Asked
      <4>2. prompts \subseteq writing \X Files
        BY <1>1 DEF CoreB
      <4> QED
        BY <1>2, <4>1, <4>2
    <3> QED
      BY <3>1, <3>2
  <2>2. CoreA' /\ CoreR' /\ CoreC'
    BY <1>1, <1>2, <1>4 DEF CoreA, CoreR, CoreC
  <2>3. failed' \subseteq Jobs
    BY <1>1, <1>2, <1>4, SMTT(30) DEF CoreB
  <2>4. CoreB'
    BY <1>1, <1>2, <1>6, <1>8, <2>1, <2>3 DEF CoreB
  <2> QED
    BY <2>2, <2>4, CoreIsTypes
<1>12. \A j \in Jobs \ {k} : Same(j)
  BY <1>2, <1>4, <1>6, <1>8, <1>9 DEF Same
<1>13. CASE k \in writing
  <2>1. /\ k \in Downloads /\ k \notin Uploads /\ Prot(k) /\ Ans(k) /\ Cont(k)
        /\ w.listed /\ CaughtUp(w, NFiles, decided[k], Bad(k))
        /\ told[k] = "running" /\ k \notin failed
    BY <1>10, <1>13
  <2>2. told'[k] = status /\ (status = "error" <=> JobSkipped(w)) /\ (k \in failed' <=> JobSkipped(w))
    BY <1>2, <1>6, <1>13, <2>1
  <2>3. PICK fail \in BOOLEAN : fail = (k \in failed)
    BY Membership
  <2>4. PICK fail2 \in BOOLEAN : fail2 = (k \in failed')
    BY Membership
  <2>5. PICK told2 \in {"done", "error"} : told2 = told'[k]
    BY <1>5, <2>2
  <2>6. Ending(w, dir[k], version[k], decided[k], Bad(k), saved[k], kept[k], told[k], fail, told2, fail2)
    <3>1. Content(TRUE, w, dir[k], version[k], decided[k], Bad(k), saved[k], kept[k], told[k], fail)
      <4>1. (k \in writing) = TRUE
        BY <1>13
      <4> QED
        BY <2>1, <2>3, <4>1, ZenonT(30) DEF Cont
    <3>2. told2 = "error" => fail2
      BY <2>2, <2>4, <2>5, ZenonT(30)
    <3> QED
      BY <1>5, <2>1, <2>3, <2>4, <2>5, <3>1, <3>2, ZenonT(30) DEF Ending, JobTypes
  <2>7. Ended(w, dir[k], version[k], decided[k], Bad(k), saved[k], kept[k], told2, fail2, ModifyTime(w, dir[k]))
    BY <2>6, ContentDone
  <2>8. dir'[k] = ModifyTime(w, dir[k])
    BY <1>8, <1>13
  <2>9. PICK M : M = dir'[k]
    OBVIOUS
  <2>10. /\ Content(FALSE, w, M, version[k], decided[k], Bad(k), saved[k], kept[k], told2, fail2)
         /\ Copied(NFiles, M, version[k], decided[k], Bad(k)) /\ Untouched(dir[k], M, decided[k])
         /\ JobSkipped(w) => M = dir[k]
    BY <2>7, <2>8, <2>9, ZenonT(30) DEF Ended
  <2>11. Kept(k)
    BY <2>9, <2>10 DEF Kept
  <2>12. Cont(k)'
    <3>1. (k \in writing') = FALSE
      BY <1>2
    <3> QED
      BY <1>2, <1>4, <1>9, <2>4, <2>5, <2>9, <2>10, <3>1, ZenonT(30) DEF Cont
  <2>13. Prot(k)' /\ Ans(k)'
    BY <1>2, <1>4, <1>9, <2>1, OutProt, AnsSame
  <2>14. Local(k)
    <3>1. CASE JobSkipped(w)
      <4>1. dir'[k] = dir[k] /\ k \in failed'
        BY <2>2, <2>9, <2>10, <3>1
      <4>2. Ds(k)' = Ds(k)
        BY <1>2, <1>4, <1>9, <4>1, DsSame
      <4>3. Stops(k)
        BY <4>1, <4>2 DEF Stops, Ph, Ag
      <4> QED
        BY <4>3 DEF Local
    <3>2. CASE ~JobSkipped(w)
      <4>1. told'[k] = "done" /\ k \notin failed'
        BY <1>5, <2>2, <3>2
      <4>2. /\ Ph(k) = "running" /\ Ph(k)' = "done" /\ Ag(k)' = {}
            /\ Ag(k) = {g \in Files : decided[k][g] = "copy"}
        BY <2>1, <4>1 DEF Ph, Ag
      <4>3. \A g \in Files : <<k, g>> \in misplaced' <=> <<k, g>> \in misplaced
        BY <1>2
      <4>4. \A g \in Files \ Ag(k) : Whole(k, g)' <=> Whole(k, g)
        BY <1>2, <2>9, <2>10, <4>2, ZenonT(30) DEF Whole, Untouched
      <4>5. \A g \in Files \ Ag(k) : Ds(k)'[g] = Ds(k)[g]
        BY <4>3, <4>4, SMTT(30) DEF Ds
      <4>6. \A g \in Ag(k) : Whole(k, g)' \/ <<k, g>> \in misplaced'
        <5>1. \A g \in Files : g < NFiles
          BY TransferJobAssumption DEF Files
        <5>2. \A g \in Ag(k) : IsWhole(g, M[g], version[k]) \/ g \in Bad(k)
          BY <2>10, <4>2, <5>1 DEF Copied
        <5> QED
          BY <1>2, <2>9, <4>2, <5>2, BadIs DEF IsWhole, Whole
      <4>7. \A g \in Ag(k) : Ds(k)'[g] = "copy"
        BY <4>2, <4>6 DEF Ds
      <4>8. Finishes1(k)
        BY <4>2, <4>5, <4>7 DEF Finishes1
      <4> QED
        BY <4>8 DEF Local
    <3> QED
      BY <3>1, <3>2
  <2> QED
    BY <1>4, <1>11, <1>12, <2>1, <2>11, <2>12, <2>13, <2>14, DownloadParts DEF OneJob
<1>14. CASE k \notin writing
  <2>1. dir' = dir /\ writing' = writing /\ failed' = failed
        /\ told'[k] = IF told[k] = "none" THEN "none" ELSE "done"
    BY <1>2, <1>6, <1>14
  <2>2. Kept(k) /\ Ds(k)' = Ds(k)
    BY <1>2, <1>4, <1>9, <2>1, KeptSame, DsSame
  <2>3. ASSUME k \in Downloads PROVE Download(k)' /\ Quiet(k)
    <3>1. Ans(k) /\ Cont(k)
      BY <2>3, DownloadParts DEF IInv
    <3>2. Prot(k)' /\ Ans(k)'
      BY <1>2, <1>4, <1>9, <1>14, <2>1, <3>1, OutProt, AnsSame
    <3>3. told[k] \notin {"running", "listed"} /\ (told[k] = "error" => k \in failed)
          /\ told[k] \in {"none", "listed", "running", "done", "error"}
      BY <1>1, <1>4, <1>14, <3>1 DEF Cont, Content, Shown, CoreB
    <3>4. Quiet(k)
      BY <2>1, <2>2, <3>3 DEF Quiet, Ph, Ag
    <3>5. Cont(k)'
      <4>1. told'[k] = "done" /\ k \notin failed => told[k] = "done"
        BY <2>1, <3>3
      <4>2. told'[k] \in {"none", "done"}
        BY <2>1, SMTT(30)
      <4>3. Shown(k \in writing, writer[k], dir[k], version[k], decided[k], Bad(k), told[k], k \in failed)'
        BY <1>2, <1>4, <1>9, <1>14, <2>1, <3>1, <4>1, <4>2, SMTT(30) DEF Cont, Content, Shown
      <4>4. /\ Parts(dir[k], version[k], Bad(k))'
            /\ Open(k \in writing, writer[k], dir[k], version[k])'
            /\ Saved(k \in writing, writer[k], dir[k], version[k], saved[k], kept[k], Bad(k))'
        BY <1>2, <1>4, <1>9, <2>1, <3>1 DEF Cont, Content
      <4> QED
        BY <1>14, <2>1, <4>3, <4>4 DEF Cont, Content
    <3> QED
      BY <3>2, <3>4, <3>5, DownloadParts
  <2>4. ASSUME k \in Uploads PROVE Upload(k)' /\ Local(k)
    <3>1. Upload(k)
      BY <2>4 DEF IInv
    <3>2. told[k] # "listed" /\ told[k] \in {"none", "listed", "running", "done", "error"}
          /\ decided[k] = Unanswered /\ decided'[k] = Unanswered /\ (told[k] = "error" => k \in failed)
      BY <1>1, <1>2, <1>4, <3>1 DEF Upload, CoreB
    <3>3. Upload(k)'
      BY <1>2, <1>4, <1>9, <2>1, <3>1 DEF Upload
    <3>4. Ag(k) = {} /\ Ag(k)' = {}
      BY <3>2, NothingAgreed
    <3>5. CASE told[k] = "running" /\ k \notin failed
      <4>1. Finishes1(k)
        BY <2>1, <2>2, <3>4, <3>5 DEF Finishes1, Ph
      <4> QED
        BY <3>3, <4>1 DEF Local
    <3>6. CASE told[k] # "running" \/ k \in failed
      <4>1. Quiet(k)
        BY <2>1, <2>2, <3>2, <3>4, <3>6 DEF Quiet, Ph
      <4> QED
        BY <3>3, <4>1 DEF Local
    <3> QED
      BY <3>3, <3>5, <3>6
  <2> QED
    BY <1>4, <1>11, <1>12, <2>2, <2>3, <2>4 DEF OneJob, Local, Downloads
<1> QED
  BY <1>13, <1>14
---------------------------------------------------------------------------
(* The steps of the controlled side.                                       *)

\* Behind the first message there is neither a request nor an answer.
LEMMA AnsTail ==
  ASSUME NEW reads, NEW r, NEW S, NEW sm \in Seq(S), sm # <<>>, Answers1(reads, r, sm), NEW reads2, NEW r2
  PROVE  Answers1(reads2, r2, Tail(sm))
<1> DEFINE s == Tail(sm)
<1>1. /\ s \in Seq(S) /\ Len(s) = Len(sm) - 1 /\ Len(sm) \in Nat \ {0}
      /\ \A i \in 1 .. Len(s) : s[i] = sm[i + 1]
  BY HeadTailProperties
<1> HIDE DEF s
<1>2. \A i \in DOMAIN s : s[i] = sm[i + 1] /\ i + 1 \in DOMAIN sm /\ i + 1 # 1
  BY <1>1
<1>3. \A i \in DOMAIN s : s[i].t \notin {"send", "confirm"}
  BY <1>2 DEF Answers1
<1>4. s # <<>> => 1 \in DOMAIN s
  BY <1>1, EmptySeq
<1>5. Answers1(reads2, r2, s)
  BY <1>3, <1>4 DEF Answers1
<1> QED
  BY <1>5 DEF s

\* What the first message to the controlled side tells of its job.
LEMMA RequestOf ==
  ASSUME NEW k, NEW m \in SMsg(k)
  PROVE  /\ m.t \in {"receive", "digest", "block", "done", "error"} => k \in Uploads
         /\ m.t \in {"send", "confirm"} => k \notin Uploads
         /\ m.t \in {"send", "receive"} => m.file \in 0 .. NFiles
         /\ m.t = "confirm" => m.file \in Files /\ m.skip \in BOOLEAN /\ m.offset \in Nat
         /\ m.t \in {"done", "error"} => m \in CMsg(k)
<1>1. CASE k \in Uploads
  BY <1>1 DEF SMsg, CMsg, DigestMsg, BlockMsg
<1>2. CASE k \notin Uploads
  BY <1>2 DEF SMsg, CMsg, DigestMsg, BlockMsg
<1> QED
  BY <1>1, <1>2

\* A download in the client's list: the message is what the protocol expects.
LEMMA ServerHead ==
  ASSUME NEW k, k \in writing, Prot(k), SM(k) # <<>>
  PROVE  \/ /\ SM(k)[1].t = "send" /\ ~writer[k].last
            /\ Requested(writer[k], Reads(k), CM(k), SM(k), Asked(k))
         \/ /\ SM(k)[1].t = "confirm" /\ ~writer[k].last /\ Len(SM(k)) = 1 /\ CM(k) = <<>> /\ Reads(k)
            /\ \E d \in 0 .. 1, n \in Nat, f \in Files, lo \in Nat : FlowAt(k, d, n, f, lo)
<1>1. CASE Listed(writer[k], Reads(k), CM(k), SM(k), Asked(k))
  BY <1>1 DEF Listed
<1>2. CASE ~writer[k].last /\ Requested(writer[k], Reads(k), CM(k), SM(k), Asked(k))
  BY <1>2 DEF Requested
<1>3. CASE ~writer[k].last /\ \E d \in 0 .. 1, n \in Nat, f \in Files, lo \in Nat : FlowAt(k, d, n, f, lo)
  <2>1. PICK d \in 0 .. 1, n \in Nat, f \in Files, lo \in Nat : FlowAt(k, d, n, f, lo)
    BY <1>3
  <2>2. SM(k)[1].t = "confirm" /\ Len(SM(k)) = 1 /\ CM(k) = <<>> /\ Reads(k)
    BY <2>1 DEF FlowAt, Flow, Broken, Over, Closed, Waits, Streams
  <2> QED
    BY <1>3, <2>2
<1> QED
  BY <1>1, <1>2, <1>3 DEF Prot, Protocol, FlowAt

\* What no step of the controlled side changes.
ServerOnly ==
    /\ connected
    /\ UNCHANGED <<cmReads, connected, writing, dir, version, saved, prompts, told, failed, decided,
                   kept, misplaced, starts, breaks>>

LEMMA ServerFrame ==
  ASSUME CoreB, CoreC, ServerOnly, faults' \in 0 .. MaxFaults
  PROVE  /\ CoreB' /\ CoreC' /\ \A j : Asked(j)' = Asked(j) /\ Bad(j)' = Bad(j)
         /\ \A j \in Jobs : Quiet(j) /\ Kept(j)
<1>1. CoreB' /\ CoreC'
  BY DEF CoreB, CoreC, ServerOnly
<1>2. \A j : Asked(j)' = Asked(j) /\ Bad(j)' = Bad(j)
  BY DEF Asked, Bad, ServerOnly
<1>3. \A j \in Jobs : Quiet(j) /\ Kept(j)
  BY <1>2, QuietSame, KeptSame DEF ServerOnly
<1> QED
  BY <1>1, <1>2, <1>3

\* A message of an upload is taken: its writing job has no list of files.
LEMMA UploadOnly ==
  ASSUME IInv, NEW k, k \in Uploads, TookS(k), ServerOnly, UNCHANGED <<reading, reader, faults>>,
         toClient' \in Seq(CMsgs), \A j \in Jobs \ {k} : CM(j)' = CM(j), cmWriting' \subseteq Uploads,
         writer' \in [Jobs -> Job], \A j \in Jobs \ {k} : writer'[j] = writer[j], ~writer'[k].listed
  PROVE  OneJob(k)
<1>1. CoreA /\ CoreR /\ CoreB /\ CoreC
  BY TypesAreCore DEF IInv
<1>2. k \in Jobs /\ SM(k) # <<>> /\ toServer' \in Seq(SMsgs) /\ \A j \in Jobs \ {k} : SM(j)' = SM(j)
  BY DEF TookS
<1>3. faults' \in 0 .. MaxFaults
  BY <1>1 DEF CoreB
<1>4. /\ CoreB' /\ CoreC' /\ \A j : Asked(j)' = Asked(j) /\ Bad(j)' = Bad(j)
      /\ \A j \in Jobs : Quiet(j) /\ Kept(j)
  BY <1>1, <1>3, ServerFrame
<1>5. CoreA' /\ CoreR' /\ \A j : Reads(j)' = Reads(j)
  BY <1>1, <1>2 DEF CoreA, CoreR, Reads, ServerOnly
<1>6. \A j \in Jobs \ {k} : Same(j)
  BY <1>2, <1>4, <1>5 DEF Same, ServerOnly
<1>7. Upload(k)
  BY DEF IInv
<1>8. Upload(k)'
  BY <1>2, <1>4, <1>7 DEF Upload, ServerOnly
<1>9. k \notin Downloads
  BY DEF Downloads
<1> QED
  BY <1>2, <1>4, <1>5, <1>6, <1>8, <1>9, CoreIsTypes DEF OneJob, Local

LEMMA StepServerDigest ==
  ASSUME IInv, ServerDigest, NEW k, k = Head(toServer).j
  PROVE  OneJob(k)
<1>1. CoreA /\ CoreR /\ CoreB /\ CoreC
  BY TypesAreCore DEF IInv
<1>2. /\ connected /\ toServer # <<>> /\ Head(toServer).t = "digest" /\ toServer' = Tail(toServer)
      /\ ServerOnly /\ UNCHANGED <<cmWriting, writer, reading, reader, toClient, faults>>
  BY DEF ServerDigest, ServerGets, ServerOnly
<1>3. TookS(k)
  BY <1>1, <1>2, ServerTakes
<1>4. k \in Jobs /\ Head(toServer) \in SMsg(k)
  BY <1>3 DEF TookS
<1>5. k \in Uploads
  BY <1>2, <1>4, RequestOf
<1>6. ~writer[k].listed
  BY <1>5 DEF IInv, Upload
<1>7. \A j \in Jobs \ {k} : CM(j)' = CM(j)
  BY <1>2 DEF CM
<1> QED
  BY <1>1, <1>2, <1>3, <1>5, <1>6, <1>7, UploadOnly, ZenonT(30) DEF CoreA

LEMMA StepServerReceive ==
  ASSUME IInv, ServerReceive, NEW k, k = Head(toServer).j
  PROVE  OneJob(k)
<1> DEFINE no == FALSE
           job == NewJob(Head(toServer).file, no)
<1>1. CoreA /\ CoreR /\ CoreB /\ CoreC
  BY TypesAreCore DEF IInv
<1>2. /\ connected /\ toServer # <<>> /\ Head(toServer).t = "receive" /\ toServer' = Tail(toServer)
      /\ cmWriting' = cmWriting \cup {k} /\ writer' = [writer EXCEPT ![k] = job]
      /\ ServerOnly /\ UNCHANGED <<reading, reader, toClient, faults>>
  BY DEF ServerReceive, ServerGets, ServerOnly
<1>3. no \in BOOLEAN /\ ~no
  OBVIOUS
<1> HIDE DEF no
<1>4. TookS(k)
  BY <1>1, <1>2, ServerTakes
<1>5. k \in Jobs /\ Head(toServer) \in SMsg(k)
  BY <1>4 DEF TookS
<1>6. k \in Uploads /\ Head(toServer).file \in 0 .. NFiles
  BY <1>2, <1>5, RequestOf
<1>7. job \in Job /\ ~job.listed
  BY <1>3, <1>6, NewJobType DEF NewJob
<1> HIDE DEF job
<1>8. /\ writer' \in [Jobs -> Job] /\ \A j \in Jobs \ {k} : writer'[j] = writer[j]
      /\ ~writer'[k].listed /\ cmWriting' \subseteq Uploads
  BY <1>1, <1>2, <1>5, <1>6, <1>7 DEF CoreA
<1>9. toClient' \in Seq(CMsgs) /\ \A j \in Jobs \ {k} : CM(j)' = CM(j)
  BY <1>1, <1>2 DEF CM, CoreA
<1> QED
  BY <1>2, <1>4, <1>6, <1>8, <1>9, UploadOnly

LEMMA StepServerWriteEnds ==
  ASSUME IInv, ServerWriteEnds, NEW k, k = Head(toServer).j
  PROVE  OneJob(k)
<1>1. CoreA /\ CoreR /\ CoreB /\ CoreC
  BY TypesAreCore DEF IInv
<1>2. /\ connected /\ toServer # <<>> /\ Head(toServer).t \in {"done", "error"}
      /\ toServer' = Tail(toServer)
  BY DEF ServerWriteEnds
<1>3. TookS(k)
  BY <1>1, <1>2, ServerTakes
<1>4. k \in Jobs /\ Head(toServer) \in SMsg(k)
  BY <1>3 DEF TookS
<1>5. k \in Uploads /\ Head(toServer) \in CMsg(k)
  BY <1>2, <1>4, RequestOf
<1>6. ~writer[k].listed /\ writer[k] \in Job /\ dir[k] \in Dirs
  BY <1>1, <1>4, <1>5 DEF IInv, Upload, CoreA, CoreB
<1>7. ModifyTime(writer[k], dir[k]) = dir[k]
  BY <1>6, ModifyTimeIs
<1>8. dir' = dir
  <2>1. \/ dir' = [dir EXCEPT ![k] = ModifyTime(writer[k], dir[k])]
        \/ dir' = dir
    BY DEF ServerWriteEnds
  <2>2. [dir EXCEPT ![k] = dir[k]] = dir
    BY <1>1, <1>4 DEF CoreB
  <2> QED
    BY <1>7, <2>1, <2>2
<1>9. ServerOnly /\ UNCHANGED <<writer, reading, reader, faults>>
  BY <1>2, <1>8 DEF ServerWriteEnds, ServerOnly
<1>10. cmWriting' \subseteq Uploads
  BY <1>1 DEF ServerWriteEnds, CoreA
<1>11. toClient' = Append(toClient, Head(toServer)) \/ toClient' = toClient
  BY DEF ServerWriteEnds
<1>12. toClient' \in Seq(CMsgs) /\ \A j \in Jobs \ {k} : CM(j)' = CM(j)
  <2>1. CASE toClient' = toClient
    BY <1>1, <2>1 DEF CM, CoreA
  <2>2. CASE toClient' = Append(toClient, Head(toServer))
    <3>1. SentC(k, Head(toServer))
      BY <1>1, <1>4, <1>5, <2>2, ClientSent
    <3> QED
      BY <3>1 DEF SentC
  <2> QED
    BY <1>11, <2>1, <2>2
<1> QED
  BY <1>1, <1>3, <1>5, <1>6, <1>9, <1>10, <1>12, UploadOnly DEF CoreA

LEMMA StepServerCancel ==
  ASSUME IInv, ServerCancel, NEW k, k = Head(toServer).j
  PROVE  OneJob(k)
<1> DEFINE q == Without(reading["server"], k)
<1>1. CoreA /\ CoreR /\ CoreB /\ CoreC
  BY TypesAreCore DEF IInv
<1>2. /\ connected /\ toServer # <<>> /\ Head(toServer).t = "cancel" /\ toServer' = Tail(toServer)
      /\ dir' = IF k \in cmWriting THEN [dir EXCEPT ![k] = RemoveDownloadFile(writer[k], dir[k])] ELSE dir
      /\ cmWriting' = cmWriting \ {k} /\ reading' = [reading EXCEPT !["server"] = q]
      /\ UNCHANGED <<cmReads, connected, writing, writer, reader, toClient, version,
                     saved, prompts, told, failed, decided, kept, misplaced, starts,
                     breaks, faults>>
  BY DEF ServerCancel, ServerGets
<1>3. TookS(k)
  BY <1>1, <1>2, ServerTakes
<1>4. /\ k \in Jobs /\ Head(toServer) \in SMsg(k) /\ SM(k) \in Seq(SMsg(k)) /\ SM(k) # <<>>
      /\ Head(SM(k)) = Head(toServer) /\ SM(k)' = Tail(SM(k)) /\ toServer' \in Seq(SMsgs)
      /\ \A j \in Jobs \ {k} : SM(j)' = SM(j)
  BY <1>3 DEF TookS
<1>5. dir' = dir
  <2>1. CASE k \in cmWriting
    <3>1. k \in Uploads /\ writer[k] \in Job /\ dir[k] \in Dirs
      BY <1>1, <1>4, <2>1 DEF CoreA, CoreB
    <3>2. ~writer[k].listed
      BY <3>1 DEF IInv, Upload
    <3>3. RemoveDownloadFile(writer[k], dir[k]) = dir[k]
      BY <3>1, <3>2, RemoveIs
    <3>4. [dir EXCEPT ![k] = dir[k]] = dir
      BY <1>1, <1>4 DEF CoreB
    <3> QED
      BY <1>2, <2>1, <3>3, <3>4
  <2> QED
    BY <1>2, <2>1
<1>6. ServerOnly /\ faults' \in 0 .. MaxFaults
  BY <1>1, <1>2, <1>5 DEF ServerOnly, CoreB
<1>7. /\ CoreB' /\ CoreC' /\ \A j : Asked(j)' = Asked(j) /\ Bad(j)' = Bad(j)
      /\ \A j \in Jobs : Quiet(j) /\ Kept(j)
  BY <1>1, <1>6, ServerFrame
<1>8. CoreR' /\ \A j \in Jobs \ {k} : Reads(j)' = Reads(j)
  <2>1. reading["server"] \in Seq(Jobs) /\ Elems(reading["server"]) \subseteq Downloads
        /\ IsInjective(reading["server"])
    BY <1>1 DEF CoreR, Sides
  <2>2. q \in Seq(Jobs) /\ Elems(q) = Elems(reading["server"]) \ {k} /\ IsInjective(q)
    BY <2>1, WithoutIs
  <2> HIDE DEF q
  <2>3. CoreR' /\ \A j : Reads(j)' = (j \in Elems(q))
    BY <1>1, <1>2, <2>1, <2>2, ReadsServer, ZenonT(30)
  <2>4. \A j \in Jobs \ {k} : (j \in Elems(q)) = (j \in Elems(reading["server"]))
    BY <2>2
  <2> QED
    BY <2>3, <2>4 DEF Reads
<1>9. CoreA' /\ \A j : CM(j)' = CM(j)
  BY <1>1, <1>2, <1>4 DEF CoreA, CM
<1>10. \A j \in Jobs \ {k} : Same(j)
  BY <1>2, <1>4, <1>5, <1>7, <1>8, <1>9 DEF Same
<1>11. ASSUME k \in Downloads PROVE Download(k)'
  <2>1. Prot(k) /\ Ans(k) /\ Cont(k)
    BY <1>11, DownloadParts DEF IInv
  <2>2. k \notin writing
    BY <1>2, <1>4, <2>1, ServerHead
  <2>3. Prot(k)'
    BY <1>2, <2>2, OutProt
  <2>4. Ans(k)'
    <3>1. Answers1(Reads(k)', reader'[k], Tail(SM(k)))
      BY <1>4, <2>1, AnsTail DEF Ans
    <3> QED
      BY <1>4, <3>1, ZenonT(30) DEF Ans
  <2>5. Cont(k)'
    BY <1>2, <1>5, <1>7, <2>1 DEF Cont
  <2> QED
    BY <2>3, <2>4, <2>5, DownloadParts
<1>12. ASSUME k \in Uploads PROVE Upload(k)'
  <2>1. Upload(k)
    BY <1>12 DEF IInv
  <2> QED
    BY <1>2, <1>4, <1>5, <1>7, <1>9, <2>1 DEF Upload
<1> QED
  BY <1>4, <1>7, <1>8, <1>9, <1>10, <1>11, <1>12, CoreIsTypes DEF OneJob, Local

LEMMA StepServerSend ==
  ASSUME IInv, ServerSend, NEW k, k = Head(toServer).j
  PROVE  OneJob(k)
<1> DEFINE m == Head(toServer)
           yes == TRUE
           job == NewJob(m.file, yes)
           q == Append(reading["server"], k)
<1>1. CoreA /\ CoreR /\ CoreB /\ CoreC
  BY TypesAreCore DEF IInv
<1>2. /\ connected /\ toServer # <<>> /\ m.t = "send" /\ toServer' = Tail(toServer)
      /\ ServerOnly /\ UNCHANGED <<cmWriting, writer>>
  BY DEF ServerSend, ServerGets, ServerOnly
<1>3. \/ /\ toClient' = Append(toClient, Dir(k))
         /\ reading' = [reading EXCEPT !["server"] = q]
         /\ reader' = [reader EXCEPT ![k] = job] /\ faults' = faults
      \/ /\ faults < MaxFaults /\ faults' = faults + 1
         /\ toClient' = Append(toClient, Error(k))
         /\ UNCHANGED <<reading, reader>>
  BY ZenonT(30) DEF ServerSend
<1>4. yes \in BOOLEAN /\ (yes <=> TRUE)
  OBVIOUS
<1>5. TookS(k)
  BY <1>1, <1>2, ServerTakes
<1>6. /\ k \in Jobs /\ m \in SMsg(k) /\ SM(k) \in Seq(SMsg(k)) /\ SM(k) # <<>>
      /\ Head(SM(k)) = m /\ SM(k)[1] = m /\ SM(k)' = Tail(SM(k)) /\ toServer' \in Seq(SMsgs)
      /\ \A j \in Jobs \ {k} : SM(j)' = SM(j)
  BY <1>5 DEF TookS
<1>7. k \in Downloads /\ k \notin Uploads /\ m.file \in 0 .. NFiles
  BY <1>2, <1>6, RequestOf DEF Downloads
<1>8. Prot(k) /\ Ans(k) /\ Cont(k) /\ ~Reads(k)
  <2>1. Prot(k) /\ Ans(k) /\ Cont(k)
    BY <1>7, DownloadParts DEF IInv
  <2> QED
    BY <1>2, <1>6, <2>1 DEF Ans, Answers1
<1>9. job \in Job
  BY <1>4, <1>7, NewJobType, ZenonT(30)
<1> HIDE DEF m, job
<1>10. faults' \in 0 .. MaxFaults
  BY <1>1, <1>3, FileTransferAssumption DEF CoreB
<1>11. /\ CoreB' /\ CoreC' /\ \A j : Asked(j)' = Asked(j) /\ Bad(j)' = Bad(j)
       /\ \A j \in Jobs : Quiet(j) /\ Kept(j)
  BY <1>1, <1>2, <1>10, ServerFrame
<1>12. Dir(k) \in CMsg(k) /\ Error(k) \in CMsg(k)
  BY DEF Dir, Error, CMsg
<1>13. PICK x \in {Dir(k), Error(k)} : toClient' = Append(toClient, x)
  BY <1>3
<1>14. SentC(k, x)
  BY <1>1, <1>6, <1>12, <1>13, ClientSent
<1>15. /\ toClient' \in Seq(CMsgs) /\ CM(k)' = Append(CM(k), x)
       /\ \A j \in Jobs \ {k} : CM(j)' = CM(j)
  BY <1>14 DEF SentC
<1>16. /\ CoreR' /\ \A j \in Jobs \ {k} : Reads(j)' = Reads(j) /\ reader'[j] = reader[j]
       /\ reader' \in [Jobs -> Job]
  <2>1. CASE UNCHANGED <<reading, reader>>
    BY <1>1, <2>1 DEF CoreR, CoreA, Reads
  <2>2. CASE reading' = [reading EXCEPT !["server"] = q] /\ reader' = [reader EXCEPT ![k] = job]
    <3>1. reading["server"] \in Seq(Jobs) /\ Elems(reading["server"]) \subseteq Downloads
          /\ IsInjective(reading["server"]) /\ k \notin Elems(reading["server"])
      BY <1>1, <1>8 DEF CoreR, Sides, Reads
    <3>2. q \in Seq(Jobs) /\ Elems(q) = Elems(reading["server"]) \cup {k} /\ IsInjective(q)
      BY <1>6, <3>1, AppendElems
    <3> HIDE DEF q
    <3>3. CoreR' /\ \A j : Reads(j)' = (j \in Elems(q))
      BY <1>1, <1>7, <2>2, <3>1, <3>2, ReadsServer, ZenonT(30)
    <3>4. \A j \in Jobs \ {k} : (j \in Elems(q)) = (j \in Elems(reading["server"]))
      BY <3>2
    <3>5. reader' \in [Jobs -> Job] /\ \A j \in Jobs \ {k} : reader'[j] = reader[j]
      BY <1>1, <1>6, <1>9, <2>2 DEF CoreA
    <3> QED
      BY <3>3, <3>4, <3>5 DEF Reads
  <2> QED
    BY <1>3, <2>1, <2>2
<1>17. CoreA'
  BY <1>1, <1>2, <1>6, <1>15, <1>16 DEF CoreA, ServerOnly
<1>18. \A j \in Jobs \ {k} : Same(j)
  BY <1>2, <1>6, <1>11, <1>15, <1>16 DEF Same, ServerOnly
<1>19. Ans(k)'
  <2>1. Answers1(Reads(k)', reader'[k], Tail(SM(k)))
    BY <1>6, <1>8, AnsTail DEF Ans
  <2> QED
    BY <1>6, <2>1, ZenonT(30) DEF Ans
<1>20. Cont(k)'
  BY <1>2, <1>8, <1>11 DEF Cont, ServerOnly
<1>21. Prot(k)'
  <2>1. CASE k \notin writing
    BY <1>2, <2>1, OutProt DEF ServerOnly
  <2>2. CASE k \in writing
    <3>1. ~writer[k].last /\ Requested(writer[k], Reads(k), CM(k), SM(k), Asked(k))
      BY <1>2, <1>6, <1>8, <2>2, ServerHead
    <3>2. /\ Len(SM(k)) = 1 /\ m.file = writer[k].file /\ CM(k) = <<>> /\ Asked(k) = {}
          /\ ~writer[k].listed /\ writer[k].pos = -1 /\ writer[k] \in Job
      BY <1>1, <1>6, <3>1 DEF Requested, CoreA
    <3>3. SM(k)' = <<>> /\ CM(k)' = <<x>>
      <4>1. Tail(SM(k)) \in Seq(SMsg(k)) /\ Len(Tail(SM(k))) = 0
        BY <1>6, <3>2, HeadTailProperties
      <4>2. Append(<<>>, x) = <<x>>
        OBVIOUS
      <4> QED
        BY <1>6, <1>15, <3>2, <4>1, <4>2, EmptySeq
    <3>4. 0 \in Files /\ 0 \in Nat /\ 0 \in 0 .. 1 /\ 1 \in 0 .. 1
      BY TransferJobAssumption DEF Files
    <3>5. /\ Asked(k)' = {} /\ version'[k] = version[k] /\ decided'[k] = decided[k] /\ Bad(k)' = Bad(k)
          /\ writer'[k] = writer[k] /\ ~writer'[k].last
      BY <1>2, <1>11, <3>1, <3>2 DEF ServerOnly
    <3>6. CASE toClient' = Append(toClient, Error(k)) /\ UNCHANGED <<reading, reader>>
      <4>1. SentC(k, Error(k))
        BY <1>1, <1>6, <1>12, <3>6, ClientSent, ZenonT(30)
      <4>2. CM(k)' = <<Error(k)>>
        <5>1. Append(<<>>, Error(k)) = <<Error(k)>>
          OBVIOUS
        <5> QED
          BY <3>2, <4>1, <5>1, ZenonT(30) DEF SentC
      <4>3. Flow(k, writer[k], Reads(k)', reader'[k], <<Error(k)>>, <<>>, version[k], {}, decided[k], Bad(k),
                 0, 0, 0, 0)
        BY <3>2, FlowSend, ZenonT(30)
      <4>4. FlowAt(k, 0, 0, 0, 0)'
        BY <3>3, <3>5, <4>2, <4>3, ZenonT(30) DEF FlowAt
      <4> QED
        BY <3>4, <3>5, <4>4, FlowProt, ZenonT(30)
    <3>7. CASE /\ toClient' = Append(toClient, Dir(k))
               /\ reading' = [reading EXCEPT !["server"] = q]
               /\ reader' = [reader EXCEPT ![k] = job]
      <4>1. SentC(k, Dir(k))
        BY <1>1, <1>6, <1>12, <3>7, ClientSent
      <4>2. CM(k)' = <<Dir(k)>>
        <5>1. Append(<<>>, Dir(k)) = <<Dir(k)>>
          OBVIOUS
        <5> QED
          BY <3>2, <4>1, <5>1, ZenonT(30) DEF SentC
      <4>3. reader'[k] = NewJob(writer[k].file, TRUE)
        BY <1>1, <1>6, <3>2, <3>7, ZenonT(30) DEF CoreA, job, yes
      <4>4. Reads(k)' = TRUE
        <5>1. reading["server"] \in Seq(Jobs) /\ k \in Elems(q)
          <6>1. reading["server"] \in Seq(Jobs)
            BY <1>1 DEF CoreR, Sides
          <6> QED
            BY <1>6, <6>1, AppendElems
        <5>2. reading'["server"] = q
          BY <1>1, <3>7 DEF CoreR, Sides
        <5> QED
          BY <5>1, <5>2 DEF Reads
      <4>5. Flow(k, writer[k], TRUE, NewJob(writer[k].file, TRUE), <<Dir(k)>>, <<>>, version[k], {}, decided[k],
                 Bad(k), 1, 0, 0, 0)
        BY <3>2, FlowSend, ZenonT(30)
      <4>6. FlowAt(k, 1, 0, 0, 0)'
        BY <3>3, <3>5, <4>2, <4>3, <4>4, <4>5, ZenonT(30) DEF FlowAt
      <4> QED
        BY <3>4, <3>5, <4>6, FlowProt
    <3> QED
      BY <1>3, <3>6, <3>7
  <2> QED
    BY <2>1, <2>2
<1> QED
  BY <1>6, <1>7, <1>11, <1>16, <1>17, <1>18, <1>19, <1>20, <1>21, CoreIsTypes, DownloadParts DEF OneJob, Local

LEMMA SourceIsFile ==
  ASSUME NEW f, NEW v
  PROVE  Source(f, v) # NoFile
<1> SUFFICES ASSUME Source(f, v) = NoFile PROVE FALSE
  OBVIOUS
<1>1. DOMAIN NoFile = {1} /\ NoFile[1] = <<0, 0, 0>>
  BY DEF NoFile
<1>2. DOMAIN Source(f, v) = 1 .. Size[f] /\ \A i \in 1 .. Size[f] : Source(f, v)[i] = <<f, v, i>>
  BY DEF Source
<1>3. <<f, v, 1>> = <<0, 0, 0>>
  BY <1>1, <1>2
<1> QED
  BY <1>3

LEMMA StepServerConfirm ==
  ASSUME IInv, ServerConfirm, NEW k, k = Head(toServer).j
  PROVE  OneJob(k)
<1> DEFINE m == Head(toServer)
           r == reader[k]
           c == IF cmReads THEN [m EXCEPT !.file = reader[k].file] ELSE m
           v == Confirm(r, SourceDir(k), c)
<1>1. CoreA /\ CoreR /\ CoreB /\ CoreC
  BY TypesAreCore DEF IInv
<1>2. /\ connected /\ toServer # <<>> /\ m.t = "confirm" /\ toServer' = Tail(toServer)
      /\ ServerOnly /\ UNCHANGED <<cmWriting, writer, reading, toClient, faults>>
      /\ reader' = IF Reads(k) THEN [reader EXCEPT ![k] = v] ELSE reader
  BY DEF ServerConfirm, ServerGets, ServerOnly, Reads
<1>3. TookS(k)
  BY <1>1, <1>2, ServerTakes
<1>4. /\ k \in Jobs /\ m \in SMsg(k) /\ SM(k) \in Seq(SMsg(k)) /\ SM(k) # <<>>
      /\ Head(SM(k)) = m /\ SM(k)[1] = m /\ SM(k)' = Tail(SM(k)) /\ toServer' \in Seq(SMsgs)
      /\ \A j \in Jobs \ {k} : SM(j)' = SM(j)
  BY <1>3 DEF TookS
<1>5. k \in Downloads /\ k \notin Uploads /\ m.file \in Files /\ m.skip \in BOOLEAN /\ m.offset \in Nat
  BY <1>2, <1>4, RequestOf DEF Downloads
<1>6. Prot(k) /\ Ans(k) /\ Cont(k)
  BY <1>5, DownloadParts DEF IInv
<1>7. JobTypes(k)
  BY <1>1, <1>4, TypesOfJob
<1>8. Reads(k) => r.file = m.file
  BY <1>2, <1>4, <1>6 DEF Ans, Answers1
<1>9. Reads(k) => c.file = r.file /\ c.skip = m.skip /\ c.offset = m.offset
  <2>1. m \in [t : {"confirm"}, j : {k}, file : Files, skip : BOOLEAN, offset : Nat]
    BY <1>2, <1>4, <1>5 DEF SMsg
  <2> QED
    BY <1>8, <2>1
<1> HIDE DEF m, c
<1>10. Reads(k) => v \in Job
  <2> SUFFICES ASSUME Reads(k) PROVE v \in Job
    OBVIOUS
  <2>1. c.offset \in Nat /\ c.file < NFiles /\ r \in Job
    BY <1>5, <1>7, <1>8, <1>9, TransferJobAssumption, SMTT(30) DEF JobTypes, Files
  <2> QED
    BY <2>1, ConfirmType
<1> HIDE DEF v
<1>11. /\ reader' \in [Jobs -> Job] /\ \A j \in Jobs \ {k} : reader'[j] = reader[j]
       /\ Reads(k) => reader'[k] = v
  BY <1>1, <1>2, <1>4, <1>10 DEF CoreA
<1>12. faults' \in 0 .. MaxFaults
  BY <1>1, <1>2 DEF CoreB
<1>13. /\ CoreB' /\ CoreC' /\ \A j : Asked(j)' = Asked(j) /\ Bad(j)' = Bad(j)
       /\ \A j \in Jobs : Quiet(j) /\ Kept(j)
  BY <1>1, <1>2, <1>12, ServerFrame
<1>14. CoreA' /\ CoreR' /\ \A j : Reads(j)' = Reads(j) /\ CM(j)' = CM(j)
  BY <1>1, <1>2, <1>4, <1>11 DEF CoreA, CoreR, Reads, CM, ServerOnly
<1>15. \A j \in Jobs \ {k} : Same(j)
  BY <1>2, <1>4, <1>11, <1>13, <1>14 DEF Same, ServerOnly
<1>16. Ans(k)'
  <2>1. Answers1(Reads(k)', reader'[k], Tail(SM(k)))
    BY <1>4, <1>6, AnsTail DEF Ans
  <2> QED
    BY <1>4, <2>1, ZenonT(30) DEF Ans
<1>17. Cont(k)'
  BY <1>2, <1>6, <1>13 DEF Cont, ServerOnly
<1>18. Prot(k)'
  <2>1. CASE k \notin writing
    BY <1>2, <2>1, OutProt DEF ServerOnly
  <2>2. CASE k \in writing
    <3>1. /\ ~writer[k].last /\ Len(SM(k)) = 1 /\ CM(k) = <<>> /\ Reads(k)
          /\ \E d \in 0 .. 1, n \in Nat, f \in Files, lo \in Nat : FlowAt(k, d, n, f, lo)
      BY <1>2, <1>4, <1>6, <2>2, ServerHead
    <3>2. PICK d \in 0 .. 1, n \in Nat, f \in Files, lo \in Nat : FlowAt(k, d, n, f, lo)
      BY <3>1
    <3>3. SM(k)' = <<>>
      <4>1. Tail(SM(k)) \in Seq(SMsg(k)) /\ Len(Tail(SM(k))) = 0
        BY <1>4, <3>1, HeadTailProperties
      <4> QED
        BY <1>4, <4>1, EmptySeq
    <3>4. SourceDir(k)[r.file].final # NoFile
      BY <1>5, <1>8, <3>1, SourceIsFile DEF SourceDir
    <3>5. Flow(k, writer[k], Reads(k), v, CM(k), <<>>, version[k], Asked(k), decided[k], Bad(k), 0, 0, r.file,
               IF SM(k)[1].skip THEN 0 ELSE SM(k)[1].offset)
      <4>1. writer[k] \in Job /\ r \in Job /\ CM(k) \in Seq(CMsg(k))
        BY <1>7 DEF JobTypes
      <4>2. Flow(k, writer[k], Reads(k), r, CM(k), SM(k), version[k], Asked(k), decided[k], Bad(k), d, n, f, lo)
        BY <3>2 DEF FlowAt
      <4>3. /\ SM(k)[1].skip \in BOOLEAN /\ SM(k)[1].offset \in Nat
            /\ c.file = r.file /\ c.skip = SM(k)[1].skip /\ c.offset = SM(k)[1].offset
        BY <1>4, <1>5, <1>9, <3>1
      <4> QED
        BY <1>4, <3>4, <4>1, <4>2, <4>3, FlowConfirm, ZenonT(30) DEF v
    <3>6. PICK g \in Files : g = r.file
      BY <1>5, <1>8, <3>1
    <3>7. PICK lo2 \in Nat : lo2 = IF SM(k)[1].skip THEN 0 ELSE SM(k)[1].offset
      BY <1>4, <1>5
    <3>8. FlowAt(k, 0, 0, g, lo2)'
      <4>1. /\ version'[k] = version[k] /\ decided'[k] = decided[k] /\ writer'[k] = writer[k]
            /\ reader'[k] = v
        BY <1>2, <1>11, <3>1 DEF ServerOnly
      <4>2. Flow(k, writer[k], Reads(k), v, CM(k), <<>>, version[k], Asked(k), decided[k], Bad(k), 0, 0, g, lo2)
        BY <3>5, <3>6, <3>7
      <4> QED
        BY <1>13, <1>14, <3>3, <4>1, <4>2 DEF FlowAt
    <3>9. 0 \in 0 .. 1 /\ 0 \in Nat /\ ~writer'[k].last
      BY <1>2, <3>1
    <3> QED
      BY <3>6, <3>7, <3>8, <3>9, FlowProt
  <2> QED
    BY <2>1, <2>2
<1> QED
  BY <1>4, <1>5, <1>13, <1>14, <1>15, <1>16, <1>17, <1>18, CoreIsTypes, DownloadParts DEF OneJob, Local
---------------------------------------------------------------------------
(* A tick of the reading side, job by job.                                 *)

\* The tick changes nothing of job j but its reader and what it has sent.
Ticked(j) ==
    /\ ServerOnly /\ writer' = writer
    /\ SM(j)' = SM(j) /\ Asked(j)' = Asked(j) /\ Bad(j)' = Bad(j)

\* A reader that waits for an answer is not moved.
LEMMA WaitingStays ==
  ASSUME NEW r \in Job, r.waiting, ~r.confirmed, r.pos = 0, r.file < NFiles,
         NEW fails \in BOOLEAN, NEW rf \in BOOLEAN, NEW v
  PROVE  InitDataStream(r, fails).job = r /\ Read(r, v, rf).job = r
<1>1. r.pos # -1
  BY SMTT(30)
<1>2. InitDataStream(r, fails).job = r
  BY <1>1, InitIs, ZenonT(30)
<1>3. Read(r, v, rf).job = r
  BY ReadIs, ZenonT(30)
<1> QED
  BY <1>2, <1>3

LEMMA WaitingAnswer ==
  ASSUME NEW j \in Jobs, Ans(j), JobTypes(j), Reads(j), SM(j) # <<>>, SM(j)[1].t \in {"send", "confirm"}
  PROVE  /\ reader[j] \in Job /\ reader[j].waiting /\ ~reader[j].confirmed /\ reader[j].pos = 0
         /\ reader[j].file < NFiles /\ SM(j)[1].t = "confirm" /\ reader[j].file = SM(j)[1].file
<1>1. SM(j)[1] \in SMsg(j)
  BY DEF JobTypes
<1>2. /\ reader[j].waiting /\ ~reader[j].confirmed /\ reader[j].pos = 0
      /\ SM(j)[1].t = "confirm" /\ reader[j].file = SM(j)[1].file
  BY DEF Ans, Answers1
<1>3. SM(j)[1].file \in Files
  BY <1>1, <1>2, RequestOf
<1> QED
  BY <1>2, <1>3, TransferJobAssumption DEF JobTypes, Files

\* A download that is read and is in the client's list is running.
LEMMA ReadRuns ==
  ASSUME NEW j, j \in writing, Prot(j), Reads(j)
  PROVE  ~writer[j].last /\ \E d \in 0 .. 1, n \in Nat, f \in Files, lo \in Nat : FlowAt(j, d, n, f, lo)
BY ZenonT(30) DEF Prot, Protocol, Listed, Requested, FlowAt

LEMMA TickAns ==
  ASSUME NEW j \in Jobs, Ans(j), JobTypes(j), Reads(j), SM(j)' = SM(j),
         NEW x, reader'[j] = x,
         reader[j].waiting /\ ~reader[j].confirmed /\ reader[j].pos = 0 /\ reader[j].file < NFiles
            => x = reader[j]
  PROVE  Ans(j)'
<1> DEFINE s == SM(j)
<1>1. CASE s # <<>> /\ s[1].t \in {"send", "confirm"}
  <2>1. /\ reader[j].waiting /\ ~reader[j].confirmed /\ reader[j].pos = 0
        /\ reader[j].file < NFiles /\ s[1].t = "confirm" /\ reader[j].file = s[1].file
    BY <1>1, WaitingAnswer
  <2>2. reader'[j] = reader[j]
    BY <2>1
  <2> QED
    BY <2>1, <2>2 DEF Ans, Answers1
<1>2. CASE ~(s # <<>> /\ s[1].t \in {"send", "confirm"})
  BY <1>2 DEF Ans, Answers1
<1> QED
  BY <1>1, <1>2

\* The job is initialised.
LEMMA TickInit ==
  ASSUME NEW j \in Jobs, Prot(j), Ans(j), JobTypes(j), Reads(j), Reads(j)', Ticked(j),
         NEW fails \in BOOLEAN, NEW i, i = InitDataStream(reader[j], fails),
         reader'[j] = i.job, CM(j)' = CM(j) \o InitMessages(j, i)
  PROVE  Prot(j)' /\ Ans(j)'
<1>1. /\ writer[j] \in Job /\ reader[j] \in Job /\ version[j] \in [Files -> 1 .. MaxVersion]
      /\ CM(j) \in Seq(CMsg(j))
  BY DEF JobTypes
<1>2. Ans(j)'
  <2>1. reader[j].waiting /\ ~reader[j].confirmed /\ reader[j].pos = 0 /\ reader[j].file < NFiles
           => i.job = reader[j]
    BY <1>1, WaitingStays, ZenonT(30)
  <2> QED
    BY <2>1, TickAns DEF Ticked
<1>3. CASE j \notin writing
  BY <1>2, <1>3, OutProt DEF Ticked, ServerOnly
<1>4. CASE j \in writing
  <2>1. PICK d \in 0 .. 1, n \in Nat, f \in Files, lo \in Nat : FlowAt(j, d, n, f, lo)
    BY <1>4, ReadRuns
  <2>2. ~writer'[j].last
    BY <1>4, ReadRuns DEF Ticked
  <2>3. Reads(j) = TRUE /\ Reads(j)' = TRUE
    BY DEF Reads
  <2>4. Flow(j, writer[j], TRUE, reader[j], CM(j), SM(j), version[j], Asked(j), decided[j], Bad(j), d, n, f, lo)
    BY <2>1, <2>3, ZenonT(30) DEF FlowAt
  <2>5. Flow(j, writer[j], TRUE, i.job, CM(j) \o InitMessages(j, i), SM(j), version[j], Asked(j), decided[j],
             Bad(j), d, n, f, lo)
    BY <1>1, <2>4, FlowInit, ZenonT(30)
  <2>6. FlowAt(j, d, n, f, lo)'
    BY <2>3, <2>5, ZenonT(30) DEF FlowAt, Ticked, ServerOnly
  <2>7. Prot(j)'
    BY <2>1, <2>2, <2>6, FlowProt
  <2> QED
    BY <1>2, <2>7
<1> QED
  BY <1>3, <1>4

\* The job at the head of a tick may read, and has read.
MayRead(j, w, r, cm, sm, ver, asked, dec, bad, d, n, f, lo, fails, reads2) ==
    /\ w \in Job /\ r \in Job /\ cm \in Seq(CMsg(j)) /\ fails \in BOOLEAN /\ reads2 \in BOOLEAN
    /\ ver = version[j] /\ ver \in [Files -> 1 .. MaxVersion]
    /\ Flow(j, w, TRUE, r, cm, sm, ver, asked, dec, bad, d, n, f, lo)
    /\ Closed(w, TRUE, r, cm, sm, asked, dec, bad, d, n, f, lo) => r.file = NFiles
    /\ Finishes(ReadNow(j, r, fails)) => ~reads2
    /\ ~Finishes(ReadNow(j, r, fails)) /\ ReadNow(j, r, fails).out # "error" => reads2
HasRead(j, w, reads2, r, i, cm, sm, ver, asked, dec, bad, d, f, lo) ==
    \E n \in Nat :
        Flow(j, w, reads2, i.job, cm \o ReadMessage(j, r, i), sm, ver, asked, dec, bad, d, n, f, lo)

LEMMA ReadingOn ==
  ASSUME NEW j, NEW w, NEW r, NEW cm, NEW sm, NEW ver, NEW asked, NEW dec, NEW bad, NEW d, NEW n, NEW f,
         NEW lo, NEW fails, NEW reads2,
         MayRead(j, w, r, cm, sm, ver, asked, dec, bad, d, n, f, lo, fails, reads2)
  PROVE  HasRead(j, w, reads2, r, ReadNow(j, r, fails), cm, sm, ver, asked, dec, bad, d, f, lo)
<1>1. /\ w \in Job /\ r \in Job /\ cm \in Seq(CMsg(j)) /\ fails \in BOOLEAN /\ reads2 \in BOOLEAN
      /\ ver = version[j] /\ ver \in [Files -> 1 .. MaxVersion]
      /\ Flow(j, w, TRUE, r, cm, sm, ver, asked, dec, bad, d, n, f, lo)
      /\ Closed(w, TRUE, r, cm, sm, asked, dec, bad, d, n, f, lo) => r.file = NFiles
      /\ Finishes(ReadNow(j, r, fails)) => ~reads2
      /\ ~Finishes(ReadNow(j, r, fails)) /\ ReadNow(j, r, fails).out # "error" => reads2
  BY ZenonT(30) DEF MayRead
<1>2. \E k \in Nat : Flow(j, w, reads2, ReadNow(j, r, fails).job,
                          cm \o ReadMessage(j, r, ReadNow(j, r, fails)), sm, ver, asked, dec, bad, d, k, f, lo)
  BY <1>1, FlowReads, ZenonT(30)
<1> QED
  BY <1>2 DEF HasRead

\* The job is initialised and read.
LEMMA TickRead ==
  ASSUME NEW j \in Jobs, Prot(j), Ans(j), JobTypes(j), Reads(j), Ticked(j),
         NEW fails \in BOOLEAN, NEW rf \in BOOLEAN, NEW i, i = InitDataStream(reader[j], fails),
         NEW r, r = ReadNow(j, i.job, rf), reader'[j] = r.job,
         CM(j)' = (CM(j) \o InitMessages(j, i)) \o ReadMessage(j, i.job, r),
         Finishes(r) => ~Reads(j)', ~Finishes(r) /\ r.out # "error" => Reads(j)'
  PROVE  Prot(j)' /\ Ans(j)'
<1>1. /\ writer[j] \in Job /\ reader[j] \in Job /\ version[j] \in [Files -> 1 .. MaxVersion]
      /\ CM(j) \in Seq(CMsg(j))
  BY DEF JobTypes
<1>2. i.job \in Job
  BY <1>1, InitType
<1>3. Ans(j)'
  <2>1. reader[j].waiting /\ ~reader[j].confirmed /\ reader[j].pos = 0 /\ reader[j].file < NFiles
           => r.job = reader[j]
    <3> SUFFICES ASSUME reader[j].waiting, ~reader[j].confirmed, reader[j].pos = 0, reader[j].file < NFiles
                 PROVE  r.job = reader[j]
      OBVIOUS
    <3>1. i.job = reader[j]
      BY <1>1, WaitingStays, ZenonT(30)
    <3>2. PICK v : r = Read(i.job, v, rf)
      BY ZenonT(30) DEF ReadNow
    <3> QED
      BY <1>1, <3>1, <3>2, WaitingStays
  <2> QED
    BY <2>1, TickAns DEF Ticked
<1>4. CASE j \notin writing
  BY <1>3, <1>4, OutProt DEF Ticked, ServerOnly
<1>5. CASE j \in writing
  <2>1. PICK d \in 0 .. 1, n \in Nat, f \in Files, lo \in Nat : FlowAt(j, d, n, f, lo)
    BY <1>5, ReadRuns
  <2>2. ~writer'[j].last
    BY <1>5, ReadRuns DEF Ticked
  <2>3. Reads(j) = TRUE
    BY DEF Reads
  <2>4. Flow(j, writer[j], TRUE, reader[j], CM(j), SM(j), version[j], Asked(j), decided[j], Bad(j), d, n, f, lo)
    BY <2>1, <2>3, ZenonT(30) DEF FlowAt
  <2> DEFINE c == CM(j) \o InitMessages(j, i)
  <2>5. /\ c \in Seq(CMsg(j))
        /\ Flow(j, writer[j], TRUE, i.job, c, SM(j), version[j], Asked(j), decided[j], Bad(j), d, n, f, lo)
        /\ Closed(writer[j], TRUE, i.job, c, SM(j), Asked(j), decided[j], Bad(j), d, n, f, lo)
              => i.job.file = NFiles
    BY <1>1, <2>4, FlowInit, ZenonT(30)
  <2> HIDE DEF c
  <2>6. PICK reads2 \in BOOLEAN : reads2 = (j \in Elems(reading'["server"]))
    BY Membership
  <2>7. reads2 \in BOOLEAN /\ (reads2 <=> Reads(j)') /\ Reads(j)' = reads2
    BY <2>6, ZenonT(30) DEF Reads
  <2>8. /\ Finishes(ReadNow(j, i.job, rf)) => ~reads2
        /\ ~Finishes(ReadNow(j, i.job, rf)) /\ ReadNow(j, i.job, rf).out # "error" => reads2
    BY <2>7
  <2>9. HasRead(j, writer[j], reads2, i.job, r, c, SM(j), version[j], Asked(j), decided[j], Bad(j), d, f, lo)
    <3>1. MayRead(j, writer[j], i.job, c, SM(j), version[j], Asked(j), decided[j], Bad(j), d, n, f, lo, rf, reads2)
      BY <1>1, <1>2, <2>5, <2>7, <2>8, ZenonT(30) DEF MayRead
    <3> QED
      BY <3>1, ReadingOn
  <2>a. PICK k \in Nat :
          Flow(j, writer[j], reads2, r.job, c \o ReadMessage(j, i.job, r), SM(j), version[j], Asked(j),
               decided[j], Bad(j), d, k, f, lo)
    BY <2>9 DEF HasRead
  <2>10. FlowAt(j, d, k, f, lo)'
    BY <2>7, <2>a DEF FlowAt, Ticked, ServerOnly, c
  <2>11. Prot(j)'
    BY <2>1, <2>2, <2>a, <2>10, FlowProt
  <2> QED
    BY <1>3, <2>11
<1> QED
  BY <1>4, <1>5

\* The source file does not open and the job is given up.
LEMMA TickGivesUp ==
  ASSUME NEW j \in Jobs, Prot(j), Ans(j), JobTypes(j), Reads(j), ~Reads(j)', Ticked(j),
         Opens(reader[j]), reader'[j] = reader[j], CM(j)' = Append(CM(j), Error(j))
  PROVE  Prot(j)' /\ Ans(j)'
<1>1. writer[j] \in Job /\ reader[j] \in Job /\ CM(j) \in Seq(CMsg(j))
  BY DEF JobTypes
<1>2. Ans(j)'
  BY TickAns DEF Ticked
<1>3. CASE j \notin writing
  BY <1>2, <1>3, OutProt DEF Ticked, ServerOnly
<1>4. CASE j \in writing
  <2>1. PICK d \in 0 .. 1, n \in Nat, f \in Files, lo \in Nat : FlowAt(j, d, n, f, lo)
    BY <1>4, ReadRuns
  <2>2. ~writer'[j].last
    BY <1>4, ReadRuns DEF Ticked
  <2>3. PICK no \in BOOLEAN : no = (j \in Elems(reading'["server"]))
    BY Membership
  <2>4. Reads(j) = TRUE /\ Reads(j)' = no /\ no \in BOOLEAN
    BY <2>3 DEF Reads
  <2>5. Flow(j, writer[j], TRUE, reader[j], CM(j), SM(j), version[j], Asked(j), decided[j], Bad(j), d, n, f, lo)
    BY <2>1, <2>4, ZenonT(30) DEF FlowAt
  <2>6. Flow(j, writer[j], no, reader[j], Append(CM(j), Error(j)), SM(j), version[j], Asked(j), decided[j],
             Bad(j), d, n, f, lo)
    BY <1>1, <2>4, <2>5, FlowGivesUp, ZenonT(30)
  <2>7. FlowAt(j, d, n, f, lo)'
    BY <2>4, <2>6 DEF FlowAt, Ticked, ServerOnly
  <2>8. Prot(j)'
    BY <2>1, <2>2, <2>7, FlowProt
  <2> QED
    BY <1>2, <2>8
<1> QED
  BY <1>3, <1>4
---------------------------------------------------------------------------
(* A tick of the reading side, over all its jobs.                          *)

LEMMA OnlyAll ==
  ASSUME NEW T, NEW q \in Seq(T)
  PROVE  Only(q, T) = q
<1> DEFINE h == [n \in 0 .. Len(q) |-> SubSeq(q, 1, n)]
<1>1. Len(q) \in Nat
  OBVIOUS
<1>2. h[0] = <<>>
  <2>1. SubSeq(q, 1, 0) = <<>>
    OBVIOUS
  <2> QED
    BY <1>1, <2>1
<1>3. ASSUME NEW n \in 1 .. Len(q) PROVE h[n] = IF q[n] \in T THEN Append(h[n - 1], q[n]) ELSE h[n - 1]
  <2>1. q[n] \in T /\ n - 1 \in 0 .. Len(q) /\ n \in 0 .. Len(q)
    BY <1>1
  <2>2. h[n] = SubSeq(q, 1, n) /\ h[n - 1] = SubSeq(q, 1, n - 1)
    BY <2>1
  <2>3. SubSeq(q, 1, n) = Append(SubSeq(q, 1, n - 1), q[n])
    BY <1>1
  <2> QED
    BY <2>1, <2>2, <2>3
<1>4. h[Len(q)] = q
  <2>1. SubSeq(q, 1, Len(q)) = q
    OBVIOUS
  <2> QED
    BY <1>1, <2>1
<1> HIDE DEF h
<1>5. Selects(h, q, T, Len(q))
  BY <1>2, <1>3 DEF Selects
<1> QED
  BY <1>4, <1>5, OnlyIs

\* The messages of one job, among those of all.
LEMMA OnlyOwn ==
  ASSUME NEW k \in Jobs, NEW s \in Seq(CMsg(k))
  PROVE  /\ s \in Seq(CMsgs)
         /\ \A j \in Jobs : Only(s, CMsg(j)) = IF j = k THEN s ELSE <<>>
<1>1. Len(s) \in Nat /\ DOMAIN s = 1 .. Len(s) /\ \A i \in DOMAIN s : s[i] \in CMsg(k) /\ s[i] \in CMsgs
  BY DEF CMsgs
<1>2. s \in Seq(CMsgs)
  BY <1>1
<1>3. ASSUME NEW j \in Jobs, j # k PROVE Only(s, CMsg(j)) = <<>>
  <2>1. \A m \in Elems(s) : m.j # j
    BY <1>1, <1>3, Owner DEF Elems
  <2> QED
    BY <1>2, <2>1, NoneC
<1>4. Only(s, CMsg(k)) = s
  BY OnlyAll
<1> QED
  BY <1>2, <1>3, <1>4

\* One message each of several jobs.
LEMMA OnlySent ==
  ASSUME NEW senders \in Seq(Jobs), IsInjective(senders), NEW sent, DOMAIN sent = DOMAIN senders,
         sent \in Seq(CMsgs), \A n \in DOMAIN senders : sent[n] \in CMsg(senders[n])
  PROVE  /\ \A n \in DOMAIN senders : Only(sent, CMsg(senders[n])) = <<sent[n]>>
         /\ \A j \in Jobs \ Elems(senders) : Only(sent, CMsg(j)) = <<>>
<1>1. ASSUME NEW n \in DOMAIN senders PROVE Only(sent, CMsg(senders[n])) = <<sent[n]>>
  <2>1. \A i \in DOMAIN sent : i # n => senders[i] # senders[n]
    BY DEF IsInjective
  <2>2. \A i \in DOMAIN sent : i # n => sent[i] \notin CMsg(senders[n])
    BY <2>1, Owner
  <2> QED
    BY <2>2, OnlyOne
<1>2. ASSUME NEW j \in Jobs \ Elems(senders) PROVE Only(sent, CMsg(j)) = <<>>
  <2>1. \A i \in DOMAIN sent : sent[i].j # j
    BY Owner DEF Elems
  <2>2. \A m \in Elems(sent) : m.j # j
    BY <2>1 DEF Elems
  <2> QED
    BY <2>2, NoneC
<1> QED
  BY <1>1, <1>2

LEMMA InitMessageType ==
  ASSUME NEW j, version[j] \in [Files -> 1 .. MaxVersion], NEW r \in Job, NEW fails \in BOOLEAN,
         NEW i, i = InitDataStream(r, fails)
  PROVE  /\ i.job \in Job
         /\ i.out # "none" => /\ InitMessage(j, i) \in CMsg(j)
                              /\ j \in Uploads => InitMessage(j, i) \in SMsg(j)
<1>1. i.job \in Job /\ i.out \in {"none", "digest", "error"} /\ (i.out = "digest" => i.job.file \in Files)
  BY InitType
<1>2. Error(j) \in CMsg(j) /\ (j \in Uploads => Error(j) \in SMsg(j))
  BY DEF Error, CMsg, SMsg
<1>3. i.out = "digest" => Digest(j, i.job.file) \in DigestMsg(j)
  <2>1. i.out = "digest" => version[j][i.job.file] \in 0 .. MaxVersion
    BY <1>1, FileTransferAssumption
  <2> QED
    BY <1>1, <2>1 DEF Digest, DigestMsg
<1>4. DigestMsg(j) \subseteq CMsg(j) /\ (j \in Uploads => DigestMsg(j) \subseteq SMsg(j))
  BY DEF CMsg, SMsg
<1> QED
  BY <1>1, <1>2, <1>3, <1>4 DEF InitMessage

LEMMA ReadMessageIs ==
  ASSUME NEW j, version[j] \in [Files -> 1 .. MaxVersion], NEW a \in Job, NEW rf \in BOOLEAN,
         NEW r, r = ReadNow(j, a, rf)
  PROVE  /\ r.job \in Job /\ ReadMessage(j, a, r) \in Seq(CMsg(j))
         /\ j \in Uploads => ReadMessage(j, a, r) \in Seq(SMsg(j))
<1>1. /\ r.job \in Job
      /\ ReadMessage(j, a, r) = <<>> \/ \E m \in CMsg(j) : ReadMessage(j, a, r) = <<m>>
  BY ReadMessageType
<1>2. ReadMessage(j, a, r) \in {<<Block(j, a.file, r.data)>>, <<Error(j)>>, <<Done(j)>>, <<>>}
  BY DEF ReadMessage
<1>3. CASE ReadMessage(j, a, r) = <<>>
  BY <1>1, <1>3
<1>4. CASE \E m \in CMsg(j) : ReadMessage(j, a, r) = <<m>>
  <2>1. PICK m \in CMsg(j) : ReadMessage(j, a, r) = <<m>>
    BY <1>4
  <2>2. m \in {Block(j, a.file, r.data), Error(j), Done(j)}
    <3>1. <<m>>[1] = m /\ <<m>> # <<>> /\ \A x : <<x>>[1] = x
      OBVIOUS
    <3> QED
      BY <1>2, <2>1, <3>1
  <2>3. m.t \in {"block", "error", "done"}
    BY <2>2 DEF Block, Error, Done
  <2>4. j \in Uploads => m \in SMsg(j)
    BY <2>1, <2>3 DEF CMsg, SMsg, DigestMsg, BlockMsg
  <2>5. <<m>> \in Seq(CMsg(j)) /\ (j \in Uploads => <<m>> \in Seq(SMsg(j)))
    BY <2>1, <2>4
  <2> QED
    BY <1>1, <2>1, <2>5
<1> QED
  BY <1>1, <1>3, <1>4

\* What the next-state relation and the properties need of a tick.
AllQuiet == IInv' /\ \A j \in Jobs : Quiet(j) /\ Kept(j)

LEMMA FaultsType ==
  ASSUME CoreB, NEW side, NEW bad, NEW rf, Failure(side, bad, rf)
  PROVE  faults' \in 0 .. MaxFaults
<1>1. faults \in Nat /\ MaxFaults \in Nat
  BY FileTransferAssumption DEF CoreB
<1>2. (faults' = faults \/ faults' = faults + 1) /\ faults' <= MaxFaults
  BY DEF Failure
<1> QED
  BY <1>1, <1>2

\* The jobs of a tick of the controlled side.
LEMMA LiveServer ==
  ASSUME CoreR
  PROVE  /\ Live("server") \in Seq(Jobs) /\ IsInjective(Live("server"))
         /\ Elems(Live("server")) \subseteq Downloads /\ \A j \in Elems(Live("server")) : j \in Jobs /\ Reads(j)
<1>1. /\ reading["server"] \in Seq(Jobs) /\ Elems(reading["server"]) \subseteq Downloads
      /\ IsInjective(reading["server"])
  BY DEF CoreR, Sides
<1>2. /\ Live("server") \in Seq(Jobs) /\ IsInjective(Live("server"))
      /\ Elems(Live("server")) \subseteq Elems(reading["server"])
  BY <1>1, OnlyElems DEF Live
<1> QED
  BY <1>1, <1>2 DEF Reads, Downloads

LEMMA LiveClient ==
  ASSUME CoreR
  PROVE  /\ Live("client") \in Seq(Jobs) /\ Elems(Live("client")) \subseteq Uploads
         /\ \A j \in Elems(Live("client")) : j \in Jobs /\ ~reader[j].last
<1>1. reading["client"] \in Seq(Jobs) /\ Elems(reading["client"]) \subseteq Uploads
  BY DEF CoreR, Sides
<1>2. /\ Live("client") \in Seq(Jobs)
      /\ Elems(Live("client")) = Elems(reading["client"]) \cap {j \in Jobs : ~reader[j].last}
  BY <1>1, OnlyElems DEF Live
<1> QED
  BY <1>1, <1>2

LEMMA HeadElem ==
  ASSUME NEW S, NEW q \in Seq(S), q # <<>>
  PROVE  q[1] \in Elems(q)
<1>1. 1 \in DOMAIN q
  BY EmptySeq
<1> QED
  BY <1>1 DEF Elems

\* Two runs of messages are sent to the client.
Posts(a, b) == a \in Seq(CMsgs) /\ b \in Seq(CMsgs) /\ toClient' = toClient \o (a \o b)
Posted(a, b) ==
    /\ toClient' \in Seq(CMsgs)
    /\ \A j \in Jobs : CM(j)' = CM(j) \o (Only(a, CMsg(j)) \o Only(b, CMsg(j)))

LEMMA PostsAdd ==
  ASSUME CoreA, NEW a, NEW b, Posts(a, b)
  PROVE  Posted(a, b)
<1>0. a \in Seq(CMsgs) /\ b \in Seq(CMsgs) /\ toClient' = toClient \o (a \o b)
  BY DEF Posts
<1>1. PICK s : s = a \o b
  BY ZenonT(30)
<1>2. s \in Seq(CMsgs) /\ toClient \in Seq(CMsgs)
  BY <1>0, <1>1, ConcatProperties DEF CoreA
<1>3. toClient \o s \in Seq(CMsgs)
  BY <1>2, ConcatProperties
<1>4. ASSUME NEW j \in Jobs PROVE Only(toClient \o s, CMsg(j)) = Only(toClient, CMsg(j)) \o Only(s, CMsg(j))
  BY <1>2, OnlyConcat
<1>5. ASSUME NEW j \in Jobs PROVE Only(a \o b, CMsg(j)) = Only(a, CMsg(j)) \o Only(b, CMsg(j))
  BY <1>0, OnlyConcat
<1> QED
  BY <1>0, <1>1, <1>3, <1>4, <1>5, ZenonT(30) DEF CM, Posted

\* handle_read_jobs of the connection: every job is initialised, the first
\* is read.
LEMMA StepTickConnection ==
  ASSUME IInv, NEW bad, NEW rf \in BOOLEAN, HandleReadJobs("server", bad, rf)
  PROVE  AllQuiet
<1>1. CoreA /\ CoreR /\ CoreB /\ CoreC
  BY TypesAreCore, SMTT(30) DEF IInv
<1> DEFINE qq == Live("server")
           ii == [j \in Elems(qq) |-> InitDataStream(reader[j], j \in bad)]
           ss == Only(qq, {j \in Elems(qq) : ii[j].out # "none"})
           mm == [n \in DOMAIN ss |-> InitMessage(ss[n], ii[ss[n]])]
           hh == qq[1]
           rr == ReadNow(hh, ii[hh].job, rf)
           bb == ReadMessage(hh, ii[hh].job, rr)
<1>0. /\ qq # <<>> /\ Failure("server", bad, rf) /\ ServerOnly /\ UNCHANGED <<cmWriting, writer>>
      /\ reader' = [j \in Jobs |-> IF j \notin Elems(qq) THEN reader[j]
                                   ELSE IF j = hh THEN rr.job ELSE ii[j].job]
      /\ Post("server", mm \o bb)
      /\ reading' = IF Finishes(rr) THEN [reading EXCEPT !["server"] = Without(@, hh)] ELSE reading
  BY ZenonT(30) DEF HandleReadJobs, ServerOnly
<1>a. PICK q, init, senders, sent, h, a, r, rm :
         /\ q = qq /\ init = ii /\ senders = ss /\ sent = mm
         /\ h = hh /\ a = ii[hh].job /\ r = rr /\ rm = bb
  BY ZenonT(30)
<1>b. /\ q = Live("server") /\ init = [j \in Elems(q) |-> InitDataStream(reader[j], j \in bad)]
      /\ senders = Only(q, {j \in Elems(q) : init[j].out # "none"})
      /\ sent = [n \in DOMAIN senders |-> InitMessage(senders[n], init[senders[n]])]
      /\ h = q[1] /\ a = init[h].job /\ r = ReadNow(h, a, rf) /\ rm = ReadMessage(h, a, r)
  BY <1>a
<1> HIDE DEF qq, ii, ss, mm, hh, rr, bb
<1>2. /\ q # <<>> /\ Failure("server", bad, rf) /\ ServerOnly /\ UNCHANGED <<cmWriting, writer>>
      /\ reader' = [j \in Jobs |-> IF j \notin Elems(q) THEN reader[j]
                                   ELSE IF j = h THEN r.job ELSE init[j].job]
      /\ Post("server", sent \o rm)
      /\ reading' = IF Finishes(r) THEN [reading EXCEPT !["server"] = Without(@, h)] ELSE reading
  BY <1>0, <1>a
<1>3. toClient' = toClient \o (sent \o rm) /\ toServer' = toServer
  BY <1>2 DEF Post
<1>4. faults' \in 0 .. MaxFaults
  BY <1>1, <1>2, FaultsType
<1>5. /\ q \in Seq(Jobs) /\ IsInjective(q) /\ Elems(q) \subseteq Downloads
      /\ \A j \in Elems(q) : j \in Jobs /\ Reads(j)
  BY <1>1, <1>b, LiveServer, SMTT(30)
<1>6. h \in Elems(q) /\ h \in Jobs /\ Reads(h)
  BY <1>2, <1>5, <1>b, HeadElem, ZenonT(30)
<1>7. \A j \in Jobs : JobTypes(j)
  BY <1>1, TypesOfJob
<1>8. ASSUME NEW j \in Elems(q)
      PROVE  /\ \E b \in BOOLEAN : init[j] = InitDataStream(reader[j], b)
             /\ init[j].job \in Job
             /\ init[j].out # "none" => InitMessage(j, init[j]) \in CMsg(j)
  <2>1. PICK b \in BOOLEAN : b = (j \in bad)
    BY Membership
  <2>2. init[j] = InitDataStream(reader[j], b)
    BY <1>b, <2>1
  <2>3. version[j] \in [Files -> 1 .. MaxVersion] /\ reader[j] \in Job
    BY <1>5, <1>7 DEF JobTypes
  <2> QED
    BY <2>1, <2>2, <2>3, InitMessageType, ZenonT(30)
<1>9. /\ senders \in Seq(Jobs) /\ IsInjective(senders) /\ Elems(senders) \subseteq Elems(q)
      /\ \A j \in Elems(q) : j \in Elems(senders) <=> init[j].out # "none"
  <2>1. PICK T : T = {j \in Elems(q) : init[j].out # "none"}
    BY ZenonT(30)
  <2>2. senders = Only(q, T)
    BY <1>b, <2>1
  <2>3. senders \in Seq(Jobs) /\ Elems(senders) = Elems(q) \cap T /\ IsInjective(senders)
    BY <1>5, <2>2, OnlyElems
  <2> QED
    BY <2>1, <2>3
<1>10. /\ DOMAIN sent = DOMAIN senders
       /\ \A n \in DOMAIN senders : sent[n] = InitMessage(senders[n], init[senders[n]])
       /\ \A n \in DOMAIN senders : sent[n] \in CMsg(senders[n])
       /\ sent \in Seq(CMsgs)
  <2>1. \A n \in DOMAIN senders : senders[n] \in Elems(senders)
    BY DEF Elems
  <2>2. DOMAIN senders = 1 .. Len(senders) /\ Len(senders) \in Nat
    BY <1>9, SMTT(30)
  <2>3. \A n \in DOMAIN senders : sent[n] \in CMsg(senders[n]) /\ senders[n] \in Jobs
    BY <1>5, <1>8, <1>9, <1>b, <2>1, ZenonT(30)
  <2>4. \A n \in DOMAIN senders : sent[n] \in CMsgs
    BY <2>3 DEF CMsgs
  <2>5. sent \in Seq(CMsgs)
    <3>1. sent = [n \in 1 .. Len(senders) |-> sent[n]]
      BY <1>b, <2>2
    <3> QED
      BY <2>2, <2>4, <3>1, SMTT(30)
  <2> QED
    BY <1>b, <2>3, <2>5, ZenonT(30)
<1>11. \A j \in Jobs : Only(sent, CMsg(j)) = IF j \in Elems(q) THEN InitMessages(j, init[j]) ELSE <<>>
  <2>1. /\ \A n \in DOMAIN senders : Only(sent, CMsg(senders[n])) = <<sent[n]>>
        /\ \A j \in Jobs \ Elems(senders) : Only(sent, CMsg(j)) = <<>>
    BY <1>9, <1>10, OnlySent
  <2>2. ASSUME NEW j \in Elems(senders) PROVE Only(sent, CMsg(j)) = InitMessages(j, init[j]) /\ j \in Elems(q)
    <3>1. PICK n \in DOMAIN senders : senders[n] = j
      BY DEF Elems
    <3>2. init[j].out # "none" /\ j \in Elems(q)
      BY <1>9
    <3> QED
      BY <1>10, <2>1, <3>1, <3>2 DEF InitMessages
  <2>3. ASSUME NEW j \in Elems(q), j \notin Elems(senders) PROVE InitMessages(j, init[j]) = <<>>
    BY <1>9, <2>3 DEF InitMessages
  <2> QED
    BY <1>5, <2>1, <2>2, <2>3
<1>12. a \in Job /\ version[h] \in [Files -> 1 .. MaxVersion]
  BY <1>6, <1>7, <1>8, <1>b DEF JobTypes
<1>13. r.job \in Job /\ rm \in Seq(CMsg(h))
  BY <1>12, <1>b, ReadMessageIs
<1>14. rm \in Seq(CMsgs) /\ \A j \in Jobs : Only(rm, CMsg(j)) = IF j = h THEN rm ELSE <<>>
  BY <1>6, <1>13, OnlyOwn
<1>15. toClient' \in Seq(CMsgs)
       /\ \A j \in Jobs : CM(j)' = CM(j) \o (Only(sent, CMsg(j)) \o Only(rm, CMsg(j)))
  <2>1. Posts(sent, rm)
    BY <1>3, <1>10, <1>14 DEF Posts
  <2>2. Posted(sent, rm)
    BY <1>1, <2>1, PostsAdd
  <2> QED
    BY <2>2 DEF Posted
<1>16. ASSUME NEW j \in Elems(q)
       PROVE  InitMessages(j, init[j]) \in Seq(CMsg(j)) /\ CM(j) \in Seq(CMsg(j))
  <2>1. InitMessages(j, init[j]) \in Seq(CMsg(j))
    BY <1>8 DEF InitMessages
  <2> QED
    BY <1>5, <1>7, <2>1 DEF JobTypes
<1>17. /\ \A j \in Jobs \ Elems(q) : CM(j)' = CM(j)
       /\ \A j \in Elems(q) \ {h} : CM(j)' = CM(j) \o InitMessages(j, init[j])
       /\ CM(h)' = (CM(h) \o InitMessages(h, init[h])) \o rm
  <2>1. ASSUME NEW j \in Jobs \ Elems(q) PROVE CM(j)' = CM(j)
    <3>1. CM(j)' = CM(j) \o (<<>> \o <<>>)
      BY <1>6, <1>11, <1>14, <1>15, ZenonT(30)
    <3>2. CM(j) \in Seq(CMsg(j))
      BY <1>7 DEF JobTypes
    <3> QED
      BY <3>1, <3>2
  <2>2. ASSUME NEW j \in Elems(q) \ {h} PROVE CM(j)' = CM(j) \o InitMessages(j, init[j])
    <3>1. CM(j)' = CM(j) \o (InitMessages(j, init[j]) \o <<>>)
      BY <1>5, <1>11, <1>14, <1>15, ZenonT(30)
    <3> QED
      BY <1>16, <3>1, ConcatEmptySeq
  <2>3. CM(h)' = (CM(h) \o InitMessages(h, init[h])) \o rm
    <3>1. CM(h)' = CM(h) \o (InitMessages(h, init[h]) \o rm)
      BY <1>6, <1>11, <1>14, <1>15, ZenonT(30)
    <3> QED
      BY <1>6, <1>13, <1>16, <3>1, ConcatAssociative, SMTT(30)
  <2> QED
    BY <2>1, <2>2, <2>3
<1>18. /\ CoreR' /\ \A j \in Jobs \ {h} : Reads(j)' = Reads(j)
       /\ Finishes(r) => ~Reads(h)' 
       /\ ~Finishes(r) => Reads(h)'
  <2>1. CASE ~Finishes(r)
    BY <1>1, <1>2, <1>6, <2>1 DEF CoreR, Reads
  <2>2. CASE Finishes(r)
    <3> DEFINE p == Without(reading["server"], h)
    <3>1. reading["server"] \in Seq(Jobs) /\ Elems(reading["server"]) \subseteq Downloads
          /\ IsInjective(reading["server"])
      BY <1>1 DEF CoreR, Sides
    <3>2. p \in Seq(Jobs) /\ Elems(p) = Elems(reading["server"]) \ {h} /\ IsInjective(p)
      BY <3>1, WithoutIs
    <3>3. reading' = [reading EXCEPT !["server"] = p]
      BY <1>2, <2>2
    <3> HIDE DEF p
    <3>4. CoreR' /\ \A j : Reads(j)' = (j \in Elems(p))
      BY <1>1, <3>1, <3>2, <3>3, ReadsServer, ZenonT(30)
    <3>5. \A j \in Jobs \ {h} : (j \in Elems(p)) = (j \in Elems(reading["server"]))
      BY <3>2
    <3> QED
      BY <2>2, <3>2, <3>4, <3>5 DEF Reads
  <2> QED
    BY <2>1, <2>2
<1>19. /\ reader' \in [Jobs -> Job] /\ reader'[h] = r.job
       /\ \A j \in Elems(q) \ {h} : reader'[j] = init[j].job
       /\ \A j \in Jobs \ Elems(q) : reader'[j] = reader[j]
  BY <1>1, <1>2, <1>5, <1>6, <1>8, <1>13 DEF CoreA
<1>20. CoreA' /\ \A j : SM(j)' = SM(j)
  BY <1>1, <1>2, <1>3, <1>15, <1>19 DEF CoreA, SM, ServerOnly
<1>21. /\ CoreB' /\ CoreC' /\ \A j : Asked(j)' = Asked(j) /\ Bad(j)' = Bad(j)
       /\ \A j \in Jobs : Quiet(j) /\ Kept(j)
  BY <1>1, <1>2, <1>4, ServerFrame
<1>22. \A j \in Jobs \ Elems(q) : Same(j)
  BY <1>2, <1>6, <1>17, <1>18, <1>19, <1>20, <1>21 DEF Same, ServerOnly
<1>23. \A j \in Jobs : Ticked(j)
  BY <1>2, <1>20, <1>21 DEF Ticked
<1>24. ASSUME NEW j \in Downloads PROVE Download(j)'
  <2>1. Download(j) /\ j \in Jobs
    BY DEF IInv, Downloads
  <2>2. Prot(j) /\ Ans(j) /\ Cont(j)
    BY <2>1, DownloadParts
  <2>3. Cont(j)'
    BY <1>2, <1>21, <2>1, <2>2 DEF Cont, ServerOnly
  <2>4. CASE j \notin Elems(q)
    BY <1>22, <2>1, <2>4, FrameD
  <2>5. CASE j \in Elems(q) /\ j # h
    <3>1. PICK b \in BOOLEAN : init[j] = InitDataStream(reader[j], b)
      BY <1>8, <2>5
    <3>2. PICK i : i = init[j]
      OBVIOUS
    <3>3. Reads(j) /\ Reads(j)' /\ Ticked(j) /\ JobTypes(j)
      BY <1>5, <1>7, <1>18, <1>23, <2>1, <2>5
    <3>4. i = InitDataStream(reader[j], b) /\ reader'[j] = i.job /\ CM(j)' = CM(j) \o InitMessages(j, i)
      BY <1>17, <1>19, <2>5, <3>1, <3>2, ZenonT(30)
    <3>5. Prot(j)' /\ Ans(j)'
      BY <2>1, <2>2, <3>1, <3>3, <3>4, TickInit, ZenonT(30)
    <3> QED
      BY <2>3, <3>5, DownloadParts
  <2>6. CASE j = h
    <3>1. PICK b \in BOOLEAN : init[h] = InitDataStream(reader[h], b)
      BY <1>6, <1>8
    <3>2. PICK i : i = init[h]
      OBVIOUS
    <3>3. PICK x : x = r
      OBVIOUS
    <3>4. Reads(j) /\ Ticked(j) /\ JobTypes(j)
      BY <1>6, <1>7, <1>23, <2>6
    <3>5. /\ i = InitDataStream(reader[j], b) /\ x = ReadNow(j, i.job, rf) /\ reader'[j] = x.job
          /\ CM(j)' = (CM(j) \o InitMessages(j, i)) \o ReadMessage(j, i.job, x)
      BY <1>17, <1>19, <2>6, <3>1, <3>2, <3>3, <1>b, ZenonT(30)
    <3>6. /\ Finishes(x) => ~Reads(j)'
          /\ ~Finishes(x) /\ x.out # "error" => Reads(j)'
      BY <1>18, <2>6, <3>3
    <3>7. Prot(j)' /\ Ans(j)'
      BY <2>1, <2>2, <3>1, <3>4, <3>5, <3>6, TickRead, ZenonT(30)
    <3> QED
      BY <2>3, <3>7, DownloadParts
  <2> QED
    BY <2>4, <2>5, <2>6
<1>25. ASSUME NEW j \in Uploads PROVE Upload(j)'
  <2>1. Upload(j) /\ j \in Jobs \ Elems(q)
    BY <1>5, FileTransferAssumption DEF IInv, Downloads
  <2> QED
    BY <1>22, <2>1, FrameU
<1> QED
  BY <1>18, <1>20, <1>21, <1>24, <1>25, CoreIsTypes DEF AllQuiet, IInv

\* handle_read_jobs_tick of the connection manager: a job that fails is
\* finished, the first other one is initialised and read.
LEMMA StepTickManager ==
  ASSUME IInv, NEW bad, NEW rf \in BOOLEAN, HandleReadJobsTick(bad, rf)
  PROVE  AllQuiet
<1> DEFINE qq == Live("server")
           ss == Only(qq, Jobs \ bad)
           hh == ss[1]
           ii == InitDataStream(reader[hh], FALSE)
           rr == ReadNow(hh, ii.job, rf)
           ee == bad \cup (IF ss # <<>> /\ (Finishes(rr) \/ rr.out = "error") THEN {hh} ELSE {})
           aa == IF bad = {} THEN <<>> ELSE <<Error(qq[1])>>
           bb == IF ss = <<>> THEN <<>>
                 ELSE InitMessages(hh, ii) \o ReadMessage(hh, ii.job, rr)
<1>0. /\ qq # <<>> /\ Failure("server", bad, rf) /\ ServerOnly /\ UNCHANGED <<cmWriting, writer>>
      /\ bad \subseteq {qq[1]}
      /\ reader' = IF ss = <<>> THEN reader ELSE [reader EXCEPT ![hh] = rr.job]
      /\ Post("server", aa \o bb)
      /\ reading' = [reading EXCEPT !["server"] = Only(@, Jobs \ ee)]
  BY ZenonT(30) DEF HandleReadJobsTick, ServerOnly, InitMessages
<1>a. PICK q, rest, h, i, r, ended, a, b :
         q = qq /\ rest = ss /\ h = hh /\ i = ii /\ r = rr /\ ended = ee /\ a = aa /\ b = bb
  BY ZenonT(30)
<1>c. PICK no \in BOOLEAN : no = FALSE
  BY ZenonT(30)
<1>b. /\ q = Live("server") /\ rest = Only(q, Jobs \ bad) /\ h = rest[1]
      /\ i = InitDataStream(reader[h], no) /\ r = ReadNow(h, i.job, rf)
      /\ ended = bad \cup (IF rest # <<>> /\ (Finishes(r) \/ r.out = "error") THEN {h} ELSE {})
      /\ a = (IF bad = {} THEN <<>> ELSE <<Error(q[1])>>)
      /\ b = (IF rest = <<>> THEN <<>> ELSE InitMessages(h, i) \o ReadMessage(h, i.job, r))
  BY <1>a, <1>c, ZenonT(30)
<1> HIDE DEF qq, ii, ss, hh, rr, ee, aa, bb
<1>2. /\ q # <<>> /\ Failure("server", bad, rf) /\ ServerOnly /\ UNCHANGED <<cmWriting, writer>>
      /\ bad \subseteq {q[1]}
      /\ reader' = IF rest = <<>> THEN reader ELSE [reader EXCEPT ![h] = r.job]
      /\ Post("server", a \o b)
      /\ reading' = [reading EXCEPT !["server"] = Only(@, Jobs \ ended)]
  BY <1>0, <1>a
<1>3. toClient' = toClient \o (a \o b) /\ toServer' = toServer
  BY <1>2 DEF Post
<1>1. CoreA /\ CoreR /\ CoreB /\ CoreC
  BY TypesAreCore DEF IInv
<1>4. faults' \in 0 .. MaxFaults
  BY <1>1, <1>2, FaultsType
<1>5. /\ q \in Seq(Jobs) /\ Elems(q) \subseteq Downloads
      /\ \A j \in Elems(q) : j \in Jobs /\ Reads(j)
  BY <1>1, <1>b, LiveServer
<1>6. /\ q[1] \in Jobs
      /\ \A j \in bad : j \in Elems(q) /\ j = q[1] /\ Opens(reader[j])
  <2>1. q[1] \in Elems(q)
    BY <1>2, <1>5, HeadElem, SMTT(30)
  <2>2. bad \subseteq {j \in Elems(q) : Opens(reader[j])}
    BY <1>2, <1>b DEF Failure
  <2> QED
    BY <1>2, <1>5, <2>1, <2>2
<1>7. \A j \in Jobs : JobTypes(j)
  BY <1>1, TypesOfJob
<1>8. /\ rest \in Seq(Jobs) /\ Elems(rest) = Elems(q) \cap (Jobs \ bad)
      /\ rest # <<>> => h \in Elems(q) /\ h \in Jobs /\ h \notin bad
  <2>1. rest \in Seq(Jobs) /\ Elems(rest) = Elems(q) \cap (Jobs \ bad)
    BY <1>5, <1>b, OnlyElems, SMTT(30)
  <2>2. rest # <<>> => h \in Elems(rest)
    BY <1>b, <2>1, HeadElem, ZenonT(30)
  <2> QED
    BY <2>1, <2>2
<1>9. ASSUME rest # <<>>
      PROVE  /\ i.job \in Job /\ r.job \in Job
             /\ InitMessages(h, i) \in Seq(CMsg(h)) /\ ReadMessage(h, i.job, r) \in Seq(CMsg(h))
             /\ b = InitMessages(h, i) \o ReadMessage(h, i.job, r) /\ b \in Seq(CMsg(h))
  <2>1. version[h] \in [Files -> 1 .. MaxVersion] /\ reader[h] \in Job
    BY <1>7, <1>8, <1>9 DEF JobTypes
  <2>2. i.job \in Job /\ (i.out # "none" => InitMessage(h, i) \in CMsg(h))
    BY <1>b, <1>c, <2>1, InitMessageType, ZenonT(30)
  <2>3. r.job \in Job /\ ReadMessage(h, i.job, r) \in Seq(CMsg(h))
    BY <1>b, <2>1, <2>2, ReadMessageIs, ZenonT(30)
  <2>4. InitMessages(h, i) \in Seq(CMsg(h))
    BY <2>2 DEF InitMessages
  <2>5. b = InitMessages(h, i) \o ReadMessage(h, i.job, r)
    BY <1>9, <1>b, ZenonT(30)
  <2> QED
    BY <2>2, <2>3, <2>4, <2>5, ConcatProperties
<1>10. a \in Seq(CMsgs) /\ \A j \in Jobs : Only(a, CMsg(j)) = IF j \in bad THEN <<Error(j)>> ELSE <<>>
  <2>1. CASE bad = {}
    <3>1. a = <<>> /\ a \in Seq(CMsgs) /\ \A m \in Elems(a) : FALSE
      BY <1>b, <2>1 DEF Elems
    <3> QED
      BY <2>1, <3>1, NoneC, ZenonT(30)
  <2>2. CASE bad # {}
    <3>1. bad = {q[1]} /\ a = <<Error(q[1])>>
      BY <1>2, <1>b, <2>2
    <3>2. Error(q[1]) \in CMsg(q[1])
      BY DEF Error, CMsg
    <3>3. a \in Seq(CMsg(q[1]))
      BY <3>1, <3>2
    <3>4. a \in Seq(CMsgs) /\ \A j \in Jobs : Only(a, CMsg(j)) = IF j = q[1] THEN a ELSE <<>>
      BY <1>6, <3>3, OnlyOwn
    <3> QED
      BY <3>1, <3>4, SMTT(30)
  <2> QED
    BY <2>1, <2>2
<1>11. /\ b \in Seq(CMsgs)
       /\ \A j \in Jobs : Only(b, CMsg(j)) = IF rest # <<>> /\ j = h THEN b ELSE <<>>
  <2>1. CASE rest = <<>>
    <3>0. b = <<>>
      BY <1>b, <2>1
    <3>1. b \in Seq(CMsgs) /\ \A m \in Elems(b) : FALSE
      BY <3>0 DEF Elems
    <3> QED
      BY <2>1, <3>0, <3>1, NoneC, ZenonT(30)
  <2>2. CASE rest # <<>>
    BY <1>8, <1>9, <2>2, OnlyOwn
  <2> QED
    BY <2>1, <2>2
<1>12. toClient' \in Seq(CMsgs)
       /\ \A j \in Jobs : CM(j)' = CM(j) \o (Only(a, CMsg(j)) \o Only(b, CMsg(j)))
  <2>1. Posts(a, b)
    BY <1>3, <1>10, <1>11 DEF Posts
  <2>2. Posted(a, b)
    BY <1>1, <2>1, PostsAdd
  <2> QED
    BY <2>2 DEF Posted
<1>13. ASSUME NEW j \in Jobs
       PROVE  /\ j \in bad => CM(j)' = Append(CM(j), Error(j))
              /\ rest # <<>> /\ j = h => CM(j)' = (CM(j) \o InitMessages(j, i)) \o ReadMessage(j, i.job, r)
              /\ j \notin bad /\ ~(rest # <<>> /\ j = h) => CM(j)' = CM(j)
  <2>1. CM(j) \in Seq(CMsg(j))
    BY <1>7 DEF JobTypes
  <2>2. CASE j \in bad
    <3>1. CM(j)' = CM(j) \o (<<Error(j)>> \o <<>>)
      BY <1>8, <1>10, <1>11, <1>12, <2>2, ZenonT(30)
    <3>2. Error(j) \in CMsg(j)
      BY DEF Error, CMsg
    <3>3. <<Error(j)>> \o <<>> = <<Error(j)>> /\ CM(j) \o <<Error(j)>> = Append(CM(j), Error(j))
      BY <2>1, <3>2
    <3> QED
      BY <1>8, <2>2, <3>1, <3>3
  <2>3. CASE rest # <<>> /\ j = h
    <3>1. CM(j)' = CM(j) \o (<<>> \o b)
      BY <1>8, <1>10, <1>11, <1>12, <2>3, ZenonT(30)
    <3>2. <<>> \o b = b /\ b = InitMessages(j, i) \o ReadMessage(j, i.job, r)
      BY <1>9, <2>3, ConcatEmptySeq
    <3>3. CM(j)' = CM(j) \o (InitMessages(j, i) \o ReadMessage(j, i.job, r))
      BY <3>1, <3>2
    <3>4. PICK x, y : x = InitMessages(j, i) /\ y = ReadMessage(j, i.job, r)
      OBVIOUS
    <3>5. x \in Seq(CMsg(j)) /\ y \in Seq(CMsg(j))
      BY <1>9, <2>3, <3>4
    <3>6. CM(j) \o (x \o y) = (CM(j) \o x) \o y
      BY <2>1, <3>5, ConcatAssociative
    <3> QED
      BY <1>8, <2>3, <3>3, <3>4, <3>6
  <2>4. CASE j \notin bad /\ ~(rest # <<>> /\ j = h)
    <3>1. CM(j)' = CM(j) \o (<<>> \o <<>>)
      BY <1>10, <1>11, <1>12, <2>4, ZenonT(30)
    <3> QED
      BY <2>1, <2>4, <3>1
  <2> QED
    BY <2>2, <2>3, <2>4
<1>14. CoreR' /\ \A j \in Jobs : Reads(j)' = (Reads(j) /\ j \notin ended)
  <2>1. PICK p : p = Only(reading["server"], Jobs \ ended)
    OBVIOUS
  <2>2. reading["server"] \in Seq(Jobs) /\ Elems(reading["server"]) \subseteq Downloads
        /\ IsInjective(reading["server"])
    BY <1>1 DEF CoreR, Sides
  <2>3. p \in Seq(Jobs) /\ Elems(p) = Elems(reading["server"]) \cap (Jobs \ ended) /\ IsInjective(p)
    BY <2>1, <2>2, OnlyElems
  <2>4. reading' = [reading EXCEPT !["server"] = p]
    BY <1>2, <2>1
  <2>5. CoreR' /\ \A j : Reads(j)' = (j \in Elems(p))
    BY <1>1, <2>2, <2>3, <2>4, ReadsServer, ZenonT(30)
  <2>6. \A j \in Jobs : (j \in Elems(p)) = (j \in Elems(reading["server"]) /\ j \notin ended)
    BY <2>3
  <2> QED
    BY <2>5, <2>6 DEF Reads
<1>15. /\ reader' \in [Jobs -> Job]
       /\ rest # <<>> => reader'[h] = r.job
       /\ \A j \in Jobs : ~(rest # <<>> /\ j = h) => reader'[j] = reader[j]
  BY <1>1, <1>2, <1>8, <1>9 DEF CoreA
<1>16. CoreA' /\ \A j : SM(j)' = SM(j)
  BY <1>1, <1>2, <1>3, <1>12, <1>15 DEF CoreA, SM, ServerOnly
<1>17. /\ CoreB' /\ CoreC' /\ \A j : Asked(j)' = Asked(j) /\ Bad(j)' = Bad(j)
       /\ \A j \in Jobs : Quiet(j) /\ Kept(j)
  BY <1>1, <1>2, <1>4, ServerFrame
<1>18. ASSUME NEW j \in Jobs, j \notin bad, ~(rest # <<>> /\ j = h) PROVE Same(j)
  <2>1. j \notin ended
    BY <1>18, <1>b
  <2>2. Reads(j)' = Reads(j)
    BY <1>14, <2>1 DEF Reads
  <2> QED
    BY <1>2, <1>13, <1>15, <1>16, <1>17, <1>18, <2>2 DEF Same, ServerOnly
<1>19. \A j \in Jobs : Ticked(j)
  BY <1>2, <1>16, <1>17 DEF Ticked
<1>20. ASSUME NEW j \in Downloads PROVE Download(j)'
  <2>1. Download(j) /\ j \in Jobs
    BY DEF IInv, Downloads
  <2>2. Prot(j) /\ Ans(j) /\ Cont(j) /\ Ticked(j) /\ JobTypes(j)
    BY <1>7, <1>19, <2>1, DownloadParts
  <2>3. Cont(j)'
    BY <1>2, <1>17, <2>1, <2>2 DEF Cont, ServerOnly
  <2>4. CASE j \notin bad /\ ~(rest # <<>> /\ j = h)
    BY <1>18, <2>1, <2>4, FrameD
  <2>5. CASE j \in bad
    <3>1. Reads(j) /\ Opens(reader[j]) /\ ~(rest # <<>> /\ j = h) /\ j \in ended
      BY <1>5, <1>6, <1>8, <1>b, <2>5
    <3>2. ~Reads(j)' /\ reader'[j] = reader[j] /\ CM(j)' = Append(CM(j), Error(j))
      BY <1>13, <1>14, <1>15, <2>1, <2>5, <3>1, ZenonT(30)
    <3>3. Prot(j)' /\ Ans(j)'
      BY <2>1, <2>2, <3>1, <3>2, TickGivesUp
    <3> QED
      BY <2>3, <3>3, DownloadParts
  <2>6. CASE rest # <<>> /\ j = h
    <3>1. Reads(j) /\ j \notin bad
      BY <1>5, <1>8, <2>6
    <3>2. /\ i = InitDataStream(reader[j], no) /\ r = ReadNow(j, i.job, rf) /\ reader'[j] = r.job
          /\ CM(j)' = (CM(j) \o InitMessages(j, i)) \o ReadMessage(j, i.job, r)
      BY <1>13, <1>15, <1>b, <2>1, <2>6, ZenonT(30)
    <3>3. (Finishes(r) \/ r.out = "error") <=> j \in ended
      BY <1>b, <2>6, <3>1, ZenonT(30)
    <3>4. /\ Finishes(r) => ~Reads(j)'
          /\ ~Finishes(r) /\ r.out # "error" => Reads(j)'
      BY <1>14, <2>1, <3>1, <3>3, ZenonT(30)
    <3>5. Prot(j)' /\ Ans(j)'
      BY <1>c, <2>1, <2>2, <3>1, <3>2, <3>4, TickRead, ZenonT(30)
    <3> QED
      BY <2>3, <3>5, DownloadParts
  <2> QED
    BY <2>4, <2>5, <2>6
<1>21. ASSUME NEW j \in Uploads PROVE Upload(j)'
  <2>1. Upload(j) /\ j \in Jobs /\ j \notin Elems(q)
    BY <1>5, FileTransferAssumption DEF IInv, Downloads
  <2>2. j \notin bad /\ ~(rest # <<>> /\ j = h)
    BY <1>6, <1>8, <2>1
  <2> QED
    BY <1>18, <2>1, <2>2, FrameU
<1> QED
  BY <1>14, <1>16, <1>17, <1>20, <1>21, CoreIsTypes DEF AllQuiet, IInv

\* Messages of other jobs are sent to the controlled side.
Posts1(s) == s \in Seq(SMsgs) /\ toServer' = toServer \o s
Posted1(s) ==
    /\ toServer' \in Seq(SMsgs)
    /\ \A j \in Jobs : (\A m \in Elems(s) : m.j # j) => SM(j)' = SM(j)

LEMMA PostsOthers ==
  ASSUME CoreA, NEW s, Posts1(s)
  PROVE  Posted1(s)
<1>1. s \in Seq(SMsgs) /\ toServer \in Seq(SMsgs) /\ toServer' = toServer \o s
  BY DEF CoreA, Posts1
<1>2. toServer \o s \in Seq(SMsgs)
  BY <1>1, ConcatProperties
<1>3. ASSUME NEW j \in Jobs, \A m \in Elems(s) : m.j # j PROVE Only(toServer \o s, SMsg(j)) = SM(j)
  <2>1. Only(toServer \o s, SMsg(j)) = Only(toServer, SMsg(j)) \o Only(s, SMsg(j))
    BY <1>1, OnlyConcat
  <2>2. Only(s, SMsg(j)) = <<>>
    BY <1>1, <1>3, NoneS
  <2>3. Only(toServer, SMsg(j)) \in Seq(SMsg(j))
    BY <1>1, OnlyType
  <2> QED
    BY <2>1, <2>2, <2>3, ConcatEmptySeq DEF SM
<1> QED
  BY <1>1, <1>2, <1>3 DEF SM, Posted1

\* handle_read_jobs of the client: its uploads are read.
LEMMA StepTickClient ==
  ASSUME IInv, NEW bad, NEW rf \in BOOLEAN, HandleReadJobs("client", bad, rf)
  PROVE  AllQuiet
<1>1. CoreA /\ CoreR /\ CoreB /\ CoreC
  BY TypesAreCore, SMTT(30) DEF IInv
<1> DEFINE qq == Live("client")
           ii == [j \in Elems(qq) |-> InitDataStream(reader[j], j \in bad)]
           ss == Only(qq, {j \in Elems(qq) : ii[j].out # "none"})
           mm == [n \in DOMAIN ss |-> InitMessage(ss[n], ii[ss[n]])]
           hh == qq[1]
           rr == ReadNow(hh, ii[hh].job, rf)
           bb == ReadMessage(hh, ii[hh].job, rr)
<1>0. /\ qq # <<>> /\ Failure("client", bad, rf) /\ ServerOnly /\ UNCHANGED <<cmWriting, writer>>
      /\ reader' = [j \in Jobs |-> IF j \notin Elems(qq) THEN reader[j]
                                   ELSE IF j = hh THEN rr.job ELSE ii[j].job]
      /\ Post("client", mm \o bb)
      /\ reading' = IF Finishes(rr) THEN [reading EXCEPT !["client"] = Without(@, hh)] ELSE reading
  BY DEF HandleReadJobs, ServerOnly
<1>a. PICK q, init, senders, sent, h, a, r, rm :
         /\ q = qq /\ init = ii /\ senders = ss /\ sent = mm
         /\ h = hh /\ a = ii[hh].job /\ r = rr /\ rm = bb
  BY ZenonT(30)
<1>b. /\ q = Live("client") /\ init = [j \in Elems(q) |-> InitDataStream(reader[j], j \in bad)]
      /\ senders = Only(q, {j \in Elems(q) : init[j].out # "none"})
      /\ sent = [n \in DOMAIN senders |-> InitMessage(senders[n], init[senders[n]])]
      /\ h = q[1] /\ a = init[h].job /\ r = ReadNow(h, a, rf) /\ rm = ReadMessage(h, a, r)
  BY <1>a
<1> HIDE DEF qq, ii, ss, mm, hh, rr, bb
<1>2. /\ q # <<>> /\ Failure("client", bad, rf) /\ ServerOnly /\ UNCHANGED <<cmWriting, writer>>
      /\ reader' = [j \in Jobs |-> IF j \notin Elems(q) THEN reader[j]
                                   ELSE IF j = h THEN r.job ELSE init[j].job]
      /\ Post("client", sent \o rm)
      /\ reading' = IF Finishes(r) THEN [reading EXCEPT !["client"] = Without(@, h)] ELSE reading
  BY <1>0, <1>a
<1>3. toServer' = toServer \o (sent \o rm) /\ toClient' = toClient
  BY <1>2 DEF Post
<1>4. faults' \in 0 .. MaxFaults
  BY <1>1, <1>2, FaultsType
<1>5. /\ q \in Seq(Jobs) /\ Elems(q) \subseteq Uploads
      /\ \A j \in Elems(q) : j \in Jobs /\ ~reader[j].last
  BY <1>1, <1>b, LiveClient, SMTT(30)
<1>6. h \in Elems(q) /\ h \in Jobs /\ h \in Uploads
  BY <1>2, <1>5, <1>b, HeadElem, ZenonT(30)
<1>7. \A j \in Jobs : JobTypes(j)
  BY <1>1, TypesOfJob
<1>8. ASSUME NEW j \in Elems(q)
      PROVE  /\ init[j].job \in Job
             /\ init[j].out # "none" => InitMessage(j, init[j]) \in SMsg(j)
  <2>1. PICK x \in BOOLEAN : x = (j \in bad)
    BY Membership
  <2>2. init[j] = InitDataStream(reader[j], x)
    BY <1>b, <2>1
  <2>3. version[j] \in [Files -> 1 .. MaxVersion] /\ reader[j] \in Job /\ j \in Uploads
    BY <1>5, <1>7 DEF JobTypes
  <2> QED
    BY <2>1, <2>2, <2>3, InitMessageType, ZenonT(30)
<1>9. /\ senders \in Seq(Jobs) /\ Elems(senders) \subseteq Elems(q)
      /\ \A j \in Elems(senders) : init[j].out # "none"
  <2>1. PICK T : T = {j \in Elems(q) : init[j].out # "none"}
    BY ZenonT(30)
  <2>2. senders = Only(q, T)
    BY <1>b, <2>1
  <2>3. senders \in Seq(Jobs) /\ Elems(senders) = Elems(q) \cap T
    BY <1>5, <2>2, OnlyElems
  <2> QED
    BY <2>1, <2>3
<1>10. sent \in Seq(SMsgs) /\ \A n \in DOMAIN sent : \E j \in Elems(q) : sent[n] \in SMsg(j)
  <2>1. \A n \in DOMAIN senders : senders[n] \in Elems(senders)
    BY DEF Elems
  <2>2. DOMAIN senders = 1 .. Len(senders) /\ Len(senders) \in Nat
    BY <1>9, SMTT(30)
  <2>3. \A n \in DOMAIN senders : sent[n] \in SMsg(senders[n]) /\ senders[n] \in Jobs /\ senders[n] \in Elems(q)
    BY <1>5, <1>8, <1>9, <1>b, <2>1, ZenonT(30)
  <2>4. \A n \in DOMAIN senders : sent[n] \in SMsgs
    BY <2>3 DEF SMsgs
  <2>5. sent = [n \in 1 .. Len(senders) |-> sent[n]]
    BY <1>b, <2>2
  <2>6. sent \in Seq(SMsgs)
    BY <2>2, <2>4, <2>5
  <2>7. DOMAIN sent = DOMAIN senders
    BY <1>b
  <2> QED
    BY <2>3, <2>6, <2>7
<1>11. r.job \in Job /\ rm \in Seq(SMsg(h))
  <2>1. a \in Job /\ version[h] \in [Files -> 1 .. MaxVersion]
    BY <1>6, <1>7, <1>8, <1>b DEF JobTypes
  <2> QED
    BY <1>6, <1>b, <2>1, ReadMessageIs
<1>12. rm \in Seq(SMsgs) /\ \A n \in DOMAIN rm : rm[n] \in SMsg(h)
  <2>1. DOMAIN rm = 1 .. Len(rm) /\ Len(rm) \in Nat /\ \A n \in DOMAIN rm : rm[n] \in SMsg(h)
    BY <1>11
  <2>2. \A n \in DOMAIN rm : rm[n] \in SMsgs
    BY <1>6, <2>1 DEF SMsgs
  <2> QED
    BY <1>11, <2>1, <2>2
<1>13. PICK s : s = sent \o rm
  BY ZenonT(30)
<1>14. s \in Seq(SMsgs) /\ \A j \in Jobs \ Elems(q) : \A m \in Elems(s) : m.j # j
  <2>1. /\ s \in Seq(SMsgs) /\ DOMAIN s = 1 .. Len(sent) + Len(rm)
        /\ \A n \in 1 .. Len(sent) + Len(rm) : s[n] = IF n <= Len(sent) THEN sent[n] ELSE rm[n - Len(sent)]
    BY <1>10, <1>12, <1>13
  <2>2. Len(sent) \in Nat /\ DOMAIN sent = 1 .. Len(sent) /\ Len(rm) \in Nat /\ DOMAIN rm = 1 .. Len(rm)
    BY <1>10, <1>12
  <2>3. ASSUME NEW n \in DOMAIN s PROVE \E j \in Elems(q) : s[n] \in SMsg(j)
    <3>1. CASE n <= Len(sent)
      <4>1. n \in DOMAIN sent /\ s[n] = sent[n]
        BY <2>1, <2>2, <3>1
      <4> QED
        BY <1>10, <4>1
    <3>2. CASE ~(n <= Len(sent))
      <4>1. n - Len(sent) \in DOMAIN rm /\ s[n] = rm[n - Len(sent)]
        BY <2>1, <2>2, <3>2
      <4> QED
        BY <1>6, <1>12, <4>1
    <3> QED
      BY <3>1, <3>2
  <2>4. \A n \in DOMAIN s : s[n].j \in Elems(q)
    BY <2>3, Owner
  <2> QED
    BY <2>1, <2>4 DEF Elems
<1>15. toServer' \in Seq(SMsgs) /\ \A j \in Jobs \ Elems(q) : SM(j)' = SM(j)
  <2>1. Posts1(s)
    BY <1>3, <1>13, <1>14 DEF Posts1
  <2>2. Posted1(s)
    BY <1>1, <2>1, PostsOthers
  <2> QED
    BY <1>14, <2>2 DEF Posted1
<1>16. CoreR' /\ \A j : Reads(j)' = Reads(j)
  <2>1. CASE ~Finishes(r)
    BY <1>1, <1>2, <2>1 DEF CoreR, Reads
  <2>2. CASE Finishes(r)
    <3>1. PICK p : p = Without(reading["client"], h)
      OBVIOUS
    <3>2. reading["client"] \in Seq(Jobs) /\ Elems(reading["client"]) \subseteq Uploads
      BY <1>1 DEF CoreR, Sides
    <3>3. p \in Seq(Jobs) /\ Elems(p) = Elems(reading["client"]) \ {h}
      BY <3>1, <3>2, WithoutIs
    <3>4. reading' = [reading EXCEPT !["client"] = p]
      BY <1>2, <2>2, <3>1
    <3> QED
      BY <1>1, <3>2, <3>3, <3>4, ReadsClient, ZenonT(30)
  <2> QED
    BY <2>1, <2>2
<1>17. reader' \in [Jobs -> Job] /\ \A j \in Jobs \ Elems(q) : reader'[j] = reader[j]
  BY <1>1, <1>2, <1>5, <1>8, <1>11 DEF CoreA
<1>18. CoreA' /\ \A j : CM(j)' = CM(j)
  BY <1>1, <1>2, <1>3, <1>15, <1>17 DEF CoreA, CM, ServerOnly
<1>19. /\ CoreB' /\ CoreC' /\ \A j : Asked(j)' = Asked(j) /\ Bad(j)' = Bad(j)
       /\ \A j \in Jobs : Quiet(j) /\ Kept(j)
  BY <1>1, <1>2, <1>4, ServerFrame
<1>20. \A j \in Jobs \ Elems(q) : Same(j)
  BY <1>2, <1>15, <1>16, <1>17, <1>18, <1>19 DEF Same, ServerOnly
<1>21. ASSUME NEW j \in Downloads PROVE Download(j)'
  <2>1. Download(j) /\ j \in Jobs \ Elems(q)
    BY <1>5 DEF IInv, Downloads
  <2> QED
    BY <1>20, <2>1, FrameD
<1>22. ASSUME NEW j \in Uploads PROVE Upload(j)'
  <2>1. Upload(j) /\ j \in Jobs
    BY FileTransferAssumption DEF IInv
  <2>2. CASE j \notin Elems(q)
    BY <1>20, <2>1, <2>2, FrameU
  <2>3. CASE j \in Elems(q)
    <3>1. told[j] # "listed"
      BY <1>5, <2>1, <2>3 DEF Upload
    <3> QED
      BY <1>2, <1>19, <2>1, <3>1 DEF Upload, ServerOnly
  <2> QED
    BY <2>2, <2>3
<1> QED
  BY <1>16, <1>18, <1>19, <1>21, <1>22, CoreIsTypes DEF AllQuiet, IInv
---------------------------------------------------------------------------
(* The connection and the world around it.                                 *)

\* Without a connection nothing is under way.
LEMMA Offline ==
  ASSUME NEW j, toClient = <<>>, toServer = <<>>, prompts = {}, \A s \in Sides : reading[s] = <<>>
  PROVE  CM(j) = <<>> /\ SM(j) = <<>> /\ Asked(j) = {} /\ ~Reads(j)
<1>1. CM(j) = <<>> /\ SM(j) = <<>>
  BY OnlyEmpty DEF CM, SM
<1>2. Asked(j) = {}
  BY DEF Asked
<1>3. ~Reads(j)
  BY DEF Reads, Sides, Elems
<1> QED
  BY <1>1, <1>2, <1>3

\* A newer version of the source makes no file whole that was not.
LEMMA WholeStays ==
  ASSUME NEW f \in Files, NEW D \in Dirs, NEW a, NEW b,
         a \in [Files -> 1 .. MaxVersion], b \in [Files -> 1 .. MaxVersion],
         a[f] <= b[f], \A i \in DOMAIN D[f].final : D[f].final[i][2] <= a[f]
  PROVE  IsWhole(f, D[f], a) <=> IsWhole(f, D[f], b)
<1>1. a[f] \in Nat /\ b[f] \in Nat /\ a[f] >= 1 /\ b[f] >= 1 /\ Size[f] \in Nat
  BY FileTransferAssumption, TransferJobAssumption, SMTT(30) DEF Files
<1>2. IsWhole(f, D[f], a) => IsWhole(f, D[f], b)
  <2>1. \A v \in 1 .. a[f] : v \in 1 .. b[f]
    BY <1>1
  <2> QED
    BY <2>1 DEF IsWhole
<1>3. ASSUME IsWhole(f, D[f], b) PROVE IsWhole(f, D[f], a)
  <2>1. PICK v \in 1 .. b[f] : D[f].final = Source(f, v)
    BY <1>3 DEF IsWhole
  <2>2. CASE Size[f] = 0
    <3>1. 1 .. Size[f] = {}
      BY <2>2
    <3>2. Source(f, v) = Source(f, 1)
      BY <3>1 DEF Source
    <3>3. 1 \in 1 .. a[f]
      BY <1>1
    <3> QED
      BY <2>1, <3>2, <3>3 DEF IsWhole
  <2>3. CASE Size[f] # 0
    <3>1. 1 \in 1 .. Size[f]
      BY <1>1, <2>3
    <3>2. 1 \in DOMAIN D[f].final /\ D[f].final[1] = <<f, v, 1>>
      BY <2>1, <3>1 DEF Source
    <3>3. <<f, v, 1>>[2] = v
      OBVIOUS
    <3>4. v <= a[f]
      BY <3>2, <3>3
    <3>5. v \in 1 .. a[f]
      BY <1>1, <3>4
    <3> QED
      BY <2>1, <3>5 DEF IsWhole
  <2> QED
    BY <2>2, <2>3
<1> QED
  BY <1>2, <1>3

LEMMA StepSourceChanges ==
  ASSUME IInv, NEW k \in Jobs, NEW f \in Files, SourceChanges(k, f)
  PROVE  OneJob(k)
<1>1. CoreA /\ CoreR /\ CoreB /\ CoreC
  BY TypesAreCore DEF IInv
<1>2. /\ ~connected /\ version[k][f] < MaxVersion
      /\ version' = [version EXCEPT ![k] = [version[k] EXCEPT ![f] = version[k][f] + 1]]
      /\ UNCHANGED <<cmReads, connected, writing, cmWriting, writer, reading, reader,
                     toClient, toServer, dir, saved, prompts, told, failed, decided,
                     kept, misplaced, starts, breaks, faults>>
  BY <1>1 DEF SourceChanges, CoreB
<1>3. PICK a, b : a = version[k] /\ b = [version[k] EXCEPT ![f] = version[k][f] + 1]
  BY ZenonT(30)
<1>4. a \in [Files -> 1 .. MaxVersion]
  BY <1>1, <1>3 DEF CoreB
<1>5. b \in [Files -> 1 .. MaxVersion] /\ \A g \in Files : a[g] <= b[g]
  <2>1. a[f] + 1 \in 1 .. MaxVersion
    BY <1>2, <1>3, <1>4, FileTransferAssumption
  <2>2. \A g \in Files : a[g] \in Nat
    BY <1>4
  <2>3. b = [a EXCEPT ![f] = a[f] + 1]
    BY <1>3
  <2> QED
    BY <1>4, <2>1, <2>2, <2>3
<1>6. /\ version' \in [Jobs -> [Files -> 1 .. MaxVersion]] /\ version'[k] = b
      /\ \A j \in Jobs \ {k} : version'[j] = version[j]
  BY <1>1, <1>2, <1>3, <1>5 DEF CoreB
<1>7. Types'
  <2>1. CoreA' /\ CoreR' /\ CoreB' /\ CoreC'
    BY <1>1, <1>2, <1>6, ZenonT(30) DEF CoreA, CoreR, CoreB, CoreC
  <2> QED
    BY <2>1, CoreIsTypes
<1>8. \A j : /\ CM(j)' = CM(j) /\ SM(j)' = SM(j) /\ Asked(j)' = Asked(j) /\ Bad(j)' = Bad(j)
             /\ Reads(j)' = Reads(j)
  BY <1>2 DEF CM, SM, Asked, Bad, Reads
<1>9. \A j \in Jobs \ {k} : Same(j)
  BY <1>2, <1>6, <1>8 DEF Same
<1>10. Parts(dir[k], a, Bad(k)) /\ dir[k] \in Dirs
  <2>1. CASE k \in Uploads
    BY <1>1, <1>3, <2>1 DEF IInv, Upload, CoreB
  <2>2. CASE k \in Downloads
    BY <1>1, <1>3, <2>2 DEF IInv, Download, Content, CoreB
  <2> QED
    BY <2>1, <2>2 DEF Downloads
<1>11. \A g \in Files : IsWhole(g, dir[k][g], a) <=> IsWhole(g, dir[k][g], b)
  <2> SUFFICES ASSUME NEW g \in Files PROVE IsWhole(g, dir[k][g], a) <=> IsWhole(g, dir[k][g], b)
    OBVIOUS
  <2>1. \A i \in DOMAIN dir[k][g].final : dir[k][g].final[i][2] <= a[g]
    BY <1>10 DEF Parts
  <2> QED
    BY <1>4, <1>5, <1>10, <2>1, WholeStays
<1>12. Parts(dir[k], b, Bad(k))
  <2>1. \A g \in Files : a[g] \in Int /\ b[g] \in Int /\ a[g] <= b[g]
    BY <1>4, <1>5
  <2>2. ASSUME NEW g \in Files
        PROVE  /\ \A i \in DOMAIN dir[k][g].part : dir[k][g].part[i][2] \in Int
               /\ \A i \in DOMAIN dir[k][g].final : dir[k][g].final[i][2] \in Int
    <3>1. dir[k][g].part \in Blocks /\ dir[k][g].final \in Blocks
      BY <1>10 DEF Dirs, Entry, Blocks
    <3>2. \A e \in Files \X (0 .. MaxVersion) \X Nat : e[2] \in Int
      OBVIOUS
    <3>3. \A q \in Blocks : \A i \in DOMAIN q : q[i] \in Files \X (0 .. MaxVersion) \X Nat
      BY DEF Blocks
    <3> QED
      BY <3>1, <3>2, <3>3
  <2>3. ASSUME NEW g \in Files
        PROVE  /\ \A i \in DOMAIN dir[k][g].part : dir[k][g].part[i][2] <= b[g]
               /\ \A i \in DOMAIN dir[k][g].final : dir[k][g].final[i][2] <= b[g]
    BY <1>10, <2>1, <2>2 DEF Parts
  <2> QED
    BY <1>10, <2>3 DEF Parts
<1>13. Quiet(k) /\ Kept(k)
  <2>1. Ph(k)' = Ph(k) /\ Ag(k)' = Ag(k)
    BY <1>2 DEF Ph, Ag
  <2>2. \A g \in Files : Whole(k, g) <=> Whole(k, g)'
    BY <1>2, <1>3, <1>6, <1>11 DEF Whole, IsWhole
  <2>3. Ds(k)' = Ds(k)
    BY <1>2, <2>2 DEF Ds
  <2> QED
    BY <1>2, <2>1, <2>3, KeptSame DEF Quiet
<1>14. ASSUME k \in Downloads PROVE Download(k)'
  <2>1. Prot(k) /\ Ans(k) /\ Cont(k)
    BY <1>14, DownloadParts DEF IInv
  <2>2. k \notin writing /\ k \notin writing'
    BY <1>1, <1>2 DEF CoreC
  <2>3. Prot(k)'
    BY <2>2, OutProt
  <2>4. Ans(k)'
    BY <1>2, <1>8, <2>1, AnsSame
  <2>5. \A n, dec : Copied(n, dir[k], a, dec, Bad(k)) => Copied(n, dir[k], b, dec, Bad(k))
    BY <1>11 DEF Copied
  <2>6. PICK out \in BOOLEAN : out = (k \in writing)
    BY Membership
  <2>7. Content(out, writer[k], dir[k], a, decided[k], Bad(k), saved[k], kept[k], told[k], k \in failed)
    BY <1>3, <2>1, <2>6 DEF Cont
  <2>8. ~out
    BY <2>2, <2>6, ZenonT(30)
  <2>9. Content(out, writer[k], dir[k], b, decided[k], Bad(k), saved[k], kept[k], told[k], k \in failed)
    BY <1>12, <2>5, <2>7, <2>8 DEF Content, Open, Saved, Shown
  <2>10. Cont(k)'
    BY <1>2, <1>6, <1>8, <2>6, <2>9, ZenonT(30) DEF Cont
  <2> QED
    BY <2>3, <2>4, <2>10, DownloadParts
<1>15. ASSUME k \in Uploads PROVE Upload(k)'
  <2>1. Upload(k)
    BY <1>15 DEF IInv
  <2> QED
    BY <1>2, <1>6, <1>8, <1>12, <2>1, ZenonT(30) DEF Upload
<1> QED
  BY <1>7, <1>9, <1>13, <1>14, <1>15 DEF OneJob, Local

\* Several jobs stop at once.
AllStop ==
    /\ IInv' /\ \A j \in Jobs : Kept(j)
    /\ \E J \in SUBSET Jobs : \A j \in Jobs : IF j \in J THEN Stops(j) ELSE Quiet(j)

LEMMA EmptyReads ==
  ASSUME reading' = [s \in Sides |-> <<>>]
  PROVE  CoreR' /\ \A s \in Sides : reading'[s] = <<>>
<1>1. <<>> \in Seq(Jobs) /\ Elems(<<>>) = {} /\ IsInjective(<<>>)
  BY DEF Elems, IsInjective
<1>2. "client" \in Sides /\ "server" \in Sides
  BY DEF Sides
<1> QED
  BY <1>1, <1>2 DEF CoreR

\* The session ends, in good order or not.
LEMMA StepDisconnect ==
  ASSUME IInv, NEW saves \in BOOLEAN, Disconnect(saves)
  PROVE  AllStop
<1>1. CoreA /\ CoreR /\ CoreB /\ CoreC
  BY TypesAreCore DEF IInv
<1>2. /\ breaks < MaxBreaks /\ breaks' = breaks + 1 /\ connected' = FALSE
      /\ saved' = IF saves
                  THEN [j \in Jobs |-> IF j \in writing THEN writer[j].file
                                       ELSE IF j \in Elems(reading["client"]) THEN reader[j].file ELSE -1]
                  ELSE saved
      /\ kept' = (IF saves THEN decided ELSE kept)
      /\ writing' = {} /\ cmWriting' = {}
      /\ reading' = [s \in Sides |-> <<>>]
      /\ toClient' = <<>> /\ toServer' = <<>> /\ prompts' = {}
      /\ writer' = [j \in Jobs |-> NewJob(0, FALSE)] /\ reader' = writer'
      /\ told' = [j \in Jobs |-> IF told[j] \in {"running", "listed"} THEN "none" ELSE told[j]]
      /\ UNCHANGED <<cmReads, dir, version, failed, decided, misplaced, starts, faults>>
  BY DEF Disconnect
<1>3. CoreR' /\ \A s \in Sides : reading'[s] = <<>>
  BY <1>2, EmptyReads
<1>4. PICK n : n = NewJob(0, FALSE)
  BY ZenonT(30)
<1>5. n \in Job /\ ~n.listed /\ ~n.last /\ writer' = [j \in Jobs |-> n] /\ reader' = [j \in Jobs |-> n]
  <2>1. PICK no \in BOOLEAN : no = FALSE
    BY ZenonT(30)
  <2>2. 0 \in 0 .. NFiles
    BY TransferJobAssumption
  <2>3. NewJob(0, no) \in Job
    BY <2>1, <2>2, NewJobType
  <2>4. ~n.listed /\ ~n.last
    BY <1>4 DEF NewJob
  <2> QED
    BY <1>2, <1>4, <2>1, <2>3, <2>4, ZenonT(30)
<1>6. \A j : CM(j)' = <<>> /\ SM(j)' = <<>> /\ Asked(j)' = {} /\ ~Reads(j)'
  <2>1. \A j : Only(<<>>, CMsg(j)) = <<>> /\ Only(<<>>, SMsg(j)) = <<>>
    BY OnlyEmpty
  <2>2. \A j : CM(j)' = <<>> /\ SM(j)' = <<>>
    BY <1>2, <2>1 DEF CM, SM
  <2> QED
    BY <1>2, <1>3, <2>2 DEF Asked, Reads, Sides, Elems
<1>7. \A j : Bad(j)' = Bad(j)
  BY <1>2 DEF Bad
<1>8. CoreA' /\ CoreC'
  <2>1. CoreA'
    <3>1. cmReads' \in BOOLEAN /\ connected' \in BOOLEAN
      BY <1>1, <1>2, Zenon DEF CoreA
    <3>2. writing' \subseteq Downloads /\ cmWriting' \subseteq Uploads
          /\ toClient' \in Seq(CMsgs) /\ toServer' \in Seq(SMsgs)
      BY <1>2
    <3>3. writer' \in [Jobs -> Job] /\ reader' \in [Jobs -> Job]
      BY <1>5
    <3> QED
      BY <3>1, <3>2, <3>3 DEF CoreA
  <2> QED
    BY <1>2, <1>3, <2>1 DEF CoreC
<1>9. CoreB'
  <2>1. saved' \in [Jobs -> -1 .. NFiles]
    <3>1. \A j \in Jobs : writer[j].file \in -1 .. NFiles /\ reader[j].file \in -1 .. NFiles
      <4>1. \A x \in Job : x.file \in -1 .. NFiles
        BY DEF Job
      <4> QED
        BY <1>1, <4>1 DEF CoreA
    <3>2. -1 \in -1 .. NFiles
      BY TransferJobAssumption
    <3> QED
      BY <1>1, <1>2, <3>1, <3>2 DEF CoreB
  <2>2. told' \in [Jobs -> {"none", "listed", "running", "done", "error"}]
    BY <1>1, <1>2 DEF CoreB
  <2>3. breaks' \in 0 .. MaxBreaks
    BY <1>1, <1>2, FileTransferAssumption DEF CoreB
  <2> QED
    BY <1>1, <1>2, <2>1, <2>2, <2>3 DEF CoreB
<1>10. ASSUME NEW k \in Downloads PROVE Download(k)'
  <2>1. Prot(k) /\ Ans(k) /\ Cont(k) /\ k \in Jobs
    BY DownloadParts DEF IInv, Downloads
  <2>2. k \notin writing'
    BY <1>2
  <2>3. Prot(k)'
    BY <2>2, OutProt
  <2>4. Ans(k)'
    BY <1>6 DEF Ans, Answers1
  <2>5. Parts(dir[k], version[k], Bad(k)) /\ (k \in writing <=> told[k] \in {"running", "listed"})
    BY <2>1 DEF Cont, Content, Shown
  <2>6. k \notin Elems(reading["client"])
    BY <1>1 DEF CoreR, Downloads
  <2>7. \/ saved'[k] = saved[k] /\ kept'[k] = kept[k]
        \/ saved'[k] = -1
        \/ k \in writing /\ saved'[k] = writer[k].file /\ kept'[k] = decided[k]
    BY <1>2, <2>1, <2>6
  <2>8. \/ told'[k] \in {"none", "error"} /\ (told'[k] = "error" => k \in failed')
        \/ told'[k] = told[k] /\ (k \in failed') = (k \in failed) /\ k \notin writing
    BY <1>2, <2>1, <2>5
  <2>9. Cont(k)'
    BY <1>2, <1>7, <2>1, <2>2, <2>5, <2>7, <2>8, ContStops, ZenonT(30)
  <2> QED
    BY <2>3, <2>4, <2>9, DownloadParts
<1>11. ASSUME NEW k \in Uploads PROVE Upload(k)'
  <2>1. Upload(k) /\ k \in Jobs
    BY FileTransferAssumption DEF IInv
  <2>2. kept'[k] = Unanswered /\ decided'[k] = Unanswered
    BY <1>2, <2>1 DEF Upload
  <2>3. told'[k] # "listed" /\ (told'[k] = "error" => k \in failed')
    BY <1>2, <2>1 DEF Upload
  <2> QED
    BY <1>2, <1>5, <1>7, <2>1, <2>2, <2>3, ZenonT(30) DEF Upload
<1>12. \A j \in Jobs : Kept(j) /\ Ds(j)' = Ds(j)
  BY <1>2, <1>7, KeptSame, DsSame
<1>13. PICK J \in SUBSET Jobs : J = {j \in Jobs : told[j] \in {"running", "listed"}}
  BY ZenonT(30)
<1>14. ASSUME NEW j \in Jobs PROVE IF j \in J THEN Stops(j) ELSE Quiet(j)
  <2>1. CASE j \in J
    <3>1. told'[j] = "none"
      BY <1>2, <1>13, <2>1
    <3> QED
      BY <1>12, <2>1, <3>1 DEF Stops, Ph, Ag
  <2>2. CASE j \notin J
    <3>1. told'[j] = told[j]
      BY <1>2, <1>13, <2>2
    <3> QED
      BY <1>2, <1>12, <2>2, <3>1 DEF Quiet, Ph, Ag
  <2> QED
    BY <2>1, <2>2
<1> QED
  BY <1>3, <1>8, <1>9, <1>10, <1>11, <1>12, <1>14, CoreIsTypes, ZenonT(30) DEF AllStop, IInv

\* A new session lists what was saved.
LEMMA StepConnect ==
  ASSUME IInv, Connect
  PROVE  AllStop
<1>1. CoreA /\ CoreR /\ CoreB /\ CoreC
  BY TypesAreCore DEF IInv
<1> DEFINE jj == {j \in Jobs : saved[j] # -1}
           last(j) == [NewJob(saved[j], j \in Uploads) EXCEPT !.last = TRUE]
<1>0. /\ ~connected /\ connected' = TRUE
      /\ writing' = jj \ Uploads
      /\ writer' = [j \in Jobs |-> IF j \in jj \ Uploads THEN last(j) ELSE writer[j]]
      /\ \E q \in [1 .. Cardinality(jj \cap Uploads) -> jj \cap Uploads] :
            reading' = [reading EXCEPT !["client"] = q]
      /\ reader' = [j \in Jobs |-> IF j \in jj \cap Uploads THEN last(j) ELSE reader[j]]
      /\ decided' = [j \in Jobs |-> IF j \in jj THEN kept[j] ELSE decided[j]]
      /\ told' = [j \in Jobs |-> IF j \in jj THEN "listed" ELSE told[j]]
      /\ UNCHANGED <<cmReads, cmWriting, toClient, toServer, dir, version, saved,
                     prompts, failed, kept, misplaced, starts, breaks, faults>>
  BY ZenonT(30) DEF Connect
<1>a. PICK jobs : jobs = jj
  BY ZenonT(30)
<1>b. jobs \in SUBSET Jobs /\ \A j \in Jobs : j \in jobs <=> saved[j] # -1
  BY <1>a
<1>c. PICK lasts : lasts = [j \in Jobs |-> last(j)]
  BY ZenonT(30)
<1>2. /\ ~connected /\ connected' = TRUE
      /\ writing' = jobs \ Uploads
      /\ writer' = [j \in Jobs |-> IF j \in jobs \ Uploads THEN lasts[j] ELSE writer[j]]
      /\ \E q \in [1 .. Cardinality(jobs \cap Uploads) -> jobs \cap Uploads] :
            reading' = [reading EXCEPT !["client"] = q]
      /\ reader' = [j \in Jobs |-> IF j \in jobs \cap Uploads THEN lasts[j] ELSE reader[j]]
      /\ decided' = [j \in Jobs |-> IF j \in jobs THEN kept[j] ELSE decided[j]]
      /\ told' = [j \in Jobs |-> IF j \in jobs THEN "listed" ELSE told[j]]
      /\ UNCHANGED <<cmReads, cmWriting, toClient, toServer, dir, version, saved,
                     prompts, failed, kept, misplaced, starts, breaks, faults>>
  <2> HIDE DEF jj, last
  <2>1. \A j \in Jobs : lasts[j] = last(j)
    BY <1>c
  <2> QED
    BY <1>0, <1>a, <2>1, ZenonT(30)
<1>3. ASSUME NEW j \in Jobs, j \in jobs
      PROVE  /\ lasts[j] \in Job /\ lasts[j].last /\ lasts[j].pos = -1 /\ ~lasts[j].skipped
             /\ lasts[j].file = saved[j] /\ (j \notin Uploads => ~lasts[j].listed)
  <2>1. PICK up \in BOOLEAN : up = (j \in Uploads)
    BY Membership
  <2>2. saved[j] \in 0 .. NFiles
    BY <1>1, <1>3, <1>b, TransferJobAssumption DEF CoreB
  <2>3. PICK x : x = NewJob(saved[j], up)
    OBVIOUS
  <2>4. x \in Job
    BY <2>1, <2>2, <2>3, NewJobType, ZenonT(30)
  <2>5. x.pos = -1 /\ ~x.skipped /\ x.file = saved[j] /\ x.listed = up
    BY <2>3 DEF NewJob
  <2>6. lasts[j] = [x EXCEPT !.last = TRUE]
    BY <1>c, <2>1, <2>3
  <2> QED
    BY <2>1, <2>4, <2>5, <2>6, ZenonT(30) DEF Job
<1> HIDE DEF jj, last
<1>4. /\ writing = {} /\ cmWriting = {} /\ prompts = {} /\ toClient = <<>> /\ toServer = <<>>
      /\ \A s \in Sides : reading[s] = <<>>
  BY <1>1, <1>2 DEF CoreC
<1>5. \A j : CM(j) = <<>> /\ SM(j) = <<>> /\ Asked(j) = {} /\ ~Reads(j)
  BY <1>4, Offline
<1>6. CoreR' /\ \A j : Reads(j)' = Reads(j)
  <2>1. PICK q \in [1 .. Cardinality(jobs \cap Uploads) -> jobs \cap Uploads] :
           reading' = [reading EXCEPT !["client"] = q]
    BY <1>2, ZenonT(30)
  <2>2. IsFiniteSet(jobs \cap Uploads)
    BY <1>b, FS_Subset, FileTransferAssumption
  <2>3. Cardinality(jobs \cap Uploads) \in Nat
    BY <2>2, FS_CardinalityType
  <2>4. q \in Seq(Jobs) /\ Elems(q) \subseteq Uploads
    <3>1. PICK n : n = Cardinality(jobs \cap Uploads)
      OBVIOUS
    <3>2. n \in Nat /\ q \in [1 .. n -> Jobs] /\ \A i \in DOMAIN q : q[i] \in Uploads
      BY <1>b, <2>1, <2>3, <3>1, ZenonT(30)
    <3>3. q \in Seq(Jobs)
      BY <3>2
    <3> QED
      BY <3>2, <3>3, ZenonT(30) DEF Elems
  <2> QED
    BY <1>1, <2>1, <2>4, ReadsClient, ZenonT(30)
<1>7. \A j : /\ CM(j)' = <<>> /\ SM(j)' = <<>> /\ Asked(j)' = {} /\ ~Reads(j)' /\ Bad(j)' = Bad(j)
  BY <1>2, <1>5, <1>6 DEF CM, SM, Asked, Bad
<1>8. CoreA' /\ CoreC'
  <2>1. cmReads' \in BOOLEAN /\ connected' \in BOOLEAN
    BY <1>1, <1>2, Zenon DEF CoreA
  <2>2. writing' \subseteq Downloads /\ cmWriting' \subseteq Uploads
        /\ toClient' \in Seq(CMsgs) /\ toServer' \in Seq(SMsgs)
    BY <1>1, <1>2, <1>b DEF CoreA, Downloads
  <2>3. writer' \in [Jobs -> Job] /\ reader' \in [Jobs -> Job]
    BY <1>1, <1>2, <1>3 DEF CoreA
  <2> QED
    BY <1>2, <2>1, <2>2, <2>3 DEF CoreA, CoreC
<1>9. CoreB'
  <2>1. decided' \in [Jobs -> Answers]
    BY <1>1, <1>2 DEF CoreB
  <2>2. told' \in [Jobs -> {"none", "listed", "running", "done", "error"}]
    BY <1>1, <1>2 DEF CoreB
  <2>3. prompts' \subseteq writing' \X Files
    BY <1>2, <1>4
  <2> QED
    BY <1>1, <1>2, <2>1, <2>2, <2>3 DEF CoreB
<1>10. ASSUME NEW k \in Downloads PROVE Download(k)'
  <2>1. Prot(k) /\ Ans(k) /\ Cont(k) /\ k \in Jobs /\ k \notin Uploads
    BY DownloadParts DEF IInv, Downloads
  <2>2. Ans(k)'
    BY <1>7 DEF Ans, Answers1
  <2>3. CASE k \notin jobs
    <3>1. k \notin writing' /\ k \notin writing
      BY <1>2, <1>4, <2>3
    <3>2. Prot(k)'
      BY <3>1, OutProt
    <3>3. /\ writer'[k] = writer[k] /\ decided'[k] = decided[k] /\ told'[k] = told[k]
          /\ (k \in writing') = (k \in writing)
      BY <1>2, <2>1, <2>3, <3>1
    <3>4. Cont(k)'
      BY <1>2, <1>7, <2>1, <3>3 DEF Cont
    <3> QED
      BY <2>2, <3>2, <3>4, DownloadParts
  <2>4. CASE k \in jobs
    <3>1. PICK v : v = lasts[k]
      OBVIOUS
    <3>2. v.last /\ v.pos = -1 /\ ~v.skipped /\ v.file = saved[k] /\ ~v.listed
      BY <1>3, <2>1, <2>4, <3>1
    <3>3. /\ writer'[k] = v /\ decided'[k] = kept[k] /\ told'[k] = "listed" /\ k \in writing'
          /\ saved'[k] = saved[k] /\ kept'[k] = kept[k] /\ dir'[k] = dir[k] /\ version'[k] = version[k]
      BY <1>2, <2>1, <2>4, <3>1
    <3>4. Prot(k)'
      BY <1>7, <3>2, <3>3 DEF Prot, Protocol, Listed
    <3>5. Parts(dir[k], version[k], Bad(k)) /\ Copied(saved[k], dir[k], version[k], kept[k], Bad(k))
      BY <2>1 DEF Cont, Content, Saved
    <3>6. PICK in \in BOOLEAN : in = (k \in writing')
      BY Membership
    <3>7. PICK fail \in BOOLEAN : fail = (k \in failed')
      BY Membership
    <3>8. in
      BY <3>3, <3>6, ZenonT(30)
    <3>9. Content(in, v, dir[k], version[k], kept[k], Bad(k), saved[k], kept[k], "listed", fail)
      BY <3>2, <3>5, <3>8 DEF Content, Open, Saved, Shown
    <3>10. Cont(k)'
      BY <1>7, <3>3, <3>6, <3>7, <3>9 DEF Cont
    <3> QED
      BY <2>2, <3>4, <3>10, DownloadParts
  <2> QED
    BY <2>3, <2>4
<1>11. ASSUME NEW k \in Uploads PROVE Upload(k)'
  <2>1. Upload(k) /\ k \in Jobs
    BY FileTransferAssumption DEF IInv
  <2>2. kept'[k] = Unanswered /\ decided'[k] = Unanswered /\ ~writer'[k].listed
    BY <1>2, <2>1 DEF Upload
  <2>3. (told'[k] = "error" => k \in failed') /\ (told'[k] = "listed" => reader'[k].last)
    <3>1. CASE k \in jobs
      BY <1>2, <1>3, <2>1, <3>1
    <3>2. CASE k \notin jobs
      BY <1>2, <2>1, <3>2 DEF Upload
    <3> QED
      BY <3>1, <3>2
  <2> QED
    BY <1>2, <1>7, <2>1, <2>2, <2>3 DEF Upload
<1>12. \A j \in Jobs : Kept(j) /\ Ds(j)' = Ds(j)
  BY <1>2, <1>7, KeptSame, DsSame
<1>13. ASSUME NEW j \in Jobs PROVE IF j \in jobs THEN Stops(j) ELSE Quiet(j)
  <2>1. CASE j \in jobs
    <3>1. told'[j] = "listed"
      BY <1>2, <2>1
    <3> QED
      BY <1>12, <2>1, <3>1 DEF Stops, Ph, Ag
  <2>2. CASE j \notin jobs
    <3>1. told'[j] = told[j] /\ decided'[j] = decided[j]
      BY <1>2, <2>2
    <3> QED
      BY <1>2, <1>12, <2>2, <3>1 DEF Quiet, Ph, Ag
  <2> QED
    BY <2>1, <2>2
<1> QED
  BY <1>6, <1>8, <1>9, <1>10, <1>11, <1>12, <1>13, <1>b, CoreIsTypes DEF AllStop, IInv
---------------------------------------------------------------------------
(* Every step, and the theorems.                                           *)

LEMMA InitKeeps ==
  ASSUME Init
  PROVE  IInv
<1>1. PICK n : n = NewJob(0, FALSE)
  BY ZenonT(30)
<1>2. n \in Job /\ ~n.listed /\ ~n.last /\ writer = [j \in Jobs |-> n] /\ reader = [j \in Jobs |-> n]
  <2>1. PICK no \in BOOLEAN : no = FALSE
    BY ZenonT(30)
  <2>2. 0 \in 0 .. NFiles
    BY TransferJobAssumption
  <2>3. NewJob(0, no) \in Job
    BY <2>1, <2>2, NewJobType
  <2>4. ~n.listed /\ ~n.last
    BY <1>1 DEF NewJob
  <2> QED
    BY <1>1, <2>1, <2>3, <2>4, ZenonT(30) DEF Init
<1>3. CoreA
  <2>1. cmReads \in BOOLEAN /\ connected \in BOOLEAN
    BY Zenon DEF Init
  <2>2. /\ writing \subseteq Downloads /\ cmWriting \subseteq Uploads
        /\ toClient \in Seq(CMsgs) /\ toServer \in Seq(SMsgs)
    BY DEF Init
  <2>3. writer \in [Jobs -> Job] /\ reader \in [Jobs -> Job]
    BY <1>2
  <2> QED
    BY <2>1, <2>2, <2>3 DEF CoreA
<1>4. CoreR /\ \A s \in Sides : reading[s] = <<>>
  <2>1. <<>> \in Seq(Jobs) /\ Elems(<<>>) = {} /\ IsInjective(<<>>)
    BY DEF Elems, IsInjective
  <2> QED
    BY <2>1 DEF CoreR, Sides, Init
<1>5. \A j \in Jobs, f \in Files :
         /\ dir[j][f].final \in Blocks /\ dir[j][f].part = NoFile /\ NoFile \in Blocks
         /\ \A i \in DOMAIN NoFile : NoFile[i][2] <= 1
         /\ \A i \in DOMAIN dir[j][f].final : dir[j][f].final[i][2] <= 1
  <2>1. 0 \in Files /\ 0 \in 0 .. MaxVersion
    BY TransferJobAssumption, FileTransferAssumption DEF Files
  <2>2. ASSUME NEW f \in Files, NEW x \in Nat
        PROVE  <<<<f, 0, x>>>> \in Blocks /\ \A i \in DOMAIN <<<<f, 0, x>>>> : <<<<f, 0, x>>>>[i][2] <= 1
    <3>1. <<f, 0, x>> \in Files \X (0 .. MaxVersion) \X Nat /\ <<f, 0, x>>[2] = 0
      BY <2>1
    <3>2. PICK e : e = <<f, 0, x>>
      BY ZenonT(30)
    <3>3. DOMAIN <<e>> = {1} /\ <<e>>[1] = e
      OBVIOUS
    <3>4. \A i \in DOMAIN <<e>> : <<e>>[i][2] <= 1
      BY <3>1, <3>2, <3>3
    <3>5. <<e>> \in Blocks
      BY <3>1, <3>2 DEF Blocks
    <3> QED
      BY <3>2, <3>4, <3>5
  <2>3. NoFile \in Blocks /\ \A i \in DOMAIN NoFile : NoFile[i][2] <= 1
    BY <2>1, <2>2 DEF NoFile
  <2>4. ASSUME NEW f \in Files PROVE OldFile(f) \in Blocks /\ \A i \in DOMAIN OldFile(f) : OldFile(f)[i][2] <= 1
    BY <2>2 DEF OldFile
  <2>5. ASSUME NEW j \in Jobs, NEW f \in Files
        PROVE  dir[j][f].part = NoFile /\ dir[j][f].final \in {OldFile(f), NoFile}
    BY DEF Init
  <2> QED
    BY <2>3, <2>4, <2>5
<1>6. CoreB
  <2>1. dir \in [Jobs -> Dirs]
    <3>1. NoDigest \in 0 .. MaxVersion
      BY FileTransferAssumption DEF NoDigest
    <3>2. PICK D : D = [f \in Files |-> [final |-> IF f = 0 THEN OldFile(f) ELSE NoFile,
                                         part |-> NoFile, digest |-> NoDigest]]
      BY ZenonT(30)
    <3>3. dir = [j \in Jobs |-> D]
      BY <3>2 DEF Init
    <3>4. ASSUME NEW j \in Jobs PROVE dir[j] \in Dirs
      <4>1. \A f \in Files : D[f].final \in Blocks /\ D[f].part \in Blocks
        BY <1>5, <3>3
      <4>2. \A f \in Files : D[f] \in Entry
        <5> SUFFICES ASSUME NEW f \in Files PROVE D[f] \in Entry
          OBVIOUS
        <5>1. PICK fin : fin = D[f].final
          OBVIOUS
        <5>2. D[f] = [final |-> fin, part |-> NoFile, digest |-> NoDigest] /\ fin \in Blocks /\ NoFile \in Blocks
          BY <1>5, <3>2, <4>1, <5>1
        <5> QED
          BY <3>1, <5>2 DEF Entry, Blocks
      <4>3. D = [f \in Files |-> D[f]]
        BY <3>2
      <4> QED
        BY <3>3, <4>2, <4>3 DEF Dirs
    <3> QED
      BY <3>3, <3>4
  <2>2. version \in [Jobs -> [Files -> 1 .. MaxVersion]]
    BY FileTransferAssumption DEF Init
  <2>3. saved \in [Jobs -> -1 .. NFiles]
    BY TransferJobAssumption DEF Init
  <2>4. /\ prompts \subseteq writing \X Files
        /\ told \in [Jobs -> {"none", "listed", "running", "done", "error"}]
        /\ failed \subseteq Jobs /\ misplaced \subseteq Jobs \X Files
    BY DEF Init
  <2>5. decided \in [Jobs -> Answers] /\ kept \in [Jobs -> Answers]
    BY DEF Init, Unanswered, Answers
  <2>6. starts \in 0 .. MaxStarts /\ breaks \in 0 .. MaxBreaks /\ faults \in 0 .. MaxFaults
    BY FileTransferAssumption DEF Init
  <2> QED
    BY <2>1, <2>2, <2>3, <2>4, <2>5, <2>6 DEF CoreB
<1>7. CoreC
  BY DEF CoreC, Init
<1>8. \A j : CM(j) = <<>> /\ SM(j) = <<>> /\ Asked(j) = {} /\ ~Reads(j)
  <2>1. toClient = <<>> /\ toServer = <<>> /\ prompts = {}
    BY DEF Init
  <2> QED
    BY <1>4, <2>1, Offline
<1>9. \A j \in Jobs : Parts(dir[j], version[j], Bad(j))
  <2>1. \A j \in Jobs, f \in Files : version[j][f] = 1
    BY DEF Init
  <2> QED
    BY <1>5, <2>1 DEF Parts
<1>10. ASSUME NEW j \in Downloads PROVE Download(j)
  <2>1. j \in Jobs /\ j \notin writing /\ told[j] = "none" /\ saved[j] = -1
    BY DEF Downloads, Init
  <2>2. Prot(j)
    BY <2>1 DEF Prot, Protocol
  <2>3. Ans(j)
    BY <1>8 DEF Ans, Answers1
  <2>4. PICK in \in BOOLEAN : in = (j \in writing)
    BY Membership
  <2>5. ~in
    BY <2>1, <2>4, ZenonT(30)
  <2>6. PICK ds, D, ver, bad, k, w, fail :
           ds = decided[j] /\ D = dir[j] /\ ver = version[j] /\ bad = Bad(j) /\ k = kept[j] /\ w = writer[j]
           /\ fail = (j \in failed)
    OBVIOUS
  <2>7. Copied(-1, D, ver, k, bad)
    BY DEF Copied, Files
  <2>8. Content(in, w, D, ver, ds, bad, -1, k, "none", fail)
    BY <1>9, <2>1, <2>5, <2>6, <2>7 DEF Content, Open, Saved, Shown
  <2>9. Cont(j)
    BY <2>1, <2>4, <2>6, <2>8 DEF Cont
  <2> QED
    BY <2>2, <2>3, <2>9, DownloadParts
<1>11. ASSUME NEW j \in Uploads PROVE Upload(j)
  <2>1. j \in Jobs
    BY FileTransferAssumption
  <2>2. decided[j] = Unanswered /\ kept[j] = Unanswered /\ told[j] = "none"
    BY <2>1 DEF Init
  <2> QED
    BY <1>2, <1>9, <2>1, <2>2 DEF Upload
<1>12. Types
  BY <1>3, <1>4, <1>6, <1>7, CoreIsTypes
<1> QED
  BY <1>10, <1>11, <1>12 DEF IInv

\* What a step keeps: the invariant, the files that were not to be copied, and
\* the promise of FileCopy.
Keeps ==
    /\ IInv' /\ \A j \in Jobs : Kept(j)
    /\ Copy!CopyNext \/ UNCHANGED <<Phases, Agreed, Dests>>

LEMMA OneJobSafe ==
  ASSUME IInv, NEW k, OneJob(k)
  PROVE  Keeps
<1>1. IInv' /\ \A j \in Jobs : Kept(j)
  BY OneJobKeeps, OneJobUntouched
<1>2. k \in Jobs /\ Local(k) /\ \A j \in Jobs \ {k} : Same(j)
  BY DEF OneJob
<1>3. \A j \in Jobs \ {k} : Quiet(j)
  BY <1>2, QuietSame DEF Same
<1>4. Copy!CopyNext \/ UNCHANGED <<Phases, Agreed, Dests>>
  BY <1>2, <1>3, LiftStep
<1> QED
  BY <1>1, <1>4 DEF Keeps

LEMMA AllQuietSafe ==
  ASSUME AllQuiet
  PROVE  Keeps
<1>1. UNCHANGED <<Phases, Agreed, Dests>>
  BY DEF AllQuiet, Quiet, Phases, Agreed, Dests
<1> QED
  BY <1>1 DEF AllQuiet, Keeps

LEMMA AllStopSafe ==
  ASSUME AllStop
  PROVE  Keeps
<1>1. PICK J \in SUBSET Jobs : \A j \in Jobs : IF j \in J THEN Stops(j) ELSE Quiet(j)
  BY DEF AllStop
<1>2. Copy!CopyNext
  BY <1>1, LiftStop
<1> QED
  BY <1>2 DEF AllStop, Keeps

LEMMA UserKeeps ==
  ASSUME IInv, User
  PROVE  Keeps
<1>1. PICK k \in Jobs : \/ SendFiles(k) \/ ResumeJob(k) \/ CancelJob(k)
                        \/ \E f \in Files, o, r \in BOOLEAN : SetConfirmOverrideFile(k, f, o, r)
  BY DEF User
<1>2. OneJob(k)
  <2>1. CASE SendFiles(k)
    BY <2>1, StepSendFiles
  <2>2. CASE ResumeJob(k)
    BY <2>2, StepResumeJob
  <2>3. CASE CancelJob(k)
    BY <2>3, StepCancelJob
  <2>4. CASE \E f \in Files, o, r \in BOOLEAN : SetConfirmOverrideFile(k, f, o, r)
    BY <2>4, StepSetConfirmOverrideFile
  <2> QED
    BY <1>1, <2>1, <2>2, <2>3, <2>4
<1> QED
  BY <1>2, OneJobSafe

LEMMA ClientKeeps ==
  ASSUME IInv, ClientReceives
  PROVE  Keeps
<1>1. PICK k : k = Head(toClient).j
  OBVIOUS
<1>2. OneJob(k)
  <2>1. CASE ClientDir
    BY <1>1, <2>1, StepClientDir
  <2>2. CASE ClientDigest
    BY <1>1, <2>2, StepClientDigest
  <2>3. CASE ClientBlock
    BY <1>1, <2>3, StepClientBlock
  <2>4. CASE ClientDone
    BY <1>1, <2>4, StepClientDone
  <2>5. CASE ClientError
    BY <1>1, <2>5, StepClientError
  <2> QED
    BY <2>1, <2>2, <2>3, <2>4, <2>5 DEF ClientReceives
<1> QED
  BY <1>2, OneJobSafe

LEMMA ServerKeeps ==
  ASSUME IInv, ServerReceives
  PROVE  Keeps
<1>1. PICK k : k = Head(toServer).j
  OBVIOUS
<1>2. OneJob(k)
  <2>1. CASE ServerSend
    BY <1>1, <2>1, StepServerSend
  <2>2. CASE ServerReceive
    BY <1>1, <2>2, StepServerReceive
  <2>3. CASE ServerConfirm
    BY <1>1, <2>3, StepServerConfirm
  <2>4. CASE ServerCancel
    BY <1>1, <2>4, StepServerCancel
  <2>5. CASE ServerDigest
    BY <1>1, <2>5, StepServerDigest
  <2>6. CASE ServerWriteEnds
    BY <1>1, <2>6, StepServerWriteEnds
  <2> QED
    BY <2>1, <2>2, <2>3, <2>4, <2>5, <2>6 DEF ServerReceives
<1> QED
  BY <1>2, OneJobSafe

LEMMA TicksKeep ==
  ASSUME IInv, ClientTicks \/ ServerTicks
  PROVE  Keeps
<1>1. CASE ClientTicks
  <2>1. PICK bad \in Unopened, r \in BOOLEAN : HandleReadJobs("client", bad, r)
    BY <1>1 DEF ClientTicks, TickClient
  <2>2. AllQuiet
    BY <2>1, StepTickClient
  <2> QED
    BY <2>2, AllQuietSafe
<1>2. CASE ServerTicks
  <2>1. PICK bad \in Unopened, r \in BOOLEAN :
           HandleReadJobsTick(bad, r) \/ HandleReadJobs("server", bad, r)
    BY <1>2 DEF ServerTicks, TickServer
  <2>2. CASE HandleReadJobsTick(bad, r)
    <3>1. AllQuiet
      BY <2>2, StepTickManager
    <3> QED
      BY <3>1, AllQuietSafe
  <2>3. CASE HandleReadJobs("server", bad, r)
    <3>1. AllQuiet
      BY <2>3, StepTickConnection
    <3> QED
      BY <3>1, AllQuietSafe
  <2> QED
    BY <2>1, <2>2, <2>3
<1> QED
  BY <1>1, <1>2

LEMMA WorldKeeps ==
  ASSUME IInv, World
  PROVE  Keeps
<1>1. CASE \E s \in BOOLEAN : Disconnect(s)
  <2>1. AllStop
    BY <1>1, StepDisconnect
  <2> QED
    BY <2>1, AllStopSafe
<1>2. CASE Connect
  <2>1. AllStop
    BY <1>2, StepConnect
  <2> QED
    BY <2>1, AllStopSafe
<1>3. CASE \E j \in Jobs, f \in Files : SourceChanges(j, f)
  <2>1. PICK j \in Jobs, f \in Files : SourceChanges(j, f)
    BY <1>3
  <2>2. OneJob(j)
    BY <2>1, StepSourceChanges
  <2> QED
    BY <2>2, OneJobSafe
<1> QED
  BY <1>1, <1>2, <1>3 DEF World

LEMMA StutterKeeps ==
  ASSUME IInv, UNCHANGED vars
  PROVE  Keeps
<1>1. CoreA /\ CoreR /\ CoreB /\ CoreC
  BY TypesAreCore DEF IInv
<1>2. CoreA' /\ CoreR' /\ CoreB' /\ CoreC'
  <2>1. CoreA' /\ CoreR'
    BY <1>1 DEF vars, CoreA, CoreR
  <2>2. CoreB'
    BY <1>1 DEF vars, CoreB
  <2>3. CoreC'
    BY <1>1, ZenonT(30) DEF vars, CoreC
  <2> QED
    BY <2>1, <2>2, <2>3
<1>3. \A j : CM(j)' = CM(j) /\ SM(j)' = SM(j) /\ Asked(j)' = Asked(j) /\ Bad(j)' = Bad(j) /\ Reads(j)' = Reads(j)
  BY DEF vars, CM, SM, Asked, Bad, Reads
<1>4. \A j \in Jobs : Same(j)
  BY <1>3 DEF vars, Same
<1>5. \A j \in Downloads : Download(j)'
  BY <1>4, FrameD DEF IInv, Downloads
<1>6. \A j \in Uploads : Upload(j)'
  BY <1>4, FrameU, FileTransferAssumption DEF IInv
<1>7. \A j \in Jobs : Quiet(j) /\ Kept(j)
  BY <1>4, QuietSame, KeptSame DEF Same
<1>8. AllQuiet
  BY <1>2, <1>5, <1>6, <1>7, CoreIsTypes DEF AllQuiet, IInv
<1> QED
  BY <1>8, AllQuietSafe

LEMMA StepKeeps ==
  ASSUME IInv, [Next]_vars
  PROVE  Keeps
<1>1. CASE Next
  BY <1>1, UserKeeps, ClientKeeps, ServerKeeps, TicksKeep, WorldKeeps DEF Next
<1>2. CASE UNCHANGED vars
  BY <1>2, StutterKeeps
<1> QED
  BY <1>1, <1>2

\* The inductive invariant: of every download, at which point of its protocol
\* it stands and what the directory holds of its files; of every upload, that
\* nothing is written for it.
THEOREM TransferInvariant == Spec => []IInv
<1>1. Init => IInv
  BY InitKeeps
<1>2. IInv /\ [Next]_vars => IInv'
  BY StepKeeps DEF Keeps
<1> QED
  BY <1>1, <1>2, PTL DEF Spec

\* Every variable keeps its type: the lists of reading jobs hold jobs, and each
\* direction of the connection carries only the messages its reader handles.
THEOREM TransferTypes == Spec => []TypeOK
<1>1. IInv => TypeOK
  BY DEF IInv, Types
<1> QED
  BY <1>1, TransferInvariant, PTL

\* When the user is told that a job is done, and was told of no error, every
\* file that was to be copied is a whole copy of one version of its source,
\* unless the reader alone resumed it.
THEOREM DoneIsCopied == Spec => []DoneMeansCopied
<1>1. ASSUME IInv PROVE DoneMeansCopied
  <2> SUFFICES ASSUME NEW j \in Jobs, told[j] = "done", j \notin failed,
                      NEW f \in Files, decided[j][f] = "copy"
               PROVE  Whole(j, f) \/ <<j, f>> \in misplaced
    BY DEF DoneMeansCopied
  <2>1. CASE j \in Uploads
    <3>1. decided[j] = Unanswered
      BY <1>1, <2>1 DEF IInv, Upload
    <3> QED
      BY <3>1 DEF Unanswered
  <2>2. CASE j \in Downloads
    <3>1. Cont(j)
      BY <1>1, <2>2, DownloadParts DEF IInv
    <3>2. Copied(NFiles, dir[j], version[j], decided[j], Bad(j))
      BY <3>1 DEF Cont, Content, Shown
    <3>3. f < NFiles
      BY TransferJobAssumption DEF Files
    <3> QED
      BY <3>2, <3>3 DEF Copied, IsWhole, Whole, Bad
  <2> QED
    BY <2>1, <2>2 DEF Downloads
<1> QED
  BY <1>1, TransferInvariant, PTL

\* A file the user chose to keep is not replaced by any step, whatever parts
\* of earlier attempts lie beside it.
THEOREM SkippedStays == Spec => SkippedUntouched
<1>1. ASSUME IInv, [Next]_vars
      PROVE  [\A j \in Jobs, f \in Files :
                 decided[j][f] = "skip" /\ decided'[j][f] = "skip"
                     => dir'[j][f].final = dir[j][f].final]_vars
  <2>1. \A j \in Jobs : Kept(j)
    BY <1>1, StepKeeps DEF Keeps
  <2> QED
    BY <2>1 DEF Kept, Untouched
<1> QED
  BY <1>1, TransferInvariant, PTL DEF Spec, SkippedUntouched

\* The transfer implements FileCopy: a job changes only files it was agreed to
\* write, and is done only when each of these is a whole copy, up to the files
\* the reader alone resumed.
THEOREM TransferKeepsPromise == Spec => KeepsPromise
<1>1. Init => Copy!CopyInit
  <2> SUFFICES ASSUME Init PROVE Copy!CopyInit
    OBVIOUS
  <2>1. Phases = [j \in Jobs |-> "stopped"] /\ Agreed = [j \in Jobs |-> {}]
    BY DEF Init, Phases, Agreed, Ph, Ag
  <2>2. Dests \in [Jobs -> [Files -> {"copy", "other"}]]
    BY DsType DEF Dests
  <2> QED
    BY <2>1, <2>2 DEF Copy!CopyInit, Copy!Contents, Phases, Agreed, Dests, Ph, Ag, Ds
<1>2. IInv /\ [Next]_vars => [Copy!CopyNext]_(Copy!copyVars)
  <2> SUFFICES ASSUME IInv, [Next]_vars PROVE [Copy!CopyNext]_(Copy!copyVars)
    OBVIOUS
  <2>1. Copy!CopyNext \/ UNCHANGED <<Phases, Agreed, Dests>>
    BY StepKeeps DEF Keeps
  <2>2. UNCHANGED <<Phases, Agreed, Dests>> => UNCHANGED Copy!copyVars
    BY DEF Copy!copyVars, Phases, Agreed, Dests, Ph, Ag, Ds
  <2> QED
    BY <2>1, <2>2
<1> QED
  BY <1>1, <1>2, TransferInvariant, PTL DEF Spec, KeepsPromise, Copy!CopySpec
============================================================================
