----------------------- MODULE TerminalServiceProofs -----------------------
(***************************************************************************)
(* The terminal service for every set of connections, terminals and        *)
(* sessions, every bound and every size of the channel and of the buffer.  *)
(***************************************************************************)
EXTENDS TerminalService, SequenceTheorems, WellFoundedInduction, TLAPS

\* A connection and its run thread, and what the thread holds between calls of
\* read_outputs: nothing.
Threads ==
    \A c \in Conns :
        /\ conn[c] = "out" <=> run[c].pc = "none"
        /\ conn[c] = "in" => run[c].pc \in {"wait", "loop", "read"}
        /\ run[c].pc \in {"none", "wait"} => ~run[c].entered
        /\ run[c].pc # "read" => /\ run[c].service = None /\ run[c].todo = {}
                                 /\ run[c].closed = {} /\ run[c].out = NoOutput
        /\ run[c].pc = "read" => run[c].service \in Conns
        /\ conn[c] # "in" => \A id \in Ids : screen[c][id].session = NoSession

\* A connection that has not logged in has made no service.
Unborn == \A k \in Conns : conn[k] = "out" => service[k] = NoService /\ ~Named(k)

\* Somebody is left to remove a service that is not persistent.
Watched ==
    registered # None =>
        \/ service[registered].persistent
        \/ \E c \in Conns : \/ run[c].pc \in {"wait", "loop", "read", "remove"}
                            \/ run[c].pc = "dead" /\ ~run[c].entered

\* A sequence of chunks in order.
Rising(q) == \A i, j \in 1 .. Len(q) : i < j => q[i] < q[j]

\* What a shell wrote is, in order, in the buffer and then in the channel; it
\* misses what a full channel dropped and what the buffer has shed at its
\* beginning.
Recorded(x) ==
    x.reader # "none" =>
        /\ Rising(x.buffer \o x.chan)
        /\ ToSet(x.buffer \o x.chan) \subseteq 1 .. x.written
        /\ \A n \in 1 .. x.written :
              \/ n \in ToSet(x.buffer \o x.chan) \cup x.lost
              \/ x.buffer # <<>> /\ n < x.buffer[1]

\* One session: a session without a client replays nothing, one without an
\* owner runs no shell, and its height and its output are accounted for.
Good(x) ==
    /\ Len(x.chan) <= CHANNEL_BUFFER_SIZE /\ Len(x.buffer) <= MAX_BUFFER_LINES
    /\ x.state # "active" => x.pending = <<>> /\ x.phase = "idle"
    /\ x.reader # "none" => x.state \in {"closed", "active"}
    /\ x.state = "active" /\ x.phase = "idle" /\ ~x.unsized => x.pty = x.rows
    /\ Recorded(x)

AllGood == \A s \in Sessions : Good(session[s])

\* A client that has a terminal alone: nobody else reads the service, and no
\* other Open takes the session away.
Lone(c, id) == screen[c][id].session # NoSession /\ screen[c][id].alone

LoneInv ==
    \A c \in Conns, id \in Ids :
        /\ screen[c][id].session # NoSession => session[screen[c][id].session].state # "unused"
        /\ Lone(c, id) =>
              /\ \A d \in Conns \ {c} : run[d].pc \in {"none", "dead"}
              /\ registered # None => ~service[registered].sync

\* Its session is there under its id, its run thread has it under this id and
\* no other, and its end is reported to it alone.
Live(c, id) ==
    /\ Lone(c, id) /\ conn[c] = "in" /\ ~screen[c][id].closed
    /\ session[screen[c][id].session].reader # "none"

Attached(c, id) ==
    LET v == screen[c][id]
    IN  /\ session[v.session].state = "active"
        /\ \A t \in run[c].todo : t[1] = id <=> t[2] = v.session
        /\ registered # None =>
              /\ service[registered].sessions[id] = v.session
              /\ session[v.session].told => v.dead \/ id \in run[c].closed

LiveInv == \A c \in Conns, id \in Ids : Live(c, id) => Attached(c, id)

\* The output on its way to the client is in order and complete.
Delivered(c, id) ==
    LET v == screen[c][id]
        x == session[v.session]
    IN  /\ Rising(Flow(c, id))
        /\ ToSet(Flow(c, id)) \subseteq 1 .. x.written
        /\ \A n \in v.from .. x.written : n \in ToSet(Flow(c, id)) \cup x.lost

FlowInv == \A c \in Conns, id \in Ids : Live(c, id) => Delivered(c, id)

IInv == /\ TypeOK /\ Threads /\ Unborn /\ Watched /\ SessionOwned
        /\ AllGood /\ LoneInv /\ LiveInv /\ FlowInv

\* What a step may do to one session.
Read(x, ok) == IF Drain(x).state = "active" THEN Sigwinch(Drain(x), ok) ELSE Drain(x)
Exited(x) == [x EXCEPT !.reader = "finished"]

SessionStep(x, y) ==
    \/ y \in {x, Dropped, Stop(x), Close(x), Reattach(x)}
    \/ x.state = "unused" /\ y = NewSession
    \/ \E rows \in Rows, ok \in BOOLEAN : y = Resized(x, rows, ok)
    \/ \E ok \in BOOLEAN : y = Read(x, ok)
    \/ x.reader = "alive" /\ Len(x.chan) < CHANNEL_BUFFER_SIZE /\ y = Wrote(x)
    \/ x.reader = "alive" /\ y \in {Lost(x), Exited(x)}

\* The values that the fields are reset to have the fields' types.
LEMMA Resets ==
  /\ <<>> \in Seq(Nat) /\ {} \in SUBSET Nat
  /\ 0 \in 0 .. MAX_SIGWINCH_PHASE_ATTEMPTS
  /\ MAX_SIGWINCH_PHASE_ATTEMPTS \in 0 .. MAX_SIGWINCH_PHASE_ATTEMPTS
  /\ \A n \in 0 .. MAX_SIGWINCH_PHASE_ATTEMPTS : n > 0 => n - 1 \in 0 .. MAX_SIGWINCH_PHASE_ATTEMPTS
  /\ OpenRows \in Nat /\ Rows \subseteq Nat
  /\ ReconnectChunks \in Nat \ {0} /\ MAX_BUFFER_LINES \in Nat \ {0}
  /\ CHANNEL_BUFFER_SIZE \in Nat \ {0} /\ NoSession \notin Sessions
<1>1. <<>> \in Seq(Nat)
  OBVIOUS
<1> QED
  BY <1>1, TerminalAssumption DEF NoSession

\* A nonempty set of terminal ids has a lowest one.
LEMMA LowestExists ==
  ASSUME NEW T \in SUBSET Nat, T # {}
  PROVE  \E i \in T : \A j \in T : i <= j
<1>1. \E i \in T : \A j \in T : ~(<<j, i>> \in OpToRel(<, Nat))
  BY WFMin, NatLessThanWellFounded, Zenon
<1>2. PICK i \in T : \A j \in T : ~(<<j, i>> \in OpToRel(<, Nat))
  BY <1>1
<1>3. \A j \in T : i <= j
  <2> TAKE j \in T
  <2>1. ~(j < i)
    BY <1>2 DEF OpToRel
  <2> QED
    BY <2>1
<1> QED
  BY <1>3

\* The last n elements of a sequence.
LEMMA LastNProperties ==
  ASSUME NEW q \in Seq(Nat), NEW n \in Nat \ {0}
  PROVE  /\ LastN(q, n) \in Seq(Nat) /\ Len(LastN(q, n)) <= n
         /\ \E k \in 0 .. Len(q) :
               /\ Len(LastN(q, n)) = Len(q) - k
               /\ \A i \in 1 .. Len(q) - k : LastN(q, n)[i] = q[k + i]
               /\ Len(q) # 0 => k # Len(q)
<1> DEFINE k == IF Len(q) > n THEN Len(q) - n ELSE 0
<1>1. Len(q) \in Nat /\ k \in 0 .. Len(q) /\ Len(q) - k <= n /\ (Len(q) # 0 => k # Len(q))
  OBVIOUS
<1>2. LastN(q, n) = SubSeq(q, k + 1, Len(q))
  BY <1>1 DEF LastN
<1>3. /\ SubSeq(q, k + 1, Len(q)) \in Seq(Nat)
      /\ Len(SubSeq(q, k + 1, Len(q))) = Len(q) - k
      /\ \A i \in 1 .. Len(q) - k : SubSeq(q, k + 1, Len(q))[i] = q[k + i]
  <2> HIDE DEF k
  <2> QED
    BY <1>1
<1> HIDE DEF k
<1> QED
  BY <1>1, <1>2, <1>3

\* The five outcomes of one call's share of the two-phase resize.
LEMMA SigwinchCases ==
  ASSUME NEW x \in SessionType, NEW ok \in BOOLEAN
  PROVE  \/ x.phase = "idle" /\ Sigwinch(x, ok) = x
         \/ /\ x.phase # "idle"
            /\ Sigwinch(x, ok) = [x EXCEPT !.phase = "idle", !.unsized = TRUE]
         \/ /\ x.phase # "idle" /\ x.retries > 0
            /\ Sigwinch(x, ok) = [x EXCEPT !.retries = @ - 1]
         \/ /\ x.phase = "temp"
            /\ Sigwinch(x, ok) = [x EXCEPT !.phase = "restore",
                   !.retries = MAX_SIGWINCH_PHASE_ATTEMPTS, !.pty = TempRows(x.rows)]
         \/ /\ x.phase = "restore"
            /\ Sigwinch(x, ok) = [x EXCEPT !.phase = "idle", !.retries = 0, !.pty = x.rows,
                                   !.unsized = FALSE]
<1>1. x.phase \in {"idle", "temp", "restore"} /\ x.retries \in 0 .. MAX_SIGWINCH_PHASE_ATTEMPTS
  BY DEF SessionType
<1>2. CASE x.phase = "idle"
  BY <1>2 DEF Sigwinch
<1>3. CASE x.phase # "idle" /\ x.retries = 0
  BY <1>3 DEF Sigwinch
<1>4. CASE x.phase # "idle" /\ x.retries > 0 /\ ~ok
  BY <1>4 DEF Sigwinch
<1>5. CASE x.phase = "temp" /\ x.retries > 0 /\ ok
  BY <1>5 DEF Sigwinch
<1>6. CASE x.phase = "restore" /\ x.retries > 0 /\ ok
  BY <1>6 DEF Sigwinch
<1> QED
  BY <1>1, <1>2, <1>3, <1>4, <1>5, <1>6, TerminalAssumption

\* What the operations of a session return is a session.
LEMMA SessionTypes ==
  ASSUME NEW x \in SessionType
  PROVE  /\ Stop(x) \in SessionType /\ Close(x) \in SessionType
         /\ Reattach(x) \in SessionType /\ Drain(x) \in SessionType
         /\ Unused \in SessionType /\ NewSession \in SessionType /\ Dropped \in SessionType
         /\ \A ok \in BOOLEAN : Sigwinch(x, ok) \in SessionType
<1>1. Stop(x) \in SessionType /\ Close(x) \in SessionType
  BY Resets DEF SessionType, Stop, Close
<1>2. Reattach(x) \in SessionType
  <2>1. LastN(x.buffer, ReconnectChunks) \in Seq(Nat)
    BY LastNProperties, Resets DEF SessionType
  <2> QED
    BY <2>1, Resets DEF SessionType, Reattach
<1>3. Drain(x) \in SessionType
  <2>1. x.buffer \o x.chan \in Seq(Nat)
    BY DEF SessionType
  <2>2. LastN(x.buffer \o x.chan, MAX_BUFFER_LINES) \in Seq(Nat)
    BY <2>1, LastNProperties, Resets
  <2> QED
    BY <2>2, Resets DEF SessionType, Drain, Ends
<1>4. Unused \in SessionType /\ NewSession \in SessionType /\ Dropped \in SessionType
  BY Resets, ZenonT(30) DEF SessionType, Unused, NewSession, Dropped
<1>5. ASSUME NEW ok \in BOOLEAN PROVE Sigwinch(x, ok) \in SessionType
  <2>1. TempRows(x.rows) \in Nat
    BY DEF SessionType, TempRows
  <2>2. x.phase # "idle" => [x EXCEPT !.phase = "idle", !.unsized = TRUE] \in SessionType
    BY DEF SessionType
  <2>3. x.retries > 0 => [x EXCEPT !.retries = @ - 1] \in SessionType
    BY Resets DEF SessionType
  <2>4. [x EXCEPT !.phase = "restore", !.retries = MAX_SIGWINCH_PHASE_ATTEMPTS,
                  !.pty = TempRows(x.rows)] \in SessionType
    BY <2>1, Resets DEF SessionType
  <2>5. [x EXCEPT !.phase = "idle", !.retries = 0, !.pty = x.rows, !.unsized = FALSE] \in SessionType
    BY Resets DEF SessionType
  <2> QED
    BY <2>2, <2>3, <2>4, <2>5, SigwinchCases, ZenonT(30)
<1> QED
  BY <1>1, <1>2, <1>3, <1>4, <1>5

\* A sequence that is not empty has a first element.
LEMMA NotEmpty ==
  ASSUME NEW q \in Seq(Nat), q # <<>>
  PROVE  Len(q) \in Nat /\ Len(q) >= 1
<1>1. Len(q) \in Nat /\ Len(q) # 0
  BY EmptySeq
<1>2. \A n \in Nat : n # 0 => n >= 1
  OBVIOUS
<1> QED
  BY <1>1, <1>2

\* The first element of a concatenation.
LEMMA FirstOfConcat ==
  ASSUME NEW q \in Seq(Nat), q # <<>>, NEW r \in Seq(Nat)
  PROVE  Len(q \o r) # 0 /\ (q \o r)[1] = q[1]
<1>1. Len(q) \in Nat /\ Len(q) >= 1 /\ Len(r) \in Nat
  BY NotEmpty
<1>2. /\ Len(q \o r) = Len(q) + Len(r)
      /\ \A i \in 1 .. Len(q) + Len(r) : (q \o r)[i] = IF i <= Len(q) THEN q[i] ELSE r[i - Len(q)]
  BY ConcatProperties
<1> QED
  BY <1>1, <1>2

\* The chunks of a sequence.
LEMMA InToSet ==
  ASSUME NEW q \in Seq(Nat)
  PROVE  ToSet(q) = {q[i] : i \in 1 .. Len(q)}
  BY DEF ToSet

LEMMA ToSetConcat ==
  ASSUME NEW q \in Seq(Nat), NEW r \in Seq(Nat)
  PROVE  ToSet(q \o r) = ToSet(q) \cup ToSet(r)
<1>1. ToSet(q) = Range(q) /\ ToSet(r) = Range(r) /\ ToSet(q \o r) = Range(q \o r)
  BY DEF ToSet, Range
<1> QED
  BY <1>1, RangeConcatenation

\* The record of the output depends on five fields.
LEMMA RecordedFrame ==
  ASSUME NEW x, NEW y, Recorded(x),
         y.reader # "none" => x.reader # "none", y.buffer = x.buffer,
         y.chan = x.chan, y.written = x.written, y.lost = x.lost
  PROVE  Recorded(y)
  BY DEF Recorded

\* What is left of a sequence of chunks when its first k are gone.
LEMMA SuffixRises ==
  ASSUME NEW q \in Seq(Nat), NEW r \in Seq(Nat), NEW k \in 0 .. Len(q), NEW m \in Nat,
         Len(r) = Len(q) - k, \A i \in 1 .. Len(q) - k : r[i] = q[k + i],
         Rising(q), ToSet(q) \subseteq 1 .. m
  PROVE  /\ Rising(r) /\ ToSet(r) \subseteq 1 .. m
         /\ \A n \in ToSet(q) : n \in ToSet(r) \/ (k # 0 /\ n <= q[k])
         /\ \A n \in ToSet(q) : n \in ToSet(r) \/ (k < Len(q) => n < r[1])
<1>1. Len(q) \in Nat /\ Len(r) \in Nat /\ \A i \in 1 .. Len(q) : q[i] \in Nat
  OBVIOUS
<1>2. ToSet(q) = {q[i] : i \in 1 .. Len(q)} /\ ToSet(r) = {r[i] : i \in 1 .. Len(r)}
  BY InToSet
<1>3. Rising(r)
  <2> SUFFICES ASSUME NEW i \in 1 .. Len(r), NEW j \in 1 .. Len(r), i < j PROVE r[i] < r[j]
    BY DEF Rising
  <2>1. k + i \in 1 .. Len(q) /\ k + j \in 1 .. Len(q) /\ k + i < k + j
    BY <1>1
  <2>2. r[i] = q[k + i] /\ r[j] = q[k + j]
    BY <1>1
  <2> QED
    BY <2>1, <2>2 DEF Rising
<1>4. ToSet(r) \subseteq 1 .. m
  <2>1. \A i \in 1 .. Len(r) : k + i \in 1 .. Len(q) /\ r[i] = q[k + i]
    BY <1>1
  <2> QED
    BY <1>2, <2>1
<1>5. ASSUME NEW n \in ToSet(q)
      PROVE  n \in ToSet(r) \/ (k # 0 /\ n <= q[k] /\ (k < Len(q) => n < r[1]))
  <2>1. PICK j \in 1 .. Len(q) : n = q[j]
    BY <1>2
  <2>2. CASE j > k
    <3>1. j - k \in 1 .. Len(r) /\ k + (j - k) = j
      BY <1>1, <2>2
    <3>2. r[j - k] = q[j]
      BY <1>1, <3>1
    <3> QED
      BY <1>2, <2>1, <3>1, <3>2
  <2>3. CASE ~(j > k)
    <3>1. k # 0 /\ k \in 1 .. Len(q) /\ j <= k
      BY <1>1, <2>3
    <3>2. q[j] <= q[k]
      BY <1>1, <3>1, SMTT(30) DEF Rising
    <3>3. ASSUME k < Len(q) PROVE q[j] < r[1]
      <4>1. k + 1 \in 1 .. Len(q) /\ j < k + 1 /\ r[1] = q[k + 1]
        BY <1>1, <3>1, <3>3, SMTT(30)
      <4> QED
        BY <4>1 DEF Rising
    <3> QED
      BY <2>1, <3>1, <3>2, <3>3
  <2> QED
    BY <1>1, <2>2, <2>3
<1> QED
  BY <1>3, <1>4, <1>5

\* Draining the channel into the buffer keeps the record.
LEMMA DrainRecords ==
  ASSUME NEW x \in SessionType, Recorded(x)
  PROVE  Recorded(Drain(x)) /\ Len(Drain(x).buffer) <= MAX_BUFFER_LINES
<1> DEFINE q == x.buffer \o x.chan
           r == LastN(q, MAX_BUFFER_LINES)
<1>1. /\ x.buffer \in Seq(Nat) /\ x.chan \in Seq(Nat) /\ q \in Seq(Nat)
      /\ x.written \in Nat
  BY DEF SessionType
<1>2. /\ Drain(x).buffer = r /\ Drain(x).chan = <<>> /\ Drain(x).reader = x.reader
      /\ Drain(x).written = x.written /\ Drain(x).lost = x.lost
  BY DEF SessionType, Drain
<1>3. r \in Seq(Nat) /\ Len(r) <= MAX_BUFFER_LINES
  BY <1>1, LastNProperties, Resets
<1>4. r \o <<>> = r
  BY <1>3, ConcatEmptySeq
<1>5. PICK k \in 0 .. Len(q) :
         /\ Len(r) = Len(q) - k
         /\ \A i \in 1 .. Len(q) - k : r[i] = q[k + i]
         /\ Len(q) # 0 => k # Len(q)
  BY <1>1, LastNProperties, Resets
<1>6. ASSUME x.buffer # <<>> PROVE Len(q) # 0 /\ q[1] = x.buffer[1]
  BY <1>1, <1>6, FirstOfConcat
<1>7. SUFFICES ASSUME x.reader # "none" PROVE Recorded(Drain(x))
  BY <1>2, <1>3 DEF Recorded
<1>8. Rising(q) /\ ToSet(q) \subseteq 1 .. x.written
      /\ \A n \in 1 .. x.written : \/ n \in ToSet(q) \cup x.lost
                                   \/ x.buffer # <<>> /\ n < x.buffer[1]
  BY <1>7 DEF Recorded
<1> HIDE DEF q, r
<1>9. Len(q) \in Nat /\ Len(r) \in Nat /\ \A i \in 1 .. Len(q) : q[i] \in Nat
  BY <1>1, <1>3
<1>10. ToSet(q) = {q[i] : i \in 1 .. Len(q)} /\ ToSet(r) = {r[i] : i \in 1 .. Len(r)}
  BY <1>1, <1>3, InToSet
<1>11. Len(q) # 0 => r # <<>> /\ r[1] = q[k + 1] /\ k + 1 \in 1 .. Len(q)
  <2> SUFFICES ASSUME Len(q) # 0 PROVE r # <<>> /\ r[1] = q[k + 1] /\ k + 1 \in 1 .. Len(q)
    OBVIOUS
  <2>1. k < Len(q) /\ Len(r) # 0
    BY <1>5, <1>9
  <2> QED
    BY <1>5, <1>9, <2>1
<1>12. /\ Rising(r) /\ ToSet(r) \subseteq 1 .. x.written
       /\ \A n \in ToSet(q) : n \in ToSet(r) \/ (k < Len(q) => n < r[1])
  BY <1>1, <1>3, <1>5, <1>8, SuffixRises
<1>13. \A n \in ToSet(q) : Len(q) # 0 /\ k < Len(q)
  <2>1. \A n \in ToSet(q) : Len(q) # 0
    <3>1. Len(q) = 0 => 1 .. Len(q) = {}
      BY <1>9
    <3> QED
      BY <1>10, <3>1
  <2>2. Len(q) # 0 => k < Len(q)
    BY <1>5, <1>9
  <2> QED
    BY <2>1, <2>2
<1>14. ASSUME NEW n \in 1 .. x.written
       PROVE  n \in ToSet(r) \cup x.lost \/ (r # <<>> /\ n < r[1])
  <2>1. CASE n \in ToSet(q)
    BY <1>11, <1>12, <1>13, <2>1
  <2>2. CASE x.buffer # <<>> /\ n < x.buffer[1]
    <3>1. q[1] <= q[k + 1]
      BY <1>6, <1>8, <1>9, <1>11, <2>2 DEF Rising
    <3> QED
      BY <1>1, <1>6, <1>9, <1>11, <2>2, <3>1, SMTT(30)
  <2> QED
    BY <1>8, <2>1, <2>2
<1> QED
  BY <1>2, <1>4, <1>12, <1>14 DEF Recorded

\* Concatenation is associative.
LEMMA Associative == \A a, b, d \in Seq(Nat) : (a \o b) \o d = a \o (b \o d)
  BY SMTT(30)

\* Appending to the last part of a concatenation.
LEMMA AppendLast ==
  ASSUME NEW q \in Seq(Nat), NEW r \in Seq(Nat), NEW w \in Nat
  PROVE  q \o Append(r, w) = Append(q \o r, w)
<1>1. q \o r \in Seq(Nat) /\ <<w>> \in Seq(Nat)
  BY ConcatProperties
<1>2. Append(r, w) = r \o <<w>> /\ Append(q \o r, w) = (q \o r) \o <<w>>
  BY <1>1, AppendIsConcat
<1>3. (q \o r) \o <<w>> = q \o (r \o <<w>>)
  BY <1>1, Associative
<1> QED
  BY <1>2, <1>3

\* The next chunk comes after all those so far.
LEMMA AppendRises ==
  ASSUME NEW q \in Seq(Nat), NEW m \in Nat, Rising(q), ToSet(q) \subseteq 1 .. m
  PROVE  /\ Rising(Append(q, m + 1))
         /\ ToSet(Append(q, m + 1)) = ToSet(q) \cup {m + 1}
         /\ ToSet(q) \cup {m + 1} \subseteq 1 .. m + 1
<1> DEFINE w == m + 1
           a == Append(q, w)
<1>1. w \in Nat
  OBVIOUS
<1>2. /\ a \in Seq(Nat) /\ Len(a) = Len(q) + 1 /\ Len(q) \in Nat
      /\ a[Len(q) + 1] = w /\ \A i \in 1 .. Len(q) : a[i] = q[i]
  BY <1>1, AppendProperties, LenProperties
<1>3. ToSet(q) = {q[i] : i \in 1 .. Len(q)} /\ ToSet(a) = {a[i] : i \in 1 .. Len(a)}
  BY <1>2, InToSet
<1> HIDE DEF a
<1>4. /\ \A i \in 1 .. Len(q) + 1 : i \in 1 .. Len(q) \/ i = Len(q) + 1
      /\ 1 .. Len(q) \subseteq 1 .. Len(q) + 1 /\ Len(q) + 1 \in 1 .. Len(q) + 1
  BY <1>2
<1>5. ToSet(a) = ToSet(q) \cup {w}
  BY <1>2, <1>3, <1>4
<1>6. Rising(a)
  <2> SUFFICES ASSUME NEW i \in 1 .. Len(q) + 1, NEW j \in 1 .. Len(q) + 1, i < j
               PROVE  a[i] < a[j]
    BY <1>2 DEF Rising
  <2>1. i \in 1 .. Len(q)
    BY <1>2
  <2>2. a[i] = q[i] /\ q[i] \in 1 .. m
    BY <1>2, <1>3, <2>1
  <2>3. CASE j = Len(q) + 1
    BY <1>2, <2>2, <2>3, SMTT(30)
  <2>4. CASE j \in 1 .. Len(q)
    BY <1>2, <2>1, <2>2, <2>4 DEF Rising
  <2> QED
    BY <1>4, <2>3, <2>4
<1> QED
  BY <1>5, <1>6 DEF a

\* A chunk that the channel takes is recorded in it.
LEMMA WroteRecords ==
  ASSUME NEW x \in SessionType, Recorded(x), x.reader # "none"
  PROVE  Recorded(Wrote(x)) /\ Len(Wrote(x).chan) = Len(x.chan) + 1
<1> DEFINE q == x.buffer \o x.chan
           w == x.written + 1
<1>1. x.buffer \in Seq(Nat) /\ x.chan \in Seq(Nat) /\ x.written \in Nat /\ w \in Nat
  BY DEF SessionType
<1>2. /\ Wrote(x).buffer = x.buffer /\ Wrote(x).chan = Append(x.chan, w)
      /\ Wrote(x).reader = x.reader /\ Wrote(x).written = w /\ Wrote(x).lost = x.lost
  BY DEF SessionType, Wrote
<1>3. x.buffer \o Append(x.chan, w) = Append(q, w) /\ q \in Seq(Nat)
  BY <1>1, AppendLast, ConcatProperties
<1>4. Len(Append(x.chan, w)) = Len(x.chan) + 1
  BY <1>1, AppendProperties
<1>5. Rising(q) /\ ToSet(q) \subseteq 1 .. x.written
      /\ \A n \in 1 .. x.written : \/ n \in ToSet(q) \cup x.lost
                                   \/ x.buffer # <<>> /\ n < x.buffer[1]
  BY DEF Recorded
<1>6. Rising(Append(q, w)) /\ ToSet(Append(q, w)) = ToSet(q) \cup {w} /\ ToSet(q) \cup {w} \subseteq 1 .. w
  BY <1>1, <1>3, <1>5, AppendRises
<1>7. \A n \in 1 .. w : n = w \/ n \in 1 .. x.written
  BY <1>1
<1> HIDE DEF q, w
<1> QED
  BY <1>2, <1>3, <1>4, <1>5, <1>6, <1>7 DEF Recorded

\* A chunk that a full channel drops is recorded as lost.
LEMMA LostRecords ==
  ASSUME NEW x \in SessionType, Recorded(x), x.reader # "none"
  PROVE  Recorded(Lost(x))
<1>1. x.written \in Nat /\ x.lost \in SUBSET Nat
  BY DEF SessionType
<1>2. /\ Lost(x).buffer = x.buffer /\ Lost(x).chan = x.chan /\ Lost(x).reader = x.reader
      /\ Lost(x).written = x.written + 1 /\ Lost(x).lost = x.lost \cup {x.written + 1}
  BY DEF SessionType, Lost
<1>3. \A n \in 1 .. x.written + 1 : n = x.written + 1 \/ n \in 1 .. x.written
  BY <1>1
<1>4. 1 .. x.written \subseteq 1 .. x.written + 1
  BY <1>1
<1> QED
  BY <1>2, <1>3, <1>4 DEF Recorded

\* Every step of a session keeps what is known of it.
LEMMA GoodStep ==
  ASSUME NEW x \in SessionType, Good(x), NEW y, SessionStep(x, y)
  PROVE  y \in SessionType /\ Good(y)
<1>1. CASE y = x
  BY <1>1
<1>2. CASE y = Dropped
  <2>1. y.reader = "none" /\ y.chan = <<>> /\ y.buffer = <<>> /\ y.pending = <<>>
        /\ y.phase = "idle" /\ y.state = "dropped"
    BY <1>2 DEF Dropped, Unused
  <2> QED
    BY <1>2, <2>1, SessionTypes, Resets DEF Good, Recorded
<1>3. CASE y = Stop(x)
  <2>1. y.reader = "none" /\ y.chan = <<>> /\ y.buffer = x.buffer /\ y.pending = <<>>
        /\ y.phase = "idle" /\ y.state = "closed"
    BY <1>3 DEF Stop, SessionType
  <2> QED
    BY <1>3, <2>1, SessionTypes, Resets DEF Good, Recorded
<1>4. CASE y = Close(x)
  <2>1. /\ y.reader = x.reader /\ y.chan = x.chan /\ y.buffer = x.buffer /\ y.written = x.written
        /\ y.lost = x.lost /\ y.pending = <<>> /\ y.phase = "idle" /\ y.state = "closed"
    BY <1>4 DEF Close, SessionType
  <2> QED
    BY <1>4, <2>1, SessionTypes, RecordedFrame DEF Good
<1>5. CASE y = Reattach(x)
  <2>1. /\ y.reader = x.reader /\ y.chan = x.chan /\ y.buffer = x.buffer /\ y.written = x.written
        /\ y.lost = x.lost /\ y.phase = "temp" /\ y.state = "active"
    BY <1>5 DEF Reattach, SessionType
  <2> QED
    BY <1>5, <2>1, SessionTypes, RecordedFrame DEF Good
<1>6. CASE y = NewSession
  <2>1. /\ y.chan = <<>> /\ y.buffer = <<>> /\ y.written = 0
        /\ y.state = "active" /\ y.pty = y.rows
    BY <1>6 DEF NewSession, Unused
  <2>2. <<>> \o <<>> = <<>> /\ ToSet(<<>>) = {} /\ Rising(<<>>)
    BY ConcatEmptySeq, Resets DEF ToSet, Rising
  <2>3. \A n \in 1 .. 0 : FALSE
    OBVIOUS
  <2>4. Recorded(y)
    BY <2>1, <2>2, <2>3 DEF Recorded
  <2>5. Len(<<>>) = 0
    OBVIOUS
  <2> QED
    BY <1>6, <2>1, <2>4, <2>5, SessionTypes, Resets DEF Good
<1>7. ASSUME NEW rows \in Rows, NEW ok \in BOOLEAN, y = Resized(x, rows, ok)
      PROVE  y \in SessionType /\ Good(y)
  <2>1. y \in SessionType
    BY <1>7, Resets DEF Resized, SessionType
  <2>2. /\ y.reader = x.reader /\ y.chan = x.chan /\ y.buffer = x.buffer /\ y.written = x.written
        /\ y.lost = x.lost /\ y.phase = x.phase /\ y.state = x.state /\ y.pending = x.pending
        /\ ~y.unsized => y.pty = y.rows
    BY <1>7 DEF Resized, SessionType
  <2> QED
    BY <2>1, <2>2, RecordedFrame DEF Good
<1>8. ASSUME NEW ok \in BOOLEAN, y = Read(x, ok)
      PROVE  y \in SessionType /\ Good(y)
  <2> DEFINE z == Drain(x)
  <2>1. z \in SessionType /\ Recorded(z) /\ Len(z.buffer) <= MAX_BUFFER_LINES
    BY SessionTypes, DrainRecords DEF Good
  <2>2. /\ z.chan = <<>> /\ z.state = x.state /\ z.phase = x.phase /\ z.reader = x.reader
        /\ z.pending = <<>> /\ z.unsized = x.unsized /\ z.pty = x.pty /\ z.rows = x.rows
    BY DEF Drain, SessionType
  <2>3. Good(z)
    BY <2>1, <2>2, Resets DEF Good
  <2> HIDE DEF z
  <2>4. CASE z.state = "active" /\ y = Sigwinch(z, ok)
    <3>1. y \in SessionType
      BY <2>1, <2>4, SessionTypes
    <3>2. /\ y.reader = z.reader /\ y.chan = z.chan /\ y.buffer = z.buffer /\ y.written = z.written
          /\ y.lost = z.lost /\ y.state = z.state
          /\ y.phase = "idle" /\ ~y.unsized => y.pty = y.rows
      <4>1. CASE y = z
        BY <2>3, <2>4, <4>1 DEF Good
      <4>2. CASE y = [z EXCEPT !.phase = "idle", !.unsized = TRUE]
        BY <2>1, <4>2 DEF SessionType
      <4>3. CASE z.phase # "idle" /\ y = [z EXCEPT !.retries = @ - 1]
        BY <2>1, <4>3 DEF SessionType
      <4>4. CASE y = [z EXCEPT !.phase = "restore", !.retries = MAX_SIGWINCH_PHASE_ATTEMPTS,
                               !.pty = TempRows(z.rows)]
        BY <2>1, <4>4 DEF SessionType
      <4>5. CASE y = [z EXCEPT !.phase = "idle", !.retries = 0, !.pty = z.rows, !.unsized = FALSE]
        BY <2>1, <4>5 DEF SessionType
      <4> QED
        BY <2>1, <2>4, <4>1, <4>2, <4>3, <4>4, <4>5, SigwinchCases, ZenonT(30)
    <3> QED
      BY <2>3, <2>4, <3>1, <3>2, RecordedFrame DEF Good
  <2> QED
    BY <1>8, <2>1, <2>3, <2>4 DEF Read, z
<1>9. CASE x.reader = "alive" /\ Len(x.chan) < CHANNEL_BUFFER_SIZE /\ y = Wrote(x)
  <2>1. /\ y.reader = x.reader /\ y.buffer = x.buffer /\ y.phase = x.phase /\ y.state = x.state
        /\ y.pending = x.pending /\ y.unsized = x.unsized /\ y.pty = x.pty /\ y.rows = x.rows
    BY <1>9 DEF Wrote, SessionType
  <2>2. Recorded(y) /\ Len(y.chan) = Len(x.chan) + 1
    BY <1>9, WroteRecords DEF Good
  <2>3. Len(x.chan) \in Nat
    BY LenProperties DEF SessionType
  <2>4. Len(y.chan) <= CHANNEL_BUFFER_SIZE
    BY <1>9, <2>2, <2>3, Resets
  <2>5. y \in SessionType
    <3>1. Append(x.chan, x.written + 1) \in Seq(Nat) /\ x.written + 1 \in Nat
      BY AppendProperties DEF SessionType
    <3> QED
      BY <1>9, <3>1 DEF Wrote, SessionType
  <2> QED
    BY <2>1, <2>2, <2>4, <2>5 DEF Good
<1>10. CASE x.reader = "alive" /\ y = Lost(x)
  <2>1. /\ y.reader = x.reader /\ y.buffer = x.buffer /\ y.phase = x.phase /\ y.state = x.state
        /\ y.pending = x.pending /\ y.unsized = x.unsized /\ y.pty = x.pty /\ y.rows = x.rows
        /\ y.chan = x.chan
    BY <1>10 DEF Lost, SessionType
  <2>2. Recorded(y)
    BY <1>10, LostRecords DEF Good
  <2>3. y \in SessionType
    <3>1. x.lost \cup {x.written + 1} \in SUBSET Nat /\ x.written + 1 \in Nat
      BY DEF SessionType
    <3> QED
      BY <1>10, <3>1 DEF Lost, SessionType
  <2> QED
    BY <2>1, <2>2, <2>3 DEF Good
<1>11. CASE x.reader = "alive" /\ y = Exited(x)
  <2>1. /\ y.buffer = x.buffer /\ y.phase = x.phase /\ y.state = x.state
        /\ y.pending = x.pending /\ y.unsized = x.unsized /\ y.pty = x.pty /\ y.rows = x.rows
        /\ y.chan = x.chan /\ y.written = x.written /\ y.lost = x.lost /\ y \in SessionType
    BY <1>11 DEF Exited, SessionType
  <2> QED
    BY <1>11, <2>1, RecordedFrame DEF Good
<1> QED
  BY <1>1, <1>2, <1>3, <1>4, <1>5, <1>6, <1>7, <1>8, <1>9, <1>10, <1>11 DEF SessionStep

\* A step that may drop sessions leaves each one as it wants it or drops it.
LEMMA DropUnheldEach ==
  ASSUME NEW f, DropUnheld(f)
  PROVE  /\ session' = [s \in Sessions |-> session'[s]]
         /\ \A s \in Sessions : session'[s] \in {f[s], Dropped}
  BY DEF DropUnheld

Each == /\ session' = [s \in Sessions |-> session'[s]]
        /\ \A s \in Sessions : SessionStep(session[s], session'[s])

\* An action that leaves the sessions alone, or changes one of them.
LEMMA OneSession ==
  ASSUME TypeOK, NEW s \in Sessions, NEW y, session' = [session EXCEPT ![s] = y],
         SessionStep(session[s], y)
  PROVE  Each
  BY DEF TypeOK, Each, SessionStep

LEMMA SameSessions ==
  ASSUME TypeOK, UNCHANGED session
  PROVE  Each
  BY DEF TypeOK, Each, SessionStep

\* Every step of the service does to each session one of the things a session
\* knows.
LEMMA SessionSteps ==
  ASSUME TypeOK, [Next]_vars
  PROVE  Each
<1>1. ASSUME NEW c \in Conns, NEW p \in Asked, Login(c, p) PROVE Each
  BY <1>1 DEF Login, Each, SessionStep, TypeOK
<1>2. ASSUME NEW c \in Conns, NEW id \in Ids, HandleOpen(c, id) PROVE Each
  <2> DEFINE map == Remap(registered, id)
  <2>1. CASE /\ map[id] /= NoSession
             /\ session' = [session EXCEPT ![map[id]] = Reattach(@)]
    BY <2>1 DEF TypeOK, Each, SessionStep
  <2>2. ASSUME NEW s \in Sessions, session[s].state = "unused",
               session' = [session EXCEPT ![s] = NewSession]
        PROVE  Each
    BY <2>2, OneSession DEF SessionStep
  <2> QED
    BY <1>2, <2>1, <2>2 DEF HandleOpen
<1>3. ASSUME NEW c \in Conns, NEW id \in Ids, HandleClose(c, id) PROVE Each
  BY <1>3, DropUnheldEach DEF HandleClose, Each, SessionStep
<1>4. ASSUME NEW c \in Conns, NEW id \in Ids, NEW rows \in Rows, HandleResize(c, id, rows) PROVE Each
  <2>1. PICK ok \in BOOLEAN :
          session' = [session EXCEPT ![service[registered].sessions[id]] =
                        Resized(session[service[registered].sessions[id]], rows, ok)]
    BY <1>4 DEF HandleResize
  <2>2. service[registered].sessions[id] \in Sessions
    BY <1>4 DEF HandleResize, HasOpen, TypeOK
  <2> QED
    BY <2>1, <2>2, OneSession DEF SessionStep
<1>5. ASSUME NEW c \in Conns, SetPersistent(c) \/ Disconnect(c) PROVE Each
  BY <1>5, SameSessions DEF SetPersistent, Disconnect
<1>6. ASSUME NEW c \in Conns, RunEnters(c) \/ RunNeverEnters(c) \/ ReadOutputs(c) \/ RunEnds(c) PROVE Each
  BY <1>6, SameSessions DEF RunEnters, RunNeverEnters, ReadOutputs, RunEnds
<1>7. ASSUME NEW c \in Conns, SendResponses(c) PROVE Each
  BY <1>7, DropUnheldEach DEF SendResponses, Each, SessionStep
<1>8. ASSUME NEW c \in Conns, NEW id \in Ids, NEW s \in Sessions, ReadSession(c, id, s) PROVE Each
  <2>1. PICK ok \in BOOLEAN : DropUnheld([session EXCEPT ![s] = Read(session[s], ok)])
    BY <1>8 DEF ReadSession, Read
  <2> DEFINE f == [session EXCEPT ![s] = Read(session[s], ok)]
  <2>2. \A r \in Sessions : f[r] = IF r = s THEN Read(session[s], ok) ELSE session[r]
    BY DEF TypeOK
  <2> HIDE DEF f
  <2>3. /\ session' = [r \in Sessions |-> session'[r]]
        /\ \A r \in Sessions : session'[r] \in {f[r], Dropped}
    BY <2>1, DropUnheldEach DEF f
  <2> QED
    BY <2>2, <2>3 DEF Each, SessionStep
<1>9. ASSUME NEW c \in Conns, NEW id \in Ids, NEW s \in Sessions, SkipSession(c, id, s) PROVE Each
  BY <1>9, DropUnheldEach DEF SkipSession, Each, SessionStep
<1>10. ASSUME RemoveService PROVE Each
  <2> DEFINE f == [s \in Sessions |->
          IF registered /= None /\ \E id \in Ids : service[registered].sessions[id] = s
          THEN Stop(session[s]) ELSE session[s]]
  <2>1. /\ session' = [r \in Sessions |-> session'[r]]
        /\ \A r \in Sessions : session'[r] \in {f[r], Dropped}
    BY <1>10, DropUnheldEach DEF RemoveService
  <2>2. \A r \in Sessions : f[r] \in {session[r], Stop(session[r])}
    OBVIOUS
  <2> HIDE DEF f
  <2> QED
    BY <2>1, <2>2 DEF Each, SessionStep
<1>11. ASSUME NEW c \in Conns, RunRemoves(c) PROVE Each
  BY <1>10, <1>11 DEF RunRemoves
<1>12. CASE CleanupChooses
  BY <1>12, SameSessions DEF CleanupChooses
<1>13. CASE CleanupRemoves
  BY <1>10, <1>13 DEF CleanupRemoves
<1>14. ASSUME NEW s \in Sessions, ShellWrites(s) PROVE Each
  <2>1. CASE /\ Len(session[s].chan) < CHANNEL_BUFFER_SIZE
             /\ session' = [session EXCEPT ![s] = Wrote(session[s])]
    BY <1>14, <2>1, OneSession DEF ShellWrites, SessionStep
  <2>2. CASE session' = [session EXCEPT ![s] = Lost(session[s])]
    BY <1>14, <2>2, OneSession DEF ShellWrites, SessionStep
  <2> QED
    BY <1>14, <2>1, <2>2 DEF ShellWrites
<1>15. ASSUME NEW s \in Sessions, ShellExits(s) PROVE Each
  <2>1. session' = [session EXCEPT ![s] = Exited(session[s])]
    BY <1>15 DEF ShellExits, Exited, TypeOK
  <2> QED
    BY <1>15, <2>1, OneSession DEF ShellExits, SessionStep
<1>16. CASE UNCHANGED vars
  BY <1>16, SameSessions DEF vars
<1> QED
  BY <1>1, <1>2, <1>3, <1>4, <1>5, <1>6, <1>7, <1>8, <1>9, <1>11, <1>12, <1>13, <1>14, <1>15, <1>16
     DEF Next, ConnTask, RunThread

\* The sessions keep their types and what is known of them.
LEMMA SessionsStep ==
  ASSUME TypeOK, AllGood, [Next]_vars
  PROVE  session' \in [Sessions -> SessionType] /\ AllGood'
<1>1. \A s \in Sessions : session'[s] \in SessionType /\ Good(session'[s])
  BY SessionSteps, GoodStep DEF Each, TypeOK, AllGood
<1> QED
  BY <1>1, SessionSteps DEF Each, AllGood

\* The types of all but the sessions.
ServiceType == [persistent : BOOLEAN, sync : BOOLEAN, sessions : [Ids -> Sessions \cup {NoSession}]]
TypeRest ==
    /\ registered \in Conns \cup {None} /\ service \in [Conns -> ServiceType]
    /\ conn \in [Conns -> {"out", "in", "dropped"}] /\ run \in [Conns -> RunType]
    /\ cleanup \in BOOLEAN /\ screen \in [Conns -> ScreenType] /\ changes \in 0 .. MaxChanges

\* What the lowest id's session becomes of the map when an id takes it over.
LEMMA RemapCases ==
  ASSUME TypeOK, NEW k \in Conns, NEW id \in Ids
  PROVE  /\ Remap(k, id) \in [Ids -> Sessions \cup {NoSession}]
         /\ \/ Remap(k, id) = service[k].sessions
            \/ /\ service[k].sync /\ service[k].sessions[id] = NoSession
               /\ \E low \in Mapped(k) :
                    Remap(k, id) = [service[k].sessions EXCEPT ![low] = NoSession,
                                                               ![id] = service[k].sessions[low]]
<1> DEFINE m == service[k].sessions
           lowest == CHOOSE i \in Mapped(k) : \A j \in Mapped(k) : i <= j
<1>1. m \in [Ids -> Sessions \cup {NoSession}]
  BY DEF TypeOK
<1>2. Mapped(k) \in SUBSET Nat /\ Mapped(k) \subseteq Ids
  BY TerminalAssumption DEF Mapped
<1>3. CASE m[id] = NoSession /\ service[k].sync /\ Mapped(k) # {}
  <2>1. \E i \in Mapped(k) : \A j \in Mapped(k) : i <= j
    BY <1>2, <1>3, LowestExists
  <2>2. lowest \in Mapped(k)
    BY <2>1
  <2> HIDE DEF lowest
  <2>3. Remap(k, id) = [m EXCEPT ![lowest] = NoSession, ![id] = m[lowest]]
    BY <1>3 DEF Remap, lowest
  <2>4. [m EXCEPT ![lowest] = NoSession, ![id] = m[lowest]] \in [Ids -> Sessions \cup {NoSession}]
    BY <1>1, <1>2, <2>2
  <2> QED
    BY <1>3, <2>2, <2>3, <2>4
<1>4. CASE ~(m[id] = NoSession /\ service[k].sync /\ Mapped(k) # {})
  <2>1. Remap(k, id) = m
    BY <1>4 DEF Remap
  <2> QED
    BY <1>1, <2>1
<1> QED
  BY <1>3, <1>4

\* A screen that the client opens has its type.
LEMMA OpenedType ==
  ASSUME TypeOK, NEW c \in Conns, NEW id \in Ids, NEW s \in Sessions, NEW from \in Nat,
         NEW dead \in BOOLEAN, Opened(c, id, s, from, dead)
  PROVE  screen' \in [Conns -> ScreenType]
<1> DEFINE v == [session |-> s, shown |-> <<>>, closed |-> FALSE, alone |-> Alone(c, id, s),
                 from |-> IF Alone(c, id, s) THEN from ELSE 1, dead |-> dead]
<1>1. Alone(c, id, s) \in BOOLEAN
  BY DEF Alone
<1>2. (IF Alone(c, id, s) THEN from ELSE 1) \in Nat
  OBVIOUS
<1>3. v \in [session : Sessions \cup {NoSession}, shown : Seq(Nat), closed : BOOLEAN,
             alone : BOOLEAN, from : Nat, dead : BOOLEAN]
  BY <1>1, <1>2, Resets
<1>4. screen' = [screen EXCEPT ![c][id] = v]
  BY DEF Opened
<1> HIDE DEF v
<1> QED
  BY <1>3, <1>4 DEF TypeOK, ScreenType

\* The empty values of the threads, the services and the screens are typed.
LEMMA Empties ==
  /\ NoOutput \in [Ids -> Seq(Nat)] /\ NoService \in ServiceType /\ NoScreen \in ScreenType
  /\ {} \in SUBSET (Ids \X Sessions) /\ {} \in SUBSET Ids
<1>1. NoOutput \in [Ids -> Seq(Nat)]
  BY Resets DEF NoOutput
<1>2. NoService \in ServiceType
  BY DEF NoService, ServiceType
<1>3. NoScreen \in ScreenType
  <2>1. [session |-> NoSession, shown |-> <<>>, closed |-> FALSE, alone |-> FALSE, from |-> 1, dead |-> FALSE]
          \in [session : Sessions \cup {NoSession}, shown : Seq(Nat), closed : BOOLEAN,
               alone : BOOLEAN, from : Nat, dead : BOOLEAN]
    BY Resets
  <2> QED
    BY <2>1 DEF NoScreen, ScreenType
<1> QED
  BY <1>1, <1>2, <1>3

\* What the steps of a run thread make of its record.
LEMMA RunTypes ==
  ASSUME NEW x \in RunType
  PROVE  /\ \A pc \in {"none", "wait", "loop", "read", "remove", "dead"} : [x EXCEPT !.pc = pc] \in RunType
         /\ [x EXCEPT !.pc = "loop", !.entered = TRUE] \in RunType
         /\ \A k \in Conns, p \in BOOLEAN, t \in SUBSET (Ids \X Sessions) :
               [x EXCEPT !.pc = "read", !.service = k, !.persistent = p, !.todo = t] \in RunType
         /\ [x EXCEPT !.pc = "loop", !.service = None, !.out = NoOutput, !.closed = {},
                      !.persistent = FALSE] \in RunType
         /\ \A t : [x EXCEPT !.todo = @ \ {t}] \in RunType
         /\ \A t, q, id, e : q \in Seq(Nat) /\ id \in Ids =>
               [x EXCEPT !.todo = @ \ {t}, !.out[id] = q,
                         !.closed = IF e THEN @ \cup {id} ELSE @] \in RunType
<1>1. \A pc \in {"none", "wait", "loop", "read", "remove", "dead"} : [x EXCEPT !.pc = pc] \in RunType
  BY DEF RunType
<1>2. [x EXCEPT !.pc = "loop", !.entered = TRUE] \in RunType
  BY DEF RunType
<1>3. ASSUME NEW k \in Conns, NEW p \in BOOLEAN, NEW t \in SUBSET (Ids \X Sessions)
      PROVE  [x EXCEPT !.pc = "read", !.service = k, !.persistent = p, !.todo = t] \in RunType
  BY DEF RunType
<1>4. [x EXCEPT !.pc = "loop", !.service = None, !.out = NoOutput, !.closed = {},
                !.persistent = FALSE] \in RunType
  BY Empties DEF RunType
<1>5. ASSUME NEW t PROVE [x EXCEPT !.todo = @ \ {t}] \in RunType
  BY DEF RunType
<1>6. ASSUME NEW t, NEW q \in Seq(Nat), NEW id \in Ids, NEW e
      PROVE  [x EXCEPT !.todo = @ \ {t}, !.out[id] = q,
                       !.closed = IF e THEN @ \cup {id} ELSE @] \in RunType
  BY DEF RunType
<1> QED
  BY <1>1, <1>2, <1>3, <1>4, <1>5, <1>6

\* Every step keeps the types of all but the sessions.
LEMMA RestStep ==
  ASSUME TypeOK, AllGood, [Next]_vars
  PROVE  TypeRest'
<1> USE DEF TypeRest
<1>0. TypeRest
  BY DEF TypeOK, ServiceType
<1>1. ASSUME NEW c \in Conns, NEW p \in Asked, Login(c, p) PROVE TypeRest'
  <2> DEFINE k == IF registered = None THEN c ELSE registered
  <2>1. k \in Conns /\ p \in BOOLEAN
    BY <1>0, TerminalAssumption
  <2> HIDE DEF k
  <2>2. registered' = k /\ service' = [service EXCEPT ![k].persistent = p, ![k].sync = TRUE]
    BY <1>1 DEF Login, k
  <2>3. service' \in [Conns -> ServiceType]
    BY <1>0, <2>1, <2>2, ZenonT(30) DEF ServiceType
  <2>4. run' \in [Conns -> RunType] /\ conn' \in [Conns -> {"out", "in", "dropped"}]
    <3>1. run' = [run EXCEPT ![c] = [run[c] EXCEPT !.pc = "wait"]]
      BY <1>0, <1>1 DEF Login
    <3>2. [run[c] EXCEPT !.pc = "wait"] \in RunType
      BY <1>0, RunTypes
    <3>3. conn' = [conn EXCEPT ![c] = "in"]
      BY <1>1 DEF Login
    <3> QED
      BY <1>0, <3>1, <3>2, <3>3
  <2>5. screen' \in [Conns -> ScreenType]
    <3>1. \A d \in Conns, id \in Ids :
             [screen[d][id] EXCEPT !.alone = FALSE, !.shown = <<>>, !.from = 1]
                \in [session : Sessions \cup {NoSession}, shown : Seq(Nat), closed : BOOLEAN,
                     alone : BOOLEAN, from : Nat, dead : BOOLEAN]
      <4> TAKE d \in Conns, id \in Ids
      <4>1. screen[d][id] \in [session : Sessions \cup {NoSession}, shown : Seq(Nat), closed : BOOLEAN,
              alone : BOOLEAN, from : Nat, dead : BOOLEAN]
        BY <1>0 DEF ScreenType
      <4> QED
        BY <4>1, Resets
    <3> QED
      BY <1>1, <3>1 DEF Login, ScreenType
  <2> QED
    BY <1>0, <1>1, <2>1, <2>2, <2>3, <2>4, <2>5 DEF Login
<1>2. ASSUME NEW c \in Conns, NEW id \in Ids, HandleOpen(c, id) PROVE TypeRest'
  <2> DEFINE k == registered
             map == Remap(k, id)
  <2>1. k \in Conns /\ UNCHANGED <<registered, conn, run, cleanup, changes>>
    BY <1>0, <1>2 DEF HandleOpen
  <2>2. map \in [Ids -> Sessions \cup {NoSession}]
    BY <2>1, RemapCases
  <2>3. CASE /\ map[id] /= NoSession
             /\ service' = [service EXCEPT ![k].sessions = map, ![k].sync = FALSE]
             /\ Opened(c, id, map[id],
                       IF session[map[id]].buffer = <<>> THEN 1
                       ELSE LastN(session[map[id]].buffer, ReconnectChunks)[1],
                       session[map[id]].told)
    <3> HIDE DEF map
    <3>1. service' \in [Conns -> ServiceType]
      BY <1>0, <2>1, <2>2, <2>3, ZenonT(30) DEF ServiceType
    <3> DEFINE x == session[map[id]]
               from == IF x.buffer = <<>> THEN 1 ELSE LastN(x.buffer, ReconnectChunks)[1]
    <3>2. map[id] \in Sessions /\ x \in SessionType
      BY <2>2, <2>3 DEF TypeOK
    <3>3. x.told \in BOOLEAN /\ x.buffer \in Seq(Nat)
      BY <3>2 DEF SessionType
    <3>4. from \in Nat
      <4>1. CASE x.buffer # <<>>
        <5>1. Len(x.buffer) \in Nat /\ Len(x.buffer) >= 1
          BY <3>3, <4>1, NotEmpty
        <5> DEFINE q == LastN(x.buffer, ReconnectChunks)
        <5>2. q \in Seq(Nat) /\ \E j \in 0 .. Len(x.buffer) :
                /\ Len(q) = Len(x.buffer) - j /\ (Len(x.buffer) # 0 => j # Len(x.buffer))
          BY <3>3, LastNProperties, Resets, ZenonT(30)
        <5> HIDE DEF q
        <5>3. 1 \in 1 .. Len(q)
          BY <5>1, <5>2
        <5>4. q[1] \in Nat
          BY <5>2, <5>3, ElementOfSeq
        <5> QED
          BY <4>1, <5>4 DEF q
      <4> QED
        BY <4>1
    <3>5. Opened(c, id, map[id], from, x.told)
      BY <2>3
    <3> HIDE DEF from, x
    <3>6. screen' \in [Conns -> ScreenType]
      BY <3>2, <3>3, <3>4, <3>5, OpenedType
    <3> QED
      BY <1>0, <2>1, <3>1, <3>6
  <2>4. ASSUME NEW s \in Sessions, Opened(c, id, s, 1, FALSE),
               service' = [service EXCEPT ![k].sessions[id] = s, ![k].sync = FALSE]
        PROVE  TypeRest'
    <3>1. service' \in [Conns -> ServiceType]
      BY <1>0, <2>1, <2>4, ZenonT(30) DEF ServiceType
    <3>2. screen' \in [Conns -> ScreenType]
      BY <2>4, OpenedType
    <3> QED
      BY <1>0, <2>1, <3>1, <3>2
  <2> QED
    BY <1>2, <2>3, <2>4 DEF HandleOpen
<1>3. ASSUME NEW c \in Conns, NEW id \in Ids, HandleClose(c, id) PROVE TypeRest'
  <2>1. registered \in Conns /\ UNCHANGED <<registered, conn, run, cleanup, changes>>
    BY <1>0, <1>3 DEF HandleClose, HasOpen
  <2>2. service' \in [Conns -> ServiceType]
    BY <1>0, <1>3, <2>1 DEF HandleClose, ServiceType
  <2>3. screen' \in [Conns -> ScreenType]
    <3>1. screen[c][id] \in [session : Sessions \cup {NoSession}, shown : Seq(Nat), closed : BOOLEAN,
            alone : BOOLEAN, from : Nat, dead : BOOLEAN]
      BY <1>0 DEF ScreenType
    <3>2. [screen[c][id] EXCEPT !.closed = TRUE] \in
            [session : Sessions \cup {NoSession}, shown : Seq(Nat), closed : BOOLEAN,
             alone : BOOLEAN, from : Nat, dead : BOOLEAN]
      BY <3>1
    <3>3. screen' = [screen EXCEPT ![c][id] = [screen[c][id] EXCEPT !.closed = TRUE]]
      BY <1>0, <1>3 DEF HandleClose, ScreenType
    <3> QED
      BY <1>0, <3>2, <3>3 DEF ScreenType
  <2> QED
    BY <1>0, <2>1, <2>2, <2>3
<1>4. ASSUME NEW c \in Conns, NEW id \in Ids, NEW rows \in Rows, HandleResize(c, id, rows) PROVE TypeRest'
  BY <1>0, <1>4, TerminalAssumption DEF HandleResize
<1>5. ASSUME NEW c \in Conns, SetPersistent(c) PROVE TypeRest'
  <2>1. registered \in Conns
    BY <1>0, <1>5 DEF SetPersistent
  <2>2. service' \in [Conns -> ServiceType]
    BY <1>0, <1>5, <2>1 DEF SetPersistent, ServiceType
  <2> QED
    BY <1>0, <1>5, <2>2, TerminalAssumption DEF SetPersistent
<1>6. ASSUME NEW c \in Conns, Disconnect(c) PROVE TypeRest'
  BY <1>0, <1>6, Empties DEF Disconnect
<1>7. ASSUME NEW c \in Conns, RunEnters(c) \/ RunNeverEnters(c) \/ RunEnds(c) PROVE TypeRest'
  <2>1. run' \in [Conns -> RunType]
    <3>1. CASE RunEnters(c)
      <4>1. run' = [run EXCEPT ![c] = [run[c] EXCEPT !.pc = "loop", !.entered = TRUE]]
        BY <1>0, <3>1 DEF RunEnters
      <4> QED
        BY <1>0, <4>1, RunTypes
    <3>2. CASE RunNeverEnters(c) \/ RunEnds(c)
      <4>1. PICK pc \in {"remove", "dead"} : run' = [run EXCEPT ![c] = [run[c] EXCEPT !.pc = pc]]
        BY <1>0, <3>2 DEF RunNeverEnters, RunEnds
      <4>2. [run[c] EXCEPT !.pc = pc] \in RunType
        BY <1>0, RunTypes
      <4> QED
        BY <1>0, <4>1, <4>2
    <3> QED
      BY <1>7, <3>1, <3>2
  <2> QED
    BY <1>0, <1>7, <2>1 DEF RunEnters, RunNeverEnters, RunEnds
<1>8. ASSUME NEW c \in Conns, ReadOutputs(c) PROVE TypeRest'
  <2> DEFINE todo == {<<id, service[registered].sessions[id]>> : id \in Mapped(registered)}
  <2>1. registered \in Conns /\ service[registered].persistent \in BOOLEAN
    BY <1>0, <1>8 DEF ReadOutputs, ServiceType
  <2>2. todo \in SUBSET (Ids \X Sessions)
    BY <1>0, <2>1 DEF Mapped, ServiceType
  <2> HIDE DEF todo
  <2>3. run' = [run EXCEPT ![c] = [run[c] EXCEPT !.pc = "read", !.service = registered,
                                     !.persistent = service[registered].persistent, !.todo = todo]]
    BY <1>8 DEF ReadOutputs, todo
  <2>4. run' \in [Conns -> RunType]
    BY <1>0, <2>1, <2>2, <2>3, RunTypes
  <2> QED
    BY <1>0, <1>8, <2>4 DEF ReadOutputs
<1>9. ASSUME NEW c \in Conns, SendResponses(c) PROVE TypeRest'
  <2>1. service' \in [Conns -> ServiceType]
    BY <1>0, <1>9, ZenonT(30) DEF SendResponses, ServiceType
  <2>2. run' \in [Conns -> RunType]
    BY <1>0, <1>9, RunTypes DEF SendResponses
  <2>3. screen' \in [Conns -> ScreenType]
    <3>1. \A id \in Ids : Receive(screen[c][id], id, run[c]) \in
             [session : Sessions \cup {NoSession}, shown : Seq(Nat), closed : BOOLEAN,
              alone : BOOLEAN, from : Nat, dead : BOOLEAN]
      <4> TAKE id \in Ids
      <4>1. screen[c][id] \in [session : Sessions \cup {NoSession}, shown : Seq(Nat), closed : BOOLEAN,
              alone : BOOLEAN, from : Nat, dead : BOOLEAN]
        BY <1>0 DEF ScreenType
      <4>2. run[c].out[id] \in Seq(Nat)
        BY <1>0 DEF RunType
      <4>3. screen[c][id].shown \o run[c].out[id] \in Seq(Nat)
        BY <4>1, <4>2, ConcatProperties
      <4> QED
        BY <4>1, <4>3 DEF Receive
    <3> QED
      BY <1>0, <1>9, <3>1 DEF SendResponses, ScreenType
  <2> QED
    BY <1>0, <1>9, <2>1, <2>2, <2>3 DEF SendResponses
<1>10. ASSUME NEW c \in Conns, NEW id \in Ids, NEW s \in Sessions, ReadSession(c, id, s) PROVE TypeRest'
  <2>1. Shown(session[s]) \in Seq(Nat)
    <3>1. session[s].pending \in Seq(Nat) /\ session[s].chan \in Seq(Nat)
      BY DEF TypeOK, SessionType
    <3> QED
      BY <3>1, ConcatProperties, Resets DEF Shown
  <2>2. run[c].out[id] \o Shown(session[s]) \in Seq(Nat)
    BY <1>0, <2>1, ConcatProperties DEF RunType
  <2>3. run' \in [Conns -> RunType]
    <3> DEFINE r == [run[c] EXCEPT !.todo = @ \ {<<id, s>>}, !.out[id] = run[c].out[id] \o Shown(session[s]),
                                   !.closed = IF Ends(session[s]) THEN @ \cup {id} ELSE @]
    <3>1. r \in RunType
      BY <1>0, <2>2, RunTypes
    <3>2. run' = [run EXCEPT ![c] = r]
      BY <1>0, <1>10 DEF ReadSession
    <3> HIDE DEF r
    <3> QED
      BY <1>0, <3>1, <3>2
  <2>4. changes' \in 0 .. MaxChanges
    BY <1>0, <1>10, TerminalAssumption DEF ReadSession
  <2> QED
    BY <1>0, <1>10, <2>3, <2>4 DEF ReadSession
<1>11. ASSUME NEW c \in Conns, NEW id \in Ids, NEW s \in Sessions, SkipSession(c, id, s) PROVE TypeRest'
  <2>1. run' \in [Conns -> RunType]
    <3>1. run' = [run EXCEPT ![c] = [run[c] EXCEPT !.todo = @ \ {<<id, s>>}]]
      BY <1>0, <1>11 DEF SkipSession
    <3> QED
      BY <1>0, <3>1, RunTypes
  <2> QED
    BY <1>0, <1>11, <2>1 DEF SkipSession
<1>12. ASSUME RemoveService PROVE registered' = None /\ service' \in [Conns -> ServiceType]
  BY <1>0, <1>12, Empties DEF RemoveService
<1>13. ASSUME NEW c \in Conns, RunRemoves(c) PROVE TypeRest'
  <2>1. run' \in [Conns -> RunType]
    <3>1. run' = [run EXCEPT ![c] = [run[c] EXCEPT !.pc = "dead"]]
      BY <1>0, <1>13 DEF RunRemoves
    <3> QED
      BY <1>0, <3>1, RunTypes
  <2> QED
    BY <1>0, <1>12, <1>13, <2>1 DEF RunRemoves
<1>14. CASE CleanupChooses
  BY <1>0, <1>14, TerminalAssumption DEF CleanupChooses
<1>15. CASE CleanupRemoves
  BY <1>0, <1>12, <1>15 DEF CleanupRemoves
<1>16. ASSUME NEW s \in Sessions, ShellWrites(s) \/ ShellExits(s) PROVE TypeRest'
  BY <1>0, <1>16 DEF ShellWrites, ShellExits
<1>17. CASE UNCHANGED vars
  BY <1>0, <1>17 DEF vars
<1> QED
  BY <1>1, <1>2, <1>3, <1>4, <1>5, <1>6, <1>7, <1>8, <1>9, <1>10, <1>11, <1>13, <1>14, <1>15, <1>16, <1>17
     DEF Next, ConnTask, RunThread

\* Every step keeps the types.
LEMMA TypeStep ==
  ASSUME TypeOK, AllGood, [Next]_vars
  PROVE  TypeOK' /\ AllGood'
  BY RestStep, SessionsStep DEF TypeOK, TypeRest, ServiceType, AllGood, Good

\* The initial state.
LEMMA InitIInv == ASSUME Init PROVE IInv
<1> USE DEF Init
<1>1. TypeOK
  <2>1. service \in [Conns -> ServiceType] /\ screen \in [Conns -> ScreenType]
    BY Empties
  <2>2. session \in [Sessions -> SessionType]
    <3>1. Unused \in SessionType
      BY Resets DEF SessionType, Unused
    <3> QED
      BY <3>1
  <2>3. run \in [Conns -> RunType]
    <3> DEFINE r == [pc |-> "none", service |-> None, persistent |-> FALSE,
                     todo |-> {}, out |-> NoOutput, closed |-> {}, entered |-> FALSE]
    <3>1. r \in RunType
      BY Empties DEF RunType
    <3> HIDE DEF r
    <3>2. run = [c \in Conns |-> r]
      BY DEF r
    <3> QED
      BY <3>1, <3>2
  <2>4. \A s \in Sessions : /\ Len(session[s].chan) <= CHANNEL_BUFFER_SIZE
                            /\ Len(session[s].buffer) <= MAX_BUFFER_LINES
    BY Resets DEF Unused
  <2>5. changes \in 0 .. MaxChanges /\ conn \in [Conns -> {"out", "in", "dropped"}]
    BY TerminalAssumption
  <2> QED
    BY <2>1, <2>2, <2>3, <2>4, <2>5 DEF TypeOK, ServiceType
<1>2. Threads
  BY DEF Threads, NoScreen
<1>3. Unborn
  BY NoneAssumption DEF Unborn, Named
<1>4. Watched
  BY DEF Watched
<1>5. SessionOwned
  BY Resets DEF SessionOwned, Held, NoService, Unused, Mapped
<1>6. AllGood
  <2>1. Good(Unused)
    BY Resets DEF Good, Unused, Recorded
  <2> QED
    BY <2>1 DEF AllGood
<1>7. LoneInv /\ LiveInv /\ FlowInv
  BY DEF LoneInv, LiveInv, FlowInv, Live, Lone, NoScreen
<1> QED
  BY <1>1, <1>2, <1>3, <1>4, <1>5, <1>6, <1>7 DEF IInv

\* What the steps of a run thread leave of its fields.
LEMMA PcFields ==
  ASSUME run \in [Conns -> RunType], NEW c \in Conns, NEW pc, run' = [run EXCEPT ![c].pc = pc]
  PROVE  /\ \A d \in Conns : d # c => run'[d] = run[d]
         /\ run'[c] = [run[c] EXCEPT !.pc = pc]
         /\ run'[c].pc = pc /\ run'[c].service = run[c].service
         /\ run'[c].todo = run[c].todo /\ run'[c].out = run[c].out
         /\ run'[c].closed = run[c].closed /\ run'[c].entered = run[c].entered
  BY DEF RunType

LEMMA EnterFields ==
  ASSUME run \in [Conns -> RunType], NEW c \in Conns, RunEnters(c)
  PROVE  /\ \A d \in Conns : d # c => run'[d] = run[d]
         /\ run'[c].pc = "loop" /\ run'[c].service = run[c].service
         /\ run'[c].todo = run[c].todo /\ run'[c].out = run[c].out
         /\ run'[c].closed = run[c].closed /\ run'[c].entered
  BY DEF RunType, RunEnters

LEMMA SkipFields ==
  ASSUME run \in [Conns -> RunType], NEW c \in Conns, NEW id \in Ids, NEW s \in Sessions,
         SkipSession(c, id, s)
  PROVE  /\ \A d \in Conns : d # c => run'[d] = run[d]
         /\ run'[c].pc = "read" /\ run'[c].service = run[c].service
         /\ run'[c].todo = run[c].todo \ {<<id, s>>} /\ run'[c].out = run[c].out
         /\ run'[c].closed = run[c].closed /\ run'[c].entered = run[c].entered
<1>1. run' = [run EXCEPT ![c].todo = run[c].todo \ {<<id, s>>}] /\ run[c].pc = "read"
  BY DEF SkipSession
<1> QED
  BY <1>1 DEF RunType

\* The concatenation of two sequences, as a name the proofs may leave closed.
Join(q, r) == q \o r

LEMMA ReadFields ==
  ASSUME run \in [Conns -> RunType], NEW c \in Conns, NEW id \in Ids, NEW s \in Sessions,
         ReadSession(c, id, s)
  PROVE  /\ \A d \in Conns : d # c => run'[d] = run[d]
         /\ run'[c].pc = "read" /\ run'[c].service = run[c].service
         /\ run'[c].todo = run[c].todo \ {<<id, s>>}
         /\ run'[c].closed = IF Ends(session[s]) THEN run[c].closed \cup {id} ELSE run[c].closed
         /\ run'[c].entered = run[c].entered
<1> DEFINE o == run[c].out[id] \o Shown(session[s])
           k == IF Ends(session[s]) THEN run[c].closed \cup {id} ELSE run[c].closed
<1>1. /\ run[c].pc = "read"
      /\ run' = [run EXCEPT ![c].todo = run[c].todo \ {<<id, s>>}, ![c].out[id] = o, ![c].closed = k]
  BY DEF ReadSession
<1> HIDE DEF o, k
<1>2. /\ run'[c].closed = k
      /\ run'[c].pc = "read" /\ run'[c].service = run[c].service
      /\ run'[c].todo = run[c].todo \ {<<id, s>>}
      /\ run'[c].entered = run[c].entered
      /\ \A d \in Conns : d # c => run'[d] = run[d]
  BY <1>1 DEF RunType
<1> QED
  BY <1>2 DEF k

LEMMA ReadOut ==
  ASSUME run \in [Conns -> RunType], NEW c \in Conns, NEW id \in Ids, NEW s \in Sessions,
         ReadSession(c, id, s)
  PROVE  /\ run'[c].out[id] = Join(run[c].out[id], Shown(session[s]))
         /\ \A j \in Ids \ {id} : run'[c].out[j] = run[c].out[j]
<1> DEFINE o == Join(run[c].out[id], Shown(session[s]))
<1>1. \E t, k : run' = [run EXCEPT ![c].todo = t, ![c].out[id] = o, ![c].closed = k]
  BY DEF ReadSession, Join
<1> HIDE DEF o
<1>2. run'[c].out = [run[c].out EXCEPT ![id] = o]
  BY <1>1 DEF RunType
<1>3. run'[c].out[id] = o /\ \A j \in Ids \ {id} : run'[c].out[j] = run[c].out[j]
  BY <1>2 DEF RunType
<1> QED
  BY <1>3 DEF o

LEMMA LoginScreens ==
  ASSUME screen \in [Conns -> ScreenType], NEW c \in Conns, NEW p, Login(c, p)
  PROVE  \A d \in Conns, id \in Ids : /\ screen'[d][id].session = screen[d][id].session
                                      /\ screen'[d][id].alone = FALSE
<1> TAKE d \in Conns, id \in Ids
<1>1. screen'[d][id] = [screen[d][id] EXCEPT !.alone = FALSE, !.shown = <<>>, !.from = 1]
  BY DEF Login
<1>2. screen[d][id] \in [session : Sessions \cup {NoSession}, shown : Seq(Nat), closed : BOOLEAN,
                         alone : BOOLEAN, from : Nat, dead : BOOLEAN]
  BY DEF ScreenType
<1> QED
  BY <1>1, <1>2

\* Every step keeps a thread and its connection in step.
LEMMA ThreadsStep ==
  ASSUME TypeOK, Threads, [Next]_vars
  PROVE  Threads'
<1>0. /\ conn \in [Conns -> {"out", "in", "dropped"}] /\ run \in [Conns -> RunType]
      /\ screen \in [Conns -> ScreenType] /\ registered \in Conns \cup {None}
  BY DEF TypeOK
<1>1. ASSUME NEW c \in Conns, NEW p \in Asked, Login(c, p) PROVE Threads'
  <2>1. /\ \A d \in Conns : d # c => run'[d] = run[d] /\ conn'[d] = conn[d]
        /\ run'[c].pc = "wait" /\ run'[c].service = run[c].service
        /\ run'[c].todo = run[c].todo /\ run'[c].out = run[c].out
        /\ run'[c].closed = run[c].closed /\ run'[c].entered = run[c].entered
        /\ conn'[c] = "in" /\ conn[c] = "out"
    BY <1>0, <1>1, PcFields DEF Login
  <2>2. \A d \in Conns, id \in Ids : screen'[d][id].session = screen[d][id].session
    BY <1>0, <1>1, LoginScreens
  <2> QED
    BY <2>1, <2>2 DEF Threads
<1>2. ASSUME NEW c \in Conns, NEW id \in Ids, HandleOpen(c, id) PROVE Threads'
  <2>1. conn[c] = "in" /\ UNCHANGED <<conn, run>>
    BY <1>2 DEF HandleOpen
  <2>2. \A d \in Conns : d # c => screen'[d] = screen[d]
    BY <1>0, <1>2 DEF HandleOpen, Opened
  <2> QED
    BY <2>1, <2>2 DEF Threads
<1>3. ASSUME NEW c \in Conns, NEW id \in Ids, HandleClose(c, id) PROVE Threads'
  <2>1. conn[c] = "in" /\ UNCHANGED <<conn, run>>
    BY <1>3 DEF HandleClose, HasOpen
  <2>2. \A d \in Conns : d # c => screen'[d] = screen[d]
    BY <1>0, <1>3 DEF HandleClose
  <2> QED
    BY <2>1, <2>2 DEF Threads
<1>4. ASSUME UNCHANGED <<conn, run, screen>> PROVE Threads'
  BY <1>4 DEF Threads
<1>5. ASSUME NEW c \in Conns, Disconnect(c) PROVE Threads'
  BY <1>0, <1>5 DEF Disconnect, Threads, NoScreen
<1>6. ASSUME NEW c \in Conns, RunEnters(c) \/ RunNeverEnters(c) \/ RunEnds(c) PROVE Threads'
  <2>1. CASE RunEnters(c)
    <3>1. /\ \A d \in Conns : d # c => run'[d] = run[d]
          /\ run'[c].pc = "loop" /\ run'[c].service = run[c].service
          /\ run'[c].todo = run[c].todo /\ run'[c].out = run[c].out
          /\ run'[c].closed = run[c].closed
      BY <1>0, <2>1, EnterFields
    <3>2. UNCHANGED <<conn, screen>> /\ run[c].pc = "wait"
      BY <2>1 DEF RunEnters
    <3> QED
      BY <3>1, <3>2 DEF Threads
  <2>2. CASE RunNeverEnters(c)
    BY <1>0, <2>2, PcFields DEF RunNeverEnters, Threads
  <2>3. CASE RunEnds(c)
    <3>1. PICK pc \in {"remove", "dead"} : run' = [run EXCEPT ![c].pc = pc]
      BY <2>3 DEF RunEnds
    <3> QED
      BY <1>0, <2>3, <3>1, PcFields DEF RunEnds, Threads
  <2> QED
    BY <1>6, <2>1, <2>2, <2>3
<1>7. ASSUME NEW c \in Conns, ReadOutputs(c) PROVE Threads'
  BY <1>0, <1>7 DEF ReadOutputs, Threads, RunType
<1>8. ASSUME NEW c \in Conns, SendResponses(c) PROVE Threads'
  <2>1. UNCHANGED conn /\ run[c].pc = "read"
    BY <1>8 DEF SendResponses
  <2>2. /\ run'[c].pc = "loop" /\ run'[c].service = None /\ run'[c].todo = {}
        /\ run'[c].closed = {} /\ run'[c].out = NoOutput /\ run'[c].entered = run[c].entered
        /\ \A d \in Conns : d # c => run'[d] = run[d]
    BY <1>0, <1>8 DEF SendResponses, RunType
  <2>3. \A d \in Conns : conn[d] # "in" => screen'[d] = screen[d]
    BY <1>0, <1>8 DEF SendResponses
  <2> QED
    BY <2>1, <2>2, <2>3 DEF Threads
<1>9. ASSUME NEW c \in Conns, NEW id \in Ids, NEW s \in Sessions,
             ReadSession(c, id, s) \/ SkipSession(c, id, s)
      PROVE  Threads'
  <2>1. UNCHANGED <<conn, screen>> /\ run[c].pc = "read"
    BY <1>9 DEF ReadSession, SkipSession
  <2>2. /\ run'[c].pc = "read" /\ run'[c].service = run[c].service
        /\ run'[c].entered = run[c].entered
        /\ \A d \in Conns : d # c => run'[d] = run[d]
    BY <1>0, <1>9, ReadFields, SkipFields
  <2> QED
    BY <2>1, <2>2 DEF Threads
<1>10. ASSUME NEW c \in Conns, RunRemoves(c) PROVE Threads'
  BY <1>0, <1>10 DEF RunRemoves, Threads, RunType
<1> QED
  BY <1>1, <1>2, <1>3, <1>4, <1>5, <1>6, <1>7, <1>8, <1>9, <1>10
     DEF Next, ConnTask, RunThread, HandleResize, SetPersistent, CleanupChooses, CleanupRemoves,
         ShellWrites, ShellExits, vars

\* Every step keeps who may remove a service.
LEMMA WatchedStep ==
  ASSUME TypeOK, Threads, Watched, [Next]_vars
  PROVE  Watched'
<1>0. /\ run \in [Conns -> RunType] /\ registered \in Conns \cup {None}
      /\ service \in [Conns -> ServiceType]
  BY DEF TypeOK, ServiceType
<1>1. ASSUME NEW c \in Conns, NEW p \in Asked, Login(c, p) PROVE Watched'
  <2>1. run'[c].pc = "wait"
    BY <1>0, <1>1 DEF Login, RunType
  <2> QED
    BY <2>1 DEF Watched
<1>2. ASSUME UNCHANGED run, registered' \in {registered, None},
             registered # None => service'[registered].persistent = service[registered].persistent
      PROVE Watched'
  BY <1>2 DEF Watched
<1>3. ASSUME NEW c \in Conns, NEW id \in Ids, HandleOpen(c, id) \/ HandleClose(c, id) PROVE Watched'
  <2>1. service'[registered].persistent = service[registered].persistent
    BY <1>0, <1>3, ZenonT(30) DEF HandleOpen, HandleClose, HasOpen, ServiceType
  <2> QED
    BY <1>2, <1>3, <2>1 DEF HandleOpen, HandleClose
<1>4. ASSUME NEW c \in Conns, SetPersistent(c) PROVE Watched'
  <2>1. run[c].pc \in {"wait", "loop", "read"} /\ UNCHANGED run
    BY <1>4 DEF SetPersistent, Threads
  <2> QED
    BY <2>1 DEF Watched
<1>5. ASSUME NEW c \in Conns, RunEnters(c) \/ RunNeverEnters(c) \/ ReadOutputs(c) PROVE Watched'
  <2>1. UNCHANGED <<registered, service>>
    BY <1>5 DEF RunEnters, RunNeverEnters, ReadOutputs
  <2>2. \/ run'[c].pc \in {"loop", "read"}
        \/ run'[c].pc = "dead" /\ ~run'[c].entered
    <3>1. CASE RunEnters(c)
      BY <1>0, <3>1, EnterFields
    <3>2. CASE RunNeverEnters(c)
      BY <1>0, <3>2, PcFields DEF RunNeverEnters, Threads
    <3>3. CASE ReadOutputs(c)
      BY <1>0, <3>3 DEF ReadOutputs, RunType
    <3> QED
      BY <1>5, <3>1, <3>2, <3>3
  <2> QED
    BY <2>1, <2>2 DEF Watched
<1>6. ASSUME NEW c \in Conns, RunEnds(c) PROVE Watched'
  <2>1. UNCHANGED <<registered, service>>
    BY <1>6 DEF RunEnds
  <2>2. registered # None /\ ~service[registered].persistent => run'[c].pc = "remove"
    BY <1>0, <1>6 DEF RunEnds, RunType
  <2> QED
    BY <2>1, <2>2 DEF Watched
<1>7. ASSUME NEW c \in Conns, NEW id \in Ids, NEW s \in Sessions,
             ReadSession(c, id, s) \/ SkipSession(c, id, s)
      PROVE  Watched'
  <2>1. run'[c].pc = "read"
    BY <1>0, <1>7, ReadFields, SkipFields
  <2> QED
    BY <2>1 DEF Watched
<1>8. ASSUME NEW c \in Conns, SendResponses(c) PROVE Watched'
  <2>1. run'[c].pc = "loop"
    BY <1>0, <1>8 DEF SendResponses, RunType
  <2> QED
    BY <2>1 DEF Watched
<1>9. ASSUME registered' = None PROVE Watched'
  BY <1>9 DEF Watched
<1> QED
  BY <1>1, <1>2, <1>3, <1>4, <1>5, <1>6, <1>7, <1>8, <1>9
     DEF Next, ConnTask, RunThread, HandleResize, Disconnect, CleanupChooses, CleanupRemoves,
         RunRemoves, RemoveService, ShellWrites, ShellExits, vars

\* Nobody names a service before the connection it is called after logs in.
LEMMA UnbornStep ==
  ASSUME TypeOK, Threads, Unborn, [Next]_vars
  PROVE  Unborn'
<1>0. /\ conn \in [Conns -> {"out", "in", "dropped"}] /\ run \in [Conns -> RunType]
      /\ service \in [Conns -> ServiceType] /\ registered \in Conns \cup {None}
  BY DEF TypeOK, ServiceType
<1>1. ASSUME \A k \in Conns : conn'[k] = "out" =>
               /\ conn[k] = "out" /\ service'[k] \in {service[k], NoService}
               /\ k = registered' => k = registered
               /\ \A c \in Conns : k = run'[c].service => k = run[c].service \/ k = registered
      PROVE  Unborn'
  BY <1>1 DEF Unborn, Named
<1>2. ASSUME UNCHANGED <<conn, run>>, registered' = registered, registered # None,
             \A k \in Conns : k # registered => service'[k] = service[k]
      PROVE  Unborn'
  BY <1>2 DEF Unborn, Named
<1>3. ASSUME NEW c \in Conns, NEW p \in Asked, Login(c, p) PROVE Unborn'
  <2>1. /\ \A d \in Conns : run'[d].service = run[d].service
        /\ \A d \in Conns : d # c => conn'[d] = conn[d]
        /\ conn'[c] = "in" /\ registered' \in {registered, c}
    BY <1>0, <1>3, PcFields DEF Login
  <2>2. \A k \in Conns : k # registered' => service'[k] = service[k]
    BY <1>0, <1>3 DEF Login
  <2>3. registered = registered' \/ registered' = c
    BY <2>1
  <2>4. \A k \in Conns : conn'[k] = "out" => k # registered'
    BY <2>1, <2>3 DEF Unborn, Named
  <2> QED
    BY <1>1, <2>1, <2>2, <2>3, <2>4
<1>4. ASSUME NEW c \in Conns, NEW id \in Ids, HandleOpen(c, id) PROVE Unborn'
  <2>1. \A k \in Conns : k # registered => service'[k] = service[k]
    BY <1>0, <1>4 DEF HandleOpen
  <2> QED
    BY <1>2, <1>4, <2>1 DEF HandleOpen
<1>5. ASSUME NEW c \in Conns, NEW id \in Ids, HandleClose(c, id) PROVE Unborn'
  BY <1>0, <1>2, <1>5 DEF HandleClose, HasOpen
<1>6. ASSUME NEW c \in Conns, SetPersistent(c) PROVE Unborn'
  BY <1>0, <1>2, <1>6 DEF SetPersistent
<1>7. ASSUME NEW c \in Conns, Disconnect(c) PROVE Unborn'
  BY <1>0, <1>1, <1>7 DEF Disconnect
<1>8. ASSUME NEW c \in Conns, RunEnters(c) PROVE Unborn'
  <2>1. \A d \in Conns : run'[d].service = run[d].service
    BY <1>0, <1>8, EnterFields
  <2> QED
    BY <1>1, <1>8, <2>1 DEF RunEnters
<1>9. ASSUME NEW c \in Conns, RunNeverEnters(c) \/ RunEnds(c) \/ RunRemoves(c) PROVE Unborn'
  <2>1. PICK pc : run' = [run EXCEPT ![c].pc = pc]
    BY <1>9 DEF RunNeverEnters, RunEnds, RunRemoves
  <2>2. \A d \in Conns : run'[d].service = run[d].service
    BY <1>0, <2>1, PcFields
  <2>3. /\ UNCHANGED conn /\ registered' \in {registered, None}
        /\ \A k \in Conns : service'[k] \in {service[k], NoService}
    BY <1>9 DEF RunNeverEnters, RunEnds, RunRemoves, RemoveService
  <2> QED
    BY <1>1, <2>2, <2>3, NoneAssumption
<1>10. ASSUME NEW c \in Conns, NEW id \in Ids, NEW s \in Sessions,
              ReadSession(c, id, s) \/ SkipSession(c, id, s)
       PROVE  Unborn'
  <2>1. \A d \in Conns : run'[d].service = run[d].service
    BY <1>0, <1>10, ReadFields, SkipFields
  <2> QED
    BY <1>1, <1>10, <2>1 DEF ReadSession, SkipSession
<1>11. ASSUME NEW c \in Conns, ReadOutputs(c) PROVE Unborn'
  <2>1. \A d \in Conns : run'[d].service \in {run[d].service, registered}
    BY <1>0, <1>11 DEF ReadOutputs, RunType
  <2> QED
    BY <1>1, <1>11, <2>1 DEF ReadOutputs
<1>12. ASSUME NEW c \in Conns, SendResponses(c) PROVE Unborn'
  <2>1. \A d \in Conns : run'[d].service \in {run[d].service, None}
    BY <1>0, <1>12 DEF SendResponses, RunType
  <2>2. \A k \in Conns : k # run[c].service => service'[k] = service[k]
    BY <1>0, <1>12 DEF SendResponses
  <2>3. \A k \in Conns : conn[k] = "out" => k # run[c].service
    BY DEF Unborn, Named
  <2> QED
    BY <1>1, <1>12, <2>1, <2>2, <2>3, NoneAssumption DEF SendResponses
<1>13. CASE CleanupRemoves
  BY <1>1, <1>13, NoneAssumption DEF CleanupRemoves, RemoveService
<1>14. ASSUME UNCHANGED <<conn, run, registered, service>> PROVE Unborn'
  BY <1>1, <1>14
<1> QED
  BY <1>3, <1>4, <1>5, <1>6, <1>7, <1>8, <1>9, <1>10, <1>11, <1>12, <1>13, <1>14
     DEF Next, ConnTask, RunThread, HandleResize, CleanupChooses, ShellWrites, ShellExits, vars

\* A step that takes names away, and adds none, leaves no session to a new
\* owner and none under two ids.
Shrinks ==
    /\ registered' \in {registered, None}
    /\ \A k \in Conns, id \in Ids :
          service'[k].sessions[id] \in {service[k].sessions[id], NoSession}
    /\ \A c \in Conns : /\ run'[c].service \in {run[c].service, None}
                        /\ run'[c].todo \subseteq run[c].todo

LEMMA HeldShrinks ==
  ASSUME SessionOwned, Shrinks
  PROVE  /\ \A s \in Sessions : Held(s)' => Held(s)
         /\ \A k \in Conns : \A i, j \in Mapped(k)' :
               service'[k].sessions[i] = service'[k].sessions[j] => i = j
<1>1. \A k \in Conns : Named(k)' => Named(k)
  BY NoneAssumption DEF Shrinks, Named
<1>2. ASSUME NEW s \in Sessions, Held(s)' PROVE Held(s)
  <2>1. CASE \E k \in Conns : Named(k)' /\ \E id \in Ids : service'[k].sessions[id] = s
    <3>1. PICK k \in Conns : Named(k)' /\ \E id \in Ids : service'[k].sessions[id] = s
      BY <2>1
    <3>2. PICK id \in Ids : service'[k].sessions[id] = s
      BY <3>1
    <3>3. service[k].sessions[id] = s
      BY <3>2, Resets DEF Shrinks
    <3> QED
      BY <1>1, <3>1, <3>3 DEF Held
  <2>2. CASE \E c \in Conns : \E id \in Ids : <<id, s>> \in run'[c].todo
    BY <2>2 DEF Held, Shrinks
  <2> QED
    BY <1>2, <2>1, <2>2 DEF Held
<1>3. \A k \in Conns : \A i \in Mapped(k)' :
         i \in Mapped(k) /\ service'[k].sessions[i] = service[k].sessions[i]
  BY DEF Shrinks, Mapped
<1> QED
  BY <1>2, <1>3 DEF SessionOwned

\* Dropping what nobody names keeps the sessions owned.
LEMMA DropOwned ==
  ASSUME SessionOwned, Shrinks, NEW f, DropUnheld(f),
         \A s \in Sessions :
            /\ session[s].state \in {"closed", "active"} => f[s].state \in {"closed", "active"}
  PROVE  SessionOwned'
<1>1. \A s \in Sessions : session'[s] = IF f[s].state = "unused" \/ Held(s)' THEN f[s] ELSE Dropped
  BY DEF DropUnheld
<1>2. Dropped.state = "dropped"
  BY DEF Dropped, Unused
<1>3. ASSUME NEW s \in Sessions PROVE Held(s)' <=> session'[s].state \in {"closed", "active"}
  <2>1. CASE Held(s)'
    BY <1>1, <2>1, HeldShrinks DEF SessionOwned
  <2>2. CASE ~Held(s)'
    BY <1>1, <1>2, <2>2
  <2> QED
    BY <2>1, <2>2
<1> QED
  BY <1>3, HeldShrinks DEF SessionOwned

\* A step that changes no names and only revives or closes owned sessions.
LEMMA SameOwners ==
  ASSUME SessionOwned, registered' = registered,
         \A k \in Conns : service'[k].sessions = service[k].sessions,
         \A c \in Conns : run'[c].service = run[c].service /\ run'[c].todo = run[c].todo,
         \A s \in Sessions : session[s].state \in {"closed", "active"}
                               <=> session'[s].state \in {"closed", "active"}
  PROVE  SessionOwned'
<1>1. \A k \in Conns : (Named(k)' <=> Named(k)) /\ Mapped(k)' = Mapped(k)
  BY DEF Named, Mapped
<1>2. \A s \in Sessions : Held(s)' <=> Held(s)
  BY <1>1, ZenonT(30) DEF Held
<1> QED
  BY <1>1, <1>2 DEF SessionOwned

\* The states that the operations of a session lead to.
LEMMA StateFields ==
  ASSUME NEW x \in SessionType
  PROVE  /\ Stop(x).state = "closed" /\ Close(x).state = "closed" /\ Reattach(x).state = "active"
         /\ NewSession.state = "active" /\ Wrote(x).state = x.state /\ Lost(x).state = x.state
         /\ \A rows, ok : Resized(x, rows, ok).state = x.state
         /\ \A ok \in BOOLEAN : Read(x, ok).state = x.state
<1>1. ASSUME NEW ok \in BOOLEAN PROVE Read(x, ok).state = x.state
  <2> DEFINE z == Drain(x)
             y == Sigwinch(z, ok)
  <2>1. z \in SessionType
    BY SessionTypes
  <2>2. z.state = x.state
    BY SMTT(30) DEF Drain, SessionType
  <2> HIDE DEF z
  <2>3. \/ y = z \/ y = [z EXCEPT !.phase = "idle", !.unsized = TRUE]
        \/ y = [z EXCEPT !.retries = @ - 1]
        \/ y = [z EXCEPT !.phase = "restore", !.retries = MAX_SIGWINCH_PHASE_ATTEMPTS,
                         !.pty = TempRows(z.rows)]
        \/ y = [z EXCEPT !.phase = "idle", !.retries = 0, !.pty = z.rows, !.unsized = FALSE]
    BY <2>1, SigwinchCases
  <2> HIDE DEF y
  <2>4. y.state = z.state
    BY <2>1, <2>3 DEF SessionType
  <2> QED
    BY <2>2, <2>4 DEF Read, y, z
<1> QED
  BY <1>1 DEF Stop, Close, Reattach, NewSession, Unused, Wrote, Lost, Resized, SessionType

\* Every shell keeps an owner, and every owned session its shell.
LEMMA OwnedStep ==
  ASSUME TypeOK, Threads, Unborn, SessionOwned, [Next]_vars
  PROVE  SessionOwned'
<1>0. /\ run \in [Conns -> RunType] /\ service \in [Conns -> ServiceType]
      /\ registered \in Conns \cup {None} /\ session \in [Sessions -> SessionType]
  BY DEF TypeOK, ServiceType
<1>1. ASSUME NEW c \in Conns, NEW p \in Asked, Login(c, p) PROVE SessionOwned'
  <2> DEFINE k == IF registered = None THEN c ELSE registered
  <2>1. k \in Conns /\ conn[c] = "out" /\ registered' = k
    BY <1>0, <1>1 DEF Login
  <2>2. \A d \in Conns : service'[d].sessions = service[d].sessions
    BY <1>0, <1>1 DEF Login, ServiceType
  <2>3. \A d \in Conns : run'[d].service = run[d].service /\ run'[d].todo = run[d].todo
    BY <1>0, <1>1, PcFields DEF Login
  <2>4. registered = None => \A id \in Ids : service[c].sessions[id] = NoSession
    BY <2>1 DEF Unborn, NoService
  <2>5. \A s \in Sessions : Held(s)' <=> Held(s)
    <3>1. CASE registered # None
      BY <2>1, <2>2, <2>3, <3>1, ZenonT(30) DEF Held, Named
    <3>2. CASE registered = None
      <4>1. \A d \in Conns : Named(d)' <=> Named(d) \/ d = c
        BY <2>1, <2>3, <3>2, NoneAssumption DEF Named
      <4> QED
        BY <2>2, <2>3, <2>4, <3>2, <4>1, Resets DEF Held
    <3> QED
      BY <3>1, <3>2
  <2>6. \A s \in Sessions : (\E id \in Ids : service[k].sessions[id] = s) => Held(s)
    BY <2>1, <2>4, Resets DEF Held, Named
  <2>7. \A s \in Sessions : session'[s] =
           IF \E id \in Ids : service[k].sessions[id] = s THEN Close(session[s]) ELSE session[s]
    BY <1>1 DEF Login
  <2> HIDE DEF k
  <2>8. \A s \in Sessions : session[s].state \in {"closed", "active"}
                              <=> session'[s].state \in {"closed", "active"}
    BY <1>0, <2>6, <2>7, StateFields DEF SessionOwned
  <2> QED
    BY <2>2, <2>5, <2>8 DEF SessionOwned, Mapped
<1>2. ASSUME NEW c \in Conns, NEW id \in Ids, HandleOpen(c, id) PROVE SessionOwned'
  <2> DEFINE k == registered
             map == Remap(k, id)
             m == service[k].sessions
  <2>1. k \in Conns /\ UNCHANGED <<registered, run>>
    BY <1>0, <1>2 DEF HandleOpen
  <2>2. m \in [Ids -> Sessions \cup {NoSession}]
    BY <1>0, <2>1 DEF ServiceType
  <2>3. \A s \in Sessions : Held(s) <=>
          \/ \E i \in Ids : m[i] = s
          \/ \E d \in Conns : d # k /\ Named(d) /\ \E i \in Ids : service[d].sessions[i] = s
          \/ \E d \in Conns : \E i \in Ids : <<i, s>> \in run[d].todo
    BY <2>1 DEF Held, Named
  <2>4. ASSUME \A d \in Conns : d # k => service'[d] = service[d]
        PROVE  \A s \in Sessions : Held(s)' <=>
          \/ \E i \in Ids : service'[k].sessions[i] = s
          \/ \E d \in Conns : d # k /\ Named(d) /\ \E i \in Ids : service[d].sessions[i] = s
          \/ \E d \in Conns : \E i \in Ids : <<i, s>> \in run[d].todo
    BY <2>1, <2>4 DEF Held, Named
  <2>5. CASE /\ map[id] /= NoSession
             /\ service' = [service EXCEPT ![k].sessions = map, ![k].sync = FALSE]
             /\ session' = [session EXCEPT ![map[id]] = Reattach(@)]
    <3>1. /\ map \in [Ids -> Sessions \cup {NoSession}]
          /\ \/ map = m
             \/ /\ m[id] = NoSession
                /\ \E low \in Mapped(k) : map = [m EXCEPT ![low] = NoSession, ![id] = m[low]]
      BY <2>1, RemapCases
    <3> HIDE DEF map
    <3>2. service'[k].sessions = map /\ \A d \in Conns : d # k => service'[d] = service[d]
      BY <1>0, <2>1, <2>5 DEF ServiceType
    <3>3. \A s \in Sessions : (\E i \in Ids : map[i] = s) <=> (\E i \in Ids : m[i] = s)
      <4>1. CASE map = m
        BY <4>1
      <4>2. ASSUME NEW low \in Mapped(k), m[id] = NoSession,
                   map = [m EXCEPT ![low] = NoSession, ![id] = m[low]]
            PROVE  \A s \in Sessions : (\E i \in Ids : map[i] = s) <=> (\E i \in Ids : m[i] = s)
        <5>1. low \in Ids /\ low # id
          BY <4>2 DEF Mapped
        <5>2. /\ map[id] = m[low] /\ map[low] = NoSession
              /\ \A i \in Ids : i # id /\ i # low => map[i] = m[i]
          BY <2>2, <4>2, <5>1
        <5> QED
          BY <4>2, <5>1, <5>2, Resets
      <4> QED
        BY <3>1, <4>1, <4>2
    <3>4. \A i, j \in Ids : map[i] # NoSession /\ map[i] = map[j] => i = j
      <4>1. \A i, j \in Ids : m[i] # NoSession /\ m[i] = m[j] => i = j
        BY <2>1 DEF SessionOwned, Mapped
      <4>2. CASE map = m
        BY <4>1, <4>2
      <4>3. ASSUME NEW low \in Mapped(k), m[id] = NoSession,
                   map = [m EXCEPT ![low] = NoSession, ![id] = m[low]]
            PROVE  \A i, j \in Ids : map[i] # NoSession /\ map[i] = map[j] => i = j
        <5>1. low \in Ids /\ low # id
          BY <4>3 DEF Mapped
        <5>2. /\ map[id] = m[low] /\ map[low] = NoSession
              /\ \A i \in Ids : i # id /\ i # low => map[i] = m[i]
          BY <2>2, <4>3, <5>1
        <5> QED
          BY <4>1, <4>3, <5>1, <5>2
      <4> QED
        BY <3>1, <4>2, <4>3
    <3>5. \A s \in Sessions : Held(s)' <=> Held(s)
      BY <2>3, <2>4, <3>2, <3>3
    <3>6. map[id] \in Sessions /\ Held(map[id])
      BY <2>3, <2>5, <3>1, <3>3
    <3>7. \A s \in Sessions : session[s].state \in {"closed", "active"}
                                <=> session'[s].state \in {"closed", "active"}
      <4>1. session[map[id]].state \in {"closed", "active"}
        BY <3>6 DEF SessionOwned
      <4>2. session'[map[id]].state = "active"
        BY <1>0, <2>5, <3>6, StateFields
      <4>3. \A s \in Sessions : s # map[id] => session'[s] = session[s]
        BY <1>0, <2>5
      <4> QED
        BY <4>1, <4>2, <4>3
    <3>8. \A d \in Conns : \A i, j \in Mapped(d)' :
             service'[d].sessions[i] = service'[d].sessions[j] => i = j
      BY <3>2, <3>4 DEF SessionOwned, Mapped
    <3> QED
      BY <3>5, <3>7, <3>8 DEF SessionOwned
  <2>6. ASSUME NEW s \in Sessions, map[id] = NoSession, session[s].state = "unused",
               service' = [service EXCEPT ![k].sessions[id] = s, ![k].sync = FALSE],
               session' = [session EXCEPT ![s] = NewSession]
        PROVE  SessionOwned'
    <3>1. m[id] = NoSession
      <4>1. \/ map = m
            \/ /\ m[id] = NoSession
               /\ \E low \in Mapped(k) : map = [m EXCEPT ![low] = NoSession, ![id] = m[low]]
        BY <2>1, RemapCases
      <4> HIDE DEF map
      <4> QED
        BY <2>6, <4>1
    <3>2. /\ service'[k].sessions = [m EXCEPT ![id] = s]
          /\ \A d \in Conns : d # k => service'[d] = service[d]
      BY <1>0, <2>1, <2>6 DEF ServiceType
    <3>3. ~Held(s)
      BY <2>6 DEF SessionOwned
    <3> DEFINE n == service'[k].sessions
    <3>4. n[id] = s /\ \A i \in Ids : i # id => n[i] = m[i]
      BY <2>2, <3>2
    <3> HIDE DEF n
    <3>5. \A r \in Sessions : Held(r)' <=> Held(r) \/ r = s
      <4>1. \A r \in Sessions : (\E i \in Ids : n[i] = r) <=> r = s \/ (\E i \in Ids : m[i] = r)
        BY <3>1, <3>4, Resets
      <4> QED
        BY <2>3, <2>4, <3>2, <4>1 DEF n
    <3>6. \A r \in Sessions : session'[r].state \in {"closed", "active"}
                                <=> session[r].state \in {"closed", "active"} \/ r = s
      <4>1. session'[s].state = "active" /\ \A r \in Sessions : r # s => session'[r] = session[r]
        BY <1>0, <2>6, StateFields
      <4> QED
        BY <4>1
    <3>7. \A d \in Conns : \A i, j \in Mapped(d)' :
             service'[d].sessions[i] = service'[d].sessions[j] => i = j
      <4>1. \A i \in Ids : m[i] # s
        BY <2>3, <3>3
      <4>2. \A i, j \in Ids : m[i] # NoSession /\ m[i] = m[j] => i = j
        BY <2>1 DEF SessionOwned, Mapped
      <4>3. \A i, j \in Ids : n[i] # NoSession /\ n[i] = n[j] => i = j
        BY <3>4, <4>1, <4>2
      <4>4. \A d \in Conns : d = k => \A i, j \in Mapped(d)' :
               service'[d].sessions[i] = service'[d].sessions[j] => i = j
        BY <4>3 DEF Mapped, n
      <4>5. \A d \in Conns : d # k => \A i, j \in Mapped(d)' :
               service'[d].sessions[i] = service'[d].sessions[j] => i = j
        BY <3>2 DEF SessionOwned, Mapped
      <4> QED
        BY <4>4, <4>5
    <3> QED
      BY <3>5, <3>6, <3>7 DEF SessionOwned
  <2> QED
    BY <1>2, <2>5, <2>6 DEF HandleOpen
<1>3. ASSUME NEW c \in Conns, NEW id \in Ids, HandleClose(c, id) PROVE SessionOwned'
  <2>1. DropUnheld(session)
    BY <1>3 DEF HandleClose
  <2>2. Shrinks
    BY <1>0, <1>3 DEF HandleClose, HasOpen, ServiceType, Shrinks
  <2> QED
    BY <2>1, <2>2, DropOwned
<1>4. ASSUME NEW c \in Conns, NEW id \in Ids, NEW rows \in Rows, HandleResize(c, id, rows)
      PROVE  SessionOwned'
  <2> DEFINE s == service[registered].sessions[id]
  <2>1. PICK ok \in BOOLEAN : session' = [session EXCEPT ![s] = Resized(session[s], rows, ok)]
    BY <1>4 DEF HandleResize
  <2>2. s \in Sessions
    BY <1>0, <1>4 DEF HandleResize, HasOpen, ServiceType
  <2> HIDE DEF s
  <2>3. \A r \in Sessions : session'[r].state = session[r].state
    BY <1>0, <2>1, <2>2, StateFields
  <2> QED
    BY <1>4, <2>3, SameOwners DEF HandleResize
<1>5. ASSUME NEW c \in Conns, SetPersistent(c) PROVE SessionOwned'
  <2>1. \A k \in Conns : service'[k].sessions = service[k].sessions
    BY <1>0, <1>5 DEF SetPersistent, ServiceType
  <2> QED
    BY <1>5, <2>1, SameOwners DEF SetPersistent
<1>6. ASSUME UNCHANGED <<registered, service, session, run>> PROVE SessionOwned'
  BY <1>6, SameOwners
<1>7. ASSUME NEW c \in Conns, RunEnters(c) PROVE SessionOwned'
  <2>1. \A d \in Conns : run'[d].service = run[d].service /\ run'[d].todo = run[d].todo
    BY <1>0, <1>7, EnterFields
  <2> QED
    BY <1>7, <2>1, SameOwners DEF RunEnters
<1>8. ASSUME NEW c \in Conns, RunNeverEnters(c) \/ RunEnds(c) PROVE SessionOwned'
  <2>1. PICK pc : run' = [run EXCEPT ![c].pc = pc]
    BY <1>8 DEF RunNeverEnters, RunEnds
  <2>2. \A d \in Conns : run'[d].service = run[d].service /\ run'[d].todo = run[d].todo
    BY <1>0, <2>1, PcFields
  <2> QED
    BY <1>8, <2>2, SameOwners DEF RunNeverEnters, RunEnds
<1>9. ASSUME NEW c \in Conns, ReadOutputs(c) PROVE SessionOwned'
  <2> DEFINE todo == {<<i, service[registered].sessions[i]>> : i \in Mapped(registered)}
  <2>1. /\ registered \in Conns /\ UNCHANGED <<registered, service, session>>
        /\ run[c].pc = "loop"
    BY <1>0, <1>9 DEF ReadOutputs
  <2>2. /\ run'[c].service = registered /\ run'[c].todo = todo
        /\ \A d \in Conns : d # c => run'[d] = run[d]
    BY <1>0, <1>9 DEF ReadOutputs, RunType
  <2>3. run[c].service = None /\ run[c].todo = {}
    BY <2>1 DEF Threads
  <2>4. \A k \in Conns : Named(k)' <=> Named(k)
    BY <2>1, <2>2, <2>3, NoneAssumption DEF Named
  <2>5. \A i, s : <<i, s>> \in todo => i \in Ids /\ service[registered].sessions[i] = s
    BY DEF Mapped
  <2> HIDE DEF todo
  <2>6. \A s \in Sessions : Held(s)' <=> Held(s)
    <3> TAKE s \in Sessions
    <3>1. ASSUME NEW d \in Conns, NEW i \in Ids, <<i, s>> \in run'[d].todo PROVE Held(s)
      BY <2>1, <2>2, <2>5, <3>1 DEF Held, Named
    <3>2. ASSUME NEW d \in Conns, NEW i \in Ids, <<i, s>> \in run[d].todo PROVE Held(s)'
      BY <2>2, <2>3, <3>2 DEF Held
    <3> QED
      BY <2>1, <2>4, <3>1, <3>2 DEF Held
  <2> QED
    BY <2>1, <2>6 DEF SessionOwned, Mapped
<1>10. ASSUME NEW c \in Conns, SendResponses(c) PROVE SessionOwned'
  <2>1. DropUnheld(session)
    BY <1>10 DEF SendResponses
  <2>2. \A k \in Conns, id \in Ids :
          service'[k].sessions[id] \in {service[k].sessions[id], NoSession}
    BY <1>0, <1>10 DEF SendResponses, ServiceType
  <2>3. \A d \in Conns : /\ run'[d].service \in {run[d].service, None}
                         /\ run'[d].todo \subseteq run[d].todo
    BY <1>0, <1>10 DEF SendResponses, RunType
  <2>4. registered' = registered
    BY <1>10 DEF SendResponses
  <2> QED
    BY <2>1, <2>2, <2>3, <2>4, DropOwned DEF Shrinks
<1>11. ASSUME NEW c \in Conns, NEW id \in Ids, NEW s \in Sessions,
              ReadSession(c, id, s) \/ SkipSession(c, id, s)
       PROVE  SessionOwned'
  <2>1. UNCHANGED <<registered, service>>
    BY <1>11 DEF ReadSession, SkipSession
  <2>2. \A d \in Conns : run'[d].service = run[d].service /\ run'[d].todo \subseteq run[d].todo
    BY <1>0, <1>11, ReadFields, SkipFields
  <2>3. Shrinks
    BY <2>1, <2>2 DEF Shrinks
  <2>4. CASE SkipSession(c, id, s)
    BY <2>3, <2>4, DropOwned DEF SkipSession
  <2>5. CASE ReadSession(c, id, s)
    <3>1. PICK ok \in BOOLEAN : DropUnheld([session EXCEPT ![s] = Read(session[s], ok)])
      BY <2>5 DEF ReadSession, Read
    <3> DEFINE f == [session EXCEPT ![s] = Read(session[s], ok)]
    <3>2. \A r \in Sessions : f[r].state = session[r].state
      BY <1>0, StateFields
    <3> HIDE DEF f
    <3>3. DropUnheld(f)
      BY <3>1 DEF f
    <3> QED
      BY <2>3, <3>2, <3>3, DropOwned
  <2> QED
    BY <1>11, <2>4, <2>5
<1>12. ASSUME RemoveService,
              \A d \in Conns : run'[d].service = run[d].service /\ run'[d].todo = run[d].todo
       PROVE  SessionOwned'
  <2> DEFINE f == [s \in Sessions |->
          IF registered /= None /\ \E id \in Ids : service[registered].sessions[id] = s
          THEN Stop(session[s]) ELSE session[s]]
  <2>1. \A k \in Conns, id \in Ids :
          service'[k].sessions[id] \in {service[k].sessions[id], NoSession}
    BY <1>12 DEF RemoveService, NoService
  <2>2. Shrinks
    BY <1>12, <2>1 DEF RemoveService, Shrinks
  <2>3. \A s \in Sessions : session[s].state \in {"closed", "active"}
                              => f[s].state \in {"closed", "active"}
    BY <1>0, StateFields
  <2>4. DropUnheld(f)
    BY <1>12 DEF RemoveService
  <2> HIDE DEF f
  <2> QED
    BY <2>2, <2>3, <2>4, DropOwned
<1>13. ASSUME NEW c \in Conns, RunRemoves(c) PROVE SessionOwned'
  <2>1. \A d \in Conns : run'[d].service = run[d].service /\ run'[d].todo = run[d].todo
    BY <1>0, <1>13, PcFields DEF RunRemoves
  <2> QED
    BY <1>12, <1>13, <2>1 DEF RunRemoves
<1>14. CASE CleanupRemoves
  BY <1>12, <1>14 DEF CleanupRemoves
<1>15. ASSUME NEW s \in Sessions, ShellWrites(s) PROVE SessionOwned'
  <2>1. \A r \in Sessions : session'[r].state = session[r].state
    <3>1. \A r \in Sessions : session'[r] \in {session[r], Wrote(session[r]), Lost(session[r])}
      BY <1>0, <1>15 DEF ShellWrites
    <3> QED
      BY <1>0, <3>1, StateFields
  <2> QED
    BY <1>15, <2>1, SameOwners DEF ShellWrites
<1>16. ASSUME NEW s \in Sessions, ShellExits(s) PROVE SessionOwned'
  <2>1. \A r \in Sessions : session'[r].state = session[r].state
    BY <1>0, <1>16 DEF ShellExits, SessionType
  <2> QED
    BY <1>16, <2>1, SameOwners DEF ShellExits
<1> QED
  BY <1>1, <1>2, <1>3, <1>4, <1>5, <1>6, <1>7, <1>8, <1>9, <1>10, <1>11, <1>13, <1>14, <1>15, <1>16
     DEF Next, ConnTask, RunThread, Disconnect, CleanupChooses, vars

\* A session in use never becomes unused, and its reader does not come back.
LEMMA StepFacts ==
  ASSUME NEW x \in SessionType, NEW y, SessionStep(x, y), x.state # "unused"
  PROVE  y.state # "unused" /\ (y.reader # "none" => x.reader # "none")
<1>1. CASE y \in {x, Dropped, Stop(x), Close(x), Reattach(x)}
  BY <1>1, ZenonT(30) DEF Dropped, Unused, Stop, Close, Reattach, SessionType
<1>2. ASSUME NEW rows \in Rows, NEW ok \in BOOLEAN, y = Resized(x, rows, ok)
      PROVE  y.state # "unused" /\ y.reader = x.reader
  BY <1>2 DEF Resized, SessionType
<1>3. ASSUME NEW ok \in BOOLEAN, y = Read(x, ok)
      PROVE  y.state # "unused" /\ y.reader = x.reader
  <2> DEFINE z == Drain(x)
  <2>0. z \in SessionType
    BY SessionTypes
  <2>1. z \in SessionType /\ z.reader = x.reader
    BY <2>0 DEF Drain, SessionType
  <2> HIDE DEF z
  <2>2. \/ y = z \/ y = [z EXCEPT !.phase = "idle", !.unsized = TRUE]
        \/ y = [z EXCEPT !.retries = @ - 1]
        \/ y = [z EXCEPT !.phase = "restore", !.retries = MAX_SIGWINCH_PHASE_ATTEMPTS,
                         !.pty = TempRows(z.rows)]
        \/ y = [z EXCEPT !.phase = "idle", !.retries = 0, !.pty = z.rows, !.unsized = FALSE]
    BY <1>3, <2>1, SigwinchCases, ZenonT(30) DEF Read, z
  <2>3. y.reader = z.reader
    BY <2>1, <2>2 DEF SessionType
  <2> QED
    BY <1>3, <2>1, <2>3, StateFields
<1>4. CASE x.reader = "alive" /\ y \in {Wrote(x), Lost(x), Exited(x)}
  BY <1>4 DEF Wrote, Lost, Exited, SessionType
<1> QED
  BY <1>1, <1>2, <1>3, <1>4 DEF SessionStep

\* What the client's actions and the responses leave of the screens.
LEMMA OpenScreens ==
  ASSUME screen \in [Conns -> ScreenType], NEW c \in Conns, NEW id \in Ids,
         NEW s, NEW from, NEW dead, Opened(c, id, s, from, dead)
  PROVE  /\ screen'[c][id].session = s /\ screen'[c][id].shown = <<>>
         /\ ~screen'[c][id].closed /\ (screen'[c][id].alone <=> Alone(c, id, s))
         /\ Alone(c, id, s) => screen'[c][id].from = from
         /\ screen'[c][id].dead = dead
         /\ \A d \in Conns, i \in Ids : d # c \/ i # id => screen'[d][i] = screen[d][i]
<1> DEFINE v == [session |-> s, shown |-> <<>>, closed |-> FALSE, alone |-> Alone(c, id, s),
                 from |-> IF Alone(c, id, s) THEN from ELSE 1, dead |-> dead]
<1>1. screen' = [screen EXCEPT ![c][id] = v]
  BY DEF Opened
<1> HIDE DEF v
<1>2. screen'[c][id] = v /\ \A d \in Conns, i \in Ids : d # c \/ i # id => screen'[d][i] = screen[d][i]
  BY <1>1 DEF ScreenType
<1>3. /\ v.session = s /\ v.shown = <<>> /\ ~v.closed /\ (v.alone <=> Alone(c, id, s))
      /\ (Alone(c, id, s) => v.from = from) /\ v.dead = dead
  BY DEF v
<1> QED
  BY <1>2, <1>3

LEMMA CloseScreens ==
  ASSUME screen \in [Conns -> ScreenType], NEW c \in Conns, NEW id \in Ids, HandleClose(c, id)
  PROVE  /\ screen'[c][id].closed /\ screen'[c][id].session = screen[c][id].session
         /\ screen'[c][id].alone = screen[c][id].alone
         /\ \A d \in Conns, i \in Ids : d # c \/ i # id => screen'[d][i] = screen[d][i]
<1>1. screen' = [screen EXCEPT ![c][id] = [screen[c][id] EXCEPT !.closed = TRUE]]
  BY DEF HandleClose, ScreenType
<1> DEFINE v == [screen[c][id] EXCEPT !.closed = TRUE]
<1>2. v.closed /\ v.session = screen[c][id].session /\ v.alone = screen[c][id].alone
  BY DEF ScreenType
<1> HIDE DEF v
<1>3. screen'[c][id] = v /\ \A d \in Conns, i \in Ids : d # c \/ i # id => screen'[d][i] = screen[d][i]
  BY <1>1 DEF ScreenType, v
<1> QED
  BY <1>2, <1>3

LEMMA SendScreens ==
  ASSUME TypeOK, NEW c \in Conns, SendResponses(c)
  PROVE  /\ \A d \in Conns : d # c => screen'[d] = screen[d]
         /\ \A id \in Ids :
              /\ screen'[c][id].session = screen[c][id].session
              /\ screen'[c][id].alone = screen[c][id].alone
              /\ screen'[c][id].from = screen[c][id].from
              /\ screen'[c][id].dead = screen[c][id].dead
              /\ conn[c] = "in" /\ Lone(c, id) =>
                    /\ screen'[c][id].closed = (screen[c][id].closed \/ id \in run[c].closed)
                    /\ screen'[c][id].shown = screen[c][id].shown \o run[c].out[id]
<1>1. screen \in [Conns -> ScreenType]
  BY DEF TypeOK
<1>2. \A d \in Conns : d # c => screen'[d] = screen[d]
  BY <1>1 DEF SendResponses
<1>3. ASSUME NEW id \in Ids
      PROVE  screen'[c][id] = screen[c][id]
               \/ screen'[c][id] = Receive(screen[c][id], id, run[c])
  BY <1>1 DEF SendResponses
<1>4. ASSUME NEW id \in Ids, conn[c] = "in" PROVE screen'[c][id] = Receive(screen[c][id], id, run[c])
  BY <1>1, <1>4 DEF SendResponses
<1>5. \A id \in Ids : screen[c][id] \in
         [session : Sessions \cup {NoSession}, shown : Seq(Nat), closed : BOOLEAN,
          alone : BOOLEAN, from : Nat, dead : BOOLEAN]
  BY <1>1 DEF ScreenType
<1>6. ASSUME NEW id \in Ids
      PROVE  LET w == Receive(screen[c][id], id, run[c])
             IN  /\ w.session = screen[c][id].session /\ w.alone = screen[c][id].alone
                 /\ w.from = screen[c][id].from /\ w.dead = screen[c][id].dead
                 /\ Lone(c, id) =>
                      /\ w.closed = (screen[c][id].closed \/ id \in run[c].closed)
                      /\ w.shown = screen[c][id].shown \o run[c].out[id]
  BY <1>5 DEF Receive, Lone
<1> QED
  BY <1>2, <1>3, <1>4, <1>6, ZenonT(30)

\* A thread that is gone stays so until its connection logs in.
LEMMA PcStep ==
  ASSUME run \in [Conns -> RunType], NEW d \in Conns, run[d].pc \in {"none", "dead"}, [Next]_vars,
         \A c \in Conns, p \in Asked : ~Login(c, p)
  PROVE  run'[d].pc \in {"none", "dead"}
<1>1. ASSUME NEW c \in Conns, run[c].pc \notin {"none", "dead"}, \A e \in Conns : e # c => run'[e] = run[e]
      PROVE  run'[d].pc \in {"none", "dead"}
  BY <1>1, SMTT(30)
<1>2. ASSUME NEW c \in Conns, RunThread(c)
      PROVE  run[c].pc \notin {"none", "dead"} /\ \A e \in Conns : e # c => run'[e] = run[e]
  BY <1>2, ZenonT(30) DEF RunThread, RunEnters, RunNeverEnters, ReadOutputs, SendResponses, ReadSession,
              SkipSession, RunEnds, RunRemoves
<1>3. ASSUME UNCHANGED run PROVE run'[d].pc \in {"none", "dead"}
  BY <1>3
<1> QED
  BY <1>1, <1>2, <1>3 DEF Next, ConnTask, HandleOpen, HandleClose, HandleResize, SetPersistent,
       Disconnect, CleanupChooses, CleanupRemoves, ShellWrites, ShellExits, vars

\* A session that a client calls its own is or was in use.
LEMMA UsedStep ==
  ASSUME TypeOK, [Next]_vars, NEW c \in Conns, NEW id \in Ids,
         screen[c][id].session # NoSession, session[screen[c][id].session].state # "unused",
         screen'[c][id].session = screen[c][id].session
  PROVE  session'[screen[c][id].session].state # "unused"
<1>1. screen[c][id].session \in Sessions /\ session \in [Sessions -> SessionType]
  BY DEF TypeOK, ScreenType
<1> QED
  BY <1>1, SessionSteps, StepFacts DEF Each

\* The service that a client uses alone stays so.
LEMMA LoneStep ==
  ASSUME TypeOK, Threads, LoneInv, [Next]_vars
  PROVE  LoneInv'
<1>0. /\ conn \in [Conns -> {"out", "in", "dropped"}] /\ run \in [Conns -> RunType]
      /\ service \in [Conns -> ServiceType] /\ registered \in Conns \cup {None}
      /\ screen \in [Conns -> ScreenType] /\ session \in [Sessions -> SessionType]
  BY DEF TypeOK, ServiceType
<1> SUFFICES ASSUME NEW c \in Conns, NEW id \in Ids
             PROVE  /\ screen'[c][id].session # NoSession
                         => session'[screen'[c][id].session].state # "unused"
                    /\ Lone(c, id)' =>
                         /\ \A d \in Conns \ {c} : run'[d].pc \in {"none", "dead"}
                         /\ registered' # None => ~service'[registered'].sync
  BY DEF LoneInv
<1> DEFINE Goal == /\ screen'[c][id].session # NoSession
                        => session'[screen'[c][id].session].state # "unused"
                   /\ Lone(c, id)' =>
                        /\ \A d \in Conns \ {c} : run'[d].pc \in {"none", "dead"}
                        /\ registered' # None => ~service'[registered'].sync
<1>1. ASSUME \A d \in Conns, p \in Asked : ~Login(d, p),
             screen'[c][id].session = screen[c][id].session,
             screen'[c][id].alone => screen[c][id].alone,
             registered' \in {registered, None},
             registered' # None => (service'[registered].sync => service[registered].sync)
      PROVE  Goal
  <2>1. screen'[c][id].session # NoSession => session'[screen'[c][id].session].state # "unused"
    BY <1>1, UsedStep DEF LoneInv
  <2>2. Lone(c, id)' => Lone(c, id)
    BY <1>1 DEF Lone
  <2> QED
    BY <1>0, <1>1, <2>1, <2>2, PcStep DEF LoneInv
<1>2. ASSUME NEW d \in Conns, NEW p \in Asked, Login(d, p) PROVE Goal
  <2>1. screen'[c][id].session = screen[c][id].session /\ ~screen'[c][id].alone
    BY <1>0, <1>2, LoginScreens
  <2>2. screen'[c][id].session # NoSession => session'[screen'[c][id].session].state # "unused"
    BY <2>1, UsedStep DEF LoneInv
  <2> QED
    BY <2>1, <2>2 DEF Lone
<1> SUFFICES ASSUME \A d \in Conns, p \in Asked : ~Login(d, p) PROVE Goal
  BY <1>2
<1>3. ASSUME NEW d \in Conns, NEW i \in Ids, HandleOpen(d, i) PROVE Goal
  <2>1. /\ conn[d] = "in" /\ registered \in Conns /\ UNCHANGED <<registered, run>>
    BY <1>0, <1>3 DEF HandleOpen
  <2>2. ~service'[registered].sync
    <3>1. ASSUME NEW m, service' = [service EXCEPT ![registered].sessions = m, ![registered].sync = FALSE]
          PROVE  ~service'[registered].sync
      BY <1>0, <2>1, <3>1 DEF ServiceType
    <3>2. ASSUME NEW s, service' = [service EXCEPT ![registered].sessions[i] = s, ![registered].sync = FALSE]
          PROVE  ~service'[registered].sync
      BY <1>0, <2>1, <3>2 DEF ServiceType
    <3> QED
      BY <1>3, <3>1, <3>2 DEF HandleOpen
  <2>3. PICK s, from, dead : Opened(d, i, s, from, dead) /\ session'[s].state = "active"
    <3> DEFINE map == Remap(registered, i)
    <3>1. map \in [Ids -> Sessions \cup {NoSession}]
      BY <2>1, RemapCases
    <3> HIDE DEF map
    <3>2. CASE /\ map[i] /= NoSession
               /\ \E from, dead : Opened(d, i, map[i], from, dead)
               /\ session' = [session EXCEPT ![map[i]] = Reattach(@)]
      <4>1. map[i] \in Sessions
        BY <3>1, <3>2
      <4>2. session'[map[i]] = Reattach(session[map[i]])
        BY <1>0, <3>2, <4>1
      <4> QED
        BY <1>0, <3>2, <4>1, <4>2, StateFields
    <3>3. ASSUME NEW s \in Sessions, Opened(d, i, s, 1, FALSE), session' = [session EXCEPT ![s] = NewSession]
          PROVE  \E from, dead : Opened(d, i, s, from, dead) /\ session'[s].state = "active"
      BY <1>0, <3>3, StateFields
    <3> QED
      BY <1>3, <3>2, <3>3 DEF HandleOpen, map
  <2>4. CASE c = d /\ id = i
    <3>1. screen'[c][id].session = s /\ (screen'[c][id].alone <=> Alone(c, id, s))
      BY <1>0, <2>3, <2>4, OpenScreens
    <3> QED
      BY <2>1, <2>2, <2>3, <3>1 DEF Lone, Alone
  <2>5. CASE c # d \/ id # i
    <3>1. screen'[c][id] = screen[c][id]
      BY <1>0, <2>3, <2>5, OpenScreens
    <3> QED
      BY <1>1, <2>1, <2>2, <3>1
  <2> QED
    BY <2>4, <2>5
<1>4. ASSUME NEW d \in Conns, NEW i \in Ids, HandleClose(d, i) PROVE Goal
  <2>1. screen'[c][id].session = screen[c][id].session /\ screen'[c][id].alone = screen[c][id].alone
    BY <1>0, <1>4, CloseScreens
  <2>2. registered' = registered /\ service'[registered].sync = service[registered].sync
    BY <1>0, <1>4 DEF HandleClose, HasOpen, ServiceType
  <2> QED
    BY <1>1, <2>1, <2>2
<1>5. ASSUME NEW d \in Conns, SetPersistent(d) PROVE Goal
  <2>1. service'[registered].sync = service[registered].sync
    BY <1>0, <1>5 DEF SetPersistent, ServiceType
  <2> QED
    BY <1>1, <1>5, <2>1 DEF SetPersistent
<1>6. ASSUME NEW d \in Conns, Disconnect(d) PROVE Goal
  <2>1. CASE d = c
    <3>1. screen'[c][id].session = NoSession
      BY <1>0, <1>6, <2>1 DEF Disconnect, NoScreen
    <3> QED
      BY <3>1 DEF Lone
  <2>2. CASE d # c
    <3>1. screen'[c] = screen[c]
      BY <1>0, <1>6, <2>2 DEF Disconnect
    <3> QED
      BY <1>1, <1>6, <3>1 DEF Disconnect
  <2> QED
    BY <2>1, <2>2
<1>7. ASSUME NEW d \in Conns, SendResponses(d) PROVE Goal
  <2>1. screen'[c][id].session = screen[c][id].session /\ screen'[c][id].alone = screen[c][id].alone
    BY <1>7, SendScreens
  <2>2. registered' = registered
    BY <1>7 DEF SendResponses
  <2>3. registered # None => service'[registered].sync = service[registered].sync
    BY <1>0, <1>7 DEF SendResponses, ServiceType
  <2> QED
    BY <1>1, <2>1, <2>2, <2>3
<1>8. ASSUME RemoveService, UNCHANGED screen PROVE Goal
  BY <1>1, <1>8 DEF RemoveService
<1>9. ASSUME UNCHANGED <<registered, service, screen>> PROVE Goal
  BY <1>1, <1>9
<1> HIDE DEF Goal
<1>10. ASSUME NEW d \in Conns, ConnTask(d) PROVE Goal
  BY <1>3, <1>4, <1>5, <1>6, <1>9, <1>10, SMTT(30) DEF ConnTask, HandleResize
<1>11. ASSUME NEW d \in Conns, RunThread(d) PROVE Goal
  BY <1>7, <1>8, <1>9, <1>11, ZenonT(30) DEF RunThread, RunEnters, RunNeverEnters, ReadOutputs, ReadSession,
                                 SkipSession, RunEnds, RunRemoves
<1>12. ASSUME NEW s \in Sessions, ShellWrites(s) \/ ShellExits(s) PROVE Goal
  BY <1>9, <1>12 DEF ShellWrites, ShellExits
<1>13. ASSUME CleanupChooses \/ CleanupRemoves \/ UNCHANGED vars PROVE Goal
  BY <1>8, <1>9, <1>13 DEF CleanupChooses, CleanupRemoves, vars
<1> QED
  BY <1>10, <1>11, <1>12, <1>13 DEF Next

\* The replay joins the channel: from its first chunk on nothing is missing.
LEMMA ReplayJoins ==
  ASSUME NEW x \in SessionType, Recorded(x), x.reader # "none"
  PROVE  LET q == LastN(x.buffer, ReconnectChunks)
             from == IF x.buffer = <<>> THEN 1 ELSE q[1]
         IN  /\ Rising(q \o x.chan) /\ ToSet(q \o x.chan) \subseteq 1 .. x.written
             /\ \A n \in from .. x.written : n \in ToSet(q \o x.chan) \cup x.lost
<1> DEFINE q == LastN(x.buffer, ReconnectChunks)
           from == IF x.buffer = <<>> THEN 1 ELSE q[1]
           b == x.buffer
           full == b \o x.chan
           r == q \o x.chan
<1>1. b \in Seq(Nat) /\ x.chan \in Seq(Nat) /\ x.written \in Nat /\ Len(b) \in Nat /\ Len(x.chan) \in Nat
  BY DEF SessionType
<1>2. q \in Seq(Nat)
  BY <1>1, LastNProperties, Resets
<1>3. PICK k \in 0 .. Len(b) :
         /\ Len(q) = Len(b) - k
         /\ \A i \in 1 .. Len(b) - k : q[i] = b[k + i]
         /\ Len(b) # 0 => k # Len(b)
  BY <1>1, LastNProperties, Resets
<1> HIDE DEF q
<1>4. /\ full \in Seq(Nat) /\ Len(full) = Len(b) + Len(x.chan)
      /\ \A i \in 1 .. Len(b) + Len(x.chan) : full[i] = IF i <= Len(b) THEN b[i] ELSE x.chan[i - Len(b)]
  BY <1>1, ConcatProperties
<1>5. /\ r \in Seq(Nat) /\ Len(r) = Len(q) + Len(x.chan)
      /\ \A i \in 1 .. Len(q) + Len(x.chan) : r[i] = IF i <= Len(q) THEN q[i] ELSE x.chan[i - Len(q)]
  BY <1>1, <1>2, ConcatProperties
<1>6. /\ Rising(full) /\ ToSet(full) \subseteq 1 .. x.written
      /\ \A n \in 1 .. x.written : n \in ToSet(full) \cup x.lost \/ (b # <<>> /\ n < b[1])
  BY DEF Recorded
<1> HIDE DEF full, r, b
<1>7. /\ k \in 0 .. Len(full) /\ Len(r) = Len(full) - k
      /\ \A i \in 1 .. Len(full) - k : r[i] = full[k + i]
  <2>1. k \in 0 .. Len(full) /\ Len(r) = Len(full) - k
    BY <1>1, <1>3, <1>4, <1>5
  <2>2. ASSUME NEW i \in 1 .. Len(full) - k PROVE r[i] = full[k + i]
    <3>1. i \in 1 .. Len(q) + Len(x.chan) /\ k + i \in 1 .. Len(b) + Len(x.chan)
          /\ (i <= Len(q) <=> k + i <= Len(b)) /\ i - Len(q) = k + i - Len(b)
      BY <1>1, <1>3, <1>4, <1>5
    <3>2. CASE i <= Len(q)
      <4>1. q[i] = b[k + i]
        BY <1>1, <1>3, <3>1, <3>2
      <4> QED
        BY <1>4, <1>5, <3>1, <3>2, <4>1
    <3>3. CASE ~(i <= Len(q))
      <4>1. ~(k + i <= Len(b))
        BY <3>1, <3>3
      <4>2. r[i] = x.chan[i - Len(q)] /\ full[k + i] = x.chan[k + i - Len(b)]
        BY <1>4, <1>5, <3>1, <3>3, <4>1
      <4> QED
        BY <3>1, <4>2
    <3> QED
      BY <3>2, <3>3
  <2> QED
    BY <2>1, <2>2
<1>8. /\ Rising(r) /\ ToSet(r) \subseteq 1 .. x.written
      /\ \A n \in ToSet(full) : n \in ToSet(r) \/ (k < Len(full) => n < r[1])
      /\ \A n \in ToSet(full) : n \in ToSet(r) \/ (k # 0 /\ n <= full[k])
  BY <1>1, <1>4, <1>5, <1>6, <1>7, SuffixRises
<1>9. ASSUME NEW n \in from .. x.written PROVE n \in ToSet(r) \cup x.lost
  <2>1. CASE b = <<>>
    <3>1. from = 1 /\ n \in 1 .. x.written /\ Len(b) = 0
      BY <1>1, <1>9, <2>1 DEF from, b
    <3>2. k = 0
      BY <1>3, <3>1
    <3> QED
      BY <1>6, <1>8, <2>1, <3>1, <3>2
  <2>2. CASE b # <<>>
    <3>1. Len(b) >= 1
      BY <1>1, <2>2, NotEmpty
    <3>2. k < Len(b) /\ k < Len(full) /\ 1 \in 1 .. Len(q) /\ 1 \in 1 .. Len(r)
      <4>1. k # Len(b)
        BY <1>1, <1>3, <3>1
      <4>2. k < Len(b) /\ 1 <= Len(q)
        BY <1>1, <1>3, <4>1
      <4>3. \A a, d, e \in Nat : k < a /\ 1 <= e => k < a + d /\ 1 \in 1 .. e /\ 1 \in 1 .. e + d
        OBVIOUS
      <4>4. Len(q) \in Nat
        BY <1>2
      <4>5. k < Len(b) + Len(x.chan) /\ 1 \in 1 .. Len(q) /\ 1 \in 1 .. Len(q) + Len(x.chan)
        BY <1>1, <4>2, <4>3, <4>4
      <4> QED
        BY <1>4, <1>5, <4>2, <4>5
    <3>3. q[1] = b[k + 1] /\ r[1] = q[1] /\ full[k + 1] = b[k + 1] /\ full[1] = b[1]
      <4>1. 1 \in 1 .. Len(b) - k /\ 1 \in 1 .. Len(q) + Len(x.chan) /\ 1 <= Len(q)
        BY <1>1, <1>3, <3>2, SMTT(30)
      <4>2. k + 1 \in 1 .. Len(b) + Len(x.chan) /\ 1 \in 1 .. Len(b) + Len(x.chan)
            /\ k + 1 <= Len(b) /\ 1 <= Len(b)
        BY <1>1, <3>1, <3>2, SMTT(30)
      <4>3. q[1] = b[k + 1]
        BY <1>3, <4>1
      <4>4. r[1] = q[1]
        BY <1>5, <4>1
      <4>5. full[k + 1] = b[k + 1] /\ full[1] = b[1]
        BY <1>4, <4>2
      <4> QED
        BY <4>3, <4>4, <4>5
    <3>4. from = q[1] /\ from \in Nat
      BY <1>2, <2>2, <3>2, ElementOfSeq DEF from, b
    <3>5. b[1] <= from /\ b[1] \in 1 .. x.written
      <4>1. k + 1 \in 1 .. Len(full) /\ 1 \in 1 .. Len(full)
        <5>1. Len(full) \in Nat
          BY <1>1, <1>4
        <5> QED
          BY <3>2, <5>1
      <4>2. full[1] \in ToSet(full) /\ full[k + 1] \in ToSet(full)
        BY <1>4, <4>1, InToSet
      <4>3. 1 = k + 1 \/ full[1] < full[k + 1]
        BY <1>3, <1>6, <4>1 DEF Rising
      <4> QED
        BY <1>1, <1>6, <3>3, <3>4, <4>2, <4>3
    <3>6. n \in 1 .. x.written /\ ~(n < b[1]) /\ ~(n < r[1])
      BY <1>1, <1>9, <3>3, <3>4, <3>5, SMTT(30)
    <3> QED
      BY <1>6, <1>8, <3>2, <3>6
  <2> QED
    BY <2>1, <2>2
<1> QED
  BY <1>8, <1>9 DEF q, r, from, b

\* What read_outputs leaves of a session's output.
LEMMA ReadOutcome ==
  ASSUME NEW x \in SessionType, NEW ok \in BOOLEAN
  PROVE  LET y == Read(x, ok)
         IN  /\ y.pending = <<>> /\ y.chan = <<>> /\ y.state = x.state /\ y.reader = x.reader
             /\ y.written = x.written /\ y.lost = x.lost /\ y.told = (x.told \/ Ends(x))
<1> DEFINE z == Drain(x)
           y == Read(x, ok)
<1>1. z \in SessionType
  BY SessionTypes
<1>2. /\ z.pending = <<>> /\ z.chan = <<>> /\ z.state = x.state /\ z.reader = x.reader
      /\ z.written = x.written /\ z.lost = x.lost /\ z.told = (x.told \/ Ends(x))
  BY DEF Drain, SessionType
<1>3. y = IF z.state = "active" THEN Sigwinch(z, ok) ELSE z
  BY DEF Read
<1> HIDE DEF z, y
<1>4. \/ y = z \/ y = [z EXCEPT !.phase = "idle", !.unsized = TRUE]
      \/ y = [z EXCEPT !.retries = @ - 1]
      \/ y = [z EXCEPT !.phase = "restore", !.retries = MAX_SIGWINCH_PHASE_ATTEMPTS,
                       !.pty = TempRows(z.rows)]
      \/ y = [z EXCEPT !.phase = "idle", !.retries = 0, !.pty = z.rows, !.unsized = FALSE]
  BY <1>1, <1>3, SigwinchCases, ZenonT(30)
<1>5. /\ y.pending = z.pending /\ y.chan = z.chan /\ y.state = z.state /\ y.reader = z.reader
      /\ y.written = z.written /\ y.lost = z.lost /\ y.told = z.told
  BY <1>1, <1>4, ZenonT(30) DEF SessionType
<1> QED
  BY <1>2, <1>5 DEF y

\* Concatenation is associative, and the empty sequence neutral.
LEMMA Joins ==
  \A a, b, d \in Seq(Nat) : /\ Join(a, b) \in Seq(Nat) /\ Join(a, <<>>) = a
                           /\ Join(Join(a, b), d) = Join(a, Join(b, d))
<1> TAKE a, b, d \in Seq(Nat)
<1>1. (a \o b) \o d = a \o (b \o d)
  BY Associative
<1>2. a \o b \in Seq(Nat) /\ a \o <<>> = a
  BY ConcatProperties, ConcatEmptySeq
<1> QED
  BY <1>1, <1>2 DEF Join

\* Moving output along towards the client changes nothing of the flow.
LEMMA FlowMoves ==
  ASSUME NEW a \in Seq(Nat), NEW b \in Seq(Nat), NEW p \in Seq(Nat), NEW d \in Seq(Nat)
  PROVE  /\ Join(Join(Join(a, Join(b, Join(p, d))), <<>>), <<>>) = Join(Join(Join(a, b), p), d)
         /\ Join(Join(Join(Join(a, b), <<>>), p), d) = Join(Join(Join(a, b), p), d)
<1> DEFINE ab == Join(a, b)
           pd == Join(p, d)
           all == Join(a, Join(b, pd))
<1>1. ab \in Seq(Nat) /\ pd \in Seq(Nat)
  BY Joins
<1>2. Join(b, pd) \in Seq(Nat)
  BY <1>1, Joins
<1>3. all \in Seq(Nat)
  BY <1>2, Joins
<1>4. Join(Join(all, <<>>), <<>>) = all /\ Join(ab, <<>>) = ab
  BY <1>1, <1>3, Joins
<1>5. all = Join(ab, pd)
  BY <1>1, Joins
<1>6. Join(ab, pd) = Join(Join(ab, p), d)
  BY <1>1, Joins
<1>7. Join(Join(all, <<>>), <<>>) = Join(Join(ab, p), d)
  BY <1>4, <1>5, <1>6
<1> QED
  BY <1>4, <1>7

\* A step that leaves the terminal of a client alone.
SameOutput(x, y) ==
    /\ y.state = x.state /\ y.told = x.told /\ y.pending = x.pending /\ y.chan = x.chan
    /\ y.written = x.written /\ y.lost = x.lost

LEMMA Quiet ==
  ASSUME NEW c \in Conns, NEW id \in Ids, Attached(c, id), Delivered(c, id),
         screen'[c][id] = screen[c][id],
         run'[c].out[id] = run[c].out[id], run'[c].todo \subseteq run[c].todo,
         run'[c].closed = run[c].closed, registered' \in {registered, None},
         registered' # None => service'[registered].sessions[id] = service[registered].sessions[id],
         SameOutput(session[screen[c][id].session], session'[screen[c][id].session])
  PROVE  Attached(c, id)' /\ Delivered(c, id)'
<1>1. Flow(c, id)' = Flow(c, id)
  BY SMTT(30) DEF Flow, SameOutput
<1>2. Delivered(c, id)'
  BY <1>1 DEF Delivered, SameOutput
<1>3. Attached(c, id)'
  BY DEF Attached, SameOutput
<1> QED
  BY <1>2, <1>3

\* A terminal that is live after a step which did not open it was so before.
LEMMA WasLive ==
  ASSUME TypeOK, LoneInv, [Next]_vars, NEW c \in Conns, NEW id \in Ids, Live(c, id)',
         screen'[c][id].session = screen[c][id].session,
         screen'[c][id].alone => screen[c][id].alone,
         screen[c][id].closed => screen'[c][id].closed,
         conn'[c] = "in" => conn[c] = "in"
  PROVE  /\ Live(c, id)
         /\ screen[c][id].session \in Sessions
         /\ session'[screen[c][id].session].reader # "none"
<1> DEFINE s == screen[c][id].session
<1>1. s \in Sessions /\ session[s] \in SessionType /\ session[s].state # "unused"
  BY DEF TypeOK, ScreenType, Live, Lone, LoneInv
<1>2. session'[s].reader # "none"
  BY DEF Live
<1>3. session[s].reader # "none"
  BY <1>1, <1>2, SessionSteps, StepFacts DEF Each
<1> QED
  BY <1>1, <1>2, <1>3 DEF Live, Lone

\* A terminal that a client has alone stays attached to its session, and its
\* output in order and complete, whatever step is taken.
LEMMA LiveStep ==
  ASSUME IInv, [Next]_vars, NEW c \in Conns, NEW id \in Ids, Live(c, id)'
  PROVE  Attached(c, id)' /\ Delivered(c, id)'
<1> DEFINE s == screen[c][id].session
           Goal == Attached(c, id)' /\ Delivered(c, id)'
<1>0. /\ conn \in [Conns -> {"out", "in", "dropped"}] /\ run \in [Conns -> RunType]
      /\ service \in [Conns -> ServiceType] /\ registered \in Conns \cup {None}
      /\ screen \in [Conns -> ScreenType] /\ session \in [Sessions -> SessionType]
      /\ TypeOK /\ Threads /\ SessionOwned /\ AllGood /\ LoneInv
  BY DEF IInv, TypeOK, ServiceType
<1>1. ASSUME Live(c, id) PROVE Attached(c, id) /\ Delivered(c, id)
  BY <1>1 DEF IInv, LiveInv, FlowInv
<1>2. ASSUME NEW d \in Conns, Live(c, id), conn[d] = "in" \/ run[d].pc \notin {"none", "dead"}
      PROVE  d = c
  BY <1>0, <1>2 DEF LoneInv, Threads, Live
<1>3. Dropped.reader = "none" /\ \A x \in SessionType : Stop(x).reader = "none"
  BY DEF Dropped, Unused, Stop, SessionType
\* The steps that leave this client's view as it is.
<1>4. ASSUME screen'[c][id] = screen[c][id], conn'[c] = "in" => conn[c] = "in"
      PROVE  Live(c, id) /\ s \in Sessions /\ session'[s].reader # "none"
  BY <1>0, <1>4, WasLive
<1>5. ASSUME screen'[c][id] = screen[c][id], conn'[c] = "in" => conn[c] = "in",
             run'[c].out[id] = run[c].out[id], run'[c].todo \subseteq run[c].todo,
             run'[c].closed = run[c].closed, registered' \in {registered, None},
             registered' # None => service'[registered].sessions[id] = service[registered].sessions[id],
             s \in Sessions /\ session'[s].reader # "none" => SameOutput(session[s], session'[s])
      PROVE  Goal
  BY <1>1, <1>4, <1>5, Quiet
<1>6. \A x : SameOutput(x, x)
  BY DEF SameOutput
<1>7. ASSUME NEW f, DropUnheld(f) PROVE \A r \in Sessions : session'[r].reader # "none" => session'[r] = f[r]
  BY <1>3, <1>7 DEF DropUnheld
<1>8. ASSUME NEW d \in Conns, NEW p \in Asked, Login(d, p) PROVE Goal
  BY <1>0, <1>8, LoginScreens DEF Live, Lone
<1>9. ASSUME NEW d \in Conns, NEW i \in Ids, HandleClose(d, i) PROVE Goal
  <2>1. c # d \/ id # i
    BY <1>0, <1>9, CloseScreens DEF Live
  <2>2. screen'[c][id] = screen[c][id]
    BY <1>0, <1>9, <2>1, CloseScreens
  <2>3. UNCHANGED <<registered, conn, run>> /\ DropUnheld(session) /\ conn[d] = "in" /\ registered \in Conns
    BY <1>0, <1>9 DEF HandleClose, HasOpen
  <2>4. Live(c, id)
    BY <1>4, <2>2, <2>3
  <2>5. i # id
    BY <1>2, <2>1, <2>3, <2>4
  <2>6. service'[registered].sessions[id] = service[registered].sessions[id]
    BY <1>0, <1>9, <2>3, <2>5 DEF HandleClose, ServiceType
  <2>7. s \in Sessions /\ session'[s].reader # "none" => SameOutput(session[s], session'[s])
    BY <1>6, <1>7, <2>3
  <2> QED
    BY <1>5, <2>2, <2>3, <2>6, <2>7
<1>10. ASSUME NEW d \in Conns, NEW i \in Ids, NEW rows \in Rows, HandleResize(d, i, rows) PROVE Goal
  <2> DEFINE r == service[registered].sessions[i]
  <2>1. PICK ok \in BOOLEAN : session' = [session EXCEPT ![r] = Resized(session[r], rows, ok)]
    BY <1>10 DEF HandleResize
  <2>2. r \in Sessions
    BY <1>0, <1>10 DEF HandleResize, HasOpen, ServiceType
  <2> HIDE DEF r
  <2>3. SameOutput(session[r], Resized(session[r], rows, ok))
    BY <1>0, <2>2 DEF Resized, SameOutput, SessionType
  <2>4. s \in Sessions => SameOutput(session[s], session'[s])
    BY <1>0, <1>6, <2>1, <2>2, <2>3
  <2>5. UNCHANGED <<registered, service, conn, run, screen>>
    BY <1>10 DEF HandleResize
  <2> QED
    BY <1>5, <2>4, <2>5
<1>11. ASSUME NEW d \in Conns, SetPersistent(d) PROVE Goal
  <2>1. registered # None => service'[registered].sessions = service[registered].sessions
    BY <1>0, <1>11 DEF SetPersistent, ServiceType
  <2> QED
    BY <1>5, <1>6, <1>11, <2>1 DEF SetPersistent
<1>12. ASSUME NEW d \in Conns, Disconnect(d) PROVE Goal
  <2>1. d # c /\ screen'[c] = screen[c] /\ conn'[c] = conn[c]
    BY <1>0, <1>12 DEF Disconnect, Live
  <2> QED
    BY <1>5, <1>6, <1>12, <2>1 DEF Disconnect
<1>13. ASSUME NEW d \in Conns, RunEnters(d) PROVE Goal
  <2>1. \A e \in Conns : /\ run'[e].out = run[e].out /\ run'[e].todo = run[e].todo
                         /\ run'[e].closed = run[e].closed
    BY <1>0, <1>13, EnterFields
  <2> QED
    BY <1>5, <1>6, <1>13, <2>1 DEF RunEnters
<1>14. ASSUME NEW d \in Conns, RunNeverEnters(d) \/ RunEnds(d) PROVE Goal
  <2>1. PICK pc : run' = [run EXCEPT ![d].pc = pc]
    BY <1>14 DEF RunNeverEnters, RunEnds
  <2>2. \A e \in Conns : /\ run'[e].out = run[e].out /\ run'[e].todo = run[e].todo
                         /\ run'[e].closed = run[e].closed
    BY <1>0, <2>1, PcFields
  <2> QED
    BY <1>5, <1>6, <1>14, <2>2 DEF RunNeverEnters, RunEnds
<1>15. ASSUME RemoveService, UNCHANGED <<conn, screen>>,
              run'[c].out = run[c].out, run'[c].todo = run[c].todo, run'[c].closed = run[c].closed
       PROVE  Goal
  <2> DEFINE f == [r \in Sessions |->
          IF registered /= None /\ \E i \in Ids : service[registered].sessions[i] = r
          THEN Stop(session[r]) ELSE session[r]]
  <2>1. DropUnheld(f) /\ registered' = None
    BY <1>15 DEF RemoveService
  <2>2. \A r \in Sessions : f[r] \in {session[r], Stop(session[r])}
    OBVIOUS
  <2> HIDE DEF f
  <2>3. s \in Sessions /\ session'[s].reader # "none" => session'[s] = session[s]
    <3> SUFFICES ASSUME s \in Sessions, session'[s].reader # "none" PROVE session'[s] = session[s]
      OBVIOUS
    <3>1. session'[s] = f[s]
      BY <1>7, <2>1
    <3>2. session[s] \in SessionType
      BY <1>0
    <3> QED
      BY <1>3, <2>2, <3>1, <3>2
  <2> QED
    BY <1>5, <1>6, <1>15, <2>1, <2>3
<1>16. ASSUME NEW d \in Conns, RunRemoves(d) PROVE Goal
  <2>1. \A e \in Conns : /\ run'[e].out = run[e].out /\ run'[e].todo = run[e].todo
                         /\ run'[e].closed = run[e].closed
    BY <1>0, <1>16, PcFields DEF RunRemoves
  <2> QED
    BY <1>15, <1>16, <2>1 DEF RunRemoves
<1>17. ASSUME CleanupRemoves PROVE Goal
  BY <1>15, <1>17 DEF CleanupRemoves
<1>18. ASSUME UNCHANGED <<registered, service, session, conn, run, screen>> PROVE Goal
  BY <1>5, <1>6, <1>18
<1>19. ASSUME NEW d \in Conns, NEW i \in Ids, NEW r \in Sessions, SkipSession(d, i, r) PROVE Goal
  <2>1. /\ run'[c].out = run[c].out /\ run'[c].todo \subseteq run[c].todo
        /\ run'[c].closed = run[c].closed
    BY <1>0, <1>19, SkipFields
  <2>2. DropUnheld(session) /\ UNCHANGED <<registered, service, conn, screen>>
    BY <1>19 DEF SkipSession
  <2>3. s \in Sessions /\ session'[s].reader # "none" => SameOutput(session[s], session'[s])
    BY <1>6, <1>7, <2>2
  <2> QED
    BY <1>5, <2>1, <2>2, <2>3
<1>20. ASSUME NEW r \in Sessions, ShellExits(r) PROVE Goal
  <2>1. s \in Sessions => SameOutput(session[s], session'[s])
    BY <1>0, <1>20, ZenonT(30) DEF ShellExits, SameOutput, SessionType
  <2> QED
    BY <1>5, <1>20, <2>1 DEF ShellExits
\* The steps that change what is on its way to the client, or in its list.
<1>21. ASSUME NEW d \in Conns, ReadOutputs(d) PROVE Goal
  <2> DEFINE todo == {<<i, service[registered].sessions[i]>> : i \in Mapped(registered)}
  <2>1. /\ UNCHANGED <<registered, service, session, conn, screen>> /\ registered \in Conns
        /\ run[d].pc = "loop"
    BY <1>0, <1>21 DEF ReadOutputs
  <2>2. Live(c, id) /\ s \in Sessions
    BY <1>4, <2>1
  <2>3. d = c
    BY <1>2, <2>1, <2>2
  <2>4. /\ run'[c].todo = todo /\ run'[c].out = run[c].out /\ run'[c].closed = run[c].closed
    BY <1>0, <1>21, <2>3 DEF ReadOutputs, RunType
  <2>5. /\ Attached(c, id) /\ Delivered(c, id)
    BY <1>1, <2>2
  <2>6. service[registered].sessions[id] = s
    BY <2>1, <2>5, NoneAssumption DEF Attached
  <2>7. \A t \in todo : t[1] = id <=> t[2] = s
    <3> SUFFICES ASSUME NEW i \in Mapped(registered)
                 PROVE  i = id <=> service[registered].sessions[i] = s
      OBVIOUS
    <3>1. id \in Mapped(registered)
      BY <2>2, <2>6, Resets DEF Mapped
    <3> QED
      BY <1>0, <2>1, <2>6, <3>1 DEF SessionOwned
  <2> HIDE DEF todo
  <2>8. Attached(c, id)'
    BY <2>1, <2>4, <2>5, <2>7 DEF Attached
  <2>9. Flow(c, id)' = Flow(c, id)
    BY <2>1, <2>4 DEF Flow
  <2> QED
    BY <2>1, <2>5, <2>8, <2>9 DEF Delivered
<1>22. ASSUME NEW d \in Conns, NEW i \in Ids, NEW r \in Sessions, ReadSession(d, i, r) PROVE Goal
  <2>1. /\ UNCHANGED <<registered, service, conn, screen>>
        /\ run[d].pc = "read" /\ <<i, r>> \in run[d].todo
    BY <1>22 DEF ReadSession
  <2>2. Live(c, id) /\ s \in Sessions /\ session'[s].reader # "none"
    BY <1>4, <2>1
  <2>3. d = c
    BY <1>2, <2>1, <2>2
  <2>4. Attached(c, id) /\ Delivered(c, id)
    BY <1>1, <2>2
  <2>5. i = id <=> r = s
    BY <2>1, <2>3, <2>4 DEF Attached
  <2>6. PICK ok \in BOOLEAN : DropUnheld([session EXCEPT ![r] = Read(session[r], ok)])
    BY <1>22 DEF ReadSession, Read
  <2>7. session'[s] = IF r = s THEN Read(session[s], ok) ELSE session[s]
    <3> DEFINE f == [session EXCEPT ![r] = Read(session[r], ok)]
    <3>1. f[s] = IF r = s THEN Read(session[s], ok) ELSE session[s]
      BY <1>0, <2>2
    <3> HIDE DEF f
    <3>2. DropUnheld(f)
      BY <2>6 DEF f
    <3>3. session'[s] = f[s]
      BY <1>7, <2>2, <3>2
    <3> QED
      BY <3>1, <3>3
  <2>8. /\ run'[c].todo \subseteq run[c].todo
        /\ run'[c].out[i] = Join(run[c].out[i], Shown(session[r]))
        /\ \A j \in Ids : j # i => run'[c].out[j] = run[c].out[j]
        /\ run'[c].closed = IF Ends(session[r]) THEN run[c].closed \cup {i} ELSE run[c].closed
    <3>1. ReadSession(c, i, r)
      BY <1>22, <2>3
    <3>2. run \in [Conns -> RunType]
      BY <1>0
    <3> HIDE DEF s
    <3>3. run'[c].todo \subseteq run[c].todo
      BY <3>1, <3>2, ReadFields
    <3>4. run'[c].closed = IF Ends(session[r]) THEN run[c].closed \cup {i} ELSE run[c].closed
      BY <3>1, <3>2, ReadFields
    <3>5. run'[c].out[i] = Join(run[c].out[i], Shown(session[r]))
      BY <3>1, <3>2, ReadOut
    <3>6. \A j \in Ids \ {i} : run'[c].out[j] = run[c].out[j]
      BY <3>1, <3>2, ReadOut
    <3> QED
      BY <3>3, <3>4, <3>5, <3>6
  <2>11. run[c].out \in [Ids -> Seq(Nat)]
    BY <1>0 DEF RunType
  <2>9. CASE i # id
    <3>1. session'[s] = session[s] /\ run'[c].out[id] = run[c].out[id]
      BY <2>5, <2>7, <2>8, <2>9, <2>11
    <3>2. Flow(c, id)' = Flow(c, id)
      BY <2>1, <3>1 DEF Flow
    <3>3. Attached(c, id)'
      BY <2>1, <2>4, <2>8, <3>1, SMTT(30) DEF Attached
    <3> QED
      BY <2>1, <2>4, <3>1, <3>2, <3>3 DEF Delivered
  <2>10. CASE i = id
    <3> DEFINE x == session[s]
               y == session'[s]
    <3>1. r = s /\ y = Read(x, ok) /\ x \in SessionType /\ x.state = "active"
      BY <1>0, <2>2, <2>4, <2>5, <2>7, <2>10 DEF Attached
    <3>2. /\ y.pending = <<>> /\ y.chan = <<>> /\ y.state = x.state
          /\ y.written = x.written /\ y.lost = x.lost /\ y.told = (x.told \/ Ends(x))
      BY <3>1, ReadOutcome
    <3>3. run'[c].out[id] = run[c].out[id] \o (x.pending \o x.chan)
      BY <2>8, <2>10, <2>11, <3>1, ZenonT(30) DEF Shown, Join
    <3>4. Flow(c, id)' = Flow(c, id)
      <4>1. /\ screen[c][id].shown \in Seq(Nat) /\ run[c].out[id] \in Seq(Nat)
            /\ x.pending \in Seq(Nat) /\ x.chan \in Seq(Nat)
        <5>1. screen[c][id].shown \in Seq(Nat)
          BY <1>0 DEF ScreenType
        <5>2. x.pending \in Seq(Nat) /\ x.chan \in Seq(Nat)
          BY <3>1 DEF SessionType
        <5> QED
          BY <2>11, <5>1, <5>2
      <4>2. Flow(c, id)' = Join(Join(Join(screen[c][id].shown,
                                  Join(run[c].out[id], Join(x.pending, x.chan))), <<>>), <<>>)
        BY <2>1, <3>2, <3>3, ZenonT(30) DEF Flow, Join
      <4>3. Flow(c, id) = Join(Join(Join(screen[c][id].shown, run[c].out[id]), x.pending), x.chan)
        BY DEF Flow, Join
      <4> HIDE DEF x
      <4> QED
        BY <4>1, <4>2, <4>3, FlowMoves
    <3>5. Attached(c, id)'
      <4>1. id \in run'[c].closed <=> id \in run[c].closed \/ Ends(x)
        BY <2>8, <2>10, <3>1
      <4> QED
        BY <2>1, <2>4, <2>8, <3>2, <4>1 DEF Attached
    <3> QED
      BY <2>1, <2>4, <3>2, <3>4, <3>5, ZenonT(30) DEF Delivered
  <2> QED
    BY <2>9, <2>10
<1>23. ASSUME NEW d \in Conns, SendResponses(d) PROVE Goal
  <2>1. /\ UNCHANGED <<registered, conn>> /\ DropUnheld(session)
        /\ run[d].pc = "read" /\ run[d].todo = {}
    BY <1>23 DEF SendResponses
  <2>2. CASE d # c
    <3>1. screen'[c][id] = screen[c][id]
      BY <1>23, <2>2, SendScreens, <1>0
    <3> QED
      BY <1>2, <1>4, <2>1, <2>2, <3>1
  <2>3. CASE d = c
    <3>1. /\ screen'[c][id].session = s /\ screen'[c][id].alone = screen[c][id].alone
          /\ screen'[c][id].from = screen[c][id].from /\ screen'[c][id].dead = screen[c][id].dead
      BY <1>0, <1>23, <2>3, SendScreens
    <3>2. conn[c] = "in" /\ Lone(c, id)
      BY <2>1, <3>1 DEF Live, Lone
    <3>3. /\ screen'[c][id].closed = (screen[c][id].closed \/ id \in run[c].closed)
          /\ screen'[c][id].shown = screen[c][id].shown \o run[c].out[id]
      BY <1>0, <1>23, <2>3, <3>2, SendScreens
    <3>4. Live(c, id) /\ s \in Sessions /\ session'[s].reader # "none"
      BY <1>0, <2>1, <3>1, <3>3, WasLive
    <3>5. id \notin run[c].closed /\ session'[s] = session[s]
      BY <1>7, <2>1, <3>3, <3>4 DEF Live
    <3>6. Attached(c, id) /\ Delivered(c, id)
      BY <1>1, <3>4
    <3>7. run'[c].todo = {} /\ run'[c].out = NoOutput
      BY <1>0, <1>23, <2>1, <2>3 DEF SendResponses, RunType
    <3>8. registered # None => service'[registered].sessions[id] = service[registered].sessions[id]
      BY <1>0, <1>23, <2>3, <3>5 DEF SendResponses, ServiceType
    <3>9. Attached(c, id)'
      BY <2>1, <3>1, <3>5, <3>6, <3>7, <3>8 DEF Attached
    <3>10. Flow(c, id)' = Flow(c, id)
      <4> DEFINE x == session[s]
      <4>1. /\ screen[c][id].shown \in Seq(Nat) /\ run[c].out[id] \in Seq(Nat)
            /\ x.pending \in Seq(Nat) /\ x.chan \in Seq(Nat)
        BY <1>0, <3>4, SMTT(30) DEF ScreenType, SessionType, RunType
      <4>2. Flow(c, id)' = Join(Join(Join(Join(screen[c][id].shown, run[c].out[id]), <<>>),
                                     x.pending), x.chan)
        BY <3>1, <3>3, <3>5, <3>7, ZenonT(30) DEF Flow, NoOutput, Join
      <4>3. Flow(c, id) = Join(Join(Join(screen[c][id].shown, run[c].out[id]), x.pending), x.chan)
        BY DEF Flow, Join
      <4> HIDE DEF x
      <4> QED
        BY <4>1, <4>2, <4>3, FlowMoves, SMTT(30)
    <3> QED
      BY <3>1, <3>5, <3>6, <3>9, <3>10 DEF Delivered
  <2> QED
    BY <2>2, <2>3
<1>24. ASSUME NEW r \in Sessions, ShellWrites(r) PROVE Goal
  <2>1. UNCHANGED <<registered, service, conn, run, screen>>
    BY <1>24 DEF ShellWrites
  <2>2. CASE r # s
    <3>1. s \in Sessions => session'[s] = session[s]
      BY <1>0, <1>24, <2>2 DEF ShellWrites
    <3> QED
      BY <1>5, <1>6, <2>1, <3>1
  <2>3. CASE r = s
    <3> DEFINE x == session[s]
               y == session'[s]
               w == x.written + 1
               q == Flow(c, id)
    <3>1. Live(c, id) /\ s \in Sessions
      BY <1>4, <2>1
    <3>2. Attached(c, id) /\ Delivered(c, id)
      BY <1>1, <3>1
    <3>3. x \in SessionType /\ x.written \in Nat /\ x.lost \in SUBSET Nat /\ w \in Nat
      <4>1. x \in SessionType
        BY <1>0, <3>1
      <4> QED
        <5>1. x.written \in Nat /\ x.lost \in SUBSET Nat
          BY <4>1 DEF SessionType
        <5> HIDE DEF x
        <5> QED
          BY <4>1, <5>1
    <3>4. screen[c][id].shown \o run[c].out[id] \o x.pending \in Seq(Nat) /\ x.chan \in Seq(Nat)
      <4>1. /\ screen[c][id].shown \in Seq(Nat) /\ run[c].out[id] \in Seq(Nat)
            /\ x.pending \in Seq(Nat) /\ x.chan \in Seq(Nat)
        <5>1. screen[c][id].shown \in Seq(Nat)
          BY <1>0 DEF ScreenType
        <5>2. run[c].out[id] \in Seq(Nat)
          BY <1>0 DEF RunType
        <5>3. x.pending \in Seq(Nat) /\ x.chan \in Seq(Nat)
          BY <3>3 DEF SessionType
        <5> QED
          BY <5>1, <5>2, <5>3
      <4>2. screen[c][id].shown \o run[c].out[id] \in Seq(Nat)
        BY <4>1, ConcatProperties
      <4> QED
        BY <4>1, <4>2, ConcatProperties
    <3>5. q = (screen[c][id].shown \o run[c].out[id] \o x.pending) \o x.chan /\ q \in Seq(Nat)
      BY <3>4, ConcatProperties DEF Flow
    <3>6. /\ Rising(q) /\ ToSet(q) \subseteq 1 .. x.written
          /\ \A n \in screen[c][id].from .. x.written : n \in ToSet(q) \cup x.lost
      BY <3>2 DEF Delivered
    <3>7. \A n \in screen[c][id].from .. w : n = w \/ n \in screen[c][id].from .. x.written
      <4>1. screen[c][id].from \in Nat
        BY <1>0 DEF ScreenType
      <4> QED
        BY <3>3, <4>1
    <3>8. CASE y = Wrote(x)
      <4>1. /\ y.state = x.state /\ y.told = x.told /\ y.pending = x.pending /\ y.lost = x.lost
            /\ y.written = w /\ y.chan = Append(x.chan, w)
        BY <3>3, <3>8, ZenonT(30) DEF Wrote, SessionType
      <4>2. Flow(c, id)' = (screen[c][id].shown \o run[c].out[id] \o x.pending) \o Append(x.chan, w)
        BY <2>1, <4>1, ZenonT(30) DEF Flow
      <4>3. Flow(c, id)' = Append(q, w)
        <5> DEFINE ahead == screen[c][id].shown \o run[c].out[id] \o x.pending
        <5>1. ahead \in Seq(Nat) /\ x.chan \in Seq(Nat) /\ q = ahead \o x.chan
              /\ Flow(c, id)' = ahead \o Append(x.chan, w)
          BY <3>4, <3>5, <4>2, ZenonT(30)
        <5> HIDE DEF ahead, q, w
        <5>2. ahead \o Append(x.chan, w) = Append(ahead \o x.chan, w)
          BY <3>3, <5>1, AppendLast, ZenonT(30)
        <5> QED
          BY <5>1, <5>2, ZenonT(30)
      <4>4. /\ Rising(Append(q, w)) /\ ToSet(Append(q, w)) = ToSet(q) \cup {w}
            /\ ToSet(q) \cup {w} \subseteq 1 .. w
        BY <3>3, <3>5, <3>6, AppendRises, ZenonT(30)
      <4>5. Attached(c, id)'
        BY <2>1, <3>2, <4>1, ZenonT(30) DEF Attached
      <4> HIDE DEF q
      <4>6. Delivered(c, id)'
        BY <2>1, <3>6, <3>7, <4>1, <4>3, <4>4, ZenonT(30) DEF Delivered
      <4> QED
        BY <4>5, <4>6
    <3>9. CASE y = Lost(x)
      <4>1. /\ y.state = x.state /\ y.told = x.told /\ y.pending = x.pending
            /\ y.lost = x.lost \cup {w} /\ y.written = w /\ y.chan = x.chan
        BY <3>3, <3>9, SMTT(30) DEF Lost, SessionType
      <4>2. Flow(c, id)' = q
        BY <2>1, <4>1 DEF Flow
      <4>3. 1 .. x.written \subseteq 1 .. w
        BY <3>3, SMTT(30)
      <4>4. Attached(c, id)'
        BY <2>1, <3>2, <4>1 DEF Attached
      <4> HIDE DEF q
      <4>5. Delivered(c, id)'
        BY <2>1, <3>6, <3>7, <4>1, <4>2, <4>3, ZenonT(30) DEF Delivered
      <4> QED
        BY <4>4, <4>5
    <3> QED
      BY <1>0, <1>24, <2>3, <3>1, <3>8, <3>9 DEF ShellWrites
  <2> QED
    BY <2>2, <2>3
<1>25. ASSUME NEW d \in Conns, NEW i \in Ids, HandleOpen(d, i) PROVE Goal
  <2> DEFINE k == registered
             map == Remap(k, i)
             m == service[k].sessions
  <2>1. /\ k \in Conns /\ conn[d] = "in" /\ UNCHANGED <<registered, conn, run>>
    BY <1>0, <1>25 DEF HandleOpen
  <2>2. /\ map \in [Ids -> Sessions \cup {NoSession}] /\ m \in [Ids -> Sessions \cup {NoSession}]
        /\ map = m \/ service[k].sync
    BY <1>0, <2>1, RemapCases DEF ServiceType
  \* Another terminal of the same client: the id is taken from no session of
  \* this service, since no reconnection is under way.
  <2>3. ASSUME screen'[c][id] = screen[c][id]
        PROVE  /\ Live(c, id) /\ s \in Sessions /\ d = c /\ map = m /\ m[id] = s
               /\ session[s].state # "unused"
    <3>1. Live(c, id) /\ s \in Sessions
      BY <1>4, <2>1, <2>3
    <3>2. d = c
      BY <1>2, <2>1, <3>1
    <3>3. map = m
      <4>1. registered # None /\ Lone(c, id)
        BY <2>1, <3>1, NoneAssumption DEF Live
      <4>2. ~service[registered].sync
        BY <1>0, <4>1 DEF LoneInv
      <4> QED
        BY <2>2, <4>2
    <3>4. m[id] = s
      BY <1>1, <2>1, <3>1, NoneAssumption DEF Attached
    <3>5. session[s].state # "unused"
      BY <1>0, <3>1 DEF LoneInv, Live, Lone
    <3> QED
      BY <3>1, <3>2, <3>3, <3>4, <3>5
  <2>4. ASSUME map[i] # NoSession,
               service' = [service EXCEPT ![k].sessions = map, ![k].sync = FALSE],
               Opened(d, i, map[i],
                      IF session[map[i]].buffer = <<>> THEN 1
                      ELSE LastN(session[map[i]].buffer, ReconnectChunks)[1],
                      session[map[i]].told),
               session' = [session EXCEPT ![map[i]] = Reattach(@)]
        PROVE  Goal
    <3> HIDE DEF map
    <3> DEFINE r == map[i]
               x == session[r]
               y == session'[r]
               from == IF x.buffer = <<>> THEN 1 ELSE LastN(x.buffer, ReconnectChunks)[1]
    <3>1. r \in Sessions /\ x \in SessionType /\ y = Reattach(x)
      BY <1>0, <2>2, <2>4
    <3>2. service'[k].sessions = map
      BY <1>0, <2>1, <2>4 DEF ServiceType
    <3>3. \A t \in Sessions : t # r => session'[t] = session[t]
      BY <1>0, <2>4
    <3>4. CASE c # d \/ id # i
      <4>1. screen'[c][id] = screen[c][id]
        BY <1>0, <2>4, <3>4, OpenScreens
      <4>2. Live(c, id) /\ s \in Sessions /\ d = c /\ map = m /\ m[id] = s
        BY <2>3, <4>1
      <4>3. s # r
        <5>1. i \in Mapped(k) /\ id \in Mapped(k)
          BY <2>4, <4>2, Resets DEF Mapped
        <5> QED
          BY <1>0, <2>1, <3>4, <4>2, <5>1 DEF SessionOwned
      <4> HIDE DEF r
      <4> QED
        BY <1>5, <1>6, <2>1, <3>2, <3>3, <4>1, <4>2, <4>3
    <3>5. CASE c = d /\ id = i
      <4>1. Opened(d, i, r, from, x.told)
        BY <2>4
      <4> DEFINE v == screen'[c][id]
      <4>2. /\ v.session = r /\ v.shown = <<>> /\ v.dead = x.told
            /\ v.alone <=> Alone(c, id, r)
            /\ Alone(c, id, r) => v.from = from
        <5> HIDE DEF from, x, r
        <5> QED
          BY <1>0, <3>5, <4>1, OpenScreens
      <4>3. Alone(c, id, r) /\ y.reader # "none"
        BY <4>2 DEF Live, Lone
      <4>4. /\ y.state = "active" /\ y.told = x.told /\ y.reader = x.reader /\ y.chan = x.chan
            /\ y.written = x.written /\ y.lost = x.lost
            /\ y.pending = LastN(x.buffer, ReconnectChunks)
        BY <3>1 DEF Reattach, SessionType
      <4>5. Attached(c, id)'
        BY <2>1, <3>2, <3>5, <4>2, <4>3, <4>4 DEF Attached, Alone
      <4>6. Flow(c, id)' = y.pending \o y.chan
        <5>1. run'[c].out[id] = <<>>
          BY <2>1, <4>3 DEF Alone
        <5>2. y.pending \in Seq(Nat)
          BY <3>1, <4>4, LastNProperties, Resets DEF SessionType
        <5>3. Flow(c, id)' = ((<<>> \o <<>>) \o y.pending) \o y.chan
          BY <4>2, <5>1 DEF Flow
        <5>4. <<>> \o <<>> = <<>> /\ <<>> \o y.pending = y.pending
          BY <5>2, ConcatEmptySeq
        <5> QED
          BY <5>3, <5>4
      <4>7. Recorded(x)
        BY <1>0, <3>1 DEF AllGood, Good
      <4>8. /\ Rising(LastN(x.buffer, ReconnectChunks) \o x.chan)
            /\ ToSet(LastN(x.buffer, ReconnectChunks) \o x.chan) \subseteq 1 .. x.written
            /\ \A n \in from .. x.written :
                  n \in ToSet(LastN(x.buffer, ReconnectChunks) \o x.chan) \cup x.lost
        BY <3>1, <4>3, <4>4, <4>7, ReplayJoins
      <4> HIDE DEF from, x, y, r
      <4>9. Delivered(c, id)'
        BY <4>2, <4>3, <4>4, <4>6, <4>8 DEF Delivered, y
      <4> QED
        BY <4>5, <4>9
    <3> QED
      BY <3>4, <3>5
  <2>5. ASSUME NEW r \in Sessions, map[i] = NoSession, session[r].state = "unused",
               service' = [service EXCEPT ![k].sessions[i] = r, ![k].sync = FALSE],
               Opened(d, i, r, 1, FALSE), session' = [session EXCEPT ![r] = NewSession]
        PROVE  Goal
    <3> HIDE DEF map
    <3>1. service'[k].sessions = [m EXCEPT ![i] = r]
      BY <1>0, <2>1, <2>5 DEF ServiceType
    <3>2. session'[r] = NewSession /\ \A t \in Sessions : t # r => session'[t] = session[t]
      BY <1>0, <2>5
    <3> DEFINE no == FALSE
    <3>5. Opened(d, i, r, 1, no)
      BY <2>5
    <3> HIDE DEF no
    <3>3. CASE c # d \/ id # i
      <4>1. screen'[c][id] = screen[c][id]
        BY <1>0, <3>3, <3>5, OpenScreens
      <4>2. /\ Live(c, id) /\ s \in Sessions /\ d = c /\ map = m /\ m[id] = s
            /\ session[s].state # "unused"
        BY <2>3, <4>1
      <4>3. s # r /\ service'[k].sessions[id] = m[id]
        BY <2>2, <2>5, <3>1, <3>3, <4>2
      <4> QED
        BY <1>5, <1>6, <2>1, <3>2, <4>1, <4>2, <4>3
    <3>4. CASE c = d /\ id = i
      <4> DEFINE v == screen'[c][id]
      <4>1. /\ v.session = r /\ v.shown = <<>> /\ v.dead = no
            /\ v.alone <=> Alone(c, id, r)
            /\ Alone(c, id, r) => v.from = 1
        BY <1>0, <3>4, <3>5, OpenScreens
      <4>2. Alone(c, id, r)
        BY <4>1 DEF Live, Lone
      <4>3. /\ NewSession.state = "active" /\ NewSession.told = FALSE /\ NewSession.pending = <<>>
            /\ NewSession.chan = <<>> /\ NewSession.written = 0
        BY DEF NewSession, Unused
      <4>4. service'[k].sessions[id] = r
        BY <2>2, <3>1, <3>4
      <4>5. Attached(c, id)'
        BY <2>1, <3>2, <4>1, <4>2, <4>3, <4>4 DEF Attached, Alone
      <4>6. Flow(c, id)' = <<>>
        <5>1. run'[c].out[id] = <<>>
          BY <2>1, <4>2 DEF Alone
        <5>2. Flow(c, id)' = ((<<>> \o <<>>) \o <<>>) \o <<>>
          BY <3>2, <4>1, <4>3, <5>1 DEF Flow
        <5>3. <<>> \o <<>> = <<>>
          BY ConcatEmptySeq, Resets
        <5> QED
          BY <5>2, <5>3
      <4>7. Rising(<<>>) /\ ToSet(<<>>) = {} /\ 1 .. 0 = {}
        BY DEF Rising, ToSet
      <4>8. Delivered(c, id)'
        BY <3>2, <4>1, <4>2, <4>3, <4>6, <4>7 DEF Delivered
      <4> QED
        BY <4>5, <4>8
    <3> QED
      BY <3>3, <3>4
  <2> QED
    BY <1>25, <2>4, <2>5 DEF HandleOpen
<1> HIDE DEF Goal
<1>26. ASSUME NEW d \in Conns, ConnTask(d) PROVE Goal
  BY <1>8, <1>9, <1>10, <1>11, <1>12, <1>25, <1>26 DEF ConnTask
<1>27. ASSUME NEW d \in Conns, RunThread(d) PROVE Goal
  BY <1>13, <1>14, <1>16, <1>19, <1>21, <1>22, <1>23, <1>27 DEF RunThread
<1>28. ASSUME CleanupChooses \/ CleanupRemoves \/ UNCHANGED vars PROVE Goal
  BY <1>17, <1>18, <1>28 DEF CleanupChooses, vars
<1>29. ASSUME NEW r \in Sessions, ShellWrites(r) \/ ShellExits(r) PROVE Goal
  BY <1>20, <1>24, <1>29
<1> HIDE DEF s
<1>30. Goal
  BY <1>26, <1>27, <1>28, <1>29 DEF Next
<1> QED
  BY <1>30 DEF Goal

\* The inductive step, and the invariant of the specification.
LEMMA NextIInv == ASSUME IInv, [Next]_vars PROVE IInv'
<1>1. TypeOK /\ Threads /\ Unborn /\ Watched /\ SessionOwned /\ AllGood /\ LoneInv
  BY DEF IInv
<1>2. TypeOK' /\ AllGood'
  BY <1>1, TypeStep
<1>3. Threads' /\ Watched' /\ Unborn' /\ SessionOwned' /\ LoneInv'
  BY <1>1, ThreadsStep, WatchedStep, UnbornStep, OwnedStep, LoneStep
<1>4. LiveInv' /\ FlowInv'
  BY LiveStep DEF LiveInv, FlowInv
<1> QED
  BY <1>2, <1>3, <1>4 DEF IInv

LEMMA IInvAlways == Spec => []IInv
  BY InitIInv, NextIInv, PTL DEF Spec

\* Every variable keeps its type, the channel and the buffer their bounds.
THEOREM TerminalTypes == Spec => []TypeOK
<1>1. IInv => TypeOK
  BY DEF IInv
<1> QED
  BY <1>1, IInvAlways, PTL

\* A shell runs, and its session is kept, exactly as long as the registry or a
\* thread names it, and no service has a session under two ids.
THEOREM ShellsHaveOwners == Spec => []SessionOwned
<1>1. IInv => SessionOwned
  BY DEF IInv
<1> QED
  BY <1>1, IInvAlways, PTL

\* After the two-phase resize the shell has the height its client asked for,
\* unless a resize failed.
THEOREM SizeComesBack == Spec => []SizeRestored
<1>1. IInv => SizeRestored
  BY DEF IInv, AllGood, Good, SizeRestored
<1> QED
  BY <1>1, IInvAlways, PTL

\* A service that has outlived all its connections is a persistent one, or one
\* whose run thread was told to end before it began.
THEOREM LeftoverPersists == Spec => []LeftoverIsPersistent
<1>1. ASSUME IInv PROVE LeftoverIsPersistent
  <2> SUFFICES ASSUME \A c \in Conns : run[c].pc \in {"none", "dead"}, registered # None
               PROVE  \/ service[registered].persistent
                      \/ \E c \in Conns : run[c].pc = "dead" /\ ~run[c].entered
    BY DEF LeftoverIsPersistent
  <2> QED
    BY <1>1 DEF IInv, Watched
<1> QED
  BY <1>1, IInvAlways, PTL

\* The end of a terminal is reported to the client that has it open, and a
\* client finds its session under its id.
THEOREM EndReachesClient == Spec => []EndIsTold
<1>1. ASSUME IInv PROVE EndIsTold
  <2> SUFFICES ASSUME NEW c \in Conns, NEW id \in Ids,
                      screen[c][id].session # NoSession, screen[c][id].alone, conn[c] = "in",
                      ~screen[c][id].closed, registered # None,
                      session[screen[c][id].session].reader # "none"
               PROVE  \/ id \in run[c].closed
                      \/ /\ service[registered].sessions[id] = screen[c][id].session
                         /\ session[screen[c][id].session].told => screen[c][id].dead
    BY DEF EndIsTold
  <2>1. Attached(c, id)
    BY <1>1 DEF IInv, LiveInv, Live, Lone
  <2> QED
    BY <2>1 DEF Attached
<1> QED
  BY <1>1, IInvAlways, PTL

\* A reconnected client is shown the replay and then the live output with no
\* chunk twice, out of order or missing but those a full channel dropped.
THEOREM OutputContinues == Spec => []StreamContinues
<1>1. ASSUME IInv PROVE StreamContinues
  <2> SUFFICES ASSUME NEW c \in Conns, NEW id \in Ids, Live(c, id)
               PROVE  /\ \A i \in 1 .. Len(Flow(c, id)) - 1 : Flow(c, id)[i] < Flow(c, id)[i + 1]
                      /\ screen[c][id].from .. session[screen[c][id].session].written
                            \subseteq ToSet(Flow(c, id)) \cup session[screen[c][id].session].lost
    BY DEF StreamContinues, Live, Lone
  <2>1. Delivered(c, id)
    BY <1>1 DEF IInv, FlowInv
  <2>2. Flow(c, id) \in Seq(Nat)
    <3> DEFINE s == screen[c][id].session
    <3>1. s \in Sessions /\ screen[c][id].shown \in Seq(Nat)
      BY <1>1 DEF IInv, TypeOK, ScreenType, Live, Lone
    <3>2. run[c].out[id] \in Seq(Nat)
      BY <1>1 DEF IInv, TypeOK, RunType
    <3>3. session[s].pending \in Seq(Nat) /\ session[s].chan \in Seq(Nat)
      BY <1>1, <3>1 DEF IInv, TypeOK, SessionType
    <3>4. Flow(c, id) = Join(Join(Join(screen[c][id].shown, run[c].out[id]), session[s].pending),
                             session[s].chan)
      BY DEF Flow, Join
    <3>5. Join(screen[c][id].shown, run[c].out[id]) \in Seq(Nat)
      BY <3>1, <3>2, Joins
    <3>6. Join(Join(screen[c][id].shown, run[c].out[id]), session[s].pending) \in Seq(Nat)
      BY <3>3, <3>5, Joins
    <3> QED
      BY <3>3, <3>4, <3>6, Joins, ZenonT(30)
  <2>3. \A i \in 1 .. Len(Flow(c, id)) - 1 : Flow(c, id)[i] < Flow(c, id)[i + 1]
    <3> DEFINE q == Flow(c, id)
    <3>1. Len(q) \in Nat /\ Rising(q)
      BY <2>1, <2>2 DEF Delivered
    <3> HIDE DEF q
    <3>2. \A i \in 1 .. Len(q) - 1 : i \in 1 .. Len(q) /\ i + 1 \in 1 .. Len(q) /\ i < i + 1
      BY <3>1
    <3>3. \A i \in 1 .. Len(q) - 1 : q[i] < q[i + 1]
      BY <3>1, <3>2 DEF Rising
    <3> QED
      BY <3>3 DEF q
  <2> QED
    BY <2>1, <2>3 DEF Delivered
<1> QED
  BY <1>1, IInvAlways, PTL
=============================================================================
