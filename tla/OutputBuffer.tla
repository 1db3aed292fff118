---------------------------- MODULE OutputBuffer ----------------------------
(***************************************************************************)
(* OutputBuffer of src/server/terminal_service.rs: the recent output of a  *)
(* terminal, kept line by line for the replay after a reconnection.        *)
(* read_outputs appends what the shell wrote in chunks that end anywhere;  *)
(* handle_open asks for the most recent bytes.                             *)
(*                                                                         *)
(* A byte is <<its position in the output, its kind>>; the kinds are the   *)
(* newline, the continuation byte of a UTF-8 character ("rest") and every  *)
(* other ("text").  total_size is a usize: it wraps in a release build.    *)
(***************************************************************************)
EXTENDS Integers, SequencesExt

CONSTANTS
    MAX_OUTPUT_BUFFER_SIZE,
    MAX_BUFFER_LINES,
    UsizeValues,          \* the number of values of a usize
    MaxChunk,             \* bound: bytes of one read of the shell's output
    MaxOutput             \* bound: bytes of the whole output

ASSUME OutputBufferAssumption ==
    /\ MAX_OUTPUT_BUFFER_SIZE \in Nat /\ MAX_BUFFER_LINES \in Nat
    /\ MaxChunk \in Nat \ {0} /\ MaxOutput \in Nat
    /\ UsizeValues \in Nat /\ UsizeValues > MAX_OUTPUT_BUFFER_SIZE + MaxOutput

VARIABLES
    buffer,     \* the OutputBuffer
    output,     \* history: every byte appended
    uncounted,  \* history: bytes held or removed that total_size never counted
    spinning    \* the trimming loop of the last append never ends

vars == <<buffer, output, uncounted, spinning>>

Kinds == {"text", "rest", "newline"}
Kind(byte) == byte[2]
Size(lines) == Len(FlattenSeq(lines))
---------------------------------------------------------------------------
NewlinePositions(data) == {i \in DOMAIN data : Kind(data[i]) = "newline"}

\* The lines of data, each with its newline; the last may have none.  A byte
\* begins a line when it is the first or follows a newline.
SplitLines(data) ==
    LET lines[n \in 0 .. Len(data)] ==
            IF n = 0 THEN <<>>
            ELSE IF n = 1 \/ Kind(data[n - 1]) = "newline"
            THEN Append(lines[n - 1], <<data[n]>>)
            ELSE [lines[n - 1] EXCEPT ![Len(lines[n - 1])] = Append(@, data[n])]
    IN  lines[Len(data)]

TooLarge(b) ==
    b.total_size > MAX_OUTPUT_BUFFER_SIZE \/ Len(b.lines) > MAX_BUFFER_LINES

RemoveOldest(b, k) ==
    [b EXCEPT !.lines = SubSeq(@, k + 1, Len(@)),
              !.total_size = (@ - Size(SubSeq(b.lines, 1, k))) % UsizeValues]

\* The number of lines the trimming loop removes.  The set is empty when the
\* buffer still is too large after its last line: the loop then has nothing
\* to remove and never ends.
Trim(b) ==
    {k \in 0 .. Len(b.lines) :
        /\ ~TooLarge(RemoveOldest(b, k))
        /\ \A j \in 0 .. k - 1 : TooLarge(RemoveOldest(b, j))}

\* The last line goes on and data does not complete it.
ContinuesLine(b, data) ==
    b.last_line_incomplete /\ b.lines /= <<>> /\ NewlinePositions(data) = {}

ExtendLast(b, data) == [b.lines EXCEPT ![Len(b.lines)] = @ \o data]

\* How much of data completes the last line.
CompletingBytes(b, data) ==
    IF b.last_line_incomplete /\ b.lines /= <<>>
    THEN CHOOSE i \in NewlinePositions(data) :
            \A j \in NewlinePositions(data) : i <= j
    ELSE 0

\* Mutant of AppendLines: the remaining data begins at the newline.
AppendFromNewline(b, data) ==
    LET n == CompletingBytes(b, data)
        rest == SubSeq(data, IF n = 0 THEN 1 ELSE n, Len(data))
        open == Kind(Last(rest)) /= "newline"
    IN  [lines |-> (IF n = 0 THEN b.lines ELSE ExtendLast(b, SubSeq(data, 1, n)))
                       \o SplitLines(rest),
         total_size |-> (b.total_size + Len(rest)) % UsizeValues,
         last_line_incomplete |-> open \/ (n = 0 /\ b.last_line_incomplete)]

\* append, up to its trimming: the completed line's bytes are not counted.
AppendLines(b, data) ==
    LET n == CompletingBytes(b, data)
        rest == SubSeq(data, n + 1, Len(data))
        open == rest /= <<>> /\ Kind(Last(rest)) /= "newline"
    IN  [lines |-> (IF n = 0 THEN b.lines ELSE ExtendLast(b, SubSeq(data, 1, n)))
                       \o SplitLines(rest),
         total_size |-> (b.total_size + Len(rest)) % UsizeValues,
         last_line_incomplete |-> open \/ (n = 0 /\ b.last_line_incomplete)]

\* Mutant of GetRecent: the bytes are cut without regard to characters.
GetRecentUnaligned(b, max_bytes) ==
    LET held == FlattenSeq(b.lines)
        n == IF max_bytes < Len(held) THEN max_bytes ELSE Len(held)
    IN  SubSeq(held, Len(held) - n + 1, Len(held))

\* get_recent: whole lines from the newest on, or the tail of the newest, cut
\* at most three bytes later so that it begins with a character.
GetRecent(b, max_bytes) ==
    LET lines == b.lines
        Newest(k) == FlattenSeq(SubSeq(lines, Len(lines) - k + 1, Len(lines)))
        fit == {k \in 0 .. Len(lines) : Len(Newest(k)) <= max_bytes}
        line == Last(lines)
        Begins(i) == i > Len(line) \/ Kind(line[i]) /= "rest"
        cut == Len(line) - max_bytes
        skip == CHOOSE s \in 0 .. 3 :
                   /\ s = 3 \/ Begins(cut + s + 1)
                   /\ \A t \in 0 .. s - 1 : ~Begins(cut + t + 1)
    IN  IF max_bytes = 0 \/ lines = <<>> THEN <<>>
        ELSE IF fit = {0} THEN SubSeq(line, cut + skip + 1, Len(line))
        ELSE Newest(CHOOSE k \in fit : \A j \in fit : j <= k)
---------------------------------------------------------------------------
Init ==
    /\ buffer = [lines |-> <<>>, total_size |-> 0, last_line_incomplete |-> FALSE]
    /\ output = <<>> /\ uncounted = 0 /\ spinning = FALSE

AppendData(data) ==
    /\ ~spinning
    /\ output' = output \o data
    /\ IF ContinuesLine(buffer, data)
       THEN /\ buffer' = [buffer EXCEPT
                  !.lines = ExtendLast(buffer, data),
                  !.total_size = (@ + Len(data)) % UsizeValues]
            /\ UNCHANGED <<uncounted, spinning>>
       ELSE LET b == AppendLines(buffer, data) IN
            /\ uncounted' = uncounted + CompletingBytes(buffer, data)
            /\ \/ \E k \in Trim(b) : buffer' = RemoveOldest(b, k)
                                     /\ spinning' = FALSE
               \/ /\ Trim(b) = {}
                  /\ buffer' = RemoveOldest(b, Len(b.lines))
                  /\ spinning' = TRUE

\* A read of the shell's output.
Next ==
    \E n \in 1 .. MaxChunk : \E kinds \in [1 .. n -> Kinds] :
        /\ Len(output) + n <= MaxOutput
        /\ AppendData([i \in 1 .. n |-> <<Len(output) + i, kinds[i]>>])

Spec == Init /\ [][Next]_vars
---------------------------------------------------------------------------
\* What is held is the end of the output: appending to an unfinished line,
\* splitting and trimming neither lose, repeat nor reorder a byte, and the
\* account of the size is off by exactly the bytes that completed a line
\* begun by an earlier chunk, which append never adds.
TailKept ==
    /\ IsSuffix(FlattenSeq(buffer.lines), output)
    /\ buffer.total_size = (Size(buffer.lines) - uncounted) % UsizeValues

\* get_recent answers with the end of the output, within the limit asked for
\* and without a gap ("preserving chronological continuity"); it begins inside
\* a character only at the beginning of a line held, as a chunk may begin one
\* anywhere, or when more than three continuation bytes follow the cut.
RecentIsTail ==
    \A max \in 0 .. MaxOutput :
        LET recent == GetRecent(buffer, max) IN
        /\ Len(recent) <= max
        /\ IsSuffix(recent, FlattenSeq(buffer.lines))
        /\ recent = <<>> \/ Kind(recent[1]) /= "rest"
           \/ \/ \E k \in DOMAIN buffer.lines : buffer.lines[k][1] = recent[1]
              \/ \A d \in 1 .. 3 :
                    LET at == recent[1][1] - d IN
                    at > 0 /\ Kind(output[at]) = "rest"
=============================================================================
