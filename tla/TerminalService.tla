-------------------------- MODULE TerminalService --------------------------
(***************************************************************************)
(* The terminal service of src/server/terminal_service.rs and its use by   *)
(* src/server/connection.rs.  A service outlives its connection when it is *)
(* persistent; the next connection that presents its id finds the shells   *)
(* again and is shown the recent output before the live one.               *)
(*                                                                         *)
(* Actors: each connection's task (login, terminal actions, drop), each    *)
(* connection's run thread (read_outputs every 30 ms, removal of a service *)
(* that is not persistent), the clean-up thread and the shells.  A step is *)
(* what an actor does under one lock.  A service is an object named after  *)
(* the connection that created it; the registry holds at most one, since   *)
(* all connections present the same service id.  An Arc is the name of its *)
(* object: a session that nothing names any more is dropped, which stops   *)
(* its shell.                                                              *)
(*                                                                         *)
(* Taken together: handle_action's lookup of the service with its use, and *)
(* read_outputs' look at persistence with its list of sessions.  Keyboard  *)
(* input (handle_data), which changes no state but the shell's, is left    *)
(* out, and so are the limit on services and the helper of Windows.        *)
(*                                                                         *)
(* Data: the output of a shell is the sequence of chunks 1, 2, ...  The    *)
(* byte-level buffer is module OutputBuffer; here it keeps whole chunks.   *)
(***************************************************************************)
EXTENDS Integers, Sequences, SequencesExt

CONSTANTS
    Conns,                        \* connections that present the service id
    Ids,                          \* terminal ids of the clients
    Asked,                        \* whether a login asks for persistence
    OpenRows,                     \* height of a new terminal
    Rows,                         \* heights the client's view may get
    CHANNEL_BUFFER_SIZE,
    MAX_BUFFER_LINES,             \* chunks the output buffer keeps
    ReconnectChunks,              \* DEFAULT_RECONNECT_BUFFER_BYTES, in chunks
    MAX_SIGWINCH_PHASE_ATTEMPTS,
    Sessions,                     \* bound: sessions ever opened
    MaxOutput,                    \* bound: chunks a shell writes
    MaxChanges                    \* bound: resizes, failed ones, options, clean-ups

ASSUME TerminalAssumption ==
    /\ Ids \subseteq Nat \ {0} /\ Sessions \subseteq Nat \ {0} /\ Rows \subseteq Nat \ {0}
    /\ OpenRows \in Nat \ {0} /\ Asked \subseteq BOOLEAN
    /\ {CHANNEL_BUFFER_SIZE, MAX_BUFFER_LINES, ReconnectChunks,
        MAX_SIGWINCH_PHASE_ATTEMPTS, MaxOutput} \subseteq Nat \ {0}
    /\ ReconnectChunks <= MAX_BUFFER_LINES
    /\ MaxChanges \in Nat

VARIABLES
    registered,  \* TERMINAL_SERVICES: the service object under the id
    service,     \* the service objects
    session,     \* the TerminalSessions
    conn,        \* the connections' tasks
    run,         \* the run threads
    cleanup,     \* the clean-up thread has chosen the service
    screen,      \* history: what each client was shown of each terminal, as
                 \* long as it alone uses the service
    changes      \* history: resizes, failed ones, options, clean-ups so far

vars == <<registered, service, session, conn, run, cleanup, screen, changes>>

None == "none"
ASSUME NoneAssumption == None \notin Conns
NoSession == 0
NoService == [persistent |-> FALSE, sync |-> FALSE, sessions |-> [id \in Ids |-> NoSession]]
NoScreen == [id \in Ids |-> [session |-> NoSession, shown |-> <<>>, closed |-> FALSE,
                             alone |-> FALSE, from |-> 1, dead |-> FALSE]]
NoOutput == [id \in Ids |-> <<>>]
LastN(s, n) == SubSeq(s, IF Len(s) > n THEN Len(s) - n + 1 ELSE 1, Len(s))
Mapped(k) == {id \in Ids : service[k].sessions[id] /= NoSession}
---------------------------------------------------------------------------
(* Sessions                                                                *)

Unused ==
    [state |-> "unused", pending |-> <<>>, phase |-> "idle", retries |-> 0,
     rows |-> 0, pty |-> 0, unsized |-> FALSE, buffer |-> <<>>, chan |-> <<>>,
     reader |-> "none", told |-> FALSE, written |-> 0, lost |-> {}]

NewSession ==
    [Unused EXCEPT !.state = "active", !.rows = OpenRows, !.pty = OpenRows, !.reader = "alive"]

\* stop: the threads are joined, the channel and the shell are gone.
Stop(s) == [s EXCEPT !.state = "closed", !.pending = <<>>, !.phase = "idle",
                     !.retries = 0, !.chan = <<>>, !.reader = "none",
                     !.written = 0, !.lost = {}]

Dropped == [Unused EXCEPT !.state = "dropped"]

\* reset_status, for one session
Close(s) == [s EXCEPT !.state = "closed", !.pending = <<>>, !.phase = "idle",
                      !.retries = 0]

\* handle_open of an existing session
Reattach(s) ==
    [s EXCEPT !.state = "active", !.pending = LastN(s.buffer, ReconnectChunks),
              !.phase = "temp", !.retries = MAX_SIGWINCH_PHASE_ATTEMPTS]

\* resize_pty; the height is noted before the pty is resized.
Resized(s, rows, ok) ==
    [s EXCEPT !.rows = rows, !.pty = IF ok THEN rows ELSE @, !.unsized = ~ok]

TempRows(rows) == IF rows > 2 THEN rows - 1 ELSE rows + 1

\* Mutant of Sigwinch: the second phase resizes as the first.
SigwinchTwice(s, ok) ==
    [s EXCEPT !.phase = IF s.phase = "temp" THEN "restore" ELSE "idle",
              !.pty = IF s.phase = "idle" THEN @ ELSE TempRows(s.rows)]

\* One call's share of the two-phase resize; ok: the resize succeeds.
Sigwinch(s, ok) ==
    CASE s.phase = "idle" -> s
      [] s.phase /= "idle" /\ s.retries = 0 ->
            [s EXCEPT !.phase = "idle", !.unsized = TRUE]
      [] s.phase /= "idle" /\ s.retries > 0 /\ ~ok -> [s EXCEPT !.retries = @ - 1]
      [] s.phase = "temp" /\ s.retries > 0 /\ ok ->
            [s EXCEPT !.phase = "restore", !.retries = MAX_SIGWINCH_PHASE_ATTEMPTS,
                      !.pty = TempRows(s.rows)]
      [] s.phase = "restore" /\ s.retries > 0 /\ ok ->
            [s EXCEPT !.phase = "idle", !.retries = 0, !.pty = s.rows, !.unsized = FALSE]

\* read_outputs, for one session: the channel is always drained into the
\* buffer, and shown with the pending history when the session is active.
Ends(s) == ~s.told /\ s.reader = "finished"
Shown(s) == IF s.state = "active" THEN s.pending \o s.chan ELSE <<>>

\* Mutant of Drain: what is shown is not kept for the next connection.
DrainUnshown(s) ==
    [s EXCEPT !.told = @ \/ Ends(s), !.chan = <<>>, !.pending = <<>>,
              !.buffer = IF s.state = "active" THEN @
                         ELSE LastN(@ \o s.chan, MAX_BUFFER_LINES)]

Drain(s) ==
    [s EXCEPT !.told = @ \/ Ends(s), !.chan = <<>>, !.pending = <<>>,
              !.buffer = LastN(@ \o s.chan, MAX_BUFFER_LINES)]

\* Who still names a service, and a session: the registry, a service that a
\* thread holds, or a run thread's list.
Named(k) == k = registered \/ \E c \in Conns : k = run[c].service

Held(s) ==
    \/ \E k \in Conns :
          /\ Named(k)
          /\ \E id \in Ids : service[k].sessions[id] = s
    \/ \E c \in Conns : \E id \in Ids : <<id, s>> \in run[c].todo

\* What a step leaves of the sessions: those nobody names any more are
\* dropped, which stops their shells.
DropUnheld(sessions) ==
    session' = [s \in Sessions |->
                   IF sessions[s].state = "unused" \/ Held(s)' THEN sessions[s]
                   ELSE Dropped]
---------------------------------------------------------------------------
(* The registry                                                            *)

RemoveService ==
    /\ registered' = None
    /\ service' = [k \in Conns |-> IF Named(k)' THEN service[k] ELSE NoService]
    /\ DropUnheld([s \in Sessions |->
          IF registered /= None /\ \E id \in Ids : service[registered].sessions[id] = s
          THEN Stop(session[s]) ELSE session[s]])

\* cleanup_inactive_services: the choice and the removal are two steps.  An
\* hour without a terminal action may pass before any step, since neither
\* output nor a login is activity.
CleanupChooses ==
    /\ ~cleanup /\ registered /= None
    /\ changes < MaxChanges /\ changes' = changes + 1
    /\ ~service[registered].persistent \/ Mapped(registered) = {}
    /\ cleanup' = TRUE
    /\ UNCHANGED <<registered, service, session, conn, run, screen>>

CleanupRemoves ==
    /\ cleanup /\ cleanup' = FALSE
    /\ UNCHANGED <<conn, run, screen, changes>>
    /\ RemoveService

---------------------------------------------------------------------------
(* A connection's task                                                     *)

\* init_terminal_service: get_or_create_service with reset_status, the run
\* thread and its subscription.
Login(c, persistent) ==
    LET k == IF registered = None THEN c ELSE registered IN
    /\ conn[c] = "out"
    /\ conn' = [conn EXCEPT ![c] = "in"]
    /\ run' = [run EXCEPT ![c].pc = "wait"]
    /\ registered' = k
    /\ service' = [service EXCEPT ![k].persistent = persistent, ![k].sync = TRUE]
    /\ session' = [s \in Sessions |->
          IF \E id \in Ids : service[k].sessions[id] = s THEN Close(session[s])
          ELSE session[s]]
    /\ screen' = [d \in Conns |-> [id \in Ids |->
                    [screen[d][id] EXCEPT !.alone = FALSE, !.shown = <<>>, !.from = 1]]]
    /\ UNCHANGED <<cleanup, changes>>

\* Mutant of Remap: it happens without a reconnection.
RemapAlways(k, id) ==
    LET m == service[k].sessions
        lowest == CHOOSE i \in Mapped(k) : \A j \in Mapped(k) : i <= j
    IN  IF m[id] = NoSession /\ Mapped(k) /= {}
        THEN [m EXCEPT ![lowest] = NoSession, ![id] = m[lowest]]
        ELSE m

\* Mutant of Remap: the lowest id keeps the session.
RemapCopies(k, id) ==
    LET m == service[k].sessions
        lowest == CHOOSE i \in Mapped(k) : \A j \in Mapped(k) : i <= j
    IN  IF m[id] = NoSession /\ service[k].sync /\ Mapped(k) /= {}
        THEN [m EXCEPT ![id] = m[lowest]]
        ELSE m

\* The lowest session takes the id the client asks for.
Remap(k, id) ==
    LET m == service[k].sessions
        lowest == CHOOSE i \in Mapped(k) : \A j \in Mapped(k) : i <= j
    IN  IF m[id] = NoSession /\ service[k].sync /\ Mapped(k) /= {}
        THEN [m EXCEPT ![lowest] = NoSession, ![id] = m[lowest]]
        ELSE m

\* No other run thread reads the service's sessions, and c's has neither this
\* one under another id, nor another one under this id, nor responses under
\* this id that it read for another connection.
Alone(c, id, s) ==
    /\ \A d \in Conns \ {c} : run[d].pc \in {"none", "dead"}
    /\ \A t \in run[c].todo : t[1] = id <=> t[2] = s
    /\ id \notin run[c].closed /\ run[c].out[id] = <<>>

Opened(c, id, s, from, dead) ==
    screen' = [screen EXCEPT ![c][id] =
        [session |-> s, shown |-> <<>>, closed |-> FALSE, alone |-> Alone(c, id, s),
         from |-> IF Alone(c, id, s) THEN from ELSE 1, dead |-> dead]]

\* handle_open.  A client opens an id once per connection.  An Open whose pty
\* or shell cannot be created changes nothing.
HandleOpen(c, id) ==
    LET k == registered
        map == Remap(k, id)
    IN  /\ conn[c] = "in" /\ k /= None /\ screen[c][id].session = NoSession
        /\ UNCHANGED <<registered, conn, run, cleanup, changes>>
        /\ \/ /\ map[id] /= NoSession
              /\ service' = [service EXCEPT ![k].sessions = map, ![k].sync = FALSE]
              /\ LET s == session[map[id]] IN
                 Opened(c, id, map[id],
                        IF s.buffer = <<>> THEN 1 ELSE LastN(s.buffer, ReconnectChunks)[1],
                        s.told)
              /\ session' = [session EXCEPT ![map[id]] = Reattach(@)]
           \/ /\ map[id] = NoSession
              /\ \E s \in Sessions :
                    /\ session[s].state = "unused"
                    /\ \A r \in Sessions : r < s => session[r].state /= "unused"
                    /\ service' = [service EXCEPT ![k].sessions[id] = s, ![k].sync = FALSE]
                    /\ Opened(c, id, s, 1, FALSE)
                    /\ session' = [session EXCEPT ![s] = NewSession]

\* The client has the terminal open and handle_action finds the service.
HasOpen(c, id) ==
    /\ conn[c] = "in" /\ registered /= None
    /\ screen[c][id].session /= NoSession /\ ~screen[c][id].closed

\* handle_resize
HandleResize(c, id, rows) ==
    /\ HasOpen(c, id)
    /\ service[registered].sessions[id] /= NoSession
    /\ changes < MaxChanges /\ changes' = changes + 1
    /\ UNCHANGED <<registered, service, conn, run, cleanup, screen>>
    /\ \E ok \in BOOLEAN :
          session' = [session EXCEPT ![service[registered].sessions[id]] = Resized(@, rows, ok)]

\* handle_close, and the drop of the session.
HandleClose(c, id) ==
    /\ HasOpen(c, id)
    /\ service[registered].sessions[id] /= NoSession
    /\ service' = [service EXCEPT ![registered].sessions[id] = NoSession]
    /\ screen' = [screen EXCEPT ![c][id].closed = TRUE]
    /\ UNCHANGED <<registered, conn, run, cleanup, changes>>
    /\ DropUnheld(session)

\* update_terminal_persistence
SetPersistent(c) ==
    /\ conn[c] = "in" /\ registered /= None
    /\ changes < MaxChanges /\ changes' = changes + 1
    /\ service' = [service EXCEPT ![registered].persistent = ~@]
    /\ UNCHANGED <<registered, session, conn, run, cleanup, screen>>

\* Drop: the run thread is told to end and joined.
Disconnect(c) ==
    /\ conn[c] = "in"
    /\ conn' = [conn EXCEPT ![c] = "dropped"]
    /\ screen' = [screen EXCEPT ![c] = NoScreen]
    /\ UNCHANGED <<registered, service, session, run, cleanup, changes>>
---------------------------------------------------------------------------
(* A run thread                                                            *)

RunEnters(c) ==
    /\ run[c].pc = "wait" /\ conn[c] = "in"
    /\ run' = [run EXCEPT ![c].pc = "loop", ![c].entered = TRUE]
    /\ UNCHANGED <<registered, service, session, conn, cleanup, screen, changes>>

RunNeverEnters(c) ==
    /\ run[c].pc = "wait" /\ conn[c] = "dropped"
    /\ run' = [run EXCEPT ![c].pc = "dead"]
    /\ UNCHANGED <<registered, service, session, conn, cleanup, screen, changes>>

\* read_outputs: the list of sessions is taken with the service's lock, and
\* nothing is to do for a service that is gone or has none.
ReadOutputs(c) ==
    /\ run[c].pc = "loop" /\ conn[c] = "in"
    /\ registered /= None /\ Mapped(registered) /= {}
    /\ run' = [run EXCEPT ![c] =
          [@ EXCEPT !.pc = "read", !.service = registered,
                    !.persistent = service[registered].persistent,
                    !.todo = {<<id, service[registered].sessions[id]>> : id \in Mapped(registered)}]]
    /\ UNCHANGED <<registered, service, session, conn, cleanup, screen, changes>>

\* One session, under its own lock.
ReadSession(c, id, s) ==
    /\ run[c].pc = "read" /\ <<id, s>> \in run[c].todo
    /\ run' = [run EXCEPT ![c].todo = @ \ {<<id, s>>},
                          ![c].out[id] = @ \o Shown(session[s]),
                          ![c].closed = IF Ends(session[s]) THEN @ \cup {id} ELSE @]
    /\ UNCHANGED <<registered, service, conn, cleanup, screen>>
    /\ \E ok \in BOOLEAN :
          /\ ok \/ (changes < MaxChanges /\ session[s].state = "active"
                    /\ session[s].phase /= "idle" /\ session[s].retries > 0)
          /\ changes' = IF ok THEN changes ELSE changes + 1
          /\ LET drained == Drain(session[s]) IN
             DropUnheld([session EXCEPT ![s] =
                IF drained.state = "active" THEN Sigwinch(drained, ok) ELSE drained])

\* try_lock fails: the session is left for the next call.
SkipSession(c, id, s) ==
    /\ run[c].pc = "read" /\ <<id, s>> \in run[c].todo
    /\ run' = [run EXCEPT ![c].todo = @ \ {<<id, s>>}]
    /\ UNCHANGED <<registered, service, conn, cleanup, screen, changes>>
    /\ DropUnheld(session)

\* The client drops what it gets for terminals it has not opened.
Receive(view, id, thread) ==
    IF view.session = NoSession THEN view
    ELSE [view EXCEPT !.closed = @ \/ id \in thread.closed,
                      !.shown = IF view.alone THEN @ \o thread.out[id] ELSE @]

\* Terminals that ended are removed by id, unless the service is persistent;
\* the responses go to the connection, which ignores them once dropped.
SendResponses(c) ==
    LET k == run[c].service IN
    /\ run[c].pc = "read" /\ run[c].todo = {}
    /\ service' = IF run[c].persistent THEN service
                  ELSE [service EXCEPT ![k].sessions =
                          [id \in Ids |-> IF id \in run[c].closed THEN NoSession ELSE @[id]]]
    /\ run' = [run EXCEPT ![c] = [@ EXCEPT !.pc = "loop", !.service = None, !.out = NoOutput,
                                           !.closed = {}, !.persistent = FALSE]]
    /\ screen' = IF conn[c] /= "in" THEN screen
                 ELSE [screen EXCEPT ![c] = [id \in Ids |-> Receive(@[id], id, run[c])]]
    /\ UNCHANGED <<registered, conn, cleanup, changes>>
    /\ DropUnheld(session)

\* Mutant of RunEnds: the service is left to the idle clean-up.
RunJustEnds(c) ==
    /\ run[c].pc = "loop" /\ conn[c] = "dropped"
    /\ run' = [run EXCEPT ![c].pc = "dead"]
    /\ UNCHANGED <<registered, service, session, conn, cleanup, screen, changes>>

\* The loop's end: a service that is not persistent is to be removed.
RunEnds(c) ==
    /\ run[c].pc = "loop" /\ conn[c] = "dropped"
    /\ run' = [run EXCEPT ![c].pc =
          IF registered /= None /\ ~service[registered].persistent THEN "remove" ELSE "dead"]
    /\ UNCHANGED <<registered, service, session, conn, cleanup, screen, changes>>

RunRemoves(c) ==
    /\ run[c].pc = "remove"
    /\ run' = [run EXCEPT ![c].pc = "dead"]
    /\ UNCHANGED <<conn, cleanup, screen, changes>>
    /\ RemoveService
---------------------------------------------------------------------------
(* The shells, through the reader thread of each session                   *)

\* The next chunk goes into the channel, or is dropped.
Wrote(s) == [s EXCEPT !.written = s.written + 1, !.chan = Append(@, s.written + 1)]
Lost(s) == [s EXCEPT !.written = s.written + 1, !.lost = @ \cup {s.written + 1}]

\* Mutant of ShellWrites: the channel has no limit.
ShellWritesUnbounded(s) ==
    /\ session[s].reader = "alive" /\ session[s].written < MaxOutput
    /\ session' = [session EXCEPT ![s] = Wrote(@)]
    /\ UNCHANGED <<registered, service, conn, run, cleanup, screen, changes>>

\* try_send_output: a full channel drops the chunk.
ShellWrites(s) ==
    /\ session[s].reader = "alive" /\ session[s].written < MaxOutput
    /\ session' = [session EXCEPT ![s] =
          IF Len(@.chan) < CHANNEL_BUFFER_SIZE THEN Wrote(@) ELSE Lost(@)]
    /\ UNCHANGED <<registered, service, conn, run, cleanup, screen, changes>>

\* The reader thread ends with the shell.
ShellExits(s) ==
    /\ session[s].reader = "alive"
    /\ session' = [session EXCEPT ![s].reader = "finished"]
    /\ UNCHANGED <<registered, service, conn, run, cleanup, screen, changes>>
---------------------------------------------------------------------------
Init ==
    /\ registered = None
    /\ service = [k \in Conns |-> NoService]
    /\ session = [s \in Sessions |-> Unused]
    /\ conn = [c \in Conns |-> "out"]
    /\ run = [c \in Conns |-> [pc |-> "none", service |-> None, persistent |-> FALSE,
                               todo |-> {}, out |-> NoOutput, closed |-> {}, entered |-> FALSE]]
    /\ cleanup = FALSE
    /\ screen = [c \in Conns |-> NoScreen]
    /\ changes = 0

ConnTask(c) ==
    \/ \E p \in Asked : Login(c, p)
    \/ \E id \in Ids : HandleOpen(c, id) \/ HandleClose(c, id)
    \/ \E id \in Ids, rows \in Rows : HandleResize(c, id, rows)
    \/ SetPersistent(c)
    \/ Disconnect(c)

RunThread(c) ==
    \/ RunEnters(c) \/ RunNeverEnters(c) \/ ReadOutputs(c) \/ SendResponses(c)
    \/ \E id \in Ids, s \in Sessions : ReadSession(c, id, s) \/ SkipSession(c, id, s)
    \/ RunEnds(c) \/ RunRemoves(c)

Next ==
    \/ \E c \in Conns : ConnTask(c) \/ RunThread(c)
    \/ CleanupChooses \/ CleanupRemoves
    \/ \E s \in Sessions : ShellWrites(s) \/ ShellExits(s)

Spec == Init /\ [][Next]_vars
---------------------------------------------------------------------------
SessionType ==
    [state : {"unused", "closed", "active", "dropped"}, pending : Seq(Nat),
     phase : {"idle", "temp", "restore"}, retries : 0 .. MAX_SIGWINCH_PHASE_ATTEMPTS,
     rows : Nat, pty : Nat, unsized : BOOLEAN, buffer : Seq(Nat), chan : Seq(Nat),
     reader : {"none", "alive", "finished"}, told : BOOLEAN, written : Nat, lost : SUBSET Nat]

RunType ==
    [pc : {"none", "wait", "loop", "read", "remove", "dead"}, service : Conns \cup {None},
     persistent : BOOLEAN, todo : SUBSET (Ids \X Sessions), out : [Ids -> Seq(Nat)],
     closed : SUBSET Ids, entered : BOOLEAN]

ScreenType ==
    [Ids -> [session : Sessions \cup {NoSession}, shown : Seq(Nat), closed : BOOLEAN,
             alone : BOOLEAN, from : Nat, dead : BOOLEAN]]

\* Every variable keeps its type, the channel and the buffer their bounds.
TypeOK ==
    /\ registered \in Conns \cup {None}
    /\ service \in [Conns -> [persistent : BOOLEAN, sync : BOOLEAN,
                              sessions : [Ids -> Sessions \cup {NoSession}]]]
    /\ session \in [Sessions -> SessionType]
    /\ conn \in [Conns -> {"out", "in", "dropped"}]
    /\ run \in [Conns -> RunType]
    /\ cleanup \in BOOLEAN
    /\ screen \in [Conns -> ScreenType]
    /\ changes \in 0 .. MaxChanges
    /\ \A s \in Sessions : /\ Len(session[s].chan) <= CHANNEL_BUFFER_SIZE
                           /\ Len(session[s].buffer) <= MAX_BUFFER_LINES

\* A shell lives exactly as long as somebody can reach it: a session is neither
\* dropped while the registry or a thread names it nor kept when nobody does,
\* and no service has it under two ids (the Arcs of TerminalSession).
SessionOwned ==
    /\ \A s \in Sessions : Held(s) <=> session[s].state \in {"closed", "active"}
    /\ \A k \in Conns : \A i, j \in Mapped(k) :
          service[k].sessions[i] = service[k].sessions[j] => i = j

\* Everything on its way to client c of the terminal it calls id.
Flow(c, id) ==
    LET v == screen[c][id]
    IN  v.shown \o run[c].out[id] \o session[v.session].pending \o session[v.session].chan

\* The replay and the live output of a reconnected terminal join: the client
\* is shown every chunk from the beginning of the replay on, once and in
\* order, save those a full channel dropped while nobody read it.  It needs
\* the old connection's run thread to be gone, and c's own not to hold the
\* session under the id it had before handle_open gave it another, nor under
\* this id the session that had it before.
StreamContinues ==
    \A c \in Conns, id \in Ids :
        LET v == screen[c][id]
            s == session[v.session]
            flow == Flow(c, id)
        IN  v.session /= NoSession /\ v.alone /\ conn[c] = "in"
              /\ ~v.closed /\ s.reader /= "none" =>
            /\ \A i \in 1 .. Len(flow) - 1 : flow[i] < flow[i + 1]
            /\ v.from .. s.written \subseteq ToSet(flow) \cup s.lost

\* A client that holds a terminal open is told of its end: while its service
\* is registered the session is there under its id, and once the end was
\* reported the report is on its way to this client and to no other.  A
\* persistent terminal that had ended before the reconnection is the one the
\* client opens without ever being told.
EndIsTold ==
    \A c \in Conns, id \in Ids :
        LET v == screen[c][id]
            coming == id \in run[c].closed
        IN  v.session /= NoSession /\ v.alone /\ conn[c] = "in" /\ ~v.closed
              /\ registered /= None /\ session[v.session].reader /= "none" =>
            \/ coming
            \/ /\ service[registered].sessions[id] = v.session
               /\ session[v.session].told => v.dead

\* The two-phase resize ends at the client's size: a terminal shown to a
\* client, with no phase left, has the height the client asked for unless a
\* resize failed, whatever reconnections and resizes came between the phases.
SizeRestored ==
    \A s \in Sessions :
        session[s].state = "active" /\ session[s].phase = "idle" /\ ~session[s].unsized
            => session[s].pty = session[s].rows

\* A service that outlives all its connections is persistent, unless a run
\* thread was told to end before it had begun: only the loop's end removes a
\* service, and then one hour's idling.
LeftoverIsPersistent ==
    /\ \A c \in Conns : run[c].pc \in {"none", "dead"}
    /\ registered /= None
    => \/ service[registered].persistent
       \/ \E c \in Conns : run[c].pc = "dead" /\ ~run[c].entered
=============================================================================
