----------------------------- MODULE DirectServer -----------------------------
(***************************************************************************)
(* The direct access listener of rendezvous_mediator.rs, the UPnP threads  *)
(* it starts, and the options through which they report to the user        *)
(* interface and to the punch hole handler.                                *)
(*                                                                         *)
(* The task, its threads and the user interface share only the options.    *)
(* The task and the threads read and write one option at a time; the user  *)
(* interface, another process, keeps a copy of all of them, refreshes it   *)
(* once a second, and writes the whole copy back when it sets one.         *)
(***************************************************************************)
EXTENDS Integers

CONSTANTS DEFAULT_DIRECT_PORT,
          DIRECT_PORT_RANGE,
          Attempts,       \* tries of a UPnP thread (3 in the code)
          Threads,        \* bound: the UPnP threads
          MaxUi,          \* bound: writes by the user interface
          MaxBusy         \* bound: ports taken or released by other programs

ASSUME PortAssumption ==
    /\ DEFAULT_DIRECT_PORT \in Nat \ {0} /\ DIRECT_PORT_RANGE \in Nat
    /\ Attempts \in Nat \ {0} /\ MaxUi \in Nat /\ MaxBusy \in Nat

NoPort == 0

\* The ports a caller tries when it is given a bare IP address.
direct_peer_hosts == DEFAULT_DIRECT_PORT .. DEFAULT_DIRECT_PORT + DIRECT_PORT_RANGE

VARIABLES
    opt,          \* the options, in the process of the server
    ui,           \* the user interface's copy of them
    uiWrites,
    busy,         \* ports other programs listen on
    busyChanges,
    pc,           \* the task direct_server
    call,         \* its call of set_direct_access_status: argument, return
    listener,     \* its listener's port
    directPort,   \* DIRECT_PORT
    thread,       \* the UPnP threads
    failed        \* history: ports whose bind failed since the last reset

env  == <<uiWrites, busy, busyChanges>>
task == <<pc, call, listener, directPort, failed>>
vars == <<opt, ui, env, task, thread>>

\* direct: direct-server is set and stop-service is not; status:
\* direct-access-status; port: direct-access-port; public:
\* direct-access-public-port, by the local port it is mapped to; upnp:
\* upnp-status.
Statuses == {"none", "starting", "listening", "stopped", "error"}
Options  == [direct : BOOLEAN, status : Statuses, port : Nat, public : Nat,
             upnp : Statuses \cup {"pending", "ok", "fail"}]

NoThread == [at |-> "none", port |-> NoPort, attempt |-> 1, mapped |-> FALSE]
NoCall   == [status |-> "none", ret |-> "top"]

\* The options are the ones a previous process left in the file: nothing, or
\* those of a listener that was mapped.
Init ==
    /\ opt \in {[direct |-> d, status |-> "none", port |-> NoPort,
                 public |-> NoPort, upnp |-> "none"] : d \in BOOLEAN} \cup
               {[direct |-> d, status |-> "listening", port |-> p,
                 public |-> p, upnp |-> "ok"] :
                     d \in BOOLEAN, p \in direct_peer_hosts}
    /\ ui = opt /\ uiWrites = 0
    /\ busy \in SUBSET direct_peer_hosts /\ busyChanges = 0
    /\ pc = "start" /\ call = NoCall
    /\ listener = NoPort /\ directPort = DEFAULT_DIRECT_PORT /\ failed = {}
    /\ thread = [t \in Threads |-> NoThread]

Go(from, to) == pc = from /\ pc' = to

-----------------------------------------------------------------------------
(* set_direct_access_status(s), after which the task is at ret. *)

set_direct_access_status(s, ret) ==
    /\ opt' = [opt EXCEPT !.status = s]
    /\ IF opt.status # s /\ s # "listening"
         THEN pc' = "clear_public" /\ call' = [status |-> s, ret |-> ret]
         ELSE pc' = ret /\ UNCHANGED call

ClearPublic ==
    /\ Go("clear_public", "clear_upnp")
    /\ opt' = [opt EXCEPT !.public = NoPort]
    /\ UNCHANGED <<ui, env, call, listener, directPort, failed, thread>>

ClearUpnp ==
    /\ pc = "clear_upnp" /\ pc' = call.ret
    /\ opt' = [opt EXCEPT !.upnp = call.status]
    /\ call' = NoCall
    /\ UNCHANGED <<ui, env, listener, directPort, failed, thread>>

(* DIRECT_PORT *)

NextPortStuck(p) ==
    IF p < DEFAULT_DIRECT_PORT + DIRECT_PORT_RANGE THEN p + 1 ELSE p

invalidate_direct_port(p) ==
    IF p < DEFAULT_DIRECT_PORT + DIRECT_PORT_RANGE THEN p + 1 ELSE DEFAULT_DIRECT_PORT

KeepPort == directPort

reset_direct_port == DEFAULT_DIRECT_PORT

-----------------------------------------------------------------------------
(* The task direct_server. *)

Start ==
    /\ pc = "start"
    /\ set_direct_access_status("starting", "top")
    /\ UNCHANGED <<ui, env, listener, directPort, failed, thread>>

\* Disabled with no listener: the status is set again in every round.
IdleSilent ==
    /\ Go("top", "top") /\ ~opt.direct /\ listener = NoPort
    /\ UNCHANGED <<opt, ui, env, call, listener, directPort, failed, thread>>

Idle ==
    /\ pc = "top" /\ ~opt.direct /\ listener = NoPort
    /\ set_direct_access_status("stopped", "top")
    /\ UNCHANGED <<ui, env, listener, directPort, failed, thread>>

Enabled ==
    /\ Go("top", "bind") /\ opt.direct /\ listener = NoPort
    /\ UNCHANGED <<opt, ui, env, call, listener, directPort, failed, thread>>

\* listen_any(port)
Bind ==
    /\ Go("bind", "listening") /\ directPort \notin busy
    /\ listener' = directPort
    /\ UNCHANGED <<opt, ui, env, call, directPort, failed, thread>>

BindFails ==
    /\ Go("bind", "failed") /\ directPort \in busy
    /\ failed' = failed \cup {directPort}
    /\ UNCHANGED <<opt, ui, env, call, listener, directPort, thread>>

Error ==
    /\ pc = "failed"
    /\ set_direct_access_status("error", "invalidate")
    /\ UNCHANGED <<ui, env, listener, directPort, failed, thread>>

Invalidate ==
    /\ Go("invalidate", "top")
    /\ directPort' = invalidate_direct_port(directPort)
    /\ UNCHANGED <<opt, ui, env, call, listener, failed, thread>>

Listening ==
    /\ pc = "listening"
    /\ set_direct_access_status("listening", "set_port")
    /\ UNCHANGED <<ui, env, listener, directPort, failed, thread>>

SetPort ==
    /\ Go("set_port", "pending")
    /\ opt' = [opt EXCEPT !.port = listener]
    /\ UNCHANGED <<ui, env, call, listener, directPort, failed, thread>>

Pending ==
    /\ Go("pending", "spawn")
    /\ opt' = [opt EXCEPT !.upnp = "pending"]
    /\ UNCHANGED <<ui, env, call, listener, directPort, failed, thread>>

\* A thread that has returned leaves its place to the next one.
Spawn(t) ==
    /\ Go("spawn", "top")
    /\ thread[t].at = "none"
    /\ opt' = [opt EXCEPT !.public = NoPort]
    /\ thread' = [thread EXCEPT ![t] =
           [at |-> "check", port |-> listener, attempt |-> 1, mapped |-> FALSE]]
    /\ UNCHANGED <<ui, env, call, listener, directPort, failed>>

\* A listener is dropped when it is disabled or its port is not DIRECT_PORT.
Exit ==
    /\ Go("top", "exit")
    /\ listener # NoPort /\ (~opt.direct \/ listener # directPort)
    /\ listener' = NoPort
    /\ UNCHANGED <<opt, ui, env, call, directPort, failed, thread>>

\* A round that accepts a connection, or none: neither changes this state.
Accept ==
    /\ Go("top", "top")
    /\ listener # NoPort /\ opt.direct /\ listener = directPort
    /\ UNCHANGED <<opt, ui, env, call, listener, directPort, failed, thread>>

Stopped ==
    /\ pc = "exit"
    /\ set_direct_access_status("stopped", "reset")
    /\ UNCHANGED <<ui, env, listener, directPort, failed, thread>>

Reset ==
    /\ Go("reset", "top")
    /\ directPort' = reset_direct_port
    /\ failed' = {}
    /\ UNCHANGED <<opt, ui, env, call, listener, thread>>

-----------------------------------------------------------------------------
(* A UPnP thread. *)

Current(t) == opt.port = thread[t].port /\ opt.status = "listening"

\* Before every attempt, and once before the result is published.
Check(t) ==
    /\ thread[t].at \in {"check", "late"}
    /\ thread' = [thread EXCEPT ![t] =
           IF ~Current(t) THEN NoThread
           ELSE [thread[t] EXCEPT !.at = IF @ = "check" THEN "map" ELSE "publish"]]
    /\ UNCHANGED <<opt, ui, env, task>>

MapAgain(t, ok) ==
    /\ thread[t].at = "map"
    /\ thread' = [thread EXCEPT
           ![t].mapped  = ok,
           ![t].at      = IF ok \/ thread[t].attempt = Attempts THEN "late" ELSE "check",
           ![t].attempt = IF ok THEN @ ELSE @ + 1]
    /\ UNCHANGED <<opt, ui, env, task>>

\* add_port_mapping; a timeout is an error.
Map(t, ok) ==
    /\ thread[t].at = "map"
    /\ thread' = [thread EXCEPT
           ![t].mapped  = ok,
           ![t].at      = IF ok \/ thread[t].attempt = Attempts THEN "late" ELSE "check",
           ![t].attempt = IF ok \/ @ = Attempts THEN @ ELSE @ + 1]
    /\ UNCHANGED <<opt, ui, env, task>>

PublishPort(t) ==
    /\ thread[t].at = "publish" /\ thread[t].mapped
    /\ opt' = [opt EXCEPT !.public = thread[t].port]
    /\ thread' = [thread EXCEPT ![t].at = "report"]
    /\ UNCHANGED <<ui, env, task>>

PublishStatus(t) ==
    /\ \/ thread[t].at = "report"
       \/ thread[t].at = "publish" /\ ~thread[t].mapped
    /\ opt' = [opt EXCEPT !.upnp = IF thread[t].mapped THEN "ok" ELSE "fail"]
    /\ thread' = [thread EXCEPT ![t] = NoThread]
    /\ UNCHANGED <<ui, env, task>>

Thread(t) == Check(t) \/ PublishPort(t) \/ PublishStatus(t) \/ \E ok \in BOOLEAN : Map(t, ok)

-----------------------------------------------------------------------------
(* The user interface and the other programs of the host. *)

UiSync ==
    /\ ui # opt /\ ui' = opt
    /\ UNCHANGED <<opt, env, task, thread>>

UiWrite(o) ==
    /\ uiWrites < MaxUi /\ uiWrites' = uiWrites + 1
    /\ ui' = o /\ opt' = o
    /\ UNCHANGED <<busy, busyChanges, task, thread>>

\* The user turns direct access on or off.
UiToggle == UiWrite([ui EXCEPT !.direct = ~ui.direct])

\* main_check_connect_status: the user interface's own DIRECT_PORT, which no
\* listener of that process ever changes.
UiOpen == UiWrite([ui EXCEPT !.port = DEFAULT_DIRECT_PORT])

Other(p) ==
    /\ p # listener
    /\ busyChanges < MaxBusy /\ busyChanges' = busyChanges + 1
    /\ busy' = IF p \in busy THEN busy \ {p} ELSE busy \cup {p}
    /\ UNCHANGED <<opt, ui, uiWrites, task, thread>>

-----------------------------------------------------------------------------

Task ==
    \/ Start \/ Idle \/ Enabled \/ Bind \/ BindFails \/ Error \/ Invalidate
    \/ Listening \/ SetPort \/ Pending \/ (\E t \in Threads : Spawn(t))
    \/ Exit \/ Accept \/ Stopped \/ Reset \/ ClearPublic \/ ClearUpnp

Environment == UiSync \/ UiToggle \/ UiOpen \/ \E p \in direct_peer_hosts : Other(p)

Next == Task \/ (\E t \in Threads : Thread(t)) \/ Environment

\* The runtime polls the task again after each sleep, and a thread runs on.
Fairness == WF_vars(Task) /\ \A t \in Threads : WF_vars(Thread(t))

Spec == Init /\ [][Next]_vars /\ Fairness

-----------------------------------------------------------------------------
(* Properties *)

\* Every variable keeps its type.
TypeOK ==
    /\ opt \in Options /\ ui \in Options
    /\ uiWrites \in Nat /\ busyChanges \in Nat
    /\ busy \subseteq direct_peer_hosts
    /\ listener \in Nat /\ directPort \in Nat /\ failed \subseteq Nat
    /\ pc \in {"start", "top", "bind", "failed", "invalidate", "listening", "set_port",
               "pending", "spawn", "exit", "reset", "clear_public", "clear_upnp"}
    /\ call \in [status : Statuses, ret : {"top", "invalidate", "reset"}]
    /\ thread \in [Threads -> [at : {"none", "check", "map", "late", "publish", "report"},
                               port : Nat, attempt : 1 .. Attempts, mapped : BOOLEAN]]

\* A caller that knows the bare IP address finds the listener: however many
\* binds failed, its port is one that direct_peer_hosts enumerates, and it is a
\* fallback port only if every lower one was tried and found taken since a
\* listener last exited (reset_direct_port).
FallbackEarned ==
    listener # NoPort => /\ listener \in direct_peer_hosts
                         /\ DEFAULT_DIRECT_PORT .. (listener - 1) \subseteq failed

\* Direct access that stays on with some port free gets a listener that stays,
\* however many ports are taken (invalidate_direct_port comes round).
EventuallyListening ==
    \A p \in direct_peer_hosts :
        <>[](opt.direct /\ p \notin busy) => <>[](listener # NoPort)

\* Direct access that stays off is reported as stopped, and stays so, even
\* after the user interface wrote an old status back.
StopReported == <>[](~opt.direct) => <>[](listener = NoPort /\ opt.status = "stopped")
=============================================================================
