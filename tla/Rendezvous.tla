----------------------------- MODULE Rendezvous -----------------------------
(***************************************************************************)
(* Registration of a controlled peer with its rendezvous servers (hbbs):   *)
(* src/src/rendezvous_mediator.rs.                                         *)
(*                                                                         *)
(* `start_all' is a supervisor thread.  Each round it spawns one task per  *)
(* configured host, waits for all of them and starts over.  A task runs    *)
(* `start_udp' or `start_tcp' (and the other one, once, when the first     *)
(* returns an error), registers the peer from its timer, and handles the   *)
(* answers of its host in `handle_resp'.  Tasks share the Config (id, key  *)
(* flags, latency table), SOLVING_PK_MISMATCH and SHOULD_EXIT, and other   *)
(* threads change options and ask for a restart at any time.               *)
(*                                                                         *)
(* Time is abstracted: a timer tick finds an interval expired or not.  UDP *)
(* loses, reorders and duplicates messages.  hbbs is external.             *)
(***************************************************************************)
EXTENDS Integers, FiniteSets

CONSTANTS
    Hosts,          \* rendezvous servers
    Prefixes,       \* first labels of the host names
    PrefixOf,       \* get_host_prefix: Hosts -> Prefixes
    Ids,            \* peer ids
    FirstId,        \* the id of Config when the program starts
    DrawnIds,       \* the range update_id draws from
    Foreign,        \* ids another machine has registered
    Pks,            \* key pairs this machine may hold, one after the other
    FirstPk,
    TcpRegisters,   \* whether hbbs accepts registrations over TCP
    StartTransports,    \* what should_start_with_tcp may answer
    UDP_REGISTRATION_FAILURE_LIMIT,     \* rendezvous_transport.rs: 4
    MAX_FAILS1, MAX_FAILS2,             \* start_udp: 2 and 4
    MaxInFlight,    \* bound: requests and answers in flight per host
    MaxFaults       \* bound: spontaneous events (errors, restarts, resets)

NoHost == "none"
NoPk == "nopk"
Other == "other"
Transports == {"udp", "tcp"}

ASSUME HostsAssumption ==
    /\ NoHost \notin Hosts
    /\ PrefixOf \in [Hosts -> Prefixes]
ASSUME IdsAssumption == FirstId \in Ids /\ Foreign \subseteq Ids /\ DrawnIds \subseteq Ids
ASSUME PksAssumption == FirstPk \in Pks /\ NoPk \notin Pks /\ Other \notin Pks
ASSUME LimitsAssumption ==
    /\ UDP_REGISTRATION_FAILURE_LIMIT \in Nat \ {0} /\ MAX_FAILS1 \in Nat
    /\ MAX_FAILS2 \in Nat /\ UDP_REGISTRATION_FAILURE_LIMIT <= MAX_FAILS2
ASSUME BoundsAssumption ==
    /\ MaxInFlight \in Nat \ {0} /\ MaxFaults \in Nat
    /\ TcpRegisters \in BOOLEAN /\ StartTransports \subseteq Transports

VARIABLES
    \* Config
    id, pk, keyConfirmed, hostKey, online, servers, stopService,
    \* statics
    solving, shouldExit,
    \* the supervisor
    sup, run,
    \* a thread that changes options (ipc.rs) and then calls restart()
    opt,
    \* a thread of test_rendezvous_server and the hosts it has yet to measure
    test, untested,
    \* tasks
    task, via, fellBack, fails, sent,
    \* the network and hbbs
    reqs, resps, dir, onlineAt,
    \* history: the key of the last RegisterPk; spontaneous events so far
    sentPk, faults

config == <<id, pk, keyConfirmed, hostKey, servers, stopService>>
locals == <<fails, sent>>
place == <<task, via, fellBack>>
probe == <<test, untested>>
others == <<opt, test, untested>>
super == <<sup, run>>
net == <<reqs, resps>>
hbbs == <<dir, onlineAt>>
vars == <<config, online, solving, shouldExit, super, others, place, locals,
          net, hbbs, sentPk, faults>>

\* What the latency table says of a host: no entry, 0 or negative, positive.
Latency == {"none", "bad", "good"}
TaskStates == {"idle", "connecting", "looping", "confirmHost", "confirmSolved", "done"}
SupStates == {"top", "flags", "join", "close", "reset"}

Request == [kind : {"RegisterPk", "RegisterPeer"}, host : Hosts, id : Ids,
            pk : Pks \cup {NoPk}]
Response == [kind : {"RegisterPkResponse"}, host : Hosts,
             result : {"OK", "UUID_MISMATCH", "NOT_SUPPORT"}]
            \cup [kind : {"RegisterPeerResponse"}, host : Hosts, result : {"request_pk", "ok"}]

ConfigTypeOK ==
    /\ id \in Ids /\ pk \in Pks
    /\ keyConfirmed \in BOOLEAN
    /\ hostKey \in [Prefixes -> BOOLEAN]
    /\ online \in [Hosts -> Latency]
    /\ servers \in SUBSET Hosts
    /\ stopService \in BOOLEAN
    /\ sentPk \in Pks \cup {NoPk}

ThreadTypeOK ==
    /\ solving \in Hosts \cup {NoHost}
    /\ shouldExit \in BOOLEAN
    /\ sup \in SupStates /\ run \in SUBSET Hosts
    /\ opt \in {"idle", "changed"}
    /\ test \in {"idle", "spawned", "join"} /\ untested \in SUBSET Hosts
    /\ task \in [Hosts -> TaskStates]
    /\ via \in [Hosts -> Transports]
    /\ fellBack \in [Hosts -> BOOLEAN]
    /\ fails \in [Hosts -> 0..(UDP_REGISTRATION_FAILURE_LIMIT - 1)]
    /\ sent \in [Hosts -> BOOLEAN]
    /\ faults \in 0..MaxFaults

NetTypeOK ==
    /\ reqs \in SUBSET Request
    /\ resps \in SUBSET Response
    /\ dir \in [Hosts -> [Ids -> Pks \cup {NoPk, Other}]]
    /\ onlineAt \in [Hosts -> SUBSET Ids]

\* Every variable keeps its type.
TypeOK == ConfigTypeOK /\ ThreadTypeOK /\ NetTypeOK

\* The program starts with whatever flags the last run stored on disk, and
\* start_all calls test_rendezvous_server when the service is stopped.
Init ==
    /\ id = FirstId /\ pk = FirstPk
    /\ keyConfirmed \in BOOLEAN
    /\ hostKey \in IF keyConfirmed THEN [Prefixes -> BOOLEAN]
                                   ELSE {[p \in Prefixes |-> FALSE]}
    /\ online = [h \in Hosts |-> "none"]
    /\ servers = Hosts
    /\ stopService \in BOOLEAN
    /\ solving = NoHost
    /\ shouldExit = FALSE
    /\ sup = "top" /\ run = {}
    /\ opt = "idle"
    /\ test = IF stopService THEN "spawned" ELSE "idle"
    /\ untested = {}
    /\ task = [h \in Hosts |-> "idle"]
    /\ via = [h \in Hosts |-> "udp"]
    /\ fellBack = [h \in Hosts |-> FALSE]
    /\ fails = [h \in Hosts |-> 0]
    /\ sent = [h \in Hosts |-> FALSE]
    /\ reqs = {} /\ resps = {}
    /\ dir = [h \in Hosts |-> [i \in Ids |-> IF i \in Foreign THEN Other ELSE NoPk]]
    /\ onlineAt = [h \in Hosts |-> {}]
    /\ sentPk = NoPk
    /\ faults = 0

-----------------------------------------------------------------------------
(***************************************************************************)
(* The network.  A message sent on a full channel displaces the others.    *)
(***************************************************************************)
Fault == faults < MaxFaults /\ faults' = faults + 1
NoFault == faults' = faults

Of(msgs, h) == {m \in msgs : m.host = h}
Put(msgs, m) ==
    IF Cardinality(Of(msgs \cup {m}, m.host)) <= MaxInFlight
      THEN msgs \cup {m}
      ELSE (msgs \ Of(msgs, m.host)) \cup {m}

\* Leaving start_udp or start_tcp: the locals and the socket go, and what is
\* in flight is lost with it.
LeaveLoop(h) ==
    /\ fails' = [fails EXCEPT ![h] = 0]
    /\ sent' = [sent EXCEPT ![h] = FALSE]
    /\ reqs' = reqs \ Of(reqs, h)
    /\ resps' = resps \ Of(resps, h)

\* The end of the task itself.
EndTask(h) ==
    /\ task' = [task EXCEPT ![h] = "done"]
    /\ via' = [via EXCEPT ![h] = "udp"]
    /\ fellBack' = [fellBack EXCEPT ![h] = FALSE]

Msg(kind, h, i, k) == [kind |-> kind, host |-> h, id |-> i, pk |-> k]

\* register_pk: what is sent for h when the id is i.
register_pk(h, i) ==
    /\ reqs' = Put(reqs, Msg("RegisterPk", h, i, pk))
    /\ sentPk' = pk

\* register_peer, when SOLVING_PK_MISMATCH is s.
register_peer(h, s) ==
    IF s \notin {NoHost, h} THEN UNCHANGED <<reqs, sentPk>>
    ELSE IF ~keyConfirmed \/ ~hostKey[PrefixOf[h]]
      THEN register_pk(h, id)
      ELSE reqs' = Put(reqs, Msg("RegisterPeer", h, id, NoPk)) /\ UNCHANGED sentPk

-----------------------------------------------------------------------------
(***************************************************************************)
(* start_all                                                               *)
(***************************************************************************)

\* Mutant of SupTop: the mark of the last round stays.
SupTopKeepsSolving ==
    /\ sup = "top"
    /\ IF stopService THEN sup' = "close" /\ UNCHANGED run
                      ELSE sup' = "flags" /\ run' = servers
    /\ UNCHANGED <<config, online, solving, shouldExit, others, place, locals, net, hbbs, sentPk>>
    /\ NoFault

\* The head of the loop: clears SOLVING_PK_MISMATCH, reads stop-service and
\* the configured hosts.
SupTop ==
    /\ sup = "top"
    /\ solving' = NoHost
    /\ IF stopService THEN sup' = "close" /\ UNCHANGED run
                      ELSE sup' = "flags" /\ run' = servers
    /\ UNCHANGED <<config, online, shouldExit, others, place, locals, net, hbbs, sentPk>>
    /\ NoFault

\* SHOULD_EXIT.store(false), then one task per host.  should_start_with_tcp
\* reads options that are the same for all the hosts.
SupSpawn ==
    /\ sup = "flags"
    /\ sup' = "join"
    /\ shouldExit' = FALSE
    /\ \E t \in StartTransports :
         via' = [h \in Hosts |-> IF h \in run THEN t ELSE via[h]]
    /\ task' = [h \in Hosts |-> IF h \in run THEN "connecting" ELSE "idle"]
    /\ UNCHANGED <<fellBack, config, online, solving, run, others, locals, net, hbbs, sentPk>>
    /\ NoFault

\* join_all
SupJoin ==
    /\ sup = "join"
    /\ \A h \in run : task[h] = "done"
    /\ sup' = "reset"
    /\ task' = [h \in Hosts |-> "idle"]
    /\ UNCHANGED <<config, online, solving, shouldExit, run, others, via, fellBack,
                   locals, net, hbbs, sentPk>>
    /\ NoFault

\* stop-service: server.close_connections()
SupClose ==
    /\ sup = "close"
    /\ sup' = "reset"
    /\ UNCHANGED <<config, online, solving, shouldExit, run, others, place, locals,
                   net, hbbs, sentPk>>
    /\ NoFault

\* Config::reset_online and the sleep; MANUAL_RESTARTED only shortens it.
SupReset ==
    /\ sup = "reset"
    /\ sup' = "top"
    /\ online' = [h \in Hosts |-> "none"]
    /\ UNCHANGED <<config, solving, shouldExit, run, others, place, locals, net,
                   hbbs, sentPk>>
    /\ NoFault

(***************************************************************************)
(* Other threads: an option changes and CheckIfRestart's drop calls        *)
(* restart(); the configuration synced from root brings another key pair   *)
(* and CheckIfResendPk's drop clears key_confirmed.                        *)
(***************************************************************************)
SetOption ==
    /\ opt = "idle"
    /\ opt' = "changed"
    /\ \/ stopService' = ~stopService /\ UNCHANGED servers
       \/ servers' \in (SUBSET Hosts \ {{}}) /\ servers' # servers /\ UNCHANGED stopService
    /\ UNCHANGED <<id, pk, keyConfirmed, hostKey, online, solving, shouldExit, super,
                   probe, place, locals, net, hbbs, sentPk>>
    /\ Fault

restart ==
    /\ opt = "changed"
    /\ opt' = "idle"
    /\ shouldExit' = TRUE
    /\ UNCHANGED <<config, online, solving, super, probe, place, locals, net, hbbs, sentPk>>
    /\ NoFault

\* Config::set_key_confirmed(false): the host flags go too, unless the flag
\* was already false.
ClearKey ==
    /\ keyConfirmed' = FALSE
    /\ hostKey' = IF keyConfirmed THEN [p \in Prefixes |-> FALSE] ELSE hostKey

CheckIfResendPk ==
    /\ \E k \in Pks \ {pk} : pk' = k
    /\ IF sentPk # NoPk THEN ClearKey ELSE UNCHANGED <<keyConfirmed, hostKey>>
    /\ UNCHANGED <<id, servers, stopService, online, solving, shouldExit, super, others,
                   place, locals, net, hbbs, sentPk>>
    /\ Fault

(***************************************************************************)
(* test_rendezvous_server: a thread of its own, started by start_all and   *)
(* by an IPC message (ipc.rs), measures every host over TCP into the same  *)
(* latency table and then empties the table.  One such thread at a time.   *)
(***************************************************************************)
test_rendezvous_server ==
    /\ test = "idle"
    /\ test' = "spawned"
    /\ UNCHANGED <<config, online, solving, shouldExit, super, opt, untested, place, locals,
                   net, hbbs, sentPk>>
    /\ Fault

\* The thread reads the servers; with one server there is nothing to compare.
TestBegin ==
    /\ test = "spawned"
    /\ IF Cardinality(servers) <= 1 THEN test' = "idle" /\ UNCHANGED untested
                                    ELSE test' = "join" /\ untested' = servers
    /\ UNCHANGED <<config, online, solving, shouldExit, super, opt, place, locals,
                   net, hbbs, sentPk>>
    /\ NoFault

\* One of its tasks connects, or fails to, and records the latency or -1.
TestLatency(h) ==
    /\ test = "join" /\ h \in untested
    /\ untested' = untested \ {h}
    /\ \E v \in {"good", "bad"} : online' = [online EXCEPT ![h] = v]
    /\ UNCHANGED <<config, solving, shouldExit, super, opt, test, place, locals,
                   net, hbbs, sentPk>>
    /\ NoFault

\* Mutant of TestReset: the measurements stay in the table.
TestResetKeepsOnline ==
    /\ test = "join" /\ untested = {}
    /\ test' = "idle"
    /\ UNCHANGED <<config, online, solving, shouldExit, super, opt, untested, place, locals,
                   net, hbbs, sentPk>>
    /\ NoFault

\* join_all, then Config::reset_online: what the tasks of a round recorded
\* meanwhile goes too.
TestReset ==
    /\ test = "join" /\ untested = {}
    /\ test' = "idle"
    /\ online' = [h \in Hosts |-> "none"]
    /\ UNCHANGED <<config, solving, shouldExit, super, opt, untested, place, locals,
                   net, hbbs, sentPk>>
    /\ NoFault

-----------------------------------------------------------------------------
(***************************************************************************)
(* A task: start, start_udp, start_tcp                                     *)
(***************************************************************************)

\* Mutant of Failed: the task ends without raising SHOULD_EXIT.
FailedQuietly(h) ==
    /\ IF ~shouldExit /\ ~fellBack[h]
         THEN /\ task' = [task EXCEPT ![h] = "connecting"]
              /\ via' = [via EXCEPT ![h] = IF @ = "udp" THEN "tcp" ELSE "udp"]
              /\ fellBack' = [fellBack EXCEPT ![h] = TRUE]
         ELSE EndTask(h)
    /\ UNCHANGED shouldExit
    /\ LeaveLoop(h)

\* The end of start_udp/start_tcp with an error: start tries the other
\* transport once, unless SHOULD_EXIT is set; otherwise the task ends and
\* sets SHOULD_EXIT.
Failed(h) ==
    /\ IF ~shouldExit /\ ~fellBack[h]
         THEN /\ task' = [task EXCEPT ![h] = "connecting"]
              /\ via' = [via EXCEPT ![h] = IF @ = "udp" THEN "tcp" ELSE "udp"]
              /\ fellBack' = [fellBack EXCEPT ![h] = TRUE]
              /\ UNCHANGED shouldExit
         ELSE EndTask(h) /\ shouldExit' = TRUE
    /\ LeaveLoop(h)

\* Mutant of TickExit: start_tcp does not look at SHOULD_EXIT.
TickExitUdpOnly(h) ==
    /\ task[h] = "looping" /\ shouldExit /\ via[h] = "udp"
    /\ EndTask(h)
    /\ LeaveLoop(h)
    /\ UNCHANGED <<config, online, solving, shouldExit, super, others, hbbs, sentPk>>
    /\ NoFault

\* SHOULD_EXIT seen by a timer tick: the loop breaks, the task ends.
TickExit(h) ==
    /\ task[h] = "looping" /\ shouldExit
    /\ EndTask(h)
    /\ LeaveLoop(h)
    /\ UNCHANGED <<config, online, solving, shouldExit, super, others, hbbs, sentPk>>
    /\ NoFault

\* The socket is bound or connected; start_tcp forgets the host's key flag.
Connected(h) ==
    /\ task[h] = "connecting"
    /\ task' = [task EXCEPT ![h] = "looping"]
    /\ hostKey' = IF via[h] = "tcp" THEN [hostKey EXCEPT ![PrefixOf[h]] = FALSE] ELSE hostKey
    /\ UNCHANGED <<id, pk, keyConfirmed, servers, stopService, online, solving, shouldExit,
                   super, others, via, fellBack, locals, net, hbbs, sentPk>>
    /\ NoFault

\* Connecting fails or the socket breaks.
SocketError(h) ==
    /\ task[h] \in {"connecting", "looping"}
    /\ Failed(h)
    /\ UNCHANGED <<config, online, solving, super, others, hbbs, sentPk>>
    /\ Fault

\* A tick of start_udp that finds a registration due.  timeout: the last one
\* was not answered in reg_timeout; otherwise none is outstanding and the
\* interval has passed (at once when there was no answer yet).
\* The fallback limit is not above MAX_FAILS2, so the branch that rebinds the
\* socket at MAX_FAILS2 failures is never taken.  (Mutant first: one failure
\* too late.)
should_fallback_late(n) == n > UDP_REGISTRATION_FAILURE_LIMIT
should_fallback_to_tcp(n) == n >= UDP_REGISTRATION_FAILURE_LIMIT

TickUdp(h) ==
    /\ task[h] = "looping" /\ via[h] = "udp" /\ ~shouldExit
    /\ LET timeout == sent[h]
           n == fails[h] + 1
       IN  /\ online' = IF timeout /\ (should_fallback_to_tcp(n) \/ n >= MAX_FAILS1)
                          THEN [online EXCEPT ![h] = "bad"] ELSE online
           /\ UNCHANGED <<config, solving>>
           /\ IF timeout /\ should_fallback_to_tcp(n)
                THEN Failed(h) /\ UNCHANGED sentPk
                ELSE /\ register_peer(h, solving)
                     /\ fails' = IF timeout THEN [fails EXCEPT ![h] = n] ELSE fails
                     /\ sent' = [sent EXCEPT ![h] = TRUE]
                     /\ UNCHANGED <<resps, place, shouldExit>>
    /\ UNCHANGED <<super, others, hbbs>>
    /\ NoFault

\* A tick of start_tcp at REG_INTERVAL.
TickTcp(h) ==
    /\ task[h] = "looping" /\ via[h] = "tcp" /\ ~shouldExit
    /\ UNCHANGED <<config, solving>>
    /\ register_peer(h, solving)
    /\ sent' = [sent EXCEPT ![h] = TRUE]
    /\ UNCHANGED <<online, shouldExit, super, others, place, fails, resps, hbbs>>
    /\ NoFault

\* Nothing that h sends over TCP draws an answer: register_peer holds back
\* for the host in SOLVING_PK_MISMATCH, or hbbs ignores a RegisterPeer.
Unanswered(h) ==
    \/ solving \notin {NoHost, h}
    \/ ~TcpRegisters /\ keyConfirmed /\ hostKey[PrefixOf[h]]

\* A tick of start_tcp that finds the connection silent for longer than its
\* keep-alive allows.
TickTcpSilent(h) ==
    /\ task[h] = "looping" /\ via[h] = "tcp" /\ ~shouldExit
    /\ sent[h] /\ Of(reqs \cup resps, h) = {} /\ Unanswered(h)
    /\ Failed(h)
    /\ UNCHANGED <<config, online, solving, super, others, hbbs, sentPk>>
    /\ NoFault

-----------------------------------------------------------------------------
(***************************************************************************)
(* handle_resp                                                             *)
(***************************************************************************)

\* The latency a response may record.  A UDP latency above a second is not
\* recorded; without an outstanding request the sample is 0, which only the
\* moving average makes positive.
Samples(h) ==
    IF via[h] = "tcp" THEN {IF sent[h] THEN "good" ELSE "bad"}
    ELSE IF sent[h] THEN {online[h], "good"}
    ELSE IF online[h] = "good" THEN {"good"} ELSE {online[h], "bad", "good"}

update_latency(h) ==
    /\ \E v \in Samples(h) : online' = [online EXCEPT ![h] = v]
    /\ IF via[h] = "udp"
         THEN /\ fails' = [fails EXCEPT ![h] = 0]
              /\ sent' = [sent EXCEPT ![h] = FALSE]
         ELSE UNCHANGED locals

Receive(h, m) ==
    /\ task[h] = "looping"
    /\ m \in resps /\ m.host = h
    /\ resps' = resps \ {m}
    /\ update_latency(h)

\* Mutant of RegisterPeerResponse: request_pk is ignored.
RegisterPeerResponseDeaf(h, m) ==
    /\ Receive(h, m)
    /\ m.kind = "RegisterPeerResponse"
    /\ UNCHANGED <<config, solving, shouldExit, super, others, place, reqs, hbbs, sentPk>>
    /\ NoFault

RegisterPeerResponse(h, m) ==
    /\ Receive(h, m)
    /\ m.kind = "RegisterPeerResponse"
    /\ IF m.result = "request_pk"
         THEN register_pk(h, id)
         ELSE UNCHANGED <<reqs, sentPk>>
    /\ UNCHANGED <<config, solving, shouldExit, super, others, place, hbbs>>
    /\ NoFault

\* The OK branch writes three shared places one after the other; the tasks
\* run on several threads.
RegisterPkOk(h, m) ==
    /\ Receive(h, m)
    /\ m.kind = "RegisterPkResponse" /\ m.result = "OK"
    /\ keyConfirmed' = TRUE
    /\ task' = [task EXCEPT ![h] = "confirmHost"]
    /\ UNCHANGED <<id, pk, hostKey, servers, stopService, solving, shouldExit, super, others,
                   via, fellBack, reqs, hbbs, sentPk>>
    /\ NoFault

ConfirmHost(h) ==
    /\ task[h] = "confirmHost"
    /\ hostKey' = [hostKey EXCEPT ![PrefixOf[h]] = TRUE]
    /\ task' = [task EXCEPT ![h] = "confirmSolved"]
    /\ UNCHANGED <<id, pk, keyConfirmed, servers, stopService, online, solving, shouldExit,
                   super, others, via, fellBack, locals, net, hbbs, sentPk>>
    /\ NoFault

ConfirmSolved(h) ==
    /\ task[h] = "confirmSolved"
    /\ solving' = NoHost
    /\ UNCHANGED config
    /\ register_peer(h, NoHost)
    /\ task' = [task EXCEPT ![h] = "looping"]
    /\ UNCHANGED <<online, shouldExit, super, others, via, fellBack, locals, resps, hbbs>>
    /\ NoFault

\* handle_uuid_mismatch; Config::update_id draws a random id.
UuidMismatch(h, m) ==
    /\ Receive(h, m)
    /\ m.kind = "RegisterPkResponse" /\ m.result = "UUID_MISMATCH"
    /\ IF solving \in {NoHost, h}
         THEN /\ ClearKey
              /\ \E i \in DrawnIds : id' = i /\ register_pk(h, i)
              /\ solving' = h
         ELSE UNCHANGED <<keyConfirmed, hostKey, id, solving, reqs, sentPk>>
    /\ UNCHANGED <<pk, servers, stopService, shouldExit, super, others, place, hbbs>>
    /\ NoFault

\* Any other result is only logged.
UnknownPkResponse(h, m) ==
    /\ Receive(h, m)
    /\ m.kind = "RegisterPkResponse" /\ m.result = "NOT_SUPPORT"
    /\ UNCHANGED <<config, solving, shouldExit, super, others, place, reqs, hbbs, sentPk>>
    /\ NoFault

\* hbbs pushes another server list.
ConfigureUpdate(h) ==
    /\ task[h] = "looping"
    /\ servers' \in SUBSET Hosts \ {{}}
    /\ shouldExit' = (shouldExit \/ servers' # servers)
    /\ UNCHANGED <<id, pk, keyConfirmed, hostKey, stopService, online, solving, super, others,
                   place, locals, net, hbbs, sentPk>>
    /\ Fault

-----------------------------------------------------------------------------
(***************************************************************************)
(* hbbs and the network (external)                                         *)
(***************************************************************************)

\* hbbs answers to RegisterPk and RegisterPeer as the handlers above expect:
\* a pk is refused when another machine owns the id, and asked for when hbbs
\* has none.
PkResult(m) == IF via[m.host] = "tcp" /\ ~TcpRegisters THEN "NOT_SUPPORT"
               ELSE IF dir[m.host][m.id] = Other THEN "UUID_MISMATCH" ELSE "OK"
PeerResult(m) == IF dir[m.host][m.id] \in {NoPk, Other} THEN "request_pk" ELSE "ok"

Answer(m, kind, result) ==
    resps' = Put(resps, [kind |-> kind, host |-> m.host, result |-> result])

Serve(m) ==
    /\ m \in reqs
    /\ \/ reqs' = reqs \ {m} /\ NoFault
       \/ via[m.host] = "udp" /\ UNCHANGED reqs /\ Fault     \* UDP delivers it once more
    /\ \/ /\ m.kind = "RegisterPk"
          /\ Answer(m, "RegisterPkResponse", PkResult(m))
          /\ dir' = IF PkResult(m) = "OK" THEN [dir EXCEPT ![m.host][m.id] = m.pk] ELSE dir
          /\ UNCHANGED onlineAt
       \/ /\ m.kind = "RegisterPeer"
          /\ IF via[m.host] = "tcp" /\ ~TcpRegisters
               THEN UNCHANGED <<resps, onlineAt>>
               ELSE /\ Answer(m, "RegisterPeerResponse", PeerResult(m))
                    /\ onlineAt' = IF PeerResult(m) = "ok"
                                     THEN [onlineAt EXCEPT ![m.host] = @ \cup {m.id}]
                                     ELSE onlineAt
          /\ UNCHANGED dir
    /\ UNCHANGED <<config, online, solving, shouldExit, super, others, place, locals, sentPk>>

Lose(m) ==
    /\ \/ m \in reqs /\ via[m.host] = "udp" /\ reqs' = reqs \ {m} /\ UNCHANGED resps
       \/ m \in resps /\ via[m.host] = "udp" /\ resps' = resps \ {m} /\ UNCHANGED reqs
    /\ UNCHANGED <<config, online, solving, shouldExit, super, others, place, locals, hbbs, sentPk>>
    /\ NoFault

\* hbbs drops an entry of its online table (a restart, or its own timeout),
\* and the restart may also lose the key.
ServerForget(h) ==
    /\ onlineAt' = [onlineAt EXCEPT ![h] = {}]
    /\ \/ dir' = dir
       \/ dir' = [dir EXCEPT ![h] = [i \in Ids |-> IF dir[h][i] = Other THEN Other ELSE NoPk]]
    /\ UNCHANGED <<config, online, solving, shouldExit, super, others, place, locals, net, sentPk>>
    /\ Fault

-----------------------------------------------------------------------------
HandleResp(h) ==
    \/ \E m \in resps : RegisterPeerResponse(h, m) \/ RegisterPkOk(h, m)
                        \/ UuidMismatch(h, m) \/ UnknownPkResponse(h, m)
    \/ ConfirmHost(h) \/ ConfirmSolved(h)

Task(h) ==
    \/ Connected(h) \/ SocketError(h)
    \/ TickExit(h) \/ TickUdp(h) \/ TickTcp(h) \/ TickTcpSilent(h)
    \/ HandleResp(h) \/ ConfigureUpdate(h)

Supervisor == SupTop \/ SupSpawn \/ SupJoin \/ SupClose \/ SupReset
Others == SetOption \/ restart \/ CheckIfResendPk
Test == test_rendezvous_server \/ TestBegin \/ (\E h \in Hosts : TestLatency(h)) \/ TestReset
Network == (\E m \in reqs : Serve(m)) \/ (\E m \in reqs \cup resps : Lose(m))
           \/ (\E h \in Hosts : ServerForget(h))

Next == Supervisor \/ Others \/ Test \/ (\E h \in Hosts : Task(h)) \/ Network

Spec == Init /\ [][Next]_vars

(***************************************************************************)
(* Fairness: the supervisor and the tasks are threads and timers that keep *)
(* running; a datagram that is sent over and over gets through, both ways. *)
(***************************************************************************)
Fairness ==
    /\ WF_vars(Supervisor)
    /\ WF_vars(restart)
    /\ \A h \in Hosts :
         /\ WF_vars(Connected(h))
         /\ WF_vars(TickExit(h)) /\ WF_vars(TickUdp(h)) /\ WF_vars(TickTcp(h))
         /\ WF_vars(ConfirmHost(h)) /\ WF_vars(ConfirmSolved(h))
         /\ SF_vars(\E m \in resps : RegisterPeerResponse(h, m))
         /\ SF_vars(\E m \in resps : RegisterPkOk(h, m))
         /\ SF_vars(\E m \in resps : UuidMismatch(h, m))
         /\ SF_vars(\E m \in Of(reqs, h) : m.kind = "RegisterPk" /\ Serve(m))
         /\ SF_vars(\E m \in Of(reqs, h) : m.kind = "RegisterPeer" /\ Serve(m))

FairSpec == Spec /\ Fairness

-----------------------------------------------------------------------------
(***************************************************************************)
(* Properties                                                              *)
(***************************************************************************)

\* start_all: "SHOULD_EXIT here is to ensure once one exits, the others also
\* exit": a task never ends with the flag down.
ExitPropagates ==
    sup = "join" /\ (\E h \in run : task[h] = "done") => shouldExit

\* While the round goes on, SOLVING_PK_MISMATCH never names a host whose task
\* is gone: register_peer would return early for all the others, and nobody
\* would be left to clear the mark.
SolvingHasOwner ==
    sup = "join" /\ ~shouldExit /\ solving # NoHost
        => solving \in run /\ task[solving] \notin {"idle", "done"}

\* The latency table that the UI shows as the online status never keeps an
\* entry of an earlier round, or of a host without a task in this one, beyond
\* the reset that the thread which left it has still to do: the supervisor's
\* at the end of the round, or the one at the end of a server test.
StatusFresh ==
    \A h \in Hosts : online[h] # "none" =>
        \/ sup = "join" /\ h \in run
        \/ sup = "reset"
        \/ test = "join"

\* Once SHOULD_EXIT is set in a round, every task ends and the supervisor
\* starts over.
ExitCompletes == (sup = "join" /\ shouldExit) ~> (sup = "top")

Registered(h) == id \in onlineAt[h]

\* With a hbbs that registers over UDP only, as the comments of start_tcp say,
\* and finitely many disturbances every configured host is registered again
\* and again, under whatever id the mismatches of all the hosts have
\* led to, unless its task has left UDP.  An unanswered request_pk, a mark
\* in SOLVING_PK_MISMATCH nobody clears or a key flag confirmed too early
\* would keep a task on UDP, answered and never online.
RegisteredOverUdp ==
    \A h \in Hosts :
        []<>(Registered(h) \/ stopService \/ h \notin servers \/ via[h] = "tcp")
=============================================================================
