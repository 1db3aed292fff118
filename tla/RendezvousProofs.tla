------------------------- MODULE RendezvousProofs -------------------------
(***************************************************************************)
(* Safety of the registration rounds, for every set of hosts, every bound  *)
(* and every failure limit.                                                *)
(***************************************************************************)
EXTENDS Rendezvous, TLAPS

\* A round's tasks exist exactly while the supervisor waits for them.
Rounds ==
    /\ sup # "join" => \A h \in Hosts : task[h] = "idle"
    /\ sup = "join" => \A h \in Hosts : task[h] # "idle" <=> h \in run

\* The mark is clear when a round starts and names one of its hosts after.
SolvingInRound ==
    /\ sup = "flags" => solving = NoHost
    /\ sup = "join" => solving \in run \cup {NoHost}

IInv == TypeOK /\ Rounds /\ SolvingInRound /\ ExitPropagates /\ StatusFresh

USE HostsAssumption, IdsAssumption, PksAssumption, LimitsAssumption, BoundsAssumption

\* The initial state satisfies the inductive invariant.
LEMMA InitIInv == Init => IInv
<1> SUFFICES ASSUME Init PROVE IInv
  OBVIOUS
<1>1. hostKey \in [Prefixes -> BOOLEAN]
  BY DEF Init
<1>2. online \in [Hosts -> Latency] /\ task \in [Hosts -> TaskStates] /\ via \in [Hosts -> Transports]
  BY DEF Init, Latency, TaskStates, Transports
<1>3. /\ fellBack \in [Hosts -> BOOLEAN] /\ sent \in [Hosts -> BOOLEAN]
      /\ fails \in [Hosts -> 0..(UDP_REGISTRATION_FAILURE_LIMIT - 1)]
  BY DEF Init
<1>4. /\ dir \in [Hosts -> [Ids -> Pks \cup {NoPk, Other}]]
      /\ onlineAt \in [Hosts -> SUBSET Ids]
  BY DEF Init
<1>5. /\ faults \in 0..MaxFaults /\ sup \in SupStates /\ reqs \in SUBSET Request
      /\ resps \in SUBSET Response /\ sentPk \in Pks \cup {NoPk}
  BY DEF Init, SupStates
<1>6. /\ id \in Ids /\ pk \in Pks /\ keyConfirmed \in BOOLEAN /\ stopService \in BOOLEAN
      /\ solving \in Hosts \cup {NoHost} /\ shouldExit \in BOOLEAN
      /\ servers \in SUBSET Hosts /\ run \in SUBSET Hosts /\ opt \in {"idle", "changed"}
      /\ test \in {"idle", "spawned", "join"} /\ untested \in SUBSET Hosts
  BY DEF Init
<1>7. TypeOK
  BY <1>1, <1>2, <1>3, <1>4, <1>5, <1>6 DEF TypeOK, ConfigTypeOK, ThreadTypeOK, NetTypeOK
<1>8. Rounds /\ SolvingInRound /\ ExitPropagates /\ StatusFresh
  BY DEF Init, Rounds, SolvingInRound, ExitPropagates, StatusFresh
<1> QED
  BY <1>7, <1>8 DEF IInv

\* Sending keeps the channel well typed.
LEMMA PutType ==
  ASSUME NEW S, NEW m \in S, NEW msgs \in SUBSET S PROVE Put(msgs, m) \in SUBSET S
  BY DEF Put

\* What register_pk and register_peer do to the variables they write.
LEMMA RegisterType ==
  ASSUME TypeOK, NEW h \in Hosts, NEW i \in Ids
  PROVE  /\ register_pk(h, i) => reqs' \in SUBSET Request /\ sentPk' \in Pks \cup {NoPk}
         /\ \A s : register_peer(h, s) => reqs' \in SUBSET Request /\ sentPk' \in Pks \cup {NoPk}
<1>1. \A j \in Ids : Msg("RegisterPk", h, j, pk) \in Request /\ Msg("RegisterPeer", h, j, NoPk) \in Request
  BY DEF Msg, Request, TypeOK, ConfigTypeOK, ThreadTypeOK, NetTypeOK
<1>2. \A j \in Ids : register_pk(h, j) => reqs' \in SUBSET Request /\ sentPk' \in Pks \cup {NoPk}
  BY <1>1, PutType DEF register_pk, TypeOK, ConfigTypeOK, ThreadTypeOK, NetTypeOK
<1>3. ASSUME NEW s, register_peer(h, s) PROVE reqs' \in SUBSET Request /\ sentPk' \in Pks \cup {NoPk}
  <2>1. id \in Ids
    BY DEF TypeOK, ConfigTypeOK, ThreadTypeOK, NetTypeOK
  <2> QED
    BY <1>1, <1>2, <1>3, <2>1, PutType DEF register_peer, TypeOK, ConfigTypeOK, ThreadTypeOK, NetTypeOK
<1> QED
  BY <1>2, <1>3

\* A response only touches h's latency and lowers h's failure count.
LEMMA LatencyType ==
  ASSUME TypeOK, NEW h \in Hosts, update_latency(h)
  PROVE  /\ online' \in [Hosts -> Latency]
         /\ fails' \in [Hosts -> 0..(UDP_REGISTRATION_FAILURE_LIMIT - 1)]
         /\ sent' \in [Hosts -> BOOLEAN]
         /\ \A g \in Hosts \ {h} : online'[g] = online[g]
         /\ \A g \in Hosts : fails'[g] <= fails[g]
<1>1. Samples(h) \subseteq Latency
  BY DEF Samples, Latency, TypeOK, ConfigTypeOK
<1>2. online' \in [Hosts -> Latency] /\ \A g \in Hosts \ {h} : online'[g] = online[g]
  BY <1>1 DEF update_latency, TypeOK, ConfigTypeOK
<1>3. /\ fails' \in [Hosts -> 0..(UDP_REGISTRATION_FAILURE_LIMIT - 1)]
      /\ \A g \in Hosts : fails'[g] <= fails[g]
  BY DEF update_latency, locals, TypeOK, ThreadTypeOK
<1>4. sent' \in [Hosts -> BOOLEAN]
  BY DEF update_latency, locals, TypeOK, ThreadTypeOK
<1> QED
  BY <1>2, <1>3, <1>4

\* Every step of the supervisor, of a task, of another thread and of the
\* network preserves the inductive invariant.
LEMMA NextIInv == IInv /\ [Next]_vars => IInv'
<1> SUFFICES ASSUME IInv, [Next]_vars PROVE IInv'
  OBVIOUS
<1> USE DEF IInv
<1>1. ASSUME SupTop PROVE IInv'
  <2>1. ConfigTypeOK'
    BY <1>1
    DEF SupTop, config, locals, place, others, probe, super, net, hbbs, Fault, NoFault,
        TypeOK, ConfigTypeOK, Latency, TaskStates, SupStates, Transports
  <2>2. ThreadTypeOK'
    <3>1. sup' \in SupStates /\ run' \in SUBSET Hosts
      BY <1>1 DEF SupTop, TypeOK, ConfigTypeOK, ThreadTypeOK, SupStates
    <3> QED
      BY <1>1, <3>1
      DEF SupTop, config, locals, place, others, Fault, NoFault, TypeOK, ThreadTypeOK
  <2>3. NetTypeOK'
    BY <1>1
    DEF SupTop, config, locals, place, others, probe, super, net, hbbs, Fault, NoFault,
        TypeOK, ConfigTypeOK, ThreadTypeOK, NetTypeOK
  <2>4. (Rounds /\ SolvingInRound /\ ExitPropagates)'
    BY <1>1
    DEF SupTop, config, locals, place, others, probe, super, net, hbbs, Fault, NoFault,
        TypeOK, ThreadTypeOK, Rounds, SolvingInRound, ExitPropagates
  <2>5. StatusFresh'
    BY <1>1
    DEF SupTop, config, locals, place, others, probe, super, net, hbbs, Fault, NoFault,
        TypeOK, ConfigTypeOK, ThreadTypeOK, NetTypeOK, Rounds, StatusFresh
  <2> QED
    BY <2>1, <2>2, <2>3, <2>4, <2>5 DEF TypeOK
<1>2. ASSUME SupSpawn PROVE IInv'
  <2>1. ConfigTypeOK'
    BY <1>2
    DEF SupSpawn, config, locals, place, others, probe, super, net, hbbs, Fault, NoFault,
        TypeOK, ConfigTypeOK, Latency, TaskStates, SupStates, Transports
  <2>2. ThreadTypeOK'
    BY <1>2, ZenonT(30)
    DEF SupSpawn, config, locals, place, others, probe, super, net, hbbs, Fault, NoFault,
        TypeOK, ThreadTypeOK, Latency, TaskStates, SupStates, Transports
  <2>3. NetTypeOK'
    BY <1>2
    DEF SupSpawn, config, locals, place, others, probe, super, net, hbbs, Fault, NoFault,
        TypeOK, ConfigTypeOK, ThreadTypeOK, NetTypeOK
  <2>4. (Rounds /\ SolvingInRound /\ ExitPropagates)'
    BY <1>2
    DEF SupSpawn, config, locals, place, others, probe, super, net, hbbs, Fault, NoFault,
        TypeOK, ThreadTypeOK, Rounds, SolvingInRound, ExitPropagates
  <2>5. StatusFresh'
    BY <1>2
    DEF SupSpawn, config, locals, place, others, probe, super, net, hbbs, Fault, NoFault,
        TypeOK, ConfigTypeOK, ThreadTypeOK, NetTypeOK, Rounds, StatusFresh
  <2> QED
    BY <2>1, <2>2, <2>3, <2>4, <2>5 DEF TypeOK
<1>3. ASSUME SupJoin PROVE IInv'
  <2>1. ConfigTypeOK'
    BY <1>3
    DEF SupJoin, config, locals, place, others, probe, super, net, hbbs, Fault, NoFault,
        TypeOK, ConfigTypeOK, Latency, TaskStates, SupStates, Transports
  <2>2. ThreadTypeOK'
    BY <1>3
    DEF SupJoin, config, locals, place, others, probe, super, net, hbbs, Fault, NoFault,
        TypeOK, ThreadTypeOK, Latency, TaskStates, SupStates, Transports
  <2>3. NetTypeOK'
    BY <1>3
    DEF SupJoin, config, locals, place, others, probe, super, net, hbbs, Fault, NoFault,
        TypeOK, ConfigTypeOK, ThreadTypeOK, NetTypeOK
  <2>4. (Rounds /\ SolvingInRound /\ ExitPropagates)'
    BY <1>3
    DEF SupJoin, config, locals, place, others, probe, super, net, hbbs, Fault, NoFault,
        TypeOK, ThreadTypeOK, Rounds, SolvingInRound, ExitPropagates
  <2>5. StatusFresh'
    BY <1>3
    DEF SupJoin, config, locals, place, others, probe, super, net, hbbs, Fault, NoFault,
        TypeOK, ConfigTypeOK, ThreadTypeOK, NetTypeOK, Rounds, StatusFresh
  <2> QED
    BY <2>1, <2>2, <2>3, <2>4, <2>5 DEF TypeOK
<1>4. ASSUME SupClose PROVE IInv'
  <2>1. ConfigTypeOK'
    BY <1>4
    DEF SupClose, config, locals, place, others, probe, super, net, hbbs, Fault, NoFault,
        TypeOK, ConfigTypeOK, Latency, TaskStates, SupStates, Transports
  <2>2. ThreadTypeOK'
    BY <1>4
    DEF SupClose, config, locals, place, others, probe, super, net, hbbs, Fault, NoFault,
        TypeOK, ThreadTypeOK, Latency, TaskStates, SupStates, Transports
  <2>3. NetTypeOK'
    BY <1>4
    DEF SupClose, config, locals, place, others, probe, super, net, hbbs, Fault, NoFault,
        TypeOK, ConfigTypeOK, ThreadTypeOK, NetTypeOK
  <2>4. (Rounds /\ SolvingInRound /\ ExitPropagates)'
    BY <1>4
    DEF SupClose, config, locals, place, others, probe, super, net, hbbs, Fault, NoFault,
        TypeOK, ThreadTypeOK, Rounds, SolvingInRound, ExitPropagates
  <2>5. StatusFresh'
    BY <1>4
    DEF SupClose, config, locals, place, others, probe, super, net, hbbs, Fault, NoFault,
        TypeOK, ConfigTypeOK, ThreadTypeOK, NetTypeOK, Rounds, StatusFresh
  <2> QED
    BY <2>1, <2>2, <2>3, <2>4, <2>5 DEF TypeOK
<1>5. ASSUME SupReset PROVE IInv'
  <2>1. ConfigTypeOK'
    BY <1>5
    DEF SupReset, config, locals, place, others, probe, super, net, hbbs, Fault, NoFault,
        TypeOK, ConfigTypeOK, Latency, TaskStates, SupStates, Transports
  <2>2. ThreadTypeOK'
    BY <1>5
    DEF SupReset, config, locals, place, others, probe, super, net, hbbs, Fault, NoFault,
        TypeOK, ThreadTypeOK, Latency, TaskStates, SupStates, Transports
  <2>3. NetTypeOK'
    BY <1>5
    DEF SupReset, config, locals, place, others, probe, super, net, hbbs, Fault, NoFault,
        TypeOK, ConfigTypeOK, ThreadTypeOK, NetTypeOK
  <2>4. (Rounds /\ SolvingInRound /\ ExitPropagates)'
    BY <1>5
    DEF SupReset, config, locals, place, others, probe, super, net, hbbs, Fault, NoFault,
        TypeOK, ThreadTypeOK, Rounds, SolvingInRound, ExitPropagates
  <2>5. StatusFresh'
    BY <1>5
    DEF SupReset, config, locals, place, others, probe, super, net, hbbs, Fault, NoFault,
        TypeOK, ConfigTypeOK, ThreadTypeOK, NetTypeOK, Rounds, StatusFresh
  <2> QED
    BY <2>1, <2>2, <2>3, <2>4, <2>5 DEF TypeOK
<1>6. ASSUME SetOption PROVE IInv'
  <2>1. ConfigTypeOK'
    BY <1>6
    DEF SetOption, config, locals, place, others, probe, super, net, hbbs, Fault, NoFault,
        TypeOK, ConfigTypeOK, Latency, TaskStates, SupStates, Transports
  <2>2. ThreadTypeOK'
    BY <1>6
    DEF SetOption, config, locals, place, others, probe, super, net, hbbs, Fault, NoFault,
        TypeOK, ThreadTypeOK, Latency, TaskStates, SupStates, Transports
  <2>3. NetTypeOK'
    BY <1>6
    DEF SetOption, config, locals, place, others, probe, super, net, hbbs, Fault, NoFault,
        TypeOK, ConfigTypeOK, ThreadTypeOK, NetTypeOK
  <2>4. (Rounds /\ SolvingInRound /\ ExitPropagates)'
    BY <1>6
    DEF SetOption, config, locals, place, others, probe, super, net, hbbs, Fault, NoFault,
        TypeOK, ThreadTypeOK, Rounds, SolvingInRound, ExitPropagates
  <2>5. StatusFresh'
    BY <1>6
    DEF SetOption, config, locals, place, others, probe, super, net, hbbs, Fault, NoFault,
        TypeOK, ConfigTypeOK, ThreadTypeOK, NetTypeOK, Rounds, StatusFresh
  <2> QED
    BY <2>1, <2>2, <2>3, <2>4, <2>5 DEF TypeOK
<1>7. ASSUME restart PROVE IInv'
  <2>1. ConfigTypeOK'
    BY <1>7
    DEF restart, config, locals, place, others, probe, super, net, hbbs, Fault, NoFault,
        TypeOK, ConfigTypeOK, Latency, TaskStates, SupStates, Transports
  <2>2. ThreadTypeOK'
    BY <1>7
    DEF restart, config, locals, place, others, probe, super, net, hbbs, Fault, NoFault,
        TypeOK, ThreadTypeOK, Latency, TaskStates, SupStates, Transports
  <2>3. NetTypeOK'
    BY <1>7
    DEF restart, config, locals, place, others, probe, super, net, hbbs, Fault, NoFault,
        TypeOK, ConfigTypeOK, ThreadTypeOK, NetTypeOK
  <2>4. (Rounds /\ SolvingInRound /\ ExitPropagates)'
    BY <1>7
    DEF restart, config, locals, place, others, probe, super, net, hbbs, Fault, NoFault,
        TypeOK, ThreadTypeOK, Rounds, SolvingInRound, ExitPropagates
  <2>5. StatusFresh'
    BY <1>7
    DEF restart, config, locals, place, others, probe, super, net, hbbs, Fault, NoFault,
        TypeOK, ConfigTypeOK, ThreadTypeOK, NetTypeOK, Rounds, StatusFresh
  <2> QED
    BY <2>1, <2>2, <2>3, <2>4, <2>5 DEF TypeOK
<1>8. ASSUME CheckIfResendPk PROVE IInv'
  <2>1. ConfigTypeOK'
    BY <1>8
    DEF CheckIfResendPk, ClearKey, config, locals, place, others, probe, super, net, hbbs, Fault, NoFault,
        TypeOK, ConfigTypeOK, Latency, TaskStates, SupStates, Transports
  <2>2. ThreadTypeOK'
    BY <1>8
    DEF CheckIfResendPk, ClearKey, config, locals, place, others, probe, super, net, hbbs, Fault, NoFault,
        TypeOK, ThreadTypeOK, Latency, TaskStates, SupStates, Transports
  <2>3. NetTypeOK'
    BY <1>8
    DEF CheckIfResendPk, ClearKey, config, locals, place, others, probe, super, net, hbbs, Fault, NoFault,
        TypeOK, ConfigTypeOK, ThreadTypeOK, NetTypeOK
  <2>4. (Rounds /\ SolvingInRound /\ ExitPropagates)'
    BY <1>8
    DEF CheckIfResendPk, ClearKey, config, locals, place, others, probe, super, net, hbbs, Fault, NoFault,
        TypeOK, ThreadTypeOK, Rounds, SolvingInRound, ExitPropagates
  <2>5. StatusFresh'
    BY <1>8
    DEF CheckIfResendPk, ClearKey, config, locals, place, others, probe, super, net, hbbs, Fault, NoFault,
        TypeOK, ConfigTypeOK, ThreadTypeOK, NetTypeOK, Rounds, StatusFresh
  <2> QED
    BY <2>1, <2>2, <2>3, <2>4, <2>5 DEF TypeOK
<1>9. ASSUME NEW h \in Hosts, Connected(h) PROVE IInv'
  <2>1. ConfigTypeOK'
    BY <1>9
    DEF Connected, config, locals, place, others, probe, super, net, hbbs, Fault, NoFault,
        TypeOK, ConfigTypeOK, Latency, TaskStates, SupStates, Transports
  <2>2. ThreadTypeOK'
    BY <1>9
    DEF Connected, config, locals, place, others, probe, super, net, hbbs, Fault, NoFault,
        TypeOK, ThreadTypeOK, Latency, TaskStates, SupStates, Transports
  <2>3. NetTypeOK'
    BY <1>9
    DEF Connected, config, locals, place, others, probe, super, net, hbbs, Fault, NoFault,
        TypeOK, ConfigTypeOK, ThreadTypeOK, NetTypeOK
  <2>4. (Rounds /\ SolvingInRound /\ ExitPropagates)'
    BY <1>9
    DEF Connected, config, locals, place, others, probe, super, net, hbbs, Fault, NoFault,
        TypeOK, ThreadTypeOK, Rounds, SolvingInRound, ExitPropagates
  <2>5. StatusFresh'
    BY <1>9
    DEF Connected, config, locals, place, others, probe, super, net, hbbs, Fault, NoFault,
        TypeOK, ConfigTypeOK, ThreadTypeOK, NetTypeOK, Rounds, StatusFresh
  <2> QED
    BY <2>1, <2>2, <2>3, <2>4, <2>5 DEF TypeOK
<1>10. ASSUME NEW h \in Hosts, SocketError(h) PROVE IInv'
  <2>1. ConfigTypeOK'
    BY <1>10
    DEF SocketError, Failed, LeaveLoop, EndTask, Of, config, locals, place, others, probe, super, net, hbbs, Fault, NoFault,
        TypeOK, ConfigTypeOK, Latency, TaskStates, SupStates, Transports
  <2>2. ThreadTypeOK'
    <3>1. faults' \in 0..MaxFaults
      BY <1>10 DEF SocketError, Fault, TypeOK, ThreadTypeOK
    <3>2. /\ task' \in [Hosts -> TaskStates] /\ via' \in [Hosts -> Transports]
          /\ fellBack' \in [Hosts -> BOOLEAN] /\ shouldExit' \in BOOLEAN
      BY <1>10 DEF SocketError, Failed, EndTask, TypeOK, ThreadTypeOK, TaskStates, Transports
    <3>3. /\ fails' \in [Hosts -> 0..(UDP_REGISTRATION_FAILURE_LIMIT - 1)]
          /\ sent' \in [Hosts -> BOOLEAN]
      BY <1>10 DEF SocketError, Failed, LeaveLoop, TypeOK, ThreadTypeOK
    <3> QED
      BY <1>10, <3>1, <3>2, <3>3 DEF SocketError, locals, super, others, TypeOK, ThreadTypeOK
  <2>3. NetTypeOK'
    BY <1>10
    DEF SocketError, Failed, LeaveLoop, EndTask, Of, config, locals, place, others, probe, super, net, hbbs, Fault, NoFault,
        TypeOK, ConfigTypeOK, ThreadTypeOK, NetTypeOK
  <2>4. (Rounds /\ SolvingInRound /\ ExitPropagates)'
    BY <1>10
    DEF SocketError, Failed, LeaveLoop, EndTask, Of, config, locals, place, others, probe, super, net, hbbs, Fault, NoFault,
        TypeOK, ThreadTypeOK, Rounds, SolvingInRound, ExitPropagates
  <2>5. StatusFresh'
    BY <1>10
    DEF SocketError, Failed, LeaveLoop, EndTask, Of, config, locals, place, others, probe, super, net, hbbs, Fault, NoFault,
        TypeOK, ConfigTypeOK, ThreadTypeOK, NetTypeOK, Rounds, StatusFresh
  <2> QED
    BY <2>1, <2>2, <2>3, <2>4, <2>5 DEF TypeOK
<1>11. ASSUME NEW h \in Hosts, TickExit(h) PROVE IInv'
  <2>1. ConfigTypeOK'
    BY <1>11
    DEF TickExit, LeaveLoop, EndTask, Of, config, locals, place, others, probe, super, net, hbbs, Fault, NoFault,
        TypeOK, ConfigTypeOK, Latency, TaskStates, SupStates, Transports
  <2>2. ThreadTypeOK'
    BY <1>11
    DEF TickExit, LeaveLoop, EndTask, Of, config, locals, place, others, probe, super, net, hbbs, Fault, NoFault,
        TypeOK, ThreadTypeOK, Latency, TaskStates, SupStates, Transports
  <2>3. NetTypeOK'
    BY <1>11
    DEF TickExit, LeaveLoop, EndTask, Of, config, locals, place, others, probe, super, net, hbbs, Fault, NoFault,
        TypeOK, ConfigTypeOK, ThreadTypeOK, NetTypeOK
  <2>4. (Rounds /\ SolvingInRound /\ ExitPropagates)'
    BY <1>11
    DEF TickExit, LeaveLoop, EndTask, Of, config, locals, place, others, probe, super, net, hbbs, Fault, NoFault,
        TypeOK, ThreadTypeOK, Rounds, SolvingInRound, ExitPropagates
  <2>5. StatusFresh'
    BY <1>11
    DEF TickExit, LeaveLoop, EndTask, Of, config, locals, place, others, probe, super, net, hbbs, Fault, NoFault,
        TypeOK, ConfigTypeOK, ThreadTypeOK, NetTypeOK, Rounds, StatusFresh
  <2> QED
    BY <2>1, <2>2, <2>3, <2>4, <2>5 DEF TypeOK
<1>12. ASSUME NEW h \in Hosts, TickUdp(h) PROVE IInv'
  <2>0. reqs' \in SUBSET Request /\ sentPk' \in Pks \cup {NoPk}
    BY <1>12, RegisterType
    DEF TickUdp, Failed, LeaveLoop, EndTask, Of, should_fallback_to_tcp, config, locals, place, others, probe, super, net, hbbs, Fault, NoFault,
        TypeOK, ConfigTypeOK, ThreadTypeOK, NetTypeOK
  <2>1. ConfigTypeOK'
    BY <1>12, <2>0
    DEF TickUdp, Failed, LeaveLoop, EndTask, Of, should_fallback_to_tcp, config, locals, place, others, probe, super, net, hbbs, Fault, NoFault,
        TypeOK, ConfigTypeOK, Latency, TaskStates, SupStates, Transports
  <2>2. ThreadTypeOK'
    <3>1. fails' \in [Hosts -> 0..(UDP_REGISTRATION_FAILURE_LIMIT - 1)]
      BY <1>12 DEF TickUdp, Failed, LeaveLoop, should_fallback_to_tcp, TypeOK, ThreadTypeOK
    <3>2. /\ task' \in [Hosts -> TaskStates] /\ via' \in [Hosts -> Transports]
          /\ fellBack' \in [Hosts -> BOOLEAN] /\ shouldExit' \in BOOLEAN
      BY <1>12 DEF TickUdp, Failed, EndTask, place, TypeOK, ThreadTypeOK, TaskStates, Transports
    <3>3. sent' \in [Hosts -> BOOLEAN]
      BY <1>12 DEF TickUdp, Failed, LeaveLoop, should_fallback_to_tcp, TypeOK, ThreadTypeOK
    <3> QED
      BY <1>12, <3>1, <3>2, <3>3 DEF TickUdp, NoFault, super, others, TypeOK, ThreadTypeOK
  <2>3. NetTypeOK'
    BY <1>12, <2>0
    DEF TickUdp, Failed, LeaveLoop, EndTask, Of, should_fallback_to_tcp, config, locals, place, others, probe, super, net, hbbs, Fault, NoFault,
        TypeOK, ConfigTypeOK, ThreadTypeOK, NetTypeOK
  <2>4. (Rounds /\ SolvingInRound /\ ExitPropagates)'
    BY <1>12, <2>0
    DEF TickUdp, Failed, LeaveLoop, EndTask, Of, should_fallback_to_tcp, config, locals, place, others, probe, super, net, hbbs, Fault, NoFault,
        TypeOK, ThreadTypeOK, Rounds, SolvingInRound, ExitPropagates
  <2>5. StatusFresh'
    BY <1>12, <2>0
    DEF TickUdp, Failed, LeaveLoop, EndTask, Of, should_fallback_to_tcp, config, locals, place, others, probe, super, net, hbbs, Fault, NoFault,
        TypeOK, ConfigTypeOK, ThreadTypeOK, NetTypeOK, Rounds, StatusFresh
  <2> QED
    BY <2>1, <2>2, <2>3, <2>4, <2>5 DEF TypeOK
<1>13. ASSUME NEW h \in Hosts, TickTcp(h) PROVE IInv'
  <2>0. reqs' \in SUBSET Request /\ sentPk' \in Pks \cup {NoPk}
    BY <1>13, RegisterType
    DEF TickTcp, config, locals, place, others, probe, super, net, hbbs, Fault, NoFault,
        TypeOK, ConfigTypeOK, ThreadTypeOK, NetTypeOK
  <2>1. ConfigTypeOK'
    BY <1>13, <2>0
    DEF TickTcp, config, locals, place, others, probe, super, net, hbbs, Fault, NoFault,
        TypeOK, ConfigTypeOK, Latency, TaskStates, SupStates, Transports
  <2>2. ThreadTypeOK'
    BY <1>13, <2>0
    DEF TickTcp, config, locals, place, others, probe, super, net, hbbs, Fault, NoFault,
        TypeOK, ThreadTypeOK, Latency, TaskStates, SupStates, Transports
  <2>3. NetTypeOK'
    BY <1>13, <2>0
    DEF TickTcp, config, locals, place, others, probe, super, net, hbbs, Fault, NoFault,
        TypeOK, ConfigTypeOK, ThreadTypeOK, NetTypeOK
  <2>4. (Rounds /\ SolvingInRound /\ ExitPropagates)'
    BY <1>13, <2>0
    DEF TickTcp, config, locals, place, others, probe, super, net, hbbs, Fault, NoFault,
        TypeOK, ThreadTypeOK, Rounds, SolvingInRound, ExitPropagates
  <2>5. StatusFresh'
    BY <1>13, <2>0
    DEF TickTcp, config, locals, place, others, probe, super, net, hbbs, Fault, NoFault,
        TypeOK, ConfigTypeOK, ThreadTypeOK, NetTypeOK, Rounds, StatusFresh
  <2> QED
    BY <2>1, <2>2, <2>3, <2>4, <2>5 DEF TypeOK
<1>14. ASSUME NEW h \in Hosts, NEW m \in resps, RegisterPeerResponse(h, m) PROVE IInv'
  <2>0. reqs' \in SUBSET Request /\ sentPk' \in Pks \cup {NoPk}
    BY <1>14, RegisterType
    DEF RegisterPeerResponse, Receive, config, locals, place, others, probe, super, net, hbbs, Fault, NoFault,
        TypeOK, ConfigTypeOK, ThreadTypeOK, NetTypeOK
  <2>1. ConfigTypeOK'
    BY <1>14, <2>0, LatencyType
    DEF RegisterPeerResponse, Receive, config, locals, place, others, probe, super, net, hbbs, Fault, NoFault,
        TypeOK, ConfigTypeOK, Latency, TaskStates, SupStates, Transports
  <2>2. ThreadTypeOK'
    BY <1>14, <2>0, LatencyType
    DEF RegisterPeerResponse, Receive, config, locals, place, others, probe, super, net, hbbs, Fault, NoFault,
        TypeOK, ThreadTypeOK, Latency, TaskStates, SupStates, Transports
  <2>3. NetTypeOK'
    BY <1>14, <2>0, LatencyType
    DEF RegisterPeerResponse, Receive, config, locals, place, others, probe, super, net, hbbs, Fault, NoFault,
        TypeOK, ConfigTypeOK, ThreadTypeOK, NetTypeOK
  <2>4. (Rounds /\ SolvingInRound /\ ExitPropagates)'
    BY <1>14, <2>0, LatencyType
    DEF RegisterPeerResponse, Receive, config, locals, place, others, probe, super, net, hbbs, Fault, NoFault,
        TypeOK, ThreadTypeOK, Rounds, SolvingInRound, ExitPropagates
  <2>5. StatusFresh'
    BY <1>14, <2>0, LatencyType
    DEF RegisterPeerResponse, Receive, config, locals, place, others, probe, super, net, hbbs, Fault, NoFault,
        TypeOK, ConfigTypeOK, ThreadTypeOK, NetTypeOK, Rounds, StatusFresh
  <2> QED
    BY <2>1, <2>2, <2>3, <2>4, <2>5 DEF TypeOK
<1>15. ASSUME NEW h \in Hosts, NEW m \in resps, RegisterPkOk(h, m) PROVE IInv'
  <2>1. ConfigTypeOK'
    BY <1>15, LatencyType
    DEF RegisterPkOk, Receive, config, locals, place, others, probe, super, net, hbbs, Fault, NoFault,
        TypeOK, ConfigTypeOK, Latency, TaskStates, SupStates, Transports
  <2>2. ThreadTypeOK'
    BY <1>15, LatencyType
    DEF RegisterPkOk, Receive, config, locals, place, others, probe, super, net, hbbs, Fault, NoFault,
        TypeOK, ThreadTypeOK, Latency, TaskStates, SupStates, Transports
  <2>3. NetTypeOK'
    BY <1>15, LatencyType
    DEF RegisterPkOk, Receive, config, locals, place, others, probe, super, net, hbbs, Fault, NoFault,
        TypeOK, ConfigTypeOK, ThreadTypeOK, NetTypeOK
  <2>4. (Rounds /\ SolvingInRound /\ ExitPropagates)'
    BY <1>15, LatencyType
    DEF RegisterPkOk, Receive, config, locals, place, others, probe, super, net, hbbs, Fault, NoFault,
        TypeOK, ThreadTypeOK, Rounds, SolvingInRound, ExitPropagates
  <2>5. StatusFresh'
    BY <1>15, LatencyType
    DEF RegisterPkOk, Receive, config, locals, place, others, probe, super, net, hbbs, Fault, NoFault,
        TypeOK, ConfigTypeOK, ThreadTypeOK, NetTypeOK, Rounds, StatusFresh
  <2> QED
    BY <2>1, <2>2, <2>3, <2>4, <2>5 DEF TypeOK
<1>16. ASSUME NEW h \in Hosts, NEW m \in resps, UuidMismatch(h, m) PROVE IInv'
  <2>0. reqs' \in SUBSET Request /\ sentPk' \in Pks \cup {NoPk}
    BY <1>16, RegisterType
    DEF UuidMismatch, Receive, ClearKey, config, locals, place, others, probe, super, net, hbbs, Fault, NoFault,
        TypeOK, ConfigTypeOK, ThreadTypeOK, NetTypeOK
  <2>1. ConfigTypeOK'
    <3>1. online' \in [Hosts -> Latency]
      BY <1>16, LatencyType DEF UuidMismatch, Receive
    <3>2. keyConfirmed' \in BOOLEAN /\ hostKey' \in [Prefixes -> BOOLEAN]
      BY <1>16 DEF UuidMismatch, ClearKey, TypeOK, ConfigTypeOK
    <3>3. id' \in Ids
      BY <1>16 DEF UuidMismatch, TypeOK, ConfigTypeOK
    <3> QED
      BY <1>16, <2>0, <3>1, <3>2, <3>3 DEF UuidMismatch, TypeOK, ConfigTypeOK
  <2>2. ThreadTypeOK'
    BY <1>16, <2>0, LatencyType
    DEF UuidMismatch, Receive, ClearKey, config, locals, place, others, probe, super, net, hbbs, Fault, NoFault,
        TypeOK, ThreadTypeOK, Latency, TaskStates, SupStates, Transports
  <2>3. NetTypeOK'
    BY <1>16, <2>0, LatencyType
    DEF UuidMismatch, Receive, ClearKey, config, locals, place, others, probe, super, net, hbbs, Fault, NoFault,
        TypeOK, ConfigTypeOK, ThreadTypeOK, NetTypeOK
  <2>4. (Rounds /\ SolvingInRound /\ ExitPropagates)'
    BY <1>16, <2>0, LatencyType
    DEF UuidMismatch, Receive, ClearKey, config, locals, place, others, probe, super, net, hbbs, Fault, NoFault,
        TypeOK, ThreadTypeOK, Rounds, SolvingInRound, ExitPropagates
  <2>5. StatusFresh'
    BY <1>16, <2>0, LatencyType
    DEF UuidMismatch, Receive, ClearKey, config, locals, place, others, probe, super, net, hbbs, Fault, NoFault,
        TypeOK, ConfigTypeOK, ThreadTypeOK, NetTypeOK, Rounds, StatusFresh
  <2> QED
    BY <2>1, <2>2, <2>3, <2>4, <2>5 DEF TypeOK
<1>17. ASSUME NEW h \in Hosts, NEW m \in resps, UnknownPkResponse(h, m) PROVE IInv'
  <2>1. ConfigTypeOK'
    BY <1>17, LatencyType
    DEF UnknownPkResponse, Receive, config, locals, place, others, probe, super, net, hbbs, Fault, NoFault,
        TypeOK, ConfigTypeOK, Latency, TaskStates, SupStates, Transports
  <2>2. ThreadTypeOK'
    BY <1>17, LatencyType
    DEF UnknownPkResponse, Receive, config, locals, place, others, probe, super, net, hbbs, Fault, NoFault,
        TypeOK, ThreadTypeOK, Latency, TaskStates, SupStates, Transports
  <2>3. NetTypeOK'
    BY <1>17, LatencyType
    DEF UnknownPkResponse, Receive, config, locals, place, others, probe, super, net, hbbs, Fault, NoFault,
        TypeOK, ConfigTypeOK, ThreadTypeOK, NetTypeOK
  <2>4. (Rounds /\ SolvingInRound /\ ExitPropagates)'
    BY <1>17, LatencyType
    DEF UnknownPkResponse, Receive, config, locals, place, others, probe, super, net, hbbs, Fault, NoFault,
        TypeOK, ThreadTypeOK, Rounds, SolvingInRound, ExitPropagates
  <2>5. StatusFresh'
    BY <1>17, LatencyType
    DEF UnknownPkResponse, Receive, config, locals, place, others, probe, super, net, hbbs, Fault, NoFault,
        TypeOK, ConfigTypeOK, ThreadTypeOK, NetTypeOK, Rounds, StatusFresh
  <2> QED
    BY <2>1, <2>2, <2>3, <2>4, <2>5 DEF TypeOK
<1>18. ASSUME NEW h \in Hosts, ConfirmHost(h) PROVE IInv'
  <2>1. ConfigTypeOK'
    BY <1>18
    DEF ConfirmHost, config, locals, place, others, probe, super, net, hbbs, Fault, NoFault,
        TypeOK, ConfigTypeOK, Latency, TaskStates, SupStates, Transports
  <2>2. ThreadTypeOK'
    BY <1>18
    DEF ConfirmHost, config, locals, place, others, probe, super, net, hbbs, Fault, NoFault,
        TypeOK, ThreadTypeOK, Latency, TaskStates, SupStates, Transports
  <2>3. NetTypeOK'
    BY <1>18
    DEF ConfirmHost, config, locals, place, others, probe, super, net, hbbs, Fault, NoFault,
        TypeOK, ConfigTypeOK, ThreadTypeOK, NetTypeOK
  <2>4. (Rounds /\ SolvingInRound /\ ExitPropagates)'
    BY <1>18
    DEF ConfirmHost, config, locals, place, others, probe, super, net, hbbs, Fault, NoFault,
        TypeOK, ThreadTypeOK, Rounds, SolvingInRound, ExitPropagates
  <2>5. StatusFresh'
    BY <1>18
    DEF ConfirmHost, config, locals, place, others, probe, super, net, hbbs, Fault, NoFault,
        TypeOK, ConfigTypeOK, ThreadTypeOK, NetTypeOK, Rounds, StatusFresh
  <2> QED
    BY <2>1, <2>2, <2>3, <2>4, <2>5 DEF TypeOK
<1>19. ASSUME NEW h \in Hosts, ConfirmSolved(h) PROVE IInv'
  <2>0. reqs' \in SUBSET Request /\ sentPk' \in Pks \cup {NoPk}
    BY <1>19, RegisterType
    DEF ConfirmSolved, config, locals, place, others, probe, super, net, hbbs, Fault, NoFault,
        TypeOK, ConfigTypeOK, ThreadTypeOK, NetTypeOK
  <2>1. ConfigTypeOK'
    BY <1>19, <2>0
    DEF ConfirmSolved, config, locals, place, others, probe, super, net, hbbs, Fault, NoFault,
        TypeOK, ConfigTypeOK, Latency, TaskStates, SupStates, Transports
  <2>2. ThreadTypeOK'
    BY <1>19, <2>0
    DEF ConfirmSolved, config, locals, place, others, probe, super, net, hbbs, Fault, NoFault,
        TypeOK, ThreadTypeOK, Latency, TaskStates, SupStates, Transports
  <2>3. NetTypeOK'
    BY <1>19, <2>0
    DEF ConfirmSolved, config, locals, place, others, probe, super, net, hbbs, Fault, NoFault,
        TypeOK, ConfigTypeOK, ThreadTypeOK, NetTypeOK
  <2>4. (Rounds /\ SolvingInRound /\ ExitPropagates)'
    BY <1>19, <2>0
    DEF ConfirmSolved, config, locals, place, others, probe, super, net, hbbs, Fault, NoFault,
        TypeOK, ThreadTypeOK, Rounds, SolvingInRound, ExitPropagates
  <2>5. StatusFresh'
    BY <1>19, <2>0
    DEF ConfirmSolved, config, locals, place, others, probe, super, net, hbbs, Fault, NoFault,
        TypeOK, ConfigTypeOK, ThreadTypeOK, NetTypeOK, Rounds, StatusFresh
  <2> QED
    BY <2>1, <2>2, <2>3, <2>4, <2>5 DEF TypeOK
<1>20. ASSUME NEW h \in Hosts, ConfigureUpdate(h) PROVE IInv'
  <2>1. ConfigTypeOK'
    BY <1>20
    DEF ConfigureUpdate, config, locals, place, others, probe, super, net, hbbs, Fault, NoFault,
        TypeOK, ConfigTypeOK, Latency, TaskStates, SupStates, Transports
  <2>2. ThreadTypeOK'
    BY <1>20
    DEF ConfigureUpdate, config, locals, place, others, probe, super, net, hbbs, Fault, NoFault,
        TypeOK, ThreadTypeOK, Latency, TaskStates, SupStates, Transports
  <2>3. NetTypeOK'
    BY <1>20
    DEF ConfigureUpdate, config, locals, place, others, probe, super, net, hbbs, Fault, NoFault,
        TypeOK, ConfigTypeOK, ThreadTypeOK, NetTypeOK
  <2>4. (Rounds /\ SolvingInRound /\ ExitPropagates)'
    BY <1>20
    DEF ConfigureUpdate, config, locals, place, others, probe, super, net, hbbs, Fault, NoFault,
        TypeOK, ThreadTypeOK, Rounds, SolvingInRound, ExitPropagates
  <2>5. StatusFresh'
    BY <1>20
    DEF ConfigureUpdate, config, locals, place, others, probe, super, net, hbbs, Fault, NoFault,
        TypeOK, ConfigTypeOK, ThreadTypeOK, NetTypeOK, Rounds, StatusFresh
  <2> QED
    BY <2>1, <2>2, <2>3, <2>4, <2>5 DEF TypeOK
<1>21. ASSUME NEW m \in reqs, Serve(m) PROVE IInv'
  <2>1. ConfigTypeOK'
    BY <1>21
    DEF Serve, Answer, config, locals, place, others, probe, super, net, hbbs, Fault, NoFault,
        TypeOK, ConfigTypeOK, Latency, TaskStates, SupStates, Transports
  <2>2. ThreadTypeOK'
    BY <1>21
    DEF Serve, Answer, config, locals, place, others, probe, super, net, hbbs, Fault, NoFault,
        TypeOK, ThreadTypeOK, Latency, TaskStates, SupStates, Transports
  <2>3. NetTypeOK'
    <3>1. m.host \in Hosts /\ m.id \in Ids /\ m.pk \in Pks \cup {NoPk}
      BY DEF TypeOK, NetTypeOK, Request
    <3>2. PkResult(m) \in {"OK", "UUID_MISMATCH", "NOT_SUPPORT"} /\ PeerResult(m) \in {"request_pk", "ok"}
      BY DEF PkResult, PeerResult
    <3>3. reqs' \in SUBSET Request
      BY <1>21 DEF Serve, TypeOK, NetTypeOK
    <3>4. resps' \in SUBSET Response
      <4>1. /\ [kind |-> "RegisterPkResponse", host |-> m.host, result |-> PkResult(m)] \in Response
            /\ [kind |-> "RegisterPeerResponse", host |-> m.host, result |-> PeerResult(m)] \in Response
        BY <3>1, <3>2 DEF Response
      <4> QED
        BY <1>21, <4>1, PutType DEF Serve, Answer, TypeOK, NetTypeOK
    <3>5. dir' \in [Hosts -> [Ids -> Pks \cup {NoPk, Other}]]
      <4>1. dir[m.host] \in [Ids -> Pks \cup {NoPk, Other}] /\ m.pk \in Pks \cup {NoPk, Other}
        BY <3>1 DEF TypeOK, NetTypeOK
      <4>2. [dir[m.host] EXCEPT ![m.id] = m.pk] \in [Ids -> Pks \cup {NoPk, Other}]
        BY <4>1
      <4>3. [dir EXCEPT ![m.host][m.id] = m.pk] \in [Hosts -> [Ids -> Pks \cup {NoPk, Other}]]
        BY <4>2 DEF TypeOK, NetTypeOK
      <4> QED
        BY <1>21, <4>3 DEF Serve, TypeOK, NetTypeOK
    <3>6. onlineAt' \in [Hosts -> SUBSET Ids]
      BY <1>21, <3>1 DEF Serve, TypeOK, NetTypeOK
    <3> QED
      BY <3>3, <3>4, <3>5, <3>6 DEF NetTypeOK
  <2>4. (Rounds /\ SolvingInRound /\ ExitPropagates)'
    BY <1>21
    DEF Serve, Answer, config, locals, place, others, probe, super, net, hbbs, Fault, NoFault,
        TypeOK, ThreadTypeOK, Rounds, SolvingInRound, ExitPropagates
  <2>5. StatusFresh'
    BY <1>21
    DEF Serve, Answer, config, locals, place, others, probe, super, net, hbbs, Fault, NoFault,
        TypeOK, ConfigTypeOK, ThreadTypeOK, NetTypeOK, Rounds, StatusFresh
  <2> QED
    BY <2>1, <2>2, <2>3, <2>4, <2>5 DEF TypeOK
<1>22. ASSUME NEW m \in reqs \cup resps, Lose(m) PROVE IInv'
  <2>1. ConfigTypeOK'
    BY <1>22
    DEF Lose, config, locals, place, others, probe, super, net, hbbs, Fault, NoFault,
        TypeOK, ConfigTypeOK, Latency, TaskStates, SupStates, Transports
  <2>2. ThreadTypeOK'
    BY <1>22
    DEF Lose, config, locals, place, others, probe, super, net, hbbs, Fault, NoFault,
        TypeOK, ThreadTypeOK, Latency, TaskStates, SupStates, Transports
  <2>3. NetTypeOK'
    BY <1>22
    DEF Lose, config, locals, place, others, probe, super, net, hbbs, Fault, NoFault,
        TypeOK, ConfigTypeOK, ThreadTypeOK, NetTypeOK
  <2>4. (Rounds /\ SolvingInRound /\ ExitPropagates)'
    BY <1>22
    DEF Lose, config, locals, place, others, probe, super, net, hbbs, Fault, NoFault,
        TypeOK, ThreadTypeOK, Rounds, SolvingInRound, ExitPropagates
  <2>5. StatusFresh'
    BY <1>22
    DEF Lose, config, locals, place, others, probe, super, net, hbbs, Fault, NoFault,
        TypeOK, ConfigTypeOK, ThreadTypeOK, NetTypeOK, Rounds, StatusFresh
  <2> QED
    BY <2>1, <2>2, <2>3, <2>4, <2>5 DEF TypeOK
<1>23. ASSUME NEW h \in Hosts, ServerForget(h) PROVE IInv'
  <2>1. ConfigTypeOK'
    BY <1>23
    DEF ServerForget, config, locals, place, others, probe, super, net, hbbs, Fault, NoFault,
        TypeOK, ConfigTypeOK, Latency, TaskStates, SupStates, Transports
  <2>2. ThreadTypeOK'
    BY <1>23
    DEF ServerForget, config, locals, place, others, probe, super, net, hbbs, Fault, NoFault,
        TypeOK, ThreadTypeOK, Latency, TaskStates, SupStates, Transports
  <2>3. NetTypeOK'
    <3>1. [i \in Ids |-> IF dir[h][i] = Other THEN Other ELSE NoPk] \in [Ids -> Pks \cup {NoPk, Other}]
      OBVIOUS
    <3>2. dir' \in [Hosts -> [Ids -> Pks \cup {NoPk, Other}]]
      BY <1>23, <3>1 DEF ServerForget, TypeOK, NetTypeOK
    <3> QED
      BY <1>23, <3>2 DEF ServerForget, net, TypeOK, NetTypeOK
  <2>4. (Rounds /\ SolvingInRound /\ ExitPropagates)'
    BY <1>23
    DEF ServerForget, config, locals, place, others, probe, super, net, hbbs, Fault, NoFault,
        TypeOK, ThreadTypeOK, Rounds, SolvingInRound, ExitPropagates
  <2>5. StatusFresh'
    BY <1>23
    DEF ServerForget, config, locals, place, others, probe, super, net, hbbs, Fault, NoFault,
        TypeOK, ConfigTypeOK, ThreadTypeOK, NetTypeOK, Rounds, StatusFresh
  <2> QED
    BY <2>1, <2>2, <2>3, <2>4, <2>5 DEF TypeOK
<1>24. ASSUME test_rendezvous_server PROVE IInv'
  <2>1. ConfigTypeOK'
    BY <1>24
    DEF test_rendezvous_server, config, locals, place, others, probe, super, net, hbbs, Fault, NoFault,
        TypeOK, ConfigTypeOK, Latency, TaskStates, SupStates, Transports
  <2>2. ThreadTypeOK'
    BY <1>24
    DEF test_rendezvous_server, config, locals, place, others, probe, super, net, hbbs, Fault, NoFault,
        TypeOK, ConfigTypeOK, ThreadTypeOK, Latency, TaskStates, SupStates, Transports
  <2>3. NetTypeOK'
    BY <1>24
    DEF test_rendezvous_server, config, locals, place, others, probe, super, net, hbbs, Fault, NoFault,
        TypeOK, ConfigTypeOK, ThreadTypeOK, NetTypeOK
  <2>4. (Rounds /\ SolvingInRound /\ ExitPropagates)'
    BY <1>24
    DEF test_rendezvous_server, config, locals, place, others, probe, super, net, hbbs, Fault, NoFault,
        TypeOK, ThreadTypeOK, Rounds, SolvingInRound, ExitPropagates
  <2>5. StatusFresh'
    BY <1>24
    DEF test_rendezvous_server, config, locals, place, others, probe, super, net, hbbs, Fault, NoFault,
        TypeOK, ConfigTypeOK, ThreadTypeOK, NetTypeOK, Rounds, StatusFresh
  <2> QED
    BY <2>1, <2>2, <2>3, <2>4, <2>5 DEF TypeOK
<1>25. ASSUME TestBegin PROVE IInv'
  <2>1. ConfigTypeOK'
    BY <1>25
    DEF TestBegin, config, locals, place, others, probe, super, net, hbbs, Fault, NoFault,
        TypeOK, ConfigTypeOK, Latency, TaskStates, SupStates, Transports
  <2>2. ThreadTypeOK'
    BY <1>25
    DEF TestBegin, config, locals, place, others, probe, super, net, hbbs, Fault, NoFault,
        TypeOK, ConfigTypeOK, ThreadTypeOK, Latency, TaskStates, SupStates, Transports
  <2>3. NetTypeOK'
    BY <1>25
    DEF TestBegin, config, locals, place, others, probe, super, net, hbbs, Fault, NoFault,
        TypeOK, ConfigTypeOK, ThreadTypeOK, NetTypeOK
  <2>4. (Rounds /\ SolvingInRound /\ ExitPropagates)'
    BY <1>25
    DEF TestBegin, config, locals, place, others, probe, super, net, hbbs, Fault, NoFault,
        TypeOK, ThreadTypeOK, Rounds, SolvingInRound, ExitPropagates
  <2>5. StatusFresh'
    BY <1>25
    DEF TestBegin, config, locals, place, others, probe, super, net, hbbs, Fault, NoFault,
        TypeOK, ConfigTypeOK, ThreadTypeOK, NetTypeOK, Rounds, StatusFresh
  <2> QED
    BY <2>1, <2>2, <2>3, <2>4, <2>5 DEF TypeOK
<1>26. ASSUME NEW h \in Hosts, TestLatency(h) PROVE IInv'
  <2>1. ConfigTypeOK'
    BY <1>26
    DEF TestLatency, config, locals, place, others, probe, super, net, hbbs, Fault, NoFault,
        TypeOK, ConfigTypeOK, Latency, TaskStates, SupStates, Transports
  <2>2. ThreadTypeOK'
    BY <1>26
    DEF TestLatency, config, locals, place, others, probe, super, net, hbbs, Fault, NoFault,
        TypeOK, ConfigTypeOK, ThreadTypeOK, Latency, TaskStates, SupStates, Transports
  <2>3. NetTypeOK'
    BY <1>26
    DEF TestLatency, config, locals, place, others, probe, super, net, hbbs, Fault, NoFault,
        TypeOK, ConfigTypeOK, ThreadTypeOK, NetTypeOK
  <2>4. (Rounds /\ SolvingInRound /\ ExitPropagates)'
    BY <1>26
    DEF TestLatency, config, locals, place, others, probe, super, net, hbbs, Fault, NoFault,
        TypeOK, ThreadTypeOK, Rounds, SolvingInRound, ExitPropagates
  <2>5. StatusFresh'
    BY <1>26
    DEF TestLatency, config, locals, place, others, probe, super, net, hbbs, Fault, NoFault,
        TypeOK, ConfigTypeOK, ThreadTypeOK, NetTypeOK, Rounds, StatusFresh
  <2> QED
    BY <2>1, <2>2, <2>3, <2>4, <2>5 DEF TypeOK
<1>27. ASSUME TestReset PROVE IInv'
  <2>1. ConfigTypeOK'
    BY <1>27
    DEF TestReset, config, locals, place, others, probe, super, net, hbbs, Fault, NoFault,
        TypeOK, ConfigTypeOK, Latency, TaskStates, SupStates, Transports
  <2>2. ThreadTypeOK'
    BY <1>27
    DEF TestReset, config, locals, place, others, probe, super, net, hbbs, Fault, NoFault,
        TypeOK, ConfigTypeOK, ThreadTypeOK, Latency, TaskStates, SupStates, Transports
  <2>3. NetTypeOK'
    BY <1>27
    DEF TestReset, config, locals, place, others, probe, super, net, hbbs, Fault, NoFault,
        TypeOK, ConfigTypeOK, ThreadTypeOK, NetTypeOK
  <2>4. (Rounds /\ SolvingInRound /\ ExitPropagates)'
    BY <1>27
    DEF TestReset, config, locals, place, others, probe, super, net, hbbs, Fault, NoFault,
        TypeOK, ThreadTypeOK, Rounds, SolvingInRound, ExitPropagates
  <2>5. StatusFresh'
    BY <1>27
    DEF TestReset, config, locals, place, others, probe, super, net, hbbs, Fault, NoFault,
        TypeOK, ConfigTypeOK, ThreadTypeOK, NetTypeOK, Rounds, StatusFresh
  <2> QED
    BY <2>1, <2>2, <2>3, <2>4, <2>5 DEF TypeOK
<1>28. ASSUME NEW h \in Hosts, TickTcpSilent(h) PROVE IInv'
  <2>1. ConfigTypeOK'
    BY <1>28
    DEF TickTcpSilent, Failed, LeaveLoop, EndTask, Of, config, locals, place, others, probe, super, net, hbbs, Fault, NoFault,
        TypeOK, ConfigTypeOK, Latency, TaskStates, SupStates, Transports
  <2>2. ThreadTypeOK'
    <3>1. /\ task' \in [Hosts -> TaskStates] /\ via' \in [Hosts -> Transports]
          /\ fellBack' \in [Hosts -> BOOLEAN] /\ shouldExit' \in BOOLEAN
      BY <1>28 DEF TickTcpSilent, Failed, EndTask, TypeOK, ThreadTypeOK, TaskStates, Transports
    <3>2. /\ fails' \in [Hosts -> 0..(UDP_REGISTRATION_FAILURE_LIMIT - 1)]
          /\ sent' \in [Hosts -> BOOLEAN]
      BY <1>28 DEF TickTcpSilent, Failed, LeaveLoop, TypeOK, ThreadTypeOK
    <3> QED
      BY <1>28, <3>1, <3>2 DEF TickTcpSilent, NoFault, super, others, TypeOK, ThreadTypeOK
  <2>3. NetTypeOK'
    BY <1>28
    DEF TickTcpSilent, Failed, LeaveLoop, EndTask, Of, config, locals, place, others, probe, super, net, hbbs, Fault, NoFault,
        TypeOK, ConfigTypeOK, ThreadTypeOK, NetTypeOK
  <2>4. (Rounds /\ SolvingInRound /\ ExitPropagates)'
    BY <1>28
    DEF TickTcpSilent, Failed, LeaveLoop, EndTask, Of, config, locals, place, others, probe, super, net, hbbs, Fault, NoFault,
        TypeOK, ThreadTypeOK, Rounds, SolvingInRound, ExitPropagates
  <2>5. StatusFresh'
    BY <1>28
    DEF TickTcpSilent, Failed, LeaveLoop, EndTask, Of, config, locals, place, others, probe, super, net, hbbs, Fault, NoFault,
        TypeOK, ConfigTypeOK, ThreadTypeOK, NetTypeOK, Rounds, StatusFresh
  <2> QED
    BY <2>1, <2>2, <2>3, <2>4, <2>5 DEF TypeOK
<1>29. CASE UNCHANGED vars
  BY <1>29 DEF vars, config, locals, place, others, probe, super, net, hbbs, TypeOK, ConfigTypeOK, ThreadTypeOK, NetTypeOK, Rounds,
     SolvingInRound, ExitPropagates, StatusFresh
<1> QED
  BY <1>1, <1>2, <1>3, <1>4, <1>5, <1>6, <1>7, <1>8, <1>9, <1>10, <1>11, <1>12, <1>13, <1>14, <1>15, <1>16, <1>17, <1>18, <1>19, <1>20, <1>21, <1>22, <1>23, <1>24, <1>25,
     <1>26, <1>27, <1>28, <1>29
     DEF Next, Supervisor, Others, Test, Task, HandleResp, Network

\* Type correctness of the registration model.
THEOREM RendezvousTypes == Spec => []TypeOK
  BY InitIInv, NextIInv, PTL DEF Spec, IInv

\* Whatever the hosts answer and however the messages are lost, a task of
\* start_all never ends without telling the others (SHOULD_EXIT).
THEOREM RoundsEndTogether == Spec => []ExitPropagates
  BY InitIInv, NextIInv, PTL DEF Spec, IInv

\* Three threads write the online table that the user sees and two of them
\* empty it: an entry of an earlier round, or of a host that has no task in
\* this one, is there only until the supervisor or the server test that left
\* it does its reset.
THEOREM StatusIsFresh == Spec => []StatusFresh
  BY InitIInv, NextIInv, PTL DEF Spec, IInv

\* As long as a round goes on, the host named by SOLVING_PK_MISMATCH has a
\* task that can clear it, so the others are not held back for ever.
THEOREM MismatchHasOwner == Spec => []SolvingHasOwner
<1>1. IInv => SolvingHasOwner
  BY DEF IInv, TypeOK, ThreadTypeOK, Rounds, SolvingInRound, ExitPropagates, SolvingHasOwner
<1> QED
  BY InitIInv, NextIInv, <1>1, PTL DEF Spec
=============================================================================
