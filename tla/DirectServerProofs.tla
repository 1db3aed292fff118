-------------------------- MODULE DirectServerProofs --------------------------
(***************************************************************************)
(* Proofs about DirectServer, for every default port, range, number of     *)
(* attempts and set of UPnP threads.                                       *)
(***************************************************************************)
EXTENDS DirectServer, TLAPS

\* The task is at q, or will be when set_direct_access_status returns.
AtOrReturning(q) == pc = q \/ (pc \in {"clear_public", "clear_upnp"} /\ call.ret = q)

\* Every port below DIRECT_PORT has failed, and so has DIRECT_PORT itself
\* while it is about to be invalidated.
Tried ==
    /\ DEFAULT_DIRECT_PORT .. (directPort - 1) \subseteq failed
    /\ pc = "failed" \/ AtOrReturning("invalidate") => directPort \in failed

\* Where the task has no listener.
Without ==
    pc \in {"start", "bind", "failed", "exit"} \/ AtOrReturning("invalidate")
        \/ AtOrReturning("reset") => listener = NoPort

\* DIRECT_PORT changes only without a listener, so the listener is on it.
OnPort ==
    /\ directPort \in direct_peer_hosts
    /\ listener # NoPort => listener = directPort

IInv == TypeOK /\ Tried /\ Without /\ OnPort

-----------------------------------------------------------------------------
\* invalidate_direct_port stays in the range of ports a caller tries.
LEMMA InvalidateInRange ==
    ASSUME NEW p \in direct_peer_hosts
    PROVE  invalidate_direct_port(p) \in direct_peer_hosts
  BY PortAssumption DEF invalidate_direct_port, direct_peer_hosts

\* The initial states satisfy the inductive invariant.
LEMMA InitIInv == Init => IInv
<1> SUFFICES ASSUME Init PROVE IInv
  OBVIOUS
<1>1. opt \in Options
  BY PortAssumption DEF Init, Options, Statuses, NoPort, direct_peer_hosts
<1>2. thread \in [Threads -> [at : {"none", "check", "map", "late", "publish", "report"},
                               port : Nat, attempt : 1 .. Attempts, mapped : BOOLEAN]]
  BY PortAssumption DEF Init, NoThread, NoPort
<1>3. TypeOK
  BY <1>1, <1>2, PortAssumption DEF Init, TypeOK, NoCall, NoPort, Statuses
<1>4. Tried /\ Without /\ OnPort
  BY PortAssumption
  DEF Init, Tried, Without, OnPort, AtOrReturning, NoCall, NoPort, direct_peer_hosts
<1> QED
  BY <1>3, <1>4 DEF IInv

-----------------------------------------------------------------------------
\* A call of set_direct_access_status keeps the options and the call typed.
LEMMA StatusTyped ==
    ASSUME TypeOK, NEW s \in Statuses, NEW ret \in {"top", "invalidate", "reset", "set_port"},
           s # "listening" => ret # "set_port",
           set_direct_access_status(s, ret)
    PROVE  /\ opt' \in Options
           /\ call' \in [status : Statuses, ret : {"top", "invalidate", "reset"}]
           /\ pc' \in {"clear_public", "clear_upnp", ret}
           /\ pc' = ret \/ (pc' = "clear_public" /\ call'.ret = ret)
  BY DEF TypeOK, set_direct_access_status, Options

\* Every step preserves the inductive invariant.
LEMMA NextIInv == IInv /\ [Next]_vars => IInv'
<1> SUFFICES ASSUME IInv, [Next]_vars PROVE IInv'
  OBVIOUS
<1> USE PortAssumption DEF IInv
<1>1. CASE Start
  <2>1. set_direct_access_status("starting", "top")
    BY <1>1 DEF Start
  <2>2. /\ opt' \in Options
        /\ call' \in [status : Statuses, ret : {"top", "invalidate", "reset"}]
        /\ pc' = "top" \/ (pc' = "clear_public" /\ call'.ret = "top")
    BY <2>1, StatusTyped DEF Statuses
  <2>3. TypeOK'
    BY <1>1, <2>2 DEF Start, TypeOK, env
  <2>4. (Tried /\ Without /\ OnPort)'
    BY <1>1, <2>2 DEF Start, Tried, Without, OnPort, AtOrReturning, NoPort, TypeOK
  <2> QED
    BY <2>3, <2>4
<1>2. CASE Idle
  <2>1. set_direct_access_status("stopped", "top")
    BY <1>2 DEF Idle
  <2>2. /\ opt' \in Options
        /\ call' \in [status : Statuses, ret : {"top", "invalidate", "reset"}]
        /\ pc' = "top" \/ (pc' = "clear_public" /\ call'.ret = "top")
    BY <2>1, StatusTyped DEF Statuses
  <2>3. TypeOK'
    BY <1>2, <2>2 DEF Idle, TypeOK, env
  <2>4. (Tried /\ Without /\ OnPort)'
    BY <1>2, <2>2 DEF Idle, Tried, Without, OnPort, AtOrReturning, NoPort, TypeOK
  <2> QED
    BY <2>3, <2>4
<1>3. CASE Enabled
  <2>1. TypeOK'
    BY <1>3 DEF Enabled, Go, TypeOK, Options, Statuses, NoCall, NoPort, env, direct_peer_hosts
  <2>2. (Tried /\ Without /\ OnPort)'
    BY <1>3 DEF Enabled, Go, Tried, Without, OnPort, AtOrReturning, NoPort, TypeOK,
                      direct_peer_hosts
  <2> QED
    BY <2>1, <2>2
<1>4. CASE Bind
  <2>1. TypeOK'
    BY <1>4 DEF Bind, Go, TypeOK, Options, Statuses, NoCall, NoPort, env, direct_peer_hosts
  <2>2. (Tried /\ Without /\ OnPort)'
    BY <1>4 DEF Bind, Go, Tried, Without, OnPort, AtOrReturning, NoPort, TypeOK,
                      direct_peer_hosts
  <2> QED
    BY <2>1, <2>2
<1>5. CASE BindFails
  <2>1. TypeOK'
    BY <1>5 DEF BindFails, Go, TypeOK, Options, Statuses, NoCall, NoPort, env, direct_peer_hosts
  <2>2. (Tried /\ Without /\ OnPort)'
    BY <1>5 DEF BindFails, Go, Tried, Without, OnPort, AtOrReturning, NoPort, TypeOK,
                      direct_peer_hosts
  <2> QED
    BY <2>1, <2>2
<1>6. CASE Error
  <2>1. set_direct_access_status("error", "invalidate")
    BY <1>6 DEF Error
  <2>2. /\ opt' \in Options
        /\ call' \in [status : Statuses, ret : {"top", "invalidate", "reset"}]
        /\ pc' = "invalidate" \/ (pc' = "clear_public" /\ call'.ret = "invalidate")
    BY <2>1, StatusTyped DEF Statuses
  <2>3. TypeOK'
    BY <1>6, <2>2 DEF Error, TypeOK, env
  <2>4. (Tried /\ Without /\ OnPort)'
    BY <1>6, <2>2 DEF Error, Tried, Without, OnPort, AtOrReturning, NoPort, TypeOK
  <2> QED
    BY <2>3, <2>4
<1>7. CASE Invalidate
  <2>1. TypeOK'
    BY <1>7, InvalidateInRange DEF Invalidate, Go, TypeOK, Options, Statuses, NoCall, NoPort, env, direct_peer_hosts, invalidate_direct_port
  <2>2. (Tried /\ Without /\ OnPort)'
    BY <1>7, InvalidateInRange DEF Invalidate, Go, Tried, Without, OnPort, AtOrReturning, NoPort, TypeOK,
                      direct_peer_hosts, invalidate_direct_port
  <2> QED
    BY <2>1, <2>2
<1>8. CASE Listening
  <2>1. set_direct_access_status("listening", "set_port")
    BY <1>8 DEF Listening
  <2>2. /\ opt' \in Options
        /\ call' \in [status : Statuses, ret : {"top", "invalidate", "reset"}]
        /\ pc' = "set_port" \/ (pc' = "clear_public" /\ call'.ret = "set_port")
    BY <2>1, StatusTyped DEF Statuses
  <2>3. TypeOK'
    BY <1>8, <2>2 DEF Listening, TypeOK, env
  <2>4. (Tried /\ Without /\ OnPort)'
    BY <1>8, <2>2 DEF Listening, Tried, Without, OnPort, AtOrReturning, NoPort, TypeOK
  <2> QED
    BY <2>3, <2>4
<1>9. CASE SetPort
  <2>1. TypeOK'
    BY <1>9 DEF SetPort, Go, TypeOK, Options, Statuses, NoCall, NoPort, env, direct_peer_hosts
  <2>2. (Tried /\ Without /\ OnPort)'
    BY <1>9 DEF SetPort, Go, Tried, Without, OnPort, AtOrReturning, NoPort, TypeOK,
                      direct_peer_hosts
  <2> QED
    BY <2>1, <2>2
<1>10. CASE Pending
  <2>1. TypeOK'
    BY <1>10 DEF Pending, Go, TypeOK, Options, Statuses, NoCall, NoPort, env, direct_peer_hosts
  <2>2. (Tried /\ Without /\ OnPort)'
    BY <1>10 DEF Pending, Go, Tried, Without, OnPort, AtOrReturning, NoPort, TypeOK,
                      direct_peer_hosts
  <2> QED
    BY <2>1, <2>2
<1>11. CASE Exit
  <2>1. TypeOK'
    BY <1>11 DEF Exit, Go, TypeOK, Options, Statuses, NoCall, NoPort, env, direct_peer_hosts
  <2>2. (Tried /\ Without /\ OnPort)'
    BY <1>11 DEF Exit, Go, Tried, Without, OnPort, AtOrReturning, NoPort, TypeOK,
                      direct_peer_hosts
  <2> QED
    BY <2>1, <2>2
<1>12. CASE Accept
  <2>1. TypeOK'
    BY <1>12 DEF Accept, Go, TypeOK, Options, Statuses, NoCall, NoPort, env, direct_peer_hosts
  <2>2. (Tried /\ Without /\ OnPort)'
    BY <1>12 DEF Accept, Go, Tried, Without, OnPort, AtOrReturning, NoPort, TypeOK,
                      direct_peer_hosts
  <2> QED
    BY <2>1, <2>2
<1>13. CASE Stopped
  <2>1. set_direct_access_status("stopped", "reset")
    BY <1>13 DEF Stopped
  <2>2. /\ opt' \in Options
        /\ call' \in [status : Statuses, ret : {"top", "invalidate", "reset"}]
        /\ pc' = "reset" \/ (pc' = "clear_public" /\ call'.ret = "reset")
    BY <2>1, StatusTyped DEF Statuses
  <2>3. TypeOK'
    BY <1>13, <2>2 DEF Stopped, TypeOK, env
  <2>4. (Tried /\ Without /\ OnPort)'
    BY <1>13, <2>2 DEF Stopped, Tried, Without, OnPort, AtOrReturning, NoPort, TypeOK
  <2> QED
    BY <2>3, <2>4
<1>14. CASE Reset
  <2>1. TypeOK'
    BY <1>14 DEF Reset, Go, TypeOK, Options, Statuses, NoCall, NoPort, env, direct_peer_hosts, reset_direct_port
  <2>2. (Tried /\ Without /\ OnPort)'
    BY <1>14 DEF Reset, Go, Tried, Without, OnPort, AtOrReturning, NoPort, TypeOK,
                      direct_peer_hosts, reset_direct_port
  <2> QED
    BY <2>1, <2>2
<1>15. CASE ClearPublic
  <2>1. TypeOK'
    BY <1>15 DEF ClearPublic, Go, TypeOK, Options, Statuses, NoCall, NoPort, env, direct_peer_hosts
  <2>2. (Tried /\ Without /\ OnPort)'
    BY <1>15 DEF ClearPublic, Go, Tried, Without, OnPort, AtOrReturning, NoPort, TypeOK,
                      direct_peer_hosts
  <2> QED
    BY <2>1, <2>2
<1>16. CASE ClearUpnp
  <2>1. TypeOK'
    BY <1>16 DEF ClearUpnp, Go, TypeOK, Options, Statuses, NoCall, NoPort, env, direct_peer_hosts
  <2>2. (Tried /\ Without /\ OnPort)'
    BY <1>16 DEF ClearUpnp, Go, Tried, Without, OnPort, AtOrReturning, NoPort, TypeOK,
                      direct_peer_hosts
  <2> QED
    BY <2>1, <2>2
<1>17. ASSUME NEW t \in Threads, Spawn(t) PROVE IInv'
  <2>1. TypeOK'
    BY <1>17 DEF Spawn, Go, TypeOK, Options, NoPort, env
  <2>2. (Tried /\ Without /\ OnPort)'
    BY <1>17 DEF Spawn, Go, Tried, Without, OnPort, AtOrReturning, TypeOK
  <2> QED
    BY <2>1, <2>2
<1>18. ASSUME NEW t \in Threads, Thread(t) PROVE IInv'
  <2>1. CASE Check(t)
    BY <2>1 DEF Check, TypeOK, NoThread, NoPort, env, task, Tried, Without, OnPort, AtOrReturning
  <2>2. ASSUME NEW ok \in BOOLEAN, Map(t, ok) PROVE IInv'
    BY <2>2 DEF Map, TypeOK, env, task, Tried, Without, OnPort, AtOrReturning
  <2>3. CASE PublishPort(t)
    BY <2>3 DEF PublishPort, TypeOK, Options, env, task, Tried, Without, OnPort, AtOrReturning
  <2>4. CASE PublishStatus(t)
    BY <2>4 DEF PublishStatus, TypeOK, Options, NoThread, NoPort, env, task, Tried, Without,
                OnPort, AtOrReturning
  <2> QED
    BY <1>18, <2>1, <2>2, <2>3, <2>4 DEF Thread
<1>19. CASE Environment
  <2>1. CASE UiSync
    BY <2>1 DEF UiSync, TypeOK, env, task, Tried, Without, OnPort, AtOrReturning
  <2>2. ASSUME NEW o \in Options, UiWrite(o) PROVE IInv'
    BY <2>2 DEF UiWrite, TypeOK, task, Tried, Without, OnPort, AtOrReturning
  <2>3. CASE UiToggle
    <3>1. [ui EXCEPT !.direct = ~ui.direct] \in Options
      BY DEF TypeOK, Options
    <3> QED
      BY <2>2, <2>3, <3>1 DEF UiToggle
  <2>4. CASE UiOpen
    <3>1. [ui EXCEPT !.port = DEFAULT_DIRECT_PORT] \in Options
      BY DEF TypeOK, Options
    <3> QED
      BY <2>2, <2>4, <3>1 DEF UiOpen
  <2>5. ASSUME NEW p \in direct_peer_hosts, Other(p) PROVE IInv'
    BY <2>5 DEF Other, TypeOK, task, Tried, Without, OnPort, AtOrReturning
  <2> QED
    BY <1>19, <2>1, <2>3, <2>4, <2>5 DEF Environment
<1>20. CASE UNCHANGED vars
  BY <1>20 DEF vars, env, task, TypeOK, Tried, Without, OnPort, AtOrReturning
<1> QED
  BY <1>1, <1>2, <1>3, <1>4, <1>5, <1>6, <1>7, <1>8, <1>9, <1>10,
     <1>11, <1>12, <1>13, <1>14, <1>15, <1>16, <1>17, <1>18, <1>19, <1>20 DEF Next, Task

-----------------------------------------------------------------------------
\* The inductive invariant holds in every reachable state.
THEOREM Inductive == Spec => []IInv
  BY InitIInv, NextIInv, PTL DEF Spec

\* The task, its threads, the options and the user interface's copy of them
\* have their types in every reachable state.
THEOREM DirectTypes == Spec => []TypeOK
<1>1. IInv => TypeOK
  BY DEF IInv
<1> QED
  BY <1>1, Inductive, PTL

\* However many binds fail, the listener is on a port that direct_peer_hosts
\* enumerates for a bare IP address, and on a fallback port only after every
\* lower one failed since reset_direct_port.
THEOREM FallbackIsEarned == Spec => []FallbackEarned
<1>1. IInv => FallbackEarned
  BY DEF IInv, OnPort, Tried, FallbackEarned
<1> QED
  BY <1>1, Inductive, PTL

\* The test of direct_server that the listener's port is still DIRECT_PORT
\* never fails: only a disabled listener exits.
THEOREM OnlyDisabledExits == Spec => [](listener # NoPort => listener = directPort)
<1>1. IInv => (listener # NoPort => listener = directPort)
  BY DEF IInv, OnPort
<1> QED
  BY <1>1, Inductive, PTL
=============================================================================
