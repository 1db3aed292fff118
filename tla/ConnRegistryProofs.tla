-------------------------- MODULE ConnRegistryProofs --------------------------
(***************************************************************************)
(* The registries agree with the connections, and the wallpaper comes      *)
(* back, for every finite set of connections and every set of session keys.*)
(* The wake lock settles on the counts of the last check that ran alone.   *)
(***************************************************************************)
EXTENDS ConnRegistry, FiniteSetTheorems, SequenceTheorems, TLAPS

\* Where a connection can be while it is in AUTHED_CONNS.
AuthedPcs == {"count1", "count2", "wake", "link", "paper", "in", "resize",
              "others", "remove", "expired", "clean", "retain"}

\* What a connection's step says about its membership of the two lists.
Listed ==
    \A c \in Conns :
        /\ c \in alive <=> pc[c] \notin {"none", "dead"}
        /\ c \in authed => pc[c] \in AuthedPcs
        /\ pc[c] \in {"link", "paper", "in", "resize", "retain"} => c \in authed
        /\ pc[c] \in {"count1", "count2", "wake"} => (c \in authed <=> ret[c] \in {"link", "in"})
        /\ pc[c] \in {"remotes", "unpaper", "restore", "clear"} => ret[c] = "gone"
        /\ pc[c] = "paper" => kind[c] = "remote"

\* What check_wake_lock would count now, and where a connection is on its way
\* to it.
Current == [conns |-> Cardinality(authed), remotes |-> Cardinality(Remotes)]
WakePending == {"count1", "remotes", "unpaper", "restore", "clear"}
Pending == \E c \in Conns : pc[c] \in WakePending

\* The lock that the counts n call for under the option last read.
LockFits(n) ==
    /\ lock # "off" <=> n.conns # 0 /\ cached = {TRUE}
    /\ Platform = "windows" /\ lock # "off" => (lock = "display" <=> n.remotes # 0)

\* On Windows the thread's last_display is what its lock does.
LastDisplayTrue == Platform = "windows" /\ lock # "off" => (lock = "display" <=> lastDisplay)

\* While the last check_wake_lock ran alone, one connection at most is inside
\* it; and unless another check is still to come, its counts, the end of the
\* channel or the lock are what would be counted now.
WakeInv ==
    ~overlapped =>
        /\ \A c, d \in Conns : {pc[c], pc[d]} \subseteq {"count2", "wake"} => c = d
        /\ ~Pending =>
              /\ \A c \in Conns :
                    /\ pc[c] = "count2" => counts[c].conns = Cardinality(authed)
                    /\ pc[c] = "wake" => counts[c] = Current
              /\ (\A c \in Conns : pc[c] \notin {"count2", "wake"})
                    => IF chan = << >> THEN LockFits(Current) ELSE chan[Len(chan)] = Current

IInv == TypeOK /\ Listed /\ WallpaperRestored /\ LastDisplayTrue /\ WakeInv

USE KeysAssumption, ConnsAssumption, PlatformAssumption

\* The initial state satisfies the inductive invariant.
LEMMA InitIInv == Init => IInv
<1> SUFFICES ASSUME Init PROVE IInv
  OBVIOUS
<1>1. counts \in [Conns -> [conns : Nat, remotes : Nat]]
  BY DEF Init, NoCounts
<1>2. pc \in [Conns -> Pcs] /\ kind \in [Conns -> {"remote", "file"}] /\ key \in [Conns -> Keys \cup {NoKey}]
  BY DEF Init, Pcs
<1>3. /\ doomed \in [Conns -> SUBSET Keys] /\ last \in [Conns -> BOOLEAN]
      /\ ret \in [Conns -> {"link", "gone", "up", "in"}]
  BY DEF Init
<1>4. chan \in Seq([conns : Nat, remotes : Nat])
  BY DEF Init
<1>5. TypeOK
  BY <1>1, <1>2, <1>3, <1>4 DEF Init, TypeOK, Pcs
<1> QED
  <2>1. Remotes = {} /\ authed = {}
    BY DEF Init, Remotes
  <2>2. WakeInv
    <3>1. Current = [conns |-> 0, remotes |-> 0]
      BY <2>1, FS_EmptySet DEF Current
    <3>2. LockFits(Current)
      BY <3>1 DEF Init, LockFits
    <3> QED
      BY <3>2 DEF Init, WakeInv, Pending, WakePending
  <2> QED
    BY <1>5, <2>2 DEF IInv, Init, Listed, WallpaperRestored, LastDisplayTrue, AuthedPcs

\* The counts sent to the wake lock thread are numbers.
LEMMA CountsType ==
  ASSUME TypeOK
  PROVE  Cardinality(authed) \in Nat /\ Cardinality(Remotes) \in Nat
<1>1. IsFiniteSet(authed) /\ IsFiniteSet(Remotes)
  BY FS_Subset DEF TypeOK, Remotes
<1> QED
  BY <1>1, FS_CardinalityType

\* Every step keeps the types.
LEMMA TypeStep ==
  ASSUME TypeOK, [Next]_vars
  PROVE  TypeOK'
<1>1. ASSUME NEW c \in Conns, Start(c) PROVE TypeOK'
  BY <1>1 DEF Start, Go, program, sessvars, thread, wake, desktop, TypeOK, Pcs
<1>2. ASSUME NEW c \in Conns, NEW k \in Keys, NEW type \in {"remote", "file"}, NEW temporary \in BOOLEAN, Login(c, k, type, temporary) PROVE TypeOK'
  BY <1>2 DEF Login, Go, program, sessvars, thread, wake, desktop, TypeOK, Pcs
<1>3. ASSUME NEW c \in Conns, NEW k \in Keys, LoginRefused(c, k) PROVE TypeOK'
  BY <1>3 DEF LoginRefused, program, sessvars, thread, wake, desktop, TypeOK, Pcs
<1>4. ASSUME NEW c \in Conns, PushAuthed(c) PROVE TypeOK'
  BY <1>4 DEF PushAuthed, Go, program, sessvars, thread, wake, desktop, TypeOK, Pcs
<1>5. ASSUME NEW c \in Conns, LinkSession(c) PROVE TypeOK'
  BY <1>5 DEF LinkSession, Go, program, sessvars, thread, wake, desktop, TypeOK, Pcs
<1>6. ASSUME NEW c \in Conns, on_remote_authorized(c) PROVE TypeOK'
  BY <1>6 DEF on_remote_authorized, Go, program, sessvars, thread, wake, desktop, TypeOK, Pcs
<1>7. ASSUME NEW c \in Conns, CountConns(c) PROVE TypeOK'
  BY <1>7, CountsType DEF CountConns, Go, program, sessvars, thread, wake, desktop, TypeOK, Pcs
<1>8. ASSUME NEW c \in Conns, CountRemotes(c) PROVE TypeOK'
  BY <1>8, CountsType DEF CountRemotes, Go, program, sessvars, thread, wake, desktop, TypeOK, Pcs
<1>9. ASSUME NEW c \in Conns, SendCounts(c) PROVE TypeOK'
  <2>1. counts' \in [Conns -> [conns : Nat, remotes : Nat]]
    BY <1>9 DEF SendCounts, NoCounts, TypeOK
  <2>2. chan' \in Seq([conns : Nat, remotes : Nat])
    BY <1>9, AppendProperties DEF SendCounts, TypeOK
  <2>3. /\ pc' \in [Conns -> Pcs] /\ ret' \in [Conns -> {"link", "gone", "up", "in"}]
    BY <1>9 DEF SendCounts, Go, TypeOK, Pcs
  <2> QED
    BY <1>9, <2>1, <2>2, <2>3 DEF SendCounts, sessvars, thread, desktop, TypeOK
<1>10. ASSUME NEW c \in Conns, Receive(c) PROVE TypeOK'
  BY <1>10 DEF Receive, program, sessvars, thread, wake, desktop, TypeOK, Pcs
<1>11. ASSUME NEW c \in Conns, RecordResolution(c) PROVE TypeOK'
  BY <1>11 DEF RecordResolution, Go, program, sessvars, thread, wake, desktop, TypeOK, Pcs
<1>12. ASSUME NEW c \in Conns, ChangeResolution(c) PROVE TypeOK'
  BY <1>12 DEF ChangeResolution, Go, program, sessvars, thread, wake, desktop, TypeOK, Pcs
<1>13. ASSUME NEW c \in Conns, CloseRetry(c) PROVE TypeOK'
  BY <1>13 DEF CloseRetry, Go, program, sessvars, thread, wake, desktop, TypeOK, Pcs
<1>14. ASSUME NEW c \in Conns, CloseNoRetry(c) PROVE TypeOK'
  BY <1>14 DEF CloseNoRetry, Go, program, sessvars, thread, wake, desktop, TypeOK, Pcs
<1>15. ASSUME NEW c \in Conns, CheckOthers(c) PROVE TypeOK'
  BY <1>15 DEF CheckOthers, Go, program, sessvars, thread, wake, desktop, TypeOK, Pcs
<1>16. ASSUME NEW c \in Conns, RemoveSession(c) PROVE TypeOK'
  BY <1>16 DEF RemoveSession, RemoveSessions, Go, program, sessvars, thread, wake, desktop, TypeOK, Pcs
<1>17. ASSUME NEW c \in Conns, FindExpired(c) PROVE TypeOK'
  BY <1>17 DEF FindExpired, Go, program, sessvars, thread, wake, desktop, TypeOK, Pcs
<1>18. ASSUME NEW c \in Conns, RemoveExpired(c) PROVE TypeOK'
  BY <1>18 DEF RemoveExpired, RemoveSessions, Go, program, sessvars, thread, wake, desktop, TypeOK, Pcs
<1>19. ASSUME NEW c \in Conns, RetainAuthed(c) PROVE TypeOK'
  BY <1>19 DEF RetainAuthed, Go, program, sessvars, thread, wake, desktop, TypeOK, Pcs
<1>20. ASSUME NEW c \in Conns, IsLastRemote(c) PROVE TypeOK'
  BY <1>20 DEF IsLastRemote, Go, program, sessvars, thread, wake, desktop, TypeOK, Pcs
<1>21. ASSUME NEW c \in Conns, RestoreWallpaper(c) PROVE TypeOK'
  BY <1>21 DEF RestoreWallpaper, Go, program, sessvars, thread, wake, desktop, TypeOK, Pcs
<1>22. ASSUME NEW c \in Conns, RestoreResolutions(c) PROVE TypeOK'
  BY <1>22 DEF RestoreResolutions, Go, program, sessvars, thread, wake, desktop, TypeOK, Pcs
<1>23. ASSUME NEW c \in Conns, ClearRecords(c) PROVE TypeOK'
  BY <1>23 DEF ClearRecords, Go, program, sessvars, thread, wake, desktop, TypeOK, Pcs
<1>24. ASSUME NEW c \in Conns, Gone(c) PROVE TypeOK'
  BY <1>24 DEF Gone, Go, program, sessvars, thread, wake, desktop, TypeOK, Pcs
<1>25. CASE SetWakeLock
  <2>1. chan' \in Seq([conns : Nat, remotes : Nat])
    BY <1>25, HeadTailProperties DEF SetWakeLock, TypeOK
  <2>2. lock' \in {"off", "system", "display"}
    BY <1>25 DEF SetWakeLock, Level, Created, Adjusted, TypeOK
  <2>3. cached' \in {{}, {TRUE}, {FALSE}}
    BY <1>25 DEF SetWakeLock, TypeOK
  <2>4. lastDisplay' \in BOOLEAN
    <3> DEFINE n == Head(chan)
    <3>1. \/ lastDisplay' = FALSE
          \/ lastDisplay' = (n.remotes > 0)
          \/ lastDisplay' = (n.remotes > 0 \/ Platform = "linux")
      BY <1>25 DEF SetWakeLock
    <3>2. n \in [conns : Nat, remotes : Nat]
      BY <1>25, HeadTailProperties DEF SetWakeLock, TypeOK
    <3>3. n.remotes \in Nat
      BY <3>2
    <3>4. ASSUME NEW r \in Nat PROVE (r > 0) \in BOOLEAN /\ (r > 0 \/ Platform = "linux") \in BOOLEAN
      <4>1. CASE r > 0
        BY <4>1
      <4>2. CASE ~(r > 0)
        BY <4>2
      <4> QED
        BY <4>1, <4>2
    <3>5. /\ (n.remotes > 0) \in BOOLEAN /\ (n.remotes > 0 \/ Platform = "linux") \in BOOLEAN
          /\ FALSE \in BOOLEAN
      BY <3>3, <3>4 DEF TypeOK
    <3> HIDE DEF n
    <3> QED
      BY <3>1, <3>5
  <2> QED
    BY <1>25, <2>1, <2>2, <2>3, <2>4 DEF SetWakeLock, program, sessvars, desktop, TypeOK
<1>28. ASSUME NEW c \in Conns, check_wake_lock_on_setting_changed(c) PROVE TypeOK'
  <2>1. pc' \in [Conns -> Pcs] /\ ret' \in [Conns -> {"link", "gone", "up", "in"}]
    BY <1>28 DEF check_wake_lock_on_setting_changed, Go, TypeOK, Pcs
  <2> QED
    BY <1>28, <2>1 DEF check_wake_lock_on_setting_changed, sessvars, thread, wake, desktop, TypeOK
<1>29. CASE SetKeepAwake
  BY <1>29 DEF SetKeepAwake, program, sessvars, thread, wake, desktop, TypeOK, Pcs
<1>26. ASSUME NEW k \in Keys, Expire(k) PROVE TypeOK'
  BY <1>26 DEF Expire, program, sessvars, thread, wake, desktop, TypeOK, Pcs
<1>27. CASE UNCHANGED vars
  BY <1>27 DEF vars, program, sessvars, thread, wake, desktop, TypeOK, Pcs
<1> QED
  BY <1>1, <1>2, <1>3, <1>4, <1>5, <1>6, <1>7, <1>8, <1>9, <1>10, <1>11, <1>12, <1>13, <1>14, <1>15, <1>16, <1>17, <1>18, <1>19, <1>20, <1>21, <1>22, <1>23, <1>24, <1>25, <1>26, <1>27, <1>28, <1>29
     DEF Next, Enter, Awake, Work, Leave

\* The lists follow the connections.
LEMMA ListedStep ==
  ASSUME TypeOK, Listed, [Next]_vars
  PROVE  Listed'
<1>1. ASSUME NEW c \in Conns, Start(c) PROVE Listed'
  BY <1>1 DEF Start, Go, program, sessvars, thread, wake, desktop, TypeOK, Listed, AuthedPcs
<1>2. ASSUME NEW c \in Conns, NEW k \in Keys, NEW type \in {"remote", "file"}, NEW temporary \in BOOLEAN, Login(c, k, type, temporary) PROVE Listed'
  BY <1>2 DEF Login, Go, program, sessvars, thread, wake, desktop, TypeOK, Listed, AuthedPcs
<1>3. ASSUME NEW c \in Conns, NEW k \in Keys, LoginRefused(c, k) PROVE Listed'
  BY <1>3 DEF LoginRefused, program, sessvars, thread, wake, desktop, TypeOK, Listed, AuthedPcs
<1>4. ASSUME NEW c \in Conns, PushAuthed(c) PROVE Listed'
  BY <1>4 DEF PushAuthed, Go, program, sessvars, thread, wake, desktop, TypeOK, Listed, AuthedPcs
<1>5. ASSUME NEW c \in Conns, LinkSession(c) PROVE Listed'
  BY <1>5 DEF LinkSession, Go, program, sessvars, thread, wake, desktop, TypeOK, Listed, AuthedPcs
<1>6. ASSUME NEW c \in Conns, on_remote_authorized(c) PROVE Listed'
  BY <1>6 DEF on_remote_authorized, Go, program, sessvars, thread, wake, desktop, TypeOK, Listed, AuthedPcs
<1>7. ASSUME NEW c \in Conns, CountConns(c) PROVE Listed'
  BY <1>7 DEF CountConns, Go, program, sessvars, thread, wake, desktop, TypeOK, Listed, AuthedPcs
<1>8. ASSUME NEW c \in Conns, CountRemotes(c) PROVE Listed'
  BY <1>8 DEF CountRemotes, Go, program, sessvars, thread, wake, desktop, TypeOK, Listed, AuthedPcs
<1>9. ASSUME NEW c \in Conns, SendCounts(c) PROVE Listed'
  BY <1>9 DEF SendCounts, Go, program, sessvars, thread, wake, desktop, TypeOK, Listed, AuthedPcs
<1>10. ASSUME NEW c \in Conns, Receive(c) PROVE Listed'
  BY <1>10 DEF Receive, program, sessvars, thread, wake, desktop, TypeOK, Listed, AuthedPcs
<1>11. ASSUME NEW c \in Conns, RecordResolution(c) PROVE Listed'
  BY <1>11 DEF RecordResolution, Go, program, sessvars, thread, wake, desktop, TypeOK, Listed, AuthedPcs
<1>12. ASSUME NEW c \in Conns, ChangeResolution(c) PROVE Listed'
  BY <1>12 DEF ChangeResolution, Go, program, sessvars, thread, wake, desktop, TypeOK, Listed, AuthedPcs
<1>13. ASSUME NEW c \in Conns, CloseRetry(c) PROVE Listed'
  BY <1>13 DEF CloseRetry, Go, program, sessvars, thread, wake, desktop, TypeOK, Listed, AuthedPcs
<1>14. ASSUME NEW c \in Conns, CloseNoRetry(c) PROVE Listed'
  BY <1>14 DEF CloseNoRetry, Go, program, sessvars, thread, wake, desktop, TypeOK, Listed, AuthedPcs
<1>15. ASSUME NEW c \in Conns, CheckOthers(c) PROVE Listed'
  BY <1>15 DEF CheckOthers, Go, program, sessvars, thread, wake, desktop, TypeOK, Listed, AuthedPcs
<1>16. ASSUME NEW c \in Conns, RemoveSession(c) PROVE Listed'
  BY <1>16 DEF RemoveSession, RemoveSessions, Go, program, sessvars, thread, wake, desktop, TypeOK, Listed, AuthedPcs
<1>17. ASSUME NEW c \in Conns, FindExpired(c) PROVE Listed'
  BY <1>17 DEF FindExpired, Go, program, sessvars, thread, wake, desktop, TypeOK, Listed, AuthedPcs
<1>18. ASSUME NEW c \in Conns, RemoveExpired(c) PROVE Listed'
  BY <1>18 DEF RemoveExpired, RemoveSessions, Go, program, sessvars, thread, wake, desktop, TypeOK, Listed, AuthedPcs
<1>19. ASSUME NEW c \in Conns, RetainAuthed(c) PROVE Listed'
  BY <1>19 DEF RetainAuthed, Go, program, sessvars, thread, wake, desktop, TypeOK, Listed, AuthedPcs
<1>20. ASSUME NEW c \in Conns, IsLastRemote(c) PROVE Listed'
  BY <1>20 DEF IsLastRemote, Go, program, sessvars, thread, wake, desktop, TypeOK, Listed, AuthedPcs
<1>21. ASSUME NEW c \in Conns, RestoreWallpaper(c) PROVE Listed'
  BY <1>21 DEF RestoreWallpaper, Go, program, sessvars, thread, wake, desktop, TypeOK, Listed, AuthedPcs
<1>22. ASSUME NEW c \in Conns, RestoreResolutions(c) PROVE Listed'
  BY <1>22 DEF RestoreResolutions, Go, program, sessvars, thread, wake, desktop, TypeOK, Listed, AuthedPcs
<1>23. ASSUME NEW c \in Conns, ClearRecords(c) PROVE Listed'
  BY <1>23 DEF ClearRecords, Go, program, sessvars, thread, wake, desktop, TypeOK, Listed, AuthedPcs
<1>24. ASSUME NEW c \in Conns, Gone(c) PROVE Listed'
  BY <1>24 DEF Gone, Go, program, sessvars, thread, wake, desktop, TypeOK, Listed, AuthedPcs
<1>25. CASE SetWakeLock
  BY <1>25 DEF SetWakeLock, Level, Created, Adjusted, program, sessvars, thread, wake, desktop, TypeOK, Listed, AuthedPcs
<1>28. ASSUME NEW c \in Conns, check_wake_lock_on_setting_changed(c) PROVE Listed'
  BY <1>28 DEF check_wake_lock_on_setting_changed, Go, program, sessvars, thread, wake, desktop, TypeOK, Listed, AuthedPcs
<1>29. CASE SetKeepAwake
  BY <1>29 DEF SetKeepAwake, program, sessvars, thread, wake, desktop, TypeOK, Listed, AuthedPcs
<1>26. ASSUME NEW k \in Keys, Expire(k) PROVE Listed'
  BY <1>26 DEF Expire, program, sessvars, thread, wake, desktop, TypeOK, Listed, AuthedPcs
<1>27. CASE UNCHANGED vars
  BY <1>27 DEF vars, program, sessvars, thread, wake, desktop, TypeOK, Listed, AuthedPcs
<1> QED
  BY <1>1, <1>2, <1>3, <1>4, <1>5, <1>6, <1>7, <1>8, <1>9, <1>10, <1>11, <1>12, <1>13, <1>14, <1>15, <1>16, <1>17, <1>18, <1>19, <1>20, <1>21, <1>22, <1>23, <1>24, <1>25, <1>26, <1>27, <1>28, <1>29
     DEF Next, Enter, Awake, Work, Leave

\* Somebody is there to restore the wallpaper.
LEMMA WallpaperStep ==
  ASSUME TypeOK, Listed, WallpaperRestored, [Next]_vars
  PROVE  WallpaperRestored'
<1>1. ASSUME NEW c \in Conns, Start(c) PROVE WallpaperRestored'
  BY <1>1 DEF Start, Go, program, sessvars, thread, wake, desktop, TypeOK, Listed, AuthedPcs, WallpaperRestored, Remotes
<1>2. ASSUME NEW c \in Conns, NEW k \in Keys, NEW type \in {"remote", "file"}, NEW temporary \in BOOLEAN, Login(c, k, type, temporary) PROVE WallpaperRestored'
  BY <1>2 DEF Login, Go, program, sessvars, thread, wake, desktop, TypeOK, Listed, AuthedPcs, WallpaperRestored, Remotes
<1>3. ASSUME NEW c \in Conns, NEW k \in Keys, LoginRefused(c, k) PROVE WallpaperRestored'
  BY <1>3 DEF LoginRefused, program, sessvars, thread, wake, desktop, TypeOK, Listed, AuthedPcs, WallpaperRestored, Remotes
<1>4. ASSUME NEW c \in Conns, PushAuthed(c) PROVE WallpaperRestored'
  BY <1>4 DEF PushAuthed, Go, program, sessvars, thread, wake, desktop, TypeOK, Listed, AuthedPcs, WallpaperRestored, Remotes
<1>5. ASSUME NEW c \in Conns, LinkSession(c) PROVE WallpaperRestored'
  BY <1>5 DEF LinkSession, Go, program, sessvars, thread, wake, desktop, TypeOK, Listed, AuthedPcs, WallpaperRestored, Remotes
<1>6. ASSUME NEW c \in Conns, on_remote_authorized(c) PROVE WallpaperRestored'
  BY <1>6 DEF on_remote_authorized, Go, program, sessvars, thread, wake, desktop, TypeOK, Listed, AuthedPcs, WallpaperRestored, Remotes
<1>7. ASSUME NEW c \in Conns, CountConns(c) PROVE WallpaperRestored'
  BY <1>7 DEF CountConns, Go, program, sessvars, thread, wake, desktop, TypeOK, Listed, AuthedPcs, WallpaperRestored, Remotes
<1>8. ASSUME NEW c \in Conns, CountRemotes(c) PROVE WallpaperRestored'
  BY <1>8 DEF CountRemotes, Go, program, sessvars, thread, wake, desktop, TypeOK, Listed, AuthedPcs, WallpaperRestored, Remotes
<1>9. ASSUME NEW c \in Conns, SendCounts(c) PROVE WallpaperRestored'
  BY <1>9 DEF SendCounts, Go, program, sessvars, thread, wake, desktop, TypeOK, Listed, AuthedPcs, WallpaperRestored, Remotes
<1>10. ASSUME NEW c \in Conns, Receive(c) PROVE WallpaperRestored'
  BY <1>10 DEF Receive, program, sessvars, thread, wake, desktop, TypeOK, Listed, AuthedPcs, WallpaperRestored, Remotes
<1>11. ASSUME NEW c \in Conns, RecordResolution(c) PROVE WallpaperRestored'
  BY <1>11 DEF RecordResolution, Go, program, sessvars, thread, wake, desktop, TypeOK, Listed, AuthedPcs, WallpaperRestored, Remotes
<1>12. ASSUME NEW c \in Conns, ChangeResolution(c) PROVE WallpaperRestored'
  BY <1>12 DEF ChangeResolution, Go, program, sessvars, thread, wake, desktop, TypeOK, Listed, AuthedPcs, WallpaperRestored, Remotes
<1>13. ASSUME NEW c \in Conns, CloseRetry(c) PROVE WallpaperRestored'
  BY <1>13 DEF CloseRetry, Go, program, sessvars, thread, wake, desktop, TypeOK, Listed, AuthedPcs, WallpaperRestored, Remotes
<1>14. ASSUME NEW c \in Conns, CloseNoRetry(c) PROVE WallpaperRestored'
  BY <1>14 DEF CloseNoRetry, Go, program, sessvars, thread, wake, desktop, TypeOK, Listed, AuthedPcs, WallpaperRestored, Remotes
<1>15. ASSUME NEW c \in Conns, CheckOthers(c) PROVE WallpaperRestored'
  BY <1>15 DEF CheckOthers, Go, program, sessvars, thread, wake, desktop, TypeOK, Listed, AuthedPcs, WallpaperRestored, Remotes
<1>16. ASSUME NEW c \in Conns, RemoveSession(c) PROVE WallpaperRestored'
  BY <1>16 DEF RemoveSession, RemoveSessions, Go, program, sessvars, thread, wake, desktop, TypeOK, Listed, AuthedPcs, WallpaperRestored, Remotes
<1>17. ASSUME NEW c \in Conns, FindExpired(c) PROVE WallpaperRestored'
  BY <1>17 DEF FindExpired, Go, program, sessvars, thread, wake, desktop, TypeOK, Listed, AuthedPcs, WallpaperRestored, Remotes
<1>18. ASSUME NEW c \in Conns, RemoveExpired(c) PROVE WallpaperRestored'
  BY <1>18 DEF RemoveExpired, RemoveSessions, Go, program, sessvars, thread, wake, desktop, TypeOK, Listed, AuthedPcs, WallpaperRestored, Remotes
<1>19. ASSUME NEW c \in Conns, RetainAuthed(c) PROVE WallpaperRestored'
  BY <1>19 DEF RetainAuthed, Go, program, sessvars, thread, wake, desktop, TypeOK, Listed, AuthedPcs, WallpaperRestored, Remotes
<1>20. ASSUME NEW c \in Conns, IsLastRemote(c) PROVE WallpaperRestored'
  BY <1>20 DEF IsLastRemote, Go, program, sessvars, thread, wake, desktop, TypeOK, Listed, AuthedPcs, WallpaperRestored, Remotes
<1>21. ASSUME NEW c \in Conns, RestoreWallpaper(c) PROVE WallpaperRestored'
  BY <1>21 DEF RestoreWallpaper, Go, program, sessvars, thread, wake, desktop, TypeOK, Listed, AuthedPcs, WallpaperRestored, Remotes
<1>22. ASSUME NEW c \in Conns, RestoreResolutions(c) PROVE WallpaperRestored'
  BY <1>22 DEF RestoreResolutions, Go, program, sessvars, thread, wake, desktop, TypeOK, Listed, AuthedPcs, WallpaperRestored, Remotes
<1>23. ASSUME NEW c \in Conns, ClearRecords(c) PROVE WallpaperRestored'
  BY <1>23 DEF ClearRecords, Go, program, sessvars, thread, wake, desktop, TypeOK, Listed, AuthedPcs, WallpaperRestored, Remotes
<1>24. ASSUME NEW c \in Conns, Gone(c) PROVE WallpaperRestored'
  BY <1>24 DEF Gone, Go, program, sessvars, thread, wake, desktop, TypeOK, Listed, AuthedPcs, WallpaperRestored, Remotes
<1>25. CASE SetWakeLock
  BY <1>25 DEF SetWakeLock, Level, Created, Adjusted, program, sessvars, thread, wake, desktop, TypeOK, Listed, AuthedPcs, WallpaperRestored, Remotes
<1>28. ASSUME NEW c \in Conns, check_wake_lock_on_setting_changed(c) PROVE WallpaperRestored'
  BY <1>28 DEF check_wake_lock_on_setting_changed, Go, program, sessvars, thread, wake, desktop, TypeOK, Listed, AuthedPcs, WallpaperRestored, Remotes
<1>29. CASE SetKeepAwake
  BY <1>29 DEF SetKeepAwake, program, sessvars, thread, wake, desktop, TypeOK, Listed, AuthedPcs, WallpaperRestored, Remotes
<1>26. ASSUME NEW k \in Keys, Expire(k) PROVE WallpaperRestored'
  BY <1>26 DEF Expire, program, sessvars, thread, wake, desktop, TypeOK, Listed, AuthedPcs, WallpaperRestored, Remotes
<1>27. CASE UNCHANGED vars
  BY <1>27 DEF vars, program, sessvars, thread, wake, desktop, TypeOK, Listed, AuthedPcs, WallpaperRestored, Remotes
<1> QED
  BY <1>1, <1>2, <1>3, <1>4, <1>5, <1>6, <1>7, <1>8, <1>9, <1>10, <1>11, <1>12, <1>13, <1>14, <1>15, <1>16, <1>17, <1>18, <1>19, <1>20, <1>21, <1>22, <1>23, <1>24, <1>25, <1>26, <1>27, <1>28, <1>29
     DEF Next, Enter, Awake, Work, Leave

\* A step that leaves the lists, the counts, the channel and the lock alone, and
\* moves no connection into or out of check_wake_lock or the way to it.
Calm ==
    /\ UNCHANGED <<authed, Remotes, counts, chan, lock, cached, overlapped>>
    /\ \A c \in Conns :
          /\ pc[c] \in WakePending <=> pc'[c] \in WakePending
          /\ pc[c] = "count2" <=> pc'[c] = "count2"
          /\ pc[c] = "wake" <=> pc'[c] = "wake"

\* Such a step keeps what is known of the wake lock.
LEMMA CalmKeeps ==
  ASSUME TypeOK, WakeInv, Calm
  PROVE  WakeInv'
<1>1. Current' = Current /\ chan' = chan /\ Pending' = Pending /\ overlapped' = overlapped
  BY DEF Calm, Current, Pending
<1>2. \A c \in Conns : /\ pc'[c] = "count2" <=> pc[c] = "count2"
                       /\ pc'[c] = "wake" <=> pc[c] = "wake"
  BY DEF Calm
<1>3. counts' = counts /\ Cardinality(authed)' = Cardinality(authed)
  BY DEF Calm
<1>4. LockFits(Current)' = LockFits(Current)
  BY <1>1 DEF LockFits, Calm
<1> QED
  BY <1>1, <1>2, <1>3, <1>4 DEF WakeInv

\* last_display follows the lock.
LEMMA LastDisplayStep ==
  ASSUME TypeOK, LastDisplayTrue, [Next]_vars
  PROVE  LastDisplayTrue'
<1>1. CASE SetWakeLock
  BY <1>1 DEF SetWakeLock, Level, Created, Adjusted, LastDisplayTrue, TypeOK
<1>2. CASE UNCHANGED <<lock, lastDisplay>>
  BY <1>2 DEF LastDisplayTrue
<1>3. SetWakeLock \/ UNCHANGED <<lock, lastDisplay>>
  BY DEF Next, Enter, Awake, Work, Leave, vars, wake, thread, SetKeepAwake, Expire, Start, Login,
         LoginRefused, PushAuthed, LinkSession, on_remote_authorized, CountConns, CountRemotes,
         SendCounts, check_wake_lock_on_setting_changed, Receive, RecordResolution,
         ChangeResolution, CloseRetry, CloseNoRetry, CheckOthers, RemoveSession, FindExpired,
         RemoveExpired, RetainAuthed, IsLastRemote, RestoreWallpaper, RestoreResolutions,
         ClearRecords, Gone
<1> QED
  BY <1>1, <1>2, <1>3

\* The steps of check_wake_lock, of the lists and of the wake lock thread keep
\* it too; the others are calm.
LEMMA WakeStep ==
  ASSUME TypeOK, Listed, LastDisplayTrue, WakeInv, [Next]_vars
  PROVE  WakeInv'
<1>1. ASSUME NEW c \in Conns, Start(c) PROVE Calm
  BY <1>1 DEF Start, Go, program, sessvars, thread, wake, desktop, TypeOK, Listed, AuthedPcs, Calm, Remotes, WakePending
<1>2. ASSUME NEW c \in Conns, NEW k \in Keys, NEW type \in {"remote", "file"}, NEW temporary \in BOOLEAN, Login(c, k, type, temporary) PROVE Calm
  BY <1>2 DEF Login, Go, program, sessvars, thread, wake, desktop, TypeOK, Listed, AuthedPcs, Calm, Remotes, WakePending
<1>3. ASSUME NEW c \in Conns, NEW k \in Keys, LoginRefused(c, k) PROVE Calm
  BY <1>3 DEF LoginRefused, Go, program, sessvars, thread, wake, desktop, TypeOK, Listed, AuthedPcs, Calm, Remotes, WakePending
<1>4. ASSUME NEW c \in Conns, LinkSession(c) PROVE Calm
  BY <1>4 DEF LinkSession, Go, program, sessvars, thread, wake, desktop, TypeOK, Listed, AuthedPcs, Calm, Remotes, WakePending
<1>5. ASSUME NEW c \in Conns, on_remote_authorized(c) PROVE Calm
  BY <1>5 DEF on_remote_authorized, Go, program, sessvars, thread, wake, desktop, TypeOK, Listed, AuthedPcs, Calm, Remotes, WakePending
<1>6. ASSUME NEW c \in Conns, Receive(c) PROVE Calm
  BY <1>6 DEF Receive, Go, program, sessvars, thread, wake, desktop, TypeOK, Listed, AuthedPcs, Calm, Remotes, WakePending
<1>7. ASSUME NEW c \in Conns, RecordResolution(c) PROVE Calm
  BY <1>7 DEF RecordResolution, Go, program, sessvars, thread, wake, desktop, TypeOK, Listed, AuthedPcs, Calm, Remotes, WakePending
<1>8. ASSUME NEW c \in Conns, ChangeResolution(c) PROVE Calm
  BY <1>8 DEF ChangeResolution, Go, program, sessvars, thread, wake, desktop, TypeOK, Listed, AuthedPcs, Calm, Remotes, WakePending
<1>9. ASSUME NEW c \in Conns, CloseRetry(c) PROVE Calm
  BY <1>9 DEF CloseRetry, Go, program, sessvars, thread, wake, desktop, TypeOK, Listed, AuthedPcs, Calm, Remotes, WakePending
<1>10. ASSUME NEW c \in Conns, CloseNoRetry(c) PROVE Calm
  BY <1>10 DEF CloseNoRetry, Go, program, sessvars, thread, wake, desktop, TypeOK, Listed, AuthedPcs, Calm, Remotes, WakePending
<1>11. ASSUME NEW c \in Conns, CheckOthers(c) PROVE Calm
  BY <1>11 DEF CheckOthers, Go, program, sessvars, thread, wake, desktop, TypeOK, Listed, AuthedPcs, Calm, Remotes, WakePending
<1>12. ASSUME NEW c \in Conns, RemoveSession(c) PROVE Calm
  BY <1>12 DEF RemoveSession, RemoveSessions, Go, program, sessvars, thread, wake, desktop, TypeOK, Listed, AuthedPcs, Calm, Remotes, WakePending
<1>13. ASSUME NEW c \in Conns, FindExpired(c) PROVE Calm
  BY <1>13 DEF FindExpired, Go, program, sessvars, thread, wake, desktop, TypeOK, Listed, AuthedPcs, Calm, Remotes, WakePending
<1>14. ASSUME NEW c \in Conns, RemoveExpired(c) PROVE Calm
  BY <1>14 DEF RemoveExpired, RemoveSessions, Go, program, sessvars, thread, wake, desktop, TypeOK, Listed, AuthedPcs, Calm, Remotes, WakePending
<1>15. ASSUME NEW c \in Conns, IsLastRemote(c) PROVE Calm
  BY <1>15 DEF IsLastRemote, Go, program, sessvars, thread, wake, desktop, TypeOK, Listed, AuthedPcs, Calm, Remotes, WakePending
<1>16. ASSUME NEW c \in Conns, RestoreWallpaper(c) PROVE Calm
  BY <1>16 DEF RestoreWallpaper, Go, program, sessvars, thread, wake, desktop, TypeOK, Listed, AuthedPcs, Calm, Remotes, WakePending
<1>17. ASSUME NEW c \in Conns, RestoreResolutions(c) PROVE Calm
  BY <1>17 DEF RestoreResolutions, Go, program, sessvars, thread, wake, desktop, TypeOK, Listed, AuthedPcs, Calm, Remotes, WakePending
<1>18. ASSUME NEW c \in Conns, Gone(c) PROVE Calm
  BY <1>18 DEF Gone, Go, program, sessvars, thread, wake, desktop, TypeOK, Listed, AuthedPcs, Calm, Remotes, WakePending
<1>19. ASSUME NEW k \in Keys, Expire(k) PROVE Calm
  BY <1>19 DEF Expire, Go, program, sessvars, thread, wake, desktop, TypeOK, Listed, AuthedPcs, Calm, Remotes, WakePending
<1>20. ASSUME NEW c \in Conns, ClearRecords(c) PROVE Calm
  BY <1>20 DEF ClearRecords, Go, program, sessvars, thread, wake, desktop, TypeOK, Listed, AuthedPcs, Calm, Remotes, WakePending
<1>21. CASE UNCHANGED vars
  <2>1. Calm
    BY <1>21 DEF vars, Go, program, sessvars, thread, wake, desktop, TypeOK, Listed, AuthedPcs, Calm, Remotes, WakePending
  <2> QED
    BY <2>1, CalmKeeps
<1>22. ASSUME NEW c \in Conns, PushAuthed(c) PROVE WakeInv'
  <2>1. Pending' /\ overlapped' = overlapped
    BY <1>22 DEF PushAuthed, Go, wake, TypeOK, Pending, WakePending
  <2>2. \A d \in Conns : pc'[d] \in {"count2", "wake"} => pc'[d] = pc[d]
    BY <1>22 DEF PushAuthed, Go, TypeOK
  <2> QED
    BY <2>1, <2>2 DEF WakeInv
<1>23. ASSUME NEW c \in Conns, RetainAuthed(c) PROVE WakeInv'
  <2>1. Pending' /\ overlapped' = overlapped
    BY <1>23 DEF RetainAuthed, Go, wake, TypeOK, Pending, WakePending
  <2>2. \A d \in Conns : pc'[d] \in {"count2", "wake"} => pc'[d] = pc[d]
    BY <1>23 DEF RetainAuthed, Go, TypeOK
  <2> QED
    BY <2>1, <2>2 DEF WakeInv
<1>24. ASSUME NEW c \in Conns, CountConns(c) PROVE WakeInv'
  <2> SUFFICES ASSUME ~overlapped' PROVE WakeInv'
    BY DEF WakeInv
  <2>1. \A d \in Conns \ {c} : pc'[d] = pc[d] /\ pc'[d] \notin {"count2", "wake"}
    BY <1>24 DEF CountConns, Go, TypeOK
  <2>2. pc'[c] = "count2" /\ counts'[c].conns = Cardinality(authed)' /\ authed' = authed
    BY <1>24 DEF CountConns, Go, TypeOK
  <2> QED
    BY <2>1, <2>2 DEF WakeInv
<1>25. ASSUME NEW c \in Conns, CountRemotes(c) PROVE WakeInv'
  <2>1. /\ overlapped' = overlapped /\ Pending' = Pending /\ authed' = authed
        /\ pc[c] = "count2" /\ pc'[c] = "wake"
        /\ \A d \in Conns \ {c} : pc'[d] = pc[d]
    BY <1>25 DEF CountRemotes, Go, wake, TypeOK, Pending, WakePending
  <2>2. Remotes' = Remotes
    BY <1>25 DEF CountRemotes, Remotes
  <2>3. Current' = Current
    BY <2>1, <2>2 DEF Current
  <2> SUFFICES ASSUME ~overlapped' PROVE WakeInv'
    BY DEF WakeInv
  <2>4. \A d \in Conns \ {c} : pc'[d] \notin {"count2", "wake"}
    BY <2>1 DEF WakeInv
  <2>5. ~Pending' => counts'[c] = Current'
    <3> SUFFICES ASSUME ~Pending PROVE counts'[c] = Current
      BY <2>1, <2>3
    <3>1. counts[c].conns = Cardinality(authed)
      BY <2>1 DEF WakeInv
    <3>2. counts'[c] = [counts[c] EXCEPT !.remotes = Cardinality(Remotes)]
      BY <1>25 DEF CountRemotes, TypeOK
    <3>3. counts[c] \in [conns : Nat, remotes : Nat]
      BY DEF TypeOK
    <3> QED
      BY <3>1, <3>2, <3>3 DEF Current
  <2> QED
    BY <2>1, <2>4, <2>5 DEF WakeInv
<1>26. ASSUME NEW c \in Conns, SendCounts(c) PROVE WakeInv'
  <2>1. /\ overlapped' = overlapped /\ Pending' = Pending
        /\ pc[c] = "wake" /\ pc'[c] \notin {"count2", "wake"}
        /\ \A d \in Conns \ {c} : pc'[d] = pc[d]
    BY <1>26 DEF SendCounts, Go, wake, TypeOK, Pending, WakePending
  <2>2. Remotes' = Remotes /\ authed' = authed
    BY <1>26 DEF SendCounts, Remotes
  <2>3. Current' = Current
    BY <2>2 DEF Current
  <2> SUFFICES ASSUME ~overlapped' PROVE WakeInv'
    BY DEF WakeInv
  <2>4. \A d \in Conns : pc'[d] \notin {"count2", "wake"}
    BY <2>1 DEF WakeInv
  <2>5. chan' # << >> /\ chan'[Len(chan')] = counts[c]
    <3>1. chan' = Append(chan, counts[c]) /\ chan \in Seq([conns : Nat, remotes : Nat])
      BY <1>26 DEF SendCounts, TypeOK
    <3>2. counts[c] \in [conns : Nat, remotes : Nat]
      BY DEF TypeOK
    <3> QED
      BY <3>1, <3>2
  <2>6. ~Pending' => counts[c] = Current
    BY <2>1 DEF WakeInv
  <2> QED
    BY <2>1, <2>3, <2>4, <2>5, <2>6 DEF WakeInv
<1>27. CASE SetWakeLock
  <2>1. /\ UNCHANGED <<overlapped, pc, counts, authed>>
        /\ Remotes' = Remotes
    BY <1>27 DEF SetWakeLock, program, Remotes
  <2>2. Pending' = Pending /\ Current' = Current /\ Cardinality(authed)' = Cardinality(authed)
    BY <2>1 DEF Pending, Current
  <2>3. /\ chan # << >> /\ chan \in Seq([conns : Nat, remotes : Nat]) /\ chan' = Tail(chan)
    BY <1>27 DEF SetWakeLock, TypeOK
  <2>4. CASE Len(chan) = 1
    <3>1. chan' = << >> /\ Head(chan) = chan[Len(chan)]
      BY <2>3, <2>4
    <3>2. PICK n \in [conns : Nat, remotes : Nat] : n = Head(chan)
      BY <2>3, HeadTailProperties
    <3>3. LockFits(n)'
      <4>1. n.conns \in Nat /\ n.remotes \in Nat
        BY <3>2
      <4>2. cached' = {keepAwake} /\ keepAwake \in BOOLEAN
        BY <1>27 DEF SetWakeLock, TypeOK
      <4>3. lock' # "off" <=> n.conns # 0 /\ keepAwake
        BY <1>27, <3>2, <4>1 DEF SetWakeLock, Level, Created, Adjusted
      <4>4. Platform = "windows" /\ lock' # "off" => (lock' = "display" <=> n.remotes # 0)
        <5>1. (n.remotes > 0) <=> n.remotes # 0
          BY <4>1
        <5> QED
          BY <1>27, <3>2, <5>1 DEF SetWakeLock, Level, Created, Adjusted, LastDisplayTrue, TypeOK
      <4>5. {keepAwake} = {TRUE} <=> keepAwake
        BY <4>2
      <4>6. (lock # "off")' <=> n.conns # 0 /\ cached' = {TRUE}
        BY <4>2, <4>3, <4>5
      <4> QED
        BY <4>4, <4>6 DEF LockFits
    <3>4. Current = n => LockFits(Current)'
      BY <2>2, <3>3 DEF LockFits
    <3> QED
      BY <2>1, <2>2, <2>3, <3>1, <3>2, <3>4 DEF WakeInv
  <2>5. CASE Len(chan) # 1
    <3>1. Len(chan) \in Nat /\ Len(chan) >= 2 /\ Len(chan') = Len(chan) - 1
      <4>1. Len(chan) \in Nat /\ Len(chan) # 0
        BY <2>3, EmptySeq
      <4>2. Len(chan) >= 2
        <5>1. \A n \in Nat : n # 0 /\ n # 1 => n >= 2
          OBVIOUS
        <5> QED
          BY <2>5, <4>1, <5>1
      <4>3. Len(chan') = Len(chan) - 1
        BY <2>3, HeadTailProperties
      <4> QED
        BY <4>1, <4>2, <4>3
    <3>2. \A i \in 1 .. Len(chan) - 1 : chan'[i] = chan[i + 1]
      BY <2>3, <3>1
    <3>3. chan' # << >> /\ chan'[Len(chan')] = chan[Len(chan)]
      BY <3>1, <3>2
    <3> QED
      BY <2>1, <2>2, <2>3, <3>3 DEF WakeInv
  <2> QED
    BY <2>4, <2>5
<1>28. ASSUME NEW c \in Conns, check_wake_lock_on_setting_changed(c) PROVE WakeInv'
  <2>1. Pending' /\ overlapped' = overlapped
    BY <1>28 DEF check_wake_lock_on_setting_changed, Go, wake, TypeOK, Pending, WakePending
  <2>2. \A d \in Conns : pc'[d] \in {"count2", "wake"} => pc'[d] = pc[d]
    BY <1>28 DEF check_wake_lock_on_setting_changed, Go, TypeOK
  <2> QED
    BY <2>1, <2>2 DEF WakeInv
<1>29. ASSUME SetKeepAwake PROVE Calm
  BY <1>29 DEF SetKeepAwake, program, Calm, Remotes
<1> QED
  BY <1>1, <1>2, <1>3, <1>4, <1>5, <1>6, <1>7, <1>8, <1>9, <1>10, <1>11, <1>12, <1>13, <1>14, <1>15, <1>16, <1>17, <1>18, <1>19, <1>20, <1>21, <1>22, <1>23, <1>24, <1>25, <1>26, <1>27, <1>28, <1>29,
     CalmKeeps DEF Next, Enter, Awake, Work, Leave

\* Every step preserves the inductive invariant.
LEMMA NextIInv == IInv /\ [Next]_vars => IInv'
  BY TypeStep, ListedStep, WallpaperStep, LastDisplayStep, WakeStep DEF IInv

\* Type correctness of the registries.
THEOREM RegistryTypes == Spec => []TypeOK
  BY InitIInv, NextIInv, PTL DEF Spec, IInv

\* However many connections log in and are dropped at once, the last drop of a
\* remote connection restores the wallpaper.
THEOREM WallpaperComesBack == Spec => []WallpaperRestored
  BY InitIInv, NextIInv, PTL DEF Spec, IInv

\* AUTHED_CONNS never holds a connection that ALIVE_CONNS does not, and a
\* dropped connection is in neither.
THEOREM AuthedIsAlive == Spec => []AuthedAlive
<1>1. IInv => AuthedAlive
  BY DEF IInv, TypeOK, Listed, AuthedPcs, AuthedAlive
<1> QED
  BY InitIInv, NextIInv, <1>1, PTL DEF Spec

\* Once connections and wake lock thread are idle, the machine is kept awake
\* exactly while a connection is authorized and the option is on, on every
\* platform, and on Windows its display exactly while one of them is remote;
\* unless the last check_wake_lock began inside another.
THEOREM WakeLockIsRight == Spec => []WakeLockSettles
<1>1. IInv => WakeLockSettles
  <2> SUFFICES ASSUME IInv, Settled, ~overlapped
               PROVE  /\ lock # "off" <=> authed # {} /\ keepAwake
                      /\ Platform = "windows" /\ lock # "off" => (lock = "display" <=> Remotes # {})
    BY DEF WakeLockSettles
  <2>1. ~Pending /\ (\A c \in Conns : pc[c] \notin {"count2", "wake"}) /\ chan = << >>
    BY DEF Settled, Pending, WakePending
  <2>2. LockFits(Current)
    BY <2>1 DEF IInv, WakeInv
  <2>3. /\ Current.conns # 0 <=> authed # {}
        /\ Current.remotes # 0 <=> Remotes # {}
    <3>1. IsFiniteSet(authed) /\ IsFiniteSet(Remotes)
      BY FS_Subset DEF IInv, TypeOK, Remotes
    <3> QED
      BY <3>1, FS_EmptySet DEF Current
  <2>4. authed # {} => (cached = {TRUE} <=> keepAwake)
    <3> SUFFICES ASSUME authed # {} PROVE cached = {TRUE} <=> keepAwake
      OBVIOUS
    <3>1. PICK c \in Conns : c \in authed
      BY DEF IInv, TypeOK
    <3>2. pc[c] = "in"
      BY <3>1 DEF IInv, Listed, AuthedPcs, Settled
    <3>3. cached = {keepAwake} /\ keepAwake \in BOOLEAN
      BY <3>2 DEF Settled, IInv, TypeOK
    <3> QED
      BY <3>3
  <2> QED
    BY <2>2, <2>3, <2>4 DEF LockFits
<1> QED
  BY InitIInv, NextIInv, <1>1, PTL DEF Spec
=============================================================================
