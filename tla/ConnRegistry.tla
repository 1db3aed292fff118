----------------------------- MODULE ConnRegistry -----------------------------
(***************************************************************************)
(* The process-wide registries of server/connection.rs: AUTHED_CONNS, the  *)
(* SESSIONS of recent logins, the wake lock, and what the last remote      *)
(* connection restores (wallpaper, resolutions) when it is dropped.        *)
(*                                                                         *)
(* Connections are tasks of a multi-threaded runtime and every registry    *)
(* has a lock of its own, taken anew for every statement, so a connection  *)
(* is a program of one step per critical section.  pc names the step it is *)
(* about to take, and locals are cleared when they go out of scope.  The   *)
(* session's password is left out: a session matters here by being there   *)
(* and by being expired (SESSION_TIMEOUT).                                 *)
(***************************************************************************)
EXTENDS Naturals, Sequences, FiniteSets

CONSTANTS Conns,     \* connection ids
          Keys,      \* SessionKey: peer id, name and session id
          NoKey,     \* before the login
          Platform,  \* target_os, as far as the wake lock tells them apart
          MaxPending \* bound: counts in the wake lock channel at a timer's check

ASSUME KeysAssumption  == NoKey \notin Keys
ASSUME ConnsAssumption == IsFiniteSet(Conns)
ASSUME PlatformAssumption == Platform \in {"windows", "macos", "linux"} /\ MaxPending \in Nat

VARIABLES
    pc, kind, key,             \* each connection, its AuthConnType and session key
    alive, authed,             \* ALIVE_CONNS, AUTHED_CONNS
    sessions, stale,           \* SESSIONS and the ones past SESSION_TIMEOUT
    linked,                    \* connections whose last_recv_time is a session's
    counts, doomed, last,      \* locals: counts read, expired keys, the verdict
    ret,                       \* where check_wake_lock returns to
    keepAwake, cached,         \* the option, WAKELOCK_KEEP_AWAKE_OPTION ({}: None)
    chan, lock, lastDisplay,   \* the wake lock thread: channel and locals
    overlapped,                \* history: the last check_wake_lock began in another
    wallpaper,                 \* WALLPAPER_REMOVER is some
    record, altered            \* CHANGED_RESOLUTIONS, the display's resolution

program  == <<kind, key, counts, doomed, last, ret>>
sessvars == <<sessions, stale, linked>>
thread   == <<lock, lastDisplay, cached, keepAwake>>
wake     == <<chan, thread, overlapped>>
desktop  == <<wallpaper, record, altered>>
vars     == <<pc, program, alive, authed, sessvars, wake, desktop>>

NoCounts == [conns |-> 0, remotes |-> 0]

Init ==
    /\ pc = [c \in Conns |-> "none"]
    /\ kind = [c \in Conns |-> "remote"] /\ key = [c \in Conns |-> NoKey]
    /\ alive = {} /\ authed = {}
    /\ sessions = {} /\ stale = {} /\ linked = {}
    /\ counts = [c \in Conns |-> NoCounts] /\ doomed = [c \in Conns |-> {}]
    /\ last = [c \in Conns |-> FALSE] /\ ret = [c \in Conns |-> "link"]
    /\ chan = << >> /\ lock = "off" /\ lastDisplay = FALSE /\ overlapped = FALSE
    /\ keepAwake \in BOOLEAN /\ cached = {}
    /\ wallpaper = FALSE /\ record = FALSE /\ altered = FALSE

Remotes == {c \in authed : kind[c] = "remote"}

Go(c, from, to) == pc[c] = from /\ pc' = [pc EXCEPT ![c] = to]

RemoveSessionsOnly(ks) ==
    /\ sessions' = sessions \ ks
    /\ linked' = {c \in linked : key[c] \notin ks}
    /\ UNCHANGED stale

RemoveSessions(ks) ==
    /\ sessions' = sessions \ ks
    /\ stale' = stale \ ks
    /\ linked' = {c \in linked : key[c] \notin ks}

-----------------------------------------------------------------------------
(* A connection starts and logs in. *)

Start(c) ==
    /\ Go(c, "none", "up")
    /\ alive' = alive \cup {c}
    /\ UNCHANGED <<program, authed, sessvars, wake, desktop>>

\* The temporary password inserts or updates the session, a recent session or
\* the permanent password leaves SESSIONS alone.
Login(c, k, type, temporary) ==
    /\ Go(c, "up", "push")
    /\ key' = [key EXCEPT ![c] = k]
    /\ kind' = [kind EXCEPT ![c] = type]
    /\ sessions' = IF temporary THEN sessions \cup {k} ELSE sessions
    /\ UNCHANGED <<counts, doomed, last, ret, alive, authed, stale, linked, wake, desktop>>

\* A request that is not accepted still sets lr, and with it the session key.
LoginRefused(c, k) ==
    /\ pc[c] = "up"
    /\ key' = [key EXCEPT ![c] = k]
    /\ UNCHANGED <<pc, kind, counts, doomed, last, ret, alive, authed, sessvars, wake, desktop>>

\* send_logon_response_and_keep_alive, AuthedConnID::new
PushAuthed(c) ==
    /\ Go(c, "push", "count1")
    /\ authed' = authed \cup {c}
    /\ ret' = [ret EXCEPT ![c] = "link"]
    /\ UNCHANGED <<kind, key, counts, doomed, last, alive, sessvars, wake, desktop>>

\* check_wake_lock, called when a connection is added, when it is dropped and
\* when a timer finds the option changed: two counts and a send, under three
\* locks.
CountConns(c) ==
    /\ Go(c, "count1", "count2")
    /\ counts' = [counts EXCEPT ![c].conns = Cardinality(authed)]
    /\ overlapped' = \E d \in Conns \ {c} : pc[d] \in {"count2", "wake"}
    /\ UNCHANGED <<kind, key, doomed, last, ret, alive, authed, sessvars, chan, thread, desktop>>

CountRemotes(c) ==
    /\ Go(c, "count2", "wake")
    /\ counts' = [counts EXCEPT ![c].remotes = Cardinality(Remotes)]
    /\ UNCHANGED <<kind, key, doomed, last, ret, alive, authed, sessvars, wake, desktop>>

SendCounts(c) ==
    /\ Go(c, "wake", ret[c])
    /\ chan' = Append(chan, counts[c])
    /\ counts' = [counts EXCEPT ![c] = NoCounts]
    /\ ret' = [ret EXCEPT ![c] = "link"]
    /\ UNCHANGED <<kind, key, doomed, last, alive, authed, sessvars, thread, overlapped, desktop>>

\* A tick of the connection's second_timer that finds the option changed since
\* the wake lock thread last read it.
check_wake_lock_on_setting_changed(c) ==
    /\ cached # {keepAwake} /\ Len(chan) < MaxPending
    /\ \E from \in {"up", "in"} :
          Go(c, from, "count1") /\ ret' = [ret EXCEPT ![c] = from]
    /\ UNCHANGED <<kind, key, counts, doomed, last, alive, authed, sessvars, wake, desktop>>

\* session_last_recv_time
LinkSession(c) ==
    /\ Go(c, "link", IF kind[c] = "remote" THEN "paper" ELSE "in")
    /\ linked' = IF key[c] \in sessions THEN linked \cup {c} ELSE linked
    /\ UNCHANGED <<program, alive, authed, sessions, stale, wake, desktop>>

on_remote_authorized(c) ==
    /\ Go(c, "paper", "in")
    /\ wallpaper' = TRUE
    /\ UNCHANGED <<program, alive, authed, sessvars, wake, record, altered>>

-----------------------------------------------------------------------------
(* An authorized connection. *)

Receive(c) ==
    /\ pc[c] = "in" /\ c \in linked
    /\ stale' = stale \ {key[c]}
    /\ UNCHANGED <<pc, program, alive, authed, sessions, linked, wake, desktop>>

\* change_resolution: the original is recorded, then the display changed.
RecordResolution(c) ==
    /\ kind[c] = "remote" /\ Go(c, "in", "resize")
    /\ record' = TRUE
    /\ UNCHANGED <<program, alive, authed, sessvars, wake, wallpaper, altered>>

ChangeResolution(c) ==
    /\ Go(c, "resize", "in")
    /\ altered' = TRUE
    /\ UNCHANGED <<program, alive, authed, sessvars, wake, wallpaper, record>>

\* The loop ends: the peer may come back, or check_remove_session is called.
\* Nothing is received any more, so a link to the session has no effect.
CloseRetry(c) ==
    /\ \/ Go(c, "in", "expired")
       \/ Go(c, "up", "expired")
    /\ linked' = linked \ {c}
    /\ UNCHANGED <<program, alive, authed, sessions, stale, wake, desktop>>

CloseNoRetry(c) ==
    /\ \E from \in {"up", "in"} :
          Go(c, from, IF key[c] \in sessions THEN "others" ELSE "expired")
    /\ linked' = linked \ {c}
    /\ UNCHANGED <<program, alive, authed, sessions, stale, wake, desktop>>

OtherRemotes(c) == {d \in Remotes \ {c} : key[d] = key[c]}

CheckOthers(c) ==
    /\ Go(c, "others", "remove")
    /\ last' = [last EXCEPT ![c] = c \in Remotes \/ OtherRemotes(c) = {}]
    /\ UNCHANGED <<kind, key, counts, doomed, ret, alive, authed, sessvars, wake, desktop>>

RemoveSession(c) ==
    /\ Go(c, "remove", "expired")
    /\ \/ last[c] /\ RemoveSessions({key[c]})
       \/ ~last[c] /\ UNCHANGED sessvars
    /\ last' = [last EXCEPT ![c] = FALSE]
    /\ UNCHANGED <<kind, key, counts, doomed, ret, alive, authed, wake, desktop>>

-----------------------------------------------------------------------------
(* Drop for Connection, then for its AuthedConnID, then for its ConnectionID. *)

FindExpired(c) ==
    /\ Go(c, "expired", "clean")
    /\ doomed' = [doomed EXCEPT ![c] = stale]
    /\ UNCHANGED <<kind, key, counts, last, ret, alive, authed, sessvars, wake, desktop>>

RemoveExpiredAndForget(c) ==
    /\ Go(c, "clean", "gone")
    /\ RemoveSessions(doomed[c])
    /\ doomed' = [doomed EXCEPT ![c] = {}]
    /\ UNCHANGED <<kind, key, counts, last, ret, alive, authed, wake, desktop>>

RemoveExpired(c) ==
    /\ Go(c, "clean", IF c \in authed THEN "retain" ELSE "gone")
    /\ RemoveSessions(doomed[c])
    /\ doomed' = [doomed EXCEPT ![c] = {}]
    /\ UNCHANGED <<kind, key, counts, last, ret, alive, authed, wake, desktop>>

RetainAuthed(c) ==
    /\ Go(c, "retain", "remotes")
    /\ authed' = authed \ {c}
    /\ ret' = [ret EXCEPT ![c] = "gone"]
    /\ UNCHANGED <<kind, key, counts, doomed, last, alive, sessvars, wake, desktop>>

IsLastConn(c) ==
    /\ Go(c, "remotes", IF authed = {} THEN "unpaper" ELSE "count1")
    /\ UNCHANGED <<program, alive, authed, sessvars, wake, desktop>>

IsLastRemote(c) ==
    /\ Go(c, "remotes", IF Remotes = {} THEN "unpaper" ELSE "count1")
    /\ UNCHANGED <<program, alive, authed, sessvars, wake, desktop>>

RestoreWallpaper(c) ==
    /\ Go(c, "unpaper", "restore")
    /\ wallpaper' = FALSE
    /\ UNCHANGED <<program, alive, authed, sessvars, wake, record, altered>>

\* restore_resolutions reads the records under one lock and clears them under
\* the next.
RestoreResolutions(c) ==
    /\ Go(c, "restore", "clear")
    /\ altered' = (altered /\ ~record)
    /\ UNCHANGED <<program, alive, authed, sessvars, wake, wallpaper, record>>

ClearRecordsOnly(c) ==
    /\ Go(c, "clear", "gone")
    /\ record' = FALSE
    /\ UNCHANGED <<program, alive, authed, sessvars, wake, wallpaper, altered>>

ClearRecords(c) ==
    /\ Go(c, "clear", "count1")
    /\ record' = FALSE
    /\ UNCHANGED <<program, alive, authed, sessvars, wake, wallpaper, altered>>

Gone(c) ==
    /\ Go(c, "gone", "dead")
    /\ alive' = alive \ {c}
    /\ UNCHANGED <<program, authed, sessvars, wake, desktop>>

-----------------------------------------------------------------------------
(* The wake lock thread and the clock. *)

Level(display) == IF display THEN "display" ELSE "system"

\* get_wakelock: on Linux the display is always kept on.
Created(display) == IF Platform = "linux" THEN "display" ELSE Level(display)

\* set_display: always succeeds on Windows, may fail on macOS, and is not
\* called elsewhere.
Adjusted(display) ==
    IF Platform = "windows" THEN {Level(display)}
    ELSE IF Platform = "macos" THEN {Level(display), lock} ELSE {lock}

\* The thread reads the option at every message and remembers what it read;
\* last_display is set whether set_display succeeded or not, and, as the next
\* lock sets it before it is read, is cleared here with the lock.
SetWakeLock ==
    /\ chan # << >> /\ chan' = Tail(chan)
    /\ cached' = {keepAwake}
    /\ LET n == Head(chan)
           display == n.remotes > 0
       IN  IF n.conns = 0 \/ ~keepAwake
             THEN lock' = "off" /\ lastDisplay' = FALSE
             ELSE IF lock = "off"
               THEN lock' = Created(display) /\ lastDisplay' = (display \/ Platform = "linux")
               ELSE /\ lock' \in IF display # lastDisplay THEN Adjusted(display) ELSE {lock}
                    /\ lastDisplay' = display
    /\ UNCHANGED <<pc, program, alive, authed, sessvars, keepAwake, overlapped, desktop>>

\* The user switches keep-awake-during-incoming-sessions.
SetKeepAwake ==
    /\ keepAwake' = ~keepAwake
    /\ UNCHANGED <<pc, program, alive, authed, sessvars, chan, lock, lastDisplay, cached,
                   overlapped, desktop>>

\* A connection that is up receives something before its session expires.
Receiving(c) ==
    \/ pc[c] \in {"paper", "in", "resize"}
    \/ pc[c] \in {"count1", "count2", "wake"} /\ ret[c] = "in"

Expire(k) ==
    /\ k \in sessions \ stale
    /\ \A c \in linked : key[c] = k => ~Receiving(c)
    /\ stale' = stale \cup {k}
    /\ UNCHANGED <<pc, program, alive, authed, sessions, linked, wake, desktop>>

Enter(c) ==
    \/ Start(c)
    \/ \E k \in Keys, type \in {"remote", "file"}, temporary \in BOOLEAN :
          Login(c, k, type, temporary)
    \/ \E k \in Keys : LoginRefused(c, k)
    \/ PushAuthed(c) \/ LinkSession(c) \/ on_remote_authorized(c)

Awake(c) ==
    \/ CountConns(c) \/ CountRemotes(c) \/ SendCounts(c)
    \/ check_wake_lock_on_setting_changed(c)

Work(c) ==
    \/ Receive(c) \/ RecordResolution(c) \/ ChangeResolution(c)
    \/ CloseRetry(c) \/ CloseNoRetry(c) \/ CheckOthers(c) \/ RemoveSession(c)

Leave(c) ==
    \/ FindExpired(c) \/ RemoveExpired(c) \/ RetainAuthed(c) \/ IsLastRemote(c)
    \/ RestoreWallpaper(c) \/ RestoreResolutions(c) \/ ClearRecords(c) \/ Gone(c)

Next ==
    \/ \E c \in Conns : Enter(c) \/ Awake(c) \/ Work(c) \/ Leave(c)
    \/ SetWakeLock \/ SetKeepAwake
    \/ \E k \in Keys : Expire(k)

Spec == Init /\ [][Next]_vars

-----------------------------------------------------------------------------
(* Properties *)

Pcs == {"none", "up", "push", "count1", "count2", "wake", "link", "paper", "in",
        "resize", "others", "remove", "expired", "clean", "retain", "remotes",
        "unpaper", "restore", "clear", "gone", "dead"}

\* Every variable keeps its type.
TypeOK ==
    /\ pc \in [Conns -> Pcs] /\ kind \in [Conns -> {"remote", "file"}]
    /\ key \in [Conns -> Keys \cup {NoKey}]
    /\ alive \subseteq Conns /\ authed \subseteq Conns
    /\ sessions \subseteq Keys /\ stale \subseteq sessions /\ linked \subseteq Conns
    /\ counts \in [Conns -> [conns : Nat, remotes : Nat]]
    /\ doomed \in [Conns -> SUBSET Keys] /\ last \in [Conns -> BOOLEAN]
    /\ ret \in [Conns -> {"link", "gone", "up", "in"}]
    /\ keepAwake \in BOOLEAN /\ cached \in {{}, {TRUE}, {FALSE}} /\ lastDisplay \in BOOLEAN
    /\ chan \in Seq([conns : Nat, remotes : Nat])
    /\ lock \in {"off", "system", "display"} /\ overlapped \in BOOLEAN
    /\ wallpaper \in BOOLEAN /\ record \in BOOLEAN /\ altered \in BOOLEAN

\* The user's wallpaper is back as soon as no remote connection is authorized
\* and no drop is on its way to restore it, however logins and drops overlap
\* (Drop for AuthedConnID: retain, then count, then WALLPAPER_REMOVER = None).
WallpaperRestored ==
    wallpaper => \/ Remotes # {}
                 \/ \E c \in Conns : pc[c] \in {"remotes", "unpaper"}

\* An authorized connection is alive, and one that has been dropped is in
\* neither list: the updater and the heartbeat trust ALIVE_CONNS to cover
\* every session.
AuthedAlive ==
    /\ authed \subseteq alive
    /\ \A c \in Conns : pc[c] = "dead" => c \notin alive \cup authed

\* Connections and wake lock thread have nothing left to do, and no timer has
\* a change of the option to report.
Settled ==
    /\ chan = << >>
    /\ \A c \in Conns : /\ pc[c] \in {"none", "up", "in", "dead"}
                        /\ pc[c] \in {"up", "in"} => cached = {keepAwake}

\* The machine is kept awake exactly while a connection is authorized and the
\* option is on, and on Windows, where set_display cannot fail, its display
\* exactly while one of them is remote; once everybody has settled, and unless
\* the last check_wake_lock began between the counts and the send of another
\* one, which may then have sent the older counts last.
WakeLockSettles ==
    Settled /\ ~overlapped =>
        /\ lock # "off" <=> authed # {} /\ keepAwake
        /\ Platform = "windows" /\ lock # "off" => (lock = "display" <=> Remotes # {})
=============================================================================
