---------------------- MODULE DaemonSupervisor_proofs ----------------------
(***************************************************************************)
(* Theorems about DaemonSupervisor, for any number of wrappers and pids,   *)
(* any number of faults and every value of the constants that              *)
(* SupervisorAssumption allows.                                            *)
(***************************************************************************)
EXTENDS DaemonSupervisor, TLAPS

\* What pgrep reports is a process number, or nothing.
LEMMA HeadIsPid == ASSUME TypeOK PROVE PgrepHead \subseteq Pids \cup {0}
BY DEF TypeOK, PgrepHead, LivePids, Live

\* Type correctness: wrappers, daemons, the pid file and the two scripts keep
\* their types in every reachable state.
THEOREM TypeCorrect == Spec => []TypeOK
<1> USE SupervisorAssumption DEF TypeOK
<1>1. Init => TypeOK
  <2> SUFFICES ASSUME Init PROVE TypeOK
    OBVIOUS
  <2> USE DEF Init, Daemon
  <2>1. wpc \in [Wrapper -> {"off", "flock", "spawn", "wait", "sleep", "cooldown"}]
    OBVIOUS
  <2>2. nap \subseteq Wrapper /\ locker \in Wrapper \cup {Nobody}
    OBVIOUS
  <2>3. dpc \in [Daemon -> {"off", "boot", "judge", "write", "up", "leave", "remove"}]
    OBVIOUS
  <2>4. pid \in [Daemon -> Pids \cup {0}] /\ old \in [Daemon -> Pids \cup {0}]
    OBVIOUS
  <2>5. rc \in [Daemon -> {0, 1}] /\ term \subseteq Daemon /\ stale \subseteq Daemon
    OBVIOUS
  <2>6. other \in [Pids -> {"none", "stranger", "namesake"}] /\ pidfile \in Pids \cup {0}
    OBVIOUS
  <2>7. marker \in BOOLEAN /\ tick \in BOOLEAN
    OBVIOUS
  <2>8. oldChild \in Pids \cup {0} /\ preCold \in Pids \cup {0} /\ faults \in 0..MaxFaults
    OBVIOUS
  <2>9. QED
    BY <2>1, <2>2, <2>3, <2>4, <2>5, <2>6, <2>7, <2>8
<1>2. TypeOK /\ [Next]_vars => TypeOK'
  <2> SUFFICES ASSUME TypeOK, [Next]_vars PROVE TypeOK'
    OBVIOUS
  <2> USE DEF wrapVars, daemonVars, reloadVars, Daemon, Goto, Fault
  <2>1. ASSUME NEW d \in Daemon, ReadPidfile(d) PROVE TypeOK'
    BY <2>1 DEF ReadPidfile, Step
  <2>2. ASSUME NEW d \in Daemon, Judge(d) PROVE TypeOK'
    BY <2>2 DEF Judge, Step, Exit
  <2>3. ASSUME NEW d \in Daemon, WritePidfile(d) PROVE TypeOK'
    BY <2>3 DEF WritePidfile, Step
  <2>4. ASSUME NEW d \in Daemon, HandleTerm(d) PROVE TypeOK'
    BY <2>4 DEF HandleTerm, Exit
  <2>5. ASSUME NEW d \in Daemon, ReleaseLook(d) PROVE TypeOK'
    BY <2>5 DEF ReleaseLook, Step, Exit
  <2>6. ASSUME NEW d \in Daemon, ReleaseRemove(d) PROVE TypeOK'
    BY <2>6 DEF ReleaseRemove, Exit
  <2>7. ASSUME NEW w \in Wrapper, Flock(w) PROVE TypeOK'
    BY <2>7 DEF Flock
  <2>8. ASSUME NEW w \in Wrapper, Spawn(w) PROVE TypeOK'
    BY <2>8 DEF Spawn, Begin, FreePids
  <2>9. ASSUME NEW w \in Wrapper, Reap(w) PROVE TypeOK'
    <3>1. \/ wpc' = [wpc EXCEPT ![w] = "sleep"] /\ nap' = nap \cup {w}
          \/ wpc' = [wpc EXCEPT ![w] = "cooldown"] /\ nap' = nap \cup {w}
          \/ wpc' = [wpc EXCEPT ![w] = "off"] /\ nap' = nap
      BY <2>9, Zenon DEF Reap
    <3>2. marker' = FALSE
      BY <2>9, Zenon DEF Reap
    <3>3. UNCHANGED <<locker, daemonVars, pidfile, other, reloadVars, stale, tick, faults>>
      BY <2>9, Zenon DEF Reap
    <3>4. QED
      <4>1. wpc' \in [Wrapper -> {"off", "flock", "spawn", "wait", "sleep", "cooldown"}]
        BY <3>1, <3>2, <3>3
      <4>2. nap' \subseteq Wrapper /\ locker' \in Wrapper \cup {Nobody}
        BY <3>1, <3>2, <3>3
      <4>3. dpc' \in [Daemon -> {"off", "boot", "judge", "write", "up", "leave", "remove"}]
        BY <3>1, <3>2, <3>3
      <4>4. pid' \in [Daemon -> Pids \cup {0}] /\ old' \in [Daemon -> Pids \cup {0}]
        BY <3>1, <3>2, <3>3
      <4>5. rc' \in [Daemon -> {0, 1}] /\ term' \subseteq Daemon /\ stale' \subseteq Daemon
        BY <3>1, <3>2, <3>3
      <4>6. QED
        BY <3>1, <3>2, <3>3, <4>1, <4>2, <4>3, <4>4, <4>5
  <2>10. ASSUME NEW w \in Wrapper, NapEnds(w) PROVE TypeOK'
    BY <2>10 DEF NapEnds
  <2>11. ASSUME ReloadLook PROVE TypeOK'
    BY <2>11, HeadIsPid DEF ReloadLook, Live
  <2>12. ASSUME ReloadTouch PROVE TypeOK'
    BY <2>12 DEF ReloadTouch
  <2>13. ASSUME ReloadKill PROVE TypeOK'
    BY <2>13 DEF ReloadKill, Live
  <2>14. ASSUME ReloadVerify PROVE TypeOK'
    BY <2>14, HeadIsPid DEF ReloadVerify, Pass
  <2>15. ASSUME ColdUnmark PROVE TypeOK'
    BY <2>15 DEF ColdUnmark
  <2>16. ASSUME ColdKillWrapper PROVE TypeOK'
    BY <2>16 DEF ColdKillWrapper
  <2>17. ASSUME ColdKillChild PROVE TypeOK'
    BY <2>17 DEF ColdKillChild, Live
  <2>18. ASSUME ColdLaunch PROVE TypeOK'
    BY <2>18 DEF ColdLaunch, Launch
  <2>19. ASSUME ColdVerify PROVE TypeOK'
    BY <2>19 DEF ColdVerify, Pass
  <2>20. ASSUME Tidy PROVE TypeOK'
    BY <2>20 DEF Tidy
  <2>21. ASSUME WatchdogLook PROVE TypeOK'
    <3>1. tick' \in BOOLEAN /\ term' \subseteq Daemon
      BY <2>21 DEF WatchdogLook, Live
    <3>2. UNCHANGED <<wrapVars, dpc, pid, old, rc, pidfile, other, marker, reloadVars, stale,
                      faults>>
      BY <2>21, Zenon DEF WatchdogLook
    <3>3. QED
      BY <3>1, <3>2
  <2>22. ASSUME WatchdogStart PROVE TypeOK'
    <3>1. tick' = FALSE
      BY <2>22, Zenon DEF WatchdogStart
    <3>2. UNCHANGED <<nap, locker, pidfile, other, marker, reloadVars, faults>>
      BY <2>22, Zenon DEF WatchdogStart
    <3>3. CASE Bare = {}
      <4>1. UNCHANGED <<daemonVars, stale>>
        BY <2>22, <3>3, Zenon DEF WatchdogStart
      <4>2. PICK w \in Wrapper : wpc' = [wpc EXCEPT ![w] = "flock"]
        BY <2>22, <3>3, Zenon DEF WatchdogStart, Launch
      <4>3. wpc' \in [Wrapper -> {"off", "flock", "spawn", "wait", "sleep", "cooldown"}]
        BY <4>2 DEF TypeOK
      <4>4. QED
        BY <3>1, <3>2, <4>1, <4>3 DEF TypeOK
    <3>4. CASE Bare # {}
      <4>1. wpc' \in [Wrapper -> {"off", "flock", "spawn", "wait", "sleep", "cooldown"}]
        BY <2>22, <3>1, <3>2, <3>4 DEF WatchdogStart, Begin, FreePids
      <4>2. nap' \subseteq Wrapper /\ locker' \in Wrapper \cup {Nobody}
        BY <2>22, <3>1, <3>2, <3>4 DEF WatchdogStart, Begin, FreePids
      <4>3. dpc' \in [Daemon -> {"off", "boot", "judge", "write", "up", "leave", "remove"}]
        BY <2>22, <3>1, <3>2, <3>4 DEF WatchdogStart, Begin, FreePids
      <4>4. pid' \in [Daemon -> Pids \cup {0}] /\ old' \in [Daemon -> Pids \cup {0}]
        BY <2>22, <3>1, <3>2, <3>4 DEF WatchdogStart, Begin, FreePids
      <4>5. rc' \in [Daemon -> {0, 1}] /\ term' \subseteq Daemon /\ stale' \subseteq Daemon
        BY <2>22, <3>1, <3>2, <3>4 DEF WatchdogStart, Begin, FreePids
      <4>6. QED
        BY <2>22, <3>1, <3>2, <3>4, <4>1, <4>2, <4>3, <4>4, <4>5
    <3>5. QED
      BY <3>3, <3>4
  <2>23. ASSUME NEW d \in Daemon, KillDaemon(d) PROVE TypeOK'
    BY <2>23 DEF KillDaemon, Exit
  <2>24. ASSUME NEW d \in Daemon, DaemonFails(d) PROVE TypeOK'
    BY <2>24 DEF DaemonFails
  <2>25. ASSUME NEW d \in Daemon, Stop(d) PROVE TypeOK'
    BY <2>25 DEF Stop
  <2>26. ASSUME NEW w \in Wrapper, KillWrapper(w) PROVE TypeOK'
    BY <2>26 DEF KillWrapper
  <2>27. ASSUME NEW w \in Wrapper, Spawner(w) PROVE TypeOK'
    BY <2>27 DEF Spawner, Launch
  <2>28. ASSUME NEW k \in Kinds, OtherBegins(k) PROVE TypeOK'
    BY <2>28 DEF OtherBegins
  <2>29. ASSUME NEW p \in Pids, OtherEnds(p) PROVE TypeOK'
    BY <2>29 DEF OtherEnds
  <2>30. CASE UNCHANGED vars
    BY <2>30 DEF vars
  <2>31. QED
    BY <2>1, <2>2, <2>3, <2>4, <2>5, <2>6, <2>7, <2>8, <2>9, <2>10, <2>11, <2>12, <2>13,
       <2>14, <2>15, <2>16, <2>17, <2>18, <2>19, <2>20, <2>21, <2>22, <2>23, <2>24, <2>25,
       <2>26, <2>27, <2>28, <2>29, <2>30
    DEF Next, DaemonStep, WrapperStep, ReloadStep, Watchdog, Environment
<1>3. QED
  BY <1>1, <1>2, PTL DEF Spec

-----------------------------------------------------------------------------
(* The guard.  Whoever is behind the lock, or was started from behind it,  *)
(* has the lock's open file.                                               *)

GuardInv ==
  \A w \in Wrapper :
    wpc[w] \notin {"off", "flock"} \/ Alive(w) \/ w \in nap => locker = w

\* A wrapper that is killed leaves the lock to its daemon or its sleep, so nobody
\* gets it while one of them lives.
LEMMA GuardHolds == Spec => []GuardInv
<1> USE SupervisorAssumption DEF GuardInv, Alive
<1>1. Init => GuardInv
  BY DEF Init, Daemon
<1>2. TypeOK /\ GuardInv /\ [Next]_vars => GuardInv'
  <2> SUFFICES ASSUME TypeOK, GuardInv, [Next]_vars PROVE GuardInv'
    OBVIOUS
  <2> USE DEF TypeOK, wrapVars, daemonVars, reloadVars, Daemon, Goto, Fault
  <2>1. ASSUME NEW d \in Daemon, ReadPidfile(d) PROVE GuardInv'
    BY <2>1 DEF ReadPidfile, Step
  <2>2. ASSUME NEW d \in Daemon, Judge(d) PROVE GuardInv'
    BY <2>2 DEF Judge, Step, Exit
  <2>3. ASSUME NEW d \in Daemon, WritePidfile(d) PROVE GuardInv'
    BY <2>3 DEF WritePidfile, Step
  <2>4. ASSUME NEW d \in Daemon, HandleTerm(d) PROVE GuardInv'
    BY <2>4 DEF HandleTerm, Exit
  <2>5. ASSUME NEW d \in Daemon, ReleaseLook(d) PROVE GuardInv'
    BY <2>5 DEF ReleaseLook, Step, Exit
  <2>6. ASSUME NEW d \in Daemon, ReleaseRemove(d) PROVE GuardInv'
    BY <2>6 DEF ReleaseRemove, Exit
  <2>7. ASSUME NEW w \in Wrapper, Flock(w) PROVE GuardInv'
    BY <2>7 DEF Flock, Locked
  <2>8. ASSUME NEW w \in Wrapper, Spawn(w) PROVE GuardInv'
    BY <2>8 DEF Spawn, Begin
  <2>9. ASSUME NEW w \in Wrapper, Reap(w) PROVE GuardInv'
    BY <2>9 DEF Reap
  <2>10. ASSUME NEW w \in Wrapper, NapEnds(w) PROVE GuardInv'
    BY <2>10 DEF NapEnds
  <2>11. ASSUME ReloadLook PROVE GuardInv'
    BY <2>11 DEF ReloadLook
  <2>12. ASSUME ReloadTouch PROVE GuardInv'
    BY <2>12 DEF ReloadTouch
  <2>13. ASSUME ReloadKill PROVE GuardInv'
    BY <2>13 DEF ReloadKill
  <2>14. ASSUME ReloadVerify PROVE GuardInv'
    BY <2>14 DEF ReloadVerify, Pass
  <2>15. ASSUME ColdUnmark PROVE GuardInv'
    BY <2>15 DEF ColdUnmark
  <2>16. ASSUME ColdKillWrapper PROVE GuardInv'
    BY <2>16 DEF ColdKillWrapper
  <2>17. ASSUME ColdKillChild PROVE GuardInv'
    BY <2>17 DEF ColdKillChild
  <2>18. ASSUME ColdLaunch PROVE GuardInv'
    BY <2>18 DEF ColdLaunch, Launch, Unused
  <2>19. ASSUME ColdVerify PROVE GuardInv'
    BY <2>19 DEF ColdVerify, Pass
  <2>20. ASSUME Tidy PROVE GuardInv'
    BY <2>20 DEF Tidy
  <2>21. ASSUME WatchdogLook PROVE GuardInv'
    BY <2>21 DEF WatchdogLook
  <2>22. ASSUME WatchdogStart PROVE GuardInv'
    BY <2>22 DEF WatchdogStart, Launch, Begin, Unused
  <2>23. ASSUME NEW d \in Daemon, KillDaemon(d) PROVE GuardInv'
    BY <2>23 DEF KillDaemon, Exit
  <2>24. ASSUME NEW d \in Daemon, DaemonFails(d) PROVE GuardInv'
    BY <2>24 DEF DaemonFails
  <2>25. ASSUME NEW d \in Daemon, Stop(d) PROVE GuardInv'
    BY <2>25 DEF Stop
  <2>26. ASSUME NEW w \in Wrapper, KillWrapper(w) PROVE GuardInv'
    BY <2>26 DEF KillWrapper
  <2>27. ASSUME NEW w \in Wrapper, Spawner(w) PROVE GuardInv'
    BY <2>27 DEF Spawner, Launch, Unused
  <2>28. ASSUME NEW k \in Kinds, OtherBegins(k) PROVE GuardInv'
    BY <2>28 DEF OtherBegins
  <2>29. ASSUME NEW p \in Pids, OtherEnds(p) PROVE GuardInv'
    BY <2>29 DEF OtherEnds
  <2>30. CASE UNCHANGED vars
    BY <2>30 DEF vars
  <2>31. QED
    BY <2>1, <2>2, <2>3, <2>4, <2>5, <2>6, <2>7, <2>8, <2>9, <2>10, <2>11, <2>12, <2>13,
       <2>14, <2>15, <2>16, <2>17, <2>18, <2>19, <2>20, <2>21, <2>22, <2>23, <2>24, <2>25,
       <2>26, <2>27, <2>28, <2>29, <2>30
    DEF Next, DaemonStep, WrapperStep, ReloadStep, Watchdog, Environment
<1>3. QED
  BY <1>1, <1>2, TypeCorrect, PTL DEF Spec

\* At most one daemon that a wrapper started is alive, for any number of spawners and
\* bare daemons and whatever is killed.
THEOREM OneWrapped == Spec => [](\A v, w \in Wrapper : Alive(v) /\ Alive(w) => v = w)
<1>1. GuardInv => \A v, w \in Wrapper : Alive(v) /\ Alive(w) => v = w
  BY DEF GuardInv
<1>2. QED
  BY <1>1, GuardHolds, PTL

\* Where the watchdog starts no bare daemon, at most one process of the daemon is
\* alive.
THEOREM SoleDaemon == ASSUME Bare = {} PROVE Spec => []OneDaemon
<1>1. (\A v, w \in Wrapper : Alive(v) /\ Alive(w) => v = w) => OneDaemon
  BY DEF OneDaemon, Daemon
<1>2. QED
  BY <1>1, OneWrapped, PTL

-----------------------------------------------------------------------------
(* The reload.  The one daemon from before is the one whose number the      *)
(* script knows: OLD_CHILD at first, PRE_COLD after the fallback began.     *)

KnownInv ==
  /\ \A d \in Daemon : Alive(d) => pid[d] \in Pids
  /\ rpc \in {"touch", "kill", "verify"} =>
       \A d \in stale : Alive(d) => pid[d] = oldChild
  /\ rpc \in {"cold", "coldkill", "coldterm", "launch", "verify2"} =>
       \A d \in stale : Alive(d) => pid[d] = preCold

\* Of one process, pgrep reports the number.
LEMMA HeadOfOne ==
  ASSUME OneDaemon, NEW d \in Daemon, Alive(d), NEW p \in PgrepHead PROVE p = pid[d]
BY DEF OneDaemon, PgrepHead, LivePids, Live

\* The strengthening holds while there is one daemon.
LEMMA KnownInvHolds == ASSUME Bare = {} PROVE Spec => []KnownInv
<1> USE SupervisorAssumption DEF KnownInv, Alive
<1>1. Init => KnownInv
  BY DEF Init
<1>2. TypeOK /\ OneDaemon /\ KnownInv /\ [Next]_vars => KnownInv'
  <2> SUFFICES ASSUME TypeOK, OneDaemon, KnownInv, [Next]_vars PROVE KnownInv'
    OBVIOUS
  <2> USE DEF TypeOK, wrapVars, daemonVars, reloadVars, Daemon, Goto, Fault
  <2>1. ASSUME NEW d \in Daemon, ReadPidfile(d) PROVE KnownInv'
    BY <2>1 DEF ReadPidfile, Step
  <2>2. ASSUME NEW d \in Daemon, Judge(d) PROVE KnownInv'
    BY <2>2 DEF Judge, Step, Exit
  <2>3. ASSUME NEW d \in Daemon, WritePidfile(d) PROVE KnownInv'
    BY <2>3 DEF WritePidfile, Step
  <2>4. ASSUME NEW d \in Daemon, HandleTerm(d) PROVE KnownInv'
    BY <2>4 DEF HandleTerm, Exit
  <2>5. ASSUME NEW d \in Daemon, ReleaseLook(d) PROVE KnownInv'
    BY <2>5 DEF ReleaseLook, Step, Exit
  <2>6. ASSUME NEW d \in Daemon, ReleaseRemove(d) PROVE KnownInv'
    BY <2>6 DEF ReleaseRemove, Exit
  <2>7. ASSUME NEW w \in Wrapper, Flock(w) PROVE KnownInv'
    BY <2>7 DEF Flock
  <2>8. ASSUME NEW w \in Wrapper, Spawn(w) PROVE KnownInv'
    BY <2>8 DEF Spawn, Begin, FreePids
  <2>9. ASSUME NEW w \in Wrapper, Reap(w) PROVE KnownInv'
    BY <2>9 DEF Reap
  <2>10. ASSUME NEW w \in Wrapper, NapEnds(w) PROVE KnownInv'
    BY <2>10 DEF NapEnds
  <2>11. ASSUME ReloadLook PROVE KnownInv'
    BY <2>11, HeadOfOne DEF ReloadLook, Live
  <2>12. ASSUME ReloadTouch PROVE KnownInv'
    BY <2>12 DEF ReloadTouch
  <2>13. ASSUME ReloadKill PROVE KnownInv'
    BY <2>13 DEF ReloadKill
  <2>14. ASSUME ReloadVerify PROVE KnownInv'
    BY <2>14, HeadOfOne DEF ReloadVerify, Pass
  <2>15. ASSUME ColdUnmark PROVE KnownInv'
    BY <2>15 DEF ColdUnmark
  <2>16. ASSUME ColdKillWrapper PROVE KnownInv'
    BY <2>16 DEF ColdKillWrapper
  <2>17. ASSUME ColdKillChild PROVE KnownInv'
    BY <2>17 DEF ColdKillChild
  <2>18. ASSUME ColdLaunch PROVE KnownInv'
    BY <2>18 DEF ColdLaunch, Launch
  <2>19. ASSUME ColdVerify PROVE KnownInv'
    BY <2>19 DEF ColdVerify, Pass
  <2>20. ASSUME Tidy PROVE KnownInv'
    BY <2>20 DEF Tidy
  <2>21. ASSUME WatchdogLook PROVE KnownInv'
    BY <2>21 DEF WatchdogLook
  <2>22. ASSUME WatchdogStart PROVE KnownInv'
    BY <2>22 DEF WatchdogStart, Launch, Begin
  <2>23. ASSUME NEW d \in Daemon, KillDaemon(d) PROVE KnownInv'
    BY <2>23 DEF KillDaemon, Exit
  <2>24. ASSUME NEW d \in Daemon, DaemonFails(d) PROVE KnownInv'
    BY <2>24 DEF DaemonFails
  <2>25. ASSUME NEW d \in Daemon, Stop(d) PROVE KnownInv'
    BY <2>25 DEF Stop
  <2>26. ASSUME NEW w \in Wrapper, KillWrapper(w) PROVE KnownInv'
    BY <2>26 DEF KillWrapper
  <2>27. ASSUME NEW w \in Wrapper, Spawner(w) PROVE KnownInv'
    BY <2>27 DEF Spawner, Launch
  <2>28. ASSUME NEW k \in Kinds, OtherBegins(k) PROVE KnownInv'
    BY <2>28 DEF OtherBegins
  <2>29. ASSUME NEW p \in Pids, OtherEnds(p) PROVE KnownInv'
    BY <2>29 DEF OtherEnds
  <2>30. CASE UNCHANGED vars
    BY <2>30 DEF vars
  <2>31. QED
    BY <2>1, <2>2, <2>3, <2>4, <2>5, <2>6, <2>7, <2>8, <2>9, <2>10, <2>11, <2>12, <2>13,
       <2>14, <2>15, <2>16, <2>17, <2>18, <2>19, <2>20, <2>21, <2>22, <2>23, <2>24, <2>25,
       <2>26, <2>27, <2>28, <2>29, <2>30
    DEF Next, DaemonStep, WrapperStep, ReloadStep, Watchdog, Environment
<1>3. QED
  BY <1>1, <1>2, TypeCorrect, SoleDaemon, PTL DEF Spec

\* When reload_daemon.sh says OK, what runs began after the script did.
THEOREM OkIsFresh == ASSUME Bare = {} PROVE Spec => OkMeansFresh
<1> DEFINE Ok == rpc # "tidy" /\ rpc' = "tidy" /\ verdict' = "ok" =>
                   \A d \in Live : pid[d] \in PgrepHead => d \notin stale
<1>1. TypeOK /\ OneDaemon /\ KnownInv /\ [Next]_vars => [Ok]_vars
  <2> SUFFICES ASSUME TypeOK, OneDaemon, KnownInv, [Next]_vars PROVE Ok
    OBVIOUS
  <2> USE SupervisorAssumption DEF TypeOK, KnownInv, wrapVars, daemonVars, reloadVars, Daemon,
                                   Goto, Fault
  <2>1. ASSUME NEW d \in Daemon, ReadPidfile(d) PROVE Ok
    BY <2>1 DEF ReadPidfile, Step
  <2>2. ASSUME NEW d \in Daemon, Judge(d) PROVE Ok
    BY <2>2 DEF Judge, Step, Exit
  <2>3. ASSUME NEW d \in Daemon, WritePidfile(d) PROVE Ok
    BY <2>3 DEF WritePidfile, Step
  <2>4. ASSUME NEW d \in Daemon, HandleTerm(d) PROVE Ok
    BY <2>4 DEF HandleTerm, Exit
  <2>5. ASSUME NEW d \in Daemon, ReleaseLook(d) PROVE Ok
    BY <2>5 DEF ReleaseLook, Step, Exit
  <2>6. ASSUME NEW d \in Daemon, ReleaseRemove(d) PROVE Ok
    BY <2>6 DEF ReleaseRemove, Exit
  <2>7. ASSUME NEW w \in Wrapper, Flock(w) PROVE Ok
    BY <2>7 DEF Flock
  <2>8. ASSUME NEW w \in Wrapper, Spawn(w) PROVE Ok
    BY <2>8 DEF Spawn, Begin
  <2>9. ASSUME NEW w \in Wrapper, Reap(w) PROVE Ok
    BY <2>9 DEF Reap
  <2>10. ASSUME NEW w \in Wrapper, NapEnds(w) PROVE Ok
    BY <2>10 DEF NapEnds
  <2>11. ASSUME ReloadLook PROVE Ok
    BY <2>11 DEF ReloadLook
  <2>12. ASSUME ReloadTouch PROVE Ok
    BY <2>12 DEF ReloadTouch
  <2>13. ASSUME ReloadKill PROVE Ok
    BY <2>13 DEF ReloadKill
  <2>14. ASSUME ReloadVerify PROVE Ok
    BY <2>14, HeadOfOne DEF ReloadVerify, Pass, Live
  <2>15. ASSUME ColdUnmark PROVE Ok
    BY <2>15 DEF ColdUnmark
  <2>16. ASSUME ColdKillWrapper PROVE Ok
    BY <2>16 DEF ColdKillWrapper
  <2>17. ASSUME ColdKillChild PROVE Ok
    BY <2>17 DEF ColdKillChild
  <2>18. ASSUME ColdLaunch PROVE Ok
    BY <2>18 DEF ColdLaunch, Launch
  <2>19. ASSUME ColdVerify PROVE Ok
    BY <2>19, HeadOfOne DEF ColdVerify, Pass, Live
  <2>20. ASSUME Tidy PROVE Ok
    BY <2>20 DEF Tidy
  <2>21. ASSUME WatchdogLook PROVE Ok
    BY <2>21 DEF WatchdogLook
  <2>22. ASSUME WatchdogStart PROVE Ok
    BY <2>22 DEF WatchdogStart, Launch, Begin
  <2>23. ASSUME NEW d \in Daemon, KillDaemon(d) PROVE Ok
    BY <2>23 DEF KillDaemon, Exit
  <2>24. ASSUME NEW d \in Daemon, DaemonFails(d) PROVE Ok
    BY <2>24 DEF DaemonFails
  <2>25. ASSUME NEW d \in Daemon, Stop(d) PROVE Ok
    BY <2>25 DEF Stop
  <2>26. ASSUME NEW w \in Wrapper, KillWrapper(w) PROVE Ok
    BY <2>26 DEF KillWrapper
  <2>27. ASSUME NEW w \in Wrapper, Spawner(w) PROVE Ok
    BY <2>27 DEF Spawner, Launch
  <2>28. ASSUME NEW k \in Kinds, OtherBegins(k) PROVE Ok
    BY <2>28 DEF OtherBegins
  <2>29. ASSUME NEW p \in Pids, OtherEnds(p) PROVE Ok
    BY <2>29 DEF OtherEnds
  <2>30. CASE UNCHANGED vars
    BY <2>30 DEF vars
  <2>31. QED
    BY <2>1, <2>2, <2>3, <2>4, <2>5, <2>6, <2>7, <2>8, <2>9, <2>10, <2>11, <2>12, <2>13,
       <2>14, <2>15, <2>16, <2>17, <2>18, <2>19, <2>20, <2>21, <2>22, <2>23, <2>24, <2>25,
       <2>26, <2>27, <2>28, <2>29, <2>30
    DEF Next, DaemonStep, WrapperStep, ReloadStep, Watchdog, Environment
<1>2. QED
  BY <1>1, TypeCorrect, SoleDaemon, KnownInvHolds, PTL DEF Spec, OkMeansFresh
-----------------------------------------------------------------------------
(* The pid file.  Where the daemon is alone, what is in the file from the   *)
(* write on is its own number, and what it read at the start was an older one. *)

FileInv ==
  /\ \A d \in Daemon : dpc[d] \in {"up", "leave", "remove"} => pidfile = pid[d]
  /\ \A d \in Daemon : dpc[d] = "judge" => old[d] # pid[d]
  /\ \A p \in Pids : other[p] \in Kinds \cup {"none"}

\* The strengthening holds while there is one daemon.
LEMMA FileInvHolds == ASSUME Bare = {} PROVE Spec => []FileInv
<1> USE SupervisorAssumption DEF FileInv, Alive, OneDaemon
<1>1. Init => FileInv
  BY DEF Init
<1>2. TypeOK /\ OneDaemon /\ FileInv /\ [Next]_vars => FileInv'
  <2> SUFFICES ASSUME TypeOK, OneDaemon, FileInv, [Next]_vars PROVE FileInv'
    OBVIOUS
  <2> USE DEF TypeOK, wrapVars, daemonVars, reloadVars, Daemon, Goto, Fault
  <2>1. ASSUME NEW d \in Daemon, ReadPidfile(d) PROVE FileInv'
    BY <2>1 DEF ReadPidfile, Step
  <2>2. ASSUME NEW d \in Daemon, Judge(d) PROVE FileInv'
    BY <2>2 DEF Judge, Step, Exit
  <2>3. ASSUME NEW d \in Daemon, WritePidfile(d) PROVE FileInv'
    BY <2>3 DEF WritePidfile, Step
  <2>4. ASSUME NEW d \in Daemon, HandleTerm(d) PROVE FileInv'
    BY <2>4 DEF HandleTerm, Exit
  <2>5. ASSUME NEW d \in Daemon, ReleaseLook(d) PROVE FileInv'
    BY <2>5 DEF ReleaseLook, Step, Exit
  <2>6. ASSUME NEW d \in Daemon, ReleaseRemove(d) PROVE FileInv'
    BY <2>6 DEF ReleaseRemove, Exit
  <2>7. ASSUME NEW w \in Wrapper, Flock(w) PROVE FileInv'
    BY <2>7 DEF Flock
  <2>8. ASSUME NEW w \in Wrapper, Spawn(w) PROVE FileInv'
    BY <2>8 DEF Spawn, Begin, FreePids
  <2>9. ASSUME NEW w \in Wrapper, Reap(w) PROVE FileInv'
    BY <2>9 DEF Reap
  <2>10. ASSUME NEW w \in Wrapper, NapEnds(w) PROVE FileInv'
    BY <2>10 DEF NapEnds
  <2>11. ASSUME ReloadLook PROVE FileInv'
    BY <2>11 DEF ReloadLook
  <2>12. ASSUME ReloadTouch PROVE FileInv'
    BY <2>12 DEF ReloadTouch
  <2>13. ASSUME ReloadKill PROVE FileInv'
    BY <2>13 DEF ReloadKill
  <2>14. ASSUME ReloadVerify PROVE FileInv'
    BY <2>14 DEF ReloadVerify, Pass
  <2>15. ASSUME ColdUnmark PROVE FileInv'
    BY <2>15 DEF ColdUnmark
  <2>16. ASSUME ColdKillWrapper PROVE FileInv'
    BY <2>16 DEF ColdKillWrapper
  <2>17. ASSUME ColdKillChild PROVE FileInv'
    BY <2>17 DEF ColdKillChild
  <2>18. ASSUME ColdLaunch PROVE FileInv'
    BY <2>18 DEF ColdLaunch, Launch
  <2>19. ASSUME ColdVerify PROVE FileInv'
    BY <2>19 DEF ColdVerify, Pass
  <2>20. ASSUME Tidy PROVE FileInv'
    BY <2>20 DEF Tidy
  <2>21. ASSUME WatchdogLook PROVE FileInv'
    BY <2>21 DEF WatchdogLook
  <2>22. ASSUME WatchdogStart PROVE FileInv'
    BY <2>22 DEF WatchdogStart, Launch, Begin
  <2>23. ASSUME NEW d \in Daemon, KillDaemon(d) PROVE FileInv'
    BY <2>23 DEF KillDaemon, Exit
  <2>24. ASSUME NEW d \in Daemon, DaemonFails(d) PROVE FileInv'
    BY <2>24 DEF DaemonFails
  <2>25. ASSUME NEW d \in Daemon, Stop(d) PROVE FileInv'
    BY <2>25 DEF Stop
  <2>26. ASSUME NEW w \in Wrapper, KillWrapper(w) PROVE FileInv'
    BY <2>26 DEF KillWrapper
  <2>27. ASSUME NEW w \in Wrapper, Spawner(w) PROVE FileInv'
    BY <2>27 DEF Spawner, Launch
  <2>28. ASSUME NEW k \in Kinds, OtherBegins(k) PROVE FileInv'
    BY <2>28 DEF OtherBegins
  <2>29. ASSUME NEW p \in Pids, OtherEnds(p) PROVE FileInv'
    BY <2>29 DEF OtherEnds
  <2>30. CASE UNCHANGED vars
    BY <2>30 DEF vars
  <2>31. QED
    BY <2>1, <2>2, <2>3, <2>4, <2>5, <2>6, <2>7, <2>8, <2>9, <2>10, <2>11, <2>12, <2>13,
       <2>14, <2>15, <2>16, <2>17, <2>18, <2>19, <2>20, <2>21, <2>22, <2>23, <2>24, <2>25,
       <2>26, <2>27, <2>28, <2>29, <2>30
    DEF Next, DaemonStep, WrapperStep, ReloadStep, Watchdog, Environment
<1>3. QED
  BY <1>1, <1>2, TypeCorrect, SoleDaemon, PTL DEF Spec

\* singleton_lock: the file of a daemon that has its lock names it until it ends, and
\* what release removes, a step after it looked, is its own file.
THEOREM PidfileNamesTheDaemon ==
  ASSUME Bare = {}
  PROVE  Spec => [](\A d \in Daemon : dpc[d] \in {"up", "leave", "remove"} => pidfile = pid[d])
<1>1. FileInv => \A d \in Daemon : dpc[d] \in {"up", "leave", "remove"} => pidfile = pid[d]
  BY DEF FileInv
<1>2. QED
  BY <1>1, FileInvHolds, PTL

\* singleton_lock: a pid file that a killed daemon left never keeps its successor from
\* starting, although another program may have the number: the cmdline tells them
\* apart, unless the other program names the same script.
THEOREM StaleFileBarsNobody ==
  ASSUME Bare = {}, "namesake" \notin Kinds
  PROVE  Spec => [](\A d \in Daemon : dpc[d] = "judge" => ~OwnerMatches(old[d]))
<1>1. OneDaemon /\ FileInv => \A d \in Daemon : dpc[d] = "judge" => ~OwnerMatches(old[d])
  BY DEF FileInv, OneDaemon, OwnerMatches, LivePids, Live, Alive
<1>2. QED
  BY <1>1, FileInvHolds, SoleDaemon, PTL
=============================================================================
