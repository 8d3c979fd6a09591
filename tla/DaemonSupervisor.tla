-------------------------- MODULE DaemonSupervisor --------------------------
(***************************************************************************)
(* How one ZOMesh daemon is kept running: tools/daemon_wrapper.sh respawns *)
(* it behind a flock, singleton_lock.py keeps its pid file, reload_daemon.sh *)
(* restarts it on new code and watchdog.sh starts it when it is gone.      *)
(* Pids are numbers the kernel gives out again, also to other programs.    *)
(* The flock belongs to an open file that the wrapper's children inherit:  *)
(* it is held until the wrapper, its daemon and its `sleep` are all gone.  *)
(***************************************************************************)
EXTENDS Integers, FiniteSets

CONSTANTS
  Wrapper,     \* wrapper processes there may be
  Bare,        \* daemons the watchdog may start without one
  Nobody,      \* opener of no lock
  Pids,        \* process numbers
  Kinds,       \* other programs that may get a number: stranger, namesake
  Patient,     \* reload_daemon.sh's waits are longer than everything but a cool-down
  TermCodes,   \* how a SIGTERM may end a daemon: 0 with a handler of its own, as the
               \* builder's; 1, not 0, where singleton_lock raises the signal again
  Reloads,     \* somebody may run reload_daemon.sh
  FaultKinds,  \* what may go wrong: kill, fail, stop, orphan
  MaxFaults    \* bound on that

ASSUME SupervisorAssumption ==
  /\ Wrapper \cap Bare = {} /\ Nobody \notin Wrapper \cup Bare
  /\ Pids \subseteq Nat \ {0}
  /\ Kinds \subseteq {"stranger", "namesake"}
  /\ TermCodes \subseteq {0, 1}
  /\ FaultKinds \subseteq {"kill", "fail", "stop", "orphan"}
  /\ Reloads \in BOOLEAN /\ Patient \in BOOLEAN /\ MaxFaults \in Nat

VARIABLES
  wpc,       \* wrapper -> control state
  nap,       \* wrappers whose `sleep` process is alive
  locker,    \* the wrapper that opened the lock file last locked
  dpc,       \* daemon -> control state; a wrapper's daemon has its wrapper's name
  pid, old,  \* daemon -> its number, the number it read from the pid file
  rc,        \* daemon -> exit code of the last one of that name; 1: not 0
  term,      \* daemons with a SIGTERM not yet handled
  pidfile,   \* the number in the pid file; 0: no file
  other,     \* number -> what other program has it
  marker,    \* the .reload marker is there
  rpc, oldChild, preCold, verdict,   \* reload_daemon.sh
  stale,     \* daemons that run since before the reload
  tick,      \* watchdog: about to start the daemon
  faults

Daemon == Wrapper \cup Bare

wrapVars   == <<wpc, nap, locker>>
daemonVars == <<dpc, pid, old, rc, term>>
reloadVars == <<rpc, oldChild, preCold, verdict>>
vars == <<wrapVars, daemonVars, pidfile, other, marker, reloadVars, stale, tick, faults>>

Init ==
  /\ wpc = [w \in Wrapper |-> "off"] /\ nap = {} /\ locker = Nobody
  /\ dpc = [d \in Daemon |-> "off"]
  /\ pid = [d \in Daemon |-> 0] /\ old = [d \in Daemon |-> 0]
  /\ rc = [d \in Daemon |-> 0] /\ term = {}
  /\ pidfile = 0 /\ other = [p \in Pids |-> "none"]
  /\ marker = FALSE
  /\ rpc = "idle" /\ oldChild = 0 /\ preCold = 0 /\ verdict = "none"
  /\ stale = {} /\ tick = FALSE /\ faults = 0

Alive(d) == dpc[d] # "off"
Live     == {d \in Daemon : Alive(d)}
LivePids == {pid[d] : d \in Live}
Wrappers == {w \in Wrapper : wpc[w] # "off"}
FreePids == {p \in Pids \ LivePids : other[p] = "none"}

\* pgrep -f <child pattern> | head -1
PgrepHead ==
  IF Live = {} THEN {0} ELSE {p \in LivePids : \A q \in LivePids : p <= q}

-----------------------------------------------------------------------------
(* The daemon and its pid file.                                            *)

Exit(d, code) ==
  /\ dpc' = [dpc EXCEPT ![d] = "off"]
  /\ pid' = [pid EXCEPT ![d] = 0] /\ old' = [old EXCEPT ![d] = 0]
  /\ rc' = [rc EXCEPT ![d] = code]
  /\ term' = term \ {d}

Step(d, l) ==
  /\ dpc' = [dpc EXCEPT ![d] = l]
  /\ UNCHANGED <<pid, rc, term>>

\* A process of this name begins, with a number nobody has, on the code of today.
Begin(d) ==
  /\ \E p \in FreePids : pid' = [pid EXCEPT ![d] = p]
  /\ dpc' = [dpc EXCEPT ![d] = "boot"]
  /\ rc' = [rc EXCEPT ![d] = 0]
  /\ stale' = stale \ {d}
  /\ UNCHANGED <<old, term>>

ReadPidfile(d) ==
  /\ dpc[d] = "boot"
  /\ IF pidfile \in {0, pid[d]}
     THEN Step(d, "write") /\ UNCHANGED old
     ELSE Step(d, "judge") /\ old' = [old EXCEPT ![d] = pidfile]
  /\ UNCHANGED <<wrapVars, pidfile, other, marker, reloadVars, stale, tick, faults>>

\* Mutant: the legacy question, whether some process has that number.
AnyoneHas(p) == p \in LivePids \/ (p \in Pids /\ other[p] # "none")

\* The process of that number has this script among its arguments.
OwnerMatches(p) == p \in LivePids \/ (p \in Pids /\ other[p] = "namesake")

\* An owner: "Already running", exit 1.  Otherwise the lock is stale.
Judge(d) ==
  /\ dpc[d] = "judge"
  /\ IF OwnerMatches(old[d])
     THEN Exit(d, 1)
     ELSE Step(d, "write") /\ old' = [old EXCEPT ![d] = 0]
  /\ UNCHANGED <<wrapVars, pidfile, other, marker, reloadVars, stale, tick, faults>>

WritePidfile(d) ==
  /\ dpc[d] = "write"
  /\ pidfile' = pid[d]
  /\ Step(d, "up")
  /\ UNCHANGED <<wrapVars, old, other, marker, reloadVars, stale, tick, faults>>

\* Mutant: the raw status of a process that a signal ended.
TermRaw(d) ==
  /\ d \in term
  /\ \/ /\ dpc[d] = "up"
        /\ \E c \in TermCodes : rc' = [rc EXCEPT ![d] = c]
        /\ dpc' = [dpc EXCEPT ![d] = "leave"] /\ term' = term \ {d}
        /\ UNCHANGED <<pid, old>>
     \/ dpc[d] \in {"boot", "judge", "write"} /\ Exit(d, 143)
  /\ UNCHANGED <<wrapVars, pidfile, other, marker, reloadVars, stale, tick, faults>>

\* A daemon that has its lock traps SIGTERM, releases it and exits 0 or dies of the
\* signal all the same; before, it just dies.
HandleTerm(d) ==
  /\ d \in term
  /\ \/ /\ dpc[d] = "up"
        /\ \E c \in TermCodes : rc' = [rc EXCEPT ![d] = c]
        /\ dpc' = [dpc EXCEPT ![d] = "leave"] /\ term' = term \ {d}
        /\ UNCHANGED <<pid, old>>
     \/ dpc[d] \in {"boot", "judge", "write"} /\ Exit(d, 1)
  /\ UNCHANGED <<wrapVars, pidfile, other, marker, reloadVars, stale, tick, faults>>

\* release, at exit: look whose number it is, then remove the file.
ReleaseLook(d) ==
  /\ dpc[d] = "leave"
  /\ IF pidfile = pid[d] THEN Step(d, "remove") /\ UNCHANGED old ELSE Exit(d, rc[d])
  /\ UNCHANGED <<wrapVars, pidfile, other, marker, reloadVars, stale, tick, faults>>

ReleaseRemove(d) ==
  /\ dpc[d] = "remove"
  /\ pidfile' = 0
  /\ Exit(d, rc[d])
  /\ UNCHANGED <<wrapVars, other, marker, reloadVars, stale, tick, faults>>

-----------------------------------------------------------------------------
(* daemon_wrapper.sh.                                                      *)

\* A name is used again once the wrapper, its daemon and its sleep are gone.
Unused(w) == wpc[w] = "off" /\ ~Alive(w) /\ w \notin nap

Launch(w) == Unused(w) /\ wpc' = [wpc EXCEPT ![w] = "flock"]

Locked ==
  locker # Nobody /\ (wpc[locker] \notin {"off", "flock"} \/ Alive(locker) \/ locker \in nap)

\* Mutant: the escape hatch, ZO_WRAPPER_ALLOW_DUPLICATE.
FlockIgnored(w) ==
  /\ wpc[w] = "flock"
  /\ locker' = w /\ wpc' = [wpc EXCEPT ![w] = "spawn"]
  /\ UNCHANGED <<nap, daemonVars, pidfile, other, marker, reloadVars, stale, tick, faults>>

\* flock -n: a wrapper that finds the lock held exits 0.
Flock(w) ==
  /\ wpc[w] = "flock"
  /\ IF Locked
     THEN wpc' = [wpc EXCEPT ![w] = "off"] /\ UNCHANGED locker
     ELSE locker' = w /\ wpc' = [wpc EXCEPT ![w] = "spawn"]
  /\ UNCHANGED <<nap, daemonVars, pidfile, other, marker, reloadVars, stale, tick, faults>>

Spawn(w) ==
  /\ wpc[w] = "spawn"
  /\ Begin(w)
  /\ wpc' = [wpc EXCEPT ![w] = "wait"]
  /\ UNCHANGED <<nap, locker, pidfile, other, marker, reloadVars, tick, faults>>

\* The child is gone: the marker makes it a reload, exit code 0 a stop, anything else a
\* crash, with a back-off of seconds or, after five in a minute, a cool-down.
Reap(w) ==
  /\ wpc[w] = "wait" /\ ~Alive(w)
  /\ marker' = FALSE
  /\ \/ /\ marker \/ rc[w] # 0
        /\ wpc' = [wpc EXCEPT ![w] = "sleep"] /\ nap' = nap \cup {w}
     \/ /\ ~marker /\ rc[w] # 0
        /\ wpc' = [wpc EXCEPT ![w] = "cooldown"] /\ nap' = nap \cup {w}
     \/ /\ ~marker /\ rc[w] = 0
        /\ wpc' = [wpc EXCEPT ![w] = "off"] /\ UNCHANGED nap
  /\ UNCHANGED <<locker, daemonVars, pidfile, other, reloadVars, stale, tick, faults>>

\* The sleep is over, whether or not its wrapper still waits for it.
NapEnds(w) ==
  /\ w \in nap
  /\ nap' = nap \ {w}
  /\ wpc' = IF wpc[w] \in {"sleep", "cooldown"} THEN [wpc EXCEPT ![w] = "spawn"] ELSE wpc
  /\ UNCHANGED <<locker, daemonVars, pidfile, other, marker, reloadVars, stale, tick, faults>>

-----------------------------------------------------------------------------
(* reload_daemon.sh <name>, once.                                          *)

Goto(l) == rpc' = l

\* OLD_CHILD and WRAPPER; what runs now is on the old code.
ReloadLook ==
  /\ rpc = "idle" /\ Reloads
  /\ oldChild' \in PgrepHead
  /\ stale' = Live
  /\ Goto(IF Wrappers = {} THEN "verify" ELSE "touch")
  /\ UNCHANGED <<wrapVars, daemonVars, pidfile, other, marker, preCold, verdict, tick, faults>>

ReloadTouch ==
  /\ rpc = "touch"
  /\ marker' = TRUE
  /\ Goto("kill")
  /\ UNCHANGED <<wrapVars, daemonVars, pidfile, other, oldChild, preCold, verdict, stale, tick,
                 faults>>

ReloadKill ==
  /\ rpc = "kill"
  /\ term' = term \cup Live
  /\ Goto("verify")
  /\ UNCHANGED <<wrapVars, dpc, pid, old, rc, pidfile, other, marker, oldChild, preCold, verdict,
                 stale, tick, faults>>

Pass == verdict' = "ok" /\ Goto("tidy")

\* A second is enough to die of a SIGTERM and to be reaped; of all of the script's time
\* only a cool-down lasts longer.
Waited ==
  Patient => /\ term = {} /\ \A d \in Live : dpc[d] \notin {"leave", "remove"}
             /\ \A w \in Wrappers : wpc[w] = "wait" => Alive(w)

TimedOut ==
  Patient => /\ \A d \in Live : dpc[d] = "up"
             /\ \A w \in Wrappers : wpc[w] \in {"wait", "cooldown"}

\* Post-verify: a child with another pid, or the time is over.
ReloadVerify ==
  /\ rpc = "verify" /\ Waited
  /\ \/ \E p \in PgrepHead : p \notin {0, oldChild} /\ Pass /\ UNCHANGED preCold
     \/ /\ TimedOut
        /\ preCold' \in PgrepHead
        /\ Goto("cold") /\ UNCHANGED verdict
  /\ UNCHANGED <<wrapVars, daemonVars, pidfile, other, marker, oldChild, stale, tick, faults>>

\* The fallback: marker, wrappers and daemons are removed, one after the other.
ColdUnmark ==
  /\ rpc = "cold"
  /\ marker' = FALSE
  /\ Goto("coldkill")
  /\ UNCHANGED <<wrapVars, daemonVars, pidfile, other, oldChild, preCold, verdict, stale, tick,
                 faults>>

\* pkill of the wrappers leaves their daemons and their sleeps alive.
ColdKillWrapper ==
  /\ rpc = "coldkill"
  /\ wpc' = [w \in Wrapper |-> "off"]
  /\ Goto("coldterm")
  /\ UNCHANGED <<nap, locker, daemonVars, pidfile, other, marker, oldChild, preCold, verdict, stale,
                 tick, faults>>

ColdKillChild ==
  /\ rpc = "coldterm"
  /\ term' = term \cup Live
  /\ Goto("launch")
  /\ UNCHANGED <<wrapVars, dpc, pid, old, rc, pidfile, other, marker, oldChild, preCold, verdict,
                 stale, tick, faults>>

ColdLaunch ==
  /\ rpc = "launch" /\ Waited
  /\ \E w \in Wrapper : Launch(w)
  /\ Goto("verify2")
  /\ UNCHANGED <<nap, locker, daemonVars, pidfile, other, marker, oldChild, preCold, verdict, stale,
                 tick, faults>>

\* Mutant: the fallback before FU-558, which took any pid.
ColdVerifyAny ==
  /\ rpc = "verify2"
  /\ \/ Live # {} /\ Pass
     \/ TimedOut /\ verdict' = "fail" /\ Goto("tidy")
  /\ UNCHANGED <<wrapVars, daemonVars, pidfile, other, marker, oldChild, preCold, stale, tick,
                 faults>>

ColdVerify ==
  /\ rpc = "verify2" /\ Waited
  /\ \/ \E p \in PgrepHead : p \notin {0, preCold} /\ Pass
     \/ TimedOut /\ verdict' = "fail" /\ Goto("tidy")
  /\ UNCHANGED <<wrapVars, daemonVars, pidfile, other, marker, oldChild, preCold, stale, tick,
                 faults>>

Tidy ==
  /\ rpc = "tidy"
  /\ marker' = FALSE
  /\ Goto("done")
  /\ UNCHANGED <<wrapVars, daemonVars, pidfile, other, oldChild, preCold, verdict, stale, tick,
                 faults>>

-----------------------------------------------------------------------------
(* watchdog.sh: _daemon where it starts bare daemons, _daemon_tp elsewhere. *)

\* Mutant: the watchdog defers to a live wrapper altogether.
LookDeferring ==
  /\ ~tick /\ Wrappers = {}
  /\ \/ Live = {} /\ UNCHANGED term
     \/ Cardinality(Live) > 1 /\ term' = term \cup Live
  /\ tick' = TRUE
  /\ UNCHANGED <<wrapVars, dpc, pid, old, rc, pidfile, other, marker, reloadVars, stale, faults>>

\* Down: start it.  Duplicates: kill them and start one, or, where a wrapper is alive,
\* kill those that are not its child.
WatchdogLook ==
  /\ ~tick
  /\ \/ /\ Bare # {} /\ Wrappers # {} /\ Cardinality(Live) > 1
        /\ \E w \in Wrappers : term' = term \cup (Live \ {w})
        /\ UNCHANGED tick
     \/ /\ Bare # {} => Wrappers = {}
        /\ \/ Live = {} /\ UNCHANGED term
           \/ Cardinality(Live) > 1 /\ term' = term \cup Live
        /\ tick' = TRUE
  /\ UNCHANGED <<wrapVars, dpc, pid, old, rc, pidfile, other, marker, reloadVars, stale, faults>>

WatchdogStart ==
  /\ tick
  /\ tick' = FALSE
  /\ IF Bare = {}
     THEN (\E w \in Wrapper : Launch(w)) /\ UNCHANGED <<daemonVars, stale>>
     ELSE (\E b \in Bare : ~Alive(b) /\ Begin(b)) /\ UNCHANGED wpc
  /\ UNCHANGED <<nap, locker, pidfile, other, marker, reloadVars, faults>>

-----------------------------------------------------------------------------
(* The environment.                                                        *)

Fault(k) == k \in FaultKinds /\ faults < MaxFaults /\ faults' = faults + 1

\* kill -9, or the OOM killer: nothing is released.
KillDaemon(d) ==
  /\ Fault("kill") /\ Alive(d)
  /\ Exit(d, 1)
  /\ UNCHANGED <<wrapVars, pidfile, other, marker, reloadVars, stale, tick>>

\* An exception ends the daemon: exit 1, by way of release.
DaemonFails(d) ==
  /\ Fault("fail") /\ dpc[d] = "up"
  /\ dpc' = [dpc EXCEPT ![d] = "leave"] /\ rc' = [rc EXCEPT ![d] = 1]
  /\ UNCHANGED <<wrapVars, pid, old, term, pidfile, other, marker, reloadVars, stale, tick>>

\* An operator stops the daemon.
Stop(d) ==
  /\ Fault("stop") /\ Alive(d)
  /\ term' = term \cup {d}
  /\ UNCHANGED <<wrapVars, dpc, pid, old, rc, pidfile, other, marker, reloadVars, stale, tick>>

\* The wrapper dies alone.
KillWrapper(w) ==
  /\ Fault("orphan") /\ wpc[w] # "off"
  /\ wpc' = [wpc EXCEPT ![w] = "off"]
  /\ UNCHANGED <<nap, locker, daemonVars, pidfile, other, marker, reloadVars, stale, tick>>

\* One of the other spawners starts a wrapper.
Spawner(w) ==
  /\ Launch(w)
  /\ UNCHANGED <<nap, locker, daemonVars, pidfile, other, marker, reloadVars, stale, tick, faults>>

\* Another program, one at a time, gets the number in the pid file, or ends.
OtherBegins(k) ==
  /\ pidfile \in FreePids
  /\ \A p \in Pids : other[p] = "none"
  /\ other' = [other EXCEPT ![pidfile] = k]
  /\ UNCHANGED <<wrapVars, daemonVars, pidfile, marker, reloadVars, stale, tick, faults>>

OtherEnds(p) ==
  /\ other[p] # "none"
  /\ other' = [other EXCEPT ![p] = "none"]
  /\ UNCHANGED <<wrapVars, daemonVars, pidfile, marker, reloadVars, stale, tick, faults>>

-----------------------------------------------------------------------------
DaemonStep(d) ==
  \/ ReadPidfile(d) \/ Judge(d) \/ WritePidfile(d) \/ HandleTerm(d)
  \/ ReleaseLook(d) \/ ReleaseRemove(d)

WrapperStep(w) == Flock(w) \/ Spawn(w) \/ Reap(w) \/ NapEnds(w)

ReloadStep ==
  \/ ReloadTouch \/ ReloadKill \/ ReloadVerify \/ ColdUnmark \/ ColdKillWrapper
  \/ ColdKillChild \/ ColdLaunch \/ ColdVerify \/ Tidy

Watchdog == WatchdogLook \/ WatchdogStart

Environment ==
  \/ \E d \in Daemon : KillDaemon(d) \/ DaemonFails(d) \/ Stop(d)
  \/ \E w \in Wrapper : KillWrapper(w) \/ Spawner(w)
  \/ \E k \in Kinds : OtherBegins(k)
  \/ \E p \in Pids : OtherEnds(p)

Next ==
  \/ \E d \in Daemon : DaemonStep(d)
  \/ \E w \in Wrapper : WrapperStep(w)
  \/ ReloadLook \/ ReloadStep
  \/ Watchdog
  \/ Environment

\* Processes that run go on, a SIGTERM is handled, and the watchdog ticks; nobody has
\* to reload, and nobody has to leave a number.
Fairness ==
  /\ \A d \in Daemon : WF_vars(DaemonStep(d)) /\ WF_vars(HandleTerm(d))
  /\ \A w \in Wrapper : WF_vars(WrapperStep(w))
  /\ WF_vars(ReloadStep) /\ WF_vars(WatchdogLook) /\ WF_vars(WatchdogStart)

Spec == Init /\ [][Next]_vars
FairSpec == Spec /\ Fairness

-----------------------------------------------------------------------------
(* Properties.                                                             *)

\* Every variable has its type.
TypeOK ==
  /\ wpc \in [Wrapper -> {"off", "flock", "spawn", "wait", "sleep", "cooldown"}]
  /\ nap \subseteq Wrapper /\ locker \in Wrapper \cup {Nobody}
  /\ dpc \in [Daemon -> {"off", "boot", "judge", "write", "up", "leave", "remove"}]
  /\ pid \in [Daemon -> Pids \cup {0}] /\ old \in [Daemon -> Pids \cup {0}]
  /\ rc \in [Daemon -> {0, 1}] /\ term \subseteq Daemon
  /\ pidfile \in Pids \cup {0}
  /\ other \in [Pids -> {"none", "stranger", "namesake"}]
  /\ marker \in BOOLEAN
  /\ rpc \in {"idle", "touch", "kill", "verify", "cold", "coldkill", "coldterm", "launch",
              "verify2", "tidy", "done"}
  /\ oldChild \in Pids \cup {0} /\ preCold \in Pids \cup {0}
  /\ verdict \in {"none", "ok", "fail"}
  /\ stale \subseteq Daemon /\ tick \in BOOLEAN /\ faults \in 0..MaxFaults

\* The single-wrapper guard: where only wrappers start the daemon, no two of it are ever
\* alive, whoever spawns wrappers, and whichever of the processes is killed.
OneDaemon == \A d, e \in Daemon : Alive(d) /\ Alive(e) => d = e

\* reload_daemon.sh: "exit 0" is said of a daemon that began after the script did.
OkMeansFresh ==
  [][rpc # "tidy" /\ rpc' = "tidy" /\ verdict' = "ok" =>
       \A d \in Live : pid[d] \in PgrepHead => d \notin stale]_vars

\* watchdog.sh: a daemon that was killed, failed or was stopped is up again, though its
\* number may belong to another program by then.
ComesBack == []<>(\E d \in Daemon : dpc[d] = "up")

\* _daemon: a second copy does not last.
DuplicatesEnd == []<>OneDaemon

\* The cold relaunch is there for a wrapper in its cool-down as well: the script does not
\* end with neither a wrapper nor a daemon.
ReloadLeavesOne == rpc = "done" => Wrappers # {} \/ Live # {}
=============================================================================
