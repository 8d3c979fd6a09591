--------------------------- MODULE FollowupLedger ---------------------------
(***************************************************************************)
(* tools/fu: safe concurrent edits of FOLLOWUPS.md.  Several scheduled     *)
(* tasks (ledger_lint, fu_verify, fu_seed_predicates) read the ledger,     *)
(* plan, and then change it in a transaction: an O_EXCL lock file with a   *)
(* time to live, a digest taken on reading and compared before writing,    *)
(* and a rename over the ledger.  Every system call is an action, because  *)
(* the lock is a file that anybody may unlink.  A second host has a version *)
(* of its own; Syncthing puts either in the place of the other, older or   *)
(* not, and knows of no lock.                                              *)
(***************************************************************************)
EXTENDS Integers

CONSTANTS
  Writer,        \* scheduled tasks, each with one edit to make
  Planner,       \* those that write the whole text they planned over
  Remote,        \* edits that the other host makes
  Nobody,        \* creator of no lock file
  TTL,           \* LOCK_TTL_S
  Timeout,       \* ACQUIRE_TIMEOUT_S
  MaxNow,        \* bound on the clock
  MaxRuns,       \* bound on the runs of one task
  MaxCrashes,    \* bound on crashes
  Prompt,        \* a live holder never keeps the lock longer than TTL
  Mapped         \* the ledger may be mapped by a reader: replacing it is denied

ASSUME LedgerAssumption ==
  /\ Planner \subseteq Writer /\ Writer \cap Remote = {}
  /\ Nobody \notin Writer \cup Remote
  /\ TTL \in Nat /\ Timeout \in Nat /\ MaxNow \in Nat /\ MaxRuns \in Nat /\ MaxCrashes \in Nat
  /\ Prompt \in BOOLEAN /\ Mapped \in BOOLEAN

VARIABLES
  owner,     \* who created the lock file that is there
  stamp,     \* the time written in it; -1: nothing yet
  ledger,    \* FOLLOWUPS.md: the set of edits in it, or Missing
  prev,      \* FOLLOWUPS.md.prev
  theirs,    \* the other host's version of the ledger
  pc, plan, seen,       \* task -> control state, text planned over, text read
  deadline,  \* task -> when it stops waiting
  runs,      \* task -> runs started
  committed, \* tasks whose transaction said it committed
  aborted,   \* tasks whose last run ended without committing
  adrift,    \* tasks that ended between the two renames of the fallback
  dropped,   \* edits that a delivered version took out of the ledger
  now, crashes

lockVars == <<owner, stamp>>
fileVars == <<ledger, prev>>
taskVars == <<pc, plan, seen, deadline>>
endVars  == <<committed, aborted>>
hostVars == <<theirs, dropped>>
vars == <<lockVars, fileVars, taskVars, endVars, adrift, runs, hostVars, now, crashes>>

Edits   == SUBSET (Writer \cup Remote)
Missing == {Nobody}      \* there is no file of that name

HoldPC == {"stamp", "read", "mutate", "check", "replace", "park", "swap", "restore", "release"}
PCs    == HoldPC \cup {"idle", "try", "unlink"}

Init ==
  /\ owner = Nobody /\ stamp = -1
  /\ ledger = {} /\ prev = Missing
  /\ pc = [w \in Writer |-> "idle"]
  /\ plan = [w \in Writer |-> {}] /\ seen = [w \in Writer |-> {}]
  /\ deadline = [w \in Writer |-> 0] /\ runs = [w \in Writer |-> 0]
  /\ committed = {} /\ aborted = {} /\ adrift = {}
  /\ theirs = {} /\ dropped = {}
  /\ now = 0 /\ crashes = 0

Goto(w, l) == pc' = [pc EXCEPT ![w] = l]

-----------------------------------------------------------------------------
(* acquire.                                                                *)

\* A task reads the ledger without the lock and plans; no ledger is fatal.
Start(w) ==
  /\ pc[w] = "idle"
  /\ runs[w] < MaxRuns
  /\ now + Timeout < MaxNow
  /\ ledger # Missing
  /\ plan' = [plan EXCEPT ![w] = ledger]
  /\ deadline' = [deadline EXCEPT ![w] = now + Timeout]
  /\ runs' = [runs EXCEPT ![w] = @ + 1]
  /\ aborted' = aborted \ {w}
  /\ Goto(w, "try")
  /\ UNCHANGED <<lockVars, fileVars, seen, committed, adrift, hostVars, now, crashes>>

Create(w) ==
  /\ pc[w] = "try"
  /\ owner = Nobody
  /\ owner' = w /\ stamp' = -1
  /\ Goto(w, "stamp")
  /\ UNCHANGED <<fileVars, plan, seen, deadline, endVars, adrift, runs, hostVars, now, crashes>>

\* The pid and the time are written to the file that was created, which may be
\* unlinked by now.
Stamp(w) ==
  /\ pc[w] = "stamp"
  /\ stamp' = IF owner = w THEN now ELSE stamp
  /\ Goto(w, "read")
  /\ UNCHANGED <<owner, fileVars, plan, seen, deadline, endVars, adrift, runs, hostVars, now,
                 crashes>>

\* Mutant: a lock is stale one poll too early.
StaleEarly == stamp # -1 /\ now - stamp >= TTL

\* An empty lock file has no time and is never stale.
Stale == stamp # -1 /\ now - stamp > TTL

\* The lock is judged now and unlinked in the next step.
JudgeStale(w) ==
  /\ pc[w] = "try" /\ owner # Nobody
  /\ Stale
  /\ Goto(w, "unlink")
  /\ UNCHANGED <<lockVars, fileVars, plan, seen, deadline, endVars, adrift, runs, hostVars, now,
                 crashes>>

\* os.unlink takes whatever lock file is there; where none is it fails, and a task past
\* its deadline gives up.
Reclaim(w) ==
  /\ pc[w] = "unlink"
  /\ owner' = Nobody /\ stamp' = -1
  /\ IF owner = Nobody /\ now > deadline[w]
     THEN aborted' = aborted \cup {w} /\ Goto(w, "idle")
     ELSE Goto(w, "try") /\ UNCHANGED aborted
  /\ UNCHANGED <<fileVars, plan, seen, deadline, committed, adrift, runs, hostVars, now, crashes>>

\* Mutant: waits on, past the deadline.
WaitOn(w) ==
  /\ pc[w] = "try" /\ owner # Nobody /\ ~Stale /\ now > deadline[w]
  /\ UNCHANGED vars

\* LedgerBusy.
GiveUp(w) ==
  /\ pc[w] = "try" /\ owner # Nobody
  /\ ~Stale
  /\ now > deadline[w]
  /\ aborted' = aborted \cup {w}
  /\ Goto(w, "idle")
  /\ UNCHANGED <<lockVars, fileVars, plan, seen, deadline, committed, adrift, runs, hostVars, now,
                 crashes>>

-----------------------------------------------------------------------------
(* ledger_txn, with the lock held as far as its holder knows.              *)

\* The transaction ends without a commit; the lock is released on the way out.
Fail(w) ==
  /\ aborted' = aborted \cup {w}
  /\ Goto(w, "release")
  /\ UNCHANGED committed

Succeed(w) ==
  /\ committed' = committed \cup {w}
  /\ Goto(w, "release")
  /\ UNCHANGED aborted

\* Mutant: a ledger that is not there is read as an empty one.
ReadAnyway(w) ==
  /\ pc[w] = "read"
  /\ seen' = [seen EXCEPT ![w] = ledger]
  /\ Goto(w, "mutate")
  /\ UNCHANGED <<lockVars, fileVars, plan, deadline, endVars, adrift, runs, hostVars, now, crashes>>

ReadLedger(w) ==
  /\ pc[w] = "read"
  /\ IF ledger = Missing
     THEN Fail(w) /\ UNCHANGED seen
     ELSE /\ seen' = [seen EXCEPT ![w] = ledger]
          /\ Goto(w, "mutate")
          /\ UNCHANGED endVars
  /\ UNCHANGED <<lockVars, fileVars, plan, deadline, adrift, runs, hostVars, now, crashes>>

\* What the body of the transaction leaves in txn.lines.
NewText(w) == (IF w \in Planner THEN plan[w] ELSE seen[w]) \cup {w}

\* Mutant: a planner does not compare its plan with what the lock protects.
MutateUnchecked(w) ==
  /\ pc[w] = "mutate"
  /\ \/ Fail(w)
     \/ NewText(w) = seen[w] /\ Succeed(w)
     \/ NewText(w) # seen[w] /\ Goto(w, "check") /\ UNCHANGED endVars
  /\ UNCHANGED <<lockVars, fileVars, plan, seen, deadline, adrift, runs, hostVars, now, crashes>>

\* The body raises, or there is nothing to change, or the text is to be written.
Mutate(w) ==
  /\ pc[w] = "mutate"
  /\ \/ Fail(w)
     \/ /\ w \in Planner => plan[w] = seen[w]
        /\ NewText(w) = seen[w] /\ Succeed(w)
     \/ /\ w \in Planner => plan[w] = seen[w]
        /\ NewText(w) # seen[w] /\ Goto(w, "check") /\ UNCHANGED endVars
  /\ UNCHANGED <<lockVars, fileVars, plan, seen, deadline, adrift, runs, hostVars, now, crashes>>

\* The ledger is read again; LedgerChanged if its digest is another.
Check(w) ==
  /\ pc[w] = "check"
  /\ IF ledger # seen[w] THEN Fail(w) ELSE Goto(w, "replace") /\ UNCHANGED endVars
  /\ UNCHANGED <<lockVars, fileVars, plan, seen, deadline, adrift, runs, hostVars, now, crashes>>

\* Mutant: denied the rename, the text is copied over the ledger, and the error
\* reported.
ReplaceInPlace(w) ==
  /\ pc[w] = "replace"
  /\ \/ ledger' = NewText(w) /\ Succeed(w)
     \/ Mapped /\ ledger' = NewText(w) /\ Fail(w)
  /\ UNCHANGED <<lockVars, prev, plan, seen, deadline, adrift, runs, hostVars, now, crashes>>

\* os.replace of the text over the ledger; denied while somebody maps it.
Replace(w) ==
  /\ pc[w] = "replace"
  /\ \/ ledger' = NewText(w) /\ Succeed(w)
     \/ Mapped /\ Goto(w, "park") /\ UNCHANGED <<ledger, endVars>>
  /\ UNCHANGED <<lockVars, prev, plan, seen, deadline, adrift, runs, hostVars, now, crashes>>

\* Denied four times: the ledger is renamed aside, over an older .prev.
Park(w) ==
  /\ pc[w] = "park"
  /\ IF ledger = Missing
     THEN Fail(w) /\ UNCHANGED fileVars
     ELSE /\ prev' = ledger /\ ledger' = Missing
          /\ Goto(w, "swap") /\ UNCHANGED endVars
  /\ UNCHANGED <<lockVars, plan, seen, deadline, adrift, runs, hostVars, now, crashes>>

Swap(w) ==
  /\ pc[w] = "swap"
  /\ \/ ledger' = NewText(w) /\ Succeed(w)
     \/ Goto(w, "restore") /\ UNCHANGED <<ledger, endVars>>
  /\ UNCHANGED <<lockVars, prev, plan, seen, deadline, adrift, runs, hostVars, now, crashes>>

\* Mutant: the parked original stays where it is.
RestoreNothing(w) ==
  /\ pc[w] = "restore"
  /\ Fail(w)
  /\ UNCHANGED <<lockVars, fileVars, plan, seen, deadline, adrift, runs, hostVars, now, crashes>>

\* The parked original is put back, unless somebody has moved it or this rename is
\* denied as well; over whatever was delivered in the meantime.
Restore(w) ==
  /\ pc[w] = "restore"
  /\ \/ prev # Missing /\ ledger' = prev /\ prev' = Missing /\ UNCHANGED adrift
     \/ adrift' = adrift \cup {w} /\ UNCHANGED fileVars
  /\ Fail(w)
  /\ UNCHANGED <<lockVars, plan, seen, deadline, runs, hostVars, now, crashes>>

\* Nobody asks whose lock it is.
Release(w) ==
  /\ pc[w] = "release"
  /\ owner' = Nobody /\ stamp' = -1
  /\ Goto(w, "idle")
  /\ UNCHANGED <<fileVars, plan, seen, deadline, endVars, adrift, runs, hostVars, now, crashes>>

-----------------------------------------------------------------------------
(* The environment.                                                        *)

\* A task is killed; its files stay.
Crash(w) ==
  /\ crashes < MaxCrashes
  /\ pc[w] # "idle"
  /\ crashes' = crashes + 1
  /\ adrift' = IF pc[w] \in {"swap", "restore"} THEN adrift \cup {w} ELSE adrift
  /\ Goto(w, "idle")
  /\ UNCHANGED <<lockVars, fileVars, plan, seen, deadline, endVars, runs, hostVars, now>>

RemoteEdit(r) ==
  /\ r \notin theirs
  /\ theirs' = theirs \cup {r}
  /\ UNCHANGED <<lockVars, fileVars, taskVars, endVars, adrift, runs, dropped, now, crashes>>

\* Syncthing brings our version to the other host, ...
SyncOut ==
  /\ ledger # Missing
  /\ theirs' = ledger
  /\ UNCHANGED <<lockVars, fileVars, taskVars, endVars, adrift, runs, dropped, now, crashes>>

Text == IF ledger = Missing THEN prev ELSE ledger

\* ... and the other host's version here, whatever it knows of ours.
Deliver ==
  /\ ledger' = theirs
  /\ dropped' = dropped \cup (Text \ theirs)
  /\ UNCHANGED <<lockVars, prev, theirs, taskVars, endVars, adrift, runs, now, crashes>>

Holding(w) == pc[w] \in HoldPC

Tick ==
  /\ now < MaxNow
  /\ Prompt => \A w \in Writer : Holding(w) /\ owner = w /\ stamp # -1 => now - stamp < TTL
  /\ now' = now + 1
  /\ UNCHANGED <<lockVars, fileVars, taskVars, endVars, adrift, runs, hostVars, crashes>>

-----------------------------------------------------------------------------
TaskStep(w) ==
  \/ Create(w) \/ Stamp(w) \/ JudgeStale(w) \/ Reclaim(w) \/ GiveUp(w)
  \/ ReadLedger(w) \/ Mutate(w) \/ Check(w) \/ Replace(w) \/ Park(w) \/ Swap(w) \/ Restore(w)
  \/ Release(w)

Next ==
  \/ \E w \in Writer : Start(w) \/ TaskStep(w) \/ Crash(w)
  \/ \E r \in Remote : RemoteEdit(r)
  \/ SyncOut \/ Deliver
  \/ Tick

\* A started process runs on, and time passes; nobody has to start a task.
Fairness == WF_vars(Tick) /\ \A w \in Writer : WF_vars(TaskStep(w))

Spec == Init /\ [][Next]_vars
FairSpec == Spec /\ Fairness

-----------------------------------------------------------------------------
(* Properties.                                                             *)

\* Every variable has its type.
TypeOK ==
  /\ owner \in Writer \cup {Nobody} /\ stamp \in Int
  /\ ledger \in Edits \cup {Missing} /\ prev \in Edits \cup {Missing}
  /\ pc \in [Writer -> PCs] /\ plan \in [Writer -> Edits] /\ seen \in [Writer -> Edits]
  /\ deadline \in [Writer -> Nat] /\ runs \in [Writer -> Nat]
  /\ committed \subseteq Writer /\ aborted \subseteq Writer /\ adrift \subseteq Writer
  /\ theirs \in Edits /\ dropped \subseteq Writer \cup Remote \cup {Nobody}
  /\ now \in 0..MaxNow /\ crashes \in 0..MaxCrashes

\* fu_lock.acquire: two tasks are never inside ledger_txn at once.
OneHolder == \A v, w \in Writer : Holding(v) /\ Holding(w) => v = w

\* test_fu_lock: "Neither may vanish".  What a transaction committed stays in the
\* ledger, or in the copy beside it while there is no ledger, as long as the other
\* host does not drop it: it is not overwritten by a task that read earlier, nor lost
\* between the two renames of the fallback.
NoneVanishes == committed \ dropped \subseteq Text

\* LedgerChanged, LedgerBusy and a failed rename all promise that nothing was
\* written: a task that never committed has no edit in the ledger, so its operator may
\* simply run it again.
AbortWroteNothing ==
  \A w \in aborted \ committed : ledger # Missing => w \notin ledger

\* _replace_with_fallback: the name FOLLOWUPS.md is free only while a task is between
\* the two renames, or was killed there, or was denied the way back too.
AlwaysALedger ==
  ledger = Missing => adrift # {} \/ \E w \in Writer : pc[w] \in {"swap", "restore"}

\* acquire's deadline, the TTL and `finally`: every run comes to an end, behind a
\* dead holder too.
RunEnds == \A w \in Writer : pc[w] # "idle" ~> pc[w] = "idle"
=============================================================================
