--------------------------- MODULE ProducerOutbox ---------------------------
(***************************************************************************)
(* zo_sentinel/publisher: the producer versions its own builds.  The       *)
(* builder enqueues a finished file in a durable outbox and attempts it at *)
(* once; a publisher daemon drains what is still pending and, if enabled,  *)
(* backfills host-only files; an operator may evict what was held.  All of *)
(* them go through _attempt: under one flock, read the file, refuse or     *)
(* publish it, move the runtime copy aside, save the outbox.  The flock    *)
(* guards the outbox, not the runtime tree, which the builder writes at    *)
(* any time; and only the last step of an attempt is durable.              *)
(***************************************************************************)
EXTENDS Integers, FiniteSets

CONSTANTS
  File,         \* repo-relative paths
  Build,        \* builds the builder will produce, each one different bytes
  FileOf,       \* Build -> File
  Verdict,      \* Build -> {"clean", "blocked", "hollow"}: the refusal scans
  NoBuild,      \* no bytes
  NoFile,       \* no path
  Builder, Publisher,   \* the two processes
  Free,         \* nobody holds the flock
  Historic,     \* stamp of a backfilled file
  Stuck,        \* files whose branch the remote always refuses
  Broken,       \* builds whose publishing fails permanently
  DailyCap,     \* daily_cap
  Window,       \* dup_file_window_days
  MaxDay,       \* bound on the clock
  Backfill,     \* run-once backfills after it drains
  MaxLost,      \* bound: `gh pr create` may open one of the first MaxLost requests and fail
  EvictFails,   \* the git checkout or unlink of an eviction may fail
  MaxCrashes    \* bound on crashes

ASSUME OutboxAssumption ==
  /\ FileOf \in [Build -> File]
  /\ Verdict \in [Build -> {"clean", "blocked", "hollow"}]
  /\ NoFile \notin File /\ NoBuild \notin Build /\ Historic \notin Build
  /\ Builder # Publisher /\ Free \notin {Builder, Publisher}
  /\ Stuck \subseteq File /\ Broken \subseteq Build
  /\ DailyCap \in Nat /\ Window \in Nat /\ MaxDay \in Nat /\ MaxLost \in Nat
  /\ MaxCrashes \in Nat
  /\ Backfill \in BOOLEAN /\ EvictFails \in BOOLEAN

VARIABLES
  disk,      \* File -> build in the runtime tree
  head,      \* File -> build in the runtime tree's HEAD
  main,      \* File -> build on origin/main
  outbox,    \* producer_outbox.json
  lock,      \* holder of the flock
  mem,       \* process -> the outbox as it loaded it
  pc, file, content, result,   \* process -> its control state
  todo,      \* what the publisher's loop has left
  order,     \* and the enqueue order of its snapshot
  phase,     \* "drain" or "backfill"
  making,    \* the build the builder is working on
  prs,       \* pull requests ever opened
  open,      \* those still open
  opened,    \* the number of the last one
  kept,      \* builds copied to the durable quarantine
  parked,    \* builds whose directive was parked
  made,      \* builds written so far
  committed, \* builds the builder enqueued
  day, enabled, crashes

Proc == {Builder, Publisher}

treeVars == <<disk, head, main>>
procVars == <<pc, file, content, result>>
loopVars == <<todo, order, phase>>
buildVars == <<making, made, committed>>
keepVars == <<kept, parked>>
prVars   == <<prs, open, opened>>
envVars  == <<day, enabled, crashes>>
vars == <<treeVars, outbox, lock, mem, procVars, loopVars, buildVars, prVars, keepVars, envVars>>

NoEntry == [status |-> "none", source |-> "none", stamp |-> Historic, day |-> 0]
Empty == [entries |-> [f \in File |-> NoEntry], older |-> {},
          published |-> [f \in File |-> -1], budget |-> [day |-> 0, count |-> 0]]

Statuses == {"none", "pending", "held", "lost", "refused", "quarantined", "published", "noop"}
PCs == {"idle", "written", "gated", "enqueue", "attempt", "decide", "publish", "copy",
        "remove", "save", "loop", "census"}
Results == {"none", "held", "lost", "refused", "quarantined", "published", "noop",
            "dormant", "deferred_cap", "transient"}

Init ==
  /\ disk = [f \in File |-> NoBuild] /\ head = disk /\ main = disk
  /\ outbox = Empty /\ lock = Free /\ mem = [p \in Proc |-> Empty]
  /\ pc = [p \in Proc |-> "idle"]
  /\ file = [p \in Proc |-> NoFile]
  /\ content = [p \in Proc |-> NoBuild]
  /\ result = [p \in Proc |-> "none"]
  /\ todo = {} /\ order = {} /\ phase = "drain"
  /\ making = NoBuild /\ made = {} /\ committed = {}
  /\ prs = {} /\ open = {} /\ opened = 0
  /\ kept = {} /\ parked = {}
  /\ day = 0 /\ enabled \in BOOLEAN /\ crashes = 0

-----------------------------------------------------------------------------
(* One attempt on one entry, by either process.                            *)

IsPending(f) == outbox.entries[f].status = "pending"

\* Where a process goes when its attempt is over.
After(p, r) ==
  CASE p = Builder -> "idle"
    [] p = Publisher /\ phase = "drain" /\ r \in {"transient", "deferred_cap", "dormant"}
         -> "census"
    [] OTHER -> "loop"

Finish(p, r) ==
  /\ pc' = [pc EXCEPT ![p] = After(p, r)]
  /\ file' = [file EXCEPT ![p] = NoFile]
  /\ content' = [content EXCEPT ![p] = NoBuild]
  /\ result' = [result EXCEPT ![p] = "none"]
  /\ mem' = [mem EXCEPT ![p] = Empty]

\* Mutant: an enqueue does not wait for the flock.
EnqueueUnlocked(p, f, source, stamp) ==
  /\ outbox' = [outbox EXCEPT
       !.entries[f] = [status |-> "pending", source |-> source, stamp |-> stamp, day |-> day],
       !.older = IF IsPending(f) /\ outbox.entries[f].source = source THEN @
                 ELSE {e \in @ : f \notin {e[1], e[2]}} \cup ((File \ {f}) \X {f})]
  /\ pc' = [pc EXCEPT ![p] = "attempt"]
  /\ file' = [file EXCEPT ![p] = f]
  /\ UNCHANGED <<lock, mem, content, result>>

\* commit(): under the flock, a new pending entry, or an update of the old one,
\* which then keeps its place in the order of enqueued_at.
Enqueue(p, f, source, stamp) ==
  /\ lock = Free
  /\ outbox' = [outbox EXCEPT
       !.entries[f] = [status |-> "pending", source |-> source, stamp |-> stamp, day |-> day],
       !.older = IF IsPending(f) /\ outbox.entries[f].source = source THEN @
                 ELSE {e \in @ : f \notin {e[1], e[2]}} \cup ((File \ {f}) \X {f})]
  /\ pc' = [pc EXCEPT ![p] = "attempt"]
  /\ file' = [file EXCEPT ![p] = f]
  /\ UNCHANGED <<lock, mem, content, result>>

\* Mutant: the status is not read again under the flock.
AttemptAnyStatus(p) ==
  /\ pc[p] = "attempt"
  /\ lock = Free
  /\ lock' = p
  /\ mem' = [mem EXCEPT ![p] = outbox]
  /\ content' = [content EXCEPT ![p] = disk[file[p]]]
  /\ pc' = [pc EXCEPT ![p] = "decide"]
  /\ UNCHANGED <<treeVars, outbox, file, result, loopVars, buildVars, prVars, keepVars, envVars>>

BeginAttempt(p) ==
  /\ pc[p] = "attempt"
  /\ lock = Free
  /\ IF IsPending(file[p])
     THEN /\ lock' = p
          /\ mem' = [mem EXCEPT ![p] = outbox]
          /\ content' = [content EXCEPT ![p] = disk[file[p]]]
          /\ pc' = [pc EXCEPT ![p] = "decide"]
          /\ UNCHANGED <<file, result>>
     ELSE UNCHANGED lock /\ Finish(p, "none")
  /\ UNCHANGED <<treeVars, outbox, loopVars, buildVars, prVars, keepVars, envVars>>

Abs(n) == IF n < 0 THEN -n ELSE n

Entry(p) == mem[p].entries[file[p]]

\* Mutant: the last day of the window is outside it.
DuplicateShortWindow(p) ==
  LET seen == mem[p].published[file[p]]
  IN  Window > 0 /\ seen >= 0 /\ Abs(Entry(p).day - seen) < Window

\* refusal(): the same file published within the window of this build, or a
\* scan of the bytes that were read.
Duplicate(p) ==
  LET seen == mem[p].published[file[p]]
  IN  Window > 0 /\ seen >= 0 /\ Abs(Entry(p).day - seen) <= Window

Refused(p) == Duplicate(p) \/ Verdict[content[p]] # "clean"

\* The budget of today, which starts again at midnight.
Budget(p) == IF mem[p].budget.day = day THEN mem[p].budget ELSE [day |-> day, count |-> 0]

\* Mutant: off by one.
CapExceeded(p) == Budget(p).count > DailyCap

CapReached(p) == Budget(p).count >= DailyCap

Go(p, where, r) ==
  /\ pc' = [pc EXCEPT ![p] = where]
  /\ result' = [result EXCEPT ![p] = r]

\* Everything _attempt_locked settles before it calls the remote; a publish is
\* admitted, and later counted, under the budget of this moment.
Decide(p) ==
  /\ pc[p] = "decide"
  /\ \/ content[p] = NoBuild /\ Go(p, "save", "lost") /\ UNCHANGED <<parked, mem>>
     \/ /\ content[p] # NoBuild /\ Refused(p) /\ UNCHANGED mem
        /\ IF Entry(p).source = "backfill"
           THEN Go(p, "save", "held") /\ UNCHANGED parked
           ELSE /\ Go(p, "copy", "refused")
                /\ parked' = IF ~Duplicate(p) /\ Verdict[content[p]] = "hollow"
                             THEN parked \cup {Entry(p).stamp} ELSE parked
     \/ /\ content[p] # NoBuild /\ ~Refused(p) /\ UNCHANGED parked
        /\ \/ ~enabled /\ Go(p, "save", "dormant") /\ UNCHANGED mem
           \/ enabled /\ CapReached(p) /\ Go(p, "save", "deferred_cap") /\ UNCHANGED mem
           \/ /\ enabled /\ ~CapReached(p) /\ Go(p, "publish", "none")
              /\ mem' = [mem EXCEPT ![p].budget = Budget(p)]
  /\ UNCHANGED <<treeVars, outbox, lock, file, content, loopVars, buildVars, prVars,
                 kept, envVars>>

\* Mutant: the file is read again for the push.
PullRequestReread(p, n) == [file |-> file[p], stamp |-> Entry(p).stamp,
                            content |-> disk[file[p]], day |-> Entry(p).day,
                            admitted |-> mem[p].budget.day, number |-> n]

\* The branch is named after the entry's task and built_at.
PullRequest(p, n) == [file |-> file[p], stamp |-> Entry(p).stamp,
                      content |-> content[p], day |-> Entry(p).day,
                      admitted |-> mem[p].budget.day, number |-> n]

\* Mutant: the branch is named after the day of the attempt.
SameBranchToday(r, q) == r.file = q.file /\ r.stamp = q.stamp /\ r.admitted = q.admitted

SameBranch(r, q) == r.file = q.file /\ r.stamp = q.stamp

\* Force-push the branch and open its pull request.  Where one is open GitHub
\* answers "already exists", and it has the new bytes; after one that was closed
\* there is another.
Standing(p) == {q \in open : SameBranch(q, PullRequest(p, q.number))}

Push(p) ==
  \/ /\ Standing(p) = {}
     /\ opened' = opened + 1
     /\ prs' = prs \cup {PullRequest(p, opened + 1)}
     /\ open' = open \cup {PullRequest(p, opened + 1)}
  \/ \E q \in Standing(p) :
       /\ prs' = (prs \ {q}) \cup {PullRequest(p, q.number)}
       /\ open' = (open \ {q}) \cup {PullRequest(p, q.number)}
       /\ UNCHANGED opened

Published(p, m) == [m EXCEPT !.published[file[p]] = Entry(p).day]

Counted(m) == [m EXCEPT !.budget.count = @ + 1]

Publishable(p) == pc[p] = "publish" /\ file[p] \notin Stuck /\ content[p] \notin Broken

PublishOpens(p) ==
  /\ Publishable(p)
  /\ content[p] # main[file[p]]
  /\ Push(p)
  /\ mem' = [mem EXCEPT ![p] = Counted(Published(p, @))]
  /\ Go(p, "copy", "published")
  /\ UNCHANGED <<treeVars, outbox, lock, file, content, loopVars, buildVars, keepVars, envVars>>

PublishNoop(p) ==
  /\ Publishable(p)
  /\ content[p] = main[file[p]]
  /\ mem' = [mem EXCEPT ![p] = Published(p, @)]
  /\ Go(p, "copy", "noop")
  /\ UNCHANGED <<treeVars, outbox, lock, file, content, loopVars, buildVars, prVars, keepVars,
                 envVars>>

\* Mutant: a deterministic failure is taken for a transient one.
PermanentIsRetried(p) ==
  /\ pc[p] = "publish"
  /\ content[p] \in Broken
  /\ Go(p, "save", "transient")
  /\ UNCHANGED <<treeVars, outbox, lock, mem, file, content, loopVars, buildVars, prVars,
                 keepVars, envVars>>

PublishPermanent(p) ==
  /\ pc[p] = "publish"
  /\ content[p] \in Broken
  /\ Go(p, "copy", "quarantined")
  /\ UNCHANGED <<treeVars, outbox, lock, mem, file, content, loopVars, buildVars, prVars,
                 keepVars, envVars>>

\* The network failed, the lease was refused, or only the answer was lost.
PublishTransient(p) ==
  /\ pc[p] = "publish"
  /\ content[p] \notin Broken
  /\ \/ UNCHANGED prVars
     \/ opened < MaxLost /\ file[p] \notin Stuck /\ content[p] # main[file[p]] /\ Push(p)
  /\ Go(p, "save", "transient")
  /\ UNCHANGED <<treeVars, outbox, lock, mem, file, content, loopVars, buildVars, keepVars,
                 envVars>>

\* Mutant: nothing is copied.
CopyNothing(p) ==
  /\ pc[p] = "copy"
  /\ pc' = [pc EXCEPT ![p] = "remove"]
  /\ UNCHANGED <<treeVars, outbox, lock, mem, file, content, result, loopVars, buildVars,
                 prVars, keepVars, envVars>>

\* evict(), first half: keep the bytes that are there now.
CopyAside(p) ==
  /\ pc[p] = "copy"
  /\ kept' = kept \cup ({disk[file[p]]} \ {NoBuild})
  /\ pc' = [pc EXCEPT ![p] = "remove"]
  /\ UNCHANGED <<treeVars, outbox, lock, mem, file, content, result, loopVars, buildVars,
                 prVars, parked, envVars>>

\* Mutant: only tracked files are restored, untracked ones stay.
RemoveTracked(p) ==
  /\ pc[p] = "remove"
  /\ disk' = IF head[file[p]] = NoBuild THEN disk ELSE [disk EXCEPT ![file[p]] = head[file[p]]]
  /\ pc' = [pc EXCEPT ![p] = "save"]
  /\ UNCHANGED <<head, main, outbox, lock, mem, file, content, result, loopVars, buildVars,
                 prVars, keepVars, envVars>>

\* evict(), second half: checkout HEAD if tracked, else unlink.
RemoveCopy(p) ==
  /\ pc[p] = "remove"
  /\ \/ disk' = [disk EXCEPT ![file[p]] = head[file[p]]]
     \/ EvictFails /\ UNCHANGED disk
  /\ pc' = [pc EXCEPT ![p] = "save"]
  /\ UNCHANGED <<head, main, outbox, lock, mem, file, content, result, loopVars, buildVars,
                 prVars, keepVars, envVars>>

\* Mutant: every result is taken for a status.
SaveAnyResult(p) ==
  /\ pc[p] = "save"
  /\ outbox' = [mem[p] EXCEPT !.entries[file[p]].status = result[p]]
  /\ lock' = Free
  /\ Finish(p, result[p])
  /\ UNCHANGED <<treeVars, loopVars, buildVars, prVars, keepVars, envVars>>

\* _close and _save: only now does the outcome become durable.
SaveOutbox(p) ==
  /\ pc[p] = "save"
  /\ outbox' = IF result[p] \in Statuses
               THEN [mem[p] EXCEPT !.entries[file[p]].status = result[p]]
               ELSE mem[p]
  /\ lock' = Free
  /\ Finish(p, result[p])
  /\ UNCHANGED <<treeVars, loopVars, buildVars, prVars, keepVars, envVars>>

PublishSettles(p) == PublishOpens(p) \/ PublishNoop(p) \/ PublishPermanent(p)

AttemptStep(p) ==
  \/ BeginAttempt(p) \/ Decide(p) \/ PublishSettles(p) \/ PublishTransient(p)
  \/ CopyAside(p) \/ RemoveCopy(p) \/ SaveOutbox(p)

-----------------------------------------------------------------------------
(* The builder: goose_runner, around _complete.                            *)

\* The engine writes the file in place; nothing is locked.
WriteBuild(b) ==
  /\ pc[Builder] = "idle"
  /\ b \notin made
  /\ disk' = [disk EXCEPT ![FileOf[b]] = b]
  /\ made' = made \cup {b}
  /\ making' = b
  /\ pc' = [pc EXCEPT ![Builder] = "written"]
  /\ UNCHANGED <<head, main, outbox, lock, mem, file, content, result, loopVars, committed,
                 prVars, keepVars, envVars>>

BuilderMoves(where) ==
  /\ pc' = [pc EXCEPT ![Builder] = where]
  /\ making' = IF where = "idle" THEN NoBuild ELSE making
  /\ UNCHANGED <<treeVars, outbox, lock, mem, file, content, result, loopVars, made,
                 committed, prVars, keepVars, envVars>>

\* The gate chain judges what is on disk now: the build is rejected, ...
GateRejects ==
  /\ pc[Builder] = "written"
  /\ BuilderMoves("idle")

\* ... or the output is there and passes, and _complete begins.
GatePasses ==
  /\ pc[Builder] = "written"
  /\ disk[FileOf[making]] # NoBuild
  /\ BuilderMoves("gated")

\* _commit_build_for looks for the file before it asks for the flock, and
\* returns without a word when it is not there.
FindBuild ==
  /\ pc[Builder] = "gated"
  /\ BuilderMoves(IF disk[FileOf[making]] = NoBuild THEN "idle" ELSE "enqueue")

CommitBuild ==
  /\ pc[Builder] = "enqueue"
  /\ Enqueue(Builder, FileOf[making], "producer", making)
  /\ committed' = committed \cup {making}
  /\ making' = NoBuild
  /\ UNCHANGED <<treeVars, loopVars, made, prVars, keepVars, envVars>>

-----------------------------------------------------------------------------
(* The publisher daemon: run-once.                                         *)

\* drain() reads the outbox without the flock.
BeginDrain ==
  /\ pc[Publisher] = "idle"
  /\ todo' = {f \in File : IsPending(f)}
  /\ order' = outbox.older
  /\ phase' = "drain"
  /\ pc' = [pc EXCEPT ![Publisher] = "loop"]
  /\ UNCHANGED <<treeVars, outbox, lock, mem, file, content, result, buildVars, prVars,
                 keepVars, envVars>>

DrainNext(f) ==
  /\ pc[Publisher] = "loop" /\ phase = "drain"
  /\ f \in todo /\ \A g \in todo : <<g, f>> \notin order
  /\ todo' = todo \ {f}
  /\ pc' = [pc EXCEPT ![Publisher] = "attempt"]
  /\ file' = [file EXCEPT ![Publisher] = f]
  /\ UNCHANGED <<treeVars, outbox, lock, mem, content, result, order, phase, buildVars,
                 prVars, keepVars, envVars>>

EndDrain ==
  /\ pc[Publisher] = "loop" /\ phase = "drain" /\ todo = {}
  /\ pc' = [pc EXCEPT ![Publisher] = "census"]
  /\ UNCHANGED <<treeVars, outbox, lock, mem, file, content, result, loopVars, buildVars,
                 prVars, keepVars, envVars>>

\* The census of host-only files, and backfill()'s one look at the outbox.
Census ==
  /\ pc[Publisher] = "census"
  /\ IF Backfill
     THEN /\ todo' = {f \in File : /\ disk[f] # NoBuild /\ main[f] = NoBuild
                                   /\ outbox.entries[f] = NoEntry}
          /\ phase' = "backfill"
          /\ pc' = [pc EXCEPT ![Publisher] = "loop"]
     ELSE /\ todo' = {}
          /\ pc' = [pc EXCEPT ![Publisher] = "idle"]
          /\ UNCHANGED phase
  /\ order' = {}
  /\ UNCHANGED <<treeVars, outbox, lock, mem, file, content, result, buildVars, prVars,
                 keepVars, envVars>>

BackfillNext(f) ==
  /\ pc[Publisher] = "loop" /\ phase = "backfill"
  /\ f \in todo
  /\ todo' = todo \ {f}
  /\ Enqueue(Publisher, f, "backfill", Historic)
  /\ UNCHANGED <<treeVars, order, phase, buildVars, prVars, keepVars, envVars>>

EndBackfill ==
  /\ pc[Publisher] = "loop" /\ phase = "backfill" /\ todo = {}
  /\ pc' = [pc EXCEPT ![Publisher] = "idle"]
  /\ phase' = "drain"
  /\ UNCHANGED <<treeVars, outbox, lock, mem, file, content, result, todo, order, buildVars,
                 prVars, keepVars, envVars>>

\* The operator's evict-held, one critical section.
EvictHeld ==
  /\ lock = Free
  /\ LET held == {f \in File : outbox.entries[f].status = "held"}
     IN  /\ held # {}
         /\ kept' = kept \cup ({disk[f] : f \in held} \ {NoBuild})
         /\ disk' = [f \in File |-> IF f \in held THEN head[f] ELSE disk[f]]
         /\ outbox' = [outbox EXCEPT !.entries =
              [f \in File |-> IF f \in held THEN [@[f] EXCEPT !.status = "refused"] ELSE @[f]]]
  /\ UNCHANGED <<head, main, lock, mem, procVars, loopVars, buildVars, prVars, parked, envVars>>

-----------------------------------------------------------------------------
(* Everything else.                                                        *)

\* A pull request merges, or is closed.
Merge(r) ==
  /\ r \in open
  /\ open' = open \ {r}
  /\ \/ main' = [main EXCEPT ![r.file] = r.content]
     \/ UNCHANGED main
  /\ UNCHANGED <<disk, head, outbox, lock, mem, procVars, loopVars, buildVars, prs, opened,
                 keepVars, envVars>>

\* The deploy's fast-forward refuses to overwrite a file that is not HEAD's.
Deploy ==
  /\ main # head
  /\ \A f \in File : main[f] # head[f] => disk[f] = head[f]
  /\ head' = main
  /\ disk' = [f \in File |-> IF main[f] # head[f] THEN main[f] ELSE disk[f]]
  /\ UNCHANGED <<main, outbox, lock, mem, procVars, loopVars, buildVars, prVars, keepVars,
                 envVars>>

NextDay ==
  /\ day < MaxDay
  /\ day' = day + 1
  /\ UNCHANGED <<treeVars, outbox, lock, mem, procVars, loopVars, buildVars, prVars, keepVars,
                 enabled, crashes>>

\* The sentinel .pr_publisher_enabled comes and goes.
Toggle ==
  /\ enabled' = ~enabled
  /\ UNCHANGED <<treeVars, outbox, lock, mem, procVars, loopVars, buildVars, prVars, keepVars,
                 day, crashes>>

\* A process dies; the kernel releases its flock and what it loaded is gone.
Crash(p) ==
  /\ crashes < MaxCrashes
  /\ pc[p] # "idle"
  /\ crashes' = crashes + 1
  /\ lock' = IF lock = p THEN Free ELSE lock
  /\ pc' = [pc EXCEPT ![p] = "idle"]
  /\ file' = [file EXCEPT ![p] = NoFile]
  /\ content' = [content EXCEPT ![p] = NoBuild]
  /\ result' = [result EXCEPT ![p] = "none"]
  /\ mem' = [mem EXCEPT ![p] = Empty]
  /\ making' = IF p = Builder THEN NoBuild ELSE making
  /\ IF p = Publisher THEN todo' = {} /\ order' = {} /\ phase' = "drain"
     ELSE UNCHANGED loopVars
  /\ UNCHANGED <<treeVars, outbox, made, committed, prVars, keepVars, day, enabled>>

BuilderStep == GateRejects \/ GatePasses \/ FindBuild \/ CommitBuild \/ AttemptStep(Builder)

PublisherStep ==
  \/ BeginDrain \/ EndDrain \/ Census \/ EndBackfill
  \/ \E f \in File : DrainNext(f) \/ BackfillNext(f)
  \/ AttemptStep(Publisher)

Next ==
  \/ BuilderStep \/ PublisherStep
  \/ \E b \in Build : WriteBuild(b)
  \/ \E r \in open : Merge(r)
  \/ \E p \in Proc : Crash(p)
  \/ EvictHeld \/ Deploy \/ NextDay \/ Toggle

\* The two daemons keep running, days pass, and a remote that is asked again
\* and again answers at last unless the refusal is deterministic.
Fairness ==
  /\ WF_vars(BuilderStep) /\ WF_vars(PublisherStep) /\ WF_vars(NextDay)
  /\ SF_vars(PublishSettles(Publisher)) /\ SF_vars(BeginAttempt(Publisher))

Spec == Init /\ [][Next]_vars
FairSpec == Spec /\ Fairness

-----------------------------------------------------------------------------
(* Properties.                                                             *)

Entries == [status : Statuses, source : {"none", "producer", "backfill"},
            stamp : Build \cup {Historic}, day : 0..MaxDay]
Boxes == [entries : [File -> Entries], older : SUBSET (File \X File),
          published : [File -> -1..MaxDay], budget : [day : 0..MaxDay, count : Nat]]
Requests == [file : File, stamp : Build \cup {Historic}, content : Build, day : 0..MaxDay,
             admitted : 0..MaxDay, number : Nat]

\* Every variable has its type.
TypeOK ==
  /\ disk \in [File -> Build \cup {NoBuild}]
  /\ head \in [File -> Build \cup {NoBuild}] /\ main \in [File -> Build \cup {NoBuild}]
  /\ outbox \in Boxes /\ lock \in Proc \cup {Free} /\ mem \in [Proc -> Boxes]
  /\ pc \in [Proc -> PCs] /\ file \in [Proc -> File \cup {NoFile}]
  /\ content \in [Proc -> Build \cup {NoBuild}] /\ result \in [Proc -> Results]
  /\ todo \subseteq File /\ order \subseteq File \X File /\ phase \in {"drain", "backfill"}
  /\ making \in Build \cup {NoBuild} /\ made \subseteq Build /\ committed \subseteq Build
  /\ prs \subseteq Requests /\ open \subseteq prs /\ opened \in Nat
  /\ kept \subseteq Build /\ parked \subseteq Build \cup {Historic}
  /\ day \in 0..MaxDay /\ enabled \in BOOLEAN /\ crashes \in 0..MaxCrashes

\* publisher.refusal: the bytes of a pull request are bytes the scans passed,
\* although the builder may rewrite the file between the scan and the push.
PublishedIsClean == \A r \in prs : Verdict[r.content] = "clean"

\* publisher.refusal, duplicate_module: one file gets at most one pull request
\* per window, whichever of the two processes publishes.
OnePrPerWindow ==
  \A r, q \in prs :
    r.file = q.file /\ r # q => Window = 0 \/ Abs(r.day - q.day) > Window

\* gitops, "already exists": a retry after a death or a lost answer does not put a
\* second request beside the one that waits for its reviewer.
OneOpenPrPerWindow ==
  \A r, q \in open :
    r.file = q.file /\ r # q => Window = 0 \/ Abs(r.day - q.day) > Window

\* _attempt_locked's budget: two processes publish, and on no UTC day are more
\* than daily_cap pull requests admitted between them.
AdmittedOn(n) == {r \in prs : r.admitted = n}
CapHolds == \A n \in 0..MaxDay : Cardinality(AdmittedOn(n)) <= DailyCap

\* publisher.py, header: a closed build has left the runtime tree.  What is
\* there is HEAD's, or a newer build that has not been handed over yet.
ClosedIsOut ==
  \A f \in File :
    outbox.entries[f].status \in {"published", "noop", "refused", "quarantined"} =>
      disk[f] = head[f] \/ disk[f] \notin committed

\* _attempt_locked: an entry is closed "lost" only when there was nothing to
\* version, so no pull request carries it.
LostWasNotPublished ==
  \A f \in File : outbox.entries[f].status = "lost" =>
    \A r \in prs : r.file = f => r.stamp # outbox.entries[f].stamp

\* evict: the bytes of a build handed over are never lost.  They are still in
\* the tree, or were copied aside, or are in a pull request.
BytesAreKept ==
  \A b \in committed : b \in kept \/ disk[FileOf[b]] = b \/ \E r \in prs : r.content = b

Ledger == INSTANCE PublishLedger
  WITH entry <- outbox.entries, noted <- outbox.published, sent <- prs,
       Clean <- {b \in Build : Verdict[b] = "clean"}

\* The module's contract: although an attempt saves the whole outbox it loaded,
\* and may die before it does, an entry is settled once and alone, published
\* only with its own request, and a request is opened only for a pending entry
\* outside the window of what the outbox remembers.
RefinesPublishLedger == Ledger!Spec

\* drain: while publishing stays enabled, every pending entry is settled whose
\* own branch the remote accepts.
PendingIsSettled ==
  \A f \in File \ Stuck : <>[]enabled => (IsPending(f) ~> ~IsPending(f))
=============================================================================
