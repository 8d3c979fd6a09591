# TLA+ models of zo-sentinel's build loop

zo-sentinel is an autonomous builder.  An architect (a language model behind an
MCP tool server) proposes *directives*; a promoter moves them into a queue; a
runner has an engine (Goose, or a fallback model) write the file a directive
declares, judges it with a chain of gates and stamps the directive done or
failed; a publisher turns each finished file into a pull request and moves the
runtime copy aside until the request merges and is deployed back.  None of the
processes share memory.  They agree, or fail to, through files: directories
that are queues, sentinel files that are verdicts, one JSON outbox and one
flock.  That protocol is what the first modules are about.  Three more are about what
keeps such daemons honest: how they are supervised and reloaded, how several tasks edit one
ledger file, and how the artifact ingestor earns the right to act.

| file | what it is |
| --- | --- |
| `BuildLedger.tla` | what the build queue promises, without the daemons that keep the promise |
| `DirectiveQueue.tla` | the queue, the sentinels, the promoter, the runner and its gate chain; implements `BuildLedger` |
| `PublishLedger.tla` | what the outbox promises to its readers, without the flock and the attempts |
| `ProducerOutbox.tla` | the outbox, the attempts under the flock, builder and publisher; implements `PublishLedger` |
| `FollowupLedger.tla` | `tools/fu`: the ledger's lock, its takeover and its transaction |
| `DaemonSupervisor.tla` | daemon wrapper, pid file, reload script and watchdog of one daemon |
| `ActivationGovernor.tla` | the artifact ingestor and the governor that opens its latch |
| `MC*.tla` | the instances of each for TLC |
| `*_proofs.tla` | theorems about each, checked by TLAPS |
| `queue_*.cfg`, `outbox_*.cfg`, `ledger_txn.cfg`, `daemon_*.cfg`, `governor.cfg` | runs that pass |
| `find_*.cfg` | runs that refute something the repository says of itself |
| `PROJECT.json` | components, runs, mutants, line map, findings, hazards, theorems |

Run one with `tlc -config queue_chain.cfg MCDirectiveQueue` and check proofs with
`tlapm DirectiveQueue_proofs.tla`.


## 1. Inventory

Paths are under `src/`; Z is `zo_sentinel/`, G is `goose_runner_lib/`.

### The build loop

**Architect** (`Z sentinel_directive_generator_goose.py`, `Z mcp_servers/directive_mcp.py`).
State: none of its own; it writes `proposed/<name>.json`.  Operation:
`propose_directive`, refused when the directive is already done or `proposed/` is
deep enough.  Correct when it never re-proposes what is finished.

**Promoter** (`Z promoters/proposed_to_pending_promoter.py`) with the
**queue janitor** (`Z queue_janitor.py`).  State: the file mtimes of `proposed/`
(its scan order), a per-pass attempt counter.  One pass: fan services out into
ordered children; let the janitor retire quarantined and redundant files of both
queues; snapshot `proposed/` oldest first; for each proposal archive (already
resolved), hold (chain root not there, or slot taken) or promote, up to
`max_per_cycle` attempts.  Correct when nothing leaves the queue unresolved and a
leaf is promoted in the end.

**Runner** (`goose_runner.py`, `G core.py, runner.py, completion.py`).  State: one
poll's batch, the current directive and which engine has its turn.  One poll: prune
finished files from `pending/`, park and revive orphaned chains
(`tools/park_orphan_chain_directives.py`), load the batch (`mesh_memory` rows and
`pending/`), and for each directive: skip, route to a coworker (high complexity),
defer (requirements missing) or build.  A build is engine, gates, then on rejection
fallback engine, gates, perhaps one repair, then a *ghost* count and another poll, or
`_mark_directive_failed` at `MAX_GHOST_ATTEMPTS`.  On success `_complete`: `.done`
sentinel, archived queue file, resolved lessons, cleared ghost, hand-over to the
publisher.

**Sentinels** (`Z build_completion.py`).  State: `<id>.done.json`, `<id>.failed.json`
inside the repository and again in a durable store that `git clean` cannot reach,
`<id>.ghost.json`.  Correct when a directive is never both done and failed, a
`.done` means a file that passed its gates, and a failure survives a clean.

**Lessons** (`Z build_lessons.py`).  State: open lessons keyed by the base name of a
file.  A lesson is opened by a content gate or by giving up, resolved by a success, and
keeps the deduplication and the janitor from treating a leftover file as an output.

**Producer publisher** (`Z publisher/publisher.py`, `gitops.py`, `__main__.py`).
State: `producer_outbox.json` (entries, published files with their dates, today's
budget), the flock, the runtime tree, a durable quarantine of evicted bytes, and on
GitHub branches and pull requests.  Operations: `commit` (builder), `drain`, `backfill`
(daemon), `evict_held` (operator); all but the last end in `_attempt`: read the file,
refuse or publish, evict, save.  Correct when a build becomes at most one pull request,
only scanned bytes do, the daily cap holds, a closed build has left the tree and its
bytes are kept.

### Around it

| component | state | properties that would make it correct | modelled |
| --- | --- | --- | --- |
| `Z ingestor/` (ingestor, governor, store) | activation streak, latch, veto, watermark | no verdict without evidence; a false promotion bars activation; a veto freezes; who earns it is switched on | `ActivationGovernor` |
| `singleton_lock.py`, `tools/daemon_wrapper.sh`, `tools/reload_daemon.sh`, `ops/zo_mesh/watchdog.sh` | a pid file, a flock inherited by children, a reload marker | one daemon; a reload that says OK left a fresh one; the daemon comes back | `DaemonSupervisor` |
| `tools/fu/` (fu_lock and the tasks that edit `FOLLOWUPS.md`) | the ledger, its `.prev`, an O_EXCL lock file | one task inside; no committed edit vanishes; an abort wrote nothing; always a ledger | `FollowupLedger` |
| `tools/quarantine_topup.py`, `requeue_quarantined.py` | quarantine, spawn throttle | in-flight cap; no directive emitted twice; no starvation by lost ones | planned |
| `tools/service_decomposer.py`, `promote_staged_to_active.py` | staged and active service trees | chain order; a service turns active once | chain only |
| `gate_quality_state.py`, `reset_breaker.py` | breaker and its window | opens and closes when it says | planned |
| `escalation.py`, `ladder_shim.py` | rung, cool-downs, budgets | never below a rung it may not use; recovers | planned |
| `Z vast_jobs.py`, `tools/rescore/*_guard.py` | rented instances | every lease is ended | planned |
| `approval_workflow.py` | submission statuses | no verdict is overwritten | planned |
| `Z policy.py` | layered settings | precedence | three switches are constants |
| `Z decide/`, `build_routing.py` | none | | no: stateless |
| `app/`, write service | a database | | no: see section 10 |

### What is hard

* Four processes read directories the others are changing.  A file may go between
  `is_file()` and the use of it: retired by the janitor, evicted by the publisher,
  rewritten by the builder.
* A sentinel is judged by the file on disk, and publishing *removes* that file on
  purpose while the request is open.
* `_complete`, `_mark_directive_failed` and `_attempt` are sequences of durable
  effects with no transaction around them; each write may fail and the failure be
  swallowed, the process may die in any gap, and `git clean` may undo some of them later.
* The flock protects the outbox, not the tree: the scan, the push and the eviction of one
  attempt may each see different bytes.
* The pull request may be open although the call that opened it failed.
* A lock is a file that anybody may unlink, a pid is a number that is given out again, and
  a flock lives as long as the last process that inherited it.
* A store that does not answer reads as an empty store, and writes are not confirmed.
* Several rules that are each sensible alone (dedup, quarantine, hold for requirements,
  orphan parking, attempt cap) can leave a directive that no rule moves.

`PROJECT.json` lists these at their lines as "hazards", with the properties that
watch them.


## 2. `DirectiveQueue`

One variable per thing on disk, plus the control state of the two loops.

| in the model | in the code |
| --- | --- |
| `proposed`, `older` | files of `proposed/` and the order of their mtimes |
| `pending`, `parked`, `archived` | `pending/`, `_parked_orphan_chain/`, `done/` |
| `doneSent`, `failSent`, `durable` | the three kinds of sentinel file |
| `ghost`, `lessons` | `<id>.ghost.json`, open lessons |
| `disk` | what stands under a declared output: nothing, a stub below 32 bytes, bytes no gate has passed, gated bytes |
| `ship`, `tracked` | how far the publisher is with it; whether git tracks it since a merge |
| `rpc, batch, cur, trial, reported` | where `runner.run` is |
| `ppc, scan, attempts` | where `run_once` is |
| `refusing, pstep` | whom the publisher is parking, and how far it is with that |
| `crashes, faults` | deaths and swallowed failures so far (history) |

An action is what one process does between two points at which another could look:
one promoter action per proposal visited, one runner action per directive considered,
and one per durable effect of a build.  Engines are arbitrary: they may leave the file
alone or overwrite it with anything `EngineWrites` allows and report success or not
independently of that.  The content gates are arbitrary too, but the order of the gate
chain is the code's: a report of failure, a missing output and an empty edit diff are
settled before the content is looked at.  The guards of `Eligible` are the early
returns of `is_goose_eligible`, including that a stale `.done` is deleted on the way
even when a later check then skips the directive.

Giving up and completing are sequences of durable effects, one action each, in the code's
order: `RecordLesson`, `ParkInRepo`, `ParkDurably`, `ParkUnstamps`, `DropCounter`,
`DropQueueFile`, and `MarkCompleted`, `ArchiveFile`, `Settle`, `ClearCounter`, `CommitBuild`.
The runner may die between any two.  The code wraps most of these writes in a `try` that logs
and goes on, so a write may also fail without anybody noticing: `Failing` says which kinds
may (`lesson`, `ghost`, `failed`, `durable`, `done`, `archive`, `commit`), and `faults` counts
those that did.  The unlinks (stale `.done`, counter, queue file of a directive given up)
are assumed to succeed.  `CommitBuild` has the code's three outcomes: nothing to version (no
output, no file, or one `Outside` the project tree, `completion.py:230-235`), an entry, and
an exception that is logged (246).

`SpineRejects` is the gate of `runner.py:140-152`, where `ZO_SPINE_GATE_ENFORCE` is set: an
app build of `Unspined` is parked in both stores before anything is spent on it, with no
lesson, and its queue file and its count stay.  A directive of `Unspined` may also pass, as the gate lets
pass whatever its router cannot answer for.

Abstracted: the JSON, the prompts, the loopback manifest and event rows, severities of
lessons, the age limits and per-pass limits that exceed every instance, validation
rejects, and slots taken by another directive with the same file name.

Of the publisher the queue sees three things.  It takes a file away (`PublisherTakes`: an
untracked one disappears, a tracked one goes back to HEAD's bytes).  It refuses one
(`PublisherRefuses`).  And if the bytes are hollow it parks the directive before it evicts
them, step by step under the flock: `.failed` in the repository (`BeginParking`), the durable one
(`RefusalIsDurable`), the stale `.done` removed (`RefusalUnstamps`), the eviction (`EvictHollow`); no
lesson.  From the first to the last the file is "hollow" in `ship`, `CommitBuild` waits for the
flock, and if the publisher dies (`PublisherDies`) the entry is still pending and the
next drain begins again.  `Deploy` brings a merged file back.  With `HollowGate`, the policy
`builder.no_hollow_gate`, the runner's own gate has the same scan, so a hollow file never gets
that far and the publisher never parks; without it parking is possible at any time a file
waits.  The detail of an attempt is the other module.

`BuildLedger` is the abstract specification.  Its state is a verdict per directive (open,
done, given up), what is known of each file's bytes (absent, unproven, passed) and where its
pull request is; its steps are what a reader of the sentinels and the tree may rely on: giving
up is final, a verdict "done" is given in one step over passed bytes and taken back only when
the file is not there, and from the hand-over until the publisher takes it nobody touches a
file.  `RefinesLedger` is that specification under the mapping `Verdict` (a `.failed` in
either store outranks a `.done`), `Judged` and `Stage` (a file found hollow is in the outbox
until it is evicted).

Switches of `policy.py` and the shape of the directives are constants: `Dedup`, `Janitor`,
`HollowGate`, `WriteRaw` (handler `write_raw`), `High` (routed to the coworker), `Unspined` and
`Outside` (above), `Mesh` (also served by `mesh_memory`), `SelfNamed` (the queue file has the directive's id as its name, the only files
`mark_directive_completed` and `_mark_directive_failed` find).

## 3. `ProducerOutbox`

| in the model | in the code |
| --- | --- |
| `disk`, `head`, `main` | the runtime tree, its HEAD, `origin/main` |
| `outbox` | `producer_outbox.json`: entries, their enqueue order, published files, budget |
| `lock`, `mem` | the flock, and the copy of the outbox its holder loaded |
| `pc, file, content, result` | how far each process is in `_attempt` |
| `todo, order, phase` | the snapshot `drain` or `backfill` is working through |
| `making, made, committed` | the builder's current build, all written, all handed over |
| `prs`, `open`, `opened` | requests ever opened, those still open, the number of the last one |
| `kept`, `parked` | the durable quarantine; builds whose directive was parked |

A build is its own bytes: `disk[f] = b` says whose bytes are under `f`, and
`Verdict[b]` what the refusal scans say of them.  So the model tells apart the entry
(whose task and date name the branch) from the bytes read at the attempt, which is the
point of most properties.  An attempt is seven actions: take the lock and read the file;
settle what needs no remote (lost, refused, held, dormant, capped); publish with one of
four outcomes; copy aside; remove; save.  Only the save writes the outbox.  Publishing
pushes the branch and asks for a request: where one of the branch is open, GitHub answers
"already exists" and it has the new bytes (`Standing`); after one that a reviewer closed
a new one is opened, with a number of its own.  One of the first `MaxLost` requests may be
opened although the call that opened it fails.  The builder's
actions bracket it: write (no lock), gates, look for the file, enqueue.  The gate chain is
reduced to a verdict because `DirectiveQueue` has it in full.

Abstracted: git itself (a branch is the pair of file and `built_at`; pushes, retries
inside one call, auto-staging and auto-declaring are one step); back-off sleeps; the
50 and 20 entry limits of one pass; the fallback when no publish clone exists; the
minute resolution of a branch name; an outbox file that cannot be read, which `_load` takes
for an empty one (`publisher.py:255-263`) and the next save makes one.  A commit that raises
leaves the state of a build the gates rejected.  The daemon's census and its look at the outbox are
one step.  A request admitted before midnight and opened after it belongs to the day of
its admission, as the budget it is counted under does.

`PublishLedger` is the abstract specification.  Its state is what others read: the entries
(`outbox.entries`), the dates of what is known to be published (`outbox.published`) and the
requests on the remote (`prs`).  A file is entered, a request for a pending entry is opened,
the entry is settled; each of these touches the entry of one file.  An entry becomes
"published" only beside a request of its own file and stamp, and a request is opened only
with clean bytes of the file, for an entry whose date is outside the window of the remembered
one.  That is less than `OnePrPerWindow`: a death between the push and the save makes the outbox
forget a request, which the abstract ledger allows too.  What makes `RefinesPublishLedger`
hard is that every process reads the whole outbox, works on its copy for minutes and writes
all of it back: only the flock keeps such a save from being an undoing of other entries.

## 4. `FollowupLedger`

| in the model | in the code |
| --- | --- |
| `owner`, `stamp` | the lock file: who created it, the time written in it (-1: still empty) |
| `ledger`, `prev` | `FOLLOWUPS.md` and `FOLLOWUPS.md.prev`, as sets of edits, or missing |
| `pc, plan, seen, deadline` | each task: where it is, the text it planned over, the text read under the lock, when it stops waiting |
| `committed`, `aborted` | what the transaction told its caller |
| `adrift` | tasks that ended between the two renames of the fallback, killed or denied |
| `theirs` | the other host's version of the ledger |
| `dropped` | edits that a version Syncthing delivered took out of the ledger |

Every system call of `fu_lock.py` is an action, since a lock file may be unlinked between any
two of them: create with O_EXCL, stamp, judge stale, unlink, read, compare digest, rename, and
the fallback of a denied rename (ledger aside to `.prev`, new text in, or `.prev` back).
`Restore` may be denied as well, and then there is no ledger without anybody dying.  `Release`
unlinks whatever lock is there, as the code does.  Tasks are of two kinds: one edits what it
reads under the lock (`fu_verify`, `ledger_lint`), a `Planner` planned over an earlier reading
and compares the digest under the lock (`fu_seed_predicates`).  The other host edits its own
version (`RemoteEdit`); Syncthing puts ours in its place (`SyncOut`) or it in the place of
ours (`Deliver`), at any time, whatever either knows of the other: an older version may arrive
late, and one may arrive while the name is free.  A text is the set of edits in it; parsing,
probes and lint are left out.  `Prompt` says that a live holder is done within the time to
live.

## 5. `DaemonSupervisor`

| in the model | in the code |
| --- | --- |
| `wpc, nap, locker` | `daemon_wrapper.sh`: its place, its `sleep` child, whose open lock file holds the flock |
| `dpc, pid, old, rc, term` | a daemon in `singleton_lock.acquire`/`release`: place, own number, the number read, exit code, pending SIGTERM |
| `pidfile`, `other` | the pid file; numbers that belong to another program |
| `marker, rpc, oldChild, preCold, verdict, stale` | `reload_daemon.sh` |
| `tick` | `watchdog.sh`, between finding nothing and starting one |

`acquire` is its three steps (read, judge the owner, write) and `release` its two, so that
they may interleave with another daemon's.  A SIGTERM ends a daemon that holds its pid file
with an exit code of `TermCodes`: 0 where the daemon has a handler of its own, as the runner
(`core.py:67-71`), not 0 (written 1) where `singleton_lock.py:202-208` raises the signal again;
the wrapper backs off only after the second.  The runs allow both, at each death.  Pids are numbers that the kernel gives out again,
also to a program that has nothing to do with the daemon.  `Locked` is the kernel's rule for
a flock: held while the wrapper, its daemon or its `sleep` is alive, because they share the open
file.  The reload is the whole script: marker, SIGTERM, the wait for another pid, and the
cold fallback (marker, wrappers, daemons, a fresh wrapper, the second wait).  Time is
order: a back-off or a wait may end before or after anything, except that under `Patient`
the script's waits outlast everything but a cool-down (otherwise they may end early, more than
the code allows).  `Bare` are daemons the watchdog
starts without a wrapper, as one of its functions does.  Left out: `supervisord` (it starts the
watchdog), the watchdog's other probes, and the module-mode refusal of the reload.

## 6. `ActivationGovernor`

| in the model | in the code |
| --- | --- |
| `n`, `sound`, `gate8` | `build_artifact` rows, what `evaluate()` would say of each file, gate_8's latest verdict |
| `veto`, `latch` | `.no_auto_activate`, `.ingestor_enabled` |
| `saved`, `mine`, `gpc` | the governor's state in the store, its copy in a cycle, where the cycle is |
| `ipc, enabled, size, at` | the ingestor's cycle: its one look at the latch, its batch, its place |
| `watermark`, `judged` | the watermark row, the rows whose verdict the store has |
| `evidence`, `touched` | history: on which rows the graders were seen to agree; that an operator opened the latch |

A governor cycle is five actions (load, veto, assess, latch, save), an ingestor cycle a
beginning, one action per row and an end.  The store answers or does not: an answer that does
not come is an empty result (`read` fault, also for some rows of an assessment only), and a
write it does not take is not noticed (`write`: the governor's state, a row's verdict, the
watermark), as `store.py` treats them.  Whether it answers `get_watermark` makes no difference, since the batch holds the
oldest rows, those behind the watermark among them.  The other faults are deaths of either
loop, a smoke test that fails, a wiped latch and one opened by hand.  `Override` is the
ingestor's own switch, which `is_enabled` asks before the latch: "on" (`--enable`,
`ARTIFACT_INGESTOR_ENABLED`), "off" (`enabled=False`) or "none", as in the run.  Files may
change and gate_8 may run again at any time.

Abstracted: a row's number stands for its `created_at` (the order of the query) and its
`built_at` (the watermark); a row's verdict and its promotion or quarantine, two writes, are
one step.  An assessment evaluates its rows and then asks gate_8 about each, one after the
other, and is one step here: files and gate_8's verdicts are independent, change at any time,
and nobody else looks at them, so what is read over a time may as well be read at once.  The
contracts themselves, the audit rows and rows that share a dedup key are left out; counters
are kept as far as the criteria tell them apart.

## 7. Runs

| run | instance | asks |
| --- | --- | --- |
| `queue_chain` | a service of two files, the second requiring the first; stubs or full files; dedup, janitor and hollow gate on; one death, and one write of a lesson, a durable sentinel or the outbox that fails | `TypeOK`, `EngineSentinelsExclusive`, `DoneIsBacked`, `OnlyGatedIsShipped`, `FewHalfDone`, `GivenUpHasLesson`, `RefinesLedger` |
| `queue_raw` | a `write_raw` directive that the spine gate may reject and a high-complexity one; dedup, janitor and hollow gate off; one failed write of the archive, an in-repo sentinel, the outbox or the counter | `NoRebuildInFlight`, `LeavesResolved` |
| `queue_retry` | a new file, which the spine gate may reject, and an edit, both mesh rows; dedup and janitor off; `git clean` at any respawn; one sentinel of any kind not written | `NoBuildOfQuarantined`, `RejectedIsRetried` |
| `queue_drains` | the chain again, the second file outside the tree; engines that leave no stubs; hollow gate off so that the publisher parks; one death of the runner or of the publisher | `EngineSentinelsExclusive`, `QueueDrains`, `LeafIsPromoted` |
| `outbox_race` | one file built three times, the third time hollow; backfill on; three days; a cap of one request a day | `TypeOK`, `PublishedIsClean`, `OnePrPerWindow`, `CapHolds`, `ClosedIsOut`, `LostWasNotPublished` |
| `outbox_crash` | two files, one build each, one of them permanently failing; one crash, one lost answer, failing evictions, reviewers that close requests | `OneOpenPrPerWindow`, `BytesAreKept`, `RefinesPublishLedger`, `PendingIsSettled` |
| `ledger_txn` | an editing task and a planning one, one edit of the other host, whose version may be older than ours, one death, a ledger whose replacement may be denied | `TypeOK`, `OneHolder`, `NoneVanishes`, `AbortWroteNothing`, `AlwaysALedger`, `RunEnds` |
| `daemon_wrapped` | two wrappers and their daemons, two pids, a reload, two faults of any kind | `TypeOK`, `OneDaemon`, `OkMeansFresh`, `ComesBack` |
| `daemon_bare` | two wrappers and one bare daemon, three pids, two faults | `DuplicatesEnd` |
| `governor` | two rows, a streak of two, both artifacts needed, one fault of any kind | `TypeOK`, `FewSkipped`, `FalsePromoteBars`, `VetoFreezes`, `EarnsActivation` |
| `find_*` | see section 9 | one refuted property each |

Why these bounds show something:

* *Two directives, two files.*  Every rule of the queue relates a directive to its own
  output, to its requirement's producer, or to one other proposal in scan order.  A chain
  of two has a root and a dependent; an orphan needs one missing producer.
* *`MaxGhost = 2`* gives a rejection that is counted and one that gives up; in `queue_drains`,
  which asks nothing of the count, one gives up at once.
* *One crash* may fall between any two actions; the state it leaves (sentinels without
  bookkeeping, a pull request without a saved outbox, a park half done) is then run on to
  the end.  *One failed write* may be any write of the kinds the run names; a property that
  counts them (`FewHalfDone`, `FewSkipped`) is met with equality after one.
* *Two builds of one file* is what a duplicate, an overwrite or a stale entry needs, and the
  third, hollow one is what must not slip into their requests; *two files* is what ordering and isolation of failures need.
* *Three days with a window of one* puts the second build inside the window, on its last
  day and outside it, and the budget on both sides of midnight.
* *`MaxProposed`, `MaxPerCycle` = 2* admit both directives at once; the smaller cap is a
  divergence of section 9.  In `queue_retry` both directives are rows the runner reads in
  every poll, so nothing needs to be proposed (`MaxProposed = 0`).
* *Two tasks, one run each, six ticks*, with a time to live of two: a task dies in any step
  of its transaction, the other waits, finds the lock stale, takes it over and runs to
  its end.  `OneHolder` and `NoneVanishes` hold there because a single takeover has a
  single taker; with a third task they fail (section 9), and their theorems exclude it
  (`LoneTakeover`).
* *Two wrappers and two pids* let a spawner, the watchdog and the reload's fallback meet, and
  make every second process reuse the number of an earlier one, the pid file's included.
  *Two faults* are, for instance, a wrapper killed and then its orphan.  The bare instance
  has three pids, one for each daemon that can live at once.
* *Two rows in a batch of two, streak and evidence of two*: an agreement can be lost, counted
  twice or turn into a false promotion between the first green cycle and the second; one
  fault falls on any step of either loop.

`NoRebuildInFlight` is asked without `Mesh` rows and requirements and with every `.done`
written, `GivenUpHasLesson` with the hollow gate on and distinct base names, `LeavesResolved` with
the janitor off, and `QueueDrains` without stubs, since the code does break them there
(section 9).  For every
property of a passing run `PROJECT.json` names a mutant, a plausible bug in one mapped
definition, under which the same run finds the property violated.

### Fairness

*Queue.*  Weak fairness of a promoter step and of a runner step.  Both are loops under a
supervisor that poll at an interval and restart after a crash.  Also of `ParkingStep`: the
publisher does not stop for ever in the middle of a park, the flock in its hand, unless it
dies, which frees the flock.  Nothing
else is promised of the publisher, nor of the architect, reviewers or `git clean`, nor of
engines: an engine may fail for ever, and `RejectedIsRetried` holds because the ghost count ends that.

*Outbox.*  Weak fairness of builder and publisher steps and of midnight.  Strong fairness of
`BeginAttempt(Publisher)`: the flock is free infinitely often, and a waiter gets it at
some time (the kernel's flock wakes waiters).  Strong fairness of `PublishSettles(Publisher)`:
a remote that is asked again and again answers at last.  It is enabled only when the
refusal is not deterministic, so nothing is assumed of a branch in `Stuck`.
`PendingIsSettled` also assumes that the operator leaves publishing enabled from some
time on; a disabled publisher settles nothing, by design.

*Ledger.*  A started task runs on and the clock goes on; nobody has to start a task.
*Daemons.*  Processes that run go on and handle their SIGTERM, sleeps end, a script that was
started goes on, and the watchdog ticks (it is a loop under `supervisord`).  Nobody has to
spawn, reload, or give a number back.  *Governor.*  Both loops run for ever (`while true` with a
sleep); `VetoFreezes` and `EarnsActivation` assume of the operator, the builder and gate_8
only what their premises say.

## 8. Proofs

All theorems are for every value of the constants that the modules' `ASSUME`s allow; what a
theorem assumes beyond that is said here and in its `ASSUME ... PROVE`.

**`DirectiveQueue_proofs`**

* `TypeCorrect`: `Spec => []TypeOK`.  Types, and that a current directive exists exactly
  while the runner's control is inside a build.
* `SentinelsNeverContradict`: `[]EngineSentinelsExclusive`.  The danger is that the runner
  stamps `.done` for a directive with a failure, or the reverse.  The strengthening
  (`SentinelInv`): a directive that is not `write_raw` has no failure in either store while it is
  being built, until the build itself gives it up, and only a `write_raw` directive ever has a
  "raw" turn.  `StartBuild` establishes this through `FailedQuarantined`.  The publisher writes
  failures too, when it refuses hollow bytes: both `.failed` before it takes the `.done` away,
  so while the file is "hollow" (the park is going on, or the publisher died in it and the
  entry is still pending) the property makes an exception.  That it does not hit a
  directive under build is the assumption `OwnVerdicts`: the hollow gate is on, or outputs are
  distinct, `git clean` does not run and sentinels are written (`Reliable`), so that no file
  of the directive under build waits with the publisher.  For `write_raw` the property is
  false (section 9).
* `QuarantineIsDurable`: `[]NoBuildOfQuarantined` under `OwnVerdicts`, from the same invariant;
  `GitClean` may empty both in-repo sets and cannot touch `durable`.
* `CompletionIsBacked`: if no two directives declare one output, `[]DoneIsBacked`.  Not
  inductive: `Backed(f)` (gated bytes, or absent with its request in flight or
  refused) is carried for the file of every `.done`, together with "while `d` is
  being built it has no `.done`", so that an engine overwriting its output, or a
  content gate leaving it ungated, can only concern a directive that has none.
  `StartBuild` gives this because a `.done` with its file present is not eligible and one
  with its file gone has been healed.
* `GatedIsShipped`: with distinct outputs, no `git clean` and `Reliable` sentinels,
  `[]OnlyGatedIsShipped`.  `Reliable` means that of the writes that may fail, `.done` is none and at most one
  of the two `.failed` is, the durable one not where `git clean` may eat the other.  Carried
  along: a file that waits in the outbox belongs to a directive with a verdict, no file of
  the directive under build waits there, and from the gates' pass to the hand-over the gated
  bytes stay in place.  Without the assumptions a lost or unwritten `.done` lets a file that
  waits to be published be built again.
* `ImplementsLedger`: under the same assumptions, `RefinesLedger`: the queue's initial states
  map to the ledger's, and every step to a step of the ledger or a stutter.  It rests on the
  two invariants above: the stamp of `.done` is a `Finish` because the gated bytes are in
  place, an engine's write is a `Work` because the file does not wait with the publisher, a
  healed `.done` is a `Reopen` because its file is gone.
* `NothingRebuiltInFlight`: under these assumptions, where no directive requires a file and there
  are no mesh rows (`Unchained`), `[]NoRebuildInFlight`.  The invariant: what the runner has
  loaded and not yet considered has no `.done`, and a file in flight belongs to a directive
  that has one.
* `LittleIsHalfDone`: `[]FewHalfDone`, without any assumption.  Half done are the directives
  stamped `.done` whose file the publisher never heard of, and those given up inside the
  repository only; together they are at most as many as the deaths and the failed writes.
  `HandInv`: from the gates' pass to the hand-over the file is there, or the publisher has
  heard of it.  `TidyStep`: a step leaves as many half done as there were, or one
  more, and then it is a death, with the directive in hand, or a write that failed.
* `RetriesAreBounded`: no directive's ghost count exceeds `MaxGhost` plus the number of crashes,
  without any assumption.  A crash between the last count and the giving up lets the
  directive be built, and counted, once more.  TLC reaches the bound on the instances.
* `LessonOutlivesQuarantine`: with distinct base names and the hollow gate, `[]GivenUpHasLesson`:
  the directives given up durably without an open lesson are at most as many as the lesson
  writes that failed, through deaths and `git clean`.  The same bound holds with the directive in hand counted from
  the moment its lesson should have been there (`Untaught`).  `write_raw` directives, which are built on
  after they are given up, and those the spine gate may reject are excepted.
* `WorkLeavesAccounted`: an action property, for `Reliable` sentinels.  The step in which a
  directive disappears from every place of live work leaves it done or given up in one store
  at least, or is the janitor's, over a file that is there and has no open lesson.  `ParkInv`:
  who is past the two `.failed` of its park has one of them.  `WorkLeavesResolved`,
  `LeavesResolved` with the janitor off, follows.  Where both `.failed` fail to be written, the
  queue file is removed all the same and nothing is left of the directive.

**`ProducerOutbox_proofs`**

* `TypeCorrect`: `Spec => []TypeOK`, through `TypeInv`, which adds what each control
  state knows of its file and its bytes.
* `OneAttemptAtATime`: a process is in the critical part of `_attempt` exactly when it
  holds the flock; so two never are, whoever crashes where.
* `OnlyScannedBytesArePublished`: `[]PublishedIsClean`.  The scan and the push are separate
  steps between which the file may be rewritten; the invariant is that whoever is about to
  publish carries *in its own copy* bytes that the scans passed.
* `CapUnderCrashes`: where answers arrive (`MaxLost = 0`), the requests admitted on a day are at most `DailyCap`
  plus the number of crashes.  The budget that counts is in the outbox the flock's holder has
  loaded, or in the saved one while nobody holds it; the invariant says that with one more for
  every crash its count covers the requests admitted on its day, that earlier days are within
  that bound and later ones empty, and that a process about to publish has room.  A request
  that is opened and not yet saved is the one a crash may leave uncounted.  `CapIsKept`,
  `[]CapHolds` without crashes, is its corollary.

**`ProducerOutboxOnce_proofs`**

What they share: `HolderInv`, that the copy the flock's holder works on has the saved entries
of every file, and that its own entry is still pending; and that each build is handed over
once, under its own file (`OwnBytes`, `MakeInv`).

* `ClosedHasLeft`: where evictions do not fail, `[]ClosedIsOut`, crashes included.  `CloseInv`
  says the same of the outcome a process is about to save: between the unlink and the save
  the builder may put a newer build there, which is not committed yet, and nothing else.
* `LostIsUnpublished`: without crashes and lost answers, `[]LostWasNotPublished`.  `SentInv`: an
  entry that is pending, held or lost has no request with its stamp, except while the holder
  that has just opened one has still to save.  A crash in that interval makes it false.
* `OneRequestPerWindow`: without crashes and lost answers, `[]OnePrPerWindow`.  `WindowInv`: no
  request of a file is younger than the date its outbox remembers (the holder's copy while
  there is a holder), and no entry is older, as entries are dated when they are enqueued and
  the publisher remembers the entry's date, not today's.

**`ProducerOutboxFaults_proofs`**

What the outbox keeps under every fault of the model: deaths at any step, answers that are
lost, evictions that fail, backfills and operators at any time.

* `SoleBuildsStay`, `BytesStay`: the bytes of a build that is the only one of its file are in the
  tree, in the quarantine or in a request; if that is every build, `[]BytesAreKept`.  `KeepInv`:
  besides, whoever is about to unlink the file has bytes that are safe already, what HEAD or
  `main` has of the build came from a request, and before the build is made nobody has
  anything to do with its file.  With a second build of the file the statement is false: it
  may be written between the copy and the unlink.
* `OneRequestDespiteFaults`: with one build per file and no backfill, `[]OneOpenPrPerWindow`.
  `StampInv`: every request and every entry of a file has the stamp of its one build, so that a
  retry meets the branch it left behind, whatever it remembers, and no build has two open
  requests.  It says no more than "open": after a reviewer closed the first one, a retry that
  knows nothing of it opens a second inside the window (section 9).
* `ImplementsPublishLedger`: `RefinesPublishLedger`, without any assumption.  Most steps of a process
  map to stutters; its opening of a request to `Open`, its save to `Publish`, `Drop` or a
  stutter.  By `HolderInv` the copy of a process in an attempt has the saved entries, its own still
  pending.  `AttemptInv` adds what it will save: it remembers one publication more exactly
  if its outcome is one, an outcome "published" has the entry's request among `prs`, "held"
  and "refused" go with where the entry came from, and one about to publish has clean bytes
  and found the entry outside the window.  Each kind of step has a lemma.
* `PublishedHasItsRequest`, `SettledStays`: two consequences a reader of the outbox relies on, proved
  from the abstract ledger's steps.  An entry that says published has its own request; and
  a settled entry changes only when its file is handed over anew.

**`FollowupLedger_proofs`**

* `LedgerStays`: `[]AlwaysALedger`, without any assumption.  `NameInv`: while the ledger's name is
  free, a text is in the parked copy and a task is between the two renames or ended there,
  killed or denied the rename back (`adrift`); this also covers several tasks in the fallback at once after a lock was stolen.
  `CopyIsBeside` is the half of it that says the text is never lost with the name.
* `OnlyTheDeadAreStale`: where no living holder outlasts the time to live (`Prompt`, which is what
  `fu_lock.py` expects of its callers), a stale lock belongs to a task that is not inside,
  for any number of tasks, deaths and takeovers.  So the judgement is sound when it is
  made, and what goes wrong in a takeover goes wrong between it and the unlink.
* `MutualExclusion`, `NoUpdateIsLost`: `OneHolder` and `NoneVanishes` under `LoneTakeover`: `Prompt`, and
  either no task dies or there are only two tasks with one run each, the case of the run
  `ledger_txn`.  `LockInv`: whoever is inside created the lock file that is there, a lock nobody
  is inside of belongs to a task that died, and whoever is about to unlink a stale lock is the
  last that runs.  `TextInv`: what was committed is in what the holder has read, and during the
  two renames of the fallback in the parked copy, unless a version of the other host took it
  out (`dropped`); the text to be written contains it.  So no task of this host overwrites a
  committed edit, whatever Syncthing delivers in between.
* `AbortsWriteNothing`: `AbortWroteNothing` without any assumption, takeovers included.
  Inductive over all copies of the text: neither the ledger, nor `.prev`, nor what any task
  has read or planned contains the edit of a task that has not committed.

**`DaemonSupervisor_proofs`**

* `SoleDaemon`: where nobody starts the daemon without the wrapper (`Bare = {}`), `[]OneDaemon`,
  for any number of wrappers, pids, kills and reloads.  `GuardInv`: a wrapper past the lock,
  one whose daemon lives and one whose `sleep` lives each are the one that opened the file
  the flock belongs to.  The pid file is not needed for it, and would not suffice.
  `OneWrapped` says the same of wrapped daemons beside bare ones, without any assumption.
* `PidfileNamesTheDaemon`, `StaleFileBarsNobody`: what the pid file is good for, without bare starts.
  From its write to the unlink the file has the daemon's own number, although release looks
  and removes in two steps; and a daemon that judges an old file finds no owner, unless some
  program names the same script (section 9).  Both are from `FileInv` and `GuardInv`.
* `OkIsFresh`: under the same assumption, `OkMeansFresh`.  The script knows a daemon by its
  number only.  `KnownInv`: a daemon left from before the reload, if it still lives, has the
  number the script remembers (`OLD_CHILD`, after the fallback began `PRE_COLD`); with one
  daemon at a time, any other number is a daemon that began later, recycled pids or not.

**`ActivationGovernor_proofs`**

* `DormantUntilEarned`: `[]EvidenceFirst`, for all criteria, rows and faults, where the ingestor's
  own switch is not "on".  Each carrier of the decision (the latch, the ingestor's look at it,
  the stored state and the cycle's copy of it, a verdict) implies the evidence, and evidence
  is never taken back; a lost answer can only forget it.  No run checks it.
* `FalsePromotionBars`: `FalsePromoteBars`, for a streak of two or more (the default is
  more).  A cycle that began while the count is stored carries it, or began on a state that
  was not answered; then its streak is at most one when it decides.  With a streak of one
  such a cycle could open the latch.
* `FewAreSkipped`, `OnlyOldestAreJudged`: the two sides of the watermark.  `[]FewSkipped`: of the rows
  it has passed at most one per fault has no stored verdict, whatever cycle dies, raises, is
  dormant or gets no answer.  `WInv` says it of where the watermark would be if the cycle
  ended now; only `Ingest` can add a row, and then the store did not take its verdict.  And as
  the query does not use the watermark, no row behind the batch limit ever gets one.
* `VetoShutsTheLatch`: an action property.  As long as no fault has happened, the step in which
  a governor cycle looks and finds the veto leaves the latch shut.  `LInv`: an open latch is known
  to the stored state between two cycles and to the cycle's copy during one, which a death
  or a lost write in between would undo.

## 9. Only model-checked, and where the code and what it says part ways

Liveness (`RejectedIsRetried`, `QueueDrains`, `LeafIsPromoted`, `PendingIsSettled`, `RunEnds`,
`ComesBack`, `DuplicatesEnd`, `VetoFreezes`, `EarnsActivation`) is outside what TLAPS proves
here, as is anything about `ENABLED`.  Every other property of the passing runs is a theorem, under
the assumptions section 8 names, which every run that checks it satisfies.

Two disagreements are kept as runs ("findings" in `PROJECT.json` quotes the lines):

* `find_stranded`.  With the deduplication on, as it is by default, the file a rejected build
  leaves makes its directive ineligible: neither retried nor failed (`G core.py:365`).
* `find_down`.  A reload finds nothing running and goes on to its cold fallback.  Meanwhile the
  wrapper of another spawner has started a daemon, which failed, and sleeps.  The fallback kills
  that wrapper but not its `sleep`, which keeps the flock; the fresh wrapper gives way to it and
  exits, and nothing runs until the watchdog's next tick (`tools/reload_daemon.sh:281`).

Others were met on the way and bound what the passing runs may claim.  Each follows from the
module with the instance named.

Queue:

* A `write_raw` directive, `MaxGhost = 3`: its rejected build is counted and, at the cap,
  parked in the middle of a poll which then goes on to the fallback engine; the directive ends with a `.done` beside its `.failed` (`G runner.py:203`).
* `GitClean` with the hollow gate off, or a failed `.done`: a waiting file is built again, and
  the publisher's refusal in the middle of that build leaves `.done` beside `.failed`; hence
  `OwnVerdicts`.
* With the hollow gate off, the publisher's death between its second `.failed` and the stale
  `.done` leaves both until the next drain (`Z build_completion.py:98-112`).
* Given up without a lesson: what the spine gate rejects where it is enforced
  (`G runner.py:146-152`), what the publisher parks as hollow (`publisher.py:423`), and what has
  its lesson write fail, which is swallowed (`G completion.py:814`).
* A `.done` that cannot be written is logged and the build completes all the same: the
  directive is built again while its file waits or is under review (`G completion.py:143`).
* A durable sentinel that cannot be written, or a death before it: `git clean` opens the
  directive again (`Z build_completion.py:98-112`).  If neither `.failed` can be written, the
  queue file is still removed and nothing is left.
* The janitor may retire a directive whose build is at the gates, as its file is there; if the
  gates then reject it, it is in no queue and has no verdict (`Z queue_janitor.py:146`).
* A `Mesh` directive that creates a file, or a revived orphan: while its request is open the
  file is gone, `.done` is healed away and the directive built again; the publisher then refuses
  the copy as a duplicate, and its file goes again (`G core.py:327`).
* Stubs: `park_orphan_chain_directives.py:82` asks for existence, the runner for 32
  bytes; over a stub of its root a dependent is neither parked nor built.
* `MaxPerCycle = 1`: held proposals count toward the cap, oldest first, and starve a leaf
  behind them (`Z promoters/proposed_to_pending_promoter.py:759`).
* A `.done` nobody versions: after a death between stamp and hand-over (`G completion.py:746`), a
  hand-over that raises (246-248), or always for a file outside the tree (233-235).
* Two files of one base name: the success of one resolves the lesson of the other
  (`Z build_lessons.py:84`).
* A requirement counts as met by 32 bytes, gated or not (`Z build_completion.py:217`).

Outbox:

* A crash between the eviction and the save: the retry finds no file and closes a published
  build as lost (`Z publisher/publisher.py:457`).
* Backfill's look at the outbox is old by the time it enqueues; it turns the builder's own
  pending entry into a backfilled one, which is held in the tree instead of evicted (362).
* A branch in `Stuck` (its lease refused every time) is a transient failure, at which `drain`
  stops every time; everything behind it waits (346).
* A request opened and then forgotten (a death before the save, a lost answer): if a reviewer
  closes it, the retry opens a second one inside the window, as "already exists" is said
  of open requests only (`Z publisher/gitops.py:446`); likewise a new build of the file (396).
* `EvictFails`: a failed eviction is swallowed and the entry closed (313).
* One file built twice: bytes written between the copy and the unlink of an eviction
  are gone (309); a retry reads the file as it is, so a build no gate has judged yet may be
  published under the older entry (408); a file evicted between the gates and the hand-over
  is completed without an entry (`G completion.py:230`); a clean build's directive is parked
  as hollow for bytes a later build wrote over it (423).

Ledger:

* A third task, or a holder that outlives the time to live: two waiters judge the same lock
  stale, the second unlinks the lock the first has just created, and two are inside; likewise
  a task that was taken over releases its successor's lock (`tools/fu/fu_lock.py:99,110`).
  Its second digest check narrows the window for a lost edit and does not close it.
* A death between creating the lock file and stamping it leaves an empty file that is never
  stale: every later task gives up (87).
* A death between the two renames of the fallback leaves no `FOLLOWUPS.md`, and no task starts
  without one (176).
* An edit Syncthing delivers between the second reading and the rename is overwritten (212), and
  an older version of the other host's that it delivers drops the edits committed here since
  (`fu_lock.py:31-36` says as much of edits on both hosts).
* If the rename that puts the original back is denied too, there is no `FOLLOWUPS.md` although
  nobody died (185).

Daemon:

* A program with the daemon's script among its arguments, on the number in the pid file, is
  taken for the daemon: every start exits "already running" (`singleton_lock.py:120`; `Kinds =
  {"namesake"}`).
* Two bare daemons started together both pass `acquire` and both run until the watchdog's next
  look (135); the watchdog's bare function and a wrapper do this regularly (`daemon_bare`).
* With duplicates, OK may be said while an old copy still runs, as only the first number
  that `pgrep` lists is compared (`tools/reload_daemon.sh:251`); and a daemon it says OK of
  may have the script's own SIGTERM still pending, and go once more.

Governor:

* The live store's `read_build_artifacts` ignores the watermark, although the ingestor is said to
  "process the next batch of new artifacts": every cycle reads the same oldest rows, and rows behind
  the batch limit are never judged (`Z ingestor/store.py:152`, `ingestor.py:210`).
* The latch is written before the state that says so is stored (`governor.py:382,393`), and the veto
  removes the latch only of a state that says "activated" (337): after a death or a lost write in
  between, or over a latch opened by hand, a veto leaves the ingestor on, although the README says
  it "freezes an already-active ingestor".
* `load_state` answers a store that is silent with a fresh state, which is then saved over the
  streak and over the lifetime count of false promotions (218).
* A verdict the store does not take is not noticed; the watermark moves past the row, and where
  the query respects it the row is skipped for good (`Z ingestor/ingestor.py:246`).
* The ingestor's own switch (`--enable`, `ARTIFACT_INGESTOR_ENABLED`) is asked before the latch and
  goes past both the evidence and the veto (`Z ingestor/ingestor.py:55-60`).
* An ingestor that is on stays on, and has its latch written again, whatever false promotions
  are counted later; the criterion bars activation only.

## 10. What is not modelled, and the plan

Not modelled: the content of the gates, prompts and scorers (data); generated services,
reports and harvests; the web application and the write service (their state is a
database's); the watchdog's probes; unlinks of sentinels and queue files that fail; an outbox
that cannot be read (`_load` takes it for an empty one, and the next save wipes it); sleeps
and timeouts in real time, which matter only through the orders they allow.

Most of the repository's lines are output of the system it contains: thousands of generated,
independent, mostly stateless scripts under `services/`, `tools/`, `quarantine/` and the top
level, one per directive that was ever built.  A model of one would say nothing of
another.  The modules are about the few thousand lines that carry state between processes,
so the share of all lines that the map covers stays small by nature.

`DirectiveQueue` sees of the publisher what section 2 lists; conflicts between requests are
left out, and `Deploy` and `Refuse` come in any order with the rest.

Modules to come, in order:

1. `QuarantineRequeue`: the throttle, the in-flight cap, two overlapping top-ups.
2. The model ladder: rungs, cool-downs and budgets across two processes.
3. The breaker, the leases of `vast_jobs` with their guard, approvals, and policy
   precedence as a pure check.

Proofs to come, in order: an abstract specification of the follow-up ledger (a text that grows
by committed edits, one transaction at a time) which `FollowupLedger` implements under
`LoneTakeover`; the properties that follow from `BuildLedger` and `PublishLedger` alone, stated
there; `OnePrPerWindow` under crashes for files that are built repeatedly, with the exact
condition (a death after the push) under which a second request appears; the same for the
two conditions of `LostWasNotPublished`.
