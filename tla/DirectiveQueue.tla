--------------------------- MODULE DirectiveQueue ---------------------------
(***************************************************************************)
(* The build queue of zo-sentinel: a directive is proposed by the          *)
(* architect (directive_mcp), promoted into pending/ by the promoter, and  *)
(* built by the runner (goose_runner), which ends its life with a sentinel *)
(* file: <id>.done.json or, after MAX_GHOST_ATTEMPTS rejected builds,      *)
(* <id>.failed.json.  The promoter, the runner, the architect and the      *)
(* publisher are separate processes; they share nothing but directories,   *)
(* so every action below is what one of them does between two points where *)
(* another may look.                                                       *)
(***************************************************************************)
EXTENDS Naturals, FiniteSets, Sequences

CONSTANTS
  Directive,      \* directives, one queue file name each
  File,           \* declared output files
  NoFile,         \* the output of an edit-class directive (wire_, patch_, ...)
  None,           \* no directive
  Out,            \* Directive -> File \cup {NoFile}: declared_output
  Subject,        \* File -> lesson subject: the BASE NAME of the file
  Requires,       \* Directive -> SUBSET File: the `requires` list
  Chain,          \* Seq(Directive): the children a service fans out into
  WriteRaw,       \* directives with handler "write_raw"
  High,           \* directives of complexity "high": handed to the coworker
  Unspined,       \* app builds the spine gate may reject, under ZO_SPINE_GATE_ENFORCE
  Outside,        \* files outside the project tree, which cannot be versioned
  Mesh,           \* directives that are also rows of mesh_memory
  SelfNamed,      \* directives whose queue file is <directive_id>.json
  MaxGhost,       \* MAX_GHOST_ATTEMPTS
  MaxProposed,    \* the architect's depth cap on proposed/
  MaxPerCycle,    \* the promoter's cap on attempts per pass
  Dedup,          \* policy queue.dedup_rebuild
  Janitor,        \* policy queue.janitor
  HollowGate,     \* policy builder.no_hollow_gate
  EngineWrites,   \* what an engine may leave on disk: SUBSET {"stub", "built"}
  CanClean,       \* `git clean` may run when the runner respawns
  Failing,        \* kinds of write that may fail, the failure being swallowed
  MaxCrashes,     \* bound on deaths of the runner and of the publisher
  MaxFaults       \* bound on swallowed failures

ASSUME QueueAssumption ==
  /\ NoFile \notin File /\ None \notin Directive
  /\ Out \in [Directive -> File \cup {NoFile}]
  /\ DOMAIN Subject = File
  /\ Requires \in [Directive -> SUBSET File]
  /\ Chain \in Seq(Directive)
  /\ WriteRaw \subseteq {d \in Directive : Out[d] # NoFile}
  /\ High \subseteq Directive /\ Mesh \subseteq Directive /\ SelfNamed \subseteq Directive
  /\ Unspined \subseteq Directive /\ Outside \subseteq File
  /\ MaxGhost \in Nat \ {0} /\ MaxProposed \in Nat /\ MaxPerCycle \in Nat
  /\ MaxCrashes \in Nat /\ MaxFaults \in Nat
  /\ Dedup \in BOOLEAN /\ Janitor \in BOOLEAN /\ HollowGate \in BOOLEAN /\ CanClean \in BOOLEAN
  /\ EngineWrites \subseteq {"stub", "built"}
  /\ Failing \subseteq {"lesson", "ghost", "failed", "durable", "done", "archive", "commit"}

VARIABLES
  proposed,   \* directives with a file in proposed/
  older,      \* mtime order of those files: pairs <<older, newer>>
  pending,    \* directives with a file in pending/
  parked,     \* directives with a file in _parked_orphan_chain/
  archived,   \* SelfNamed directives with a file in done/
  doneSent,   \* directives with <id>.done.json
  failSent,   \* directives with <id>.failed.json inside the repository
  durable,    \* directives with <id>.failed.json in the durable store
  ghost,      \* <id>.ghost.json: rejected builds so far
  lessons,    \* subjects with an open lesson
  disk,       \* File -> what is on disk under its name
  ship,       \* File -> what the publisher knows of it
  tracked,    \* files that git tracks: merged once, and deployed
  rpc, batch, cur, trial, reported,   \* the runner's control state
  ppc, scan, attempts,                \* the promoter's control state
  refusing, pstep,                    \* whom the publisher is parking, and how far
  crashes, faults

dirVars      == <<proposed, older, pending, parked, archived>>
sentinelVars == <<doneSent, failSent, durable, ghost, lessons>>
fileVars     == <<disk, ship, tracked>>
runnerVars   == <<rpc, batch, cur, trial, reported>>
promoterVars == <<ppc, scan, attempts>>
publisherVars == <<refusing, pstep>>
failureVars  == <<crashes, faults>>
vars == <<dirVars, sentinelVars, fileVars, runnerVars, promoterVars, publisherVars, failureVars>>

Contents   == {"absent", "stub", "built", "gated"}
Shipping   == {"none", "outbox", "hollow", "inflight", "merged", "refused"}
BuildPC    == {"engine", "gate", "ghost",
               "lesson", "park", "durable", "unstamp", "uncount", "unqueue",
               "done", "archive", "settle", "clear", "commit"}
RunnerPC   == {"prune", "orphans", "load", "scan"} \cup BuildPC
Trials     == {"raw", "goose", "fallback", "repair", "spine"}
ParkingPC  == {"durable", "unstamp", "evict"}
PromoterPC == {"idle", "janitor", "promote"}

Init ==
  /\ proposed = {} /\ older = {} /\ pending = {} /\ parked = {} /\ archived = {}
  /\ doneSent = {} /\ failSent = {} /\ durable = {} /\ lessons = {}
  /\ ghost = [d \in Directive |-> 0]
  /\ disk = [f \in File |-> "absent"]
  /\ ship = [f \in File |-> "none"] /\ tracked = {}
  /\ rpc = "prune" /\ batch = {} /\ cur = None /\ trial = "goose" /\ reported = FALSE
  /\ ppc = "idle" /\ scan = {} /\ attempts = 0
  /\ refusing = None /\ pstep = "durable"
  /\ crashes = 0 /\ faults = 0

-----------------------------------------------------------------------------
(* What the processes read.                                                *)

Exists(f)  == disk[f] # "absent"                  \* Path.exists / is_file
Present(f) == disk[f] \in {"built", "gated"}      \* at least MIN_OUTPUT_BYTES

OutputConfirmed(d) == Out[d] # NoFile => Present(Out[d])

\* Mutant: the durable store is forgotten.
FailedLocally(d) == d \in failSent

FailedQuarantined(d) == d \in failSent \cup durable

UnmetRequires(d) == {f \in Requires[d] : ~Present(f)}

\* The dedup and janitor rule: the output is a file and has no open lesson.
Redundant(d) ==
  /\ Out[d] # NoFile
  /\ Exists(Out[d])
  /\ Subject[Out[d]] \notin lessons

\* Mutants of Eligible: no quarantine check; no .done check; the policy switch of
\* the dedup is ignored.
EligibleUnlessDone(d) ==
  /\ d \in doneSent => ~OutputConfirmed(d)
  /\ ~(Dedup /\ Redundant(d))
EligibleThoughDone(d) == ~FailedQuarantined(d) /\ ~(Dedup /\ Redundant(d))
EligibleAlwaysDedup(d) ==
  /\ d \in doneSent => ~OutputConfirmed(d)
  /\ ~FailedQuarantined(d)
  /\ ~Redundant(d)

\* A stale .done is healed on the way to the other eligibility checks.
Eligible(d) ==
  /\ d \in doneSent => ~OutputConfirmed(d)
  /\ ~FailedQuarantined(d)
  /\ ~(Dedup /\ Redundant(d))

HealEvery(d) == doneSent \ {d}

HealedDone(d) == IF d \in doneSent /\ ~OutputConfirmed(d) THEN doneSent \ {d} ELSE doneSent

\* The file of a proposal leaves proposed/.
Leave(S) ==
  /\ proposed' = proposed \ S
  /\ older' = {p \in older : p[1] \notin S /\ p[2] \notin S}

\* A write that fails, and nobody hears of it.
Swallowed(kind) == kind \in Failing /\ faults < MaxFaults /\ faults' = faults + 1

\* The lesson subject of a directive's output.
SubjectOf(d) == IF Out[d] = NoFile THEN {} ELSE {Subject[Out[d]]}

Learn(S) ==
  \/ lessons' = lessons \cup S /\ UNCHANGED faults
  \/ Swallowed("lesson") /\ UNCHANGED lessons

\* The writes of park_directive, each in a try of its own: the sentinel inside the
\* repository, the one in the durable store, and last the stale .done.
FailInRepo(d) ==
  \/ failSent' = failSent \cup {d} /\ UNCHANGED faults
  \/ Swallowed("failed") /\ UNCHANGED failSent

FailDurably(d) ==
  \/ durable' = durable \cup {d} /\ UNCHANGED faults
  \/ Swallowed("durable") /\ UNCHANGED durable

\* Mutant: the stale .done is left standing.
LeaveStale(d) == UNCHANGED doneSent

ClearStale(d) == doneSent' = doneSent \ {d}

-----------------------------------------------------------------------------
(* The architect, through the MCP server.                                  *)

\* What the promoter fans a service out into is never proposed one by one.
Children == {Chain[i] : i \in 1..Len(Chain)}

ChainPairs == {p \in Children \X Children :
                 \E i, j \in 1..Len(Chain) : i < j /\ p = <<Chain[i], Chain[j]>>}

AlreadyDone(d) == d \in doneSent \/ d \in archived

Propose(d) ==
  /\ d \notin Children
  /\ Cardinality(proposed) < MaxProposed
  /\ ~AlreadyDone(d)
  /\ d \notin proposed
  /\ proposed' = proposed \cup {d}
  /\ older' = older \cup (proposed \X {d})
  /\ UNCHANGED <<pending, parked, archived, sentinelVars, fileVars, runnerVars,
                 promoterVars, publisherVars, failureVars>>

-----------------------------------------------------------------------------
(* The promoter: run_once.                                                 *)

\* A build_service proposal is replaced by its children, root first; a child
\* that is already in proposed/ is rewritten, and gets a new mtime.
FanOut ==
  /\ ppc = "idle" /\ Chain # << >>
  /\ proposed' = proposed \cup Children
  /\ older' = {p \in older : p[1] \notin Children /\ p[2] \notin Children}
              \cup ((proposed \ Children) \X Children) \cup ChainPairs
  /\ ppc' = "janitor"
  /\ UNCHANGED <<pending, parked, archived, sentinelVars, fileVars, runnerVars,
                 scan, attempts, publisherVars, failureVars>>

BeginPass ==
  /\ ppc = "idle"
  /\ ppc' = "janitor"
  /\ UNCHANGED <<dirVars, sentinelVars, fileVars, runnerVars, scan, attempts, publisherVars,
                 failureVars>>

Retirable(d) == FailedQuarantined(d) \/ Redundant(d)

\* Mutant: only proposed/ is cleaned.
JanitorSkipsPending ==
  /\ ppc = "janitor"
  /\ LET R == IF Janitor THEN {d \in Directive : Retirable(d)} ELSE {}
     IN  Leave(R) /\ scan' = proposed \ R
  /\ attempts' = 0
  /\ ppc' = "promote"
  /\ UNCHANGED <<pending, parked, archived, sentinelVars, fileVars, runnerVars, publisherVars,
                 failureVars>>

\* Retire quarantined and redundant files from both queues, then snapshot.
JanitorPass ==
  /\ ppc = "janitor"
  /\ LET R == IF Janitor THEN {d \in Directive : Retirable(d)} ELSE {}
     IN  /\ pending' = pending \ R
         /\ Leave(R)
         /\ scan' = proposed \ R
  /\ attempts' = 0
  /\ ppc' = "promote"
  /\ UNCHANGED <<parked, archived, sentinelVars, fileVars, runnerVars, publisherVars, failureVars>>

\* The proposal under the scan's cursor: oldest mtime first.
Oldest(d) == d \in scan /\ \A e \in scan : <<e, d>> \notin older

Visit(d) ==
  /\ ppc = "promote"
  /\ Oldest(d)
  /\ attempts < MaxPerCycle
  /\ scan' = scan \ {d}
  /\ attempts' = attempts + 1
  /\ UNCHANGED <<parked, archived, sentinelVars, fileVars, runnerVars, ppc, publisherVars,
                 failureVars>>

Terminal(d) == d \in doneSent \/ FailedQuarantined(d)

\* Mutant: held unless some requirement is there, so a leaf is held for ever.
NoRootPresent(d) == \A f \in Requires[d] : ~Exists(f)

ChainRootMissing(d) == \E f \in Requires[d] : ~Exists(f)

ArchiveResolved(d) ==
  /\ Visit(d)
  /\ Terminal(d)
  /\ Leave({d})
  /\ UNCHANGED pending

\* Held in proposed/: the chain root is not on disk, or the slot is taken.
HoldProposal(d) ==
  /\ Visit(d)
  /\ ~Terminal(d)
  /\ ChainRootMissing(d) \/ d \in pending
  /\ UNCHANGED <<proposed, older, pending>>

Promote(d) ==
  /\ Visit(d)
  /\ ~Terminal(d)
  /\ ~ChainRootMissing(d)
  /\ d \notin pending
  /\ Leave({d})
  /\ pending' = pending \cup {d}

\* The snapshot is used up, or the cap defers the rest of it.
EndPass ==
  /\ ppc = "promote"
  /\ scan = {} \/ attempts >= MaxPerCycle
  /\ ppc' = "idle"
  /\ scan' = {}
  /\ attempts' = 0
  /\ UNCHANGED <<dirVars, sentinelVars, fileVars, runnerVars, publisherVars, failureVars>>

-----------------------------------------------------------------------------
(* The runner: one poll of the main loop.                                  *)

\* Mutant: finished directives stay in pending/.
PruneNothing ==
  /\ rpc = "prune"
  /\ rpc' = "orphans"
  /\ UNCHANGED <<dirVars, sentinelVars, fileVars, batch, cur, trial, reported,
                 promoterVars, publisherVars, failureVars>>

PruneDonePending ==
  /\ rpc = "prune"
  /\ pending' = pending \ doneSent
  /\ archived' = archived \cup (pending \cap doneSent \cap SelfNamed)
  /\ rpc' = "orphans"
  /\ UNCHANGED <<proposed, older, parked, sentinelVars, fileVars, batch, cur, trial,
                 reported, promoterVars, publisherVars, failureVars>>

Produced == {Out[d] : d \in pending}

Unsatisfiable(d) == \E f \in Requires[d] : ~Exists(f) /\ f \notin Produced

\* The plan is computed from the queue as it is, then applied.
ParkOrphanChains ==
  /\ rpc = "orphans"
  /\ LET park   == {d \in pending : Unsatisfiable(d)}
         revive == {d \in parked : ~Unsatisfiable(d)}
     IN  /\ pending' = (pending \ park) \cup revive
         /\ parked' = (parked \cup park) \ revive
  /\ rpc' = "load"
  /\ UNCHANGED <<proposed, older, archived, sentinelVars, fileVars, batch, cur, trial,
                 reported, promoterVars, publisherVars, failureVars>>

LoadDirectives ==
  /\ rpc = "load"
  /\ batch' = Mesh \cup pending
  /\ rpc' = "scan"
  /\ UNCHANGED <<dirVars, sentinelVars, fileVars, cur, trial, reported, promoterVars,
                 publisherVars, failureVars>>

EndCycle ==
  /\ rpc = "scan"
  /\ batch = {}
  /\ rpc' = "prune"
  /\ UNCHANGED <<dirVars, sentinelVars, fileVars, batch, cur, trial, reported,
                 promoterVars, publisherVars, failureVars>>

\* The common part of looking at one directive of the batch.
Consider(d) ==
  /\ rpc = "scan"
  /\ d \in batch
  /\ batch' = batch \ {d}
  /\ doneSent' = HealedDone(d)
  /\ UNCHANGED <<proposed, older, parked, failSent, durable, ghost, lessons, fileVars,
                 reported, promoterVars, publisherVars, failureVars>>

SkipIneligible(d) ==
  /\ Consider(d)
  /\ ~Eligible(d)
  /\ UNCHANGED <<pending, archived, rpc, cur, trial>>

\* Mutant: the directive is routed and its file moved, but no .done is written.
RouteWithoutDone(d) ==
  /\ Consider(d)
  /\ Eligible(d)
  /\ d \in High
  /\ rpc' = "archive"
  /\ cur' = d
  /\ UNCHANGED <<pending, archived, trial>>

\* route_to_coworker; mark_directive_completed comes at once.
RouteHigh(d) ==
  /\ Consider(d)
  /\ Eligible(d)
  /\ d \in High
  /\ rpc' = "done"
  /\ cur' = d
  /\ UNCHANGED <<pending, archived, trial>>

DeferRequires(d) ==
  /\ Consider(d)
  /\ Eligible(d)
  /\ d \notin High
  /\ UnmetRequires(d) # {}
  /\ UNCHANGED <<pending, archived, rpc, cur, trial>>

\* The spine gate, where it is enforced, parks an app build that belongs to no
\* service, before anything is spent on it: no lesson, and its queue file stays.
SpineRejects(d) ==
  /\ Consider(d)
  /\ Eligible(d)
  /\ d \notin High
  /\ UnmetRequires(d) = {}
  /\ d \in Unspined
  /\ rpc' = "park"
  /\ cur' = d
  /\ trial' = "spine"
  /\ UNCHANGED <<pending, archived>>

\* A router error lets a directive of Unspined through, too.
StartBuild(d) ==
  /\ Consider(d)
  /\ Eligible(d)
  /\ d \notin High
  /\ UnmetRequires(d) = {}
  /\ rpc' = "engine"
  /\ cur' = d
  /\ trial' = IF d \in WriteRaw THEN "raw" ELSE "goose"
  /\ UNCHANGED <<pending, archived>>

-----------------------------------------------------------------------------
(* One build.                                                              *)

Put(f, c) == IF f = NoFile THEN disk ELSE [disk EXCEPT ![f] = c]

\* _write_raw_directive: the bytes land, or the directive falls to the engine.
WriteRawBytes ==
  /\ rpc = "engine" /\ trial = "raw"
  /\ \/ \E c \in EngineWrites :
          /\ disk' = Put(Out[cur], c)
          /\ reported' = TRUE
          /\ rpc' = "gate"
          /\ UNCHANGED trial
     \/ /\ trial' = "goose"
        /\ UNCHANGED <<disk, reported, rpc>>
  /\ UNCHANGED <<dirVars, sentinelVars, ship, tracked, batch, cur, promoterVars, publisherVars,
                 failureVars>>

\* Goose, the fallback model or the repair run: it reports what it likes and
\* leaves the file alone or overwrites it.
RunEngine ==
  /\ rpc = "engine" /\ trial # "raw"
  /\ disk' \in {disk} \cup {Put(Out[cur], c) : c \in EngineWrites}
  /\ reported' \in BOOLEAN
  /\ rpc' = "gate"
  /\ UNCHANGED <<dirVars, sentinelVars, ship, tracked, batch, cur, trial, promoterVars,
                 publisherVars, failureVars>>

ContentGates == {"syntax", "schema_prm", "no_hollow", "selftest"}

\* The gate that may reject the current build, in the order of the chain.
RejectingGates ==
  IF ~reported THEN {"engine_failed"}
  ELSE IF ~OutputConfirmed(cur) THEN {"output_missing"}
  ELSE IF Out[cur] = NoFile THEN {"edit_diff"}
  ELSE ContentGates

\* Mutant: a rejected build returns to the scan without being counted.
RejectedUncounted(g) == IF trial = "goose" THEN <<"engine", "fallback">> ELSE <<"scan", trial>>

AfterRejection(g) ==
  CASE trial = "raw"      -> <<"ghost", "raw">>
    [] trial = "goose"    -> <<"engine", "fallback">>
    [] trial = "fallback" /\ g = "selftest" -> <<"engine", "repair">>
    [] OTHER              -> <<"ghost", trial>>

GateRejects(g) ==
  /\ rpc = "gate"
  /\ g \in RejectingGates
  /\ disk' = IF g \in ContentGates THEN Put(Out[cur], "built") ELSE disk
  /\ IF g \in {"schema_prm", "no_hollow"} THEN Learn(SubjectOf(cur))
     ELSE UNCHANGED <<lessons, faults>>
  /\ rpc' = AfterRejection(g)[1]
  /\ trial' = AfterRejection(g)[2]
  /\ UNCHANGED <<dirVars, doneSent, failSent, durable, ghost, ship, tracked, batch, cur, reported,
                 promoterVars, publisherVars, crashes>>

\* Mutant: the output is there, so the chain is not run.
GatesSkipped ==
  /\ rpc = "gate" /\ reported /\ OutputConfirmed(cur)
  /\ rpc' = "done"
  /\ UNCHANGED <<dirVars, sentinelVars, fileVars, batch, cur, trial, reported, promoterVars,
                 publisherVars, failureVars>>

GatesPass ==
  /\ rpc = "gate"
  /\ reported
  /\ OutputConfirmed(cur)
  /\ disk' = Put(Out[cur], "gated")
  /\ rpc' = "done"
  /\ UNCHANGED <<dirVars, sentinelVars, ship, tracked, batch, cur, trial, reported, promoterVars,
                 publisherVars, failureVars>>

BackToScan == rpc' = "scan" /\ trial' = "goose" /\ cur' = None

\* bump_ghost: the count it returns is the next one, although its write may fail.
Count ==
  \/ ghost' = [ghost EXCEPT ![cur] = @ + 1] /\ UNCHANGED faults
  \/ Swallowed("ghost") /\ UNCHANGED ghost

\* _ghost_or_fail: count, and give up at the cap.
BumpGhost ==
  /\ rpc = "ghost"
  /\ Count
  /\ \/ ghost[cur] + 1 >= MaxGhost /\ rpc' = "lesson" /\ UNCHANGED <<cur, trial>>
     \/ /\ ghost[cur] + 1 < MaxGhost /\ trial = "raw"
        /\ rpc' = "engine" /\ trial' = "fallback" /\ UNCHANGED cur
     \/ ghost[cur] + 1 < MaxGhost /\ trial # "raw" /\ BackToScan
  /\ UNCHANGED <<dirVars, doneSent, failSent, durable, lessons, fileVars, batch, reported,
                 promoterVars, publisherVars, crashes>>

\* _mark_directive_failed, one durable effect after the other.
\* Mutant: given up without a lesson.
FailSilently ==
  /\ rpc = "lesson"
  /\ rpc' = "park"
  /\ UNCHANGED <<dirVars, sentinelVars, fileVars, batch, cur, trial, reported, promoterVars,
                 publisherVars, failureVars>>

RecordLesson ==
  /\ rpc = "lesson"
  /\ Learn(SubjectOf(cur))
  /\ rpc' = "park"
  /\ UNCHANGED <<dirVars, doneSent, failSent, durable, ghost, fileVars, batch, cur, trial,
                 reported, promoterVars, publisherVars, crashes>>

\* park_directive, for the runner.
ParkInRepo ==
  /\ rpc = "park"
  /\ FailInRepo(cur)
  /\ rpc' = "durable"
  /\ UNCHANGED <<dirVars, doneSent, durable, ghost, lessons, fileVars, batch, cur, trial,
                 reported, promoterVars, publisherVars, crashes>>

ParkDurably ==
  /\ rpc = "durable"
  /\ FailDurably(cur)
  /\ rpc' = "unstamp"
  /\ UNCHANGED <<dirVars, doneSent, failSent, ghost, lessons, fileVars, batch, cur, trial,
                 reported, promoterVars, publisherVars, crashes>>

\* With this the spine gate is through; a directive given up on goes on.
ParkUnstamps ==
  /\ rpc = "unstamp"
  /\ ClearStale(cur)
  /\ IF trial = "spine" THEN BackToScan ELSE rpc' = "uncount" /\ UNCHANGED <<cur, trial>>
  /\ UNCHANGED <<dirVars, failSent, durable, ghost, lessons, fileVars, batch, reported,
                 promoterVars, publisherVars, failureVars>>

DropCounter ==
  /\ rpc = "uncount"
  /\ ghost' = [ghost EXCEPT ![cur] = 0]
  /\ rpc' = "unqueue"
  /\ UNCHANGED <<dirVars, doneSent, failSent, durable, lessons, fileVars, batch, cur, trial,
                 reported, promoterVars, publisherVars, failureVars>>

\* A write_raw directive is built on by the engines of the same poll.
DropQueueFile ==
  /\ rpc = "unqueue"
  /\ pending' = pending \ ({cur} \cap SelfNamed)
  /\ IF trial = "raw"
     THEN rpc' = "engine" /\ trial' = "fallback" /\ UNCHANGED cur
     ELSE BackToScan
  /\ UNCHANGED <<proposed, older, parked, archived, sentinelVars, fileVars, batch, reported,
                 promoterVars, publisherVars, failureVars>>

\* mark_directive_completed stamps .done; a failure to do so is logged, and what
\* follows is done all the same.
MarkCompleted ==
  /\ rpc = "done"
  /\ \/ doneSent' = doneSent \cup {cur} /\ UNCHANGED faults
     \/ Swallowed("done") /\ UNCHANGED doneSent
  /\ rpc' = "archive"
  /\ UNCHANGED <<dirVars, failSent, durable, ghost, lessons, fileVars, batch, cur, trial,
                 reported, promoterVars, publisherVars, crashes>>

\* Then it moves the queue file to done/; for the coworker's directive that is all.
ArchiveFile ==
  /\ rpc = "archive"
  /\ \/ /\ pending' = pending \ ({cur} \cap SelfNamed)
        /\ archived' = archived \cup ({cur} \cap SelfNamed \cap pending)
        /\ UNCHANGED faults
     \/ Swallowed("archive") /\ UNCHANGED <<pending, archived>>
  /\ IF cur \in High THEN BackToScan ELSE rpc' = "settle" /\ UNCHANGED <<cur, trial>>
  /\ UNCHANGED <<proposed, older, parked, sentinelVars, fileVars, batch, reported, promoterVars,
                 publisherVars, crashes>>

\* _complete goes on: resolve_lessons, clear_ghost.
Settle ==
  /\ rpc = "settle"
  /\ \/ lessons' = lessons \ SubjectOf(cur) /\ UNCHANGED faults
     \/ Swallowed("lesson") /\ UNCHANGED lessons
  /\ rpc' = "clear"
  /\ UNCHANGED <<dirVars, doneSent, failSent, durable, ghost, fileVars, batch, cur, trial,
                 reported, promoterVars, publisherVars, crashes>>

\* Mutant: an error in the bookkeeping skips the commit.
ClearOnly ==
  /\ rpc = "clear"
  /\ ghost' = [ghost EXCEPT ![cur] = 0]
  /\ BackToScan
  /\ UNCHANGED <<dirVars, doneSent, failSent, durable, lessons, fileVars, batch, reported,
                 promoterVars, publisherVars, failureVars>>

ClearCounter ==
  /\ rpc = "clear"
  /\ ghost' = [ghost EXCEPT ![cur] = 0]
  /\ rpc' = "commit"
  /\ UNCHANGED <<dirVars, doneSent, failSent, durable, lessons, fileVars, batch, cur, trial,
                 reported, promoterVars, publisherVars, failureVars>>

Versionable(f) == f # NoFile /\ Exists(f) /\ f \notin Outside

\* _complete, last: _commit_build_for hands the file to the publisher's outbox,
\* under the publisher's flock, or raises before the entry is written.
CommitBuild ==
  /\ rpc = "commit"
  /\ \/ ~Versionable(Out[cur]) /\ UNCHANGED <<ship, faults>>
     \/ /\ Versionable(Out[cur]) /\ refusing = None
        /\ ship' = [ship EXCEPT ![Out[cur]] = "outbox"]
        /\ UNCHANGED faults
     \/ Versionable(Out[cur]) /\ Swallowed("commit") /\ UNCHANGED ship
  /\ BackToScan
  /\ UNCHANGED <<dirVars, sentinelVars, disk, tracked, batch, reported, promoterVars,
                 publisherVars, crashes>>

\* The runner dies between two steps, or an exception takes it to the next poll.
Crash ==
  /\ crashes < MaxCrashes
  /\ crashes' = crashes + 1
  /\ rpc' = "prune" /\ batch' = {} /\ cur' = None /\ trial' = "goose" /\ reported' = FALSE
  /\ UNCHANGED <<dirVars, sentinelVars, fileVars, promoterVars, publisherVars, faults>>

-----------------------------------------------------------------------------
(* The publisher and the repository, as far as this queue sees them.       *)

\* evict: the runtime copy steps aside, or goes back to the merged bytes.
Evict(f) == disk' = [disk EXCEPT ![f] = IF f \in tracked THEN "gated" ELSE "absent"]

\* Publishing evicts the runtime copy; the pull request is open.
PublisherTakes(f) ==
  /\ ship[f] = "outbox" /\ refusing = None
  /\ Exists(f)
  /\ ship' = [ship EXCEPT ![f] = "inflight"]
  /\ Evict(f)
  /\ UNCHANGED <<dirVars, sentinelVars, tracked, runnerVars, promoterVars, publisherVars,
                 failureVars>>

\* The publisher's own scans: a duplicate, a secret or a saturated family is evicted.
PublisherRefuses(f) ==
  /\ ship[f] = "outbox" /\ refusing = None
  /\ Exists(f)
  /\ ship' = [ship EXCEPT ![f] = "refused"]
  /\ Evict(f)
  /\ UNCHANGED <<dirVars, sentinelVars, tracked, runnerVars, promoterVars, publisherVars,
                 failureVars>>

\* A hollow build, which only a runner without the gate hands over, is parked
\* before it is evicted, all of it under the flock.  No lesson is recorded, and the
\* queue files stay.
BeginParking(d) ==
  /\ ~HollowGate
  /\ refusing = None
  /\ Out[d] # NoFile /\ ship[Out[d]] \in {"outbox", "hollow"} /\ Exists(Out[d])
  /\ FailInRepo(d)
  /\ ship' = [ship EXCEPT ![Out[d]] = "hollow"]
  /\ refusing' = d
  /\ pstep' = "durable"
  /\ UNCHANGED <<dirVars, doneSent, durable, ghost, lessons, disk, tracked, runnerVars,
                 promoterVars, crashes>>

RefusalIsDurable ==
  /\ refusing # None /\ pstep = "durable"
  /\ FailDurably(refusing)
  /\ pstep' = "unstamp"
  /\ UNCHANGED <<dirVars, doneSent, failSent, ghost, lessons, fileVars, runnerVars,
                 promoterVars, refusing, crashes>>

RefusalUnstamps ==
  /\ refusing # None /\ pstep = "unstamp"
  /\ ClearStale(refusing)
  /\ pstep' = "evict"
  /\ UNCHANGED <<dirVars, failSent, durable, ghost, lessons, fileVars, runnerVars,
                 promoterVars, refusing, failureVars>>

EvictHollow ==
  /\ refusing # None /\ pstep = "evict"
  /\ ship' = [ship EXCEPT ![Out[refusing]] = "refused"]
  /\ Evict(Out[refusing])
  /\ refusing' = None /\ pstep' = "durable"
  /\ UNCHANGED <<dirVars, sentinelVars, tracked, runnerVars, promoterVars, failureVars>>

\* The publisher dies on the way: the entry is still pending, the bytes are as
\* hollow as before, and the next drain begins again.
PublisherDies ==
  /\ refusing # None
  /\ crashes < MaxCrashes
  /\ crashes' = crashes + 1
  /\ refusing' = None /\ pstep' = "durable"
  /\ UNCHANGED <<dirVars, sentinelVars, fileVars, runnerVars, promoterVars, faults>>

\* The pull request merges and the file re-enters through the merged ref.
Deploy(f) ==
  /\ ship[f] = "inflight"
  /\ ship' = [ship EXCEPT ![f] = "merged"]
  /\ disk' = [disk EXCEPT ![f] = "gated"]
  /\ tracked' = tracked \cup {f}
  /\ UNCHANGED <<dirVars, sentinelVars, runnerVars, promoterVars, publisherVars, failureVars>>

\* The pull request is closed unmerged: nothing brings the file back.
Refuse(f) ==
  /\ ship[f] = "inflight"
  /\ ship' = [ship EXCEPT ![f] = "refused"]
  /\ UNCHANGED <<dirVars, sentinelVars, disk, tracked, runnerVars, promoterVars, publisherVars,
                 failureVars>>

\* `git clean` on respawn eats the untracked sentinels under directives/.
GitClean ==
  /\ CanClean
  /\ rpc = "prune"
  /\ doneSent' = {} /\ failSent' = {}
  /\ ghost' = [d \in Directive |-> 0]
  /\ UNCHANGED <<dirVars, durable, lessons, fileVars, runnerVars, promoterVars, publisherVars,
                 failureVars>>

-----------------------------------------------------------------------------
PromoterStep ==
  \/ BeginPass \/ JanitorPass \/ EndPass
  \/ \E d \in Directive : ArchiveResolved(d) \/ HoldProposal(d) \/ Promote(d)

BuildStep ==
  \/ WriteRawBytes \/ RunEngine \/ (\E g \in ContentGates \cup
       {"engine_failed", "output_missing", "edit_diff"} : GateRejects(g))
  \/ GatesPass \/ BumpGhost
  \/ RecordLesson \/ ParkInRepo \/ ParkDurably \/ ParkUnstamps \/ DropCounter \/ DropQueueFile
  \/ MarkCompleted \/ ArchiveFile \/ Settle \/ ClearCounter \/ CommitBuild

RunnerStep ==
  \/ PruneDonePending \/ ParkOrphanChains \/ LoadDirectives \/ EndCycle
  \/ \E d \in Directive :
       SkipIneligible(d) \/ RouteHigh(d) \/ DeferRequires(d) \/ SpineRejects(d) \/ StartBuild(d)
  \/ BuildStep

ParkingStep == RefusalIsDurable \/ RefusalUnstamps \/ EvictHollow

Environment ==
  \/ FanOut
  \/ \E d \in Directive : Propose(d)
  \/ \E f \in File : PublisherTakes(f) \/ PublisherRefuses(f) \/ Deploy(f) \/ Refuse(f)
  \/ \E d \in Directive : BeginParking(d)
  \/ Crash \/ PublisherDies \/ GitClean

Next == PromoterStep \/ RunnerStep \/ ParkingStep \/ Environment

\* Both daemons are loops under supervisord that sleep and poll again; nothing
\* is promised of the architect, of reviewers, or of when the publisher takes a
\* file, only that it does not stop, the flock in its hand, in the middle of a park.
Fairness == WF_vars(PromoterStep) /\ WF_vars(RunnerStep) /\ WF_vars(ParkingStep)

Spec == Init /\ [][Next]_vars
FairSpec == Spec /\ Fairness

-----------------------------------------------------------------------------
(* Properties.                                                             *)

\* Every variable has its type; while a build is under way there is a current
\* directive, and only then.
TypeOK ==
  /\ proposed \subseteq Directive /\ pending \subseteq Directive /\ parked \subseteq Directive
  /\ older \subseteq Directive \X Directive
  /\ archived \subseteq Directive
  /\ doneSent \subseteq Directive /\ failSent \subseteq Directive /\ durable \subseteq Directive
  /\ ghost \in [Directive -> Nat]
  /\ lessons \subseteq {Subject[f] : f \in File}
  /\ disk \in [File -> Contents]
  /\ ship \in [File -> Shipping] /\ tracked \subseteq File
  /\ rpc \in RunnerPC /\ batch \subseteq Directive /\ trial \in Trials /\ reported \in BOOLEAN
  /\ cur \in Directive \cup {None}
  /\ cur \in Directive <=> rpc \in BuildPC
  /\ ppc \in PromoterPC /\ scan \subseteq Directive /\ attempts \in Nat
  /\ refusing \in Directive \cup {None} /\ pstep \in ParkingPC
  /\ crashes \in 0..MaxCrashes /\ faults \in 0..MaxFaults

Creates(d) == Out[d] # NoFile

\* build_completion.park_directive: a directive is not finished and given up at
\* once; a stale .done next to a .failed would hide it.  The publisher writes both
\* .failed before it takes the .done away: until then, and after a death in between
\* until the next drain, its entry is still pending (ship is "hollow").  A write_raw
\* directive is excepted: given up in the middle of a poll, it is still built by the
\* engine fallback of that poll and stamped done.
EngineSentinelsExclusive ==
  \A d \in doneSent \cap (failSent \cup durable) :
    d \in WriteRaw \/ (Creates(d) /\ ship[Out[d]] = "hollow")

\* core.is_goose_eligible heals a .done whose file is gone, so a .done must
\* mean: the output passed every gate and is on disk, or the publisher has moved
\* it into a pull request.  This spans the runner's write/gate/stamp steps, the
\* publisher moving the file aside, a redeploy, and crashes in between.
DoneIsBacked ==
  \A d \in doneSent \ High :
    Creates(d) => disk[Out[d]] = "gated" \/ ship[Out[d]] \in {"inflight", "refused"}

Waiting == {"outbox", "hollow"}

\* The publisher is handed only bytes that passed the gate chain: nothing
\* overwrites a file between _complete and the publisher taking it.
OnlyGatedIsShipped == \A f \in File : ship[f] \in Waiting => disk[f] = "gated"

\* A directive whose pull request is open is not built a second time.
NoRebuildInFlight ==
  rpc \in {"engine", "gate"} /\ Creates(cur) => ship[Out[cur]] # "inflight"

\* Stamped .done, and the publisher never heard of the file.
Stranded ==
  {d \in doneSent \ High :
     /\ Creates(d) /\ Out[d] \notin Outside /\ ship[Out[d]] = "none"
     /\ ~(cur = d /\ rpc \in {"archive", "settle", "clear", "commit"})}

\* Given up inside the repository only, where `git clean` can undo it.
HalfParked ==
  (failSent \ durable) \ {d \in Directive : \/ cur = d /\ rpc = "durable"
                                            \/ refusing = d /\ pstep = "durable"}

HalfDone == ({"stranded"} \X Stranded) \cup ({"half parked"} \X HalfParked)

\* _complete and park_directive are sequences of writes of which any may fail
\* unheard, and any two of which a death may separate: each death and each failure
\* leaves at most one directive half done, and nothing else does.
FewHalfDone == Cardinality(HalfDone) <= crashes + faults

\* What the engines could not build is given up with an open lesson for the
\* architect to read, except for as many as lesson writes have failed.  The spine
\* gate parks without a lesson, and a write_raw directive is built on afterwards.
GivenUpHasLesson ==
  Cardinality({d \in durable \ (WriteRaw \cup Unspined) :
                 Creates(d) /\ Subject[Out[d]] \notin lessons}) <= faults

\* A quarantined directive is never built again, whatever `git clean` eats.
NoBuildOfQuarantined ==
  rpc \in {"engine", "gate"} /\ cur \notin WriteRaw => cur \notin durable

\* Work leaves the live queue only when it is resolved: done or given up, in one
\* store at least.
Live(d) == d \in proposed \cup pending \cup parked \cup Mesh
Resolved(d) == d \in doneSent \cup failSent \cup durable
LeavesResolved ==
  [][\A d \in Directive : Live(d) /\ ~Live(d)' => Resolved(d)']_vars

\* A rejected build is built again until it completes or is given up; the spine
\* gate may give it up with its count still standing.
RejectedIsRetried ==
  \A d \in Directive : ghost[d] > 0 ~> ghost[d] = 0 \/ FailedQuarantined(d)

\* Nothing squats in pending/ for ever.
QueueDrains == \A d \in Directive : d \in pending ~> d \notin pending

\* A leaf proposal always leaves proposed/: built, retired or promoted.
LeafIsPromoted ==
  \A d \in Directive : Requires[d] = {} => (d \in proposed ~> d \notin proposed)
-----------------------------------------------------------------------------
(* The abstract ledger, and the mapping under which the queue implements   *)
(* it: a .failed in either store outranks a .done, and a build found hollow *)
(* is still in the outbox until it is evicted.                             *)

Verdict == [d \in Directive |->
  IF FailedQuarantined(d) THEN "given_up" ELSE IF d \in doneSent THEN "done" ELSE "open"]

Judged == [f \in File |->
  CASE disk[f] = "absent" -> "absent"
    [] disk[f] = "gated"  -> "passed"
    [] OTHER              -> "unproven"]

Stage == [f \in File |-> IF ship[f] \in Waiting THEN "outbox" ELSE ship[f]]

Ledger == INSTANCE BuildLedger
  WITH verdict <- Verdict, bytes <- Judged, stage <- Stage, HandedOff <- High

\* Seen through its sentinels and files, every step of the promoter, the runner
\* and the publisher is one step of the ledger or none: giving up is final, done
\* is stamped over gated bytes, and what waits for the publisher is not touched.
RefinesLedger == Ledger!Spec
=============================================================================
