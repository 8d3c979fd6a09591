------------------------- MODULE ActivationGovernor -------------------------
(***************************************************************************)
(* The artifact ingestor and the governor that switches it on              *)
(* (zo_sentinel/ingestor/).                                                *)
(*                                                                         *)
(* The builder appends build_artifact rows to the mesh store.  Two loops   *)
(* read them.  The governor grades the rows against gate_8's verdicts and, *)
(* once its criteria are met, writes the latch file; it freezes the        *)
(* ingestor when a veto file is present.  The ingestor looks at the latch  *)
(* once per cycle and, when it is open, records a verdict for every row of *)
(* its batch.  Neither loop holds a lock, the latch and the veto are files *)
(* anybody may touch, a store that does not answer reads as empty, and a   *)
(* write it does not take is not noticed.                                  *)
(*                                                                         *)
(* Abstractions: a row's number stands for its created_at, the order of    *)
(* the query, and for its built_at, what the watermark remembers; a row's  *)
(* verdict and its promotion or quarantine, two writes, are one step.  An  *)
(* assessment evaluates every row and then asks for gate_8's verdict on    *)
(* it, one after the other; here it is one step.  Files and verdicts are   *)
(* independent and change at any time, nobody else looks at them, and no   *)
(* change is ruled out later, so what an assessment reads over time it may *)
(* as well read at once.                                                   *)
(***************************************************************************)
EXTENDS Integers, FiniteSets

CONSTANTS MaxRows,       \* bound: build_artifact rows the builder appends
          Batch,         \* ingestor.batch_limit
          MinGreen,      \* criteria.min_consecutive_green
          MinAgreeing,   \* criteria.min_agreeing_artifacts
          MinAgreement,  \* criteria.min_agreement, in per cent
          AutoMode,      \* the governor's auto flag; FALSE is govern --propose
          Override,      \* the ingestor's own switch: "on" is --enable or
                         \* ARTIFACT_INGESTOR_ENABLED, "off" is enabled=False
          FaultKinds,    \* the faults that may happen
          MaxFaults      \* bound on their number

AllFaults == {"read", "write", "crash", "wipe", "smoke", "cycle", "touch"}

ASSUME BoundsAssumption ==
    /\ MaxRows \in Nat /\ Batch \in Nat \ {0} /\ MaxFaults \in Nat
    /\ MinGreen \in Nat \ {0} /\ MinAgreeing \in Nat /\ MinAgreement \in 0..100
    /\ AutoMode \in BOOLEAN /\ Override \in {"none", "on", "off"}
    /\ FaultKinds \subseteq AllFaults

VARIABLES n,         \* rows in the store, numbered in the order of created_at
          sound,     \* rows whose file the ingestor's evaluate() would promote
          gate8,     \* gate_8's latest verdict on a row's file
          veto,      \* .no_auto_activate is present
          latch,     \* .ingestor_enabled is present
          saved,     \* the governor state in the store
          gpc, mine, \* the governor's cycle: where it is, its copy of the state
          ipc, enabled, size, at,     \* the ingestor's cycle: its look at the
                                      \* latch, its batch and its place in it
          watermark, \* the ingest_watermark row
          judged,    \* rows whose verdict, a promotion or a quarantine, is stored
          evidence,  \* rows on which the two graders were seen to agree
          touched,   \* an operator has opened the latch by hand
          faults     \* faults so far

outside  == <<n, sound, gate8, veto, touched>>
governor == <<saved, gpc, mine, evidence>>
ingestor == <<ipc, enabled, size, at, watermark, judged>>
vars     == <<outside, latch, governor, ingestor, faults>>

Rows == 1..MaxRows
Least(x, y) == IF x < y THEN x ELSE y

\* GovernorState: counters are kept as far as the criteria tell them apart.
States == [green : 0..MinGreen, agreeing : SUBSET Rows,
           fp : BOOLEAN, on : BOOLEAN]
Fresh  == [green |-> 0, agreeing |-> {}, fp |-> FALSE, on |-> FALSE]

TypeOK ==
    /\ n \in 0..MaxRows /\ sound \subseteq Rows
    /\ gate8 \in [Rows -> {"none", "pass", "fail"}]
    /\ veto \in BOOLEAN /\ latch \in BOOLEAN
    /\ saved \in States /\ mine \in States
    /\ gpc \in {"asleep", "look", "assess", "decide", "save"}
    /\ ipc \in {"asleep", "work"} /\ enabled \in BOOLEAN
    /\ size \in 0..Least(n, Batch) /\ at \in 0..size /\ watermark \in 0..n
    /\ judged \subseteq 1..n /\ evidence \subseteq Rows /\ touched \in BOOLEAN
    /\ faults \in 0..MaxFaults

Init ==
    /\ n = 0 /\ sound = {} /\ gate8 = [r \in Rows |-> "none"]
    /\ veto = FALSE /\ latch = FALSE
    /\ saved = Fresh /\ gpc = "asleep" /\ mine = Fresh
    /\ ipc = "asleep" /\ enabled = FALSE /\ size = 0 /\ at = 0
    /\ watermark = 0 /\ judged = {}
    /\ evidence = {} /\ touched = FALSE
    /\ faults = 0

Fault(kind) == kind \in FaultKinds /\ faults < MaxFaults /\ faults' = faults + 1
NoFault     == faults' = faults

-----------------------------------------------------------------------------
\* The builder, gate_8 and the operator.

\* A build registers its artifact.
Build ==
    /\ n < MaxRows
    /\ n' = n + 1
    /\ \E good \in BOOLEAN : sound' = IF good THEN sound \cup {n'} ELSE sound
    /\ UNCHANGED <<gate8, veto, touched, latch, governor, ingestor, faults>>

\* A built file is rewritten, quarantined or deleted.
FileChanges(r) ==
    /\ sound' = IF r \in sound THEN sound \ {r} ELSE sound \cup {r}
    /\ UNCHANGED <<n, gate8, veto, touched, latch, governor, ingestor, faults>>

\* gate_8 runs on a file; only its latest verdict counts, and one that it gave
\* before changes nothing.
Gate8Runs(r) ==
    /\ \E v \in {"pass", "fail"} \ {gate8[r]} : gate8' = [gate8 EXCEPT ![r] = v]
    /\ UNCHANGED <<n, sound, veto, touched, latch, governor, ingestor, faults>>

\* The veto file is created or removed.
Operator ==
    /\ veto' = ~veto
    /\ UNCHANGED <<n, sound, gate8, touched, latch, governor, ingestor, faults>>

\* The operator opens the latch by hand.
Touch ==
    /\ Fault("touch")
    /\ latch' = TRUE /\ touched' = TRUE
    /\ UNCHANGED <<n, sound, gate8, veto, governor, ingestor>>

\* A restart of the container wipes the latch file.
Wipe ==
    /\ latch /\ Fault("wipe")
    /\ latch' = FALSE
    /\ UNCHANGED <<outside, governor, ingestor>>

-----------------------------------------------------------------------------
\* The store as both loops see it: an answer that does not come is no rows.

\* read_build_artifacts: the oldest rows, up to the limit.  The watermark it is
\* called with is not part of the query, so every cycle reads the same rows.
ReadArtifacts(since) == Least(n, Batch)

-----------------------------------------------------------------------------
\* The governor's cycle.

\* load_state
Load ==
    /\ gpc = "asleep"
    /\ \/ mine' = saved /\ NoFault
       \/ mine' = Fresh /\ Fault("read")
    /\ gpc' = "look"
    /\ UNCHANGED <<outside, latch, saved, evidence, ingestor>>

FreezeNothing ==
    /\ latch' = latch
    /\ mine' = [mine EXCEPT !.on = FALSE]

\* The veto: a state that says activated has its latch removed.
Freeze ==
    /\ latch' = (latch /\ ~mine.on)
    /\ mine' = [mine EXCEPT !.on = FALSE]

Look ==
    /\ gpc = "look"
    /\ \/ veto /\ Freeze /\ gpc' = "save"
       \/ ~veto /\ gpc' = "assess" /\ UNCHANGED <<mine, latch>>
    /\ UNCHANGED <<outside, saved, evidence, ingestor, faults>>

\* assess_cycle, the ingestor's own evaluate() compared with gate_8's verdicts over
\* the rows that were read, and the counters after it.  A row gate_8 has no answer
\* for is not compared.
Agrees(r)       == \/ r \in sound /\ gate8[r] = "pass"
                   \/ r \notin sound /\ gate8[r] = "fail"
FalsePromote(r) == r \in sound /\ gate8[r] = "fail"

Green(rows, smoke) ==
    LET comparable == {r \in rows : gate8[r] # "none"}
        agreed     == {r \in rows : Agrees(r)}
    IN  /\ smoke
        /\ \A r \in rows : ~FalsePromote(r)
        /\ MinAgreement * Cardinality(comparable) <= 100 * Cardinality(agreed)

CountedPerCycle(rows, smoke) ==
    [mine EXCEPT !.green = IF Green(rows, smoke) THEN Least(mine.green + 1, MinGreen)
                           ELSE 0,
                 !.agreeing = mine.agreeing \cup {r \in rows : Agrees(r)},
                 !.fp = \E r \in rows : FalsePromote(r)]

Counted(rows, smoke) ==
    [mine EXCEPT !.green = IF Green(rows, smoke) THEN Least(mine.green + 1, MinGreen)
                           ELSE 0,
                 !.agreeing = mine.agreeing \cup {r \in rows : Agrees(r)},
                 !.fp = mine.fp \/ \E r \in rows : FalsePromote(r)]

Assess ==
    /\ gpc = "assess"
    /\ \/ mine' = Counted(1..ReadArtifacts(watermark), TRUE) /\ NoFault
       \/ mine' = Counted(1..ReadArtifacts(watermark), FALSE) /\ Fault("smoke")
       \/ /\ \E answered \in SUBSET (1..ReadArtifacts(watermark)) : mine' = Counted(answered, TRUE)
          /\ Fault("read")
    /\ evidence' = evidence \cup mine'.agreeing
    /\ gpc' = "decide"
    /\ UNCHANGED <<outside, latch, saved, ingestor>>

Ready == /\ mine.green >= MinGreen
         /\ Cardinality(mine.agreeing) >= MinAgreeing
         /\ ~mine.fp

\* Already on: the latch is there or is written again.  Ready: it is written,
\* unless the governor only proposes.
Decide ==
    /\ gpc = "decide"
    /\ \/ mine.on /\ latch' = TRUE /\ UNCHANGED mine
       \/ ~mine.on /\ Ready /\ AutoMode /\ latch' = TRUE /\ mine' = [mine EXCEPT !.on = TRUE]
       \/ ~mine.on /\ ~(Ready /\ AutoMode) /\ UNCHANGED <<latch, mine>>
    /\ gpc' = "save"
    /\ UNCHANGED <<outside, saved, evidence, ingestor, faults>>

SaveActivations ==
    /\ gpc = "save"
    /\ saved' = IF mine.on THEN mine ELSE saved
    /\ gpc' = "asleep" /\ mine' = Fresh
    /\ UNCHANGED <<outside, latch, evidence, ingestor, faults>>

\* save_state: the answer of the write is not looked at.
Save ==
    /\ gpc = "save"
    /\ \/ saved' = mine /\ NoFault
       \/ saved' = saved /\ Fault("write")
    /\ gpc' = "asleep" /\ mine' = Fresh
    /\ UNCHANGED <<outside, latch, evidence, ingestor>>

\* The governor dies; its loop starts the next cycle.
GovernorDies ==
    /\ gpc # "asleep" /\ Fault("crash")
    /\ gpc' = "asleep" /\ mine' = Fresh
    /\ UNCHANGED <<outside, latch, saved, evidence, ingestor>>

-----------------------------------------------------------------------------
\* The ingestor's cycle.

Rest == ipc' = "asleep" /\ enabled' = FALSE /\ size' = 0 /\ at' = 0

\* is_enabled: the ingestor's own switch goes before the latch.
IsEnabled == Override = "on" \/ (Override = "none" /\ latch)

\* is_enabled is asked once, then the batch is read.  Whether the store answers
\* get_watermark makes no difference: the batch holds the oldest rows, those the
\* watermark has passed among them, so the newest row of it is the later of the two.
Begin ==
    /\ ipc = "asleep"
    /\ enabled' = IsEnabled
    /\ \/ size' = ReadArtifacts(watermark) /\ NoFault
       \/ size' = 0 /\ Fault("read")
    /\ ipc' = "work" /\ at' = 0
    /\ UNCHANGED <<outside, latch, governor, watermark, judged>>

\* One row of the batch; a dormant ingestor writes nothing.  A verdict the store
\* does not take is lost, and the loop goes on.
Ingest ==
    /\ ipc = "work" /\ at < size
    /\ at' = at + 1
    /\ \/ judged' = (IF enabled THEN judged \cup {at'} ELSE judged) /\ NoFault
       \/ enabled /\ judged' = judged /\ Fault("write")
    /\ UNCHANGED <<outside, latch, governor, ipc, enabled, size, watermark>>

AdvancePast(mark)   == IF enabled /\ mark > watermark THEN mark + 1 ELSE watermark
AdvanceAlways(mark) == IF mark > watermark THEN mark ELSE watermark

\* The end of a batch: the watermark moves to the newest row of it.
Advance(mark) == IF enabled /\ mark > watermark THEN mark ELSE watermark

Finish ==
    /\ ipc = "work" /\ at = size
    /\ \/ watermark' = Advance(at) /\ NoFault
       \/ enabled /\ watermark' = watermark /\ Fault("write")
    /\ Rest
    /\ UNCHANGED <<outside, latch, governor, judged>>

\* The cycle raises, or the process dies; the loop begins the next one.
IngestorFails ==
    /\ ipc = "work" /\ Fault("cycle")
    /\ Rest
    /\ UNCHANGED <<outside, latch, governor, watermark, judged>>

-----------------------------------------------------------------------------
GovernorStep == Load \/ Look \/ Assess \/ Decide \/ Save
IngestorStep == Begin \/ Ingest \/ Finish

Next == \/ Build \/ Operator \/ Touch \/ Wipe
        \/ \E r \in 1..n : FileChanges(r) \/ Gate8Runs(r)
        \/ GovernorStep \/ GovernorDies
        \/ IngestorStep \/ IngestorFails

Spec     == Init /\ [][Next]_vars
\* Both loops run for ever: while true with a sleep.
FairSpec == Spec /\ WF_vars(GovernorStep) /\ WF_vars(IngestorStep)

-----------------------------------------------------------------------------
\* What the README of the package promises.

\* "zero lifetime false-promotes": once the stored state counts a promotion
\* gate_8 failed and the ingestor is not on, no cycle opens the latch, however
\* clean the cycles since then are; and no cycle forgets the count.  Two exceptions:
\* where an operator has ever opened the latch by hand nothing is said of the latch,
\* and after a fault of any kind nothing is said of the count.
FalsePromoteBars ==
    [][saved.fp => /\ (~saved.on /\ ~latch /\ latch' => touched')
                   /\ (~saved'.fp => faults # 0)]_vars

\* Dormancy: the ingestor records no verdict before it agreed with gate_8 on as
\* many artifacts as the criteria ask for (unless an operator opened the latch),
\* whatever answers of the store were lost and whoever died in between.
EvidenceFirst ==
    judged # {} => touched \/ Cardinality(evidence) >= MinAgreeing

\* The watermark stands for the rows below it: each of them has its verdict stored, but
\* for one per fault, whichever cycle raises, dies, is dormant or gets no answer.
FewSkipped == Cardinality((1..watermark) \ judged) <= faults

\* A veto that stays finally leaves the latch closed, and every batch the
\* ingestor begins from then on is a dry run.  Where the store forgot that the
\* ingestor is on, or never knew, the latch is not removed: a lost answer, a
\* death between writing the latch and storing the state, and a latch an
\* operator opened are the exceptions the premise names.
VetoFreezes ==
    <>[](veto /\ faults = 0) => <>[](~latch /\ ~enabled)

\* An ingestor that agrees with gate_8 on enough of the oldest rows, was never
\* caught promoting a failure and is not vetoed is switched on, through any
\* finite number of faults.
Deserving == /\ ~veto /\ ~saved.fp
             /\ \A r \in 1..n : Agrees(r)
             /\ Least(n, Batch) >= MinAgreeing
EarnsActivation == <>[]Deserving /\ AutoMode => <>[]latch

=============================================================================
