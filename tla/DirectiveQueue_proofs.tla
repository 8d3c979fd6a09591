----------------------- MODULE DirectiveQueue_proofs -----------------------
(***************************************************************************)
(* Theorems about DirectiveQueue, for every set of directives and every    *)
(* value of the constants that QueueAssumption allows.                     *)
(***************************************************************************)
EXTENDS DirectiveQueue, FiniteSetTheorems, TLAPS

-----------------------------------------------------------------------------
(* The steps that touch neither sentinels nor files, three kinds of them.  *)

QueueMove == PromoterStep \/ FanOut \/ \E d \in Directive : Propose(d)
PollMove  == PruneDonePending \/ ParkOrphanChains \/ LoadDirectives \/ EndCycle
PassOver(d) == SkipIneligible(d) \/ DeferRequires(d)

\* What moves the files of the queue moves nothing else.
LEMMA QueueMoves ==
  ASSUME QueueMove
  PROVE  UNCHANGED <<sentinelVars, fileVars, runnerVars, publisherVars, failureVars>>
<1> USE DEF sentinelVars, fileVars, runnerVars, promoterVars, publisherVars, failureVars
<1>1. ASSUME NEW d \in Directive, ArchiveResolved(d) \/ HoldProposal(d) \/ Promote(d)
      PROVE  UNCHANGED <<sentinelVars, fileVars, runnerVars, publisherVars, failureVars>>
  BY <1>1 DEF ArchiveResolved, HoldProposal, Promote, Visit
<1>2. QED
  BY <1>1 DEF QueueMove, PromoterStep, BeginPass, JanitorPass, EndPass, FanOut, Propose

\* Between two builds the poll loop only moves queue files and fills its batch.
LEMMA PollMoves ==
  ASSUME PollMove
  PROVE  /\ rpc \notin BuildPC /\ rpc' \notin BuildPC
         /\ UNCHANGED <<sentinelVars, fileVars, cur, trial, reported, publisherVars, failureVars>>
BY DEF PollMove, PruneDonePending, ParkOrphanChains, LoadDirectives, EndCycle, BuildPC,
       sentinelVars, fileVars, publisherVars, failureVars

\* A directive that is passed over may lose a stale .done.
LEMMA PassedOver ==
  ASSUME NEW d \in Directive, PassOver(d)
  PROVE  /\ rpc \notin BuildPC /\ doneSent' = HealedDone(d) /\ batch' = batch \ {d}
         /\ UNCHANGED <<dirVars, failSent, durable, ghost, lessons, fileVars, rpc, cur, trial,
                        reported, publisherVars, failureVars>>
BY DEF PassOver, SkipIneligible, DeferRequires, Consider, BuildPC, dirVars, fileVars,
       publisherVars, failureVars

-----------------------------------------------------------------------------

\* Type correctness: the queue, the sentinels, the files and the control state of
\* the daemons keep their types in every reachable state.
THEOREM TypeCorrect == Spec => []TypeOK
<1> USE QueueAssumption DEF TypeOK, RunnerPC, BuildPC, Trials, PromoterPC, ParkingPC, Contents,
                            Shipping
<1>1. Init => TypeOK
  <2> SUFFICES ASSUME Init PROVE TypeOK
    OBVIOUS
  <2>1. ghost \in [Directive -> Nat] /\ disk \in [File -> Contents] /\ ship \in [File -> Shipping]
    BY DEF Init
  <2>2. cur = None /\ rpc = "prune" /\ None \notin Directive
    BY DEF Init
  <2>3. attempts \in Nat /\ crashes \in 0..MaxCrashes /\ faults \in 0..MaxFaults
    BY DEF Init
  <2>4. QED
    BY <2>1, <2>2, <2>3 DEF Init
<1>2. TypeOK /\ [Next]_vars => TypeOK'
  <2> SUFFICES ASSUME TypeOK, [Next]_vars PROVE TypeOK'
    OBVIOUS
  <2> USE DEF dirVars, sentinelVars, fileVars, runnerVars, promoterVars, publisherVars, failureVars,
          Swallowed
  <2>1. ASSUME BeginPass PROVE TypeOK'
    BY <2>1 DEF BeginPass
  <2>2. ASSUME JanitorPass PROVE TypeOK'
    BY <2>2 DEF JanitorPass, Leave
  <2>3. ASSUME EndPass PROVE TypeOK'
    BY <2>3 DEF EndPass
  <2>4. ASSUME NEW d \in Directive, ArchiveResolved(d) PROVE TypeOK'
    BY <2>4 DEF ArchiveResolved, Visit, Leave
  <2>5. ASSUME NEW d \in Directive, HoldProposal(d) PROVE TypeOK'
    BY <2>5 DEF HoldProposal, Visit
  <2>6. ASSUME NEW d \in Directive, Promote(d) PROVE TypeOK'
    BY <2>6 DEF Promote, Visit, Leave
  <2>7. ASSUME FanOut PROVE TypeOK'
    <3>1. Children \subseteq Directive
      BY DEF Children
    <3>2. QED
      BY <2>7, <3>1 DEF FanOut, ChainPairs
  <2>8. ASSUME NEW d \in Directive, Propose(d) PROVE TypeOK'
    BY <2>8 DEF Propose
  <2>9. ASSUME PruneDonePending PROVE TypeOK'
    BY <2>9 DEF PruneDonePending
  <2>10. ASSUME ParkOrphanChains PROVE TypeOK'
    BY <2>10 DEF ParkOrphanChains
  <2>11. ASSUME LoadDirectives PROVE TypeOK'
    BY <2>11 DEF LoadDirectives
  <2>12. ASSUME EndCycle PROVE TypeOK'
    BY <2>12 DEF EndCycle
  <2>13. ASSUME NEW d \in Directive, SkipIneligible(d) PROVE TypeOK'
    BY <2>13 DEF SkipIneligible, Consider, HealedDone, OutputConfirmed, Present
  <2>14. ASSUME NEW d \in Directive, DeferRequires(d) PROVE TypeOK'
    BY <2>14 DEF DeferRequires, Consider, HealedDone, OutputConfirmed, Present
  <2>15. ASSUME NEW d \in Directive, RouteHigh(d) PROVE TypeOK'
    BY <2>15 DEF RouteHigh, Consider, HealedDone, Eligible, FailedQuarantined, OutputConfirmed,
       Present
  <2>16. ASSUME NEW d \in Directive, SpineRejects(d) PROVE TypeOK'
    BY <2>16 DEF SpineRejects, Consider, HealedDone, Eligible, FailedQuarantined,
       OutputConfirmed, Present
  <2>17. ASSUME NEW d \in Directive, StartBuild(d) PROVE TypeOK'
    BY <2>17 DEF StartBuild, Consider, HealedDone, Eligible, FailedQuarantined, OutputConfirmed,
       Present
  <2>18. ASSUME WriteRawBytes PROVE TypeOK'
    BY <2>18 DEF WriteRawBytes, Put
  <2>19. ASSUME RunEngine PROVE TypeOK'
    <3>1. \A c \in EngineWrites : Put(Out[cur], c) \in [File -> Contents]
      BY DEF Put
    <3>2. disk' \in [File -> Contents]
      BY <2>19, <3>1 DEF RunEngine
    <3>3. QED
      BY <2>19, <3>2 DEF RunEngine
  <2>20. ASSUME NEW g \in ContentGates \cup {"engine_failed", "output_missing", "edit_diff"},
           GateRejects(g) PROVE TypeOK'
    BY <2>20 DEF GateRejects, AfterRejection, RejectingGates, ContentGates, Put, Learn,
       Swallowed, SubjectOf
  <2>21. ASSUME GatesPass PROVE TypeOK'
    BY <2>21 DEF GatesPass, Put
  <2>22. ASSUME BumpGhost PROVE TypeOK'
    BY <2>22 DEF BumpGhost, Count, Swallowed, BackToScan
  <2>23. ASSUME RecordLesson PROVE TypeOK'
    <3>1. cur \in Directive /\ SubjectOf(cur) \subseteq {Subject[f] : f \in File}
      BY <2>23 DEF RecordLesson, SubjectOf
    <3> DEFINE T == {Subject[f] : f \in File}
    <3>2. lessons' \subseteq T /\ faults' \in 0..MaxFaults
      <4>1. lessons \subseteq T /\ SubjectOf(cur) \subseteq T /\ Learn(SubjectOf(cur))
        BY <2>23, <3>1 DEF RecordLesson
      <4> HIDE DEF T
      <4>3. QED
        BY <4>1 DEF Learn
    <3>3. QED
      BY <2>23, <3>2 DEF RecordLesson
  <2>24. ASSUME ParkInRepo PROVE TypeOK'
    BY <2>24 DEF ParkInRepo, FailInRepo, Swallowed
  <2>25. ASSUME ParkDurably PROVE TypeOK'
    BY <2>25 DEF ParkDurably, FailDurably, Swallowed
  <2>26. ASSUME ParkUnstamps PROVE TypeOK'
    BY <2>26 DEF ParkUnstamps, ClearStale, BackToScan
  <2>27. ASSUME DropCounter PROVE TypeOK'
    BY <2>27 DEF DropCounter
  <2>28. ASSUME DropQueueFile PROVE TypeOK'
    BY <2>28 DEF DropQueueFile, BackToScan
  <2>29. ASSUME MarkCompleted PROVE TypeOK'
    BY <2>29 DEF MarkCompleted, Swallowed
  <2>30. ASSUME ArchiveFile PROVE TypeOK'
    BY <2>30 DEF ArchiveFile, Swallowed, BackToScan
  <2>31. ASSUME Settle PROVE TypeOK'
    BY <2>31 DEF Settle, Swallowed, SubjectOf
  <2>32. ASSUME ClearCounter PROVE TypeOK'
    BY <2>32 DEF ClearCounter
  <2>33. ASSUME CommitBuild PROVE TypeOK'
    BY <2>33 DEF CommitBuild, Versionable, Exists, Swallowed, BackToScan
  <2>34. ASSUME Crash PROVE TypeOK'
    <3>1. crashes' \in 0..MaxCrashes
      BY <2>34 DEF Crash
    <3>2. QED
      BY <2>34, <3>1 DEF Crash
  <2>35. ASSUME GitClean PROVE TypeOK'
    BY <2>35 DEF GitClean
  <2>36. ASSUME NEW d \in Directive, BeginParking(d) PROVE TypeOK'
    BY <2>36 DEF BeginParking, FailInRepo, Swallowed
  <2>37. ASSUME RefusalIsDurable PROVE TypeOK'
    BY <2>37 DEF RefusalIsDurable, FailDurably, Swallowed
  <2>38. ASSUME RefusalUnstamps PROVE TypeOK'
    BY <2>38 DEF RefusalUnstamps, ClearStale
  <2>39. ASSUME EvictHollow PROVE TypeOK'
    BY <2>39 DEF EvictHollow, Evict
  <2>40. ASSUME PublisherDies PROVE TypeOK'
    <3>1. crashes' \in 0..MaxCrashes
      BY <2>40 DEF PublisherDies
    <3>2. QED
      BY <2>40, <3>1 DEF PublisherDies
  <2>41. ASSUME NEW f \in File, PublisherTakes(f) PROVE TypeOK'
    BY <2>41 DEF PublisherTakes, Evict, Exists
  <2>42. ASSUME NEW f \in File, PublisherRefuses(f) PROVE TypeOK'
    BY <2>42 DEF PublisherRefuses, Evict, Exists
  <2>43. ASSUME NEW f \in File, Deploy(f) PROVE TypeOK'
    BY <2>43 DEF Deploy
  <2>44. ASSUME NEW f \in File, Refuse(f) PROVE TypeOK'
    BY <2>44 DEF Refuse
  <2>45. CASE UNCHANGED vars
    BY <2>45 DEF vars
  <2>46. QED
    BY <2>1, <2>2, <2>3, <2>4, <2>5, <2>6, <2>7, <2>8, <2>9, <2>10, <2>11, <2>12, <2>13, <2>14,
       <2>15, <2>16, <2>17, <2>18, <2>19, <2>20, <2>21, <2>22, <2>23, <2>24, <2>25, <2>26, <2>27,
       <2>28, <2>29, <2>30, <2>31, <2>32, <2>33, <2>34, <2>35, <2>36, <2>37, <2>38, <2>39, <2>40,
       <2>41, <2>42, <2>43, <2>44, <2>45
    DEF Next, PromoterStep, RunnerStep, BuildStep, ParkingStep, Environment, QueueMove,
        PollMove, PassOver
<1>3. QED
  BY <1>1, <1>2, PTL DEF Spec

-----------------------------------------------------------------------------
(* A .done is backed by gated bytes.  Inductive with what the runner knows *)
(* between the gate chain and the stamp, and with the fact that a file is  *)
(* never half way: on disk with bytes that passed, or gone with the        *)
(* publisher.                                                              *)

\* The control points of a build that has not come to its stamp.
Unstamped == {"engine", "gate", "ghost", "lesson", "park", "durable", "unstamp", "uncount",
              "unqueue", "done"}

DistinctOutputs == \A d, e \in Directive : Creates(d) /\ Out[d] = Out[e] => d = e

Backed(f) ==
  \/ disk[f] = "gated"
  \/ disk[f] = "absent" /\ ship[f] \in {"inflight", "refused"}

CompletionInv ==
  /\ \A d \in doneSent \ High : Creates(d) => Backed(Out[d])
  /\ rpc \in Unstamped => cur \notin doneSent
  /\ rpc = "done" /\ Creates(cur) /\ cur \notin High => Backed(Out[cur])

\* The strengthening holds whenever no two directives declare one output.
LEMMA CompletionInvHolds == ASSUME DistinctOutputs PROVE Spec => []CompletionInv
<1> USE QueueAssumption DEF CompletionInv, Creates, Backed, Unstamped, DistinctOutputs
<1>1. Init => CompletionInv
  BY DEF Init
<1>2. TypeOK /\ CompletionInv /\ [Next]_vars => CompletionInv'
  <2> SUFFICES ASSUME TypeOK, CompletionInv, [Next]_vars PROVE CompletionInv'
    OBVIOUS
  <2> USE DEF TypeOK, BuildPC, dirVars, sentinelVars, fileVars, runnerVars, promoterVars,
              publisherVars, failureVars
  <2>1. ASSUME QueueMove PROVE CompletionInv'
    BY <2>1, QueueMoves
  <2>2. ASSUME PollMove PROVE CompletionInv'
    BY <2>2, PollMoves
  <2>3. ASSUME NEW d \in Directive, PassOver(d) PROVE CompletionInv'
    BY <2>3, PassedOver DEF PassOver, HealedDone, OutputConfirmed, Present
  <2>4. ASSUME NEW d \in Directive, RouteHigh(d) PROVE CompletionInv'
    BY <2>4 DEF RouteHigh, Consider, HealedDone, Eligible, FailedQuarantined, OutputConfirmed,
       Present
  <2>5. ASSUME NEW d \in Directive, SpineRejects(d) PROVE CompletionInv'
    BY <2>5 DEF SpineRejects, Consider, HealedDone, Eligible, FailedQuarantined,
       OutputConfirmed, Present
  <2>6. ASSUME NEW d \in Directive, StartBuild(d) PROVE CompletionInv'
    BY <2>6 DEF StartBuild, Consider, HealedDone, Eligible, FailedQuarantined, OutputConfirmed,
       Present
  <2>7. ASSUME WriteRawBytes PROVE CompletionInv'
    BY <2>7 DEF WriteRawBytes, Put
  <2>8. ASSUME RunEngine PROVE CompletionInv'
    BY <2>8 DEF RunEngine, Put
  <2>9. ASSUME NEW g \in ContentGates \cup {"engine_failed", "output_missing", "edit_diff"},
           GateRejects(g) PROVE CompletionInv'
    BY <2>9 DEF GateRejects, AfterRejection, RejectingGates, ContentGates, Put, Learn,
       Swallowed, SubjectOf
  <2>10. ASSUME GatesPass PROVE CompletionInv'
    BY <2>10 DEF GatesPass, Put
  <2>11. ASSUME BumpGhost PROVE CompletionInv'
    BY <2>11 DEF BumpGhost, Count, Swallowed, BackToScan
  <2>12. ASSUME RecordLesson PROVE CompletionInv'
    BY <2>12 DEF RecordLesson, Learn, Swallowed, SubjectOf
  <2>13. ASSUME ParkInRepo PROVE CompletionInv'
    BY <2>13 DEF ParkInRepo, FailInRepo, Swallowed
  <2>14. ASSUME ParkDurably PROVE CompletionInv'
    BY <2>14 DEF ParkDurably, FailDurably, Swallowed
  <2>15. ASSUME ParkUnstamps PROVE CompletionInv'
    BY <2>15 DEF ParkUnstamps, ClearStale, BackToScan
  <2>16. ASSUME DropCounter PROVE CompletionInv'
    BY <2>16 DEF DropCounter
  <2>17. ASSUME DropQueueFile PROVE CompletionInv'
    BY <2>17 DEF DropQueueFile, BackToScan
  <2>18. ASSUME MarkCompleted PROVE CompletionInv'
    BY <2>18 DEF MarkCompleted, Swallowed
  <2>19. ASSUME ArchiveFile PROVE CompletionInv'
    BY <2>19 DEF ArchiveFile, Swallowed, BackToScan
  <2>20. ASSUME Settle PROVE CompletionInv'
    BY <2>20 DEF Settle, Swallowed, SubjectOf
  <2>21. ASSUME ClearCounter PROVE CompletionInv'
    BY <2>21 DEF ClearCounter
  <2>22. ASSUME CommitBuild PROVE CompletionInv'
    BY <2>22 DEF CommitBuild, Versionable, Exists, Swallowed, BackToScan
  <2>23. ASSUME Crash PROVE CompletionInv'
    BY <2>23 DEF Crash
  <2>24. ASSUME GitClean PROVE CompletionInv'
    BY <2>24 DEF GitClean
  <2>25. ASSUME NEW d \in Directive, BeginParking(d) PROVE CompletionInv'
    BY <2>25 DEF BeginParking, FailInRepo, Swallowed
  <2>26. ASSUME RefusalIsDurable PROVE CompletionInv'
    BY <2>26 DEF RefusalIsDurable, FailDurably, Swallowed
  <2>27. ASSUME RefusalUnstamps PROVE CompletionInv'
    BY <2>27 DEF RefusalUnstamps, ClearStale
  <2>28. ASSUME EvictHollow PROVE CompletionInv'
    BY <2>28 DEF EvictHollow, Evict
  <2>29. ASSUME PublisherDies PROVE CompletionInv'
    BY <2>29 DEF PublisherDies
  <2>30. ASSUME NEW f \in File, PublisherTakes(f) PROVE CompletionInv'
    BY <2>30 DEF PublisherTakes, Evict, Exists
  <2>31. ASSUME NEW f \in File, PublisherRefuses(f) PROVE CompletionInv'
    BY <2>31 DEF PublisherRefuses, Evict, Exists
  <2>32. ASSUME NEW f \in File, Deploy(f) PROVE CompletionInv'
    BY <2>32 DEF Deploy
  <2>33. ASSUME NEW f \in File, Refuse(f) PROVE CompletionInv'
    BY <2>33 DEF Refuse
  <2>34. CASE UNCHANGED vars
    BY <2>34 DEF vars
  <2>35. QED
    BY <2>1, <2>2, <2>3, <2>4, <2>5, <2>6, <2>7, <2>8, <2>9, <2>10, <2>11, <2>12, <2>13, <2>14,
       <2>15, <2>16, <2>17, <2>18, <2>19, <2>20, <2>21, <2>22, <2>23, <2>24, <2>25, <2>26, <2>27,
       <2>28, <2>29, <2>30, <2>31, <2>32, <2>33, <2>34
    DEF Next, PromoterStep, RunnerStep, BuildStep, ParkingStep, Environment, QueueMove,
        PollMove, PassOver
<1>3. QED
  BY <1>1, <1>2, TypeCorrect, PTL DEF Spec

\* A finished directive's output passed every gate and is on disk, or has left
\* the tree inside a pull request: no interleaving of the runner with the
\* publisher, no crash and no swallowed failure leaves a .done over a file that
\* failed a gate.
THEOREM CompletionIsBacked == ASSUME DistinctOutputs PROVE Spec => []DoneIsBacked
<1>1. CompletionInv => DoneIsBacked
  BY DEF CompletionInv, DoneIsBacked, Backed
<1>2. QED
  BY <1>1, CompletionInvHolds, PTL

-----------------------------------------------------------------------------
(* Where the writes of a park and of a completion can be relied on.        *)

\* The .done is written, and one of the two .failed; and where `git clean` may eat
\* the one inside the repository, the durable one is.
Reliable ==
  /\ "done" \notin Failing
  /\ ~({"failed", "durable"} \subseteq Failing)
  /\ CanClean => "durable" \notin Failing

\* What each process knows of the sentinels it has written so far.
ParkInv ==
  /\ rpc = "archive" => Resolved(cur)
  /\ rpc = "durable" /\ "durable" \in Failing => cur \in failSent
  /\ rpc \in {"unstamp", "uncount", "unqueue"} => cur \in failSent \cup durable
  /\ refusing \in Directive /\ pstep = "durable" /\ "durable" \in Failing => refusing \in failSent
  /\ refusing \in Directive /\ pstep \in {"unstamp", "evict"} =>
       refusing \in durable \/ ("durable" \in Failing /\ refusing \in failSent)

\* Neither process takes a sentinel of the other away, but for a .done that a
\* .failed outranks.
LEMMA ParkInvHolds == ASSUME Reliable PROVE Spec => []ParkInv
<1> USE QueueAssumption DEF ParkInv, Resolved, Reliable
<1>1. Init => ParkInv
  BY DEF Init
<1>2. TypeOK /\ ParkInv /\ [Next]_vars => ParkInv'
  <2> SUFFICES ASSUME TypeOK, ParkInv, [Next]_vars PROVE ParkInv'
    OBVIOUS
  <2> USE DEF TypeOK, BuildPC, dirVars, sentinelVars, fileVars, runnerVars, promoterVars,
              publisherVars, failureVars
  <2>1. ASSUME QueueMove PROVE ParkInv'
    BY <2>1, QueueMoves
  <2>2. ASSUME PollMove PROVE ParkInv'
    BY <2>2, PollMoves
  <2>3. ASSUME NEW d \in Directive, PassOver(d) PROVE ParkInv'
    BY <2>3, PassedOver DEF PassOver, HealedDone, OutputConfirmed, Present
  <2>4. ASSUME NEW d \in Directive, RouteHigh(d) PROVE ParkInv'
    BY <2>4 DEF RouteHigh, Consider, HealedDone, Eligible, FailedQuarantined, OutputConfirmed,
       Present
  <2>5. ASSUME NEW d \in Directive, SpineRejects(d) PROVE ParkInv'
    BY <2>5 DEF SpineRejects, Consider, HealedDone, Eligible, FailedQuarantined,
       OutputConfirmed, Present
  <2>6. ASSUME NEW d \in Directive, StartBuild(d) PROVE ParkInv'
    BY <2>6 DEF StartBuild, Consider, HealedDone, Eligible, FailedQuarantined, OutputConfirmed,
       Present
  <2>7. ASSUME WriteRawBytes PROVE ParkInv'
    BY <2>7 DEF WriteRawBytes, Put
  <2>8. ASSUME RunEngine PROVE ParkInv'
    BY <2>8 DEF RunEngine, Put
  <2>9. ASSUME NEW g \in ContentGates \cup {"engine_failed", "output_missing", "edit_diff"},
           GateRejects(g) PROVE ParkInv'
    BY <2>9 DEF GateRejects, AfterRejection, RejectingGates, ContentGates, Put, Learn,
       Swallowed, SubjectOf
  <2>10. ASSUME GatesPass PROVE ParkInv'
    BY <2>10 DEF GatesPass, Put
  <2>11. ASSUME BumpGhost PROVE ParkInv'
    BY <2>11 DEF BumpGhost, Count, Swallowed, BackToScan
  <2>12. ASSUME RecordLesson PROVE ParkInv'
    BY <2>12 DEF RecordLesson, Learn, Swallowed, SubjectOf
  <2>13. ASSUME ParkInRepo PROVE ParkInv'
    BY <2>13 DEF ParkInRepo, FailInRepo, Swallowed
  <2>14. ASSUME ParkDurably PROVE ParkInv'
    BY <2>14 DEF ParkDurably, FailDurably, Swallowed
  <2>15. ASSUME ParkUnstamps PROVE ParkInv'
    BY <2>15 DEF ParkUnstamps, ClearStale, BackToScan
  <2>16. ASSUME DropCounter PROVE ParkInv'
    BY <2>16 DEF DropCounter
  <2>17. ASSUME DropQueueFile PROVE ParkInv'
    BY <2>17 DEF DropQueueFile, BackToScan
  <2>18. ASSUME MarkCompleted PROVE ParkInv'
    BY <2>18 DEF MarkCompleted, Swallowed
  <2>19. ASSUME ArchiveFile PROVE ParkInv'
    BY <2>19 DEF ArchiveFile, Swallowed, BackToScan
  <2>20. ASSUME Settle PROVE ParkInv'
    BY <2>20 DEF Settle, Swallowed, SubjectOf
  <2>21. ASSUME ClearCounter PROVE ParkInv'
    BY <2>21 DEF ClearCounter
  <2>22. ASSUME CommitBuild PROVE ParkInv'
    BY <2>22 DEF CommitBuild, Versionable, Exists, Swallowed, BackToScan
  <2>23. ASSUME Crash PROVE ParkInv'
    BY <2>23 DEF Crash
  <2>24. ASSUME GitClean PROVE ParkInv'
    BY <2>24 DEF GitClean
  <2>25. ASSUME NEW d \in Directive, BeginParking(d) PROVE ParkInv'
    BY <2>25 DEF BeginParking, FailInRepo, Swallowed
  <2>26. ASSUME RefusalIsDurable PROVE ParkInv'
    BY <2>26 DEF RefusalIsDurable, FailDurably, Swallowed
  <2>27. ASSUME RefusalUnstamps PROVE ParkInv'
    BY <2>27 DEF RefusalUnstamps, ClearStale
  <2>28. ASSUME EvictHollow PROVE ParkInv'
    BY <2>28 DEF EvictHollow, Evict
  <2>29. ASSUME PublisherDies PROVE ParkInv'
    BY <2>29 DEF PublisherDies
  <2>30. ASSUME NEW f \in File, PublisherTakes(f) PROVE ParkInv'
    BY <2>30 DEF PublisherTakes, Evict, Exists
  <2>31. ASSUME NEW f \in File, PublisherRefuses(f) PROVE ParkInv'
    BY <2>31 DEF PublisherRefuses, Evict, Exists
  <2>32. ASSUME NEW f \in File, Deploy(f) PROVE ParkInv'
    BY <2>32 DEF Deploy
  <2>33. ASSUME NEW f \in File, Refuse(f) PROVE ParkInv'
    BY <2>33 DEF Refuse
  <2>34. CASE UNCHANGED vars
    BY <2>34 DEF vars
  <2>35. QED
    BY <2>1, <2>2, <2>3, <2>4, <2>5, <2>6, <2>7, <2>8, <2>9, <2>10, <2>11, <2>12, <2>13, <2>14,
       <2>15, <2>16, <2>17, <2>18, <2>19, <2>20, <2>21, <2>22, <2>23, <2>24, <2>25, <2>26, <2>27,
       <2>28, <2>29, <2>30, <2>31, <2>32, <2>33, <2>34
    DEF Next, PromoterStep, RunnerStep, BuildStep, ParkingStep, Environment, QueueMove,
        PollMove, PassOver
<1>3. QED
  BY <1>1, <1>2, TypeCorrect, PTL DEF Spec

Kept ==
  \A d \in Directive : Live(d) /\ ~Live(d)' => Resolved(d)' \/ (Janitor /\ Redundant(d))

\* A directive leaves the four places that hold live work only in the step that
\* finishes it or gives it up, or after it; or the janitor takes it away, as one whose
\* output is there and has no open lesson.  That is so as long as a .done and one of
\* the two .failed are sure to be written: their failures are swallowed.
THEOREM WorkLeavesAccounted == ASSUME Reliable PROVE Spec => [][Kept]_vars
<1> USE QueueAssumption
<1>1. TypeOK /\ ParkInv /\ [Next]_vars => [Kept]_vars
  <2> SUFFICES ASSUME TypeOK, ParkInv, Next PROVE Kept
    OBVIOUS
  <2> USE DEF Kept, Live, Resolved, dirVars, sentinelVars
  <2>1. ASSUME BeginPass PROVE Kept
    BY <2>1 DEF BeginPass
  <2>2. ASSUME JanitorPass PROVE Kept
    BY <2>2 DEF JanitorPass, Leave, Retirable, FailedQuarantined
  <2>3. ASSUME EndPass PROVE Kept
    BY <2>3 DEF EndPass
  <2>4. ASSUME NEW d \in Directive, ArchiveResolved(d) PROVE Kept
    BY <2>4 DEF ArchiveResolved, Visit, Leave, Terminal, FailedQuarantined
  <2>5. ASSUME NEW d \in Directive, HoldProposal(d) PROVE Kept
    BY <2>5 DEF HoldProposal, Visit
  <2>6. ASSUME NEW d \in Directive, Promote(d) PROVE Kept
    BY <2>6 DEF Promote, Visit, Leave
  <2>7. ASSUME FanOut PROVE Kept
    BY <2>7 DEF FanOut
  <2>8. ASSUME NEW d \in Directive, Propose(d) PROVE Kept
    BY <2>8 DEF Propose
  <2>9. ASSUME PruneDonePending PROVE Kept
    BY <2>9 DEF PruneDonePending
  <2>10. ASSUME ParkOrphanChains PROVE Kept
    BY <2>10 DEF ParkOrphanChains
  <2>11. ASSUME LoadDirectives PROVE Kept
    BY <2>11 DEF LoadDirectives
  <2>12. ASSUME EndCycle PROVE Kept
    BY <2>12 DEF EndCycle
  <2>13. ASSUME NEW d \in Directive, SkipIneligible(d) PROVE Kept
    BY <2>13 DEF SkipIneligible, Consider, HealedDone, OutputConfirmed, Present
  <2>14. ASSUME NEW d \in Directive, DeferRequires(d) PROVE Kept
    BY <2>14 DEF DeferRequires, Consider, HealedDone, OutputConfirmed, Present
  <2>15. ASSUME NEW d \in Directive, RouteHigh(d) PROVE Kept
    BY <2>15 DEF RouteHigh, Consider, HealedDone, Eligible, FailedQuarantined, OutputConfirmed,
       Present
  <2>16. ASSUME NEW d \in Directive, SpineRejects(d) PROVE Kept
    BY <2>16 DEF SpineRejects, Consider, HealedDone, Eligible, FailedQuarantined,
       OutputConfirmed, Present
  <2>17. ASSUME NEW d \in Directive, StartBuild(d) PROVE Kept
    BY <2>17 DEF StartBuild, Consider, HealedDone, Eligible, FailedQuarantined, OutputConfirmed,
       Present
  <2>18. ASSUME WriteRawBytes PROVE Kept
    BY <2>18 DEF WriteRawBytes, Put
  <2>19. ASSUME RunEngine PROVE Kept
    BY <2>19 DEF RunEngine, Put
  <2>20. ASSUME NEW g \in ContentGates \cup {"engine_failed", "output_missing", "edit_diff"},
           GateRejects(g) PROVE Kept
    BY <2>20 DEF GateRejects, AfterRejection, RejectingGates, ContentGates, Put, Learn,
       Swallowed, SubjectOf
  <2>21. ASSUME GatesPass PROVE Kept
    BY <2>21 DEF GatesPass, Put
  <2>22. ASSUME BumpGhost PROVE Kept
    BY <2>22 DEF BumpGhost, Count, Swallowed, BackToScan
  <2>23. ASSUME RecordLesson PROVE Kept
    BY <2>23 DEF RecordLesson, Learn, Swallowed, SubjectOf
  <2>24. ASSUME ParkInRepo PROVE Kept
    BY <2>24 DEF ParkInRepo, FailInRepo, Swallowed
  <2>25. ASSUME ParkDurably PROVE Kept
    BY <2>25 DEF ParkDurably, FailDurably, Swallowed
  <2>26. ASSUME ParkUnstamps PROVE Kept
    BY <2>26 DEF ParkUnstamps, ClearStale, BackToScan
  <2>27. ASSUME DropCounter PROVE Kept
    BY <2>27 DEF DropCounter
  <2>28. ASSUME DropQueueFile PROVE Kept
    BY <2>28 DEF DropQueueFile, BackToScan, ParkInv, TypeOK, BuildPC
  <2>29. ASSUME MarkCompleted PROVE Kept
    BY <2>29 DEF MarkCompleted, Swallowed
  <2>30. ASSUME ArchiveFile PROVE Kept
    BY <2>30 DEF ArchiveFile, Swallowed, BackToScan, ParkInv, TypeOK, BuildPC
  <2>31. ASSUME Settle PROVE Kept
    BY <2>31 DEF Settle, Swallowed, SubjectOf
  <2>32. ASSUME ClearCounter PROVE Kept
    BY <2>32 DEF ClearCounter
  <2>33. ASSUME CommitBuild PROVE Kept
    BY <2>33 DEF CommitBuild, Versionable, Exists, Swallowed, BackToScan
  <2>34. ASSUME Crash PROVE Kept
    BY <2>34 DEF Crash
  <2>35. ASSUME GitClean PROVE Kept
    BY <2>35 DEF GitClean
  <2>36. ASSUME NEW d \in Directive, BeginParking(d) PROVE Kept
    BY <2>36 DEF BeginParking, FailInRepo, Swallowed
  <2>37. ASSUME RefusalIsDurable PROVE Kept
    BY <2>37 DEF RefusalIsDurable, FailDurably, Swallowed
  <2>38. ASSUME RefusalUnstamps PROVE Kept
    BY <2>38 DEF RefusalUnstamps, ClearStale
  <2>39. ASSUME EvictHollow PROVE Kept
    BY <2>39 DEF EvictHollow, Evict
  <2>40. ASSUME PublisherDies PROVE Kept
    BY <2>40 DEF PublisherDies
  <2>41. ASSUME NEW f \in File, PublisherTakes(f) PROVE Kept
    BY <2>41 DEF PublisherTakes, Evict, Exists
  <2>42. ASSUME NEW f \in File, PublisherRefuses(f) PROVE Kept
    BY <2>42 DEF PublisherRefuses, Evict, Exists
  <2>43. ASSUME NEW f \in File, Deploy(f) PROVE Kept
    BY <2>43 DEF Deploy
  <2>44. ASSUME NEW f \in File, Refuse(f) PROVE Kept
    BY <2>44 DEF Refuse
  <2>45. QED
    BY <2>1, <2>2, <2>3, <2>4, <2>5, <2>6, <2>7, <2>8, <2>9, <2>10, <2>11, <2>12, <2>13, <2>14,
       <2>15, <2>16, <2>17, <2>18, <2>19, <2>20, <2>21, <2>22, <2>23, <2>24, <2>25, <2>26, <2>27,
       <2>28, <2>29, <2>30, <2>31, <2>32, <2>33, <2>34, <2>35, <2>36, <2>37, <2>38, <2>39, <2>40,
       <2>41, <2>42, <2>43, <2>44
    DEF Next, PromoterStep, RunnerStep, BuildStep, ParkingStep, Environment, QueueMove,
        PollMove, PassOver
<1>2. QED
  BY <1>1, TypeCorrect, ParkInvHolds, PTL DEF Spec

\* With the janitor off, only what is resolved leaves the live queue.
THEOREM WorkLeavesResolved == ASSUME Reliable, Janitor = FALSE PROVE Spec => LeavesResolved
<1>1. Kept => \A d \in Directive : Live(d) /\ ~Live(d)' => Resolved(d)'
  BY DEF Kept
<1>2. QED
  BY <1>1, WorkLeavesAccounted, PTL DEF LeavesResolved

-----------------------------------------------------------------------------
(* What waits for the publisher.  A file in the outbox belongs to a        *)
(* directive that is done or given up, and neither is built; from the      *)
(* gate chain to the hand-over the gated bytes stay where they are.        *)

ShipInv ==
  /\ OnlyGatedIsShipped
  /\ \A d \in Directive : Creates(d) /\ ship[Out[d]] \in Waiting => Resolved(d)
  /\ rpc \in BuildPC /\ Creates(cur) => ship[Out[cur]] \notin Waiting
  /\ rpc \in {"done", "archive", "settle", "clear", "commit"} /\ Creates(cur) /\ cur \notin High
       => disk[Out[cur]] = "gated"
  /\ rpc \in {"archive", "settle", "clear", "commit"} => cur \in doneSent
  /\ rpc \in {"settle", "clear", "commit"} => cur \notin High
  /\ refusing \in Directive => Creates(refusing) /\ ship[Out[refusing]] = "hollow"

\* The strengthening holds where no two directives declare one output, the
\* sentinels are written, and no `git clean` eats the .done that keeps a directive
\* out of the build.
LEMMA ShipInvHolds ==
  ASSUME DistinctOutputs, CanClean = FALSE, Reliable PROVE Spec => []ShipInv
<1> USE QueueAssumption DEF ShipInv, Creates, OnlyGatedIsShipped, Waiting, Resolved, DistinctOutputs
<1>1. Init => ShipInv
  BY DEF Init, BuildPC
<1>2. TypeOK /\ ParkInv /\ ShipInv /\ [Next]_vars => ShipInv'
  <2> SUFFICES ASSUME TypeOK, ParkInv, ShipInv, [Next]_vars PROVE ShipInv'
    OBVIOUS
  <2> USE DEF TypeOK, ParkInv, Reliable, BuildPC, dirVars, sentinelVars, fileVars, runnerVars,
              promoterVars, publisherVars, failureVars
  <2>1. ASSUME QueueMove PROVE ShipInv'
    BY <2>1, QueueMoves
  <2>2. ASSUME PollMove PROVE ShipInv'
    BY <2>2, PollMoves
  <2>3. ASSUME NEW d \in Directive, PassOver(d) PROVE ShipInv'
    BY <2>3, PassedOver DEF PassOver, HealedDone, OutputConfirmed, Present
  <2>4. ASSUME NEW d \in Directive, RouteHigh(d) PROVE ShipInv'
    BY <2>4 DEF RouteHigh, Consider, HealedDone, Eligible, FailedQuarantined, OutputConfirmed,
       Present
  <2>5. ASSUME NEW d \in Directive, SpineRejects(d) PROVE ShipInv'
    BY <2>5 DEF SpineRejects, Consider, HealedDone, Eligible, FailedQuarantined,
       OutputConfirmed, Present
  <2>6. ASSUME NEW d \in Directive, StartBuild(d) PROVE ShipInv'
    BY <2>6 DEF StartBuild, Consider, HealedDone, Eligible, FailedQuarantined, OutputConfirmed,
       Present
  <2>7. ASSUME WriteRawBytes PROVE ShipInv'
    BY <2>7 DEF WriteRawBytes, Put
  <2>8. ASSUME RunEngine PROVE ShipInv'
    BY <2>8 DEF RunEngine, Put
  <2>9. ASSUME NEW g \in ContentGates \cup {"engine_failed", "output_missing", "edit_diff"},
           GateRejects(g) PROVE ShipInv'
    BY <2>9 DEF GateRejects, AfterRejection, RejectingGates, ContentGates, Put, Learn,
       Swallowed, SubjectOf
  <2>10. ASSUME GatesPass PROVE ShipInv'
    BY <2>10 DEF GatesPass, Put
  <2>11. ASSUME BumpGhost PROVE ShipInv'
    BY <2>11 DEF BumpGhost, Count, Swallowed, BackToScan
  <2>12. ASSUME RecordLesson PROVE ShipInv'
    BY <2>12 DEF RecordLesson, Learn, Swallowed, SubjectOf
  <2>13. ASSUME ParkInRepo PROVE ShipInv'
    BY <2>13 DEF ParkInRepo, FailInRepo, Swallowed
  <2>14. ASSUME ParkDurably PROVE ShipInv'
    BY <2>14 DEF ParkDurably, FailDurably, Swallowed
  <2>15. ASSUME ParkUnstamps PROVE ShipInv'
    BY <2>15 DEF ParkUnstamps, ClearStale, BackToScan
  <2>16. ASSUME DropCounter PROVE ShipInv'
    BY <2>16 DEF DropCounter
  <2>17. ASSUME DropQueueFile PROVE ShipInv'
    BY <2>17 DEF DropQueueFile, BackToScan
  <2>18. ASSUME MarkCompleted PROVE ShipInv'
    BY <2>18 DEF MarkCompleted, Swallowed
  <2>19. ASSUME ArchiveFile PROVE ShipInv'
    BY <2>19 DEF ArchiveFile, Swallowed, BackToScan
  <2>20. ASSUME Settle PROVE ShipInv'
    BY <2>20 DEF Settle, Swallowed, SubjectOf
  <2>21. ASSUME ClearCounter PROVE ShipInv'
    BY <2>21 DEF ClearCounter
  <2>22. ASSUME CommitBuild PROVE ShipInv'
    BY <2>22 DEF CommitBuild, Versionable, Exists, Swallowed, BackToScan
  <2>23. ASSUME Crash PROVE ShipInv'
    BY <2>23 DEF Crash
  <2>24. ASSUME GitClean PROVE ShipInv'
    BY <2>24 DEF GitClean
  <2>25. ASSUME NEW d \in Directive, BeginParking(d) PROVE ShipInv'
    BY <2>25 DEF BeginParking, FailInRepo, Swallowed
  <2>26. ASSUME RefusalIsDurable PROVE ShipInv'
    BY <2>26 DEF RefusalIsDurable, FailDurably, Swallowed
  <2>27. ASSUME RefusalUnstamps PROVE ShipInv'
    BY <2>27 DEF RefusalUnstamps, ClearStale
  <2>28. ASSUME EvictHollow PROVE ShipInv'
    BY <2>28 DEF EvictHollow, Evict
  <2>29. ASSUME PublisherDies PROVE ShipInv'
    BY <2>29 DEF PublisherDies
  <2>30. ASSUME NEW f \in File, PublisherTakes(f) PROVE ShipInv'
    BY <2>30 DEF PublisherTakes, Evict, Exists
  <2>31. ASSUME NEW f \in File, PublisherRefuses(f) PROVE ShipInv'
    BY <2>31 DEF PublisherRefuses, Evict, Exists
  <2>32. ASSUME NEW f \in File, Deploy(f) PROVE ShipInv'
    BY <2>32 DEF Deploy
  <2>33. ASSUME NEW f \in File, Refuse(f) PROVE ShipInv'
    BY <2>33 DEF Refuse
  <2>34. CASE UNCHANGED vars
    BY <2>34 DEF vars
  <2>35. QED
    BY <2>1, <2>2, <2>3, <2>4, <2>5, <2>6, <2>7, <2>8, <2>9, <2>10, <2>11, <2>12, <2>13, <2>14,
       <2>15, <2>16, <2>17, <2>18, <2>19, <2>20, <2>21, <2>22, <2>23, <2>24, <2>25, <2>26, <2>27,
       <2>28, <2>29, <2>30, <2>31, <2>32, <2>33, <2>34
    DEF Next, PromoterStep, RunnerStep, BuildStep, ParkingStep, Environment, QueueMove,
        PollMove, PassOver
<1>3. QED
  BY <1>1, <1>2, TypeCorrect, ParkInvHolds, PTL DEF Spec

\* What waits in the outbox are the bytes that the gates judged, with any
\* number of directives and crashes.
THEOREM GatedIsShipped ==
  ASSUME DistinctOutputs, CanClean = FALSE, Reliable PROVE Spec => []OnlyGatedIsShipped
<1>1. ShipInv => OnlyGatedIsShipped
  BY DEF ShipInv
<1>2. QED
  BY <1>1, ShipInvHolds, PTL

-----------------------------------------------------------------------------
(* The sentinels of a directive the engines build never contradict each    *)
(* other.  Inductive because a directive is checked for quarantine when its *)
(* build starts, and only its own build can quarantine it after that.      *)

\* Where a build has not been given up.
Upright == BuildPC \ {"park", "durable", "unstamp", "uncount", "unqueue"}

SentinelInv ==
  /\ EngineSentinelsExclusive
  /\ rpc \in Upright /\ cur \notin WriteRaw => cur \notin failSent \cup durable
  /\ rpc \in Unstamped => cur \notin doneSent
  /\ trial = "raw" => rpc \in BuildPC /\ cur \in WriteRaw
  /\ HollowGate => refusing = None /\ \A f \in File : ship[f] # "hollow"
  /\ refusing \in Directive /\ pstep = "evict" => refusing \notin doneSent

\* Only the runner quarantines what it builds: either its own gate refuses what
\* the publisher would refuse as hollow, or nothing is built while it waits.
OwnVerdicts == HollowGate \/ (DistinctOutputs /\ CanClean = FALSE /\ Reliable)

\* The strengthening holds: one step per action of the queue.
LEMMA SentinelInvHolds == ASSUME OwnVerdicts PROVE Spec => []SentinelInv
<1> USE QueueAssumption DEF SentinelInv, EngineSentinelsExclusive, Upright, Unstamped, BuildPC,
                            Creates
<1>1. Init => SentinelInv
  BY DEF Init
<1>2. Spec => [](HollowGate \/ (DistinctOutputs /\ ShipInv))
  <2>1. CASE HollowGate
    BY <2>1, PTL
  <2>2. CASE DistinctOutputs /\ CanClean = FALSE /\ Reliable
    BY <2>2, ShipInvHolds, PTL
  <2>3. QED
    BY <2>1, <2>2 DEF OwnVerdicts
<1>3. TypeOK /\ (HollowGate \/ (DistinctOutputs /\ ShipInv)) /\ SentinelInv /\ [Next]_vars
      => SentinelInv'
  <2> SUFFICES ASSUME TypeOK, (HollowGate \/ (DistinctOutputs /\ ShipInv)), SentinelInv, [Next]_vars
           PROVE SentinelInv'
    OBVIOUS
  <2> USE DEF TypeOK, dirVars, sentinelVars, fileVars, runnerVars, promoterVars, publisherVars,
              failureVars
  <2>1. ASSUME QueueMove PROVE SentinelInv'
    BY <2>1, QueueMoves
  <2>2. ASSUME PollMove PROVE SentinelInv'
    BY <2>2, PollMoves
  <2>3. ASSUME NEW d \in Directive, PassOver(d) PROVE SentinelInv'
    BY <2>3, PassedOver DEF PassOver, HealedDone, OutputConfirmed, Present
  <2>4. ASSUME NEW d \in Directive, RouteHigh(d) PROVE SentinelInv'
    BY <2>4 DEF RouteHigh, Consider, HealedDone, Eligible, FailedQuarantined, OutputConfirmed,
       Present
  <2>5. ASSUME NEW d \in Directive, SpineRejects(d) PROVE SentinelInv'
    BY <2>5 DEF SpineRejects, Consider, HealedDone, Eligible, FailedQuarantined,
       OutputConfirmed, Present
  <2>6. ASSUME NEW d \in Directive, StartBuild(d) PROVE SentinelInv'
    BY <2>6 DEF StartBuild, Consider, HealedDone, Eligible, FailedQuarantined, OutputConfirmed,
       Present
  <2>7. ASSUME WriteRawBytes PROVE SentinelInv'
    BY <2>7 DEF WriteRawBytes, Put
  <2>8. ASSUME RunEngine PROVE SentinelInv'
    BY <2>8 DEF RunEngine, Put
  <2>9. ASSUME NEW g \in ContentGates \cup {"engine_failed", "output_missing", "edit_diff"},
           GateRejects(g) PROVE SentinelInv'
    BY <2>9 DEF GateRejects, AfterRejection, RejectingGates, ContentGates, Put, Learn,
       Swallowed, SubjectOf
  <2>10. ASSUME GatesPass PROVE SentinelInv'
    BY <2>10 DEF GatesPass, Put
  <2>11. ASSUME BumpGhost PROVE SentinelInv'
    BY <2>11 DEF BumpGhost, Count, Swallowed, BackToScan
  <2>12. ASSUME RecordLesson PROVE SentinelInv'
    BY <2>12 DEF RecordLesson, Learn, Swallowed, SubjectOf
  <2>13. ASSUME ParkInRepo PROVE SentinelInv'
    BY <2>13 DEF ParkInRepo, FailInRepo, Swallowed
  <2>14. ASSUME ParkDurably PROVE SentinelInv'
    BY <2>14 DEF ParkDurably, FailDurably, Swallowed
  <2>15. ASSUME ParkUnstamps PROVE SentinelInv'
    BY <2>15 DEF ParkUnstamps, ClearStale, BackToScan
  <2>16. ASSUME DropCounter PROVE SentinelInv'
    BY <2>16 DEF DropCounter
  <2>17. ASSUME DropQueueFile PROVE SentinelInv'
    BY <2>17 DEF DropQueueFile, BackToScan
  <2>18. ASSUME MarkCompleted PROVE SentinelInv'
    BY <2>18 DEF MarkCompleted, Swallowed, ShipInv, Waiting, DistinctOutputs
  <2>19. ASSUME ArchiveFile PROVE SentinelInv'
    BY <2>19 DEF ArchiveFile, Swallowed, BackToScan
  <2>20. ASSUME Settle PROVE SentinelInv'
    BY <2>20 DEF Settle, Swallowed, SubjectOf
  <2>21. ASSUME ClearCounter PROVE SentinelInv'
    BY <2>21 DEF ClearCounter
  <2>22. ASSUME CommitBuild PROVE SentinelInv'
    BY <2>22 DEF CommitBuild, Versionable, Exists, Swallowed, BackToScan, ShipInv, Waiting,
       DistinctOutputs
  <2>23. ASSUME Crash PROVE SentinelInv'
    BY <2>23 DEF Crash
  <2>24. ASSUME GitClean PROVE SentinelInv'
    BY <2>24 DEF GitClean
  <2>25. ASSUME NEW d \in Directive, BeginParking(d) PROVE SentinelInv'
    BY <2>25 DEF BeginParking, FailInRepo, Swallowed, ShipInv, Waiting, DistinctOutputs
  <2>26. ASSUME RefusalIsDurable PROVE SentinelInv'
    BY <2>26 DEF RefusalIsDurable, FailDurably, Swallowed, ShipInv, Waiting, DistinctOutputs
  <2>27. ASSUME RefusalUnstamps PROVE SentinelInv'
    BY <2>27 DEF RefusalUnstamps, ClearStale, ShipInv, Waiting, DistinctOutputs
  <2>28. ASSUME EvictHollow PROVE SentinelInv'
    BY <2>28 DEF EvictHollow, Evict, ShipInv, Waiting, DistinctOutputs
  <2>29. ASSUME PublisherDies PROVE SentinelInv'
    BY <2>29 DEF PublisherDies
  <2>30. ASSUME NEW f \in File, PublisherTakes(f) PROVE SentinelInv'
    BY <2>30 DEF PublisherTakes, Evict, Exists
  <2>31. ASSUME NEW f \in File, PublisherRefuses(f) PROVE SentinelInv'
    BY <2>31 DEF PublisherRefuses, Evict, Exists
  <2>32. ASSUME NEW f \in File, Deploy(f) PROVE SentinelInv'
    BY <2>32 DEF Deploy
  <2>33. ASSUME NEW f \in File, Refuse(f) PROVE SentinelInv'
    BY <2>33 DEF Refuse
  <2>34. CASE UNCHANGED vars
    BY <2>34 DEF vars
  <2>35. QED
    BY <2>1, <2>2, <2>3, <2>4, <2>5, <2>6, <2>7, <2>8, <2>9, <2>10, <2>11, <2>12, <2>13, <2>14,
       <2>15, <2>16, <2>17, <2>18, <2>19, <2>20, <2>21, <2>22, <2>23, <2>24, <2>25, <2>26, <2>27,
       <2>28, <2>29, <2>30, <2>31, <2>32, <2>33, <2>34
    DEF Next, PromoterStep, RunnerStep, BuildStep, ParkingStep, Environment, QueueMove,
        PollMove, PassOver
<1>4. QED
  BY <1>1, <1>2, <1>3, TypeCorrect, PTL DEF Spec

\* A directive the engines build is never given up with its .done standing beside
\* the .failed, except while the publisher is about to evict its file: a crash, a
\* failed write or a second poll in any gap does not break it.
THEOREM SentinelsNeverContradict ==
  ASSUME OwnVerdicts PROVE Spec => []EngineSentinelsExclusive
<1>1. SentinelInv => EngineSentinelsExclusive
  BY DEF SentinelInv
<1>2. QED
  BY <1>1, SentinelInvHolds, PTL

\* A directive in the durable store is not built, whatever `git clean` eats of the
\* sentinels inside the repository.
THEOREM QuarantineIsDurable ==
  ASSUME OwnVerdicts PROVE Spec => []NoBuildOfQuarantined
<1>1. SentinelInv => NoBuildOfQuarantined
  BY DEF SentinelInv, NoBuildOfQuarantined, Upright, BuildPC
<1>2. QED
  BY <1>1, SentinelInvHolds, PTL

-----------------------------------------------------------------------------
(* What is under review is not built again.  With nothing that waits for   *)
(* another file there is no parked copy to revive and no mesh row to read  *)
(* again, so what the runner loads is never done, and what is in flight is *)
(* done or given up.                                                       *)

Unchained == Mesh = {} /\ \A d \in Directive : Requires[d] = {}

FlightInv ==
  /\ parked = {}
  /\ rpc \in {"orphans", "load"} => pending \cap doneSent = {}
  /\ batch \cap doneSent = {}
  /\ rpc \in BuildPC => cur \notin batch
  /\ \A d \in Directive : Creates(d) /\ ship[Out[d]] = "inflight" => Resolved(d)
  /\ rpc \in BuildPC /\ Creates(cur) => ship[Out[cur]] # "inflight"

\* The strengthening holds when no directive requires a file.
LEMMA FlightInvHolds ==
  ASSUME Unchained, DistinctOutputs, CanClean = FALSE, Reliable
  PROVE  Spec => []FlightInv
<1> USE QueueAssumption DEF FlightInv, Unchained, BuildPC, Creates, DistinctOutputs, Resolved
<1>1. Init => FlightInv
  BY DEF Init
<1>2. TypeOK /\ ParkInv /\ ShipInv /\ FlightInv /\ [Next]_vars => FlightInv'
  <2> SUFFICES ASSUME TypeOK, ParkInv, ShipInv, FlightInv, [Next]_vars PROVE FlightInv'
    OBVIOUS
  <2> USE DEF Reliable, dirVars, sentinelVars, fileVars, runnerVars, promoterVars, publisherVars,
              failureVars
  <2>1. ASSUME BeginPass PROVE FlightInv'
    BY <2>1 DEF BeginPass
  <2>2. ASSUME JanitorPass PROVE FlightInv'
    BY <2>2 DEF JanitorPass, Leave
  <2>3. ASSUME EndPass PROVE FlightInv'
    BY <2>3 DEF EndPass
  <2>4. ASSUME NEW d \in Directive, ArchiveResolved(d) PROVE FlightInv'
    BY <2>4 DEF ArchiveResolved, Visit, Leave
  <2>5. ASSUME NEW d \in Directive, HoldProposal(d) PROVE FlightInv'
    BY <2>5 DEF HoldProposal, Visit
  <2>6. ASSUME NEW d \in Directive, Promote(d) PROVE FlightInv'
    BY <2>6 DEF Promote, Visit, Leave, Terminal
  <2>7. ASSUME FanOut PROVE FlightInv'
    BY <2>7 DEF FanOut
  <2>8. ASSUME NEW d \in Directive, Propose(d) PROVE FlightInv'
    BY <2>8 DEF Propose
  <2>9. ASSUME PruneDonePending PROVE FlightInv'
    BY <2>9 DEF PruneDonePending
  <2>10. ASSUME ParkOrphanChains PROVE FlightInv'
    <3>1. \A d \in Directive : ~Unsatisfiable(d)
      BY DEF Unsatisfiable
    <3>2. pending' = pending /\ parked' = {}
      BY <2>10, <3>1 DEF ParkOrphanChains, TypeOK
    <3>3. QED
      BY <2>10, <3>2 DEF ParkOrphanChains
  <2>11. ASSUME LoadDirectives PROVE FlightInv'
    BY <2>11 DEF LoadDirectives
  <2>12. ASSUME EndCycle PROVE FlightInv'
    BY <2>12 DEF EndCycle
  <2>13. ASSUME NEW d \in Directive, SkipIneligible(d) PROVE FlightInv'
    BY <2>13 DEF SkipIneligible, Consider, HealedDone, OutputConfirmed, Present, TypeOK,
       ParkInv, ShipInv
  <2>14. ASSUME NEW d \in Directive, DeferRequires(d) PROVE FlightInv'
    BY <2>14 DEF DeferRequires, Consider, HealedDone, OutputConfirmed, Present, TypeOK, ParkInv,
       ShipInv
  <2>15. ASSUME NEW d \in Directive, RouteHigh(d) PROVE FlightInv'
    BY <2>15 DEF RouteHigh, Consider, HealedDone, Eligible, FailedQuarantined, OutputConfirmed,
       Present, TypeOK, ShipInv, Waiting
  <2>16. ASSUME NEW d \in Directive, SpineRejects(d) PROVE FlightInv'
    BY <2>16 DEF SpineRejects, Consider, HealedDone, Eligible, FailedQuarantined,
       OutputConfirmed, Present, TypeOK, ShipInv, Waiting
  <2>17. ASSUME NEW d \in Directive, StartBuild(d) PROVE FlightInv'
    BY <2>17 DEF StartBuild, Consider, HealedDone, Eligible, FailedQuarantined, OutputConfirmed,
       Present, TypeOK, ShipInv, Waiting
  <2>18. ASSUME WriteRawBytes PROVE FlightInv'
    BY <2>18 DEF WriteRawBytes, Put
  <2>19. ASSUME RunEngine PROVE FlightInv'
    BY <2>19 DEF RunEngine, Put
  <2>20. ASSUME NEW g \in ContentGates \cup {"engine_failed", "output_missing", "edit_diff"},
           GateRejects(g) PROVE FlightInv'
    BY <2>20 DEF GateRejects, AfterRejection, RejectingGates, ContentGates, Put, Learn,
       Swallowed, SubjectOf
  <2>21. ASSUME GatesPass PROVE FlightInv'
    BY <2>21 DEF GatesPass, Put
  <2>22. ASSUME BumpGhost PROVE FlightInv'
    BY <2>22 DEF BumpGhost, Count, Swallowed, BackToScan
  <2>23. ASSUME RecordLesson PROVE FlightInv'
    BY <2>23 DEF RecordLesson, Learn, Swallowed, SubjectOf
  <2>24. ASSUME ParkInRepo PROVE FlightInv'
    BY <2>24 DEF ParkInRepo, FailInRepo, Swallowed
  <2>25. ASSUME ParkDurably PROVE FlightInv'
    BY <2>25 DEF ParkDurably, FailDurably, Swallowed
  <2>26. ASSUME ParkUnstamps PROVE FlightInv'
    BY <2>26 DEF ParkUnstamps, ClearStale, BackToScan, TypeOK, ParkInv, ShipInv
  <2>27. ASSUME DropCounter PROVE FlightInv'
    BY <2>27 DEF DropCounter
  <2>28. ASSUME DropQueueFile PROVE FlightInv'
    BY <2>28 DEF DropQueueFile, BackToScan
  <2>29. ASSUME MarkCompleted PROVE FlightInv'
    BY <2>29 DEF MarkCompleted, Swallowed, TypeOK, ParkInv, ShipInv
  <2>30. ASSUME ArchiveFile PROVE FlightInv'
    BY <2>30 DEF ArchiveFile, Swallowed, BackToScan
  <2>31. ASSUME Settle PROVE FlightInv'
    BY <2>31 DEF Settle, Swallowed, SubjectOf
  <2>32. ASSUME ClearCounter PROVE FlightInv'
    BY <2>32 DEF ClearCounter
  <2>33. ASSUME CommitBuild PROVE FlightInv'
    BY <2>33 DEF CommitBuild, Versionable, Exists, Swallowed, BackToScan, TypeOK, ShipInv,
       Waiting
  <2>34. ASSUME Crash PROVE FlightInv'
    BY <2>34 DEF Crash
  <2>35. ASSUME GitClean PROVE FlightInv'
    BY <2>35 DEF GitClean
  <2>36. ASSUME NEW d \in Directive, BeginParking(d) PROVE FlightInv'
    BY <2>36 DEF BeginParking, FailInRepo, Swallowed, TypeOK, ShipInv, Waiting
  <2>37. ASSUME RefusalIsDurable PROVE FlightInv'
    BY <2>37 DEF RefusalIsDurable, FailDurably, Swallowed
  <2>38. ASSUME RefusalUnstamps PROVE FlightInv'
    BY <2>38 DEF RefusalUnstamps, ClearStale, TypeOK, ParkInv, ShipInv
  <2>39. ASSUME EvictHollow PROVE FlightInv'
    BY <2>39 DEF EvictHollow, Evict, TypeOK, ShipInv, Waiting
  <2>40. ASSUME PublisherDies PROVE FlightInv'
    BY <2>40 DEF PublisherDies
  <2>41. ASSUME NEW f \in File, PublisherTakes(f) PROVE FlightInv'
    BY <2>41 DEF PublisherTakes, Evict, Exists, TypeOK, ShipInv, Waiting
  <2>42. ASSUME NEW f \in File, PublisherRefuses(f) PROVE FlightInv'
    BY <2>42 DEF PublisherRefuses, Evict, Exists, TypeOK, ShipInv, Waiting
  <2>43. ASSUME NEW f \in File, Deploy(f) PROVE FlightInv'
    BY <2>43 DEF Deploy, TypeOK, ShipInv, Waiting
  <2>44. ASSUME NEW f \in File, Refuse(f) PROVE FlightInv'
    BY <2>44 DEF Refuse
  <2>45. CASE UNCHANGED vars
    BY <2>45 DEF vars
  <2>46. QED
    BY <2>1, <2>2, <2>3, <2>4, <2>5, <2>6, <2>7, <2>8, <2>9, <2>10, <2>11, <2>12, <2>13, <2>14,
       <2>15, <2>16, <2>17, <2>18, <2>19, <2>20, <2>21, <2>22, <2>23, <2>24, <2>25, <2>26, <2>27,
       <2>28, <2>29, <2>30, <2>31, <2>32, <2>33, <2>34, <2>35, <2>36, <2>37, <2>38, <2>39, <2>40,
       <2>41, <2>42, <2>43, <2>44, <2>45
    DEF Next, PromoterStep, RunnerStep, BuildStep, ParkingStep, Environment, QueueMove,
        PollMove, PassOver
<1>3. QED
  BY <1>1, <1>2, TypeCorrect, ParkInvHolds, ShipInvHolds, PTL DEF Spec

\* A file whose pull request is open is not built a second time, as long as no
\* directive waits for another's file and no .done fails to be written.
THEOREM NothingRebuiltInFlight ==
  ASSUME Unchained, DistinctOutputs, CanClean = FALSE, Reliable PROVE Spec => []NoRebuildInFlight
<1>1. FlightInv => NoRebuildInFlight
  BY DEF FlightInv, NoRebuildInFlight, BuildPC
<1>2. QED
  BY <1>1, FlightInvHolds, PTL

-----------------------------------------------------------------------------
(* _complete and park_directive leave little half done.  A death or a       *)
(* swallowed failure leaves the directive in hand, and nothing else does.   *)

\* The hand-over finds the file where the gates left it, or the publisher knows it.
HandInv ==
  rpc \in {"done", "archive", "settle", "clear", "commit"} /\ cur \notin High /\ Creates(cur)
    => disk[Out[cur]] # "absent" \/ ship[Out[cur]] # "none"

\* Only the publisher takes a file away, and then it is known.
LEMMA HandInvHolds == Spec => []HandInv
<1> USE QueueAssumption DEF HandInv, Creates
<1>1. Init => HandInv
  BY DEF Init
<1>2. TypeOK /\ HandInv /\ [Next]_vars => HandInv'
  <2> SUFFICES ASSUME TypeOK, HandInv, [Next]_vars PROVE HandInv'
    OBVIOUS
  <2> USE DEF TypeOK, BuildPC, dirVars, sentinelVars, fileVars, runnerVars, promoterVars,
              publisherVars, failureVars
  <2>1. ASSUME QueueMove PROVE HandInv'
    BY <2>1, QueueMoves
  <2>2. ASSUME PollMove PROVE HandInv'
    BY <2>2, PollMoves
  <2>3. ASSUME NEW d \in Directive, PassOver(d) PROVE HandInv'
    BY <2>3, PassedOver DEF PassOver, HealedDone, OutputConfirmed, Present
  <2>4. ASSUME NEW d \in Directive, RouteHigh(d) PROVE HandInv'
    BY <2>4 DEF RouteHigh, Consider, HealedDone, Eligible, FailedQuarantined, OutputConfirmed,
       Present
  <2>5. ASSUME NEW d \in Directive, SpineRejects(d) PROVE HandInv'
    BY <2>5 DEF SpineRejects, Consider, HealedDone, Eligible, FailedQuarantined,
       OutputConfirmed, Present
  <2>6. ASSUME NEW d \in Directive, StartBuild(d) PROVE HandInv'
    BY <2>6 DEF StartBuild, Consider, HealedDone, Eligible, FailedQuarantined, OutputConfirmed,
       Present
  <2>7. ASSUME WriteRawBytes PROVE HandInv'
    BY <2>7 DEF WriteRawBytes, Put
  <2>8. ASSUME RunEngine PROVE HandInv'
    BY <2>8 DEF RunEngine, Put
  <2>9. ASSUME NEW g \in ContentGates \cup {"engine_failed", "output_missing", "edit_diff"},
           GateRejects(g) PROVE HandInv'
    BY <2>9 DEF GateRejects, AfterRejection, RejectingGates, ContentGates, Put, Learn,
       Swallowed, SubjectOf
  <2>10. ASSUME GatesPass PROVE HandInv'
    BY <2>10 DEF GatesPass, Put
  <2>11. ASSUME BumpGhost PROVE HandInv'
    BY <2>11 DEF BumpGhost, Count, Swallowed, BackToScan
  <2>12. ASSUME RecordLesson PROVE HandInv'
    BY <2>12 DEF RecordLesson, Learn, Swallowed, SubjectOf
  <2>13. ASSUME ParkInRepo PROVE HandInv'
    BY <2>13 DEF ParkInRepo, FailInRepo, Swallowed
  <2>14. ASSUME ParkDurably PROVE HandInv'
    BY <2>14 DEF ParkDurably, FailDurably, Swallowed
  <2>15. ASSUME ParkUnstamps PROVE HandInv'
    BY <2>15 DEF ParkUnstamps, ClearStale, BackToScan
  <2>16. ASSUME DropCounter PROVE HandInv'
    BY <2>16 DEF DropCounter
  <2>17. ASSUME DropQueueFile PROVE HandInv'
    BY <2>17 DEF DropQueueFile, BackToScan
  <2>18. ASSUME MarkCompleted PROVE HandInv'
    BY <2>18 DEF MarkCompleted, Swallowed
  <2>19. ASSUME ArchiveFile PROVE HandInv'
    BY <2>19 DEF ArchiveFile, Swallowed, BackToScan
  <2>20. ASSUME Settle PROVE HandInv'
    BY <2>20 DEF Settle, Swallowed, SubjectOf
  <2>21. ASSUME ClearCounter PROVE HandInv'
    BY <2>21 DEF ClearCounter
  <2>22. ASSUME CommitBuild PROVE HandInv'
    BY <2>22 DEF CommitBuild, Versionable, Exists, Swallowed, BackToScan
  <2>23. ASSUME Crash PROVE HandInv'
    BY <2>23 DEF Crash
  <2>24. ASSUME GitClean PROVE HandInv'
    BY <2>24 DEF GitClean
  <2>25. ASSUME NEW d \in Directive, BeginParking(d) PROVE HandInv'
    BY <2>25 DEF BeginParking, FailInRepo, Swallowed
  <2>26. ASSUME RefusalIsDurable PROVE HandInv'
    BY <2>26 DEF RefusalIsDurable, FailDurably, Swallowed
  <2>27. ASSUME RefusalUnstamps PROVE HandInv'
    BY <2>27 DEF RefusalUnstamps, ClearStale
  <2>28. ASSUME EvictHollow PROVE HandInv'
    BY <2>28 DEF EvictHollow, Evict
  <2>29. ASSUME PublisherDies PROVE HandInv'
    BY <2>29 DEF PublisherDies
  <2>30. ASSUME NEW f \in File, PublisherTakes(f) PROVE HandInv'
    BY <2>30 DEF PublisherTakes, Evict, Exists
  <2>31. ASSUME NEW f \in File, PublisherRefuses(f) PROVE HandInv'
    BY <2>31 DEF PublisherRefuses, Evict, Exists
  <2>32. ASSUME NEW f \in File, Deploy(f) PROVE HandInv'
    BY <2>32 DEF Deploy
  <2>33. ASSUME NEW f \in File, Refuse(f) PROVE HandInv'
    BY <2>33 DEF Refuse
  <2>34. CASE UNCHANGED vars
    BY <2>34 DEF vars
  <2>35. QED
    BY <2>1, <2>2, <2>3, <2>4, <2>5, <2>6, <2>7, <2>8, <2>9, <2>10, <2>11, <2>12, <2>13, <2>14,
       <2>15, <2>16, <2>17, <2>18, <2>19, <2>20, <2>21, <2>22, <2>23, <2>24, <2>25, <2>26, <2>27,
       <2>28, <2>29, <2>30, <2>31, <2>32, <2>33, <2>34
    DEF Next, PromoterStep, RunnerStep, BuildStep, ParkingStep, Environment, QueueMove,
        PollMove, PassOver
<1>3. QED
  BY <1>1, <1>2, TypeCorrect, PTL DEF Spec

NoLess == crashes' >= crashes /\ faults' >= faults

\* Nothing is left half done that was not before.
Tidy == Stranded' \subseteq Stranded /\ HalfParked' \subseteq HalfParked /\ NoLess

\* One directive is, and a death or a failure is to blame.
Drops(d) ==
  /\ \/ Stranded' \subseteq Stranded \cup {d} /\ HalfParked' \subseteq HalfParked
     \/ Stranded' \subseteq Stranded /\ HalfParked' \subseteq HalfParked \cup {d}
  /\ \/ crashes' = crashes + 1 /\ faults' = faults
     \/ crashes' = crashes /\ faults' = faults + 1

Untidy == \E d \in Directive : Drops(d)

\* Every step is of one of the two kinds.
LEMMA TidyStep ==
  ASSUME TypeOK, TypeOK', HandInv, [Next]_vars PROVE Tidy \/ Untidy
<1>d. ASSUME NEW d \in Directive, Drops(d) PROVE Untidy
  BY <1>d DEF Untidy
<1> USE QueueAssumption DEF TypeOK, BuildPC, Creates,
    dirVars, sentinelVars, fileVars, runnerVars, promoterVars, publisherVars, failureVars
<1> USE DEF Tidy, Stranded, HalfParked, NoLess
<1>0. crashes \in Nat /\ faults \in Nat
  OBVIOUS
<1>1. ASSUME QueueMove PROVE Tidy \/ Untidy
  BY <1>1, QueueMoves, <1>0
<1>2. ASSUME PollMove PROVE Tidy \/ Untidy
  BY <1>2, PollMoves, <1>0
<1>3. ASSUME NEW d \in Directive, PassOver(d) PROVE Tidy \/ Untidy
  BY <1>3, PassedOver, <1>0 DEF PassOver, HealedDone, OutputConfirmed, Present
<1>4. ASSUME NEW d \in Directive, RouteHigh(d) PROVE Tidy \/ Untidy
  BY <1>4, <1>0 DEF RouteHigh, Consider, HealedDone, Eligible, FailedQuarantined,
     OutputConfirmed, Present
<1>5. ASSUME NEW d \in Directive, SpineRejects(d) PROVE Tidy \/ Untidy
  BY <1>5, <1>0 DEF SpineRejects, Consider, HealedDone, Eligible, FailedQuarantined,
     OutputConfirmed, Present
<1>6. ASSUME NEW d \in Directive, StartBuild(d) PROVE Tidy \/ Untidy
  BY <1>6, <1>0 DEF StartBuild, Consider, HealedDone, Eligible, FailedQuarantined,
     OutputConfirmed, Present
<1>7. ASSUME WriteRawBytes PROVE Tidy \/ Untidy
  BY <1>7, <1>0 DEF WriteRawBytes, Put
<1>8. ASSUME RunEngine PROVE Tidy \/ Untidy
  BY <1>8, <1>0 DEF RunEngine, Put
<1>9. ASSUME NEW g \in ContentGates \cup {"engine_failed", "output_missing", "edit_diff"},
           GateRejects(g) PROVE Tidy \/ Untidy
  BY <1>9, <1>0 DEF GateRejects, AfterRejection, RejectingGates, ContentGates, Put, Learn,
     Swallowed, SubjectOf
<1>10. ASSUME GatesPass PROVE Tidy \/ Untidy
  BY <1>10, <1>0 DEF GatesPass, Put
<1>11. ASSUME BumpGhost PROVE Tidy \/ Untidy
  BY <1>11, <1>0 DEF BumpGhost, Count, Swallowed, BackToScan
<1>12. ASSUME RecordLesson PROVE Tidy \/ Untidy
  BY <1>12, <1>0 DEF RecordLesson, Learn, Swallowed, SubjectOf
<1>13. ASSUME ParkInRepo PROVE Tidy \/ Untidy
  BY <1>13, <1>0 DEF ParkInRepo, FailInRepo, Swallowed
<1>14. ASSUME ParkDurably PROVE Tidy \/ Untidy
  <2>1. CASE faults' = faults
    <3>1. NoLess
      BY <1>0, <1>14, <2>1 DEF ParkDurably
    <3>2. QED
      BY <1>0, <1>14, <2>1, <3>1 DEF ParkDurably, FailDurably, Swallowed
  <2>2. CASE faults' # faults
    <3>1. crashes' = crashes /\ faults' = faults + 1
      BY <1>14, <2>2 DEF ParkDurably, FailDurably, Swallowed
    <3>2. Stranded' \subseteq Stranded /\ HalfParked' \subseteq HalfParked \cup {cur}
      BY <1>14, <2>2 DEF ParkDurably, FailDurably
    <3>3. PICK d \in Directive : d = cur
      BY <1>14 DEF ParkDurably
    <3>4. Drops(d)
      BY <3>1, <3>2, <3>3 DEF Drops
    <3>5. QED
      BY <3>4, <1>d
  <2>3. QED
    BY <2>1, <2>2
<1>15. ASSUME ParkUnstamps PROVE Tidy \/ Untidy
  BY <1>15, <1>0 DEF ParkUnstamps, ClearStale, BackToScan
<1>16. ASSUME DropCounter PROVE Tidy \/ Untidy
  BY <1>16, <1>0 DEF DropCounter
<1>17. ASSUME DropQueueFile PROVE Tidy \/ Untidy
  BY <1>17, <1>0 DEF DropQueueFile, BackToScan
<1>18. ASSUME MarkCompleted PROVE Tidy \/ Untidy
  BY <1>18, <1>0 DEF MarkCompleted, Swallowed
<1>19. ASSUME ArchiveFile PROVE Tidy \/ Untidy
  BY <1>19, <1>0 DEF ArchiveFile, Swallowed, BackToScan
<1>20. ASSUME Settle PROVE Tidy \/ Untidy
  BY <1>20, <1>0 DEF Settle, Swallowed, SubjectOf
<1>21. ASSUME ClearCounter PROVE Tidy \/ Untidy
  BY <1>21, <1>0 DEF ClearCounter
<1>22. ASSUME CommitBuild PROVE Tidy \/ Untidy
  <2>1. CASE ship' # ship \/ ~Versionable(Out[cur])
    <3>1. NoLess
      BY <1>0, <1>22, <2>1 DEF CommitBuild
    <3>2. QED
      BY <1>22, <2>1, <3>1 DEF CommitBuild, Versionable, Exists, HandInv, BackToScan
  <2>2. CASE ship' = ship /\ faults' # faults
    <3>1. crashes' = crashes /\ faults' = faults + 1
      BY <1>22, <2>2 DEF CommitBuild, Swallowed
    <3>2. Stranded' \subseteq Stranded \cup {cur} /\ HalfParked' \subseteq HalfParked
      BY <1>22, <2>2 DEF CommitBuild, BackToScan
    <3>3. PICK d \in Directive : d = cur
      BY <1>22 DEF CommitBuild
    <3>4. Drops(d)
      BY <3>1, <3>2, <3>3 DEF Drops
    <3>5. QED
      BY <3>4, <1>d
  <2>3. CASE ship' = ship /\ Versionable(Out[cur]) /\ faults' = faults
    <3>1. NoLess
      BY <1>0, <1>22, <2>3 DEF CommitBuild
    <3>2. ship[Out[cur]] = "outbox"
      BY <1>22, <2>3 DEF CommitBuild, Versionable, Swallowed
    <3>3. QED
      BY <1>22, <2>3, <3>1, <3>2 DEF CommitBuild, BackToScan
  <2>4. QED
    BY <2>1, <2>2, <2>3
<1>23. ASSUME Crash PROVE Tidy \/ Untidy
  <2>1. crashes' = crashes + 1 /\ faults' = faults
    BY <1>0, <1>23 DEF Crash
  <2>2. CASE rpc \in BuildPC
    <3>1. \/ Stranded' \subseteq Stranded \cup {cur} /\ HalfParked' \subseteq HalfParked
          \/ Stranded' \subseteq Stranded /\ HalfParked' \subseteq HalfParked \cup {cur}
      BY <1>23, <2>2 DEF Crash
    <3>2. PICK d \in Directive : d = cur
      BY <2>2
    <3>3. Drops(d)
      BY <2>1, <3>1, <3>2 DEF Drops
    <3>4. QED
      BY <3>3, <1>d
  <2>3. CASE rpc \notin BuildPC
    BY <1>23, <2>1, <2>3 DEF Crash
  <2>4. QED
    BY <2>2, <2>3
<1>24. ASSUME GitClean PROVE Tidy \/ Untidy
  BY <1>24, <1>0 DEF GitClean
<1>25. ASSUME NEW d \in Directive, BeginParking(d) PROVE Tidy \/ Untidy
  BY <1>25, <1>0 DEF BeginParking, FailInRepo, Swallowed
<1>26. ASSUME RefusalIsDurable PROVE Tidy \/ Untidy
  <2>1. CASE faults' = faults
    <3>1. NoLess
      BY <1>0, <1>26, <2>1 DEF RefusalIsDurable
    <3>2. QED
      BY <1>0, <1>26, <2>1, <3>1 DEF RefusalIsDurable, FailDurably, Swallowed
  <2>2. CASE faults' # faults
    <3>1. crashes' = crashes /\ faults' = faults + 1
      BY <1>26, <2>2 DEF RefusalIsDurable, FailDurably, Swallowed
    <3>2. Stranded' \subseteq Stranded /\ HalfParked' \subseteq HalfParked \cup {refusing}
      BY <1>26, <2>2 DEF RefusalIsDurable, FailDurably
    <3>3. PICK d \in Directive : d = refusing
      BY <1>26 DEF RefusalIsDurable
    <3>4. Drops(d)
      BY <3>1, <3>2, <3>3 DEF Drops
    <3>5. QED
      BY <3>4, <1>d
  <2>3. QED
    BY <2>1, <2>2
<1>27. ASSUME RefusalUnstamps PROVE Tidy \/ Untidy
  BY <1>27, <1>0 DEF RefusalUnstamps, ClearStale
<1>28. ASSUME EvictHollow PROVE Tidy \/ Untidy
  BY <1>28, <1>0 DEF EvictHollow, Evict
<1>29. ASSUME PublisherDies PROVE Tidy \/ Untidy
  <2>1. crashes' = crashes + 1 /\ faults' = faults
    BY <1>0, <1>29 DEF PublisherDies
  <2>2. Stranded' \subseteq Stranded /\ HalfParked' \subseteq HalfParked \cup {refusing}
    BY <1>29 DEF PublisherDies
  <2>3. PICK d \in Directive : d = refusing
    BY <1>29 DEF PublisherDies
  <2>4. Drops(d)
    BY <2>1, <2>2, <2>3 DEF Drops
  <2>5. QED
    BY <2>4, <1>d
<1>30. ASSUME NEW f \in File, PublisherTakes(f) PROVE Tidy \/ Untidy
  BY <1>30, <1>0 DEF PublisherTakes, Evict, Exists
<1>31. ASSUME NEW f \in File, PublisherRefuses(f) PROVE Tidy \/ Untidy
  BY <1>31, <1>0 DEF PublisherRefuses, Evict, Exists
<1>32. ASSUME NEW f \in File, Deploy(f) PROVE Tidy \/ Untidy
  BY <1>32, <1>0 DEF Deploy
<1>33. ASSUME NEW f \in File, Refuse(f) PROVE Tidy \/ Untidy
  BY <1>33, <1>0 DEF Refuse
<1>34. CASE UNCHANGED vars
  BY <1>34 DEF vars
<1>35. QED
  BY <1>1, <1>2, <1>3, <1>4, <1>5, <1>6, <1>7, <1>8, <1>9, <1>10, <1>11, <1>12, <1>13, <1>14,
     <1>15, <1>16, <1>17, <1>18, <1>19, <1>20, <1>21, <1>22, <1>23, <1>24, <1>25, <1>26, <1>27,
     <1>28, <1>29, <1>30, <1>31, <1>32, <1>33, <1>34
  DEF Next, PromoterStep, RunnerStep, BuildStep, ParkingStep, Environment, QueueMove,
      PollMove, PassOver

\* A member of {t} \X S is a pair of t and a member of S.
LEMMA PairOf ==
  ASSUME NEW t, NEW S, NEW h, h \in {t} \X S
  PROVE  h = <<t, h[2]>> /\ h[2] \in S
OBVIOUS

\* However often runner and publisher die and writes fail, the builds that were
\* stamped .done and never handed to the publisher, and the directives given up
\* inside the repository only, together are at most as many as those deaths and
\* failures.
THEOREM LittleIsHalfDone == Spec => []FewHalfDone
<1> DEFINE FewInv == IsFiniteSet(HalfDone) /\ FewHalfDone
<1>1. Init => FewInv
  <2> SUFFICES ASSUME Init PROVE FewInv
    OBVIOUS
  <2>1. HalfDone = {} /\ crashes = 0 /\ faults = 0
    BY DEF Init, HalfDone, Stranded, HalfParked
  <2>2. QED
    BY <2>1, FS_EmptySet DEF FewHalfDone
<1>2. TypeOK /\ TypeOK' /\ HandInv /\ FewInv /\ [Next]_vars => FewInv'
  <2> SUFFICES ASSUME TypeOK, TypeOK', HandInv, FewInv, [Next]_vars PROVE FewInv'
    OBVIOUS
  <2>1. /\ Cardinality(HalfDone) \in Nat
        /\ crashes \in Nat /\ faults \in Nat /\ crashes' \in Nat /\ faults' \in Nat
    BY FS_CardinalityType, QueueAssumption DEF TypeOK
  <2>2. CASE Tidy
    <3>1. HalfDone' \subseteq HalfDone
      BY <2>2 DEF Tidy, HalfDone
    <3>2. IsFiniteSet(HalfDone') /\ Cardinality(HalfDone') <= Cardinality(HalfDone)
      BY <3>1, FS_Subset
    <3>3. Cardinality(HalfDone') \in Nat
      BY <3>2, FS_CardinalityType
    <3>4. Cardinality(HalfDone') <= crashes' + faults'
      BY <2>1, <2>2, <3>2, <3>3 DEF Tidy, NoLess, FewHalfDone
    <3>5. QED
      BY <3>2, <3>4 DEF FewHalfDone
  <2>3. ASSUME NEW d \in Directive, Drops(d) PROVE FewInv'
    <3>1. PICK x : HalfDone' \subseteq HalfDone \cup {x}
      <4>1. CASE Stranded' \subseteq Stranded \cup {d} /\ HalfParked' \subseteq HalfParked
        <5>1. HalfDone' \subseteq HalfDone \cup {<<"stranded", d>>}
          <6> SUFFICES ASSUME NEW h \in HalfDone' PROVE h \in HalfDone \cup {<<"stranded", d>>}
            OBVIOUS
          <6>1. h \in {"stranded"} \X Stranded' \/ h \in {"half parked"} \X HalfParked'
            BY DEF HalfDone
          <6>5. h = <<h[1], h[2]>>
            BY <6>1, PairOf
          <6>2. CASE h \in {"stranded"} \X Stranded'
            BY <4>1, <6>5, <6>2 DEF HalfDone
          <6>3. CASE h \in {"half parked"} \X HalfParked'
            BY <4>1, <6>5, <6>3 DEF HalfDone
          <6>4. QED
            BY <6>1, <6>2, <6>3
        <5>2. QED
          BY <5>1
      <4>2. CASE Stranded' \subseteq Stranded /\ HalfParked' \subseteq HalfParked \cup {d}
        <5>1. HalfDone' \subseteq HalfDone \cup {<<"half parked", d>>}
          <6> SUFFICES ASSUME NEW h \in HalfDone' PROVE h \in HalfDone \cup {<<"half parked", d>>}
            OBVIOUS
          <6>1. h \in {"stranded"} \X Stranded' \/ h \in {"half parked"} \X HalfParked'
            BY DEF HalfDone
          <6>5. h = <<h[1], h[2]>>
            BY <6>1, PairOf
          <6>2. CASE h \in {"stranded"} \X Stranded'
            BY <4>2, <6>5, <6>2 DEF HalfDone
          <6>3. CASE h \in {"half parked"} \X HalfParked'
            BY <4>2, <6>5, <6>3 DEF HalfDone
          <6>4. QED
            BY <6>1, <6>2, <6>3
        <5>2. QED
          BY <5>1
      <4>3. QED
        BY <2>3, <4>1, <4>2 DEF Drops
    <3> DEFINE H == HalfDone \cup {x}
    <3>2. IsFiniteSet(H) /\ Cardinality(H) <= Cardinality(HalfDone) + 1
      BY <2>1, FS_AddElement
    <3>3. IsFiniteSet(HalfDone') /\ Cardinality(HalfDone') <= Cardinality(H)
      BY <3>1, <3>2, FS_Subset
    <3>4. Cardinality(HalfDone') \in Nat /\ Cardinality(H) \in Nat
      BY <3>2, <3>3, FS_CardinalityType
    <3>5. Cardinality(HalfDone') <= crashes' + faults'
      <4>1. Cardinality(HalfDone') <= Cardinality(HalfDone) + 1
        BY <2>1, <3>2, <3>3, <3>4
      <4>2. Cardinality(HalfDone) <= crashes + faults
        BY DEF FewHalfDone
      <4>3. CASE crashes' = crashes + 1 /\ faults' = faults
        BY <2>1, <3>4, <4>1, <4>2, <4>3
      <4>4. CASE crashes' = crashes /\ faults' = faults + 1
        BY <2>1, <3>4, <4>1, <4>2, <4>4
      <4>5. QED
        BY <2>3, <4>3, <4>4 DEF Drops
    <3>6. QED
      BY <3>3, <3>5 DEF FewHalfDone
  <2>4. QED
    BY <2>2, <2>3, TidyStep DEF Untidy
<1>3. QED
  BY <1>1, <1>2, TypeCorrect, HandInvHolds, PTL DEF Spec

-----------------------------------------------------------------------------
(* The retry budget: MAX_GHOST_ATTEMPTS rejected builds, and one more for a *)
(* crash between the last count and the quarantine.                        *)

GivingUp == {"lesson", "park", "durable", "unstamp", "uncount"}

GhostInv ==
  /\ \A d \in Directive : ghost[d] + 1 <= MaxGhost + crashes
       + (IF rpc \in GivingUp /\ cur = d /\ trial # "spine" THEN 1 ELSE 0)
  /\ trial = "spine" => rpc \in {"park", "durable", "unstamp"}

\* A directive is never counted rejected more often than MAX_GHOST_ATTEMPTS and the
\* deaths together: every path by which a build is rejected, the repair run
\* and the fallback of a raw write too, ends in the count or in the quarantine.
THEOREM RetriesAreBounded == Spec => [](\A d \in Directive : ghost[d] <= MaxGhost + crashes)
<1> USE QueueAssumption DEF GhostInv, GivingUp
<1>1. Init => GhostInv
  BY DEF Init
<1>2. TypeOK /\ GhostInv /\ [Next]_vars => GhostInv'
  <2> SUFFICES ASSUME TypeOK, GhostInv, [Next]_vars PROVE GhostInv'
    OBVIOUS
  <2> USE DEF TypeOK, BuildPC, dirVars, sentinelVars, fileVars, runnerVars, promoterVars,
              publisherVars, failureVars
  <2>1. ASSUME QueueMove PROVE GhostInv'
    BY <2>1, QueueMoves
  <2>2. ASSUME PollMove PROVE GhostInv'
    BY <2>2, PollMoves
  <2>3. ASSUME NEW d \in Directive, PassOver(d) PROVE GhostInv'
    BY <2>3, PassedOver DEF PassOver, HealedDone, OutputConfirmed, Present
  <2>4. ASSUME NEW d \in Directive, RouteHigh(d) PROVE GhostInv'
    BY <2>4 DEF RouteHigh, Consider, HealedDone, Eligible, FailedQuarantined, OutputConfirmed,
       Present
  <2>5. ASSUME NEW d \in Directive, SpineRejects(d) PROVE GhostInv'
    BY <2>5 DEF SpineRejects, Consider, HealedDone, Eligible, FailedQuarantined,
       OutputConfirmed, Present
  <2>6. ASSUME NEW d \in Directive, StartBuild(d) PROVE GhostInv'
    BY <2>6 DEF StartBuild, Consider, HealedDone, Eligible, FailedQuarantined, OutputConfirmed,
       Present
  <2>7. ASSUME WriteRawBytes PROVE GhostInv'
    BY <2>7 DEF WriteRawBytes, Put
  <2>8. ASSUME RunEngine PROVE GhostInv'
    BY <2>8 DEF RunEngine, Put
  <2>9. ASSUME NEW g \in ContentGates \cup {"engine_failed", "output_missing", "edit_diff"},
           GateRejects(g) PROVE GhostInv'
    BY <2>9 DEF GateRejects, AfterRejection, RejectingGates, ContentGates, Put, Learn,
       Swallowed, SubjectOf
  <2>10. ASSUME GatesPass PROVE GhostInv'
    BY <2>10 DEF GatesPass, Put
  <2>11. ASSUME BumpGhost PROVE GhostInv'
    <3>1. trial' = "spine" => rpc' \in {"park", "durable", "unstamp"}
      BY <2>11 DEF BumpGhost, BackToScan
    <3>2. ASSUME NEW d \in Directive
          PROVE  ghost'[d] + 1 <= MaxGhost + crashes'
                   + (IF rpc' \in GivingUp /\ cur' = d /\ trial' # "spine" THEN 1 ELSE 0)
      <4>1. /\ ghost[d] \in Nat /\ crashes \in Nat /\ MaxGhost \in Nat
            /\ ghost[d] + 1 <= MaxGhost + crashes /\ crashes' = crashes
        BY <2>11 DEF BumpGhost
      <4>2. CASE d # cur
        <5>1. ghost'[d] = ghost[d]
          BY <2>11, <4>2 DEF BumpGhost, Count
        <5>2. QED
          BY <4>1, <5>1
      <4>3. CASE d = cur
        <5>1. ghost'[d] \in {ghost[d], ghost[d] + 1}
          BY <2>11, <4>3 DEF BumpGhost, Count
        <5>2. CASE ghost[cur] + 1 >= MaxGhost
          <6>1. rpc' = "lesson" /\ cur' = d /\ trial' # "spine"
            BY <2>11, <4>1, <4>3, <5>2 DEF BumpGhost
          <6>2. QED
            BY <4>1, <5>1, <6>1
        <5>3. CASE ghost[cur] + 1 < MaxGhost
          BY <4>1, <4>3, <5>1, <5>3
        <5>4. QED
          BY <4>1, <4>3, <5>2, <5>3
      <4>4. QED
        BY <4>2, <4>3
    <3>3. QED
      BY <3>1, <3>2
  <2>12. ASSUME RecordLesson PROVE GhostInv'
    BY <2>12 DEF RecordLesson, Learn, Swallowed, SubjectOf
  <2>13. ASSUME ParkInRepo PROVE GhostInv'
    BY <2>13 DEF ParkInRepo, FailInRepo, Swallowed
  <2>14. ASSUME ParkDurably PROVE GhostInv'
    BY <2>14 DEF ParkDurably, FailDurably, Swallowed
  <2>15. ASSUME ParkUnstamps PROVE GhostInv'
    BY <2>15 DEF ParkUnstamps, ClearStale, BackToScan
  <2>16. ASSUME DropCounter PROVE GhostInv'
    BY <2>16 DEF DropCounter
  <2>17. ASSUME DropQueueFile PROVE GhostInv'
    BY <2>17 DEF DropQueueFile, BackToScan
  <2>18. ASSUME MarkCompleted PROVE GhostInv'
    BY <2>18 DEF MarkCompleted, Swallowed
  <2>19. ASSUME ArchiveFile PROVE GhostInv'
    BY <2>19 DEF ArchiveFile, Swallowed, BackToScan
  <2>20. ASSUME Settle PROVE GhostInv'
    BY <2>20 DEF Settle, Swallowed, SubjectOf
  <2>21. ASSUME ClearCounter PROVE GhostInv'
    BY <2>21 DEF ClearCounter
  <2>22. ASSUME CommitBuild PROVE GhostInv'
    BY <2>22 DEF CommitBuild, Versionable, Exists, Swallowed, BackToScan
  <2>23. ASSUME Crash PROVE GhostInv'
    BY <2>23 DEF Crash
  <2>24. ASSUME GitClean PROVE GhostInv'
    BY <2>24 DEF GitClean
  <2>25. ASSUME NEW d \in Directive, BeginParking(d) PROVE GhostInv'
    BY <2>25 DEF BeginParking, FailInRepo, Swallowed
  <2>26. ASSUME RefusalIsDurable PROVE GhostInv'
    BY <2>26 DEF RefusalIsDurable, FailDurably, Swallowed
  <2>27. ASSUME RefusalUnstamps PROVE GhostInv'
    BY <2>27 DEF RefusalUnstamps, ClearStale
  <2>28. ASSUME EvictHollow PROVE GhostInv'
    BY <2>28 DEF EvictHollow, Evict
  <2>29. ASSUME PublisherDies PROVE GhostInv'
    BY <2>29 DEF PublisherDies
  <2>30. ASSUME NEW f \in File, PublisherTakes(f) PROVE GhostInv'
    BY <2>30 DEF PublisherTakes, Evict, Exists
  <2>31. ASSUME NEW f \in File, PublisherRefuses(f) PROVE GhostInv'
    BY <2>31 DEF PublisherRefuses, Evict, Exists
  <2>32. ASSUME NEW f \in File, Deploy(f) PROVE GhostInv'
    BY <2>32 DEF Deploy
  <2>33. ASSUME NEW f \in File, Refuse(f) PROVE GhostInv'
    BY <2>33 DEF Refuse
  <2>34. CASE UNCHANGED vars
    BY <2>34 DEF vars
  <2>35. QED
    BY <2>1, <2>2, <2>3, <2>4, <2>5, <2>6, <2>7, <2>8, <2>9, <2>10, <2>11, <2>12, <2>13, <2>14,
       <2>15, <2>16, <2>17, <2>18, <2>19, <2>20, <2>21, <2>22, <2>23, <2>24, <2>25, <2>26, <2>27,
       <2>28, <2>29, <2>30, <2>31, <2>32, <2>33, <2>34
    DEF Next, PromoterStep, RunnerStep, BuildStep, ParkingStep, Environment, QueueMove,
        PollMove, PassOver
<1>3. TypeOK /\ GhostInv => \A d \in Directive : ghost[d] <= MaxGhost + crashes
  <2> SUFFICES ASSUME TypeOK, GhostInv, NEW d \in Directive PROVE ghost[d] <= MaxGhost + crashes
    OBVIOUS
  <2>1. ghost[d] \in Nat /\ crashes \in Nat /\ MaxGhost \in Nat
    BY DEF TypeOK
  <2>2. ghost[d] + 1 <= MaxGhost + crashes + 1
    BY <2>1
  <2>3. QED
    BY <2>1, <2>2
<1>4. QED
  BY <1>1, <1>2, <1>3, TypeCorrect, PTL DEF Spec

-----------------------------------------------------------------------------
(* A target given up on keeps its lesson.  Lessons are kept by base name and *)
(* closed by a completed build, so two files must not share one.            *)

DistinctSubjects ==
  \A d, e \in Directive : Creates(d) /\ Creates(e) /\ Subject[Out[d]] = Subject[Out[e]] => d = e

\* Given up, or past the lesson and about to be.
Untaught ==
  {d \in Directive \ (WriteRaw \cup Unspined) :
     /\ Creates(d) /\ Subject[Out[d]] \notin lessons
     /\ d \in durable \/ (cur = d /\ rpc \in {"park", "durable"})}

\* No step but a lesson write that fails leaves a directive untaught.
LEMMA TaughtStep ==
  ASSUME DistinctSubjects, HollowGate, TypeOK, TypeOK', SentinelInv, [Next]_vars
  PROVE  \/ Untaught' \subseteq Untaught /\ faults' >= faults
         \/ Untaught' \subseteq Untaught \cup {cur} /\ faults' = faults + 1
<1> DEFINE Goal == \/ Untaught' \subseteq Untaught /\ faults' >= faults
                   \/ Untaught' \subseteq Untaught \cup {cur} /\ faults' = faults + 1
<1> USE QueueAssumption DEF Untaught, TypeOK, BuildPC, Creates, DistinctSubjects,
    dirVars, sentinelVars, fileVars, runnerVars, promoterVars, publisherVars, failureVars
<1>0. faults \in Nat
  OBVIOUS
<1>1. ASSUME QueueMove PROVE Goal
  BY <1>1, QueueMoves, <1>0
<1>2. ASSUME PollMove PROVE Goal
  BY <1>2, PollMoves, <1>0
<1>3. ASSUME NEW d \in Directive, PassOver(d) PROVE Goal
  BY <1>3, PassedOver, <1>0 DEF PassOver, HealedDone, OutputConfirmed, Present
<1>4. ASSUME NEW d \in Directive, RouteHigh(d) PROVE Goal
  BY <1>4, <1>0 DEF RouteHigh, Consider, HealedDone, Eligible, FailedQuarantined,
     OutputConfirmed, Present
<1>5. ASSUME NEW d \in Directive, SpineRejects(d) PROVE Goal
  BY <1>5, <1>0 DEF SpineRejects, Consider, HealedDone, Eligible, FailedQuarantined,
     OutputConfirmed, Present
<1>6. ASSUME NEW d \in Directive, StartBuild(d) PROVE Goal
  BY <1>6, <1>0 DEF StartBuild, Consider, HealedDone, Eligible, FailedQuarantined,
     OutputConfirmed, Present
<1>7. ASSUME WriteRawBytes PROVE Goal
  BY <1>7, <1>0 DEF WriteRawBytes, Put
<1>8. ASSUME RunEngine PROVE Goal
  BY <1>8, <1>0 DEF RunEngine, Put
<1>9. ASSUME NEW g \in ContentGates \cup {"engine_failed", "output_missing", "edit_diff"},
           GateRejects(g) PROVE Goal
  BY <1>9, <1>0 DEF GateRejects, AfterRejection, RejectingGates, ContentGates, Put, Learn,
     Swallowed, SubjectOf
<1>10. ASSUME GatesPass PROVE Goal
  BY <1>10, <1>0 DEF GatesPass, Put
<1>11. ASSUME BumpGhost PROVE Goal
  BY <1>11, <1>0 DEF BumpGhost, Count, Swallowed, BackToScan
<1>12. ASSUME RecordLesson PROVE Goal
  BY <1>12, <1>0 DEF RecordLesson, Learn, Swallowed, SubjectOf
<1>13. ASSUME ParkInRepo PROVE Goal
  BY <1>13, <1>0 DEF ParkInRepo, FailInRepo, Swallowed
<1>14. ASSUME ParkDurably PROVE Goal
  BY <1>14, <1>0 DEF ParkDurably, FailDurably, Swallowed
<1>15. ASSUME ParkUnstamps PROVE Goal
  BY <1>15, <1>0 DEF ParkUnstamps, ClearStale, BackToScan
<1>16. ASSUME DropCounter PROVE Goal
  BY <1>16, <1>0 DEF DropCounter
<1>17. ASSUME DropQueueFile PROVE Goal
  BY <1>17, <1>0 DEF DropQueueFile, BackToScan
<1>18. ASSUME MarkCompleted PROVE Goal
  BY <1>18, <1>0 DEF MarkCompleted, Swallowed
<1>19. ASSUME ArchiveFile PROVE Goal
  BY <1>19, <1>0 DEF ArchiveFile, Swallowed, BackToScan
<1>20. ASSUME Settle PROVE Goal
  BY <1>20, <1>0 DEF Settle, Swallowed, SubjectOf, SentinelInv, Upright
<1>21. ASSUME ClearCounter PROVE Goal
  BY <1>21, <1>0 DEF ClearCounter
<1>22. ASSUME CommitBuild PROVE Goal
  BY <1>22, <1>0 DEF CommitBuild, Versionable, Exists, Swallowed, BackToScan
<1>23. ASSUME Crash PROVE Goal
  BY <1>23, <1>0 DEF Crash
<1>24. ASSUME GitClean PROVE Goal
  BY <1>24, <1>0 DEF GitClean
<1>25. ASSUME NEW d \in Directive, BeginParking(d) PROVE Goal
  BY <1>25, <1>0 DEF BeginParking, FailInRepo, Swallowed, SentinelInv
<1>26. ASSUME RefusalIsDurable PROVE Goal
  BY <1>26, <1>0 DEF RefusalIsDurable, FailDurably, Swallowed, SentinelInv
<1>27. ASSUME RefusalUnstamps PROVE Goal
  BY <1>27, <1>0 DEF RefusalUnstamps, ClearStale
<1>28. ASSUME EvictHollow PROVE Goal
  BY <1>28, <1>0 DEF EvictHollow, Evict
<1>29. ASSUME PublisherDies PROVE Goal
  BY <1>29, <1>0 DEF PublisherDies
<1>30. ASSUME NEW f \in File, PublisherTakes(f) PROVE Goal
  BY <1>30, <1>0 DEF PublisherTakes, Evict, Exists
<1>31. ASSUME NEW f \in File, PublisherRefuses(f) PROVE Goal
  BY <1>31, <1>0 DEF PublisherRefuses, Evict, Exists
<1>32. ASSUME NEW f \in File, Deploy(f) PROVE Goal
  BY <1>32, <1>0 DEF Deploy
<1>33. ASSUME NEW f \in File, Refuse(f) PROVE Goal
  BY <1>33, <1>0 DEF Refuse
<1>34. CASE UNCHANGED vars
  BY <1>34 DEF vars
<1>35. QED
  BY <1>1, <1>2, <1>3, <1>4, <1>5, <1>6, <1>7, <1>8, <1>9, <1>10, <1>11, <1>12, <1>13, <1>14,
     <1>15, <1>16, <1>17, <1>18, <1>19, <1>20, <1>21, <1>22, <1>23, <1>24, <1>25, <1>26, <1>27,
     <1>28, <1>29, <1>30, <1>31, <1>32, <1>33, <1>34
  DEF Next, PromoterStep, RunnerStep, BuildStep, ParkingStep, Environment, QueueMove,
      PollMove, PassOver

\* Whatever the engines were given to build and was given up has an open lesson for
\* the architect to read, but for as many as lesson writes failed: only the build
\* of the directive itself closes a lesson, and that one is never built again.
THEOREM LessonOutlivesQuarantine ==
  ASSUME DistinctSubjects, HollowGate PROVE Spec => []GivenUpHasLesson
<1> DEFINE TaughtInv == IsFiniteSet(Untaught) /\ Cardinality(Untaught) <= faults
<1>1. Init => TaughtInv
  <2> SUFFICES ASSUME Init PROVE TaughtInv
    OBVIOUS
  <2>1. Untaught = {} /\ faults = 0
    BY DEF Init, Untaught
  <2>2. QED
    BY <2>1, FS_EmptySet
<1>2. TypeOK /\ TypeOK' /\ SentinelInv /\ TaughtInv /\ [Next]_vars => TaughtInv'
  <2> SUFFICES ASSUME TypeOK, TypeOK', SentinelInv, TaughtInv, [Next]_vars PROVE TaughtInv'
    OBVIOUS
  <2>1. Cardinality(Untaught) \in Nat /\ faults \in Nat /\ faults' \in Nat
    BY FS_CardinalityType, QueueAssumption DEF TypeOK
  <2>2. CASE Untaught' \subseteq Untaught /\ faults' >= faults
    <3>1. IsFiniteSet(Untaught') /\ Cardinality(Untaught') <= Cardinality(Untaught)
      BY <2>2, FS_Subset
    <3>2. Cardinality(Untaught') \in Nat
      BY <3>1, FS_CardinalityType
    <3>3. QED
      BY <2>1, <2>2, <3>1, <3>2
  <2>3. CASE Untaught' \subseteq Untaught \cup {cur} /\ faults' = faults + 1
    <3> DEFINE H == Untaught \cup {cur}
    <3>1. IsFiniteSet(H) /\ Cardinality(H) <= Cardinality(Untaught) + 1
      BY <2>1, FS_AddElement
    <3>2. IsFiniteSet(Untaught') /\ Cardinality(Untaught') <= Cardinality(H)
      BY <2>3, <3>1, FS_Subset
    <3>3. Cardinality(Untaught') \in Nat /\ Cardinality(H) \in Nat
      BY <3>1, <3>2, FS_CardinalityType
    <3>4. QED
      BY <2>1, <2>3, <3>1, <3>2, <3>3
  <2>4. QED
    BY <2>2, <2>3, TaughtStep
<1>3. TypeOK /\ TaughtInv => GivenUpHasLesson
  <2> SUFFICES ASSUME TypeOK, TaughtInv PROVE GivenUpHasLesson
    OBVIOUS
  <2> DEFINE S == {d \in durable \ (WriteRaw \cup Unspined) :
                     Creates(d) /\ Subject[Out[d]] \notin lessons}
  <2>1. S \subseteq Untaught
    BY DEF Untaught, TypeOK
  <2>2. IsFiniteSet(S) /\ Cardinality(S) <= Cardinality(Untaught)
    BY <2>1, FS_Subset
  <2>3. Cardinality(S) \in Nat /\ Cardinality(Untaught) \in Nat /\ faults \in Nat
    BY <2>2, FS_CardinalityType, QueueAssumption DEF TypeOK
  <2>4. QED
    BY <2>2, <2>3 DEF GivenUpHasLesson
<1>4. QED
  BY <1>1, <1>2, <1>3, TypeCorrect, SentinelInvHolds, PTL DEF Spec, OwnVerdicts

-----------------------------------------------------------------------------
(* The queue implements the ledger.                                        *)

LedgerStep == [Ledger!Next]_(Ledger!ledgerVars)

\* A step that leaves the sentinels and the files alone is none of the ledger's.
LEMMA QuietStep ==
  ASSUME UNCHANGED <<doneSent, failSent, durable, disk, ship>> PROVE LedgerStep
BY DEF LedgerStep, Verdict, FailedQuarantined, Judged, Stage, Waiting, Ledger!ledgerVars

\* Nor is one that takes the .done of a directive that is given up.
LEMMA UnstampStep ==
  ASSUME NEW d \in failSent \cup durable, doneSent' = doneSent \ {d},
         UNCHANGED <<failSent, durable, disk, ship>>
  PROVE  LedgerStep
<1>1. Verdict' = Verdict
  BY DEF Verdict, FailedQuarantined
<1>2. QED
  BY <1>1 DEF LedgerStep, Judged, Stage, Waiting, Ledger!ledgerVars

\* Bytes change in one file at a time, and not in one that waits in the outbox.
LEMMA WorkStep ==
  ASSUME TypeOK, NEW f \in File, NEW c \in Contents \ {"absent"}, ship[f] \notin Waiting,
         disk' = [disk EXCEPT ![f] = c], UNCHANGED <<doneSent, failSent, durable, ship>>
  PROVE  LedgerStep
<1>1. Verdict' = Verdict /\ Stage' = Stage /\ Stage[f] # "outbox"
  BY DEF Verdict, FailedQuarantined, Stage, Waiting
<1> DEFINE b == IF c = "gated" THEN "passed" ELSE "unproven"
<1>2. Judged' = [Judged EXCEPT ![f] = b]
  BY DEF Judged, TypeOK, Contents
<1>3. b \in Ledger!Bytes \ {"absent"}
  BY DEF Ledger!Bytes
<1>4. Ledger!Work(f)
  BY <1>1, <1>2, <1>3 DEF Ledger!Work
<1>5. QED
  BY <1>4 DEF LedgerStep, Ledger!Next

\* A .done may be unlinked only when its output is not there.
LEMMA HealStep ==
  ASSUME TypeOK, NEW d \in Directive, doneSent' = HealedDone(d),
         UNCHANGED <<failSent, durable, disk, ship>>
  PROVE  LedgerStep
<1>0. Judged' = Judged /\ Stage' = Stage
  BY DEF Judged, Stage, Waiting
<1>1. CASE doneSent' = doneSent \/ FailedQuarantined(d)
  <2>1. Verdict' = Verdict
    BY <1>1 DEF Verdict, HealedDone, FailedQuarantined
  <2>2. QED
    BY <1>0, <2>1 DEF LedgerStep, Ledger!ledgerVars
<1>2. CASE doneSent' # doneSent /\ ~FailedQuarantined(d)
  <2>1. d \in doneSent /\ doneSent' = doneSent \ {d} /\ Out[d] # NoFile /\ ~Present(Out[d])
    BY <1>2 DEF HealedDone, OutputConfirmed
  <2>2. Verdict[d] = "done" /\ Verdict' = [Verdict EXCEPT ![d] = "open"]
    BY <1>2, <2>1 DEF Verdict, FailedQuarantined
  <2>3. Out[d] \in File
    BY <2>1, QueueAssumption
  <2>4. Judged[Out[d]] # "passed"
    BY <2>1, <2>3 DEF Judged, Present
  <2>5. Ledger!Reopen(d)
    BY <1>0, <2>1, <2>2, <2>4 DEF Ledger!Reopen
  <2>6. QED
    BY <2>5 DEF LedgerStep, Ledger!Next
<1>3. QED
  BY <1>1, <1>2

\* Done is stamped on an open directive, over bytes that passed.
LEMMA FinishStep ==
  ASSUME TypeOK, NEW d \in Directive, doneSent' = doneSent \cup {d},
         d \in High \/ Out[d] = NoFile \/ disk[Out[d]] = "gated",
         UNCHANGED <<failSent, durable, disk, ship>>
  PROVE  LedgerStep
<1>0. Judged' = Judged /\ Stage' = Stage
  BY DEF Judged, Stage, Waiting
<1>1. CASE d \in doneSent \/ FailedQuarantined(d)
  <2>1. Verdict' = Verdict
    BY <1>1 DEF Verdict, FailedQuarantined
  <2>2. QED
    BY <1>0, <2>1 DEF LedgerStep, Ledger!ledgerVars
<1>2. CASE d \notin doneSent /\ ~FailedQuarantined(d)
  <2>1. Verdict[d] = "open" /\ Verdict' = [Verdict EXCEPT ![d] = "done"]
    BY <1>2 DEF Verdict, FailedQuarantined
  <2>2. Out[d] # NoFile /\ disk[Out[d]] = "gated" => Judged[Out[d]] = "passed"
    BY QueueAssumption DEF Judged
  <2>3. Ledger!Finish(d)
    BY <1>0, <2>1, <2>2 DEF Ledger!Finish
  <2>4. QED
    BY <2>3 DEF LedgerStep, Ledger!Next
<1>3. QED
  BY <1>1, <1>2

\* The first .failed of the two gives a directive up, if it is open or its file
\* still waits for the publisher; the second changes nothing.
LEMMA FailStep ==
  ASSUME TypeOK, NEW d \in Directive,
         (failSent \cup durable)' \in {failSent \cup durable, failSent \cup durable \cup {d}},
         \/ d \notin doneSent
         \/ Creates(d) /\ ship[Out[d]] \in Waiting,
         disk' = disk, doneSent' = doneSent, Stage' = Stage
  PROVE  LedgerStep
<1>0. Judged' = Judged
  BY DEF Judged
<1>1. CASE d \in failSent \cup durable \/ (failSent \cup durable)' = failSent \cup durable
  <2>1. Verdict' = Verdict
    BY <1>1 DEF Verdict, FailedQuarantined
  <2>2. QED
    BY <1>0, <2>1 DEF LedgerStep, Ledger!ledgerVars
<1>2. CASE d \notin failSent \cup durable /\ (failSent \cup durable)' # failSent \cup durable
  <2>1. Verdict' = [Verdict EXCEPT ![d] = "given_up"]
    BY <1>2 DEF Verdict, FailedQuarantined
  <2>2. \/ Verdict[d] = "open"
        \/ Verdict[d] = "done" /\ Out[d] # NoFile /\ Stage[Out[d]] = "outbox"
    BY <1>2, QueueAssumption DEF Verdict, FailedQuarantined, Creates, Stage
  <2>3. Ledger!GiveUp(d)
    BY <1>0, <2>1, <2>2 DEF Ledger!GiveUp
  <2>4. QED
    BY <2>3 DEF LedgerStep, Ledger!Next
<1>3. QED
  BY <1>1, <1>2

\* What the publisher evicts is gone, or back at the bytes that were merged.
LEMMA EvictStep ==
  ASSUME TypeOK, NEW f \in File, Evict(f) PROVE Ledger!SetAside(f)
<1> DEFINE b == IF f \in tracked THEN "passed" ELSE "absent"
<1>1. Judged' = [Judged EXCEPT ![f] = b]
  BY DEF Evict, Judged, TypeOK
<1>2. QED
  BY <1>1 DEF Ledger!SetAside

\* Every step of the daemons, under the invariants proved above.
LEMMA NextRefines ==
  ASSUME DistinctOutputs, CanClean = FALSE, Reliable, TypeOK, CompletionInv, ParkInv, ShipInv, Next
  PROVE  LedgerStep
<1> USE QueueAssumption DEF dirVars, sentinelVars, fileVars, runnerVars, promoterVars,
                            publisherVars, failureVars
<1>1. ASSUME QueueMove PROVE LedgerStep
  BY <1>1, QueueMoves, QuietStep
<1>2. ASSUME PollMove PROVE LedgerStep
  BY <1>2, PollMoves, QuietStep
<1>3. ASSUME NEW d \in Directive, PassOver(d) PROVE LedgerStep
  BY <1>3, PassedOver, HealStep DEF PassOver, HealedDone, OutputConfirmed, Present
<1>4. ASSUME NEW d \in Directive, RouteHigh(d) PROVE LedgerStep
  BY <1>4, HealStep DEF RouteHigh, Consider, HealedDone, Eligible, FailedQuarantined,
     OutputConfirmed, Present
<1>5. ASSUME NEW d \in Directive, SpineRejects(d) PROVE LedgerStep
  BY <1>5, HealStep DEF SpineRejects, Consider, HealedDone, Eligible, FailedQuarantined,
     OutputConfirmed, Present
<1>6. ASSUME NEW d \in Directive, StartBuild(d) PROVE LedgerStep
  BY <1>6, HealStep DEF StartBuild, Consider, HealedDone, Eligible, FailedQuarantined,
     OutputConfirmed, Present
<1>7. ASSUME WriteRawBytes PROVE LedgerStep
  <2>1. cur \in Directive /\ (Creates(cur) => ship[Out[cur]] \notin Waiting)
    BY <1>7 DEF WriteRawBytes, ShipInv, TypeOK, BuildPC
  <2>2. CASE disk' = disk
    BY <1>7, <2>2, QuietStep DEF WriteRawBytes
  <2>3. CASE disk' # disk
    <3>1. PICK c \in Contents \ {"absent"} : disk' = Put(Out[cur], c)
      BY <1>7, <2>3 DEF WriteRawBytes, Contents
    <3>2. Out[cur] \in File /\ disk' = [disk EXCEPT ![Out[cur]] = c]
      BY <2>1, <2>3, <3>1 DEF Put
    <3>3. QED
      BY <1>7, <2>1, <3>1, <3>2, WorkStep DEF WriteRawBytes, Creates
  <2>4. QED
    BY <2>2, <2>3
<1>8. ASSUME RunEngine PROVE LedgerStep
  <2>1. cur \in Directive /\ (Creates(cur) => ship[Out[cur]] \notin Waiting)
    BY <1>8 DEF RunEngine, ShipInv, TypeOK, BuildPC
  <2>2. CASE disk' = disk
    BY <1>8, <2>2, QuietStep DEF RunEngine
  <2>3. CASE disk' # disk
    <3>1. PICK c \in Contents \ {"absent"} : disk' = Put(Out[cur], c)
      BY <1>8, <2>3 DEF RunEngine, Contents
    <3>2. Out[cur] \in File /\ disk' = [disk EXCEPT ![Out[cur]] = c]
      BY <2>1, <2>3, <3>1 DEF Put
    <3>3. QED
      BY <1>8, <2>1, <3>1, <3>2, WorkStep DEF RunEngine, Creates
  <2>4. QED
    BY <2>2, <2>3
<1>9. ASSUME NEW g \in ContentGates \cup {"engine_failed", "output_missing", "edit_diff"},
           GateRejects(g) PROVE LedgerStep
  <2>1. cur \in Directive /\ (Creates(cur) => ship[Out[cur]] \notin Waiting)
    BY <1>9 DEF GateRejects, ShipInv, TypeOK, BuildPC
  <2>2. CASE disk' = disk
    BY <1>9, <2>2, QuietStep DEF GateRejects
  <2>3. CASE disk' # disk
    <3>1. PICK c \in Contents \ {"absent"} : disk' = Put(Out[cur], c)
      BY <1>9, <2>3 DEF GateRejects, Contents
    <3>2. Out[cur] \in File /\ disk' = [disk EXCEPT ![Out[cur]] = c]
      BY <2>1, <2>3, <3>1 DEF Put
    <3>3. QED
      BY <1>9, <2>1, <3>1, <3>2, WorkStep DEF GateRejects, Creates
  <2>4. QED
    BY <2>2, <2>3
<1>10. ASSUME GatesPass PROVE LedgerStep
  <2>1. cur \in Directive /\ (Creates(cur) => ship[Out[cur]] \notin Waiting)
    BY <1>10 DEF GatesPass, ShipInv, TypeOK, BuildPC
  <2>2. CASE disk' = disk
    BY <1>10, <2>2, QuietStep DEF GatesPass
  <2>3. CASE disk' # disk
    <3>1. PICK c \in Contents \ {"absent"} : disk' = Put(Out[cur], c)
      BY <1>10, <2>3 DEF GatesPass, Contents
    <3>2. Out[cur] \in File /\ disk' = [disk EXCEPT ![Out[cur]] = c]
      BY <2>1, <2>3, <3>1 DEF Put
    <3>3. QED
      BY <1>10, <2>1, <3>1, <3>2, WorkStep DEF GatesPass, Creates
  <2>4. QED
    BY <2>2, <2>3
<1>11. ASSUME BumpGhost PROVE LedgerStep
  BY <1>11, QuietStep DEF BumpGhost, Count, Swallowed, BackToScan
<1>12. ASSUME RecordLesson PROVE LedgerStep
  BY <1>12, QuietStep DEF RecordLesson, Learn, Swallowed, SubjectOf
<1>13. ASSUME ParkInRepo PROVE LedgerStep
  <2>1. cur \in Directive /\ cur \notin doneSent
    BY <1>13 DEF ParkInRepo, CompletionInv, ShipInv, Unstamped, Waiting, TypeOK, BuildPC
  <2>2. (failSent \cup durable)' \in {failSent \cup durable, failSent \cup durable \cup {cur}}
    BY <1>13 DEF ParkInRepo, FailInRepo, FailDurably
  <2>3. Stage' = Stage
    BY <1>13 DEF ParkInRepo, Stage, Waiting, TypeOK
  <2>4. PICK d \in Directive : d = cur
    BY <2>1
  <2>5. QED
    BY <1>13, <2>1, <2>2, <2>3, <2>4, FailStep DEF ParkInRepo
<1>14. ASSUME ParkDurably PROVE LedgerStep
  <2>1. cur \in Directive /\ cur \notin doneSent
    BY <1>14 DEF ParkDurably, CompletionInv, ShipInv, Unstamped, Waiting, TypeOK, BuildPC
  <2>2. (failSent \cup durable)' \in {failSent \cup durable, failSent \cup durable \cup {cur}}
    BY <1>14 DEF ParkDurably, FailInRepo, FailDurably
  <2>3. Stage' = Stage
    BY <1>14 DEF ParkDurably, Stage, Waiting, TypeOK
  <2>4. PICK d \in Directive : d = cur
    BY <2>1
  <2>5. QED
    BY <1>14, <2>1, <2>2, <2>3, <2>4, FailStep DEF ParkDurably
<1>15. ASSUME ParkUnstamps PROVE LedgerStep
  <2>1. cur \in failSent \cup durable
    BY <1>15 DEF ParkUnstamps, ParkInv
  <2>2. PICK d \in failSent \cup durable : d = cur
    BY <2>1
  <2>3. QED
    BY <1>15, <2>2, UnstampStep DEF ParkUnstamps, ClearStale
<1>16. ASSUME DropCounter PROVE LedgerStep
  BY <1>16, QuietStep DEF DropCounter
<1>17. ASSUME DropQueueFile PROVE LedgerStep
  BY <1>17, QuietStep DEF DropQueueFile, BackToScan
<1>18. ASSUME MarkCompleted PROVE LedgerStep
  <2>1. /\ cur \in Directive
        /\ cur \in High \/ Out[cur] = NoFile \/ disk[Out[cur]] = "gated"
    BY <1>18 DEF MarkCompleted, ShipInv, TypeOK, BuildPC, Creates
  <2>2. QED
    BY <1>18, <2>1, FinishStep DEF MarkCompleted, Swallowed, Reliable
<1>19. ASSUME ArchiveFile PROVE LedgerStep
  BY <1>19, QuietStep DEF ArchiveFile, Swallowed, BackToScan
<1>20. ASSUME Settle PROVE LedgerStep
  BY <1>20, QuietStep DEF Settle, Swallowed, SubjectOf
<1>21. ASSUME ClearCounter PROVE LedgerStep
  BY <1>21, QuietStep DEF ClearCounter
<1>22. ASSUME CommitBuild PROVE LedgerStep
  <2>1. /\ cur \in Directive /\ cur \in doneSent
        /\ Creates(cur) => disk[Out[cur]] = "gated"
    BY <1>22 DEF CommitBuild, ShipInv, TypeOK, BuildPC
  <2>2. CASE ship' = ship
    BY <1>22, <2>2, QuietStep DEF CommitBuild
  <2>3. CASE ship' # ship
    <3>1. Out[cur] \in File /\ ship' = [ship EXCEPT ![Out[cur]] = "outbox"]
      BY <1>22, <2>1, <2>3 DEF CommitBuild, Versionable
    <3>2. Judged[Out[cur]] = "passed" /\ Verdict[cur] # "open"
      BY <2>1, <3>1 DEF Judged, Verdict, Creates
    <3>3. Stage' = [Stage EXCEPT ![Out[cur]] = "outbox"]
      BY <3>1 DEF Stage, Waiting, TypeOK
    <3>4. Judged' = Judged /\ Verdict' = Verdict
      BY <1>22 DEF CommitBuild, Judged, Verdict, FailedQuarantined
    <3>5. Ledger!HandOver(Out[cur])
      BY <2>1, <3>2, <3>3, <3>4 DEF Ledger!HandOver
    <3>6. QED
      BY <3>1, <3>5 DEF LedgerStep, Ledger!Next
  <2>4. QED
    BY <2>2, <2>3
<1>23. ASSUME Crash PROVE LedgerStep
  BY <1>23, QuietStep DEF Crash
<1>24. ASSUME GitClean PROVE LedgerStep
  BY <1>24 DEF GitClean
<1>25. ASSUME NEW d \in Directive, BeginParking(d) PROVE LedgerStep
  <2>1. Creates(d) /\ ship[Out[d]] \in Waiting
    BY <1>25 DEF BeginParking, Creates, Waiting
  <2>2. (failSent \cup durable)' \in {failSent \cup durable, failSent \cup durable \cup {d}}
    BY <1>25 DEF BeginParking, FailInRepo
  <2>3. Stage' = Stage
    BY <1>25 DEF BeginParking, Stage, Waiting, TypeOK
  <2>4. QED
    BY <1>25, <2>1, <2>2, <2>3, FailStep DEF BeginParking
<1>26. ASSUME RefusalIsDurable PROVE LedgerStep
  <2>1. /\ refusing \in Directive /\ Creates(refusing)
        /\ ship[Out[refusing]] \in Waiting
    BY <1>26 DEF RefusalIsDurable, CompletionInv, ShipInv, Unstamped, Waiting, TypeOK, BuildPC
  <2>2. (failSent \cup durable)' \in {failSent \cup durable, failSent \cup durable \cup {refusing}}
    BY <1>26 DEF RefusalIsDurable, FailInRepo, FailDurably
  <2>3. Stage' = Stage
    BY <1>26 DEF RefusalIsDurable, Stage, Waiting, TypeOK
  <2>4. PICK d \in Directive : d = refusing
    BY <2>1
  <2>5. QED
    BY <1>26, <2>1, <2>2, <2>3, <2>4, FailStep DEF RefusalIsDurable
<1>27. ASSUME RefusalUnstamps PROVE LedgerStep
  <2>1. refusing \in failSent \cup durable
    BY <1>27 DEF RefusalUnstamps, ParkInv, TypeOK
  <2>2. PICK d \in failSent \cup durable : d = refusing
    BY <2>1
  <2>3. QED
    BY <1>27, <2>2, UnstampStep DEF RefusalUnstamps, ClearStale
<1>28. ASSUME EvictHollow PROVE LedgerStep
  <2>1. PICK f \in File : f = Out[refusing] /\ ship[f] \in Waiting
    BY <1>28 DEF EvictHollow, ShipInv, Creates, Waiting, TypeOK
  <2>2. Ledger!SetAside(f) /\ Verdict' = Verdict
    BY <1>28, <2>1, EvictStep DEF EvictHollow, Verdict, FailedQuarantined
  <2>3. Stage[f] = "outbox" /\ Stage' = [Stage EXCEPT ![f] = "refused"]
    BY <1>28, <2>1 DEF EvictHollow, Stage, Waiting, TypeOK
  <2>4. Ledger!Bounce(f)
    BY <2>2, <2>3 DEF Ledger!Bounce
  <2>5. QED
    BY <2>4 DEF LedgerStep, Ledger!Next
<1>29. ASSUME PublisherDies PROVE LedgerStep
  BY <1>29, QuietStep DEF PublisherDies
<1>30. ASSUME NEW f \in File, PublisherTakes(f) PROVE LedgerStep
  <2>1. Ledger!SetAside(f) /\ Verdict' = Verdict
    BY <1>30, EvictStep DEF PublisherTakes, Verdict, FailedQuarantined
  <2>2. Stage[f] = "outbox" /\ Stage' = [Stage EXCEPT ![f] = "inflight"]
    BY <1>30 DEF PublisherTakes, Stage, Waiting, TypeOK
  <2>3. Ledger!Take(f)
    BY <2>1, <2>2 DEF Ledger!Take
  <2>4. QED
    BY <2>3 DEF LedgerStep, Ledger!Next
<1>31. ASSUME NEW f \in File, PublisherRefuses(f) PROVE LedgerStep
  <2>1. Ledger!SetAside(f) /\ Verdict' = Verdict
    BY <1>31, EvictStep DEF PublisherRefuses, Verdict, FailedQuarantined
  <2>2. Stage[f] = "outbox" /\ Stage' = [Stage EXCEPT ![f] = "refused"]
    BY <1>31 DEF PublisherRefuses, Stage, Waiting, TypeOK
  <2>3. Ledger!Bounce(f)
    BY <2>1, <2>2 DEF Ledger!Bounce
  <2>4. QED
    BY <2>3 DEF LedgerStep, Ledger!Next
<1>32. ASSUME NEW f \in File, Deploy(f) PROVE LedgerStep
  <2>1. Judged' = [Judged EXCEPT ![f] = "passed"] /\ Verdict' = Verdict
    BY <1>32 DEF Deploy, Judged, Verdict, FailedQuarantined, TypeOK
  <2>2. Stage[f] = "inflight" /\ Stage' = [Stage EXCEPT ![f] = "merged"]
    BY <1>32 DEF Deploy, Stage, Waiting, TypeOK
  <2>3. Ledger!Merge(f)
    BY <2>1, <2>2 DEF Ledger!Merge
  <2>4. QED
    BY <2>3 DEF LedgerStep, Ledger!Next
<1>33. ASSUME NEW f \in File, Refuse(f) PROVE LedgerStep
  <2>1. Judged' = Judged /\ Verdict' = Verdict
    BY <1>33 DEF Refuse, Judged, Verdict, FailedQuarantined
  <2>2. Stage[f] = "inflight" /\ Stage' = [Stage EXCEPT ![f] = "refused"]
    BY <1>33 DEF Refuse, Stage, Waiting, TypeOK
  <2>3. Ledger!Close(f)
    BY <2>1, <2>2 DEF Ledger!Close
  <2>4. QED
    BY <2>3 DEF LedgerStep, Ledger!Next
<1>34. QED
  BY <1>1, <1>2, <1>3, <1>4, <1>5, <1>6, <1>7, <1>8, <1>9, <1>10, <1>11, <1>12, <1>13, <1>14,
     <1>15, <1>16, <1>17, <1>18, <1>19, <1>20, <1>21, <1>22, <1>23, <1>24, <1>25, <1>26, <1>27,
     <1>28, <1>29, <1>30, <1>31, <1>32, <1>33
  DEF Next, PromoterStep, RunnerStep, BuildStep, ParkingStep, Environment, QueueMove,
      PollMove, PassOver

\* Every behaviour of the queue, seen through its sentinels and its files, is a
\* behaviour of the ledger: whatever the interleaving of promoter, runner and
\* publisher, wherever one of them dies and whatever write fails but those of
\* Reliable, done is stamped over gated bytes, what waits in the outbox is not
\* touched, and giving up is final.
THEOREM ImplementsLedger ==
  ASSUME DistinctOutputs, CanClean = FALSE, Reliable PROVE Spec => RefinesLedger
<1>1. Init => Ledger!Init
  BY QueueAssumption DEF Init, Ledger!Init, Verdict, FailedQuarantined, Judged, Stage, Waiting
<1>2. TypeOK /\ CompletionInv /\ ParkInv /\ ShipInv /\ [Next]_vars
        => [Ledger!Next]_(Ledger!ledgerVars)
  <2> SUFFICES ASSUME TypeOK, CompletionInv, ParkInv, ShipInv, [Next]_vars
               PROVE  LedgerStep
    BY DEF LedgerStep
  <2>1. CASE Next
    BY <2>1, NextRefines
  <2>2. CASE UNCHANGED vars
    BY <2>2, QuietStep DEF vars, sentinelVars, fileVars
  <2>3. QED
    BY <2>1, <2>2
<1>3. QED
  BY <1>1, <1>2, TypeCorrect, CompletionInvHolds, ParkInvHolds, ShipInvHolds, PTL
  DEF Spec, RefinesLedger, Ledger!Spec
=============================================================================
