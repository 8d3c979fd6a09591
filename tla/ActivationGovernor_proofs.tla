---------------------- MODULE ActivationGovernor_proofs ----------------------
(***************************************************************************)
(* Proofs about the activation governor and the ingestor: the types, the   *)
(* evidence that precedes every verdict, and the bar a false promotion is. *)
(* All of them hold for any number of rows, any criteria and any faults    *)
(* but where a theorem assumes otherwise.                                  *)
(***************************************************************************)
EXTENDS ActivationGovernor, FiniteSetTheorems, TLAPS

\* What the store can hold and a cycle may count on.
LEMMA LeastFacts ==
  ASSUME NEW x \in Nat, NEW y \in Nat
  PROVE  Least(x, y) \in Nat /\ Least(x, y) <= x /\ Least(x, y) <= y
  BY DEF Least

\* A batch lies within the rows there are.
LEMMA BatchFits ==
  ASSUME TypeOK
  PROVE  /\ ReadArtifacts(watermark) \in Nat
         /\ ReadArtifacts(watermark) = Least(n, Batch)
         /\ 1..ReadArtifacts(watermark) \subseteq Rows
  <1>1. n \in Nat /\ Batch \in Nat /\ n <= MaxRows
    BY BoundsAssumption DEF TypeOK
  <1>2. Least(n, Batch) \in Nat /\ Least(n, Batch) <= n
    BY <1>1, LeastFacts
  <1> QED BY <1>1, <1>2, BoundsAssumption DEF ReadArtifacts, Rows

\* Counting a cycle yields a governor state, and only adds artifacts.
LEMMA CountedFacts ==
  ASSUME TypeOK, NEW rows \in SUBSET Rows, NEW smoke \in BOOLEAN
  PROVE  /\ Counted(rows, smoke) \in States
         /\ mine.agreeing \subseteq Counted(rows, smoke).agreeing
         /\ Counted(rows, smoke).on = mine.on
         /\ mine.fp => Counted(rows, smoke).fp
         /\ Counted(rows, smoke).green <= mine.green + 1
  <1> DEFINE g == IF Green(rows, smoke) THEN Least(mine.green + 1, MinGreen) ELSE 0
             s == mine.agreeing \cup {r \in rows : Agrees(r)}
             f == mine.fp \/ \E r \in rows : FalsePromote(r)
  <1>1. mine \in States BY DEF TypeOK
  <1>2. mine.green \in 0..MinGreen /\ mine.agreeing \subseteq Rows
        /\ mine.fp \in BOOLEAN /\ mine.on \in BOOLEAN
    BY <1>1 DEF States
  <1>3. Least(mine.green + 1, MinGreen) \in Nat
        /\ Least(mine.green + 1, MinGreen) <= mine.green + 1
        /\ Least(mine.green + 1, MinGreen) <= MinGreen
    BY <1>2, BoundsAssumption DEF Least
  <1>4. g \in 0..MinGreen /\ g <= mine.green + 1
    BY <1>2, <1>3, BoundsAssumption
  <1>5. s \in SUBSET Rows /\ mine.agreeing \subseteq s BY <1>2
  <1>6. f \in BOOLEAN /\ (mine.fp => f) BY <1>2
  <1>7. Counted(rows, smoke) = [mine EXCEPT !.green = g, !.agreeing = s, !.fp = f]
    BY DEF Counted
  <1> HIDE DEF g, s, f
  <1>8. Counted(rows, smoke) = [green |-> g, agreeing |-> s, fp |-> f, on |-> mine.on]
    BY <1>1, <1>7 DEF States
  <1> QED BY <1>2, <1>4, <1>5, <1>6, <1>8 DEF States

\* An assessment counts some rows of the store, with or without a smoke failure.
LEMMA AssessCounts ==
  ASSUME TypeOK, Assess
  PROVE  \E rows \in SUBSET Rows, smoke \in BOOLEAN : mine' = Counted(rows, smoke)
  <1>1. 1..ReadArtifacts(watermark) \in SUBSET Rows BY BatchFits
  <1>2. SUBSET (1..ReadArtifacts(watermark)) \subseteq SUBSET Rows BY <1>1
  <1> QED BY <1>1, <1>2 DEF Assess

LEMMA FaultCount ==
  ASSUME TypeOK
  PROVE  /\ NoFault => faults' \in 0..MaxFaults
         /\ \A kind : Fault(kind) => faults' \in 0..MaxFaults
  BY BoundsAssumption DEF TypeOK, NoFault, Fault

LEMMA FreshIsState == Fresh \in States
  BY BoundsAssumption DEF Fresh, States

-----------------------------------------------------------------------------
\* Every state is well formed: the cursor of a batch stays within the batch,
\* the batch within the rows, and the watermark never passes the newest row.
THEOREM TypeCorrect == Spec => []TypeOK
<1>1. Init => TypeOK
  <2> SUFFICES ASSUME Init PROVE TypeOK OBVIOUS
  <2>1. Least(n, Batch) = 0 BY BoundsAssumption DEF Init, Least
  <2>2. Fresh \in States BY FreshIsState
  <2>3. size \in 0..Least(n, Batch) /\ at \in 0..size /\ watermark \in 0..n
    BY <2>1 DEF Init
  <2>4. faults \in 0..MaxFaults /\ n \in 0..MaxRows /\ judged = {}
    BY BoundsAssumption DEF Init
  <2> QED BY <2>2, <2>3, <2>4 DEF Init, TypeOK
<1>2. TypeOK /\ [Next]_vars => TypeOK'
  <2> SUFFICES ASSUME TypeOK, [Next]_vars PROVE TypeOK' OBVIOUS
  <2> DEFINE Limit(k) == Least(k, Batch)
  <2>0. n \in Nat /\ n <= MaxRows /\ Batch \in Nat /\ MaxRows \in Nat
        /\ Limit(n) \in Nat /\ Limit(n) <= n
    BY BoundsAssumption, LeastFacts DEF TypeOK
  <2>1. CASE Build
    <3>1. n' = n + 1 /\ n' \in 0..MaxRows BY <2>0, <2>1 DEF Build
    <3>2. sound' \subseteq Rows BY <2>0, <2>1, <3>1 DEF Build, TypeOK, Rows
    <3>3. Limit(n) <= Limit(n') /\ Limit(n') \in Nat
      BY <2>0, <3>1 DEF Least
    <3>4. size' \in 0..Limit(n') /\ at' \in 0..size' /\ watermark' \in 0..n'
          /\ judged' \subseteq 1..n'
      BY <2>0, <2>1, <3>1, <3>3 DEF Build, ingestor, TypeOK
    <3> QED BY <2>1, <3>1, <3>2, <3>4 DEF Build, governor, ingestor, TypeOK
  <2>2. CASE Operator BY <2>2 DEF Operator, governor, ingestor, TypeOK
  <2>3. CASE Touch
    BY <2>3, FaultCount DEF Touch, governor, ingestor, TypeOK
  <2>4. CASE Wipe
    BY <2>4, FaultCount DEF Wipe, outside, governor, ingestor, TypeOK
  <2>5. ASSUME NEW r \in 1..n, FileChanges(r) PROVE TypeOK'
    <3>1. r \in Rows BY <2>0 DEF Rows
    <3> QED BY <2>5, <3>1 DEF FileChanges, governor, ingestor, TypeOK
  <2>6. ASSUME NEW r \in 1..n, Gate8Runs(r) PROVE TypeOK'
    <3>1. gate8' \in [Rows -> {"none", "pass", "fail"}]
      BY <2>6 DEF Gate8Runs, TypeOK
    <3> QED BY <2>6, <3>1 DEF Gate8Runs, governor, ingestor, TypeOK
  <2>7. CASE Load
    BY <2>7, FaultCount, FreshIsState DEF Load, outside, ingestor, TypeOK
  <2>8. CASE Look
    <3>1. mine' \in States BY <2>8 DEF Look, Freeze, TypeOK, States
    <3> QED BY <2>8, <3>1 DEF Look, Freeze, outside, ingestor, TypeOK
  <2>9. CASE Assess
    <3>1. mine' \in States BY <2>9, AssessCounts, CountedFacts
    <3>2. evidence' \subseteq Rows
      BY <2>9, <3>1 DEF Assess, TypeOK, States
    <3>3. faults' \in 0..MaxFaults BY <2>9, FaultCount DEF Assess
    <3> QED BY <2>9, <3>1, <3>2, <3>3 DEF Assess, outside, ingestor, TypeOK
  <2>10. CASE Decide
    <3>1. mine' \in States BY <2>10 DEF Decide, TypeOK, States
    <3> QED BY <2>10, <3>1 DEF Decide, outside, ingestor, TypeOK
  <2>11. CASE Save
    BY <2>11, FaultCount, FreshIsState DEF Save, outside, ingestor, TypeOK
  <2>12. CASE GovernorDies
    BY <2>12, FaultCount, FreshIsState DEF GovernorDies, outside, ingestor, TypeOK
  <2>13. CASE Begin
    <3>1. size' \in 0..Limit(n) /\ at' \in 0..size'
      BY <2>0, <2>13, BatchFits DEF Begin
    <3>2. faults' \in 0..MaxFaults BY <2>13, FaultCount DEF Begin
    <3> QED BY <2>13, <3>1, <3>2 DEF Begin, IsEnabled, outside, governor, TypeOK
  <2>14. CASE Ingest
    <3>1. at' \in 0..size /\ size \in Nat BY <2>14 DEF Ingest, TypeOK
    <3>2. at' \in 1..n BY <2>0, <2>14 DEF Ingest, TypeOK
    <3>3. judged' \subseteq 1..n BY <2>14, <3>2 DEF Ingest, TypeOK
    <3>4. faults' \in 0..MaxFaults BY <2>14, FaultCount DEF Ingest
    <3> QED BY <2>14, <3>1, <3>3, <3>4 DEF Ingest, outside, governor, TypeOK
  <2>15. CASE Finish
    <3>1. at \in 0..n BY <2>0 DEF TypeOK
    <3>2. watermark' \in 0..n BY <2>15, <3>1 DEF Finish, Advance, TypeOK
    <3>3. 0 \in 0..Limit(n) BY <2>0
    <3>4. size' \in 0..Least(n', Batch) /\ at' \in 0..size'
      BY <2>15, <3>3 DEF Finish, Rest, outside
    <3>5. faults' \in 0..MaxFaults BY <2>15, FaultCount DEF Finish
    <3> QED BY <2>15, <3>2, <3>4, <3>5 DEF Finish, Rest, outside, governor, TypeOK
  <2>16. CASE IngestorFails
    <3>1. 0 \in 0..Limit(n) BY <2>0
    <3>2. faults' \in 0..MaxFaults BY <2>16, FaultCount DEF IngestorFails
    <3>4. size' \in 0..Least(n', Batch) /\ at' \in 0..size'
      BY <2>16, <3>1 DEF IngestorFails, Rest, outside
    <3> QED BY <2>16, <3>2, <3>4 DEF IngestorFails, Rest, outside, governor, TypeOK
  <2>17. CASE UNCHANGED vars
    BY <2>17 DEF vars, outside, governor, ingestor, TypeOK
  <2> QED BY <2>1, <2>2, <2>3, <2>4, <2>5, <2>6, <2>7, <2>8, <2>9, <2>10, <2>11,
             <2>12, <2>13, <2>14, <2>15, <2>16, <2>17
          DEF Next, GovernorStep, IngestorStep
<1> QED BY <1>1, <1>2, PTL DEF Spec

-----------------------------------------------------------------------------
\* The evidence an open latch, a look at it, a state that says activated and a
\* recorded verdict all stand for.
Earned == touched \/ Cardinality(evidence) >= MinAgreeing

EInv ==
    /\ saved.agreeing \subseteq evidence /\ mine.agreeing \subseteq evidence
    /\ latch => Earned
    /\ enabled => Earned
    /\ saved.on => Earned
    /\ mine.on => Earned
    /\ judged # {} => Earned

\* Evidence is never taken back.
LEMMA EarnedStays ==
  ASSUME TypeOK, TypeOK', evidence \subseteq evidence', touched => touched', Earned
  PROVE  Earned'
  <1>1. IsFiniteSet(Rows)
    BY FS_Interval, BoundsAssumption DEF Rows
  <1>2. IsFiniteSet(evidence') BY <1>1, FS_Subset DEF TypeOK
  <1>3. Cardinality(evidence) <= Cardinality(evidence') /\ IsFiniteSet(evidence)
    BY <1>2, FS_Subset
  <1>4. Cardinality(evidence) \in Nat /\ Cardinality(evidence') \in Nat
    BY <1>2, <1>3, FS_CardinalityType
  <1> QED BY <1>3, <1>4, BoundsAssumption DEF Earned

\* A governor that finds itself ready has seen the evidence.
LEMMA ReadyIsEarned ==
  ASSUME TypeOK, mine.agreeing \subseteq evidence, Ready
  PROVE  Earned
  <1>1. IsFiniteSet(Rows)
    BY FS_Interval, BoundsAssumption DEF Rows
  <1>2. IsFiniteSet(evidence) BY <1>1, FS_Subset DEF TypeOK
  <1>3. Cardinality(mine.agreeing) <= Cardinality(evidence)
        /\ IsFiniteSet(mine.agreeing)
    BY <1>2, FS_Subset
  <1>4. Cardinality(evidence) \in Nat /\ Cardinality(mine.agreeing) \in Nat
    BY <1>2, <1>3, FS_CardinalityType
  <1> QED BY <1>3, <1>4, BoundsAssumption DEF Earned, Ready

\* Dormancy (the package's README, "safe by default"): however the two loops
\* interleave, whatever answers of the store are lost and whoever dies, no
\* verdict is recorded before the graders agreed on enough artifacts, unless
\* the ingestor was started with its own switch on.
THEOREM DormantUntilEarned ==
  ASSUME Override # "on"
  PROVE  Spec => []EvidenceFirst
<1>1. Init => EInv
  BY DEF Init, EInv, Fresh
<1>2. TypeOK /\ TypeOK' /\ EInv /\ [Next]_vars => EInv'
  <2> SUFFICES ASSUME TypeOK, TypeOK', EInv, [Next]_vars PROVE EInv' OBVIOUS
  <2>0. ASSUME evidence \subseteq evidence', touched => touched', Earned
        PROVE  Earned'
    BY <2>0, EarnedStays
  <2>1. CASE Build BY <2>1 DEF Build, governor, ingestor, EInv, Earned
  <2>2. CASE Operator BY <2>2 DEF Operator, governor, ingestor, EInv, Earned
  <2>3. CASE Touch BY <2>3 DEF Touch, governor, ingestor, EInv, Earned
  <2>4. CASE Wipe BY <2>4 DEF Wipe, outside, governor, ingestor, EInv, Earned
  <2>5. ASSUME NEW r \in 1..n, FileChanges(r) PROVE EInv'
    BY <2>5 DEF FileChanges, governor, ingestor, EInv, Earned
  <2>6. ASSUME NEW r \in 1..n, Gate8Runs(r) PROVE EInv'
    BY <2>6 DEF Gate8Runs, governor, ingestor, EInv, Earned
  <2>7. CASE Load
    BY <2>7 DEF Load, Fresh, outside, ingestor, EInv, Earned
  <2>8. CASE Look
    <3>1. mine'.agreeing = mine.agreeing /\ (mine'.on => mine.on) /\ (latch' => latch)
      BY <2>8 DEF Look, Freeze, TypeOK, States
    <3> QED BY <2>8, <3>1 DEF Look, outside, ingestor, EInv, Earned
  <2>9. CASE Assess
    <3>1. mine'.on = mine.on BY <2>9, AssessCounts, CountedFacts
    <3>2. evidence \subseteq evidence' /\ mine'.agreeing \subseteq evidence'
      BY <2>9 DEF Assess
    <3>3. Earned => Earned' BY <2>9, <3>2, <2>0 DEF Assess, outside
    <3> QED BY <2>9, <3>1, <3>2, <3>3 DEF Assess, outside, ingestor, EInv
  <2>10. CASE Decide
    <3>1. mine'.agreeing = mine.agreeing BY <2>10 DEF Decide, TypeOK, States
    <3>2. Earned' = Earned BY <2>10 DEF Decide, outside, Earned
    <3>3. latch' => Earned
      BY <2>10, ReadyIsEarned DEF Decide, EInv
    <3>4. mine'.on => Earned
      BY <2>10, ReadyIsEarned DEF Decide, EInv
    <3> QED BY <2>10, <3>1, <3>2, <3>3, <3>4 DEF Decide, outside, ingestor, EInv
  <2>11. CASE Save
    BY <2>11 DEF Save, Fresh, outside, ingestor, EInv, Earned
  <2>12. CASE GovernorDies
    BY <2>12 DEF GovernorDies, Fresh, outside, ingestor, EInv, Earned
  <2>13. CASE Begin
    BY <2>13 DEF Begin, IsEnabled, outside, governor, EInv, Earned
  <2>14. CASE Ingest
    <3>1. judged' # {} => enabled \/ judged # {}
      BY <2>14 DEF Ingest
    <3> QED BY <2>14, <3>1 DEF Ingest, outside, governor, EInv, Earned
  <2>15. CASE Finish
    BY <2>15 DEF Finish, Rest, outside, governor, EInv, Earned
  <2>16. CASE IngestorFails
    BY <2>16 DEF IngestorFails, Rest, outside, governor, EInv, Earned
  <2>17. CASE UNCHANGED vars
    BY <2>17 DEF vars, outside, governor, ingestor, EInv, Earned
  <2> QED BY <2>1, <2>2, <2>3, <2>4, <2>5, <2>6, <2>7, <2>8, <2>9, <2>10, <2>11,
             <2>12, <2>13, <2>14, <2>15, <2>16, <2>17
          DEF Next, GovernorStep, IngestorStep
<1>3. EInv => EvidenceFirst BY DEF EInv, Earned, EvidenceFirst
<1> QED BY <1>1, <1>2, <1>3, TypeCorrect, PTL DEF Spec

-----------------------------------------------------------------------------
\* A cycle that began on a stored false promotion carries it along, or began on
\* a state the store did not give: then its streak is too short to activate.
FInv ==
    saved.fp /\ gpc # "asleep" =>
        /\ mine.fp \/ faults # 0
        /\ mine.on => saved.on
        /\ gpc \in {"look", "assess"} => mine.fp \/ mine.green = 0
        /\ gpc = "decide" => mine.fp \/ mine.green <= 1

\* A false promotion bars activation for ever (governor.py, "zero lifetime
\* false-promotes"), provided the criteria ask for two green cycles at least:
\* with a streak of one, a cycle the store did not answer could open the latch.
THEOREM FalsePromotionBars ==
  ASSUME MinGreen >= 2
  PROVE  Spec => FalsePromoteBars
<1> DEFINE Step == saved.fp => /\ (~saved.on /\ ~latch /\ latch' => touched')
                               /\ (~saved'.fp => faults # 0)
<1>1. Init => FInv BY DEF Init, FInv
<1>2. TypeOK /\ FInv /\ [Next]_vars => FInv' /\ Step
  <2> SUFFICES ASSUME TypeOK, FInv, [Next]_vars PROVE FInv' /\ Step OBVIOUS
  <2>1. CASE Build BY <2>1 DEF Build, governor, FInv
  <2>2. CASE Operator BY <2>2 DEF Operator, governor, FInv
  <2>3. CASE Touch BY <2>3 DEF Touch, Fault, governor, FInv, TypeOK
  <2>4. CASE Wipe BY <2>4 DEF Wipe, Fault, governor, FInv, TypeOK
  <2>5. ASSUME NEW r \in 1..n, FileChanges(r) PROVE FInv' /\ Step
    BY <2>5 DEF FileChanges, governor, FInv
  <2>6. ASSUME NEW r \in 1..n, Gate8Runs(r) PROVE FInv' /\ Step
    BY <2>6 DEF Gate8Runs, governor, FInv
  <2>7. CASE Load
    BY <2>7 DEF Load, NoFault, Fault, Fresh, FInv, TypeOK
  <2>8. CASE Look
    <3>1. mine'.fp = mine.fp /\ mine'.green = mine.green
          /\ (mine'.on => mine.on) /\ (latch' => latch)
      BY <2>8 DEF Look, Freeze, TypeOK, States
    <3>2. saved' = saved /\ faults' = faults /\ gpc = "look" /\ gpc' \in {"save", "assess"}
      BY <2>8 DEF Look
    <3>3. FInv' BY <3>1, <3>2 DEF FInv
    <3>4. Step BY <3>1, <3>2
    <3> QED BY <3>3, <3>4
  <2>9. CASE Assess
    <3>0. mine.green \in Nat /\ mine'.green \in Nat
      <4>1. mine \in States BY DEF TypeOK
      <4>2. mine' \in States BY <2>9, AssessCounts, CountedFacts
      <4> QED BY <4>1, <4>2, BoundsAssumption DEF States
    <3>1. /\ mine'.on = mine.on /\ (mine.fp => mine'.fp)
          /\ mine'.green <= mine.green + 1
      BY <2>9, AssessCounts, CountedFacts
    <3>2. faults # 0 => faults' # 0
      <4>1. NoFault \/ Fault("smoke") \/ Fault("read")
        BY <2>9, Zenon DEF Assess
      <4>2. faults \in Nat BY BoundsAssumption DEF TypeOK
      <4> QED BY <4>1, <4>2 DEF NoFault, Fault
    <3>3. saved' = saved /\ latch' = latch /\ gpc = "assess" /\ gpc' = "decide"
      BY <2>9 DEF Assess
    <3>4. mine'.fp \in BOOLEAN /\ mine.fp \in BOOLEAN
      <4>1. mine \in States BY DEF TypeOK
      <4>2. mine' \in States BY <2>9, AssessCounts, CountedFacts
      <4> QED BY <4>1, <4>2 DEF States
    <3>5. FInv' BY <3>0, <3>1, <3>2, <3>3, <3>4 DEF FInv
    <3>6. Step BY <3>3
    <3> QED BY <3>5, <3>6
  <2>10. CASE Decide
    <3>1. mine'.fp = mine.fp BY <2>10 DEF Decide, TypeOK, States
    <3>2. saved.fp => ~Ready
      BY <2>10, BoundsAssumption DEF Decide, FInv, Ready, TypeOK, States
    <3>3. saved.fp => mine' = mine /\ (latch' /\ ~latch => mine.on)
      BY <2>10, <3>2 DEF Decide
    <3>4. saved' = saved /\ faults' = faults /\ gpc = "decide" /\ gpc' = "save"
      BY <2>10 DEF Decide
    <3>5. FInv' BY <3>1, <3>3, <3>4 DEF FInv
    <3>6. Step BY <3>3, <3>4 DEF FInv
    <3> QED BY <3>5, <3>6
  <2>11. CASE Save
    BY <2>11 DEF Save, FInv
  <2>12. CASE GovernorDies
    BY <2>12 DEF GovernorDies, FInv
  <2>13. CASE Begin
    BY <2>13 DEF Begin, NoFault, Fault, governor, FInv, TypeOK
  <2>14. CASE Ingest
    BY <2>14 DEF Ingest, NoFault, Fault, governor, FInv, TypeOK
  <2>15. CASE Finish
    BY <2>15 DEF Finish, NoFault, Fault, governor, FInv, TypeOK
  <2>16. CASE IngestorFails
    BY <2>16 DEF IngestorFails, Fault, governor, FInv, TypeOK
  <2>17. CASE UNCHANGED vars
    BY <2>17 DEF vars, governor, FInv
  <2> QED BY <2>1, <2>2, <2>3, <2>4, <2>5, <2>6, <2>7, <2>8, <2>9, <2>10, <2>11,
             <2>12, <2>13, <2>14, <2>15, <2>16, <2>17
          DEF Next, GovernorStep, IngestorStep
<1>3. TypeOK /\ FInv /\ [Next]_vars => [Step]_vars BY <1>2
<1>4. FInv /\ TypeOK /\ [Next]_vars => FInv' BY <1>2
<1> QED BY <1>1, <1>3, <1>4, TypeCorrect, PTL DEF Spec, FalsePromoteBars

-----------------------------------------------------------------------------
\* What the watermark stands for.  The cycle at work counts with the rows it has gone
\* through: a verdict it lost is missing below the mark it is about to set.
Unjudged(mark) == (1..mark) \ judged

WInv ==
    /\ Cardinality(Unjudged(Advance(at))) <= faults
    /\ size <= Batch /\ judged \subseteq 1..Batch

LEMMA RowsCount ==
  ASSUME NEW a \in Nat, NEW S
  PROVE  IsFiniteSet((1..a) \ S) /\ Cardinality((1..a) \ S) \in Nat
  <1>1. IsFiniteSet(1..a) BY FS_Interval
  <1>2. IsFiniteSet((1..a) \ S) BY <1>1, FS_Subset
  <1> QED BY <1>2, FS_CardinalityType

\* Fewer rows without a verdict are no more in number, and one row more is one more.
LEMMA FewerRows ==
  ASSUME NEW a \in Nat, NEW b \in Nat, NEW S, NEW T,
         (1..b) \ T \subseteq (1..a) \ S
  PROVE  Cardinality((1..b) \ T) <= Cardinality((1..a) \ S)
  BY RowsCount, FS_Subset

LEMMA OneRowMore ==
  ASSUME NEW a \in Nat, NEW b \in Nat, NEW S, NEW r,
         (1..b) \ S \subseteq ((1..a) \ S) \cup {r}
  PROVE  Cardinality((1..b) \ S) <= Cardinality((1..a) \ S) + 1
  <1> DEFINE A == (1..a) \ S
  <1>1. IsFiniteSet(A) /\ Cardinality(A) \in Nat BY RowsCount
  <1>2. IsFiniteSet((1..b) \ S) /\ Cardinality((1..b) \ S) \in Nat BY RowsCount
  <1>3. (1..b) \ S \subseteq A \cup {r} OBVIOUS
  <1> HIDE DEF A
  <1>4. IsFiniteSet(A \cup {r})
        /\ Cardinality(A \cup {r}) = IF r \in A THEN Cardinality(A) ELSE Cardinality(A) + 1
    BY <1>1, FS_AddElement
  <1>5. Cardinality((1..b) \ S) <= Cardinality(A \cup {r})
    BY <1>3, <1>4, FS_Subset
  <1>6. Cardinality((1..b) \ S) <= Cardinality(A) + 1
    BY <1>1, <1>2, <1>4, <1>5
  <1> QED BY <1>6 DEF A

\* The bound survives a step that uncovers no row, and a fault that uncovers one.
LEMMA FewStay ==
  ASSUME TypeOK, TypeOK', WInv, faults' >= faults,
         Unjudged(Advance(at))' \subseteq Unjudged(Advance(at))
  PROVE  Cardinality(Unjudged(Advance(at)))' <= faults'
  <1>1. Advance(at) \in Nat /\ Advance(at)' \in Nat
    BY DEF TypeOK, Advance
  <1> DEFINE a == Advance(at)  b == Advance(at)'  S == judged  T == judged'
  <1>2. (1..b) \ T \subseteq (1..a) \ S BY DEF Unjudged
  <1>3. Cardinality((1..b) \ T) <= Cardinality((1..a) \ S)
    <2> HIDE DEF a, b, S, T
    <2> QED BY <1>1, <1>2, FewerRows DEF a, b
  <1>4. faults \in Nat /\ faults' \in Nat BY BoundsAssumption DEF TypeOK
  <1>5. Cardinality((1..a) \ S) \in Nat /\ Cardinality((1..b) \ T) \in Nat
    <2> HIDE DEF a, b, S, T
    <2> QED BY <1>1, RowsCount DEF a, b
  <1>6. Cardinality((1..a) \ S) <= faults BY DEF WInv, Unjudged
  <1>7. Cardinality((1..b) \ T) <= faults'
    <2> HIDE DEF a, b, S, T
    <2> QED BY <1>3, <1>4, <1>5, <1>6
  <1> QED BY <1>7 DEF Unjudged

\* Faults are never uncounted.
LEMMA FaultsGrow ==
  ASSUME TypeOK, [Next]_vars
  PROVE  faults' >= faults
<1>0. faults \in Nat BY BoundsAssumption DEF TypeOK
<1>1. NoFault => faults' >= faults BY <1>0 DEF NoFault
<1>2. \A kind : Fault(kind) => faults' >= faults BY <1>0 DEF Fault
<1>3. CASE Build \/ Operator BY <1>0, <1>3 DEF Build, Operator
<1>4. CASE Touch \/ Wipe BY <1>2, <1>4 DEF Touch, Wipe
<1>5. ASSUME NEW r \in 1..n, FileChanges(r) \/ Gate8Runs(r) PROVE faults' >= faults
  BY <1>0, <1>5 DEF FileChanges, Gate8Runs
<1>6. CASE Load \/ Assess \/ Save
  BY <1>1, <1>2, <1>6, Zenon DEF Load, Assess, Save
<1>7. CASE Look \/ Decide BY <1>0, <1>7 DEF Look, Decide
<1>8. CASE Begin \/ Ingest \/ Finish
  BY <1>1, <1>2, <1>8, Zenon DEF Begin, Ingest, Finish
<1>9. CASE GovernorDies \/ IngestorFails
  BY <1>2, <1>9 DEF GovernorDies, IngestorFails
<1>10. CASE UNCHANGED vars BY <1>0, <1>10 DEF vars
<1> QED BY <1>3, <1>4, <1>5, <1>6, <1>7, <1>8, <1>9, <1>10
        DEF Next, GovernorStep, IngestorStep

\* The strengthening holds whatever fails.
LEMMA WInvHolds == Spec => []WInv
<1>1. Init => WInv
  <2> SUFFICES ASSUME Init PROVE WInv OBVIOUS
  <2>1. Unjudged(Advance(at)) = {} BY DEF Init, Unjudged, Advance
  <2> QED BY <2>1, FS_EmptySet, BoundsAssumption DEF Init, WInv
<1>2. TypeOK /\ TypeOK' /\ WInv /\ [Next]_vars => WInv'
  <2> SUFFICES ASSUME TypeOK, TypeOK', WInv, [Next]_vars PROVE WInv' OBVIOUS
  <2>0. /\ n \in Nat /\ Batch \in Nat \ {0} /\ size \in Nat /\ at \in 0..size
        /\ watermark \in Nat /\ Least(n, Batch) <= Batch
        /\ size <= Batch /\ judged \subseteq 1..Batch
    BY BoundsAssumption, LeastFacts DEF TypeOK, WInv
  <2>a. ASSUME Unjudged(Advance(at))' \subseteq Unjudged(Advance(at)),
               size' <= Batch, judged' \subseteq 1..Batch
        PROVE  WInv'
    BY <2>a, FewStay, FaultsGrow DEF WInv
  <2>b. CASE UNCHANGED ingestor
    BY <2>0, <2>a, <2>b DEF ingestor, Unjudged, Advance
  <2>1. CASE Build \/ Operator \/ Touch
    BY <2>1, <2>b DEF Build, Operator, Touch
  <2>2. CASE Wipe BY <2>2, <2>b DEF Wipe
  <2>3. ASSUME NEW r \in 1..n, FileChanges(r) \/ Gate8Runs(r) PROVE WInv'
    BY <2>3, <2>b DEF FileChanges, Gate8Runs
  <2>4. CASE GovernorStep \/ GovernorDies
    BY <2>4, <2>b
       DEF GovernorStep, Load, Look, Assess, Decide, Save, GovernorDies
  <2>5. CASE Begin
    <3>1. size' <= Batch BY <2>0, <2>5, BatchFits DEF Begin
    <3>2. Advance(at)' = watermark
      BY <2>0, <2>5 DEF Begin, Advance
    <3>3. 1..watermark \subseteq 1..Advance(at) BY <2>0 DEF Advance
    <3> QED BY <2>0, <2>5, <2>a, <3>1, <3>2, <3>3 DEF Begin, Unjudged
  <2>6. CASE Ingest
    <3>1. at' = at + 1 /\ at' \in 1..Batch /\ UNCHANGED <<enabled, watermark, size>>
      BY <2>0, <2>6 DEF Ingest
    <3>2. judged' \subseteq 1..Batch BY <2>0, <2>6, <3>1 DEF Ingest
    <3>3. 1..Advance(at)' \subseteq (1..Advance(at)) \cup {at'}
      BY <2>0, <3>1 DEF Advance
    <3>4. ~enabled => Advance(at)' = Advance(at) BY <3>1 DEF Advance
    <3>5. CASE judged' = (IF enabled THEN judged \cup {at'} ELSE judged)
      BY <2>0, <2>a, <3>1, <3>2, <3>3, <3>4, <3>5 DEF Unjudged
    <3>6. CASE judged' = judged /\ Fault("write")
      <4> DEFINE x == Advance(at)  y == Advance(at)'
      <4>1. x \in Nat /\ y \in Nat BY <2>0, <3>1 DEF Advance
      <4>2. (1..y) \ judged \subseteq ((1..x) \ judged) \cup {at'} BY <3>3
      <4>3. Cardinality((1..y) \ judged) <= Cardinality((1..x) \ judged) + 1
        <5> HIDE DEF x, y
        <5> QED BY <4>1, <4>2, OneRowMore
      <4>4. Cardinality((1..x) \ judged) \in Nat /\ Cardinality((1..y) \ judged) \in Nat
        <5> HIDE DEF x, y
        <5> QED BY <4>1, RowsCount
      <4>5. Cardinality((1..x) \ judged) <= faults BY DEF WInv, Unjudged
      <4>6. faults \in Nat /\ faults' = faults + 1
        BY <3>6, BoundsAssumption DEF TypeOK, Fault
      <4>7. Cardinality((1..y) \ judged) <= faults'
        <5> HIDE DEF x, y
        <5> QED BY <4>3, <4>4, <4>5, <4>6
      <4>8. Cardinality(Unjudged(Advance(at)))' <= faults' BY <3>6, <4>7 DEF Unjudged
      <4> QED BY <2>0, <3>1, <3>2, <4>8 DEF WInv
    <3> QED BY <2>6, <3>5, <3>6 DEF Ingest
  <2>7. CASE Finish
    <3>1. watermark' \in {Advance(at), watermark} /\ ~enabled' /\ size' = 0 /\ at' = 0
          /\ judged' = judged
      BY <2>7 DEF Finish, Rest
    <3>2. Advance(at)' \in {Advance(at), watermark} BY <3>1 DEF Advance
    <3>3. 1..watermark \subseteq 1..Advance(at) BY <2>0 DEF Advance
    <3> QED BY <2>0, <2>a, <3>1, <3>2, <3>3 DEF Unjudged
  <2>8. CASE IngestorFails
    <3>1. Advance(at)' = watermark BY <2>8 DEF IngestorFails, Rest, Advance
    <3>2. 1..watermark \subseteq 1..Advance(at) BY <2>0 DEF Advance
    <3> QED BY <2>0, <2>8, <2>a, <3>1, <3>2 DEF IngestorFails, Rest, Unjudged
  <2>9. CASE UNCHANGED vars BY <2>9, <2>b DEF vars
  <2> QED BY <2>1, <2>2, <2>3, <2>4, <2>5, <2>6, <2>7, <2>8, <2>9
          DEF Next, IngestorStep
<1> QED BY <1>1, <1>2, TypeCorrect, PTL DEF Spec

\* The watermark passes at most one row without a stored verdict per fault: a verdict
\* the store does not take is lost for good, while a cycle that raises or dies in the
\* middle of its batch leaves the mark and a dormant one does not move it.
THEOREM FewAreSkipped == Spec => []FewSkipped
<1>1. TypeOK /\ WInv => FewSkipped
  <2> SUFFICES ASSUME TypeOK, WInv PROVE FewSkipped OBVIOUS
  <2> DEFINE x == Advance(at)
  <2>1. x \in Nat /\ watermark \in Nat /\ faults \in Nat /\ 1..watermark \subseteq 1..x
    BY BoundsAssumption DEF TypeOK, Advance
  <2>2. Cardinality((1..x) \ judged) <= faults BY DEF WInv, Unjudged
  <2> HIDE DEF x
  <2>3. Cardinality((1..watermark) \ judged) <= Cardinality((1..x) \ judged)
    BY <2>1, FewerRows
  <2>4. Cardinality((1..x) \ judged) \in Nat /\ Cardinality((1..watermark) \ judged) \in Nat
    BY <2>1, RowsCount
  <2> QED BY <2>1, <2>2, <2>3, <2>4 DEF FewSkipped
<1> QED BY <1>1, WInvHolds, TypeCorrect, PTL

\* What the query makes of it: as the watermark is no part of it, every cycle reads the
\* oldest rows, and no row past the first batch_limit ever gets a verdict.
THEOREM OnlyOldestAreJudged == Spec => [](judged \subseteq 1..Batch)
<1>1. WInv => judged \subseteq 1..Batch
  BY DEF WInv
<1> QED BY <1>1, WInvHolds, PTL

-----------------------------------------------------------------------------
\* The governor knows of the latch it opened: in its own copy of the state while a
\* cycle runs, in the store between two cycles.
LInv == faults = 0 /\ latch => IF gpc = "asleep" THEN saved.on ELSE mine.on

\* A fault is counted.
LEMMA FaultShows == ASSUME TypeOK PROVE \A kind : Fault(kind) => faults' # 0
  BY BoundsAssumption DEF TypeOK, Fault

\* The veto (the package's README, "freezes an already-active ingestor"): as long as
\* nothing was lost and nobody died, a governor that finds the veto leaves no latch
\* open, whichever cycle opened it.
THEOREM VetoShutsTheLatch ==
  Spec => [][gpc = "look" /\ gpc' # "look" /\ veto /\ faults' = 0 => ~latch']_vars
<1> DEFINE Shut == gpc = "look" /\ gpc' # "look" /\ veto /\ faults' = 0 => ~latch'
<1>1. Init => LInv
  BY DEF Init, LInv
<1>2. TypeOK /\ LInv /\ [Next]_vars => LInv' /\ Shut
  <2> SUFFICES ASSUME TypeOK, LInv, [Next]_vars PROVE LInv' /\ Shut OBVIOUS
  <2> USE DEF LInv
  <2>1. CASE Build
    BY <2>1 DEF Build, governor
  <2>2. CASE Operator
    BY <2>2 DEF Operator, governor
  <2>3. CASE Touch
    BY <2>3, FaultShows DEF Touch
  <2>4. CASE Wipe
    BY <2>4, FaultShows DEF Wipe
  <2>5. ASSUME NEW r \in 1..n, FileChanges(r) PROVE LInv' /\ Shut
    BY <2>5 DEF FileChanges, governor
  <2>6. ASSUME NEW r \in 1..n, Gate8Runs(r) PROVE LInv' /\ Shut
    BY <2>6 DEF Gate8Runs, governor
  <2>7. CASE Load
    BY <2>7, FaultShows DEF Load, NoFault
  <2>8. CASE Look
    <3>1. mine.on \in BOOLEAN
      BY DEF TypeOK, States
    <3>2. CASE veto
      <4>1. latch' = (latch /\ ~mine.on) /\ gpc = "look" /\ gpc' = "save" /\ faults' = faults
        BY <2>8, <3>2 DEF Look, Freeze
      <4> QED BY <3>1, <4>1
    <3>3. CASE ~veto
      BY <2>8, <3>3 DEF Look
    <3> QED BY <3>2, <3>3
  <2>9. CASE Assess
    <3>1. mine'.on = mine.on BY <2>9, AssessCounts, CountedFacts
    <3>2. faults' = faults \/ faults' # 0
      BY <2>9, FaultShows, Zenon DEF Assess, NoFault
    <3>3. latch' = latch /\ gpc = "assess" /\ gpc' = "decide"
      BY <2>9 DEF Assess
    <3> QED BY <3>1, <3>2, <3>3
  <2>10. CASE Decide
    BY <2>10 DEF Decide, TypeOK, States
  <2>11. CASE Save
    BY <2>11, FaultShows DEF Save, NoFault
  <2>12. CASE GovernorDies
    BY <2>12, FaultShows DEF GovernorDies
  <2>13. CASE Begin
    BY <2>13, FaultShows DEF Begin, NoFault, governor
  <2>14. CASE Ingest
    BY <2>14, FaultShows DEF Ingest, NoFault, governor
  <2>15. CASE Finish
    BY <2>15, FaultShows DEF Finish, NoFault, governor
  <2>16. CASE IngestorFails
    BY <2>16, FaultShows DEF IngestorFails, governor
  <2>17. CASE UNCHANGED vars
    BY <2>17 DEF vars, governor
  <2> QED BY <2>1, <2>2, <2>3, <2>4, <2>5, <2>6, <2>7, <2>8, <2>9, <2>10, <2>11,
             <2>12, <2>13, <2>14, <2>15, <2>16, <2>17
          DEF Next, GovernorStep, IngestorStep
<1>3. TypeOK /\ LInv /\ [Next]_vars => [Shut]_vars BY <1>2
<1>4. TypeOK /\ LInv /\ [Next]_vars => LInv' BY <1>2
<1> QED BY <1>1, <1>3, <1>4, TypeCorrect, PTL DEF Spec

=============================================================================
