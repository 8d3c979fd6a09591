----------------------- MODULE FollowupLedger_proofs -----------------------
(***************************************************************************)
(* Theorems about FollowupLedger, for every set of tasks and every value   *)
(* of the constants that LedgerAssumption allows.                          *)
(***************************************************************************)
EXTENDS FollowupLedger, TLAPS

\* What a transaction writes is a text, and never no text.
LEMMA NewTextIsText ==
  ASSUME TypeOK, NEW w \in Writer PROVE NewText(w) \in Edits /\ NewText(w) # Missing
BY LedgerAssumption DEF TypeOK, NewText, Edits, Missing

\* No text is the missing one.
LEMMA TextsArePresent == ASSUME NEW t \in Edits PROVE t # Missing
BY LedgerAssumption DEF Edits, Missing

\* Type correctness: the lock, the ledger, its parked copy and the tasks' control
\* state keep their types in every reachable state.
THEOREM TypeCorrect == Spec => []TypeOK
<1> USE LedgerAssumption DEF TypeOK
<1>1. Init => TypeOK
  BY DEF Init, Edits, PCs
<1>2. TypeOK /\ [Next]_vars => TypeOK'
  <2> SUFFICES ASSUME TypeOK, [Next]_vars PROVE TypeOK'
    OBVIOUS
  <2> USE DEF lockVars, fileVars, taskVars, endVars, hostVars, Goto, PCs, HoldPC
  <2>1. ASSUME NEW w \in Writer, Start(w) PROVE TypeOK'
    BY <2>1 DEF Start, Edits
  <2>2. ASSUME NEW w \in Writer, Create(w) PROVE TypeOK'
    BY <2>2 DEF Create
  <2>3. ASSUME NEW w \in Writer, Stamp(w) PROVE TypeOK'
    BY <2>3 DEF Stamp
  <2>4. ASSUME NEW w \in Writer, JudgeStale(w) PROVE TypeOK'
    BY <2>4 DEF JudgeStale
  <2>5. ASSUME NEW w \in Writer, Reclaim(w) PROVE TypeOK'
    BY <2>5 DEF Reclaim
  <2>6. ASSUME NEW w \in Writer, GiveUp(w) PROVE TypeOK'
    BY <2>6 DEF GiveUp
  <2>7. ASSUME NEW w \in Writer, ReadLedger(w) PROVE TypeOK'
    BY <2>7 DEF ReadLedger, Fail
  <2>8. ASSUME NEW w \in Writer, Mutate(w) PROVE TypeOK'
    BY <2>8 DEF Mutate, Fail, Succeed
  <2>9. ASSUME NEW w \in Writer, Check(w) PROVE TypeOK'
    BY <2>9 DEF Check, Fail
  <2>10. ASSUME NEW w \in Writer, Replace(w) PROVE TypeOK'
    BY <2>10, NewTextIsText DEF Replace, Succeed
  <2>11. ASSUME NEW w \in Writer, Park(w) PROVE TypeOK'
    BY <2>11 DEF Park, Fail
  <2>12. ASSUME NEW w \in Writer, Swap(w) PROVE TypeOK'
    BY <2>12, NewTextIsText DEF Swap, Succeed
  <2>13. ASSUME NEW w \in Writer, Restore(w) PROVE TypeOK'
    BY <2>13 DEF Restore, Fail
  <2>14. ASSUME NEW w \in Writer, Release(w) PROVE TypeOK'
    BY <2>14 DEF Release
  <2>15. ASSUME NEW w \in Writer, Crash(w) PROVE TypeOK'
    BY <2>15 DEF Crash
  <2>16. ASSUME NEW r \in Remote, RemoteEdit(r) PROVE TypeOK'
    BY <2>16 DEF RemoteEdit, Edits
  <2>17. ASSUME SyncOut PROVE TypeOK'
    BY <2>17 DEF SyncOut
  <2>18. ASSUME Deliver PROVE TypeOK'
    <3>1. Text \in SUBSET (Writer \cup Remote \cup {Nobody})
      BY DEF Text, Edits, Missing
    <3>2. QED
      BY <2>18, <3>1 DEF Deliver
  <2>19. ASSUME Tick PROVE TypeOK'
    BY <2>19 DEF Tick
  <2>20. CASE UNCHANGED vars
    BY <2>20 DEF vars
  <2>21. QED
    BY <2>1, <2>2, <2>3, <2>4, <2>5, <2>6, <2>7, <2>8, <2>9, <2>10, <2>11, <2>12, <2>13,
       <2>14, <2>15, <2>16, <2>17, <2>18, <2>19, <2>20
    DEF Next, TaskStep
<1>3. QED
  BY <1>1, <1>2, PTL DEF Spec

-----------------------------------------------------------------------------
(* The ledger's name.                                                      *)

NameInv ==
  /\ ledger = Missing => prev # Missing
  /\ AlwaysALedger

\* The strengthening holds without any assumption.
LEMMA NameInvHolds == Spec => []NameInv
<1> USE LedgerAssumption DEF NameInv, AlwaysALedger
<1>1. Init => NameInv
  BY TextsArePresent DEF Init, Edits
<1>2. TypeOK /\ NameInv /\ [Next]_vars => NameInv'
  <2> SUFFICES ASSUME TypeOK, NameInv, [Next]_vars PROVE NameInv'
    OBVIOUS
  <2> USE TextsArePresent, NewTextIsText
  <2> USE DEF TypeOK, lockVars, fileVars, taskVars, endVars, hostVars, Goto
  <2>1. ASSUME NEW w \in Writer, Start(w) PROVE NameInv'
    BY <2>1 DEF Start
  <2>2. ASSUME NEW w \in Writer, Create(w) PROVE NameInv'
    BY <2>2 DEF Create
  <2>3. ASSUME NEW w \in Writer, Stamp(w) PROVE NameInv'
    BY <2>3 DEF Stamp
  <2>4. ASSUME NEW w \in Writer, JudgeStale(w) PROVE NameInv'
    BY <2>4 DEF JudgeStale, Stale
  <2>5. ASSUME NEW w \in Writer, Reclaim(w) PROVE NameInv'
    BY <2>5 DEF Reclaim
  <2>6. ASSUME NEW w \in Writer, GiveUp(w) PROVE NameInv'
    BY <2>6 DEF GiveUp
  <2>7. ASSUME NEW w \in Writer, ReadLedger(w) PROVE NameInv'
    BY <2>7 DEF ReadLedger, Fail
  <2>8. ASSUME NEW w \in Writer, Mutate(w) PROVE NameInv'
    BY <2>8 DEF Mutate, Fail, Succeed
  <2>9. ASSUME NEW w \in Writer, Check(w) PROVE NameInv'
    BY <2>9 DEF Check, Fail
  <2>10. ASSUME NEW w \in Writer, Replace(w) PROVE NameInv'
    BY <2>10 DEF Replace, Succeed
  <2>11. ASSUME NEW w \in Writer, Park(w) PROVE NameInv'
    BY <2>11 DEF Park, Fail
  <2>12. ASSUME NEW w \in Writer, Swap(w) PROVE NameInv'
    BY <2>12 DEF Swap, Succeed
  <2>13. ASSUME NEW w \in Writer, Restore(w) PROVE NameInv'
    BY <2>13 DEF Restore, Fail
  <2>14. ASSUME NEW w \in Writer, Release(w) PROVE NameInv'
    BY <2>14 DEF Release
  <2>15. ASSUME NEW w \in Writer, Crash(w) PROVE NameInv'
    BY <2>15 DEF Crash
  <2>16. ASSUME NEW r \in Remote, RemoteEdit(r) PROVE NameInv'
    BY <2>16 DEF RemoteEdit
  <2>17. ASSUME SyncOut PROVE NameInv'
    BY <2>17 DEF SyncOut
  <2>18. ASSUME Deliver PROVE NameInv'
    BY <2>18 DEF Deliver
  <2>19. ASSUME Tick PROVE NameInv'
    BY <2>19 DEF Tick
  <2>20. CASE UNCHANGED vars
    BY <2>20 DEF vars
  <2>21. QED
    BY <2>1, <2>2, <2>3, <2>4, <2>5, <2>6, <2>7, <2>8, <2>9, <2>10, <2>11, <2>12, <2>13,
       <2>14, <2>15, <2>16, <2>17, <2>18, <2>19, <2>20
    DEF Next, TaskStep
<1>3. QED
  BY <1>1, <1>2, TypeCorrect, PTL DEF Spec

\* _replace_with_fallback: the ledger's name is free only between the two renames of
\* the fallback, or after a task was killed there or could not rename it back; also
\* where a lock was stolen and several tasks are in the fallback at once.
THEOREM LedgerStays == Spec => []AlwaysALedger
<1>1. NameInv => AlwaysALedger
  BY DEF NameInv
<1>2. QED
  BY <1>1, NameInvHolds, PTL

\* Whenever the ledger is not there, a text of it is beside it under the name of the
\* parked copy: no sequence of fallbacks, crashes and stolen locks loses both.
THEOREM CopyIsBeside == Spec => [](ledger = Missing => prev # Missing)
<1>1. NameInv => (ledger = Missing => prev # Missing)
  BY DEF NameInv
<1>2. QED
  BY <1>1, NameInvHolds, PTL

-----------------------------------------------------------------------------
(* A lock that is judged stale.                                            *)

FreshInv == \A w \in Writer : Holding(w) /\ owner = w /\ stamp # -1 => now - stamp <= TTL

\* The strengthening holds where no task that lives keeps the lock longer than its
\* time to live.
LEMMA FreshInvHolds == ASSUME Prompt PROVE Spec => []FreshInv
<1> USE LedgerAssumption DEF FreshInv, Holding
<1>1. Init => FreshInv
  BY DEF Init, HoldPC
<1>2. TypeOK /\ FreshInv /\ [Next]_vars => FreshInv'
  <2> SUFFICES ASSUME TypeOK, FreshInv, [Next]_vars PROVE FreshInv'
    OBVIOUS
  <2> USE DEF TypeOK, lockVars, fileVars, taskVars, endVars, hostVars, Goto, HoldPC
  <2>1. ASSUME NEW w \in Writer, Start(w) PROVE FreshInv'
    BY <2>1 DEF Start
  <2>2. ASSUME NEW w \in Writer, Create(w) PROVE FreshInv'
    BY <2>2 DEF Create
  <2>3. ASSUME NEW w \in Writer, Stamp(w) PROVE FreshInv'
    BY <2>3 DEF Stamp
  <2>4. ASSUME NEW w \in Writer, JudgeStale(w) PROVE FreshInv'
    BY <2>4 DEF JudgeStale, Stale
  <2>5. ASSUME NEW w \in Writer, Reclaim(w) PROVE FreshInv'
    BY <2>5 DEF Reclaim
  <2>6. ASSUME NEW w \in Writer, GiveUp(w) PROVE FreshInv'
    BY <2>6 DEF GiveUp
  <2>7. ASSUME NEW w \in Writer, ReadLedger(w) PROVE FreshInv'
    BY <2>7 DEF ReadLedger, Fail
  <2>8. ASSUME NEW w \in Writer, Mutate(w) PROVE FreshInv'
    BY <2>8 DEF Mutate, Fail, Succeed
  <2>9. ASSUME NEW w \in Writer, Check(w) PROVE FreshInv'
    BY <2>9 DEF Check, Fail
  <2>10. ASSUME NEW w \in Writer, Replace(w) PROVE FreshInv'
    BY <2>10 DEF Replace, Succeed
  <2>11. ASSUME NEW w \in Writer, Park(w) PROVE FreshInv'
    BY <2>11 DEF Park, Fail
  <2>12. ASSUME NEW w \in Writer, Swap(w) PROVE FreshInv'
    BY <2>12 DEF Swap, Succeed
  <2>13. ASSUME NEW w \in Writer, Restore(w) PROVE FreshInv'
    BY <2>13 DEF Restore, Fail
  <2>14. ASSUME NEW w \in Writer, Release(w) PROVE FreshInv'
    BY <2>14 DEF Release
  <2>15. ASSUME NEW w \in Writer, Crash(w) PROVE FreshInv'
    BY <2>15 DEF Crash
  <2>16. ASSUME NEW r \in Remote, RemoteEdit(r) PROVE FreshInv'
    BY <2>16 DEF RemoteEdit
  <2>17. ASSUME SyncOut PROVE FreshInv'
    BY <2>17 DEF SyncOut
  <2>18. ASSUME Deliver PROVE FreshInv'
    BY <2>18 DEF Deliver
  <2>19. ASSUME Tick PROVE FreshInv'
    BY <2>19 DEF Tick
  <2>20. CASE UNCHANGED vars
    BY <2>20 DEF vars
  <2>21. QED
    BY <2>1, <2>2, <2>3, <2>4, <2>5, <2>6, <2>7, <2>8, <2>9, <2>10, <2>11, <2>12, <2>13,
       <2>14, <2>15, <2>16, <2>17, <2>18, <2>19, <2>20
    DEF Next, TaskStep
<1>3. QED
  BY <1>1, <1>2, TypeCorrect, PTL DEF Spec

\* acquire takes over the lock of the dead only: where no task that lives keeps the
\* lock longer than its time to live, a lock that is stale belongs to a task that
\* is not inside, for any number of tasks, runs and crashes.  What goes wrong in
\* a takeover goes wrong between this judgement and the unlink.
THEOREM OnlyTheDeadAreStale ==
  ASSUME Prompt PROVE Spec => [](Stale /\ owner \in Writer => ~Holding(owner))
<1>1. TypeOK /\ FreshInv => (Stale /\ owner \in Writer => ~Holding(owner))
  BY LedgerAssumption DEF FreshInv, Stale, TypeOK
<1>2. QED
  BY <1>1, FreshInvHolds, TypeCorrect, PTL

-----------------------------------------------------------------------------
(* Mutual exclusion.  A lock file belongs to the task that is inside, or to *)
(* one that died there; whoever is about to unlink it is the last that runs. *)

\* No task keeps the lock longer than its time to live, and either none is killed or
\* a dead holder leaves a single task behind it.  With two left behind, both may
\* judge the lock stale, and the second unlink takes the lock of the first.
LoneTakeover ==
  /\ Prompt
  /\ \/ MaxCrashes = 0
     \/ MaxRuns <= 1 /\ \A u, v, w \in Writer : u = v \/ v = w \/ u = w

Spent(w) == pc[w] = "idle" /\ runs[w] >= MaxRuns

LockInv ==
  /\ \A w \in Writer : pc[w] # "idle" => runs[w] >= 1
  /\ \A w \in Writer : pc[w] = "unlink" => \A v \in Writer \ {w} : Spent(v)
  /\ \A w \in Writer : Holding(w) => owner = w
  /\ owner \in Writer => Holding(owner) \/ (Spent(owner) /\ MaxCrashes > 0)
  /\ stamp # -1 => owner \in Writer /\ (Holding(owner) => now - stamp <= TTL)

\* The strengthening holds where a takeover is a lone one.
LEMMA LockInvHolds == ASSUME LoneTakeover PROVE Spec => []LockInv
<1> USE LedgerAssumption DEF LockInv, Holding, Spent, LoneTakeover
<1>1. Init => LockInv
  BY DEF Init, HoldPC
<1>2. TypeOK /\ LockInv /\ [Next]_vars => LockInv'
  <2> SUFFICES ASSUME TypeOK, LockInv, [Next]_vars PROVE LockInv'
    OBVIOUS
  <2> USE DEF TypeOK, lockVars, fileVars, taskVars, endVars, hostVars, Goto, HoldPC
  <2>1. ASSUME NEW w \in Writer, Start(w) PROVE LockInv'
    BY <2>1 DEF Start
  <2>2. ASSUME NEW w \in Writer, Create(w) PROVE LockInv'
    BY <2>2 DEF Create
  <2>3. ASSUME NEW w \in Writer, Stamp(w) PROVE LockInv'
    BY <2>3 DEF Stamp
  <2>4. ASSUME NEW w \in Writer, JudgeStale(w) PROVE LockInv'
    BY <2>4 DEF JudgeStale, Stale
  <2>5. ASSUME NEW w \in Writer, Reclaim(w) PROVE LockInv'
    BY <2>5 DEF Reclaim
  <2>6. ASSUME NEW w \in Writer, GiveUp(w) PROVE LockInv'
    BY <2>6 DEF GiveUp
  <2>7. ASSUME NEW w \in Writer, ReadLedger(w) PROVE LockInv'
    BY <2>7 DEF ReadLedger, Fail
  <2>8. ASSUME NEW w \in Writer, Mutate(w) PROVE LockInv'
    BY <2>8 DEF Mutate, Fail, Succeed
  <2>9. ASSUME NEW w \in Writer, Check(w) PROVE LockInv'
    BY <2>9 DEF Check, Fail
  <2>10. ASSUME NEW w \in Writer, Replace(w) PROVE LockInv'
    BY <2>10 DEF Replace, Succeed
  <2>11. ASSUME NEW w \in Writer, Park(w) PROVE LockInv'
    BY <2>11 DEF Park, Fail
  <2>12. ASSUME NEW w \in Writer, Swap(w) PROVE LockInv'
    BY <2>12 DEF Swap, Succeed
  <2>13. ASSUME NEW w \in Writer, Restore(w) PROVE LockInv'
    BY <2>13 DEF Restore, Fail
  <2>14. ASSUME NEW w \in Writer, Release(w) PROVE LockInv'
    BY <2>14 DEF Release
  <2>15. ASSUME NEW w \in Writer, Crash(w) PROVE LockInv'
    BY <2>15 DEF Crash
  <2>16. ASSUME NEW r \in Remote, RemoteEdit(r) PROVE LockInv'
    BY <2>16 DEF RemoteEdit
  <2>17. ASSUME SyncOut PROVE LockInv'
    BY <2>17 DEF SyncOut
  <2>18. ASSUME Deliver PROVE LockInv'
    BY <2>18 DEF Deliver
  <2>19. ASSUME Tick PROVE LockInv'
    BY <2>19 DEF Tick
  <2>20. CASE UNCHANGED vars
    BY <2>20 DEF vars
  <2>21. QED
    BY <2>1, <2>2, <2>3, <2>4, <2>5, <2>6, <2>7, <2>8, <2>9, <2>10, <2>11, <2>12, <2>13,
       <2>14, <2>15, <2>16, <2>17, <2>18, <2>19, <2>20
    DEF Next, TaskStep
<1>3. QED
  BY <1>1, <1>2, TypeCorrect, PTL DEF Spec

\* Two tasks are never inside a transaction at once: whatever their number, as long
\* as none dies and none is slower than the time to live; and of two tasks also when
\* one dies inside and the other takes its lock over.
THEOREM MutualExclusion == ASSUME LoneTakeover PROVE Spec => []OneHolder
<1>1. LockInv => OneHolder
  BY DEF LockInv, OneHolder
<1>2. QED
  BY <1>1, LockInvHolds, PTL

-----------------------------------------------------------------------------
(* The ledger.  Under the lock, what was committed is in the text that the  *)
(* task inside has read, and through the two renames in the parked copy;    *)
(* but for what a version of the other host took out.                       *)

TextInv ==
  /\ NoneVanishes
  /\ ledger = Missing => prev # Missing
  /\ \A w \in Writer : pc[w] \in {"swap", "restore"} =>
       prev # Missing /\ committed \ dropped \subseteq prev
  /\ \A w \in Writer : pc[w] = "mutate" =>
       ledger # Missing /\ seen[w] \subseteq ledger \cup dropped
  /\ \A w \in Writer : pc[w] \in {"check", "replace", "park", "swap"} =>
       (w \in Planner => plan[w] = seen[w])
  /\ \A w \in Writer : pc[w] \in {"replace", "park", "swap"} =>
       committed \ dropped \subseteq seen[w]

\* The strengthening holds where a takeover is a lone one.
LEMMA TextInvHolds == ASSUME LoneTakeover PROVE Spec => []TextInv
<1> USE LedgerAssumption DEF TextInv, NoneVanishes, Text
<1>1. Init => TextInv
  BY TextsArePresent DEF Init, Edits
<1>2. TypeOK /\ LockInv /\ TextInv /\ [Next]_vars => TextInv'
  <2> SUFFICES ASSUME TypeOK, LockInv, TextInv, [Next]_vars PROVE TextInv'
    OBVIOUS
  <2> USE TextsArePresent
  <2> USE DEF TypeOK, LockInv, Holding, lockVars, fileVars, taskVars, endVars, hostVars, Goto,
              HoldPC
  <2>1. ASSUME NEW w \in Writer, Start(w) PROVE TextInv'
    BY <2>1 DEF Start
  <2>2. ASSUME NEW w \in Writer, Create(w) PROVE TextInv'
    BY <2>2 DEF Create
  <2>3. ASSUME NEW w \in Writer, Stamp(w) PROVE TextInv'
    BY <2>3 DEF Stamp
  <2>4. ASSUME NEW w \in Writer, JudgeStale(w) PROVE TextInv'
    BY <2>4 DEF JudgeStale
  <2>5. ASSUME NEW w \in Writer, Reclaim(w) PROVE TextInv'
    BY <2>5 DEF Reclaim
  <2>6. ASSUME NEW w \in Writer, GiveUp(w) PROVE TextInv'
    BY <2>6 DEF GiveUp
  <2>7. ASSUME NEW w \in Writer, ReadLedger(w) PROVE TextInv'
    BY <2>7 DEF ReadLedger, Fail
  <2>8. ASSUME NEW w \in Writer, Mutate(w) PROVE TextInv'
    <3>1. ledger # Missing /\ \A v \in Writer : Holding(v) => v = w
      BY <2>8 DEF Mutate
    <3>2. NewText(w) = seen[w] => w \in seen[w]
      BY DEF NewText
    <3>3. CASE Succeed(w)
      BY <2>8, <3>1, <3>2, <3>3 DEF Mutate, Succeed, Fail
    <3>4. CASE ~Succeed(w)
      BY <2>8, <3>1, <3>4 DEF Mutate, Fail
    <3>5. QED
      BY <3>3, <3>4
  <2>9. ASSUME NEW w \in Writer, Check(w) PROVE TextInv'
    BY <2>9 DEF Check, Fail
  <2>10. ASSUME NEW w \in Writer, Replace(w) PROVE TextInv'
    <3>1. NewText(w) \in Edits /\ NewText(w) # Missing /\ w \in NewText(w)
      BY NewTextIsText DEF NewText
    <3>2. committed \ dropped \subseteq NewText(w)
      BY <2>10 DEF Replace, NewText
    <3>3. QED
      BY <2>10, <3>1, <3>2 DEF Replace, Succeed
  <2>11. ASSUME NEW w \in Writer, Park(w) PROVE TextInv'
    BY <2>11 DEF Park, Fail
  <2>12. ASSUME NEW w \in Writer, Swap(w) PROVE TextInv'
    <3>1. NewText(w) \in Edits /\ NewText(w) # Missing /\ w \in NewText(w)
      BY NewTextIsText DEF NewText
    <3>2. committed \ dropped \subseteq NewText(w)
      BY <2>12 DEF Swap, NewText
    <3>3. QED
      BY <2>12, <3>1, <3>2 DEF Swap, Succeed
  <2>13. ASSUME NEW w \in Writer, Restore(w) PROVE TextInv'
    BY <2>13 DEF Restore, Fail
  <2>14. ASSUME NEW w \in Writer, Release(w) PROVE TextInv'
    BY <2>14 DEF Release
  <2>15. ASSUME NEW w \in Writer, Crash(w) PROVE TextInv'
    BY <2>15 DEF Crash
  <2>16. ASSUME NEW r \in Remote, RemoteEdit(r) PROVE TextInv'
    BY <2>16 DEF RemoteEdit
  <2>17. ASSUME SyncOut PROVE TextInv'
    BY <2>17 DEF SyncOut
  <2>18. ASSUME Deliver PROVE TextInv'
    <3>1. ledger' \in Edits /\ ledger' # Missing /\ Text' = theirs
      BY <2>18 DEF Deliver
    <3>2. dropped' = dropped \cup (Text \ theirs) /\ ledger' = theirs
      BY <2>18 DEF Deliver
    <3>3. committed \ dropped' \subseteq theirs
      BY <3>2 DEF NoneVanishes
    <3>4. ASSUME NEW w \in Writer, pc[w] = "mutate" PROVE seen[w] \subseteq ledger' \cup dropped'
      BY <3>2, <3>4 DEF Text
    <3>5. UNCHANGED <<pc, seen, plan, committed, prev>>
      BY <2>18 DEF Deliver
    <3> HIDE DEF Text
    <3>6. QED
      BY <3>1, <3>2, <3>3, <3>4, <3>5
  <2>19. ASSUME Tick PROVE TextInv'
    BY <2>19 DEF Tick
  <2>20. CASE UNCHANGED vars
    BY <2>20 DEF vars
  <2>21. QED
    BY <2>1, <2>2, <2>3, <2>4, <2>5, <2>6, <2>7, <2>8, <2>9, <2>10, <2>11, <2>12, <2>13,
       <2>14, <2>15, <2>16, <2>17, <2>18, <2>19, <2>20
    DEF Next, TaskStep
<1>3. QED
  BY <1>1, <1>2, TypeCorrect, LockInvHolds, PTL DEF Spec

\* What a transaction committed stays in the ledger, or in the copy beside it while
\* there is none, unless a version of the other host dropped it: no update is lost
\* between tasks of one host, although that host's versions, older ones too, replace
\* the ledger between any two of their steps.
THEOREM NoUpdateIsLost == ASSUME LoneTakeover PROVE Spec => []NoneVanishes
<1>1. TextInv => NoneVanishes
  BY DEF TextInv
<1>2. QED
  BY <1>1, TextInvHolds, PTL

-----------------------------------------------------------------------------
(* An abort wrote nothing.  No text, on disk or in a task's memory, holds   *)
(* the edit of a task that has not committed.                               *)

OnlyCommitted(t) == t \cap Writer \subseteq committed

AbortInv ==
  /\ OnlyCommitted(ledger) /\ OnlyCommitted(prev) /\ OnlyCommitted(theirs)
  /\ \A w \in Writer : OnlyCommitted(plan[w]) /\ OnlyCommitted(seen[w])

\* The strengthening holds without any assumption.
LEMMA AbortInvHolds == Spec => []AbortInv
<1> USE LedgerAssumption DEF AbortInv, OnlyCommitted
<1>1. Init => AbortInv
  BY DEF Init, Missing
<1>2. TypeOK /\ AbortInv /\ [Next]_vars => AbortInv'
  <2> SUFFICES ASSUME TypeOK, AbortInv, [Next]_vars PROVE AbortInv'
    OBVIOUS
  <2> USE DEF TypeOK, Missing, lockVars, fileVars, taskVars, endVars, hostVars
  <2>1. ASSUME NEW w \in Writer, Start(w) PROVE AbortInv'
    BY <2>1 DEF Start
  <2>2. ASSUME NEW w \in Writer, Create(w) PROVE AbortInv'
    BY <2>2 DEF Create
  <2>3. ASSUME NEW w \in Writer, Stamp(w) PROVE AbortInv'
    BY <2>3 DEF Stamp
  <2>4. ASSUME NEW w \in Writer, JudgeStale(w) PROVE AbortInv'
    BY <2>4 DEF JudgeStale
  <2>5. ASSUME NEW w \in Writer, Reclaim(w) PROVE AbortInv'
    BY <2>5 DEF Reclaim
  <2>6. ASSUME NEW w \in Writer, GiveUp(w) PROVE AbortInv'
    BY <2>6 DEF GiveUp
  <2>7. ASSUME NEW w \in Writer, ReadLedger(w) PROVE AbortInv'
    BY <2>7 DEF ReadLedger, Fail
  <2>8. ASSUME NEW w \in Writer, Mutate(w) PROVE AbortInv'
    BY <2>8 DEF Mutate, Fail, Succeed
  <2>9. ASSUME NEW w \in Writer, Check(w) PROVE AbortInv'
    BY <2>9 DEF Check, Fail
  <2>10. ASSUME NEW w \in Writer, Replace(w) PROVE AbortInv'
    BY <2>10 DEF Replace, Succeed, NewText
  <2>11. ASSUME NEW w \in Writer, Park(w) PROVE AbortInv'
    BY <2>11 DEF Park, Fail
  <2>12. ASSUME NEW w \in Writer, Swap(w) PROVE AbortInv'
    BY <2>12 DEF Swap, Succeed, NewText
  <2>13. ASSUME NEW w \in Writer, Restore(w) PROVE AbortInv'
    BY <2>13 DEF Restore, Fail
  <2>14. ASSUME NEW w \in Writer, Release(w) PROVE AbortInv'
    BY <2>14 DEF Release
  <2>15. ASSUME NEW w \in Writer, Crash(w) PROVE AbortInv'
    BY <2>15 DEF Crash
  <2>16. ASSUME NEW r \in Remote, RemoteEdit(r) PROVE AbortInv'
    BY <2>16 DEF RemoteEdit
  <2>17. ASSUME SyncOut PROVE AbortInv'
    BY <2>17 DEF SyncOut
  <2>18. ASSUME Deliver PROVE AbortInv'
    BY <2>18 DEF Deliver
  <2>19. ASSUME Tick PROVE AbortInv'
    BY <2>19 DEF Tick
  <2>20. CASE UNCHANGED vars
    BY <2>20 DEF vars
  <2>21. QED
    BY <2>1, <2>2, <2>3, <2>4, <2>5, <2>6, <2>7, <2>8, <2>9, <2>10, <2>11, <2>12, <2>13,
       <2>14, <2>15, <2>16, <2>17, <2>18, <2>19, <2>20
    DEF Next, TaskStep
<1>3. QED
  BY <1>1, <1>2, TypeCorrect, PTL DEF Spec

\* A run that ends busy, changed or failed has left nothing in the ledger, for
\* any number of tasks, crashes and stolen locks.
THEOREM AbortsWriteNothing == Spec => []AbortWroteNothing
<1>1. TypeOK /\ AbortInv => AbortWroteNothing
  BY DEF TypeOK, AbortInv, OnlyCommitted, AbortWroteNothing
<1>2. QED
  BY <1>1, TypeCorrect, AbortInvHolds, PTL
=============================================================================
