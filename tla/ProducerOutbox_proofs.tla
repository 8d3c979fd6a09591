---------------------- MODULE ProducerOutbox_proofs ----------------------
(***************************************************************************)
(* Theorems about ProducerOutbox, for every set of files and builds and    *)
(* every value of the constants that OutboxAssumption allows.              *)
(***************************************************************************)
EXTENDS ProducerOutbox, FiniteSetTheorems, TLAPS

Attempting == {"attempt", "decide", "publish", "copy", "remove", "save"}

\* TypeOK, and what each control state knows.
TypeInv ==
  /\ TypeOK
  /\ \A p \in Proc : pc[p] \in Attempting => file[p] \in File
  /\ \A p \in Proc : pc[p] = "publish" => content[p] \in Build
  /\ pc[Builder] \in {"written", "gated", "enqueue"} => making \in Build

Stamps == Build \cup {Historic}

\* What the updates of an outbox keep of its type.
LEMMA BoxUpdates ==
  ASSUME NEW m \in Boxes, NEW f \in File, NEW n \in 0..MaxDay
  PROVE  /\ [m EXCEPT !.published[f] = n] \in Boxes
         /\ \A st \in Statuses : [m EXCEPT !.entries[f].status = st] \in Boxes
         /\ \A e \in Entries, o \in SUBSET (File \X File) :
              [m EXCEPT !.entries[f] = e, !.older = o] \in Boxes
<1> USE DEF Boxes
<1>1. [m EXCEPT !.published[f] = n] \in Boxes
  OBVIOUS
<1>2. ASSUME NEW st \in Statuses PROVE [m EXCEPT !.entries[f].status = st] \in Boxes
  <2> DEFINE e == [m.entries[f] EXCEPT !.status = st]
  <2>1. e \in Entries
    BY DEF Entries
  <2>2. [m EXCEPT !.entries[f].status = st] = [m EXCEPT !.entries[f] = e]
    OBVIOUS
  <2> HIDE DEF e
  <2>3. QED
    BY <2>1, <2>2
<1>3. ASSUME NEW e \in Entries, NEW o \in SUBSET (File \X File)
      PROVE [m EXCEPT !.entries[f] = e, !.older = o] \in Boxes
  OBVIOUS
<1>4. QED
  BY <1>1, <1>2, <1>3

\* An empty outbox is an outbox.
LEMMA EmptyBox == Empty \in Boxes
BY OutboxAssumption DEF Empty, Boxes, Entries, NoEntry, Statuses

\* An enqueued entry is an entry.
LEMMA EnqueueKeepsType ==
  ASSUME outbox \in Boxes, day \in 0..MaxDay, NEW p, NEW f \in File,
         NEW source \in {"producer", "backfill"}, NEW s \in Stamps, Enqueue(p, f, source, s)
  PROVE  outbox' \in Boxes
<1> DEFINE e == [status |-> "pending", source |-> source, stamp |-> s, day |-> day]
           rest == IF IsPending(f) /\ outbox.entries[f].source = source THEN outbox.older
                   ELSE {x \in outbox.older : f \notin {x[1], x[2]}} \cup ((File \ {f}) \X {f})
<1>1. e \in Entries
  BY DEF Entries, Statuses, Stamps
<1>2. rest \in SUBSET (File \X File)
  BY DEF Boxes
<1>3. outbox' = [outbox EXCEPT !.entries[f] = e, !.older = rest]
  BY DEF Enqueue
<1> HIDE DEF e, rest
<1>4. QED
  BY <1>1, <1>2, <1>3, BoxUpdates

\* A push leaves one request with the new bytes, and takes the place of nothing
\* but another of its branch.
LEMMA PushAdds ==
  ASSUME opened \in Nat, prs \subseteq Requests, open \subseteq prs, NEW p, Push(p)
  PROVE  /\ opened' \in Nat
         /\ \E n \in Nat : LET new == PullRequest(p, n)
                          IN  /\ new \in prs' /\ prs' \subseteq prs \cup {new}
                              /\ new \in open' /\ open' \subseteq open \cup {new}
                              /\ \A q \in prs : q \in prs' \/ SameBranch(q, new)
                              /\ open' \subseteq prs'
<1> USE DEF SameBranch, PullRequest
<1>1. CASE Standing(p) = {} /\ opened' = opened + 1
           /\ prs' = prs \cup {PullRequest(p, opened + 1)}
           /\ open' = open \cup {PullRequest(p, opened + 1)}
  <2>1. opened + 1 \in Nat
    OBVIOUS
  <2>2. QED
    BY <1>1, <2>1
<1>2. ASSUME NEW q \in Standing(p), UNCHANGED opened,
             prs' = (prs \ {q}) \cup {PullRequest(p, q.number)},
             open' = (open \ {q}) \cup {PullRequest(p, q.number)}
      PROVE  /\ opened' \in Nat
             /\ \E n \in Nat : LET new == PullRequest(p, n)
                              IN  /\ new \in prs' /\ prs' \subseteq prs \cup {new}
                                  /\ new \in open' /\ open' \subseteq open \cup {new}
                                  /\ \A x \in prs : x \in prs' \/ SameBranch(x, new)
                                  /\ open' \subseteq prs'
  <2>1. q \in open /\ SameBranch(q, PullRequest(p, q.number)) /\ q.number \in Nat
    BY DEF Standing, Requests
  <2> DEFINE new == PullRequest(p, q.number)
  <2>2. /\ new \in prs' /\ prs' \subseteq prs \cup {new}
        /\ new \in open' /\ open' \subseteq open \cup {new}
        /\ open' \subseteq prs'
    BY <1>2
  <2>3. \A x \in prs : x \in prs' \/ SameBranch(x, new)
    BY <1>2, <2>1
  <2>4. QED
    BY <1>2, <2>1, <2>2, <2>3
<1>3. QED
  BY <1>1, <1>2 DEF Push

\* The strengthened type invariant holds: one step per action.
LEMMA TypeInvHolds == Spec => []TypeInv
<1> USE OutboxAssumption DEF TypeInv, Proc, PCs, Attempting, Results
<1>1. Init => TypeInv
  BY EmptyBox DEF Init, TypeOK
<1>2. TypeInv /\ [Next]_vars => TypeInv'
  <2> SUFFICES ASSUME TypeInv, [Next]_vars PROVE TypeInv'
    OBVIOUS
  <2> USE DEF treeVars, procVars, loopVars, buildVars, prVars, keepVars, envVars, TypeOK
  <2>1. ASSUME NEW p \in Proc, BeginAttempt(p) PROVE TypeInv'
    BY <2>1 DEF BeginAttempt, Boxes, Entries, Statuses, Empty, NoEntry, Finish, After
  <2>2. ASSUME NEW p \in Proc, Decide(p) PROVE TypeInv'
    <3>1. Entry(p) \in Entries
      BY <2>2 DEF Decide, Entry, Boxes
    <3>2. parked' \subseteq Build \cup {Historic}
      BY <2>2, <3>1 DEF Decide, Go, Entries
    <3>3. content[p] \in Build \cup {NoBuild} /\ file[p] \in File
      BY <2>2 DEF Decide
    <3>4. Budget(p) \in [day : 0..MaxDay, count : Nat]
      BY DEF Budget, Boxes
    <3>5. [mem[p] EXCEPT !.budget = Budget(p)] \in Boxes
      BY <3>4 DEF Boxes
    <3>6. mem' \in [Proc -> Boxes]
      BY <2>2, <3>5 DEF Decide
    <3>7. QED
      BY <2>2, <3>2, <3>3, <3>6 DEF Decide, Go
  <2>3. ASSUME NEW p \in Proc, PublishOpens(p) PROVE TypeInv'
    <3>1. Entry(p) \in Entries /\ file[p] \in File /\ content[p] \in Build
      BY <2>3 DEF PublishOpens, Publishable, Entry, Boxes
    <3>2. Published(p, mem[p]) \in Boxes /\ day \in 0..MaxDay
      BY <3>1, BoxUpdates DEF Published, Entries
    <3>3. Counted(Published(p, mem[p])) \in Boxes
      BY <3>2 DEF Counted, Boxes
    <3>4. \A n \in Nat : PullRequest(p, n) \in Requests
      BY <3>1, <3>2 DEF PullRequest, Requests, Entries, Boxes
    <3>5. mem' \in [Proc -> Boxes]
      BY <2>3, <3>3 DEF PublishOpens
    <3>6. prs' \subseteq Requests /\ open' \subseteq prs' /\ opened' \in Nat
      BY <2>3, <3>4, PushAdds DEF PublishOpens
    <3>7. QED
      BY <2>3, <3>1, <3>5, <3>6 DEF PublishOpens, Go
  <2>4. ASSUME NEW p \in Proc, PublishNoop(p) PROVE TypeInv'
    <3>1. Entry(p) \in Entries /\ file[p] \in File
      BY <2>4 DEF PublishNoop, Publishable, Entry, Boxes
    <3>2. Published(p, mem[p]) \in Boxes
      BY <3>1, BoxUpdates DEF Published, Entries
    <3>3. mem' \in [Proc -> Boxes]
      BY <2>4, <3>2 DEF PublishNoop
    <3>4. QED
      BY <2>4, <3>1, <3>3 DEF PublishNoop, Publishable, Go
  <2>5. ASSUME NEW p \in Proc, PublishPermanent(p) PROVE TypeInv'
    BY <2>5 DEF PublishPermanent, Go
  <2>6. ASSUME NEW p \in Proc, PublishTransient(p) PROVE TypeInv'
    <3>1. Entry(p) \in Entries /\ file[p] \in File /\ content[p] \in Build
      BY <2>6 DEF PublishTransient, Entry, Boxes
    <3>2. \A n \in Nat : PullRequest(p, n) \in Requests
      BY <3>1 DEF PullRequest, Requests, Entries, Boxes
    <3>3. prs' \subseteq Requests /\ open' \subseteq prs' /\ opened' \in Nat
      BY <2>6, <3>2, PushAdds DEF PublishTransient
    <3>4. QED
      BY <2>6, <3>3 DEF PublishTransient, Go
  <2>7. ASSUME NEW p \in Proc, CopyAside(p) PROVE TypeInv'
    BY <2>7 DEF CopyAside
  <2>8. ASSUME NEW p \in Proc, RemoveCopy(p) PROVE TypeInv'
    BY <2>8 DEF RemoveCopy
  <2>9. ASSUME NEW p \in Proc, SaveOutbox(p) PROVE TypeInv'
    <3>1. file[p] \in File /\ mem[p] \in Boxes
      BY <2>9 DEF SaveOutbox
    <3>2. outbox' \in Boxes
      <4>1. CASE result[p] \in Statuses
        BY <2>9, <3>1, <4>1, BoxUpdates DEF SaveOutbox
      <4>2. CASE result[p] \notin Statuses
        BY <2>9, <3>1, <4>2 DEF SaveOutbox
      <4>3. QED
        BY <4>1, <4>2
    <3>3. Empty \in Boxes
      BY EmptyBox
    <3>4. mem' \in [Proc -> Boxes]
      BY <2>9, <3>3 DEF SaveOutbox, Finish
    <3>5. pc' \in [Proc -> PCs] /\ pc'[p] \in {"idle", "census", "loop"}
      BY <2>9 DEF SaveOutbox, Finish, After
    <3>6. QED
      BY <2>9, <3>2, <3>4, <3>5 DEF SaveOutbox, Finish
  <2>10. ASSUME NEW p \in Proc, Crash(p) PROVE TypeInv'
    BY <2>10 DEF Crash, Empty, NoEntry, Boxes, Entries, Statuses
  <2>11. ASSUME GateRejects PROVE TypeInv'
    BY <2>11 DEF GateRejects, BuilderMoves
  <2>12. ASSUME GatePasses PROVE TypeInv'
    BY <2>12 DEF GatePasses, BuilderMoves
  <2>13. ASSUME FindBuild PROVE TypeInv'
    BY <2>13 DEF FindBuild, BuilderMoves
  <2>14. ASSUME CommitBuild PROVE TypeInv'
    <3>1. FileOf[making] \in File /\ making \in Stamps /\ day \in 0..MaxDay
      BY <2>14 DEF CommitBuild, Stamps
    <3>2. Enqueue(Builder, FileOf[making], "producer", making)
      BY <2>14 DEF CommitBuild
    <3>3. outbox' \in Boxes
      BY <3>1, <3>2, EnqueueKeepsType
    <3>4. QED
      BY <2>14, <3>1, <3>3 DEF CommitBuild, Enqueue
  <2>15. ASSUME BeginDrain PROVE TypeInv'
    BY <2>15 DEF BeginDrain, Boxes
  <2>16. ASSUME EndDrain PROVE TypeInv'
    BY <2>16 DEF EndDrain
  <2>17. ASSUME Census PROVE TypeInv'
    BY <2>17 DEF Census
  <2>18. ASSUME EndBackfill PROVE TypeInv'
    BY <2>18 DEF EndBackfill
  <2>19. ASSUME EvictHeld PROVE TypeInv'
    <3> DEFINE held == {f \in File : outbox.entries[f].status = "held"}
    <3>1. outbox' \in Boxes
      <4>1. [f \in File |-> IF f \in held THEN [outbox.entries[f] EXCEPT !.status = "refused"]
                           ELSE outbox.entries[f]] \in [File -> Entries]
        <5>1. ASSUME NEW e \in Entries PROVE [e EXCEPT !.status = "refused"] \in Entries
          BY DEF Entries, Statuses
        <5>2. outbox.entries \in [File -> Entries]
          BY DEF Boxes
        <5>3. QED
          BY <5>1, <5>2
      <4>2. outbox' = [outbox EXCEPT !.entries = [f \in File |->
                         IF f \in held THEN [outbox.entries[f] EXCEPT !.status = "refused"]
                         ELSE outbox.entries[f]]]
        BY <2>19 DEF EvictHeld, Boxes
      <4> HIDE DEF held
      <4>3. QED
        BY <4>1, <4>2 DEF Boxes
    <3>2. disk' \in [File -> Build \cup {NoBuild}] /\ kept' \subseteq Build
      BY <2>19 DEF EvictHeld
    <3>3. QED
      BY <2>19, <3>1, <3>2 DEF EvictHeld
  <2>20. ASSUME Deploy PROVE TypeInv'
    BY <2>20 DEF Deploy
  <2>21. ASSUME NextDay PROVE TypeInv'
    BY <2>21 DEF NextDay
  <2>22. ASSUME Toggle PROVE TypeInv'
    BY <2>22 DEF Toggle
  <2>23. ASSUME NEW f \in File, DrainNext(f) PROVE TypeInv'
    BY <2>23 DEF DrainNext
  <2>24. ASSUME NEW f \in File, BackfillNext(f) PROVE TypeInv'
    <3>1. Historic \in Stamps /\ day \in 0..MaxDay
      BY DEF Stamps
    <3>2. Enqueue(Publisher, f, "backfill", Historic)
      BY <2>24 DEF BackfillNext
    <3>3. outbox' \in Boxes
      BY <3>1, <3>2, EnqueueKeepsType
    <3>4. QED
      BY <2>24, <3>3 DEF BackfillNext, Enqueue
  <2>25. ASSUME NEW b \in Build, WriteBuild(b) PROVE TypeInv'
    BY <2>25 DEF WriteBuild
  <2>26. ASSUME NEW r \in open, Merge(r) PROVE TypeInv'
    BY <2>26 DEF Merge, Requests
  <2>27. CASE UNCHANGED vars
    BY <2>27 DEF vars
  <2>28. QED
    BY <2>1, <2>2, <2>3, <2>4, <2>5, <2>6, <2>7, <2>8, <2>9, <2>10, <2>11, <2>12, <2>13,
       <2>14, <2>15, <2>16, <2>17, <2>18, <2>19, <2>20, <2>21, <2>22, <2>23, <2>24, <2>25,
          <2>26, <2>27
    DEF Next, BuilderStep, PublisherStep, AttemptStep, PublishSettles
<1>3. QED
  BY <1>1, <1>2, PTL DEF Spec

\* Type correctness: the outbox as saved and as each process holds it, the
\* trees and the control state keep their types in every reachable state.
THEOREM TypeCorrect == Spec => []TypeOK
<1>1. TypeInv => TypeOK
  BY DEF TypeInv
<1>2. QED
  BY <1>1, TypeInvHolds, PTL

-----------------------------------------------------------------------------
(* The flock: one attempt at a time.                                       *)

Critical == {"decide", "publish", "copy", "remove", "save"}

\* The process between _load and _save is the holder of the flock.
LockInv == \A p \in Proc : pc[p] \in Critical <=> lock = p

\* Whatever crashes, two processes are never both inside an attempt, and the
\* flock is free when none is.
THEOREM OneAttemptAtATime == Spec => []LockInv
<1> USE OutboxAssumption DEF LockInv, Critical, Proc, PCs
<1>1. Init => LockInv
  BY DEF Init
<1>2. LockInv /\ TypeInv /\ [Next]_vars => LockInv'
  <2> SUFFICES ASSUME LockInv, TypeInv, [Next]_vars PROVE LockInv'
    OBVIOUS
  <2>0. pc \in [Proc -> PCs] /\ lock \in Proc \cup {Free}
    BY DEF TypeInv, TypeOK
  <2> USE <2>0 DEF treeVars, procVars, loopVars, buildVars, prVars, keepVars, envVars
  <2>1. ASSUME NEW p \in Proc, BeginAttempt(p) PROVE LockInv'
    BY <2>1 DEF BeginAttempt, Finish, After
  <2>2. ASSUME NEW p \in Proc, Decide(p) PROVE LockInv'
    BY <2>2 DEF Decide, Go
  <2>3. ASSUME NEW p \in Proc, PublishOpens(p) PROVE LockInv'
    BY <2>3 DEF PublishOpens, Go, Publishable
  <2>4. ASSUME NEW p \in Proc, PublishNoop(p) PROVE LockInv'
    BY <2>4 DEF PublishNoop, Go, Publishable
  <2>5. ASSUME NEW p \in Proc, PublishPermanent(p) PROVE LockInv'
    BY <2>5 DEF PublishPermanent, Go
  <2>6. ASSUME NEW p \in Proc, PublishTransient(p) PROVE LockInv'
    BY <2>6 DEF PublishTransient, Go
  <2>7. ASSUME NEW p \in Proc, CopyAside(p) PROVE LockInv'
    BY <2>7 DEF CopyAside
  <2>8. ASSUME NEW p \in Proc, RemoveCopy(p) PROVE LockInv'
    BY <2>8 DEF RemoveCopy
  <2>9. ASSUME NEW p \in Proc, SaveOutbox(p) PROVE LockInv'
    BY <2>9 DEF SaveOutbox, Finish, After
  <2>10. ASSUME NEW p \in Proc, Crash(p) PROVE LockInv'
    BY <2>10 DEF Crash
  <2>11. ASSUME GateRejects PROVE LockInv'
    BY <2>11 DEF GateRejects, BuilderMoves
  <2>12. ASSUME GatePasses PROVE LockInv'
    BY <2>12 DEF GatePasses, BuilderMoves
  <2>13. ASSUME FindBuild PROVE LockInv'
    BY <2>13 DEF FindBuild, BuilderMoves
  <2>14. ASSUME CommitBuild PROVE LockInv'
    BY <2>14 DEF CommitBuild, Enqueue
  <2>15. ASSUME BeginDrain PROVE LockInv'
    BY <2>15 DEF BeginDrain
  <2>16. ASSUME EndDrain PROVE LockInv'
    BY <2>16 DEF EndDrain
  <2>17. ASSUME Census PROVE LockInv'
    BY <2>17 DEF Census
  <2>18. ASSUME EndBackfill PROVE LockInv'
    BY <2>18 DEF EndBackfill
  <2>19. ASSUME EvictHeld PROVE LockInv'
    BY <2>19 DEF EvictHeld
  <2>20. ASSUME Deploy PROVE LockInv'
    BY <2>20 DEF Deploy
  <2>21. ASSUME NextDay PROVE LockInv'
    BY <2>21 DEF NextDay
  <2>22. ASSUME Toggle PROVE LockInv'
    BY <2>22 DEF Toggle
  <2>23. ASSUME NEW f \in File, DrainNext(f) PROVE LockInv'
    BY <2>23 DEF DrainNext
  <2>24. ASSUME NEW f \in File, BackfillNext(f) PROVE LockInv'
    BY <2>24 DEF BackfillNext, Enqueue
  <2>25. ASSUME NEW b \in Build, WriteBuild(b) PROVE LockInv'
    BY <2>25 DEF WriteBuild
  <2>26. ASSUME NEW r \in open, Merge(r) PROVE LockInv'
    BY <2>26 DEF Merge
  <2>27. CASE UNCHANGED vars
    BY <2>27 DEF vars
  <2>28. QED
    BY <2>1, <2>2, <2>3, <2>4, <2>5, <2>6, <2>7, <2>8, <2>9, <2>10, <2>11, <2>12, <2>13,
       <2>14, <2>15, <2>16, <2>17, <2>18, <2>19, <2>20, <2>21, <2>22, <2>23, <2>24, <2>25,
          <2>26, <2>27
    DEF Next, BuilderStep, PublisherStep, AttemptStep, PublishSettles
<1>3. QED
  BY <1>1, <1>2, TypeInvHolds, PTL DEF Spec

-----------------------------------------------------------------------------
(* What is pushed is what was scanned.                                     *)

ScanInv ==
  /\ PublishedIsClean
  /\ \A p \in Proc : pc[p] = "publish" => Verdict[content[p]] = "clean"

\* Bytes the refusal scans reject never reach a pull request, however the
\* builder rewrites the file while an attempt is under way.
THEOREM OnlyScannedBytesArePublished == Spec => []PublishedIsClean
<1> USE OutboxAssumption DEF ScanInv, PublishedIsClean, Proc, PCs
<1>1. Init => ScanInv
  BY DEF Init
<1>2. ScanInv /\ TypeInv /\ [Next]_vars => ScanInv'
  <2> SUFFICES ASSUME ScanInv, TypeInv, [Next]_vars PROVE ScanInv'
    OBVIOUS
  <2>0. pc \in [Proc -> PCs] /\ content \in [Proc -> Build \cup {NoBuild}]
    BY DEF TypeInv, TypeOK
  <2> USE <2>0 DEF treeVars, procVars, loopVars, buildVars, prVars, keepVars, envVars
  <2>1. ASSUME NEW p \in Proc, BeginAttempt(p) PROVE ScanInv'
    BY <2>1 DEF BeginAttempt, Finish, After
  <2>2. ASSUME NEW p \in Proc, Decide(p) PROVE ScanInv'
    BY <2>2 DEF Decide, Go, Refused
  <2>3. ASSUME NEW p \in Proc, PublishOpens(p) PROVE ScanInv'
    <3>1. PICK n \in Nat : prs' \subseteq prs \cup {PullRequest(p, n)}
      BY <2>3, PushAdds DEF PublishOpens, TypeInv, TypeOK
    <3>2. PullRequest(p, n).content = content[p]
      BY DEF PullRequest
    <3>3. \A r \in prs' : Verdict[r.content] = "clean"
      BY <2>3, <3>1, <3>2 DEF PublishOpens, Publishable
    <3>4. QED
      BY <2>3, <3>3 DEF PublishOpens, Go
  <2>4. ASSUME NEW p \in Proc, PublishNoop(p) PROVE ScanInv'
    BY <2>4 DEF PublishNoop, Go, Publishable
  <2>5. ASSUME NEW p \in Proc, PublishPermanent(p) PROVE ScanInv'
    BY <2>5 DEF PublishPermanent, Go
  <2>6. ASSUME NEW p \in Proc, PublishTransient(p) PROVE ScanInv'
    <3>1. PICK n \in Nat : Push(p) => prs' \subseteq prs \cup {PullRequest(p, n)}
      BY PushAdds DEF TypeInv, TypeOK
    <3>2. PullRequest(p, n).content = content[p]
      BY DEF PullRequest
    <3>3. \A r \in prs' : Verdict[r.content] = "clean"
      BY <2>6, <3>1, <3>2 DEF PublishTransient
    <3>4. QED
      BY <2>6, <3>3 DEF PublishTransient, Go
  <2>7. ASSUME NEW p \in Proc, CopyAside(p) PROVE ScanInv'
    BY <2>7 DEF CopyAside
  <2>8. ASSUME NEW p \in Proc, RemoveCopy(p) PROVE ScanInv'
    BY <2>8 DEF RemoveCopy
  <2>9. ASSUME NEW p \in Proc, SaveOutbox(p) PROVE ScanInv'
    BY <2>9 DEF SaveOutbox, Finish, After
  <2>10. ASSUME NEW p \in Proc, Crash(p) PROVE ScanInv'
    BY <2>10 DEF Crash
  <2>11. ASSUME GateRejects PROVE ScanInv'
    BY <2>11 DEF GateRejects, BuilderMoves
  <2>12. ASSUME GatePasses PROVE ScanInv'
    BY <2>12 DEF GatePasses, BuilderMoves
  <2>13. ASSUME FindBuild PROVE ScanInv'
    BY <2>13 DEF FindBuild, BuilderMoves
  <2>14. ASSUME CommitBuild PROVE ScanInv'
    BY <2>14 DEF CommitBuild, Enqueue
  <2>15. ASSUME BeginDrain PROVE ScanInv'
    BY <2>15 DEF BeginDrain
  <2>16. ASSUME EndDrain PROVE ScanInv'
    BY <2>16 DEF EndDrain
  <2>17. ASSUME Census PROVE ScanInv'
    BY <2>17 DEF Census
  <2>18. ASSUME EndBackfill PROVE ScanInv'
    BY <2>18 DEF EndBackfill
  <2>19. ASSUME EvictHeld PROVE ScanInv'
    BY <2>19 DEF EvictHeld
  <2>20. ASSUME Deploy PROVE ScanInv'
    BY <2>20 DEF Deploy
  <2>21. ASSUME NextDay PROVE ScanInv'
    BY <2>21 DEF NextDay
  <2>22. ASSUME Toggle PROVE ScanInv'
    BY <2>22 DEF Toggle
  <2>23. ASSUME NEW f \in File, DrainNext(f) PROVE ScanInv'
    BY <2>23 DEF DrainNext
  <2>24. ASSUME NEW f \in File, BackfillNext(f) PROVE ScanInv'
    BY <2>24 DEF BackfillNext, Enqueue
  <2>25. ASSUME NEW b \in Build, WriteBuild(b) PROVE ScanInv'
    BY <2>25 DEF WriteBuild
  <2>26. ASSUME NEW r \in open, Merge(r) PROVE ScanInv'
    BY <2>26 DEF Merge
  <2>27. CASE UNCHANGED vars
    BY <2>27 DEF vars
  <2>28. QED
    BY <2>1, <2>2, <2>3, <2>4, <2>5, <2>6, <2>7, <2>8, <2>9, <2>10, <2>11, <2>12, <2>13,
       <2>14, <2>15, <2>16, <2>17, <2>18, <2>19, <2>20, <2>21, <2>22, <2>23, <2>24, <2>25,
          <2>26, <2>27
    DEF Next, BuilderStep, PublisherStep, AttemptStep, PublishSettles
<1>3. ScanInv => PublishedIsClean
  OBVIOUS
<1>4. QED
  BY <1>1, <1>2, <1>3, TypeInvHolds, PTL DEF Spec

-----------------------------------------------------------------------------
(* The daily cap.  The budget that counts is in the outbox its holder has  *)
(* loaded, or in the saved one while nobody holds the flock.  A crash in   *)
(* an attempt that has opened its request forgets it, so both budgets are  *)
(* carried: what the holder knows, and what would be left without it.      *)

Spent == IF lock = Free THEN outbox.budget ELSE mem[lock].budget

Evicting == {"copy", "remove", "save"}

\* An attempt that may have opened a request has not been saved.
Unsaved == IF \E p \in Proc : pc[p] \in Evicting THEN 1 ELSE 0

\* How many requests of a day a budget vouches for.
Room(b, n) == IF n < b.day THEN DailyCap ELSE IF n = b.day THEN b.count ELSE 0

Budgets == [day : 0..MaxDay, count : 0..DailyCap]

CapInv ==
  /\ IsFiniteSet(prs)
  /\ Spent \in Budgets /\ outbox.budget \in Budgets /\ Spent.day <= day
  /\ \A p \in Proc : pc[p] = "publish" => Spent.count < DailyCap
  /\ outbox.budget.day <= day
  /\ \A n \in 0..MaxDay :
       /\ Cardinality(AdmittedOn(n)) <= Room(Spent, n) + crashes
       /\ Cardinality(AdmittedOn(n)) <= Room(outbox.budget, n) + crashes + Unsaved

\* Days have finitely many requests.
LEMMA AdmittedIsFinite ==
  ASSUME IsFiniteSet(prs)
  PROVE  \A n : IsFiniteSet(AdmittedOn(n)) /\ Cardinality(AdmittedOn(n)) \in Nat
<1>1. \A n : AdmittedOn(n) \subseteq prs
  BY DEF AdmittedOn
<1>2. QED
  BY <1>1, FS_Subset, FS_CardinalityType

\* A step that spends and saves nothing keeps the invariant.
LEMMA QuietStep ==
  ASSUME CapInv, TypeInv, TypeInv', prs' = prs, Spent' = Spent,
         outbox'.budget = outbox.budget, day' >= day, crashes' >= crashes,
         \A p \in Proc : pc'[p] = "publish" => pc[p] = "publish",
         \A p \in Proc : pc[p] \in Evicting => pc'[p] \in Evicting
  PROVE  CapInv'
<1> USE OutboxAssumption
<1>1. day \in Nat /\ day' \in Nat /\ crashes \in Nat /\ crashes' \in Nat
  BY DEF TypeInv, TypeOK
<1>2. \A n : AdmittedOn(n)' = AdmittedOn(n)
  BY DEF AdmittedOn
<1>3. Unsaved \in {0, 1} /\ Unsaved' \in {0, 1} /\ Unsaved <= Unsaved'
  BY DEF Unsaved
<1>4. ASSUME NEW n \in 0..MaxDay
      PROVE  /\ Cardinality(AdmittedOn(n))' <= Room(Spent, n) + crashes'
             /\ Cardinality(AdmittedOn(n))' <= Room(outbox.budget, n) + crashes' + Unsaved'
  <2>1. Room(Spent, n) \in Nat /\ Room(outbox.budget, n) \in Nat
    BY DEF Room, CapInv, Budgets
  <2>2. Cardinality(AdmittedOn(n)) \in Nat
    BY AdmittedIsFinite DEF CapInv
  <2>3. QED
    BY <1>1, <1>2, <1>3, <2>1, <2>2 DEF CapInv
<1>5. QED
  BY <1>1, <1>4 DEF CapInv, Room, Budgets

\* The invariant of the two budgets holds, crashes or not, as long as a request
\* that opened is known to have opened.
LEMMA CapInvHolds == ASSUME MaxLost = 0 PROVE Spec => []CapInv
<1> USE OutboxAssumption
<1>1. Init => CapInv
  <2> SUFFICES ASSUME Init PROVE CapInv
    OBVIOUS
  <2>1. /\ prs = {} /\ day = 0 /\ crashes = 0 /\ Unsaved = 0
        /\ outbox.budget = [day |-> 0, count |-> 0] /\ Spent = outbox.budget
    BY DEF Init, Spent, Empty, Unsaved, Evicting
  <2>2. \A n : AdmittedOn(n) = {}
    BY <2>1 DEF AdmittedOn
  <2>3. IsFiniteSet({}) /\ Cardinality({}) = 0
    BY FS_EmptySet
  <2>4. \A p \in Proc : pc[p] # "publish"
    BY DEF Init
  <2>5. QED
    BY <2>1, <2>2, <2>3, <2>4 DEF CapInv, Budgets, Room
<1>2. CapInv /\ LockInv /\ TypeInv /\ TypeInv' /\ [Next]_vars => CapInv'
  <2> SUFFICES ASSUME CapInv, LockInv, TypeInv, TypeInv', [Next]_vars PROVE CapInv'
    OBVIOUS
  <2>0. /\ pc \in [Proc -> PCs] /\ lock \in Proc \cup {Free} /\ mem \in [Proc -> Boxes]
        /\ outbox \in Boxes /\ day \in 0..MaxDay /\ crashes \in 0..MaxCrashes
    BY DEF TypeInv, TypeOK
  <2>a. \A p \in Proc : pc[p] \in Critical => lock = p /\ Spent = mem[p].budget
    BY DEF LockInv, Spent, Proc
  <2>b. lock # Free => pc[lock] \in Critical
    BY <2>0 DEF LockInv
  <2>c. \A n \in 0..MaxDay : Cardinality(AdmittedOn(n)) \in Nat
    BY AdmittedIsFinite DEF CapInv
  <2>d. Unsaved \in {0, 1}
    BY DEF Unsaved
  <2>e. Spent \in Budgets /\ outbox.budget \in Budgets
    BY DEF CapInv
  <2>f. \A n \in 0..MaxDay : /\ Room(Spent, n) \in 0..DailyCap
                             /\ Room(outbox.budget, n) \in 0..DailyCap
    BY <2>e DEF Room, Budgets
  <2> USE <2>0 DEF treeVars, procVars, loopVars, buildVars, prVars, keepVars, envVars, PCs
  <2>1. ASSUME NEW p \in Proc, BeginAttempt(p) PROVE CapInv'
    <3>1. prs' = prs /\ day' >= day /\ crashes' >= crashes
      BY <2>1 DEF BeginAttempt, Finish, After
    <3>2. Spent' = Spent /\ outbox'.budget = outbox.budget
      BY <2>1, <2>a, <2>b DEF BeginAttempt, Finish, After, Spent, Boxes, Proc, Critical
    <3>3. /\ \A q \in Proc : pc'[q] = "publish" => pc[q] = "publish"
          /\ \A q \in Proc : pc[q] \in Evicting => pc'[q] \in Evicting
      BY <2>1 DEF BeginAttempt, Finish, After, Proc, Evicting
    <3>4. QED
      BY <3>1, <3>2, <3>3, QuietStep
  <2>2. ASSUME NEW p \in Proc, Decide(p) PROVE CapInv'
    <3>1. /\ prs' = prs /\ day' = day /\ crashes' = crashes /\ outbox' = outbox
          /\ lock' = p /\ lock = p /\ Spent = mem[p].budget /\ pc[p] = "decide"
      BY <2>2, <2>a DEF Decide, Critical
    <3>2. CASE mem' = mem /\ pc'[p] # "publish"
      <4>1. Spent' = Spent
        BY <3>1, <3>2 DEF Spent, Proc
      <4>2. /\ \A q \in Proc : pc'[q] = "publish" => pc[q] = "publish"
            /\ \A q \in Proc : pc[q] \in Evicting => pc'[q] \in Evicting
        BY <2>2, <3>1, <3>2 DEF Decide, Go, Proc, Evicting
      <4>3. QED
        BY <3>1, <4>1, <4>2, QuietStep
    <3>3. CASE /\ pc'[p] = "publish" /\ ~CapReached(p)
               /\ mem' = [mem EXCEPT ![p].budget = Budget(p)]
      <4>1. Spent' = Budget(p) /\ Budget(p).count < DailyCap
        BY <3>1, <3>3, <2>e DEF Spent, Proc, CapReached, Boxes, Budget, Budgets
      <4>2. Budget(p) \in Budgets /\ Budget(p).day = day
        BY <3>1, <2>e DEF Budget, Budgets
      <4>3. Unsaved' = Unsaved
        <5>1. \A q \in Proc : pc'[q] \in Evicting <=> pc[q] \in Evicting
          BY <2>2, <3>1, <3>3 DEF Decide, Go, Evicting
        <5>2. QED
          BY <5>1 DEF Unsaved
      <4>4. \A n \in 0..MaxDay : Room(Spent, n) <= Room(Budget(p), n)
        BY <3>1, <2>e, <4>2 DEF Room, Budget, Budgets, CapInv
      <4>5. \A n \in 0..MaxDay : AdmittedOn(n)' = AdmittedOn(n)
        BY <3>1 DEF AdmittedOn
      <4>6. \A n \in 0..MaxDay : Room(Budget(p), n) \in 0..DailyCap
        BY <4>2 DEF Room, Budgets
      <4>7. \A n \in 0..MaxDay : Cardinality(AdmittedOn(n)) <= Room(Budget(p), n) + crashes
        BY <2>c, <2>f, <4>4, <4>6 DEF CapInv
      <4>8. \A n : Room(Spent, n)' = Room(Budget(p), n)
        BY <4>1 DEF Room
      <4>9. \A n : Room(outbox.budget, n)' = Room(outbox.budget, n)
        BY <3>1 DEF Room
      <4>10. QED
        BY <3>1, <4>1, <4>2, <4>3, <4>5, <4>7, <4>8, <4>9 DEF CapInv
    <3>4. QED
      BY <2>2, <3>2, <3>3 DEF Decide, Go
  <2>3. ASSUME NEW p \in Proc, PublishOpens(p) PROVE CapInv'
    <3>0. PICK k \in Nat : prs' \subseteq prs \cup {PullRequest(p, k)}
      BY <2>3, PushAdds DEF PublishOpens, TypeInv, TypeOK
    <3> DEFINE r == PullRequest(p, k)
    <3>1. /\ lock = p /\ lock' = p /\ day' = day /\ crashes' = crashes /\ outbox' = outbox
          /\ pc[p] = "publish" /\ Spent = mem[p].budget
      BY <2>3, <2>a DEF PublishOpens, Publishable, Critical
    <3>2. Spent' = [Spent EXCEPT !.count = Spent.count + 1] /\ Spent.count < DailyCap
      BY <2>3, <3>1 DEF PublishOpens, Spent, Counted, Published, CapInv, Boxes, Proc
    <3>3. r.admitted = Spent.day
      BY <3>1 DEF PullRequest
    <3>4. prs' \subseteq prs \cup {r} /\ IsFiniteSet(prs)
      BY <3>0 DEF CapInv
    <3>5. Unsaved = 0 /\ Unsaved' = 1
      <4>1. \A q \in Proc : pc[q] \notin Evicting
        BY <3>1, <2>a DEF Critical, Evicting
      <4>2. pc'[p] \in Evicting
        BY <2>3 DEF PublishOpens, Go, Evicting
      <4>3. QED
        BY <4>1, <4>2 DEF Unsaved
    <3> HIDE DEF r
    <3>6. IsFiniteSet(prs')
      BY <3>4, FS_AddElement, FS_Subset
    <3>7. ASSUME NEW n \in 0..MaxDay
          PROVE  /\ Cardinality(AdmittedOn(n)') \in Nat
                 /\ Cardinality(AdmittedOn(n)') <= Cardinality(AdmittedOn(n)) + 1
                 /\ n # Spent.day =>
                      Cardinality(AdmittedOn(n)') <= Cardinality(AdmittedOn(n))
      <4>1. /\ AdmittedOn(n)' \subseteq AdmittedOn(n) \cup {r}
            /\ n # Spent.day => AdmittedOn(n)' \subseteq AdmittedOn(n)
        BY <3>3, <3>4 DEF AdmittedOn
      <4>2. IsFiniteSet(AdmittedOn(n)) /\ Cardinality(AdmittedOn(n)) \in Nat
        BY <3>4, AdmittedIsFinite
      <4>3. /\ IsFiniteSet(AdmittedOn(n) \cup {r})
            /\ Cardinality(AdmittedOn(n) \cup {r}) =
                 IF r \in AdmittedOn(n) THEN Cardinality(AdmittedOn(n))
                 ELSE Cardinality(AdmittedOn(n)) + 1
        BY <4>2, FS_AddElement, Zenon
      <4>4. /\ IsFiniteSet(AdmittedOn(n)')
            /\ Cardinality(AdmittedOn(n)') <= Cardinality(AdmittedOn(n) \cup {r})
        BY <4>1, <4>3, FS_Subset
      <4>5. Cardinality(AdmittedOn(n)') \in Nat /\ Cardinality(AdmittedOn(n) \cup {r}) \in Nat
        BY <4>3, <4>4, FS_CardinalityType
      <4>6. n # Spent.day => Cardinality(AdmittedOn(n)') <= Cardinality(AdmittedOn(n))
        BY <4>1, <4>2, FS_Subset
      <4>7. QED
        BY <4>2, <4>3, <4>4, <4>5, <4>6
    <3>8. Spent' \in Budgets
      BY <3>2, <2>e DEF Budgets
    <3>9. ASSUME NEW n \in 0..MaxDay
          PROVE  /\ Cardinality(AdmittedOn(n)') <= Room(Spent', n) + crashes
                 /\ Cardinality(AdmittedOn(n)') <= Room(outbox.budget, n) + crashes + 1
      <4>1. /\ n = Spent.day => Room(Spent', n) = Room(Spent, n) + 1
            /\ n # Spent.day => Room(Spent', n) = Room(Spent, n)
        BY <3>2, <2>e DEF Room, Budgets
      <4>2. QED
        BY <4>1, <3>5, <3>7, <2>c, <2>f DEF CapInv
    <3>10. \A q \in Proc : pc'[q] # "publish"
      BY <2>3, <3>1, <2>a DEF PublishOpens, Go, Critical
    <3>11. \A n : Room(outbox.budget, n)' = Room(outbox.budget, n)
      BY <3>1 DEF Room
    <3>12. \A n : Room(Spent, n)' = Room(Spent', n)
      BY DEF Room
    <3>13. Spent'.day = Spent.day
      BY <3>2, <2>e DEF Budgets
    <3>14. QED
      BY <3>1, <3>5, <3>6, <3>8, <3>9, <3>10, <3>11, <3>12, <3>13, <2>e DEF CapInv
  <2>4. ASSUME NEW p \in Proc, PublishNoop(p) PROVE CapInv'
    <3>1. prs' = prs /\ day' >= day /\ crashes' >= crashes
      BY <2>4 DEF PublishNoop, Go, Publishable, Published
    <3>2. Spent' = Spent /\ outbox'.budget = outbox.budget
      BY <2>4, <2>a, <2>b DEF PublishNoop, Go, Publishable, Published, Spent, Boxes, Proc, Critical
    <3>3. /\ \A q \in Proc : pc'[q] = "publish" => pc[q] = "publish"
          /\ \A q \in Proc : pc[q] \in Evicting => pc'[q] \in Evicting
      BY <2>4 DEF PublishNoop, Go, Publishable, Published, Proc, Evicting
    <3>4. QED
      BY <3>1, <3>2, <3>3, QuietStep
  <2>5. ASSUME NEW p \in Proc, PublishPermanent(p) PROVE CapInv'
    <3>1. prs' = prs /\ day' >= day /\ crashes' >= crashes
      BY <2>5 DEF PublishPermanent, Go
    <3>2. Spent' = Spent /\ outbox'.budget = outbox.budget
      BY <2>5, <2>a, <2>b DEF PublishPermanent, Go, Spent, Boxes, Proc, Critical
    <3>3. /\ \A q \in Proc : pc'[q] = "publish" => pc[q] = "publish"
          /\ \A q \in Proc : pc[q] \in Evicting => pc'[q] \in Evicting
      BY <2>5 DEF PublishPermanent, Go, Proc, Evicting
    <3>4. QED
      BY <3>1, <3>2, <3>3, QuietStep
  <2>6. ASSUME NEW p \in Proc, PublishTransient(p) PROVE CapInv'
    <3>1. prs' = prs /\ day' >= day /\ crashes' >= crashes
      BY <2>6 DEF PublishTransient, Go, TypeInv, TypeOK
    <3>2. Spent' = Spent /\ outbox'.budget = outbox.budget
      BY <2>6, <2>a, <2>b DEF PublishTransient, Go, Spent, Boxes, Proc, Critical
    <3>3. /\ \A q \in Proc : pc'[q] = "publish" => pc[q] = "publish"
          /\ \A q \in Proc : pc[q] \in Evicting => pc'[q] \in Evicting
      BY <2>6 DEF PublishTransient, Go, Proc, Evicting
    <3>4. QED
      BY <3>1, <3>2, <3>3, QuietStep
  <2>7. ASSUME NEW p \in Proc, CopyAside(p) PROVE CapInv'
    <3>1. prs' = prs /\ day' >= day /\ crashes' >= crashes
      BY <2>7 DEF CopyAside
    <3>2. Spent' = Spent /\ outbox'.budget = outbox.budget
      BY <2>7, <2>a, <2>b DEF CopyAside, Spent, Boxes, Proc, Critical
    <3>3. /\ \A q \in Proc : pc'[q] = "publish" => pc[q] = "publish"
          /\ \A q \in Proc : pc[q] \in Evicting => pc'[q] \in Evicting
      BY <2>7 DEF CopyAside, Proc, Evicting
    <3>4. QED
      BY <3>1, <3>2, <3>3, QuietStep
  <2>8. ASSUME NEW p \in Proc, RemoveCopy(p) PROVE CapInv'
    <3>1. prs' = prs /\ day' >= day /\ crashes' >= crashes
      BY <2>8 DEF RemoveCopy
    <3>2. Spent' = Spent /\ outbox'.budget = outbox.budget
      BY <2>8, <2>a, <2>b DEF RemoveCopy, Spent, Boxes, Proc, Critical
    <3>3. /\ \A q \in Proc : pc'[q] = "publish" => pc[q] = "publish"
          /\ \A q \in Proc : pc[q] \in Evicting => pc'[q] \in Evicting
      BY <2>8 DEF RemoveCopy, Proc, Evicting
    <3>4. QED
      BY <3>1, <3>2, <3>3, QuietStep
  <2>9. ASSUME NEW p \in Proc, SaveOutbox(p) PROVE CapInv'
    <3>1. /\ prs' = prs /\ day' = day /\ crashes' = crashes /\ lock' = Free
          /\ Spent = mem[p].budget /\ pc[p] = "save"
      BY <2>9, <2>a DEF SaveOutbox, Critical
    <3>2. outbox'.budget = Spent /\ Spent' = Spent
      BY <2>9, <3>1 DEF SaveOutbox, Boxes, Spent
    <3>3. \A q \in Proc : pc'[q] # "publish" /\ pc'[q] \notin Evicting
      BY <2>9, <3>1, <2>a DEF SaveOutbox, Finish, After, Critical, Evicting
    <3>4. Unsaved' = 0
      BY <3>3 DEF Unsaved
    <3>5. \A n : AdmittedOn(n)' = AdmittedOn(n)
      BY <3>1 DEF AdmittedOn
    <3>6. \A n : Room(Spent, n)' = Room(Spent, n) /\ Room(outbox.budget, n)' = Room(Spent, n)
      BY <3>2 DEF Room
    <3>7. \A n \in 0..MaxDay : Room(Spent, n) + crashes = Room(Spent, n) + crashes + Unsaved'
      BY <3>4, <2>f
    <3>8. QED
      BY <3>1, <3>2, <3>3, <3>5, <3>6, <3>7, <2>e DEF CapInv
  <2>10. ASSUME NEW p \in Proc, Crash(p) PROVE CapInv'
    <3>1. prs' = prs /\ day' = day /\ crashes' = crashes + 1 /\ outbox' = outbox
      BY <2>10 DEF Crash
    <3>2. \A n : AdmittedOn(n)' = AdmittedOn(n)
      BY <3>1 DEF AdmittedOn
    <3>3. \A q \in Proc : pc'[q] # "idle" => pc'[q] = pc[q] /\ q # p
      BY <2>10 DEF Crash
    <3>4. Spent' \in {Spent, outbox.budget} /\ (pc[p] \in Critical => Spent' = outbox.budget)
      BY <2>10, <2>a, <2>b DEF Crash, Spent, Proc, Critical
    <3>5. \A q \in Proc : pc'[q] = "publish" => Spent' = Spent
      <4> SUFFICES ASSUME NEW q \in Proc, pc'[q] = "publish" PROVE Spent' = Spent
        OBVIOUS
      <4>1. lock = q /\ q # p
        BY <3>3, <2>a DEF Critical
      <4>2. QED
        BY <2>10, <4>1 DEF Crash, Spent, Proc
    <3>6. \A n : /\ Room(outbox.budget, n)' = Room(outbox.budget, n)
                 /\ \/ Room(Spent, n)' = Room(Spent, n)
                    \/ Room(Spent, n)' = Room(outbox.budget, n)
      BY <3>1, <3>4 DEF Room
    <3>7. Unsaved' \in {0, 1}
      BY DEF Unsaved
    <3>8. ASSUME NEW n \in 0..MaxDay
          PROVE  /\ Cardinality(AdmittedOn(n)) <= Room(Spent, n) + crashes + 1
                 /\ Cardinality(AdmittedOn(n)) <= Room(outbox.budget, n) + crashes + 1
                 /\ Cardinality(AdmittedOn(n)) <= Room(outbox.budget, n) + crashes + 1 + Unsaved'
      BY <2>c, <2>d, <2>f, <3>7 DEF CapInv
    <3>9. ASSUME NEW n \in 0..MaxDay
          PROVE  /\ Cardinality(AdmittedOn(n)') <= Room(Spent, n)' + crashes'
                 /\ Cardinality(AdmittedOn(n)') <= Room(outbox.budget, n)' + crashes' + Unsaved'
      <4>1. AdmittedOn(n)' = AdmittedOn(n)
        BY <3>2
      <4>2. /\ \/ Room(Spent, n)' = Room(Spent, n)
               \/ Room(Spent, n)' = Room(outbox.budget, n)
            /\ Room(outbox.budget, n)' = Room(outbox.budget, n)
        BY <3>6
      <4>3. crashes' = crashes + 1
        BY <3>1
      <4>4. QED
        BY <2>c, <2>f, <3>7, <3>8, <4>1, <4>2, <4>3
    <3>10. Spent' \in Budgets /\ Spent'.day <= day
      BY <3>4, <2>e DEF CapInv
    <3>11. \A q \in Proc : pc'[q] = "publish" => Spent'.count < DailyCap
      BY <3>3, <3>5 DEF CapInv
    <3>12. QED
      BY <3>1, <3>9, <3>10, <3>11, <2>e DEF CapInv
  <2>11. ASSUME GateRejects PROVE CapInv'
    <3>1. prs' = prs /\ day' >= day /\ crashes' >= crashes
      BY <2>11 DEF GateRejects, BuilderMoves
    <3>2. Spent' = Spent /\ outbox'.budget = outbox.budget
      BY <2>11, <2>a, <2>b DEF GateRejects, BuilderMoves, Spent, Boxes, Proc, Critical
    <3>3. /\ \A q \in Proc : pc'[q] = "publish" => pc[q] = "publish"
          /\ \A q \in Proc : pc[q] \in Evicting => pc'[q] \in Evicting
      BY <2>11 DEF GateRejects, BuilderMoves, Proc, Evicting
    <3>4. QED
      BY <3>1, <3>2, <3>3, QuietStep
  <2>12. ASSUME GatePasses PROVE CapInv'
    <3>1. prs' = prs /\ day' >= day /\ crashes' >= crashes
      BY <2>12 DEF GatePasses, BuilderMoves
    <3>2. Spent' = Spent /\ outbox'.budget = outbox.budget
      BY <2>12, <2>a, <2>b DEF GatePasses, BuilderMoves, Spent, Boxes, Proc, Critical
    <3>3. /\ \A q \in Proc : pc'[q] = "publish" => pc[q] = "publish"
          /\ \A q \in Proc : pc[q] \in Evicting => pc'[q] \in Evicting
      BY <2>12 DEF GatePasses, BuilderMoves, Proc, Evicting
    <3>4. QED
      BY <3>1, <3>2, <3>3, QuietStep
  <2>13. ASSUME FindBuild PROVE CapInv'
    <3>1. prs' = prs /\ day' >= day /\ crashes' >= crashes
      BY <2>13 DEF FindBuild, BuilderMoves
    <3>2. Spent' = Spent /\ outbox'.budget = outbox.budget
      BY <2>13, <2>a, <2>b DEF FindBuild, BuilderMoves, Spent, Boxes, Proc, Critical
    <3>3. /\ \A q \in Proc : pc'[q] = "publish" => pc[q] = "publish"
          /\ \A q \in Proc : pc[q] \in Evicting => pc'[q] \in Evicting
      BY <2>13 DEF FindBuild, BuilderMoves, Proc, Evicting
    <3>4. QED
      BY <3>1, <3>2, <3>3, QuietStep
  <2>14. ASSUME CommitBuild PROVE CapInv'
    <3>1. prs' = prs /\ day' >= day /\ crashes' >= crashes
      BY <2>14 DEF CommitBuild, Enqueue
    <3>2. Spent' = Spent /\ outbox'.budget = outbox.budget
      BY <2>14, <2>a, <2>b DEF CommitBuild, Enqueue, Spent, Boxes, Proc, Critical
    <3>3. /\ \A q \in Proc : pc'[q] = "publish" => pc[q] = "publish"
          /\ \A q \in Proc : pc[q] \in Evicting => pc'[q] \in Evicting
      BY <2>14 DEF CommitBuild, Enqueue, Proc, Evicting
    <3>4. QED
      BY <3>1, <3>2, <3>3, QuietStep
  <2>15. ASSUME BeginDrain PROVE CapInv'
    <3>1. prs' = prs /\ day' >= day /\ crashes' >= crashes
      BY <2>15 DEF BeginDrain
    <3>2. Spent' = Spent /\ outbox'.budget = outbox.budget
      BY <2>15, <2>a, <2>b DEF BeginDrain, Spent, Boxes, Proc, Critical
    <3>3. /\ \A q \in Proc : pc'[q] = "publish" => pc[q] = "publish"
          /\ \A q \in Proc : pc[q] \in Evicting => pc'[q] \in Evicting
      BY <2>15 DEF BeginDrain, Proc, Evicting
    <3>4. QED
      BY <3>1, <3>2, <3>3, QuietStep
  <2>16. ASSUME EndDrain PROVE CapInv'
    <3>1. prs' = prs /\ day' >= day /\ crashes' >= crashes
      BY <2>16 DEF EndDrain
    <3>2. Spent' = Spent /\ outbox'.budget = outbox.budget
      BY <2>16, <2>a, <2>b DEF EndDrain, Spent, Boxes, Proc, Critical
    <3>3. /\ \A q \in Proc : pc'[q] = "publish" => pc[q] = "publish"
          /\ \A q \in Proc : pc[q] \in Evicting => pc'[q] \in Evicting
      BY <2>16 DEF EndDrain, Proc, Evicting
    <3>4. QED
      BY <3>1, <3>2, <3>3, QuietStep
  <2>17. ASSUME Census PROVE CapInv'
    <3>1. prs' = prs /\ day' >= day /\ crashes' >= crashes
      BY <2>17 DEF Census
    <3>2. Spent' = Spent /\ outbox'.budget = outbox.budget
      BY <2>17, <2>a, <2>b DEF Census, Spent, Boxes, Proc, Critical
    <3>3. /\ \A q \in Proc : pc'[q] = "publish" => pc[q] = "publish"
          /\ \A q \in Proc : pc[q] \in Evicting => pc'[q] \in Evicting
      BY <2>17 DEF Census, Proc, Evicting
    <3>4. QED
      BY <3>1, <3>2, <3>3, QuietStep
  <2>18. ASSUME EndBackfill PROVE CapInv'
    <3>1. prs' = prs /\ day' >= day /\ crashes' >= crashes
      BY <2>18 DEF EndBackfill
    <3>2. Spent' = Spent /\ outbox'.budget = outbox.budget
      BY <2>18, <2>a, <2>b DEF EndBackfill, Spent, Boxes, Proc, Critical
    <3>3. /\ \A q \in Proc : pc'[q] = "publish" => pc[q] = "publish"
          /\ \A q \in Proc : pc[q] \in Evicting => pc'[q] \in Evicting
      BY <2>18 DEF EndBackfill, Proc, Evicting
    <3>4. QED
      BY <3>1, <3>2, <3>3, QuietStep
  <2>19. ASSUME EvictHeld PROVE CapInv'
    <3>1. prs' = prs /\ day' >= day /\ crashes' >= crashes
      BY <2>19 DEF EvictHeld
    <3>2. Spent' = Spent /\ outbox'.budget = outbox.budget
      BY <2>19, <2>a, <2>b DEF EvictHeld, Spent, Boxes, Proc, Critical
    <3>3. /\ \A q \in Proc : pc'[q] = "publish" => pc[q] = "publish"
          /\ \A q \in Proc : pc[q] \in Evicting => pc'[q] \in Evicting
      BY <2>19 DEF EvictHeld, Proc, Evicting
    <3>4. QED
      BY <3>1, <3>2, <3>3, QuietStep
  <2>20. ASSUME Deploy PROVE CapInv'
    <3>1. prs' = prs /\ day' >= day /\ crashes' >= crashes
      BY <2>20 DEF Deploy
    <3>2. Spent' = Spent /\ outbox'.budget = outbox.budget
      BY <2>20, <2>a, <2>b DEF Deploy, Spent, Boxes, Proc, Critical
    <3>3. /\ \A q \in Proc : pc'[q] = "publish" => pc[q] = "publish"
          /\ \A q \in Proc : pc[q] \in Evicting => pc'[q] \in Evicting
      BY <2>20 DEF Deploy, Proc, Evicting
    <3>4. QED
      BY <3>1, <3>2, <3>3, QuietStep
  <2>21. ASSUME NextDay PROVE CapInv'
    <3>1. prs' = prs /\ day' >= day /\ crashes' >= crashes
      BY <2>21 DEF NextDay
    <3>2. Spent' = Spent /\ outbox'.budget = outbox.budget
      BY <2>21, <2>a, <2>b DEF NextDay, Spent, Boxes, Proc, Critical
    <3>3. /\ \A q \in Proc : pc'[q] = "publish" => pc[q] = "publish"
          /\ \A q \in Proc : pc[q] \in Evicting => pc'[q] \in Evicting
      BY <2>21 DEF NextDay, Proc, Evicting
    <3>4. QED
      BY <3>1, <3>2, <3>3, QuietStep
  <2>22. ASSUME Toggle PROVE CapInv'
    <3>1. prs' = prs /\ day' >= day /\ crashes' >= crashes
      BY <2>22 DEF Toggle
    <3>2. Spent' = Spent /\ outbox'.budget = outbox.budget
      BY <2>22, <2>a, <2>b DEF Toggle, Spent, Boxes, Proc, Critical
    <3>3. /\ \A q \in Proc : pc'[q] = "publish" => pc[q] = "publish"
          /\ \A q \in Proc : pc[q] \in Evicting => pc'[q] \in Evicting
      BY <2>22 DEF Toggle, Proc, Evicting
    <3>4. QED
      BY <3>1, <3>2, <3>3, QuietStep
  <2>23. ASSUME NEW f \in File, DrainNext(f) PROVE CapInv'
    <3>1. prs' = prs /\ day' >= day /\ crashes' >= crashes
      BY <2>23 DEF DrainNext
    <3>2. Spent' = Spent /\ outbox'.budget = outbox.budget
      BY <2>23, <2>a, <2>b DEF DrainNext, Spent, Boxes, Proc, Critical
    <3>3. /\ \A q \in Proc : pc'[q] = "publish" => pc[q] = "publish"
          /\ \A q \in Proc : pc[q] \in Evicting => pc'[q] \in Evicting
      BY <2>23 DEF DrainNext, Proc, Evicting
    <3>4. QED
      BY <3>1, <3>2, <3>3, QuietStep
  <2>24. ASSUME NEW f \in File, BackfillNext(f) PROVE CapInv'
    <3>1. prs' = prs /\ day' >= day /\ crashes' >= crashes
      BY <2>24 DEF BackfillNext, Enqueue
    <3>2. Spent' = Spent /\ outbox'.budget = outbox.budget
      BY <2>24, <2>a, <2>b DEF BackfillNext, Enqueue, Spent, Boxes, Proc, Critical
    <3>3. /\ \A q \in Proc : pc'[q] = "publish" => pc[q] = "publish"
          /\ \A q \in Proc : pc[q] \in Evicting => pc'[q] \in Evicting
      BY <2>24 DEF BackfillNext, Enqueue, Proc, Evicting
    <3>4. QED
      BY <3>1, <3>2, <3>3, QuietStep
  <2>25. ASSUME NEW b \in Build, WriteBuild(b) PROVE CapInv'
    <3>1. prs' = prs /\ day' >= day /\ crashes' >= crashes
      BY <2>25 DEF WriteBuild
    <3>2. Spent' = Spent /\ outbox'.budget = outbox.budget
      BY <2>25, <2>a, <2>b DEF WriteBuild, Spent, Boxes, Proc, Critical
    <3>3. /\ \A q \in Proc : pc'[q] = "publish" => pc[q] = "publish"
          /\ \A q \in Proc : pc[q] \in Evicting => pc'[q] \in Evicting
      BY <2>25 DEF WriteBuild, Proc, Evicting
    <3>4. QED
      BY <3>1, <3>2, <3>3, QuietStep
  <2>26. ASSUME NEW r \in open, Merge(r) PROVE CapInv'
    <3>1. prs' = prs /\ day' >= day /\ crashes' >= crashes
      BY <2>26 DEF Merge
    <3>2. Spent' = Spent /\ outbox'.budget = outbox.budget
      BY <2>26, <2>a, <2>b DEF Merge, Spent, Boxes, Proc, Critical
    <3>3. /\ \A q \in Proc : pc'[q] = "publish" => pc[q] = "publish"
          /\ \A q \in Proc : pc[q] \in Evicting => pc'[q] \in Evicting
      BY <2>26 DEF Merge, Proc, Evicting
    <3>4. QED
      BY <3>1, <3>2, <3>3, QuietStep
  <2>27. CASE UNCHANGED vars
    <3>1. /\ prs' = prs /\ day' = day /\ pc' = pc /\ crashes' = crashes /\ outbox' = outbox
          /\ Spent' = Spent
      BY <2>27 DEF vars, Spent
    <3>2. QED
      BY <3>1, QuietStep
  <2>28. QED
    BY <2>1, <2>2, <2>3, <2>4, <2>5, <2>6, <2>7, <2>8, <2>9, <2>10, <2>11, <2>12, <2>13,
       <2>14, <2>15, <2>16, <2>17, <2>18, <2>19, <2>20, <2>21, <2>22, <2>23, <2>24, <2>25,
       <2>26, <2>27
    DEF Next, BuilderStep, PublisherStep, AttemptStep, PublishSettles, Proc
<1>3. QED
  BY <1>1, <1>2, TypeInvHolds, OneAttemptAtATime, PTL DEF Spec

\* _attempt_locked's budget under crashes: builder and publisher spend it
\* together, and a day admits at most one request more for every process that
\* has died, however the deaths fall.
THEOREM CapUnderCrashes ==
  ASSUME MaxLost = 0
  PROVE  Spec => [](\A n \in 0..MaxDay : Cardinality(AdmittedOn(n)) <= DailyCap + crashes)
<1>1. CapInv /\ TypeInv
      => \A n \in 0..MaxDay : Cardinality(AdmittedOn(n)) <= DailyCap + crashes
  <2> SUFFICES ASSUME CapInv, TypeInv, NEW n \in 0..MaxDay
               PROVE  Cardinality(AdmittedOn(n)) <= DailyCap + crashes
    OBVIOUS
  <2>1. Room(Spent, n) \in 0..DailyCap /\ crashes \in Nat
    BY OutboxAssumption DEF Room, CapInv, Budgets, TypeInv, TypeOK
  <2>2. Cardinality(AdmittedOn(n)) \in Nat
    BY AdmittedIsFinite DEF CapInv
  <2>3. QED
    BY <2>1, <2>2, OutboxAssumption DEF CapInv
<1>2. QED
  BY <1>1, CapInvHolds, TypeInvHolds, PTL

\* _attempt_locked's budget: when nothing dies in between, no day admits more
\* than daily_cap pull requests, across midnight and both processes.
THEOREM CapIsKept == ASSUME MaxCrashes = 0, MaxLost = 0 PROVE Spec => []CapHolds
<1>1. TypeInv /\ (\A n \in 0..MaxDay : Cardinality(AdmittedOn(n)) <= DailyCap + crashes)
      => CapHolds
  BY OutboxAssumption DEF TypeInv, TypeOK, CapHolds
<1>2. QED
  BY <1>1, CapUnderCrashes, TypeInvHolds, PTL
=============================================================================
