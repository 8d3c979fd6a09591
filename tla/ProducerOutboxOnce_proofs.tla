--------------------- MODULE ProducerOutboxOnce_proofs ---------------------
(***************************************************************************)
(* More theorems about ProducerOutbox: what is closed has left the tree,   *)
(* what is lost was not published, and one file has one request in a       *)
(* window.  All rest on what the holder of the flock knows.                *)
(***************************************************************************)
EXTENDS ProducerOutbox_proofs

\* The holder's copy has the entries of the file, its own entry is pending, and
\* it has a result exactly from the outcome to the save.
HolderInv ==
  /\ \A p \in Proc : lock = p =>
       /\ mem[p].entries = outbox.entries
       /\ outbox.entries[file[p]].status = "pending"
  /\ \A p \in Proc : pc[p] \in Evicting <=> result[p] # "none"

\* Nobody else writes the outbox while the flock is held.
LEMMA HolderInvHolds == Spec => []HolderInv
<1> USE OutboxAssumption DEF HolderInv, Proc, PCs, Evicting
<1>1. Init => HolderInv
  BY DEF Init
<1>2. HolderInv /\ LockInv /\ TypeInv /\ [Next]_vars => HolderInv'
  <2> SUFFICES ASSUME HolderInv, LockInv, TypeInv, [Next]_vars PROVE HolderInv'
    OBVIOUS
  <2>0. /\ pc \in [Proc -> PCs] /\ lock \in Proc \cup {Free} /\ mem \in [Proc -> Boxes]
        /\ outbox \in Boxes /\ file \in [Proc -> File \cup {NoFile}]
        /\ result \in [Proc -> Results]
    BY DEF TypeInv, TypeOK
  <2>a. \A p \in Proc : pc[p] \in Critical <=> lock = p
    BY DEF LockInv
  <2> USE <2>0, <2>a
      DEF Critical, treeVars, procVars, loopVars, buildVars, prVars, keepVars, envVars
  <2>1. ASSUME NEW p \in Proc, BeginAttempt(p) PROVE HolderInv'
    BY <2>1 DEF BeginAttempt, Finish, After, IsPending
  <2>2. ASSUME NEW p \in Proc, Decide(p) PROVE HolderInv'
    BY <2>2 DEF Decide, Go, Boxes
  <2>3. ASSUME NEW p \in Proc, PublishOpens(p) PROVE HolderInv'
    BY <2>3 DEF PublishOpens, Go, Publishable, Published, Counted, Boxes
  <2>4. ASSUME NEW p \in Proc, PublishNoop(p) PROVE HolderInv'
    BY <2>4 DEF PublishNoop, Go, Publishable, Published, Boxes
  <2>5. ASSUME NEW p \in Proc, PublishPermanent(p) PROVE HolderInv'
    BY <2>5 DEF PublishPermanent, Go
  <2>6. ASSUME NEW p \in Proc, PublishTransient(p) PROVE HolderInv'
    BY <2>6 DEF PublishTransient, Go
  <2>7. ASSUME NEW p \in Proc, CopyAside(p) PROVE HolderInv'
    BY <2>7 DEF CopyAside
  <2>8. ASSUME NEW p \in Proc, RemoveCopy(p) PROVE HolderInv'
    BY <2>8 DEF RemoveCopy
  <2>9. ASSUME NEW p \in Proc, SaveOutbox(p) PROVE HolderInv'
    BY <2>9 DEF SaveOutbox, Finish, After
  <2>10. ASSUME NEW p \in Proc, Crash(p) PROVE HolderInv'
    BY <2>10 DEF Crash
  <2>11. ASSUME GateRejects PROVE HolderInv'
    BY <2>11 DEF GateRejects, BuilderMoves
  <2>12. ASSUME GatePasses PROVE HolderInv'
    BY <2>12 DEF GatePasses, BuilderMoves
  <2>13. ASSUME FindBuild PROVE HolderInv'
    BY <2>13 DEF FindBuild, BuilderMoves
  <2>14. ASSUME CommitBuild PROVE HolderInv'
    BY <2>14 DEF CommitBuild, Enqueue
  <2>15. ASSUME BeginDrain PROVE HolderInv'
    BY <2>15 DEF BeginDrain
  <2>16. ASSUME EndDrain PROVE HolderInv'
    BY <2>16 DEF EndDrain
  <2>17. ASSUME Census PROVE HolderInv'
    BY <2>17 DEF Census
  <2>18. ASSUME EndBackfill PROVE HolderInv'
    BY <2>18 DEF EndBackfill
  <2>19. ASSUME EvictHeld PROVE HolderInv'
    BY <2>19 DEF EvictHeld
  <2>20. ASSUME Deploy PROVE HolderInv'
    BY <2>20 DEF Deploy
  <2>21. ASSUME NextDay PROVE HolderInv'
    BY <2>21 DEF NextDay
  <2>22. ASSUME Toggle PROVE HolderInv'
    BY <2>22 DEF Toggle
  <2>23. ASSUME NEW f \in File, DrainNext(f) PROVE HolderInv'
    BY <2>23 DEF DrainNext
  <2>24. ASSUME NEW f \in File, BackfillNext(f) PROVE HolderInv'
    BY <2>24 DEF BackfillNext, Enqueue
  <2>25. ASSUME NEW b \in Build, WriteBuild(b) PROVE HolderInv'
    BY <2>25 DEF WriteBuild
  <2>26. ASSUME NEW r \in open, Merge(r) PROVE HolderInv'
    BY <2>26 DEF Merge
  <2>27. CASE UNCHANGED vars
    BY <2>27 DEF vars
  <2>28. QED
    BY <2>1, <2>2, <2>3, <2>4, <2>5, <2>6, <2>7, <2>8, <2>9, <2>10, <2>11, <2>12, <2>13,
       <2>14, <2>15, <2>16, <2>17, <2>18, <2>19, <2>20, <2>21, <2>22, <2>23, <2>24, <2>25,
       <2>26, <2>27
    DEF Next, BuilderStep, PublisherStep, AttemptStep, PublishSettles, Proc
<1>3. QED
  BY <1>1, <1>2, TypeInvHolds, OneAttemptAtATime, PTL DEF Spec

-----------------------------------------------------------------------------
(* Each build is handed over once, and bytes stay under their own file.    *)

OwnBytes ==
  /\ \A f \in File : \A b \in {disk[f], head[f], main[f]} : b # NoBuild => FileOf[b] = f
  /\ \A p \in Proc : content[p] # NoBuild => pc[p] \in Critical /\ FileOf[content[p]] = file[p]
  /\ \A r \in prs : FileOf[r.content] = r.file

MakeInv ==
  /\ committed \subseteq made
  /\ making # NoBuild => making \in made \ committed
  /\ pc[Builder] \in {"written", "gated", "enqueue"} => making # NoBuild

\* Nobody writes a build under another build's file.
LEMMA OwnBytesHolds == Spec => []OwnBytes
<1> USE OutboxAssumption DEF OwnBytes, Proc, Critical
<1>1. Init => OwnBytes
  BY DEF Init
<1>2. OwnBytes /\ TypeInv /\ [Next]_vars => OwnBytes'
  <2> SUFFICES ASSUME OwnBytes, TypeInv, [Next]_vars PROVE OwnBytes'
    OBVIOUS
  <2>0. /\ disk \in [File -> Build \cup {NoBuild}] /\ head \in [File -> Build \cup {NoBuild}]
        /\ main \in [File -> Build \cup {NoBuild}] /\ pc \in [Proc -> PCs]
        /\ file \in [Proc -> File \cup {NoFile}] /\ content \in [Proc -> Build \cup {NoBuild}]
        /\ prs \subseteq Requests /\ open \subseteq prs /\ opened \in Nat
    BY DEF TypeInv, TypeOK
  <2>a. \A p \in Proc : pc[p] \in Attempting => file[p] \in File
    BY DEF TypeInv
  <2>b. \A p \in Proc : pc[p] = "publish" => content[p] \in Build
    BY DEF TypeInv
  <2> USE <2>0, <2>a, <2>b
      DEF Attempting, Critical, PCs, treeVars, procVars, loopVars,
               buildVars, prVars, keepVars, envVars
  <2>1. ASSUME NEW p \in Proc, BeginAttempt(p) PROVE OwnBytes'
    BY <2>1 DEF BeginAttempt, Finish, After
  <2>2. ASSUME NEW p \in Proc, Decide(p) PROVE OwnBytes'
    BY <2>2 DEF Decide, Go
  <2>3. ASSUME NEW p \in Proc, PublishOpens(p) PROVE OwnBytes'
    <3>1. PICK n \in Nat : prs' \subseteq prs \cup {PullRequest(p, n)}
      BY <2>3, PushAdds DEF PublishOpens
    <3>2. PullRequest(p, n).content = content[p] /\ PullRequest(p, n).file = file[p]
      BY DEF PullRequest
    <3>3. FileOf[content[p]] = file[p]
      BY <2>3 DEF PublishOpens, Publishable
    <3>4. \A r \in prs' : FileOf[r.content] = r.file
      BY <3>1, <3>2, <3>3
    <3>5. QED
      BY <2>3, <3>4 DEF PublishOpens, Go, Publishable
  <2>4. ASSUME NEW p \in Proc, PublishNoop(p) PROVE OwnBytes'
    BY <2>4 DEF PublishNoop, Go, Publishable, Published
  <2>5. ASSUME NEW p \in Proc, PublishPermanent(p) PROVE OwnBytes'
    BY <2>5 DEF PublishPermanent, Go
  <2>6. ASSUME NEW p \in Proc, PublishTransient(p) PROVE OwnBytes'
    <3>1. PICK n \in Nat : prs' \subseteq prs \cup {PullRequest(p, n)}
      BY <2>6, PushAdds DEF PublishTransient
    <3>2. PullRequest(p, n).content = content[p] /\ PullRequest(p, n).file = file[p]
      BY DEF PullRequest
    <3>3. FileOf[content[p]] = file[p]
      BY <2>6 DEF PublishTransient
    <3>4. \A r \in prs' : FileOf[r.content] = r.file
      BY <3>1, <3>2, <3>3
    <3>5. QED
      BY <2>6, <3>4 DEF PublishTransient, Go
  <2>7. ASSUME NEW p \in Proc, CopyAside(p) PROVE OwnBytes'
    BY <2>7 DEF CopyAside
  <2>8. ASSUME NEW p \in Proc, RemoveCopy(p) PROVE OwnBytes'
    BY <2>8 DEF RemoveCopy
  <2>9. ASSUME NEW p \in Proc, SaveOutbox(p) PROVE OwnBytes'
    BY <2>9 DEF SaveOutbox, Finish, After
  <2>10. ASSUME NEW p \in Proc, Crash(p) PROVE OwnBytes'
    BY <2>10 DEF Crash
  <2>11. ASSUME GateRejects PROVE OwnBytes'
    BY <2>11 DEF GateRejects, BuilderMoves
  <2>12. ASSUME GatePasses PROVE OwnBytes'
    BY <2>12 DEF GatePasses, BuilderMoves
  <2>13. ASSUME FindBuild PROVE OwnBytes'
    BY <2>13 DEF FindBuild, BuilderMoves
  <2>14. ASSUME CommitBuild PROVE OwnBytes'
    BY <2>14 DEF CommitBuild, Enqueue
  <2>15. ASSUME BeginDrain PROVE OwnBytes'
    BY <2>15 DEF BeginDrain
  <2>16. ASSUME EndDrain PROVE OwnBytes'
    BY <2>16 DEF EndDrain
  <2>17. ASSUME Census PROVE OwnBytes'
    BY <2>17 DEF Census
  <2>18. ASSUME EndBackfill PROVE OwnBytes'
    BY <2>18 DEF EndBackfill
  <2>19. ASSUME EvictHeld PROVE OwnBytes'
    BY <2>19 DEF EvictHeld
  <2>20. ASSUME Deploy PROVE OwnBytes'
    BY <2>20 DEF Deploy
  <2>21. ASSUME NextDay PROVE OwnBytes'
    BY <2>21 DEF NextDay
  <2>22. ASSUME Toggle PROVE OwnBytes'
    BY <2>22 DEF Toggle
  <2>23. ASSUME NEW f \in File, DrainNext(f) PROVE OwnBytes'
    BY <2>23 DEF DrainNext
  <2>24. ASSUME NEW f \in File, BackfillNext(f) PROVE OwnBytes'
    BY <2>24 DEF BackfillNext, Enqueue
  <2>25. ASSUME NEW b \in Build, WriteBuild(b) PROVE OwnBytes'
    BY <2>25 DEF WriteBuild
  <2>26. ASSUME NEW r \in open, Merge(r) PROVE OwnBytes'
    BY <2>26 DEF Merge
  <2>27. CASE UNCHANGED vars
    BY <2>27 DEF vars
  <2>28. QED
    BY <2>1, <2>2, <2>3, <2>4, <2>5, <2>6, <2>7, <2>8, <2>9, <2>10, <2>11, <2>12, <2>13,
       <2>14, <2>15, <2>16, <2>17, <2>18, <2>19, <2>20, <2>21, <2>22, <2>23, <2>24, <2>25,
       <2>26, <2>27
    DEF Next, BuilderStep, PublisherStep, AttemptStep, PublishSettles, Proc
<1>3. QED
  BY <1>1, <1>2, TypeInvHolds, PTL DEF Spec

\* The build that is being made has not been handed over.
LEMMA MakeInvHolds == Spec => []MakeInv
<1> USE OutboxAssumption DEF MakeInv, Proc
<1>1. Init => MakeInv
  BY DEF Init
<1>2. MakeInv /\ TypeInv /\ [Next]_vars => MakeInv'
  <2> SUFFICES ASSUME MakeInv, TypeInv, [Next]_vars PROVE MakeInv'
    OBVIOUS
  <2>0. pc \in [Proc -> PCs] /\ making \in Build \cup {NoBuild} /\ made \subseteq Build
    BY DEF TypeInv, TypeOK
  <2> USE <2>0 DEF treeVars, procVars, loopVars, buildVars, prVars, keepVars, envVars
  <2>1. ASSUME NEW p \in Proc, BeginAttempt(p) PROVE MakeInv'
    BY <2>1 DEF BeginAttempt, Finish, After
  <2>2. ASSUME NEW p \in Proc, Decide(p) PROVE MakeInv'
    BY <2>2 DEF Decide, Go
  <2>3. ASSUME NEW p \in Proc, PublishOpens(p) PROVE MakeInv'
    BY <2>3 DEF PublishOpens, Go, Publishable, Published, Counted
  <2>4. ASSUME NEW p \in Proc, PublishNoop(p) PROVE MakeInv'
    BY <2>4 DEF PublishNoop, Go, Publishable, Published
  <2>5. ASSUME NEW p \in Proc, PublishPermanent(p) PROVE MakeInv'
    BY <2>5 DEF PublishPermanent, Go
  <2>6. ASSUME NEW p \in Proc, PublishTransient(p) PROVE MakeInv'
    BY <2>6 DEF PublishTransient, Go
  <2>7. ASSUME NEW p \in Proc, CopyAside(p) PROVE MakeInv'
    BY <2>7 DEF CopyAside
  <2>8. ASSUME NEW p \in Proc, RemoveCopy(p) PROVE MakeInv'
    BY <2>8 DEF RemoveCopy
  <2>9. ASSUME NEW p \in Proc, SaveOutbox(p) PROVE MakeInv'
    BY <2>9 DEF SaveOutbox, Finish, After
  <2>10. ASSUME NEW p \in Proc, Crash(p) PROVE MakeInv'
    BY <2>10 DEF Crash
  <2>11. ASSUME GateRejects PROVE MakeInv'
    BY <2>11 DEF GateRejects, BuilderMoves
  <2>12. ASSUME GatePasses PROVE MakeInv'
    BY <2>12 DEF GatePasses, BuilderMoves
  <2>13. ASSUME FindBuild PROVE MakeInv'
    BY <2>13 DEF FindBuild, BuilderMoves
  <2>14. ASSUME CommitBuild PROVE MakeInv'
    BY <2>14 DEF CommitBuild, Enqueue
  <2>15. ASSUME BeginDrain PROVE MakeInv'
    BY <2>15 DEF BeginDrain
  <2>16. ASSUME EndDrain PROVE MakeInv'
    BY <2>16 DEF EndDrain
  <2>17. ASSUME Census PROVE MakeInv'
    BY <2>17 DEF Census
  <2>18. ASSUME EndBackfill PROVE MakeInv'
    BY <2>18 DEF EndBackfill
  <2>19. ASSUME EvictHeld PROVE MakeInv'
    BY <2>19 DEF EvictHeld
  <2>20. ASSUME Deploy PROVE MakeInv'
    BY <2>20 DEF Deploy
  <2>21. ASSUME NextDay PROVE MakeInv'
    BY <2>21 DEF NextDay
  <2>22. ASSUME Toggle PROVE MakeInv'
    BY <2>22 DEF Toggle
  <2>23. ASSUME NEW f \in File, DrainNext(f) PROVE MakeInv'
    BY <2>23 DEF DrainNext
  <2>24. ASSUME NEW f \in File, BackfillNext(f) PROVE MakeInv'
    BY <2>24 DEF BackfillNext, Enqueue
  <2>25. ASSUME NEW b \in Build, WriteBuild(b) PROVE MakeInv'
    BY <2>25 DEF WriteBuild
  <2>26. ASSUME NEW r \in open, Merge(r) PROVE MakeInv'
    BY <2>26 DEF Merge
  <2>27. CASE UNCHANGED vars
    BY <2>27 DEF vars
  <2>28. QED
    BY <2>1, <2>2, <2>3, <2>4, <2>5, <2>6, <2>7, <2>8, <2>9, <2>10, <2>11, <2>12, <2>13,
       <2>14, <2>15, <2>16, <2>17, <2>18, <2>19, <2>20, <2>21, <2>22, <2>23, <2>24, <2>25,
       <2>26, <2>27
    DEF Next, BuilderStep, PublisherStep, AttemptStep, PublishSettles, Proc
<1>3. QED
  BY <1>1, <1>2, TypeInvHolds, PTL DEF Spec

-----------------------------------------------------------------------------
(* What is closed is out of the tree.                                      *)

Out(f) == disk[f] = head[f] \/ disk[f] \notin committed

Closed == {"published", "noop", "refused", "quarantined"}

CloseInv ==
  /\ \A f \in File : outbox.entries[f].status \in Closed => Out(f)
  /\ \A p \in Proc : pc[p] = "save" /\ result[p] \in Closed => Out(file[p])

\* The strengthening holds when no eviction fails, crashes or not.
LEMMA CloseInvHolds == ASSUME EvictFails = FALSE PROVE Spec => []CloseInv
<1> USE OutboxAssumption DEF CloseInv, Out, Closed, Proc
<1>1. Init => CloseInv
  BY DEF Init, Empty, NoEntry
<1>2. CloseInv /\ HolderInv /\ LockInv /\ OwnBytes /\ MakeInv /\ TypeInv /\ [Next]_vars
      => CloseInv'
  <2> SUFFICES ASSUME CloseInv, HolderInv, LockInv, OwnBytes, MakeInv, TypeInv, [Next]_vars
               PROVE  CloseInv'
    OBVIOUS
  <2>0. /\ pc \in [Proc -> PCs] /\ lock \in Proc \cup {Free} /\ mem \in [Proc -> Boxes]
        /\ outbox \in Boxes /\ file \in [Proc -> File \cup {NoFile}]
        /\ result \in [Proc -> Results] /\ disk \in [File -> Build \cup {NoBuild}]
        /\ head \in [File -> Build \cup {NoBuild}] /\ main \in [File -> Build \cup {NoBuild}]
        /\ committed \subseteq Build /\ outbox.entries \in [File -> Entries]
    BY DEF TypeInv, TypeOK, Boxes
  <2>a. \A p \in Proc : pc[p] \in Critical => lock = p /\ file[p] \in File
    BY DEF LockInv, TypeInv, Attempting, Critical
  <2>b. \A p \in Proc : pc[p] \in Critical => mem[p].entries = outbox.entries
    BY <2>a DEF HolderInv
  <2> USE <2>0, <2>a
      DEF Critical, treeVars, procVars, loopVars, buildVars, prVars, keepVars, envVars
  <2>1. ASSUME NEW p \in Proc, BeginAttempt(p) PROVE CloseInv'
    BY <2>1 DEF BeginAttempt, Finish, After
  <2>2. ASSUME NEW p \in Proc, Decide(p) PROVE CloseInv'
    BY <2>2 DEF Decide, Go
  <2>3. ASSUME NEW p \in Proc, PublishOpens(p) PROVE CloseInv'
    BY <2>3 DEF PublishOpens, Go, Publishable, Published, Counted
  <2>4. ASSUME NEW p \in Proc, PublishNoop(p) PROVE CloseInv'
    BY <2>4 DEF PublishNoop, Go, Publishable, Published
  <2>5. ASSUME NEW p \in Proc, PublishPermanent(p) PROVE CloseInv'
    BY <2>5 DEF PublishPermanent, Go
  <2>6. ASSUME NEW p \in Proc, PublishTransient(p) PROVE CloseInv'
    BY <2>6 DEF PublishTransient, Go
  <2>7. ASSUME NEW p \in Proc, CopyAside(p) PROVE CloseInv'
    BY <2>7 DEF CopyAside
  <2>8. ASSUME NEW p \in Proc, RemoveCopy(p) PROVE CloseInv'
    BY <2>8 DEF RemoveCopy
  <2>9. ASSUME NEW p \in Proc, SaveOutbox(p) PROVE CloseInv'
    <3>1. pc[p] = "save" /\ file[p] \in File /\ mem[p].entries = outbox.entries
      BY <2>9, <2>b DEF SaveOutbox
    <3>2. \/ outbox'.entries = outbox.entries
          \/ outbox'.entries = [outbox.entries EXCEPT ![file[p]].status = result[p]]
      BY <2>9, <3>1 DEF SaveOutbox, Boxes
    <3>3. UNCHANGED <<disk, head, committed>>
      BY <2>9 DEF SaveOutbox
    <3>4. \A f \in File : outbox'.entries[f].status \in Closed => Out(f)
      BY <3>1, <3>2 DEF Entries
    <3>5. \A q \in Proc : pc'[q] # "save"
      BY <2>9 DEF SaveOutbox, Finish, After
    <3>6. QED
      BY <3>3, <3>4, <3>5
  <2>10. ASSUME NEW p \in Proc, Crash(p) PROVE CloseInv'
    BY <2>10 DEF Crash
  <2>11. ASSUME GateRejects PROVE CloseInv'
    BY <2>11 DEF GateRejects, BuilderMoves
  <2>12. ASSUME GatePasses PROVE CloseInv'
    BY <2>12 DEF GatePasses, BuilderMoves
  <2>13. ASSUME FindBuild PROVE CloseInv'
    BY <2>13 DEF FindBuild, BuilderMoves
  <2>14. ASSUME CommitBuild PROVE CloseInv'
    <3>1. making \in Build /\ FileOf[making] \in File
      BY <2>14 DEF CommitBuild, TypeInv
    <3>2. /\ outbox'.entries[FileOf[making]].status = "pending"
          /\ \A f \in File \ {FileOf[making]} : outbox'.entries[f] = outbox.entries[f]
      BY <2>14, <3>1 DEF CommitBuild, Enqueue, Boxes
    <3>3. \A f \in File \ {FileOf[making]} : disk[f] # making
      BY <3>1 DEF OwnBytes
    <3>4. UNCHANGED <<disk, head>> /\ committed' = committed \cup {making}
      BY <2>14 DEF CommitBuild, Enqueue
    <3>5. \A q \in Proc : pc'[q] # "save"
      BY <2>14 DEF CommitBuild, Enqueue
    <3>6. QED
      BY <3>1, <3>2, <3>3, <3>4, <3>5
  <2>15. ASSUME BeginDrain PROVE CloseInv'
    BY <2>15 DEF BeginDrain
  <2>16. ASSUME EndDrain PROVE CloseInv'
    BY <2>16 DEF EndDrain
  <2>17. ASSUME Census PROVE CloseInv'
    BY <2>17 DEF Census
  <2>18. ASSUME EndBackfill PROVE CloseInv'
    BY <2>18 DEF EndBackfill
  <2>19. ASSUME EvictHeld PROVE CloseInv'
    <3>1. \A f \in File : outbox'.entries[f].status \in Closed =>
            outbox.entries[f].status \in Closed \/ outbox.entries[f].status = "held"
      BY <2>19 DEF EvictHeld, Boxes
    <3>2. \A f \in File :
            disk'[f] = IF outbox.entries[f].status = "held" THEN head[f] ELSE disk[f]
      BY <2>19 DEF EvictHeld
    <3>3. UNCHANGED <<head, committed, pc>> /\ \A q \in Proc : pc[q] # "save"
      BY <2>19 DEF EvictHeld
    <3>4. QED
      BY <3>1, <3>2, <3>3
  <2>20. ASSUME Deploy PROVE CloseInv'
    BY <2>20 DEF Deploy
  <2>21. ASSUME NextDay PROVE CloseInv'
    BY <2>21 DEF NextDay
  <2>22. ASSUME Toggle PROVE CloseInv'
    BY <2>22 DEF Toggle
  <2>23. ASSUME NEW f \in File, DrainNext(f) PROVE CloseInv'
    BY <2>23 DEF DrainNext
  <2>24. ASSUME NEW f \in File, BackfillNext(f) PROVE CloseInv'
    <3>1. /\ outbox'.entries[f].status = "pending"
          /\ \A g \in File \ {f} : outbox'.entries[g] = outbox.entries[g]
      BY <2>24 DEF BackfillNext, Enqueue, Boxes
    <3>2. UNCHANGED <<disk, head, committed>> /\ \A q \in Proc : pc'[q] # "save"
      BY <2>24 DEF BackfillNext, Enqueue
    <3>3. QED
      BY <3>1, <3>2
  <2>25. ASSUME NEW b \in Build, WriteBuild(b) PROVE CloseInv'
    BY <2>25 DEF WriteBuild, MakeInv
  <2>26. ASSUME NEW r \in open, Merge(r) PROVE CloseInv'
    BY <2>26 DEF Merge
  <2>27. CASE UNCHANGED vars
    BY <2>27 DEF vars
  <2>28. QED
    BY <2>1, <2>2, <2>3, <2>4, <2>5, <2>6, <2>7, <2>8, <2>9, <2>10, <2>11, <2>12, <2>13,
       <2>14, <2>15, <2>16, <2>17, <2>18, <2>19, <2>20, <2>21, <2>22, <2>23, <2>24, <2>25,
       <2>26, <2>27
    DEF Next, BuilderStep, PublisherStep, AttemptStep, PublishSettles, Proc
<1>3. QED
  BY <1>1, <1>2, TypeInvHolds, OneAttemptAtATime, HolderInvHolds, OwnBytesHolds,
     MakeInvHolds, PTL
  DEF Spec

\* publisher.py, header: where evictions succeed, a closed build has left the
\* runtime tree, whichever process crashes and whatever the builder writes.
THEOREM ClosedHasLeft == ASSUME EvictFails = FALSE PROVE Spec => []ClosedIsOut
<1>1. CloseInv => ClosedIsOut
  BY DEF CloseInv, ClosedIsOut, Out, Closed
<1>2. QED
  BY <1>1, CloseInvHolds, PTL

-----------------------------------------------------------------------------
(* What is lost was not published.  A stamp is used for one entry only, and *)
(* an entry whose request has been opened is open only until its holder     *)
(* saves it.                                                               *)

Unsent(f, stamp) == \A r \in prs : r.file = f => r.stamp # stamp

Sending(f) == \E p \in Proc : lock = p /\ file[p] = f /\ result[p] = "published"

SentInv ==
  /\ \A f \in File : outbox.entries[f].stamp \in committed \cup {Historic}
  /\ \A r \in prs : r.stamp \in committed \cup {Historic}
  /\ \A f \in File : outbox.entries[f].status = "none" => \A r \in prs : r.file # f
  /\ \A f \in todo : phase = "backfill" =>
       /\ Unsent(f, Historic)
       /\ outbox.entries[f] = NoEntry \/ outbox.entries[f].stamp # Historic
  /\ \A f \in File : outbox.entries[f].status \in {"pending", "held", "lost"} =>
       Unsent(f, outbox.entries[f].stamp) \/ Sending(f)

\* The strengthening holds while every outcome is saved and every answer heard.
LEMMA SentInvHolds == ASSUME MaxCrashes = 0, MaxLost = 0 PROVE Spec => []SentInv
<1> USE OutboxAssumption DEF SentInv, Unsent, Sending, Proc
<1>1. Init => SentInv
  BY DEF Init, Empty, NoEntry
<1>2. SentInv /\ HolderInv /\ LockInv /\ MakeInv /\ TypeInv /\ [Next]_vars => SentInv'
  <2> SUFFICES ASSUME SentInv, HolderInv, LockInv, MakeInv, TypeInv, [Next]_vars PROVE SentInv'
    OBVIOUS
  <2>0. /\ pc \in [Proc -> PCs] /\ lock \in Proc \cup {Free} /\ mem \in [Proc -> Boxes]
        /\ outbox \in Boxes /\ file \in [Proc -> File \cup {NoFile}]
        /\ result \in [Proc -> Results] /\ prs \subseteq Requests /\ open \subseteq prs
        /\ todo \subseteq File /\ crashes \in 0..MaxCrashes
        /\ committed \subseteq Build /\ outbox.entries \in [File -> Entries]
    BY DEF TypeInv, TypeOK, Boxes
  <2>a. \A p \in Proc : pc[p] \in Critical => lock = p /\ file[p] \in File
    BY DEF LockInv, TypeInv, Attempting, Critical
  <2>b. \A p \in Proc : pc[p] \in Critical =>
          mem[p].entries = outbox.entries /\ outbox.entries[file[p]].status = "pending"
    BY <2>a DEF HolderInv
  <2>c. \A p \in Proc : lock = p => pc[p] \in Critical
    BY DEF LockInv
  <2>d. \A p \in Proc : pc[p] \in Evicting <=> result[p] # "none"
    BY DEF HolderInv
  <2> USE <2>0, <2>a, <2>c
      DEF Critical, treeVars, procVars, loopVars, buildVars, prVars, keepVars, envVars
  <2>1. ASSUME NEW p \in Proc, BeginAttempt(p) PROVE SentInv'
    BY <2>1 DEF BeginAttempt, Finish, After
  <2>2. ASSUME NEW p \in Proc, Decide(p) PROVE SentInv'
    <3>1. UNCHANGED <<outbox, lock, file, committed, todo, phase, prs>>
      BY <2>2 DEF Decide, Go
    <3>2. \A f \in File : Sending(f) => Sending(f)'
      BY <2>2, <2>b, <2>d, <3>1 DEF Decide, Go, Evicting
    <3>3. QED
      BY <3>1, <3>2
  <2>3. ASSUME NEW p \in Proc, PublishOpens(p) PROVE SentInv'
    <3>1. /\ pc[p] = "publish" /\ file[p] \in File /\ lock = p
          /\ Entry(p) = outbox.entries[file[p]] /\ outbox.entries[file[p]].status = "pending"
      BY <2>3, <2>b DEF PublishOpens, Publishable, Entry
    <3>2. /\ UNCHANGED <<outbox, lock, file, committed, todo, phase>>
          /\ result' = [result EXCEPT ![p] = "published"]
      BY <2>3 DEF PublishOpens, Go
    <3>3. \A r \in prs' :
            r \in prs \/ (r.file = file[p] /\ r.stamp = outbox.entries[file[p]].stamp)
      <4>1. PICK n \in Nat : prs' \subseteq prs \cup {PullRequest(p, n)}
        BY <2>3, PushAdds DEF PublishOpens, TypeInv, TypeOK
      <4>2. PullRequest(p, n).file = file[p] /\ PullRequest(p, n).stamp = Entry(p).stamp
        BY DEF PullRequest
      <4>3. ASSUME NEW r \in prs', r = PullRequest(p, n)
            PROVE  r.file = file[p] /\ r.stamp = outbox.entries[file[p]].stamp
        BY <3>1, <4>2, <4>3, Zenon
      <4>4. QED
        BY <4>1, <4>3, Zenon
    <3>4. Sending(file[p])' /\ \A f \in File \ {file[p]} : Sending(f)' <=> Sending(f)
      BY <3>1, <3>2
    <3>5. \A f \in File : outbox'.entries[f].status = "none" => \A r \in prs' : r.file # f
      BY <3>1, <3>2, <3>3
    <3>6. \A f \in todo' : phase' = "backfill" =>
            /\ Unsent(f, Historic)'
            /\ outbox'.entries[f] = NoEntry \/ outbox'.entries[f].stamp # Historic
      BY <3>1, <3>2, <3>3 DEF NoEntry
    <3>7. \A f \in File : outbox'.entries[f].status \in {"pending", "held", "lost"} =>
            Unsent(f, outbox.entries[f].stamp)' \/ Sending(f)'
      BY <3>2, <3>3, <3>4
    <3>8. QED
      BY <3>1, <3>2, <3>3, <3>5, <3>6, <3>7
  <2>4. ASSUME NEW p \in Proc, PublishNoop(p) PROVE SentInv'
    <3>1. UNCHANGED <<outbox, lock, file, committed, todo, phase, prs>>
      BY <2>4 DEF PublishNoop, Go, Publishable
    <3>2. \A f \in File : Sending(f) => Sending(f)'
      BY <2>4, <2>b, <2>d, <3>1 DEF PublishNoop, Go, Publishable, Evicting
    <3>3. QED
      BY <3>1, <3>2
  <2>5. ASSUME NEW p \in Proc, PublishPermanent(p) PROVE SentInv'
    <3>1. UNCHANGED <<outbox, lock, file, committed, todo, phase, prs>>
      BY <2>5 DEF PublishPermanent, Go
    <3>2. \A f \in File : Sending(f) => Sending(f)'
      BY <2>5, <2>b, <2>d, <3>1 DEF PublishPermanent, Go, Evicting
    <3>3. QED
      BY <3>1, <3>2
  <2>6. ASSUME NEW p \in Proc, PublishTransient(p) PROVE SentInv'
    <3>1. UNCHANGED <<outbox, lock, file, committed, todo, phase, prs>>
      BY <2>6 DEF PublishTransient, Go, TypeInv, TypeOK
    <3>2. \A f \in File : Sending(f) => Sending(f)'
      BY <2>6, <2>b, <2>d, <3>1 DEF PublishTransient, Go, Evicting
    <3>3. QED
      BY <3>1, <3>2
  <2>7. ASSUME NEW p \in Proc, CopyAside(p) PROVE SentInv'
    BY <2>7 DEF CopyAside
  <2>8. ASSUME NEW p \in Proc, RemoveCopy(p) PROVE SentInv'
    BY <2>8 DEF RemoveCopy
  <2>9. ASSUME NEW p \in Proc, SaveOutbox(p) PROVE SentInv'
    <3>1. /\ pc[p] = "save" /\ file[p] \in File /\ lock = p /\ result[p] # "none"
          /\ mem[p].entries = outbox.entries /\ outbox.entries[file[p]].status = "pending"
      BY <2>9, <2>b, <2>d DEF SaveOutbox, Evicting
    <3>2. \/ outbox'.entries = outbox.entries /\ result[p] \notin Statuses
          \/ outbox'.entries = [outbox.entries EXCEPT ![file[p]].status = result[p]]
      BY <2>9, <3>1 DEF SaveOutbox, Boxes
    <3>3. UNCHANGED <<committed, todo, phase, prs>>
      BY <2>9 DEF SaveOutbox
    <3>4. \A f \in File \ {file[p]} : outbox'.entries[f] = outbox.entries[f] /\ ~Sending(f)
      BY <3>1, <3>2
    <3>5. /\ outbox'.entries[file[p]].stamp = outbox.entries[file[p]].stamp
          /\ outbox'.entries[file[p]].status # "none"
          /\ result[p] = "published" => outbox'.entries[file[p]].status = "published"
      BY <3>1, <3>2 DEF Entries, Statuses
    <3>6. result[p] # "published" => ~Sending(file[p])
      BY <3>1
    <3>7. \A f \in todo' : phase' = "backfill" =>
            /\ Unsent(f, Historic)'
            /\ outbox'.entries[f] = NoEntry \/ outbox'.entries[f].stamp # Historic
      BY <3>1, <3>3, <3>4, <3>5 DEF NoEntry
    <3>8. \A f \in File : outbox'.entries[f].status \in {"pending", "held", "lost"} =>
            Unsent(f, outbox'.entries[f].stamp)
      BY <3>1, <3>4, <3>5, <3>6
    <3>9. QED
      BY <3>1, <3>3, <3>4, <3>5, <3>7, <3>8
  <2>10. ASSUME NEW p \in Proc, Crash(p) PROVE SentInv'
    BY <2>10 DEF Crash
  <2>11. ASSUME GateRejects PROVE SentInv'
    BY <2>11 DEF GateRejects, BuilderMoves
  <2>12. ASSUME GatePasses PROVE SentInv'
    BY <2>12 DEF GatePasses, BuilderMoves
  <2>13. ASSUME FindBuild PROVE SentInv'
    BY <2>13 DEF FindBuild, BuilderMoves
  <2>14. ASSUME CommitBuild PROVE SentInv'
    <3>1. making \in Build \ committed /\ FileOf[making] \in File
      BY <2>14 DEF CommitBuild, TypeInv, MakeInv
    <3>2. /\ outbox'.entries[FileOf[making]].status = "pending"
          /\ outbox'.entries[FileOf[making]].stamp = making
          /\ \A g \in File \ {FileOf[making]} : outbox'.entries[g] = outbox.entries[g]
      BY <2>14, <3>1 DEF CommitBuild, Enqueue, Boxes
    <3>3. /\ UNCHANGED <<lock, prs, phase>> /\ lock = Free
          /\ committed' = committed \cup {making} /\ todo' = todo
      BY <2>14 DEF CommitBuild, Enqueue
    <3>4. Unsent(FileOf[making], making) /\ making \in committed' \cup {Historic}
      BY <2>14, <3>1, <3>3 DEF CommitBuild, MakeInv
    <3>5. \A g \in File : ~Sending(g)
      BY <3>3
    <3>6. QED
      BY <3>1, <3>2, <3>3, <3>4, <3>5
  <2>15. ASSUME BeginDrain PROVE SentInv'
    BY <2>15 DEF BeginDrain
  <2>16. ASSUME EndDrain PROVE SentInv'
    BY <2>16 DEF EndDrain
  <2>17. ASSUME Census PROVE SentInv'
    BY <2>17 DEF Census, NoEntry
  <2>18. ASSUME EndBackfill PROVE SentInv'
    BY <2>18 DEF EndBackfill
  <2>19. ASSUME EvictHeld PROVE SentInv'
    <3>1. UNCHANGED <<lock, file, result, committed, todo, phase, prs>> /\ lock = Free
      BY <2>19 DEF EvictHeld
    <3>2. \A f \in File : ~Sending(f)
      BY <3>1
    <3>3. ASSUME NEW f \in File, outbox.entries[f].status = "held"
          PROVE  /\ outbox'.entries[f].status = "refused"
                 /\ outbox'.entries[f].stamp = outbox.entries[f].stamp
                 /\ outbox.entries[f] # NoEntry
      BY <2>19, <3>3 DEF EvictHeld, Boxes, Entries, NoEntry
    <3>4. ASSUME NEW f \in File, outbox.entries[f].status # "held"
          PROVE  outbox'.entries[f] = outbox.entries[f]
      BY <2>19, <3>4 DEF EvictHeld, Boxes, Entries
    <3>5. ASSUME NEW f \in File
          PROVE  /\ outbox'.entries[f].stamp \in committed \cup {Historic}
                 /\ outbox'.entries[f].status = "none" => \A r \in prs : r.file # f
                 /\ outbox'.entries[f].status \in {"pending", "held", "lost"} =>
                      Unsent(f, outbox'.entries[f].stamp)
                 /\ outbox.entries[f] = NoEntry \/ outbox.entries[f].stamp # Historic =>
                      outbox'.entries[f] = NoEntry \/ outbox'.entries[f].stamp # Historic
      <4>1. CASE outbox.entries[f].status = "held"
        BY <4>1, <3>3
      <4>2. CASE outbox.entries[f].status # "held"
        BY <4>2, <3>2, <3>4
      <4>3. QED
        BY <4>1, <4>2
    <3>6. QED
      BY <3>1, <3>5
  <2>20. ASSUME Deploy PROVE SentInv'
    BY <2>20 DEF Deploy
  <2>21. ASSUME NextDay PROVE SentInv'
    BY <2>21 DEF NextDay
  <2>22. ASSUME Toggle PROVE SentInv'
    BY <2>22 DEF Toggle
  <2>23. ASSUME NEW f \in File, DrainNext(f) PROVE SentInv'
    BY <2>23 DEF DrainNext
  <2>24. ASSUME NEW f \in File, BackfillNext(f) PROVE SentInv'
    <3>1. f \in todo /\ phase = "backfill"
      BY <2>24 DEF BackfillNext, TypeInv
    <3>2. /\ outbox'.entries[f].status = "pending" /\ outbox'.entries[f].stamp = Historic
          /\ \A g \in File \ {f} : outbox'.entries[g] = outbox.entries[g]
      BY <2>24, <3>1 DEF BackfillNext, Enqueue, Boxes
    <3>3. /\ UNCHANGED <<lock, prs, phase>> /\ lock = Free
          /\ committed' = committed /\ todo' = todo \ {f}
      BY <2>24 DEF BackfillNext, Enqueue
    <3>4. Unsent(f, Historic) /\ Historic \in committed' \cup {Historic}
      BY <2>24, <3>1, <3>3 DEF BackfillNext
    <3>5. \A g \in File : ~Sending(g)
      BY <3>3
    <3>6. QED
      BY <3>1, <3>2, <3>3, <3>4, <3>5
  <2>25. ASSUME NEW b \in Build, WriteBuild(b) PROVE SentInv'
    BY <2>25 DEF WriteBuild
  <2>26. ASSUME NEW r \in open, Merge(r) PROVE SentInv'
    BY <2>26 DEF Merge
  <2>27. CASE UNCHANGED vars
    BY <2>27 DEF vars
  <2>28. QED
    BY <2>1, <2>2, <2>3, <2>4, <2>5, <2>6, <2>7, <2>8, <2>9, <2>10, <2>11, <2>12, <2>13,
       <2>14, <2>15, <2>16, <2>17, <2>18, <2>19, <2>20, <2>21, <2>22, <2>23, <2>24, <2>25,
       <2>26, <2>27
    DEF Next, BuilderStep, PublisherStep, AttemptStep, PublishSettles, Proc
<1>3. QED
  BY <1>1, <1>2, TypeInvHolds, OneAttemptAtATime, HolderInvHolds, MakeInvHolds, PTL DEF Spec

\* _attempt_locked: an entry is closed as lost only when nothing of it was ever
\* published, provided no process dies between its request and its save.
THEOREM LostIsUnpublished ==
  ASSUME MaxCrashes = 0, MaxLost = 0 PROVE Spec => []LostWasNotPublished
<1>1. SentInv /\ HolderInv /\ LockInv /\ TypeInv => LostWasNotPublished
  <2> SUFFICES ASSUME SentInv, HolderInv, LockInv, TypeInv,
                      NEW f \in File, outbox.entries[f].status = "lost"
               PROVE  Unsent(f, outbox.entries[f].stamp)
    BY DEF LostWasNotPublished, Unsent
  <2>1. ~Sending(f)
    BY DEF Sending, HolderInv
  <2>2. QED
    BY <2>1 DEF SentInv
<1>2. QED
  BY <1>1, SentInvHolds, HolderInvHolds, OneAttemptAtATime, TypeInvHolds, PTL

-----------------------------------------------------------------------------
(* One request in a window.  Entries are dated when they are enqueued, so   *)
(* no request of a file is younger than the date its outbox remembers, and  *)
(* no entry is older.                                                      *)

Current == IF lock = Free THEN outbox ELSE mem[lock]

WindowInv ==
  /\ \A r \in prs : r.day <= Current.published[r.file]
  /\ \A f \in File : Current.published[f] <= outbox.entries[f].day
  /\ \A f \in File : outbox.entries[f].day <= day
  /\ \A p \in Proc : pc[p] = "publish" => ~Duplicate(p)
  /\ OnePrPerWindow

\* A step that publishes nothing and enqueues nothing keeps the invariant.
LEMMA UndatedStep ==
  ASSUME WindowInv, TypeInv, TypeInv', prs' = prs, Current'.published = Current.published,
         day' >= day, \A f \in File : outbox'.entries[f].day = outbox.entries[f].day,
         \A p \in Proc : pc'[p] = "publish" => ~Duplicate(p)'
  PROVE  WindowInv'
<1>1. /\ day \in 0..MaxDay /\ day' \in 0..MaxDay
      /\ \A f \in File : outbox.entries[f].day \in 0..MaxDay
  BY DEF TypeInv, TypeOK, Boxes, Entries
<1>2. \A f \in File : outbox'.entries[f].day <= day'
  BY <1>1, OutboxAssumption DEF WindowInv
<1>3. OnePrPerWindow'
  BY DEF WindowInv, OnePrPerWindow
<1>4. QED
  BY <1>2, <1>3 DEF WindowInv

\* A new entry is dated today, and replaces an older one.
LEMMA DatedStep ==
  ASSUME WindowInv, TypeInv, NEW g \in File, prs' = prs,
         Current'.published = Current.published, day' = day,
         outbox'.entries[g].day = day,
         \A f \in File \ {g} : outbox'.entries[f].day = outbox.entries[f].day,
         \A p \in Proc : pc'[p] # "publish"
  PROVE  WindowInv'
<1>1. /\ day \in 0..MaxDay
      /\ \A f \in File : /\ outbox.entries[f].day \in 0..MaxDay
                         /\ Current.published[f] \in -1..MaxDay
  BY OutboxAssumption DEF TypeInv, TypeOK, Boxes, Entries, Current, Proc
<1>2. Current.published[g] <= day
  BY <1>1, OutboxAssumption DEF WindowInv
<1>3. \A f \in File : /\ Current'.published[f] <= outbox'.entries[f].day
                      /\ outbox'.entries[f].day <= day'
  BY <1>1, <1>2 DEF WindowInv
<1>4. OnePrPerWindow'
  BY DEF WindowInv, OnePrPerWindow
<1>5. QED
  BY <1>3, <1>4 DEF WindowInv

\* The strengthening holds while every outcome is saved and every answer heard.
LEMMA WindowInvHolds == ASSUME MaxCrashes = 0, MaxLost = 0 PROVE Spec => []WindowInv
<1> USE OutboxAssumption
<1>1. Init => WindowInv
  BY DEF Init, WindowInv, Current, OnePrPerWindow, Empty, NoEntry, Proc
<1>2. WindowInv /\ HolderInv /\ LockInv /\ TypeInv /\ TypeInv' /\ [Next]_vars => WindowInv'
  <2> SUFFICES ASSUME WindowInv, HolderInv, LockInv, TypeInv, TypeInv', [Next]_vars
               PROVE  WindowInv'
    OBVIOUS
  <2>0. /\ pc \in [Proc -> PCs] /\ lock \in Proc \cup {Free} /\ mem \in [Proc -> Boxes]
        /\ outbox \in Boxes /\ day \in 0..MaxDay /\ prs \subseteq Requests
        /\ crashes \in 0..MaxCrashes /\ outbox.entries \in [File -> Entries]
    BY DEF TypeInv, TypeOK, Boxes
  <2>a. \A p \in Proc : pc[p] \in Critical => lock = p /\ Current = mem[p] /\ file[p] \in File
    BY <2>0 DEF LockInv, Current, Proc, TypeInv, Attempting, Critical
  <2>b. \A p \in Proc : pc[p] \in Critical => mem[p].entries = outbox.entries
    BY <2>a DEF HolderInv
  <2>c. \A p \in Proc : pc[p] = "publish" => ~Duplicate(p)
    BY DEF WindowInv
  <2>d. lock # Free => pc[lock] \in Critical
    BY <2>0 DEF LockInv
  <2> USE <2>0 DEF treeVars, procVars, loopVars, buildVars, prVars, keepVars, envVars, PCs
  <2>1. ASSUME NEW p \in Proc, BeginAttempt(p) PROVE WindowInv'
    <3>1. prs' = prs /\ day' >= day /\ outbox'.entries = outbox.entries
      BY <2>1 DEF BeginAttempt, Finish, After, Boxes
    <3>2. Current'.published = Current.published
      BY <2>1, <2>a, <2>d DEF BeginAttempt, Finish, After, Current, Boxes, Proc, Critical
    <3>3. \A q \in Proc : pc'[q] = "publish" => ~Duplicate(q)'
      BY <2>1, <2>a, <2>c
      DEF BeginAttempt, Finish, After, Duplicate, Entry, Proc, Critical, Boxes
    <3>4. QED
      BY <3>1, <3>2, <3>3, UndatedStep
  <2>2. ASSUME NEW p \in Proc, Decide(p) PROVE WindowInv'
    <3>1. prs' = prs /\ day' >= day /\ outbox'.entries = outbox.entries
      BY <2>2 DEF Decide, Go, Boxes
    <3>2. Current'.published = Current.published
      BY <2>2, <2>a, <2>d DEF Decide, Go, Current, Boxes, Proc, Critical
    <3>3. \A q \in Proc : pc'[q] = "publish" => ~Duplicate(q)'
      <4>1. /\ mem'[p].entries = mem[p].entries /\ mem'[p].published = mem[p].published
            /\ file' = file
        BY <2>2 DEF Decide, Go, Boxes
      <4>2. pc'[p] = "publish" => ~Duplicate(p)
        BY <2>2 DEF Decide, Go, Refused
      <4>3. pc'[p] = "publish" => ~Duplicate(p)'
        BY <4>1, <4>2 DEF Duplicate, Entry
      <4>4. \A q \in Proc \ {p} : pc'[q] # "publish"
        BY <2>2, <2>a DEF Decide, Go, Proc, Critical
      <4>5. QED
        BY <4>3, <4>4
    <3>4. QED
      BY <3>1, <3>2, <3>3, UndatedStep
  <2>3. ASSUME NEW p \in Proc, PublishOpens(p) PROVE WindowInv'
    <3>1. /\ pc[p] = "publish" /\ lock = p /\ Current = mem[p] /\ file[p] \in File
          /\ Entry(p) = outbox.entries[file[p]] /\ ~Duplicate(p)
      BY <2>3, <2>a, <2>b, <2>c
      DEF PublishOpens, Go, Publishable, Published, Counted, Critical, Entry
    <3>2. Current'.published = [Current.published EXCEPT ![file[p]] = Entry(p).day]
      BY <2>3, <3>1
      DEF PublishOpens, Go, Publishable, Published, Counted, Current, Boxes, Proc
    <3>3. UNCHANGED <<outbox, day>> /\ \A q \in Proc : pc'[q] # "publish"
      BY <2>3, <3>1, <2>a
      DEF PublishOpens, Go, Publishable, Published, Counted, Critical, Proc
    <3>4. /\ Current.published \in [File -> -1..MaxDay] /\ Entry(p).day \in 0..MaxDay
          /\ Current.published[file[p]] <= Entry(p).day
      BY <3>1 DEF Boxes, Entries, WindowInv
    <3>5. \A f \in File : /\ Current'.published[f] <= outbox'.entries[f].day
                          /\ outbox'.entries[f].day <= day'
      BY <3>1, <3>2, <3>3, <3>4 DEF WindowInv
    <3>6. \A r \in prs : r.file \in File /\ r.day \in 0..MaxDay
      BY DEF Requests
    <3>7. \A r \in prs : r.day <= Current'.published[r.file]
      BY <3>2, <3>4, <3>6 DEF WindowInv
    <3>0. PICK n \in Nat : prs' \subseteq prs \cup {PullRequest(p, n)}
      BY <2>3, PushAdds DEF PublishOpens, TypeInv, TypeOK
    <3> DEFINE new == PullRequest(p, n)
    <3>8. prs' \subseteq prs \cup {new}
      BY <3>0
    <3>9. new.file = file[p] /\ new.day = Entry(p).day
      BY DEF PullRequest
    <3> HIDE DEF new
    <3>10. \A r \in prs' : r.day <= Current'.published[r.file]
      <4>1. new.day <= Current'.published[new.file]
        BY <3>1, <3>2, <3>4, <3>9
      <4>2. QED
        BY <3>7, <3>8, <4>1
    <3>11. ASSUME NEW q \in prs, q.file = file[p]
           PROVE  Window = 0 \/ (Abs(new.day - q.day) > Window /\ Abs(q.day - new.day) > Window)
      <4>1. q.day \in 0..MaxDay /\ q.day <= mem[p].published[file[p]]
        BY <3>1, <3>6, <3>11 DEF WindowInv
      <4>2. Window = 0 \/ Abs(Entry(p).day - mem[p].published[file[p]]) > Window
        BY <3>1, <3>4, <4>1, OutboxAssumption DEF Duplicate, Abs
      <4>3. QED
        BY <3>1, <3>4, <3>9, <4>1, <4>2, OutboxAssumption DEF Abs
    <3>12. OnePrPerWindow'
      <4> SUFFICES ASSUME NEW r \in prs', NEW q \in prs', r.file = q.file, r # q
                   PROVE  Window = 0 \/ Abs(r.day - q.day) > Window
        BY DEF OnePrPerWindow
      <4>1. CASE r \in prs /\ q \in prs
        BY <4>1 DEF WindowInv, OnePrPerWindow
      <4>2. CASE r = new /\ q \in prs
        BY <4>2, <3>9, <3>11
      <4>3. CASE r \in prs /\ q = new
        BY <4>3, <3>9, <3>11
      <4>4. QED
        BY <3>8, <4>1, <4>2, <4>3
    <3>13. QED
      BY <3>3, <3>5, <3>10, <3>12 DEF WindowInv
  <2>4. ASSUME NEW p \in Proc, PublishNoop(p) PROVE WindowInv'
    <3>1. /\ pc[p] = "publish" /\ lock = p /\ Current = mem[p] /\ file[p] \in File
          /\ Entry(p) = outbox.entries[file[p]] /\ ~Duplicate(p)
      BY <2>4, <2>a, <2>b, <2>c DEF PublishNoop, Go, Publishable, Published, Critical, Entry
    <3>2. Current'.published = [Current.published EXCEPT ![file[p]] = Entry(p).day]
      BY <2>4, <3>1 DEF PublishNoop, Go, Publishable, Published, Current, Boxes, Proc
    <3>3. UNCHANGED <<outbox, day>> /\ \A q \in Proc : pc'[q] # "publish"
      BY <2>4, <3>1, <2>a DEF PublishNoop, Go, Publishable, Published, Critical, Proc
    <3>4. /\ Current.published \in [File -> -1..MaxDay] /\ Entry(p).day \in 0..MaxDay
          /\ Current.published[file[p]] <= Entry(p).day
      BY <3>1 DEF Boxes, Entries, WindowInv
    <3>5. \A f \in File : /\ Current'.published[f] <= outbox'.entries[f].day
                          /\ outbox'.entries[f].day <= day'
      BY <3>1, <3>2, <3>3, <3>4 DEF WindowInv
    <3>6. \A r \in prs : r.file \in File /\ r.day \in 0..MaxDay
      BY DEF Requests
    <3>7. \A r \in prs : r.day <= Current'.published[r.file]
      BY <3>2, <3>4, <3>6 DEF WindowInv
    <3>8. prs' = prs
      BY <2>4 DEF PublishNoop
    <3>9. QED
      BY <3>3, <3>5, <3>7, <3>8 DEF WindowInv, OnePrPerWindow
  <2>5. ASSUME NEW p \in Proc, PublishPermanent(p) PROVE WindowInv'
    <3>1. prs' = prs /\ day' >= day /\ outbox'.entries = outbox.entries
      BY <2>5 DEF PublishPermanent, Go, Boxes
    <3>2. Current'.published = Current.published
      BY <2>5, <2>a, <2>d DEF PublishPermanent, Go, Current, Boxes, Proc, Critical
    <3>3. \A q \in Proc : pc'[q] = "publish" => ~Duplicate(q)'
      BY <2>5, <2>a, <2>c DEF PublishPermanent, Go, Duplicate, Entry, Proc, Critical, Boxes
    <3>4. QED
      BY <3>1, <3>2, <3>3, UndatedStep
  <2>6. ASSUME NEW p \in Proc, PublishTransient(p) PROVE WindowInv'
    <3>1. prs' = prs /\ day' >= day /\ outbox'.entries = outbox.entries
      BY <2>6 DEF PublishTransient, Go, Boxes, TypeInv, TypeOK
    <3>2. Current'.published = Current.published
      BY <2>6, <2>a, <2>d
      DEF PublishTransient, Go, Current, Boxes, Proc, Critical
    <3>3. \A q \in Proc : pc'[q] = "publish" => ~Duplicate(q)'
      BY <2>6, <2>a, <2>c
      DEF PublishTransient, Go, Duplicate, Entry, Proc, Critical, Boxes
    <3>4. QED
      BY <3>1, <3>2, <3>3, UndatedStep
  <2>7. ASSUME NEW p \in Proc, CopyAside(p) PROVE WindowInv'
    <3>1. prs' = prs /\ day' >= day /\ outbox'.entries = outbox.entries
      BY <2>7 DEF CopyAside, Boxes
    <3>2. Current'.published = Current.published
      BY <2>7, <2>a, <2>d DEF CopyAside, Current, Boxes, Proc, Critical
    <3>3. \A q \in Proc : pc'[q] = "publish" => ~Duplicate(q)'
      BY <2>7, <2>a, <2>c DEF CopyAside, Duplicate, Entry, Proc, Critical, Boxes
    <3>4. QED
      BY <3>1, <3>2, <3>3, UndatedStep
  <2>8. ASSUME NEW p \in Proc, RemoveCopy(p) PROVE WindowInv'
    <3>1. prs' = prs /\ day' >= day /\ outbox'.entries = outbox.entries
      BY <2>8 DEF RemoveCopy, Boxes
    <3>2. Current'.published = Current.published
      BY <2>8, <2>a, <2>d DEF RemoveCopy, Current, Boxes, Proc, Critical
    <3>3. \A q \in Proc : pc'[q] = "publish" => ~Duplicate(q)'
      BY <2>8, <2>a, <2>c DEF RemoveCopy, Duplicate, Entry, Proc, Critical, Boxes
    <3>4. QED
      BY <3>1, <3>2, <3>3, UndatedStep
  <2>9. ASSUME NEW p \in Proc, SaveOutbox(p) PROVE WindowInv'
    <3>1. prs' = prs /\ day' >= day
      BY <2>9 DEF SaveOutbox, Finish, After
    <3>d. \A f \in File : outbox'.entries[f].day = outbox.entries[f].day
      <4>1. pc[p] = "save" /\ mem[p].entries = outbox.entries /\ file[p] \in File
        BY <2>9, <2>a, <2>b DEF SaveOutbox, Critical
      <4>2. \/ outbox'.entries = outbox.entries
            \/ outbox'.entries = [outbox.entries EXCEPT ![file[p]].status = result[p]]
        BY <2>9, <4>1 DEF SaveOutbox, Boxes
      <4>3. outbox.entries \in [File -> Entries]
        BY <2>b
      <4>4. ASSUME NEW f \in File PROVE outbox'.entries[f].day = outbox.entries[f].day
        <5>1. CASE outbox'.entries = outbox.entries
          BY <5>1
        <5>2. CASE outbox'.entries = [outbox.entries EXCEPT ![file[p]].status = result[p]]
          <6>1. CASE f = file[p]
            <7>1. outbox'.entries[f] = [outbox.entries[f] EXCEPT !.status = result[p]]
              BY <5>2, <6>1, <4>1, <4>3
            <7>2. QED
              BY <7>1, <4>3, <4>4 DEF Entries
          <6>2. CASE f # file[p]
            BY <5>2, <6>2, <4>1, <4>3
          <6>3. QED
            BY <6>1, <6>2
        <5>3. QED
          BY <4>2, <5>1, <5>2
      <4>5. QED
        BY <4>4
    <3>2. Current'.published = Current.published
      BY <2>9, <2>a, <2>d DEF SaveOutbox, Finish, After, Current, Boxes, Proc, Critical
    <3>3. \A q \in Proc : pc'[q] = "publish" => ~Duplicate(q)'
      BY <2>9, <2>a, <2>c
      DEF SaveOutbox, Finish, After, Duplicate, Entry, Proc, Critical, Boxes
    <3>4. QED
      BY <3>1, <3>d, <3>2, <3>3, UndatedStep
  <2>10. ASSUME NEW p \in Proc, Crash(p) PROVE WindowInv'
    BY <2>10 DEF Crash
  <2>11. ASSUME GateRejects PROVE WindowInv'
    <3>1. prs' = prs /\ day' >= day /\ outbox'.entries = outbox.entries
      BY <2>11 DEF GateRejects, BuilderMoves, Boxes
    <3>2. Current'.published = Current.published
      BY <2>11, <2>a, <2>d DEF GateRejects, BuilderMoves, Current, Boxes, Proc, Critical
    <3>3. \A q \in Proc : pc'[q] = "publish" => ~Duplicate(q)'
      BY <2>11, <2>a, <2>c
      DEF GateRejects, BuilderMoves, Duplicate, Entry, Proc, Critical, Boxes
    <3>4. QED
      BY <3>1, <3>2, <3>3, UndatedStep
  <2>12. ASSUME GatePasses PROVE WindowInv'
    <3>1. prs' = prs /\ day' >= day /\ outbox'.entries = outbox.entries
      BY <2>12 DEF GatePasses, BuilderMoves, Boxes
    <3>2. Current'.published = Current.published
      BY <2>12, <2>a, <2>d DEF GatePasses, BuilderMoves, Current, Boxes, Proc, Critical
    <3>3. \A q \in Proc : pc'[q] = "publish" => ~Duplicate(q)'
      BY <2>12, <2>a, <2>c
      DEF GatePasses, BuilderMoves, Duplicate, Entry, Proc, Critical, Boxes
    <3>4. QED
      BY <3>1, <3>2, <3>3, UndatedStep
  <2>13. ASSUME FindBuild PROVE WindowInv'
    <3>1. prs' = prs /\ day' >= day /\ outbox'.entries = outbox.entries
      BY <2>13 DEF FindBuild, BuilderMoves, Boxes
    <3>2. Current'.published = Current.published
      BY <2>13, <2>a, <2>d DEF FindBuild, BuilderMoves, Current, Boxes, Proc, Critical
    <3>3. \A q \in Proc : pc'[q] = "publish" => ~Duplicate(q)'
      BY <2>13, <2>a, <2>c
      DEF FindBuild, BuilderMoves, Duplicate, Entry, Proc, Critical, Boxes
    <3>4. QED
      BY <3>1, <3>2, <3>3, UndatedStep
  <2>14. ASSUME CommitBuild PROVE WindowInv'
    <3>1. FileOf[making] \in File
      BY <2>14 DEF CommitBuild, TypeInv
    <3>2. prs' = prs /\ day' = day /\ lock = Free /\ lock' = Free
      BY <2>14 DEF CommitBuild, Enqueue
    <3>3. /\ outbox'.entries[FileOf[making]].day = day
          /\ \A g \in File \ {FileOf[making]} : outbox'.entries[g] = outbox.entries[g]
          /\ outbox'.published = outbox.published
      BY <2>14, <3>1 DEF CommitBuild, Enqueue, Boxes
    <3>4. Current'.published = Current.published
      BY <3>2, <3>3 DEF Current
    <3>5. \A q \in Proc : pc'[q] # "publish"
      BY <2>14, <3>2, <2>a DEF CommitBuild, Enqueue, Critical, Proc
    <3>6. QED
      BY <3>1, <3>2, <3>3, <3>4, <3>5, DatedStep
  <2>15. ASSUME BeginDrain PROVE WindowInv'
    <3>1. prs' = prs /\ day' >= day /\ outbox'.entries = outbox.entries
      BY <2>15 DEF BeginDrain, Boxes
    <3>2. Current'.published = Current.published
      BY <2>15, <2>a, <2>d DEF BeginDrain, Current, Boxes, Proc, Critical
    <3>3. \A q \in Proc : pc'[q] = "publish" => ~Duplicate(q)'
      BY <2>15, <2>a, <2>c DEF BeginDrain, Duplicate, Entry, Proc, Critical, Boxes
    <3>4. QED
      BY <3>1, <3>2, <3>3, UndatedStep
  <2>16. ASSUME EndDrain PROVE WindowInv'
    <3>1. prs' = prs /\ day' >= day /\ outbox'.entries = outbox.entries
      BY <2>16 DEF EndDrain, Boxes
    <3>2. Current'.published = Current.published
      BY <2>16, <2>a, <2>d DEF EndDrain, Current, Boxes, Proc, Critical
    <3>3. \A q \in Proc : pc'[q] = "publish" => ~Duplicate(q)'
      BY <2>16, <2>a, <2>c DEF EndDrain, Duplicate, Entry, Proc, Critical, Boxes
    <3>4. QED
      BY <3>1, <3>2, <3>3, UndatedStep
  <2>17. ASSUME Census PROVE WindowInv'
    <3>1. prs' = prs /\ day' >= day /\ outbox'.entries = outbox.entries
      BY <2>17 DEF Census, Boxes
    <3>2. Current'.published = Current.published
      BY <2>17, <2>a, <2>d DEF Census, Current, Boxes, Proc, Critical
    <3>3. \A q \in Proc : pc'[q] = "publish" => ~Duplicate(q)'
      BY <2>17, <2>a, <2>c DEF Census, Duplicate, Entry, Proc, Critical, Boxes
    <3>4. QED
      BY <3>1, <3>2, <3>3, UndatedStep
  <2>18. ASSUME EndBackfill PROVE WindowInv'
    <3>1. prs' = prs /\ day' >= day /\ outbox'.entries = outbox.entries
      BY <2>18 DEF EndBackfill, Boxes
    <3>2. Current'.published = Current.published
      BY <2>18, <2>a, <2>d DEF EndBackfill, Current, Boxes, Proc, Critical
    <3>3. \A q \in Proc : pc'[q] = "publish" => ~Duplicate(q)'
      BY <2>18, <2>a, <2>c DEF EndBackfill, Duplicate, Entry, Proc, Critical, Boxes
    <3>4. QED
      BY <3>1, <3>2, <3>3, UndatedStep
  <2>19. ASSUME EvictHeld PROVE WindowInv'
    <3>1. prs' = prs /\ day' >= day
      BY <2>19 DEF EvictHeld
    <3>d. \A f \in File : outbox'.entries[f].day = outbox.entries[f].day
      BY <2>19 DEF EvictHeld, Boxes, Entries
    <3>2. Current'.published = Current.published
      BY <2>19, <2>a, <2>d DEF EvictHeld, Current, Boxes, Proc, Critical
    <3>3. \A q \in Proc : pc'[q] = "publish" => ~Duplicate(q)'
      BY <2>19, <2>a, <2>c DEF EvictHeld, Duplicate, Entry, Proc, Critical, Boxes
    <3>4. QED
      BY <3>1, <3>d, <3>2, <3>3, UndatedStep
  <2>20. ASSUME Deploy PROVE WindowInv'
    <3>1. prs' = prs /\ day' >= day /\ outbox'.entries = outbox.entries
      BY <2>20 DEF Deploy, Boxes
    <3>2. Current'.published = Current.published
      BY <2>20, <2>a, <2>d DEF Deploy, Current, Boxes, Proc, Critical
    <3>3. \A q \in Proc : pc'[q] = "publish" => ~Duplicate(q)'
      BY <2>20, <2>a, <2>c DEF Deploy, Duplicate, Entry, Proc, Critical, Boxes
    <3>4. QED
      BY <3>1, <3>2, <3>3, UndatedStep
  <2>21. ASSUME NextDay PROVE WindowInv'
    <3>1. prs' = prs /\ day' >= day /\ outbox'.entries = outbox.entries
      BY <2>21 DEF NextDay, Boxes
    <3>2. Current'.published = Current.published
      BY <2>21, <2>a, <2>d DEF NextDay, Current, Boxes, Proc, Critical
    <3>3. \A q \in Proc : pc'[q] = "publish" => ~Duplicate(q)'
      BY <2>21, <2>a, <2>c DEF NextDay, Duplicate, Entry, Proc, Critical, Boxes
    <3>4. QED
      BY <3>1, <3>2, <3>3, UndatedStep
  <2>22. ASSUME Toggle PROVE WindowInv'
    <3>1. prs' = prs /\ day' >= day /\ outbox'.entries = outbox.entries
      BY <2>22 DEF Toggle, Boxes
    <3>2. Current'.published = Current.published
      BY <2>22, <2>a, <2>d DEF Toggle, Current, Boxes, Proc, Critical
    <3>3. \A q \in Proc : pc'[q] = "publish" => ~Duplicate(q)'
      BY <2>22, <2>a, <2>c DEF Toggle, Duplicate, Entry, Proc, Critical, Boxes
    <3>4. QED
      BY <3>1, <3>2, <3>3, UndatedStep
  <2>23. ASSUME NEW f \in File, DrainNext(f) PROVE WindowInv'
    <3>1. prs' = prs /\ day' >= day /\ outbox'.entries = outbox.entries
      BY <2>23 DEF DrainNext, Boxes
    <3>2. Current'.published = Current.published
      BY <2>23, <2>a, <2>d DEF DrainNext, Current, Boxes, Proc, Critical
    <3>3. \A q \in Proc : pc'[q] = "publish" => ~Duplicate(q)'
      BY <2>23, <2>a, <2>c DEF DrainNext, Duplicate, Entry, Proc, Critical, Boxes
    <3>4. QED
      BY <3>1, <3>2, <3>3, UndatedStep
  <2>24. ASSUME NEW f \in File, BackfillNext(f) PROVE WindowInv'
    <3>1. f \in File
      BY <2>24 DEF BackfillNext
    <3>2. prs' = prs /\ day' = day /\ lock = Free /\ lock' = Free
      BY <2>24 DEF BackfillNext, Enqueue
    <3>3. /\ outbox'.entries[f].day = day
          /\ \A g \in File \ {f} : outbox'.entries[g] = outbox.entries[g]
          /\ outbox'.published = outbox.published
      BY <2>24, <3>1 DEF BackfillNext, Enqueue, Boxes
    <3>4. Current'.published = Current.published
      BY <3>2, <3>3 DEF Current
    <3>5. \A q \in Proc : pc'[q] # "publish"
      BY <2>24, <3>2, <2>a DEF BackfillNext, Enqueue, Critical, Proc
    <3>6. QED
      BY <3>1, <3>2, <3>3, <3>4, <3>5, DatedStep
  <2>25. ASSUME NEW b \in Build, WriteBuild(b) PROVE WindowInv'
    <3>1. prs' = prs /\ day' >= day /\ outbox'.entries = outbox.entries
      BY <2>25 DEF WriteBuild, Boxes
    <3>2. Current'.published = Current.published
      BY <2>25, <2>a, <2>d DEF WriteBuild, Current, Boxes, Proc, Critical
    <3>3. \A q \in Proc : pc'[q] = "publish" => ~Duplicate(q)'
      BY <2>25, <2>a, <2>c DEF WriteBuild, Duplicate, Entry, Proc, Critical, Boxes
    <3>4. QED
      BY <3>1, <3>2, <3>3, UndatedStep
  <2>26. ASSUME NEW r \in open, Merge(r) PROVE WindowInv'
    <3>1. prs' = prs /\ day' >= day /\ outbox'.entries = outbox.entries
      BY <2>26 DEF Merge, Boxes
    <3>2. Current'.published = Current.published
      BY <2>26, <2>a, <2>d DEF Merge, Current, Boxes, Proc, Critical
    <3>3. \A q \in Proc : pc'[q] = "publish" => ~Duplicate(q)'
      BY <2>26, <2>a, <2>c DEF Merge, Duplicate, Entry, Proc, Critical, Boxes
    <3>4. QED
      BY <3>1, <3>2, <3>3, UndatedStep
  <2>27. CASE UNCHANGED vars
    <3>1. /\ prs' = prs /\ day' = day /\ outbox' = outbox /\ pc' = pc
          /\ Current' = Current
      BY <2>27 DEF vars, Current
    <3>2. \A q \in Proc : Duplicate(q)' <=> Duplicate(q)
      BY <2>27 DEF vars, Duplicate, Entry
    <3>3. QED
      BY <3>1, <3>2, <2>c, UndatedStep
  <2>28. QED
    BY <2>1, <2>2, <2>3, <2>4, <2>5, <2>6, <2>7, <2>8, <2>9, <2>10, <2>11, <2>12, <2>13,
       <2>14, <2>15, <2>16, <2>17, <2>18, <2>19, <2>20, <2>21, <2>22, <2>23, <2>24, <2>25,
       <2>26, <2>27
    DEF Next, BuilderStep, PublisherStep, AttemptStep, PublishSettles, Proc
<1>3. QED
  BY <1>1, <1>2, TypeInvHolds, OneAttemptAtATime, HolderInvHolds, PTL DEF Spec

\* publisher.refusal, duplicate_module: two requests for one file are at least a
\* window apart, whichever process publishes and however long its attempt takes.
THEOREM OneRequestPerWindow ==
  ASSUME MaxCrashes = 0, MaxLost = 0 PROVE Spec => []OnePrPerWindow
<1>1. WindowInv => OnePrPerWindow
  BY DEF WindowInv
<1>2. QED
  BY <1>1, WindowInvHolds, PTL
=============================================================================
