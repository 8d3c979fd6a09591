-------------------- MODULE ProducerOutboxFaults_proofs --------------------
(***************************************************************************)
(* What ProducerOutbox keeps although processes die, answers are lost and  *)
(* evictions fail: the bytes of what was built, one request per build, and *)
(* the contract of the ledger that PublishLedger states.                   *)
(***************************************************************************)
EXTENDS ProducerOutboxOnce_proofs

\* The builds that are the only one of their file.
Sole == {b \in Build : \A c \in Build : FileOf[c] = FileOf[b] => c = b}

Sent(b) == \E r \in prs : r.content = b

Safe(b) == b \in kept \/ Sent(b)

Attempted(f) == \E p \in Proc : pc[p] \in Attempting /\ file[p] = f

\* The bytes of a build are safe before its file may be removed, and what is
\* deployed came from a request.
Stays(b) ==
  /\ b \in made => Safe(b) \/ disk[FileOf[b]] = b
  /\ b \in {main[FileOf[b]], head[FileOf[b]]} => Sent(b)
  /\ \A p \in Proc : pc[p] = "remove" /\ file[p] = FileOf[b] => Safe(b)

\* Nobody has anything to do with the file of a build that is not made.
Unborn(b) ==
  /\ disk[FileOf[b]] # b /\ ~Sent(b)
  /\ \A p \in Proc : content[p] # b
  /\ FileOf[b] \notin todo /\ ~IsPending(FileOf[b]) /\ ~Attempted(FileOf[b])

KeepInv == \A b \in Sole : Stays(b) /\ (b \notin made => Unborn(b))

\* No step loses the bytes of a sole build, whatever crashes, whichever answer
\* or eviction fails.
LEMMA KeepInvHolds == Spec => []KeepInv
<1> USE OutboxAssumption DEF Proc
<1>1. Init => KeepInv
  BY DEF Init, Empty, NoEntry, IsPending, Attempting, KeepInv, Sole, Stays, Unborn, Safe, Sent,
         Attempted
<1>2. KeepInv /\ OwnBytes /\ MakeInv /\ HolderInv /\ LockInv /\ TypeInv /\ [Next]_vars => KeepInv'
  <2> SUFFICES ASSUME KeepInv, OwnBytes, MakeInv, HolderInv, LockInv, TypeInv, [Next]_vars,
                      NEW o \in Sole
               PROVE  Stays(o)' /\ (o \notin made' => Unborn(o)')
    BY DEF KeepInv, Sole
  <2> DEFINE g == FileOf[o]
             Goal == Stays(o)' /\ (o \notin made' => Unborn(o)')
  <2>0. /\ disk \in [File -> Build \cup {NoBuild}] /\ head \in [File -> Build \cup {NoBuild}]
        /\ main \in [File -> Build \cup {NoBuild}] /\ pc \in [Proc -> PCs]
        /\ file \in [Proc -> File \cup {NoFile}] /\ content \in [Proc -> Build \cup {NoBuild}]
        /\ result \in [Proc -> Results] /\ open \subseteq prs
        /\ outbox.entries \in [File -> Entries]
        /\ o \in Build /\ g \in File /\ o # NoBuild
    BY DEF TypeInv, TypeOK, Boxes, Sole
  <2>a. \A p \in Proc : pc[p] \in Critical =>
          mem[p].entries = outbox.entries /\ file[p] \in File /\ lock = p
    BY DEF LockInv, HolderInv, TypeInv, Critical, Attempting
  <2>b. /\ {disk[g], head[g], main[g]} \subseteq {o, NoBuild}
        /\ \A p \in Proc : content[p] = o => file[p] = g
        /\ \A p \in Proc : content[p] # NoBuild /\ file[p] = g => content[p] = o
        /\ \A r \in prs : r.content = o <=> r.file = g
    <3>1. \A c \in Build : FileOf[c] = g => c = o
      BY DEF Sole
    <3>2. \A r \in prs : r.content \in Build /\ r.file \in File
      BY DEF TypeInv, TypeOK, Requests
    <3>3. QED
      BY <2>0, <3>1, <3>2 DEF OwnBytes
  <2>c. Stays(o) /\ (o \notin made => Unborn(o))
    BY DEF KeepInv
  <2>d. \A p \in Proc : pc[p] = "publish" => content[p] \in Build
    BY DEF TypeInv
  <2> USE DEF g
  <2> USE <2>0, <2>a, <2>b, <2>c
      DEF Critical, Attempting, PCs, Stays, Unborn, Safe, Sent, Attempted, IsPending, treeVars,
          procVars, loopVars, buildVars, prVars, keepVars, envVars
  <2>1. ASSUME NEW p \in Proc, BeginAttempt(p) PROVE Goal
    <3>1. file[p] \in File /\ UNCHANGED <<disk, head, main, outbox, prs, made, todo, kept>>
      BY <2>1 DEF BeginAttempt, TypeInv
    <3>2. \A r \in Proc : pc'[r] \in Attempting => pc[r] \in Attempting /\ file'[r] = file[r]
      BY <2>1 DEF BeginAttempt, Finish, After
    <3>3. \A r \in Proc : pc'[r] = "remove" => pc[r] = "remove"
      BY <2>1 DEF BeginAttempt, Finish, After
    <3>4. content'[p] \in {NoBuild, disk[file[p]]} /\ \A r \in Proc \ {p} : content'[r] = content[r]
      BY <2>1 DEF BeginAttempt, Finish
    <3>5. disk[file[p]] = o => file[p] = g
      BY <3>1 DEF OwnBytes
    <3>6. o \notin made => \A r \in Proc : content'[r] # o
      BY <3>4, <3>5
    <3>7. QED
      BY <3>1, <3>2, <3>3, <3>6
  <2>2. ASSUME NEW p \in Proc, Decide(p) PROVE Goal
    BY <2>2 DEF Decide, Go
  <2>3. ASSUME NEW p \in Proc, PublishOpens(p) PROVE Goal
    <3>1. content[p] # NoBuild /\ pc[p] = "publish"
      BY <2>3, <2>d DEF PublishOpens, Publishable
    <3>2. PICK q : /\ q.content = content[p] /\ q.file = file[p]
                   /\ prs' = prs \/ (q \in prs' /\ prs' \subseteq prs \cup {q})
                   /\ \A r \in prs : r \in prs' \/ r.file = q.file
      <4>1. CASE Push(p)
        <5>1. PICK k \in Nat :
                LET new == PullRequest(p, k)
                IN  /\ new \in prs' /\ prs' \subseteq prs \cup {new}
                    /\ \A x \in prs : x \in prs' \/ SameBranch(x, new)
          BY <4>1, PushAdds DEF TypeInv, TypeOK
        <5>2. PullRequest(p, k).content = content[p] /\ PullRequest(p, k).file = file[p]
          BY DEF PullRequest
        <5>3. QED
          BY <5>1, <5>2 DEF SameBranch
      <4>2. CASE prs' = prs
        <5>1. PullRequest(p, 0).content = content[p] /\ PullRequest(p, 0).file = file[p]
          BY DEF PullRequest
        <5>2. QED
          BY <4>2, <5>1
      <4>3. QED
        BY <2>3, <4>1, <4>2 DEF PublishOpens
    <3>4. /\ UNCHANGED <<disk, head, main, outbox, file, content, made, todo, kept>>
          /\ pc' = [pc EXCEPT ![p] = "copy"]
      BY <2>3 DEF PublishOpens, Go
    <3>5. Sent(o) => Sent(o)'
      BY <3>1, <3>2
    <3>6. o \notin made => ~Sent(o)'
      BY <3>1, <3>2
    <3>7. QED
      BY <3>1, <3>4, <3>5, <3>6
  <2>4. ASSUME NEW p \in Proc, PublishNoop(p) PROVE Goal
    BY <2>4 DEF PublishNoop, Go, Publishable, Published
  <2>5. ASSUME NEW p \in Proc, PublishPermanent(p) PROVE Goal
    BY <2>5 DEF PublishPermanent, Go
  <2>6. ASSUME NEW p \in Proc, PublishTransient(p) PROVE Goal
    <3>1. content[p] # NoBuild /\ pc[p] = "publish"
      BY <2>6, <2>d DEF PublishTransient, Publishable
    <3>2. PICK q : /\ q.content = content[p] /\ q.file = file[p]
                   /\ prs' = prs \/ (q \in prs' /\ prs' \subseteq prs \cup {q})
                   /\ \A r \in prs : r \in prs' \/ r.file = q.file
      <4>1. CASE Push(p)
        <5>1. PICK k \in Nat :
                LET new == PullRequest(p, k)
                IN  /\ new \in prs' /\ prs' \subseteq prs \cup {new}
                    /\ \A x \in prs : x \in prs' \/ SameBranch(x, new)
          BY <4>1, PushAdds DEF TypeInv, TypeOK
        <5>2. PullRequest(p, k).content = content[p] /\ PullRequest(p, k).file = file[p]
          BY DEF PullRequest
        <5>3. QED
          BY <5>1, <5>2 DEF SameBranch
      <4>2. CASE prs' = prs
        <5>1. PullRequest(p, 0).content = content[p] /\ PullRequest(p, 0).file = file[p]
          BY DEF PullRequest
        <5>2. QED
          BY <4>2, <5>1
      <4>3. QED
        BY <2>6, <4>1, <4>2 DEF PublishTransient
    <3>4. /\ UNCHANGED <<disk, head, main, outbox, file, content, made, todo, kept>>
          /\ pc' = [pc EXCEPT ![p] = "save"]
      BY <2>6 DEF PublishTransient, Go
    <3>5. Sent(o) => Sent(o)'
      BY <3>1, <3>2
    <3>6. o \notin made => ~Sent(o)'
      BY <3>1, <3>2
    <3>7. QED
      BY <3>1, <3>4, <3>5, <3>6
  <2>7. ASSUME NEW p \in Proc, CopyAside(p) PROVE Goal
    BY <2>7 DEF CopyAside
  <2>8. ASSUME NEW p \in Proc, RemoveCopy(p) PROVE Goal
    BY <2>8 DEF RemoveCopy
  <2>9. ASSUME NEW p \in Proc, SaveOutbox(p) PROVE Goal
    BY <2>9 DEF SaveOutbox, Finish, After
  <2>10. ASSUME NEW p \in Proc, Crash(p) PROVE Goal
    BY <2>10 DEF Crash
  <2>11. ASSUME GateRejects PROVE Goal
    BY <2>11 DEF GateRejects, BuilderMoves
  <2>12. ASSUME GatePasses PROVE Goal
    BY <2>12 DEF GatePasses, BuilderMoves
  <2>13. ASSUME FindBuild PROVE Goal
    BY <2>13 DEF FindBuild, BuilderMoves
  <2>14. ASSUME CommitBuild PROVE Goal
    <3>1. making \in made /\ making \in Build
      BY <2>14, OutboxAssumption DEF CommitBuild, MakeInv, TypeInv, TypeOK
    <3>2. o \notin made => FileOf[making] # g
      BY <3>1 DEF Sole
    <3>3. /\ UNCHANGED <<disk, head, main, prs, made, todo, kept, content>>
          /\ pc' = [pc EXCEPT ![Builder] = "attempt"]
          /\ file' = [file EXCEPT ![Builder] = FileOf[making]]
      BY <2>14 DEF CommitBuild, Enqueue
    <3>4. o \notin made => outbox'.entries[g] = outbox.entries[g]
      BY <2>14, <3>2 DEF CommitBuild, Enqueue
    <3>5. QED
      BY <3>2, <3>3, <3>4
  <2>15. ASSUME BeginDrain PROVE Goal
    BY <2>15 DEF BeginDrain
  <2>16. ASSUME EndDrain PROVE Goal
    BY <2>16 DEF EndDrain
  <2>17. ASSUME Census PROVE Goal
    BY <2>17 DEF Census
  <2>18. ASSUME EndBackfill PROVE Goal
    BY <2>18 DEF EndBackfill
  <2>19. ASSUME EvictHeld PROVE Goal
    BY <2>19 DEF EvictHeld
  <2>20. ASSUME Deploy PROVE Goal
    BY <2>20 DEF Deploy
  <2>21. ASSUME NextDay PROVE Goal
    BY <2>21 DEF NextDay
  <2>22. ASSUME Toggle PROVE Goal
    BY <2>22 DEF Toggle
  <2>23. ASSUME NEW f \in File, DrainNext(f) PROVE Goal
    BY <2>23 DEF DrainNext
  <2>24. ASSUME NEW f \in File, BackfillNext(f) PROVE Goal
    BY <2>24 DEF BackfillNext, Enqueue
  <2>25. ASSUME NEW b \in Build, WriteBuild(b) PROVE Goal
    <3>1. /\ b \notin made /\ made' = made \cup {b} /\ disk' = [disk EXCEPT ![FileOf[b]] = b]
          /\ UNCHANGED <<head, main, outbox, file, content, prs, todo, kept>>
          /\ \A r \in Proc : pc'[r] \in Attempting => pc'[r] = pc[r]
      BY <2>25 DEF WriteBuild
    <3>2. CASE b = o
      BY <3>1, <3>2
    <3>3. CASE b # o
      <4>1. FileOf[b] # g
        BY <3>3 DEF Sole
      <4>2. disk'[g] = disk[g] /\ (o \in made' <=> o \in made)
        BY <3>1, <3>3, <4>1
      <4>3. QED
        BY <3>1, <4>2
    <3>4. QED
      BY <3>2, <3>3
  <2>26. ASSUME NEW r \in open, Merge(r) PROVE Goal
    BY <2>26 DEF Merge
  <2>27. CASE UNCHANGED vars
    BY <2>27 DEF vars
  <2>28. QED
    BY <2>1, <2>2, <2>3, <2>4, <2>5, <2>6, <2>7, <2>8, <2>9, <2>10, <2>11, <2>12, <2>13,
       <2>14, <2>15, <2>16, <2>17, <2>18, <2>19, <2>20, <2>21, <2>22, <2>23, <2>24, <2>25,
       <2>26, <2>27
    DEF Next, BuilderStep, PublisherStep, AttemptStep, PublishSettles, Proc
<1>3. QED
  BY <1>1, <1>2, TypeInvHolds, OneAttemptAtATime, HolderInvHolds, OwnBytesHolds,
     MakeInvHolds, PTL DEF Spec

\* The bytes of a build that is the only one of its file are never lost once it
\* is made: an eviction copies before it removes, and a deployed file came from
\* a pull request.  Under every fault of the model.
THEOREM SoleBuildsStay ==
  Spec => [](\A b \in Sole \cap made : Safe(b) \/ disk[FileOf[b]] = b)
<1>1. KeepInv => \A b \in Sole \cap made : Safe(b) \/ disk[FileOf[b]] = b
  BY DEF KeepInv, Stays
<1>2. QED
  BY <1>1, KeepInvHolds, PTL

\* evict: where no file is built twice, the bytes of every build handed over are
\* in the tree, in the quarantine or in a pull request, through crashes, lost
\* answers, failed evictions and backfills.  A second build of a file may be
\* written between the copy and the unlink of an eviction, and is lost.
THEOREM BytesStay ==
  ASSUME \A b, c \in Build : FileOf[b] = FileOf[c] => b = c
  PROVE  Spec => []BytesAreKept
<1>1. Sole = Build
  BY DEF Sole
<1>2. KeepInv /\ MakeInv /\ TypeInv => BytesAreKept
  BY <1>1 DEF KeepInv, Stays, Safe, Sent, MakeInv, TypeInv, TypeOK, BytesAreKept
<1>3. QED
  BY <1>2, KeepInvHolds, MakeInvHolds, TypeInvHolds, PTL

-----------------------------------------------------------------------------
(* A retry reuses its branch.                                              *)

\* Without a backfill an entry has the stamp of a build of its file, and so has
\* its request; no build has two that are open.
StampInv ==
  /\ phase = "drain"
  /\ \A f \in File : LET e == outbox.entries[f]
                     IN  e.status # "none" => e.stamp \in Build /\ FileOf[e.stamp] = f
  /\ \A r \in prs : r.stamp \in Build /\ FileOf[r.stamp] = r.file
  /\ \A r, q \in open : r.stamp = q.stamp => r = q

\* A push keeps the requests apart.
LEMMA PushKeepsApart ==
  ASSUME StampInv, TypeInv, HolderInv, LockInv, NEW p \in Proc, pc[p] = "publish", Push(p),
         UNCHANGED <<outbox, phase>>
  PROVE  StampInv'
<1> USE DEF StampInv
<1>1. /\ Entry(p) = outbox.entries[file[p]] /\ file[p] \in File
      /\ outbox.entries[file[p]].status = "pending"
      /\ opened \in Nat /\ prs \subseteq Requests /\ open \subseteq prs
  BY DEF Entry, LockInv, HolderInv, TypeInv, TypeOK, Critical, Attempting
<1>2. Entry(p).stamp \in Build /\ FileOf[Entry(p).stamp] = file[p]
  BY <1>1
<1>3. \A n : PullRequest(p, n).stamp = Entry(p).stamp /\ PullRequest(p, n).file = file[p]
  BY DEF PullRequest
<1>4. \A r \in prs' : r.stamp \in Build /\ FileOf[r.stamp] = r.file
  <2>1. PICK n \in Nat : prs' \subseteq prs \cup {PullRequest(p, n)}
    BY <1>1, PushAdds
  <2>2. QED
    BY <1>2, <1>3, <2>1
<1>5. \A r, q \in open' : r.stamp = q.stamp => r = q
  <2>1. \A r \in open : r.stamp = Entry(p).stamp => r.file = file[p]
    BY <1>1, <1>2
  <2>2. CASE Standing(p) = {} /\ open' = open \cup {PullRequest(p, opened + 1)}
    <3>1. \A r \in open : r.stamp # Entry(p).stamp
      BY <2>1, <2>2, <1>3 DEF Standing, SameBranch
    <3>2. QED
      BY <2>2, <3>1, <1>3
  <2>3. ASSUME NEW q \in Standing(p), open' = (open \ {q}) \cup {PullRequest(p, q.number)}
        PROVE  \A r, s \in open' : r.stamp = s.stamp => r = s
    <3>1. q \in open /\ q.stamp = Entry(p).stamp
      BY <1>3 DEF Standing, SameBranch
    <3>2. \A r \in open \ {q} : r.stamp # Entry(p).stamp
      BY <3>1
    <3>3. QED
      BY <2>3, <3>2, <1>3
  <2>4. QED
    BY <2>2, <2>3 DEF Push
<1>6. QED
  BY <1>4, <1>5

\* However often an attempt is repeated, after a crash or for want of an answer,
\* its build has one request that is open.
LEMMA StampInvHolds == ASSUME Backfill = FALSE PROVE Spec => []StampInv
<1> USE OutboxAssumption DEF StampInv, Proc
<1>1. Init => StampInv
  BY DEF Init, Empty, NoEntry
<1>2. StampInv /\ MakeInv /\ HolderInv /\ LockInv /\ TypeInv /\ [Next]_vars => StampInv'
  <2> SUFFICES ASSUME StampInv, MakeInv, HolderInv, LockInv, TypeInv, [Next]_vars
               PROVE  StampInv'
    OBVIOUS
  <2>0. /\ file \in [Proc -> File \cup {NoFile}] /\ result \in [Proc -> Results]
        /\ open \subseteq prs /\ outbox.entries \in [File -> Entries]
    BY DEF TypeInv, TypeOK, Boxes
  <2>a. \A p \in Proc : pc[p] \in Critical =>
          /\ mem[p].entries = outbox.entries /\ file[p] \in File
          /\ outbox.entries[file[p]].status = "pending"
    BY DEF LockInv, HolderInv, TypeInv, Critical, Attempting
  <2> USE <2>0, <2>a
      DEF Critical, treeVars, procVars, loopVars, buildVars, prVars, keepVars, envVars
  <2>1. ASSUME NEW p \in Proc, BeginAttempt(p) PROVE StampInv'
    BY <2>1 DEF BeginAttempt, Finish, After
  <2>2. ASSUME NEW p \in Proc, Decide(p) PROVE StampInv'
    BY <2>2 DEF Decide, Go
  <2>3. ASSUME NEW p \in Proc, PublishOpens(p) PROVE StampInv'
    BY <2>3, PushKeepsApart DEF PublishOpens, Publishable
  <2>4. ASSUME NEW p \in Proc, PublishNoop(p) PROVE StampInv'
    BY <2>4 DEF PublishNoop, Go, Publishable, Published
  <2>5. ASSUME NEW p \in Proc, PublishPermanent(p) PROVE StampInv'
    BY <2>5 DEF PublishPermanent, Go
  <2>6. ASSUME NEW p \in Proc, PublishTransient(p) PROVE StampInv'
    BY <2>6, PushKeepsApart DEF PublishTransient
  <2>7. ASSUME NEW p \in Proc, CopyAside(p) PROVE StampInv'
    BY <2>7 DEF CopyAside
  <2>8. ASSUME NEW p \in Proc, RemoveCopy(p) PROVE StampInv'
    BY <2>8 DEF RemoveCopy
  <2>9. ASSUME NEW p \in Proc, SaveOutbox(p) PROVE StampInv'
    <3>1. pc[p] = "save"
      BY <2>9 DEF SaveOutbox
    <3>2. \/ outbox'.entries = outbox.entries
          \/ outbox'.entries = [outbox.entries EXCEPT ![file[p]].status = result[p]]
      BY <2>9, <3>1 DEF SaveOutbox
    <3>3. UNCHANGED <<prs, open, phase>>
      BY <2>9 DEF SaveOutbox
    <3>4. ASSUME NEW f \in File PROVE outbox'.entries[f].stamp = outbox.entries[f].stamp
      <4>1. CASE f = file[p] /\ outbox'.entries # outbox.entries
        <5>1. outbox'.entries[f] = [outbox.entries[f] EXCEPT !.status = result[p]]
          BY <3>1, <3>2, <4>1
        <5>2. QED
          BY <5>1 DEF Entries
      <4>2. QED
        BY <3>2, <4>1
    <3>5. \A f \in File \ {file[p]} : outbox'.entries[f] = outbox.entries[f]
      BY <3>2
    <3>6. QED
      BY <3>1, <3>3, <3>4, <3>5
  <2>10. ASSUME NEW p \in Proc, Crash(p) PROVE StampInv'
    BY <2>10 DEF Crash
  <2>11. ASSUME GateRejects PROVE StampInv'
    BY <2>11 DEF GateRejects, BuilderMoves
  <2>12. ASSUME GatePasses PROVE StampInv'
    BY <2>12 DEF GatePasses, BuilderMoves
  <2>13. ASSUME FindBuild PROVE StampInv'
    BY <2>13 DEF FindBuild, BuilderMoves
  <2>14. ASSUME CommitBuild PROVE StampInv'
    <3>1. making \in Build /\ FileOf[making] \in File
      BY <2>14 DEF CommitBuild, TypeInv
    <3>2. /\ outbox'.entries[FileOf[making]].stamp = making
          /\ \A f \in File \ {FileOf[making]} : outbox'.entries[f] = outbox.entries[f]
          /\ UNCHANGED <<prs, open, phase>>
      BY <2>14, <3>1 DEF CommitBuild, Enqueue
    <3>3. QED
      BY <3>1, <3>2
  <2>15. ASSUME BeginDrain PROVE StampInv'
    BY <2>15 DEF BeginDrain
  <2>16. ASSUME EndDrain PROVE StampInv'
    BY <2>16 DEF EndDrain
  <2>17. ASSUME Census PROVE StampInv'
    BY <2>17 DEF Census
  <2>18. ASSUME EndBackfill PROVE StampInv'
    BY <2>18 DEF EndBackfill
  <2>19. ASSUME EvictHeld PROVE StampInv'
    BY <2>19 DEF EvictHeld
  <2>20. ASSUME Deploy PROVE StampInv'
    BY <2>20 DEF Deploy
  <2>21. ASSUME NextDay PROVE StampInv'
    BY <2>21 DEF NextDay
  <2>22. ASSUME Toggle PROVE StampInv'
    BY <2>22 DEF Toggle
  <2>23. ASSUME NEW f \in File, DrainNext(f) PROVE StampInv'
    BY <2>23 DEF DrainNext
  <2>24. ASSUME NEW f \in File, BackfillNext(f) PROVE StampInv'
    BY <2>24 DEF BackfillNext, Enqueue
  <2>25. ASSUME NEW b \in Build, WriteBuild(b) PROVE StampInv'
    BY <2>25 DEF WriteBuild
  <2>26. ASSUME NEW r \in open, Merge(r) PROVE StampInv'
    BY <2>26 DEF Merge
  <2>27. CASE UNCHANGED vars
    BY <2>27 DEF vars
  <2>28. QED
    BY <2>1, <2>2, <2>3, <2>4, <2>5, <2>6, <2>7, <2>8, <2>9, <2>10, <2>11, <2>12, <2>13,
       <2>14, <2>15, <2>16, <2>17, <2>18, <2>19, <2>20, <2>21, <2>22, <2>23, <2>24, <2>25,
       <2>26, <2>27
    DEF Next, BuilderStep, PublisherStep, AttemptStep, PublishSettles, Proc
<1>3. QED
  BY <1>1, <1>2, TypeInvHolds, OneAttemptAtATime, HolderInvHolds, MakeInvHolds, PTL DEF Spec

\* gitops, "already exists", and the branch named by task and date: where no file
\* is built twice and nothing is backfilled, a file never has two open requests in
\* a window, although attempts die after the push or lose its answer.  After one
\* that a reviewer closed there may be another.
THEOREM OneRequestDespiteFaults ==
  ASSUME Backfill = FALSE, \A b, c \in Build : FileOf[b] = FileOf[c] => b = c
  PROVE  Spec => []OneOpenPrPerWindow
<1>1. StampInv /\ TypeInv => OneOpenPrPerWindow
  BY DEF StampInv, OneOpenPrPerWindow, TypeInv, TypeOK
<1>2. QED
  BY <1>1, StampInvHolds, TypeInvHolds, PTL

-----------------------------------------------------------------------------
(* The outbox implements the ledger.                                       *)

Own(p) == outbox.entries[file[p]]

\* What the holder of the flock knows beyond the entries: what will be
\* remembered as published, that a request it calls published is out, and that
\* what it is about to publish is clean and not a duplicate.
Knows(p) ==
  /\ mem[p].published = IF result[p] \in {"published", "noop"}
                        THEN [outbox.published EXCEPT ![file[p]] = Own(p).day]
                        ELSE outbox.published
  /\ result[p] = "published" => \E r \in prs : r.file = file[p] /\ r.stamp = Own(p).stamp
  /\ result[p] = "held" => Own(p).source = "backfill"
  /\ result[p] = "refused" => Own(p).source # "backfill"
  /\ pc[p] = "publish" => ~Duplicate(p) /\ Verdict[content[p]] = "clean"

AttemptInv == \A p \in Proc : pc[p] \in Critical => Knows(p)

\* The holder's knowledge stays true: nobody else saves or enqueues meanwhile.
LEMMA AttemptInvHolds == Spec => []AttemptInv
<1> USE OutboxAssumption DEF AttemptInv, Proc
<1>1. Init => AttemptInv
  BY DEF Init, Critical
<1>2. AttemptInv /\ HolderInv /\ LockInv /\ TypeInv /\ [Next]_vars => AttemptInv'
  <2> SUFFICES ASSUME AttemptInv, HolderInv, LockInv, TypeInv, [Next]_vars
               PROVE  AttemptInv'
    OBVIOUS
  <2>0. /\ file \in [Proc -> File \cup {NoFile}] /\ result \in [Proc -> Results]
        /\ pc \in [Proc -> PCs] /\ mem \in [Proc -> Boxes] /\ outbox \in Boxes
        /\ content \in [Proc -> Build \cup {NoBuild}]
    BY DEF TypeInv, TypeOK
  <2>a. \A p \in Proc : pc[p] \in Critical =>
          /\ lock = p /\ mem[p].entries = outbox.entries /\ file[p] \in File
    BY DEF LockInv, HolderInv, TypeInv, Critical, Attempting
  <2>b. \A p \in Proc : pc[p] \in {"attempt", "decide", "publish"} => result[p] = "none"
    BY <2>0 DEF HolderInv, Evicting
  <2> USE <2>0, <2>a, <2>b
      DEF Critical, treeVars, procVars, loopVars, buildVars, prVars, keepVars, envVars, PCs,
          Knows, Own, Duplicate, Entry
  <2>1. ASSUME NEW p \in Proc, BeginAttempt(p) PROVE AttemptInv'
    <3>1. UNCHANGED <<outbox, prs>>
      BY <2>1 DEF BeginAttempt
    <3>2. ASSUME NEW q \in Proc, pc'[q] \in Critical PROVE Knows(q)'
      <4>1. q = p
        BY <2>1, <3>2 DEF BeginAttempt, Finish, After
      <4>2. /\ pc'[p] = "decide" /\ result'[p] = "none" /\ mem'[p] = outbox
        BY <2>1, <3>2, <4>1 DEF BeginAttempt, Finish, After
      <4>3. QED
        BY <3>1, <4>1, <4>2
    <3>3. QED
      BY <3>2
  <2>2. ASSUME NEW p \in Proc, Decide(p) PROVE AttemptInv'
    <3>1. /\ mem'[p].entries = mem[p].entries /\ mem'[p].published = mem[p].published
          /\ UNCHANGED <<outbox, file, content, prs>> /\ pc[p] = "decide"
      BY <2>2 DEF Decide, Boxes
    <3>2. /\ pc' = [pc EXCEPT ![p] = pc'[p]] /\ result' = [result EXCEPT ![p] = result'[p]]
          /\ \A q \in Proc \ {p} : mem'[q] = mem[q]
      BY <2>2 DEF Decide, Go
    <3>3. /\ result'[p] \notin {"published", "noop"}
          /\ result'[p] = "held" => Entry(p).source = "backfill"
          /\ result'[p] = "refused" => Entry(p).source # "backfill"
          /\ pc'[p] = "publish" => ~Duplicate(p) /\ Verdict[content[p]] = "clean"
      BY <2>2 DEF Decide, Go, Refused
    <3>4. Duplicate(p)' <=> Duplicate(p)
      BY <3>1
    <3>5. Knows(p)'
      BY <3>1, <3>3, <3>4
    <3>6. ASSUME NEW q \in Proc \ {p} PROVE pc'[q] \notin Critical
      BY <3>1, <3>2
    <3>7. QED
      BY <3>5, <3>6
  <2>3. ASSUME NEW p \in Proc, PublishOpens(p) PROVE AttemptInv'
    <3>1. PICK n \in Nat : PullRequest(p, n) \in prs'
      BY <2>3, PushAdds DEF PublishOpens, TypeInv, TypeOK
    <3>2. PullRequest(p, n).file = file[p] /\ PullRequest(p, n).stamp = Entry(p).stamp
      BY DEF PullRequest
    <3>3. \E r \in prs' : r.file = file[p] /\ r.stamp = Own(p).stamp
      BY <2>3, <3>1, <3>2 DEF PublishOpens, Publishable, Entry, Own
    <3>4. QED
      BY <2>3, <3>3 DEF PublishOpens, Go, Publishable, Published, Counted
  <2>4. ASSUME NEW p \in Proc, PublishNoop(p) PROVE AttemptInv'
    BY <2>4 DEF PublishNoop, Go, Publishable, Published
  <2>5. ASSUME NEW p \in Proc, PublishPermanent(p) PROVE AttemptInv'
    BY <2>5 DEF PublishPermanent, Go
  <2>6. ASSUME NEW p \in Proc, PublishTransient(p) PROVE AttemptInv'
    BY <2>6 DEF PublishTransient, Go
  <2>7. ASSUME NEW p \in Proc, CopyAside(p) PROVE AttemptInv'
    BY <2>7 DEF CopyAside
  <2>8. ASSUME NEW p \in Proc, RemoveCopy(p) PROVE AttemptInv'
    BY <2>8 DEF RemoveCopy
  <2>9. ASSUME NEW p \in Proc, SaveOutbox(p) PROVE AttemptInv'
    BY <2>9 DEF SaveOutbox, Finish, After
  <2>10. ASSUME NEW p \in Proc, Crash(p) PROVE AttemptInv'
    BY <2>10 DEF Crash
  <2>11. ASSUME GateRejects PROVE AttemptInv'
    BY <2>11 DEF GateRejects, BuilderMoves
  <2>12. ASSUME GatePasses PROVE AttemptInv'
    BY <2>12 DEF GatePasses, BuilderMoves
  <2>13. ASSUME FindBuild PROVE AttemptInv'
    BY <2>13 DEF FindBuild, BuilderMoves
  <2>14. ASSUME CommitBuild PROVE AttemptInv'
    BY <2>14 DEF CommitBuild, Enqueue
  <2>15. ASSUME BeginDrain PROVE AttemptInv'
    BY <2>15 DEF BeginDrain
  <2>16. ASSUME EndDrain PROVE AttemptInv'
    BY <2>16 DEF EndDrain
  <2>17. ASSUME Census PROVE AttemptInv'
    BY <2>17 DEF Census
  <2>18. ASSUME EndBackfill PROVE AttemptInv'
    BY <2>18 DEF EndBackfill
  <2>19. ASSUME EvictHeld PROVE AttemptInv'
    BY <2>19 DEF EvictHeld
  <2>20. ASSUME Deploy PROVE AttemptInv'
    BY <2>20 DEF Deploy
  <2>21. ASSUME NextDay PROVE AttemptInv'
    BY <2>21 DEF NextDay
  <2>22. ASSUME Toggle PROVE AttemptInv'
    BY <2>22 DEF Toggle
  <2>23. ASSUME NEW f \in File, DrainNext(f) PROVE AttemptInv'
    BY <2>23 DEF DrainNext
  <2>24. ASSUME NEW f \in File, BackfillNext(f) PROVE AttemptInv'
    BY <2>24 DEF BackfillNext, Enqueue
  <2>25. ASSUME NEW b \in Build, WriteBuild(b) PROVE AttemptInv'
    BY <2>25 DEF WriteBuild
  <2>26. ASSUME NEW r \in open, Merge(r) PROVE AttemptInv'
    BY <2>26 DEF Merge
  <2>27. CASE UNCHANGED vars
    BY <2>27 DEF vars
  <2>28. QED
    BY <2>1, <2>2, <2>3, <2>4, <2>5, <2>6, <2>7, <2>8, <2>9, <2>10, <2>11, <2>12, <2>13,
       <2>14, <2>15, <2>16, <2>17, <2>18, <2>19, <2>20, <2>21, <2>22, <2>23, <2>24, <2>25,
       <2>26, <2>27
    DEF Next, BuilderStep, PublisherStep, AttemptStep, PublishSettles, Proc
<1>3. QED
  BY <1>1, <1>2, TypeInvHolds, OneAttemptAtATime, HolderInvHolds, PTL DEF Spec

LedgerStep == [Ledger!Next]_(Ledger!ledgerVars)

\* A step of neither outbox nor remote is none of the ledger's.
LEMMA HiddenStep ==
  ASSUME outbox'.entries = outbox.entries, outbox'.published = outbox.published,
         UNCHANGED <<prs, opened>>
  PROVE  LedgerStep
BY DEF LedgerStep, Ledger!ledgerVars

\* A new entry, with the stamp of a build of its file or found by the census.
LEMMA EnterStep ==
  ASSUME TypeInv, NEW p \in Proc, NEW f \in File, NEW source, NEW s, Enqueue(p, f, source, s),
         \/ source = "backfill" /\ s = Historic
         \/ source = "producer" /\ s \in Build /\ FileOf[s] = f,
         UNCHANGED prVars
  PROVE  LedgerStep
<1>1. day \in 0..MaxDay /\ outbox \in Boxes
  BY DEF TypeInv, TypeOK
<1>2. /\ outbox'.published = outbox.published
      /\ outbox'.entries = [outbox.entries EXCEPT ![f] =
           [status |-> "pending", source |-> source, stamp |-> s, day |-> day]]
  BY <1>1 DEF Enqueue, Boxes
<1>3. Ledger!Enter(f)
  BY <1>1, <1>2 DEF Ledger!Enter, Ledger!Put, prVars
<1>4. QED
  BY <1>3 DEF LedgerStep, Ledger!Next

\* A request opens, or a branch is pushed again.
LEMMA OpenStep ==
  ASSUME TypeInv, HolderInv, LockInv, OwnBytes, AttemptInv, NEW p \in Proc,
         pc[p] = "publish", Push(p), UNCHANGED outbox
  PROVE  LedgerStep
<1> DEFINE f == file[p]
           r(n) == [file |-> f, stamp |-> outbox.entries[f].stamp, content |-> content[p],
                    day |-> outbox.entries[f].day, admitted |-> mem[p].budget.day,
                    number |-> n]
<1>1. /\ lock = p /\ mem[p].entries = outbox.entries /\ Knows(p) /\ f \in File
      /\ outbox.entries[f].status = "pending"
  BY DEF LockInv, HolderInv, AttemptInv, TypeInv, Critical, Attempting
<1>2. /\ content[p] \in Build /\ Verdict[content[p]] = "clean" /\ FileOf[content[p]] = f
      /\ ~Duplicate(p)
  BY <1>1, OutboxAssumption DEF TypeInv, OwnBytes, Knows
<1>3. mem[p].published = outbox.published
  <2>1. result[p] = "none"
    BY DEF HolderInv, Evicting, TypeInv, TypeOK
  <2>2. QED
    BY <1>1, <2>1 DEF Knows
<1>4. ~Ledger!Recent(f)
  <2>1. outbox.entries[f].day \in Nat /\ outbox.published[f] \in -1..MaxDay
    BY <1>1, OutboxAssumption DEF TypeInv, TypeOK, Boxes, Entries
  <2>2. QED
    BY <1>1, <1>2, <1>3, <2>1, OutboxAssumption
    DEF Duplicate, Entry, Abs, Ledger!Recent
<1>5. \A n : PullRequest(p, n) = r(n)
  BY <1>1 DEF PullRequest, Entry
<1>6. \/ opened' = opened + 1 /\ prs' = prs \cup {r(opened + 1)}
      \/ /\ \E q \in prs : /\ q.file = f /\ q.stamp = outbox.entries[f].stamp
                         /\ prs' = (prs \ {q}) \cup {r(q.number)}
         /\ UNCHANGED opened
  <2>1. \A q \in Standing(p) : q \in prs /\ q.file = f /\ q.stamp = outbox.entries[f].stamp
    BY <1>5 DEF Standing, SameBranch, TypeInv, TypeOK
  <2> HIDE DEF r
  <2>2. QED
    BY <1>5, <2>1 DEF Push
<1>7. mem[p].budget.day \in 0..MaxDay
  BY DEF TypeInv, TypeOK, Boxes
<1>8. Ledger!Open(f)
  BY <1>1, <1>2, <1>4, <1>6, <1>7 DEF Ledger!Open, Ledger!Pending, Ledger!Request
<1>9. QED
  BY <1>1, <1>8 DEF LedgerStep, Ledger!Next

\* The save of an attempt settles its own entry, or nothing.
LEMMA SaveStep ==
  ASSUME TypeInv, HolderInv, LockInv, AttemptInv, NEW p \in Proc, SaveOutbox(p)
  PROVE  LedgerStep
<1> DEFINE f == file[p]
           e == outbox.entries[f]
<1>1. /\ pc[p] = "save" /\ lock = p /\ mem[p].entries = outbox.entries /\ Knows(p)
      /\ f \in File /\ e.status = "pending" /\ UNCHANGED prVars
  BY DEF SaveOutbox, LockInv, HolderInv, AttemptInv, TypeInv, Critical, Attempting, prVars
<1>2. outbox \in Boxes /\ mem[p] \in Boxes /\ result[p] \in Results \ {"none"}
  BY <1>1 DEF TypeInv, TypeOK, HolderInv, Evicting
<1>3. outbox'.published = mem[p].published
  BY <1>2 DEF SaveOutbox, Boxes
<1>4. CASE result[p] \notin Statuses
  <2>1. outbox'.entries = outbox.entries /\ outbox'.published = outbox.published
    BY <1>1, <1>3, <1>4 DEF SaveOutbox, Knows, Statuses
  <2>2. QED
    BY <1>1, <2>1, HiddenStep DEF prVars
<1>5. CASE result[p] \in Statuses
  <2>1. outbox'.entries = [outbox.entries EXCEPT ![f] = [e EXCEPT !.status = result[p]]]
    BY <1>1, <1>2, <1>5 DEF SaveOutbox, Boxes
  <2>2. CASE result[p] \in {"published", "noop"}
    <3>1. outbox'.published = [outbox.published EXCEPT ![f] = e.day]
      BY <1>1, <1>3, <2>2 DEF Knows, Own
    <3>2. result[p] = "published" => \E r \in prs : r.file = f /\ r.stamp = e.stamp
      BY <1>1 DEF Knows, Own
    <3>3. Ledger!Publish(f)
      BY <1>1, <2>1, <2>2, <3>1, <3>2
      DEF prVars, Ledger!Publish, Ledger!Close, Ledger!Pending, Ledger!Put
    <3>4. QED
      BY <1>1, <3>3 DEF LedgerStep, Ledger!Next
  <2>3. CASE result[p] \notin {"published", "noop"}
    <3>1. outbox'.published = outbox.published
      BY <1>1, <1>3, <2>3 DEF Knows
    <3>2. \/ result[p] \in {"lost", "quarantined"}
          \/ result[p] = IF e.source = "backfill" THEN "held" ELSE "refused"
      BY <1>1, <1>2, <1>5, <2>3 DEF Knows, Own, Statuses, Results
    <3>3. Ledger!Drop(f)
      BY <1>1, <2>1, <3>1, <3>2 DEF prVars, Ledger!Drop, Ledger!Close, Ledger!Pending, Ledger!Put
    <3>4. QED
      BY <1>1, <3>3 DEF LedgerStep, Ledger!Next
  <2>4. QED
    BY <2>2, <2>3
<1>6. QED
  BY <1>4, <1>5

\* Every step of the two processes, the operator and the world.
LEMMA NextRefines ==
  ASSUME TypeInv, HolderInv, LockInv, OwnBytes, AttemptInv, [Next]_vars
  PROVE  LedgerStep
<1> USE OutboxAssumption
    DEF treeVars, procVars, loopVars, buildVars, prVars, keepVars, envVars
<1>1. ASSUME NEW p \in Proc, BeginAttempt(p) PROVE LedgerStep
  BY <1>1, HiddenStep DEF BeginAttempt, Finish, After
<1>2. ASSUME NEW p \in Proc, Decide(p) PROVE LedgerStep
  BY <1>2, HiddenStep DEF Decide, Go
<1>3. ASSUME NEW p \in Proc, PublishOpens(p) PROVE LedgerStep
  BY <1>3, OpenStep DEF PublishOpens, Publishable
<1>4. ASSUME NEW p \in Proc, PublishNoop(p) PROVE LedgerStep
  BY <1>4, HiddenStep DEF PublishNoop, Go, Publishable, Published
<1>5. ASSUME NEW p \in Proc, PublishPermanent(p) PROVE LedgerStep
  BY <1>5, HiddenStep DEF PublishPermanent, Go
<1>6. ASSUME NEW p \in Proc, PublishTransient(p) PROVE LedgerStep
  BY <1>6, HiddenStep, OpenStep DEF PublishTransient
<1>7. ASSUME NEW p \in Proc, CopyAside(p) PROVE LedgerStep
  BY <1>7, HiddenStep DEF CopyAside
<1>8. ASSUME NEW p \in Proc, RemoveCopy(p) PROVE LedgerStep
  BY <1>8, HiddenStep DEF RemoveCopy
<1>9. ASSUME NEW p \in Proc, SaveOutbox(p) PROVE LedgerStep
  BY <1>9, SaveStep
<1>10. ASSUME NEW p \in Proc, Crash(p) PROVE LedgerStep
  BY <1>10, HiddenStep DEF Crash
<1>11. ASSUME GateRejects PROVE LedgerStep
  BY <1>11, HiddenStep DEF GateRejects, BuilderMoves
<1>12. ASSUME GatePasses PROVE LedgerStep
  BY <1>12, HiddenStep DEF GatePasses, BuilderMoves
<1>13. ASSUME FindBuild PROVE LedgerStep
  BY <1>13, HiddenStep DEF FindBuild, BuilderMoves
<1>14. ASSUME CommitBuild PROVE LedgerStep
  <2>1. making \in Build /\ FileOf[making] \in File
    BY <1>14 DEF CommitBuild, TypeInv
  <2>2. QED
    BY <1>14, <2>1, EnterStep DEF CommitBuild, Proc
<1>15. ASSUME BeginDrain PROVE LedgerStep
  BY <1>15, HiddenStep DEF BeginDrain
<1>16. ASSUME EndDrain PROVE LedgerStep
  BY <1>16, HiddenStep DEF EndDrain
<1>17. ASSUME Census PROVE LedgerStep
  BY <1>17, HiddenStep DEF Census
<1>18. ASSUME EndBackfill PROVE LedgerStep
  BY <1>18, HiddenStep DEF EndBackfill
<1>19. ASSUME EvictHeld PROVE LedgerStep
  <2>1. outbox \in Boxes
    BY DEF TypeInv, TypeOK
  <2>2. Ledger!EvictHeld
    BY <1>19, <2>1 DEF EvictHeld, Boxes, Ledger!EvictHeld
  <2>3. QED
    BY <2>2 DEF LedgerStep, Ledger!Next
<1>20. ASSUME Deploy PROVE LedgerStep
  BY <1>20, HiddenStep DEF Deploy
<1>21. ASSUME NextDay PROVE LedgerStep
  BY <1>21, HiddenStep DEF NextDay
<1>22. ASSUME Toggle PROVE LedgerStep
  BY <1>22, HiddenStep DEF Toggle
<1>23. ASSUME NEW f \in File, DrainNext(f) PROVE LedgerStep
  BY <1>23, HiddenStep DEF DrainNext
<1>24. ASSUME NEW f \in File, BackfillNext(f) PROVE LedgerStep
  BY <1>24, EnterStep DEF BackfillNext, Proc
<1>25. ASSUME NEW b \in Build, WriteBuild(b) PROVE LedgerStep
  BY <1>25, HiddenStep DEF WriteBuild
<1>26. ASSUME NEW r \in open, Merge(r) PROVE LedgerStep
  BY <1>26, HiddenStep DEF Merge
<1>27. CASE UNCHANGED vars
  BY <1>27, HiddenStep DEF vars
<1>28. QED
  BY <1>1, <1>2, <1>3, <1>4, <1>5, <1>6, <1>7, <1>8, <1>9, <1>10, <1>11, <1>12, <1>13,
     <1>14, <1>15, <1>16, <1>17, <1>18, <1>19, <1>20, <1>21, <1>22, <1>23, <1>24, <1>25,
     <1>26, <1>27
  DEF Next, BuilderStep, PublisherStep, AttemptStep, PublishSettles, Proc

\* publisher.py's contract: to a reader of the outbox and of the remote, any
\* behaviour of builder, publisher and operator, deaths, lost answers and failed
\* evictions included, is one of a ledger that settles one entry at a time,
\* publishes it only with its own request, and opens a request only for a pending
\* entry outside the window of what the outbox remembers.
THEOREM ImplementsPublishLedger == Spec => RefinesPublishLedger
<1>1. Init => Ledger!Init
  BY DEF Init, Empty, NoEntry, Ledger!Init, Ledger!Absent
<1>2. TypeInv /\ HolderInv /\ LockInv /\ OwnBytes /\ AttemptInv /\ [Next]_vars
      => [Ledger!Next]_(Ledger!ledgerVars)
  BY NextRefines DEF LedgerStep
<1>3. QED
  BY <1>1, <1>2, TypeInvHolds, HolderInvHolds, OneAttemptAtATime, OwnBytesHolds,
     AttemptInvHolds, PTL DEF Spec, RefinesPublishLedger, Ledger!Spec

-----------------------------------------------------------------------------
(* What follows from the ledger alone.                                      *)

Requested(f) ==
  \E r \in prs : r.file = f /\ r.stamp = outbox.entries[f].stamp

OwnRequest == \A f \in File : outbox.entries[f].status = "published" => Requested(f)

\* publisher.py: an entry that says published has its own request on the remote, the
\* one of its file and stamp: no save of an attempt that lost the race, died or
\* heard no answer ever leaves the word without the request.
THEOREM PublishedHasItsRequest == Spec => []OwnRequest
<1>1. Ledger!Init => OwnRequest
  BY DEF Ledger!Init, Ledger!Absent, OwnRequest
<1>2. TypeInv /\ OwnRequest /\ [Ledger!Next]_(Ledger!ledgerVars) => OwnRequest'
  <2> SUFFICES ASSUME TypeInv, OwnRequest, [Ledger!Next]_(Ledger!ledgerVars) PROVE OwnRequest'
    OBVIOUS
  <2>0. outbox.entries \in [File -> Entries]
    BY DEF TypeInv, TypeOK, Boxes
  <2> USE <2>0 DEF OwnRequest, Requested, Entries, Ledger!Put, Ledger!Pending
  <2>1. ASSUME NEW f \in File, Ledger!Enter(f) PROVE OwnRequest'
    <3>1. PICK e : /\ e.status = "pending"
                   /\ outbox'.entries = [outbox.entries EXCEPT ![f] = e]
      BY <2>1 DEF Ledger!Enter
    <3>2. prs' = prs
      BY <2>1 DEF Ledger!Enter
    <3>3. QED
      BY <3>1, <3>2
  <2>2. ASSUME NEW f \in File, Ledger!Open(f) PROVE OwnRequest'
    BY <2>2 DEF Ledger!Open
  <2>3. ASSUME NEW f \in File, Ledger!Publish(f) PROVE OwnRequest'
    BY <2>3 DEF Ledger!Publish, Ledger!Close
  <2>4. ASSUME NEW f \in File, Ledger!Drop(f) PROVE OwnRequest'
    BY <2>4 DEF Ledger!Drop, Ledger!Close
  <2>5. ASSUME Ledger!EvictHeld PROVE OwnRequest'
    BY <2>5 DEF Ledger!EvictHeld
  <2>6. CASE UNCHANGED Ledger!ledgerVars
    BY <2>6 DEF Ledger!ledgerVars
  <2>7. QED
    BY <2>1, <2>2, <2>3, <2>4, <2>5, <2>6 DEF Ledger!Next
<1>3. QED
  BY <1>1, <1>2, TypeInvHolds, ImplementsPublishLedger, PTL DEF RefinesPublishLedger, Ledger!Spec

Settled(e) == e.status \in {"published", "noop", "refused", "lost", "quarantined"}

Unaltered ==
  \A f \in File : Settled(outbox.entries[f]) =>
    \/ outbox'.entries[f] = outbox.entries[f]
    \/ outbox'.entries[f].status = "pending"

\* save: an entry that is settled changes only by a new hand-over of its file.
\* Everybody writes the whole outbox back, and no such write, however late, takes
\* another entry back to what its writer had read.
THEOREM SettledStays == Spec => [][Unaltered]_vars
<1>1. TypeInv /\ [Ledger!Next]_(Ledger!ledgerVars) => Unaltered
  <2> SUFFICES ASSUME TypeInv, [Ledger!Next]_(Ledger!ledgerVars) PROVE Unaltered
    OBVIOUS
  <2>0. outbox.entries \in [File -> Entries]
    BY DEF TypeInv, TypeOK, Boxes
  <2> USE <2>0 DEF Unaltered, Settled, Entries, Ledger!Put, Ledger!Pending
  <2>1. ASSUME NEW f \in File, Ledger!Enter(f) PROVE Unaltered
    <3>1. PICK e : /\ e.status = "pending"
                   /\ outbox'.entries = [outbox.entries EXCEPT ![f] = e]
      BY <2>1 DEF Ledger!Enter
    <3>2. QED
      BY <3>1
  <2>2. ASSUME NEW f \in File, Ledger!Open(f) PROVE Unaltered
    BY <2>2 DEF Ledger!Open
  <2>3. ASSUME NEW f \in File, Ledger!Publish(f) PROVE Unaltered
    BY <2>3 DEF Ledger!Publish, Ledger!Close
  <2>4. ASSUME NEW f \in File, Ledger!Drop(f) PROVE Unaltered
    BY <2>4 DEF Ledger!Drop, Ledger!Close
  <2>5. ASSUME Ledger!EvictHeld PROVE Unaltered
    BY <2>5 DEF Ledger!EvictHeld
  <2>6. CASE UNCHANGED Ledger!ledgerVars
    BY <2>6 DEF Ledger!ledgerVars
  <2>7. QED
    BY <2>1, <2>2, <2>3, <2>4, <2>5, <2>6 DEF Ledger!Next
<1>2. QED
  BY <1>1, TypeInvHolds, ImplementsPublishLedger, PTL DEF RefinesPublishLedger, Ledger!Spec
=============================================================================
