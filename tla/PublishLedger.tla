--------------------------- MODULE PublishLedger ---------------------------
(***************************************************************************)
(* What the producer's outbox promises to everyone who reads it or looks   *)
(* at the remote, with the flock, the attempts and their crashes left out. *)
(* An entry is settled once, by a step that touches no other entry; it is  *)
(* published only if its own request was opened; a request is opened only  *)
(* for a pending entry, with clean bytes of its file, and not within the   *)
(* window of what the outbox remembers.                                    *)
(***************************************************************************)
EXTENDS Integers

CONSTANTS
  File, Build, FileOf,
  Clean,       \* the builds that the scans pass
  Historic,    \* stamp of a backfilled file
  Window, MaxDay

VARIABLES
  entry,       \* File -> [status, source, stamp, day]
  noted,       \* File -> day of the last build known to be published, or -1
  sent,        \* requests opened, each with its last bytes
  opened       \* the number of the last one

ledgerVars == <<entry, noted, sent, opened>>

Absent == [status |-> "none", source |-> "none", stamp |-> Historic, day |-> 0]

Init ==
  /\ entry = [f \in File |-> Absent]
  /\ noted = [f \in File |-> -1]
  /\ sent = {} /\ opened = 0

Pending(f) == entry[f].status = "pending"

Put(f, e) == entry' = [entry EXCEPT ![f] = e]

\* A build is handed over, or an old file found; whatever was there is replaced.
Enter(f) ==
  /\ \E n \in 0..MaxDay :
       \/ Put(f, [status |-> "pending", source |-> "backfill", stamp |-> Historic, day |-> n])
       \/ \E b \in Build :
            /\ FileOf[b] = f
            /\ Put(f, [status |-> "pending", source |-> "producer", stamp |-> b, day |-> n])
  /\ UNCHANGED <<noted, sent, opened>>

\* The file is remembered as published within the window of this entry.
Recent(f) ==
  /\ Window > 0 /\ noted[f] >= 0
  /\ entry[f].day - noted[f] \in (-Window)..Window

Request(f, b, n, k) ==
  [file |-> f, stamp |-> entry[f].stamp, content |-> b, day |-> entry[f].day,
   admitted |-> n, number |-> k]

\* A request is opened, or one for this very entry gets new bytes.
Open(f) ==
  /\ Pending(f) /\ ~Recent(f)
  /\ \E b \in Clean, n \in 0..MaxDay :
       /\ FileOf[b] = f
       /\ \/ /\ opened' = opened + 1
             /\ sent' = sent \cup {Request(f, b, n, opened + 1)}
          \/ /\ \E q \in sent :
                  /\ q.file = f /\ q.stamp = entry[f].stamp
                  /\ sent' = (sent \ {q}) \cup {Request(f, b, n, q.number)}
             /\ UNCHANGED opened
  /\ UNCHANGED <<entry, noted>>

Close(f, status) ==
  /\ Pending(f)
  /\ Put(f, [entry[f] EXCEPT !.status = status])
  /\ UNCHANGED <<sent, opened>>

\* Its own request is out, or its bytes are on main already.
Publish(f) ==
  /\ \/ Close(f, "published") /\ \E r \in sent : r.file = f /\ r.stamp = entry[f].stamp
     \/ Close(f, "noop")
  /\ noted' = [noted EXCEPT ![f] = entry[f].day]

\* It is not published: not there, refused, or failed for good.  What was only
\* found and not built is held instead of refused.
Drop(f) ==
  /\ \/ Close(f, "lost") \/ Close(f, "quarantined")
     \/ Close(f, IF entry[f].source = "backfill" THEN "held" ELSE "refused")
  /\ UNCHANGED noted

\* The operator refuses everything that is held.
EvictHeld ==
  /\ \E f \in File : entry[f].status = "held"
  /\ entry' = [f \in File |-> IF entry[f].status = "held"
                              THEN [entry[f] EXCEPT !.status = "refused"] ELSE entry[f]]
  /\ UNCHANGED <<noted, sent, opened>>

Next ==
  \/ \E f \in File : Enter(f) \/ Open(f) \/ Publish(f) \/ Drop(f)
  \/ EvictHeld

Spec == Init /\ [][Next]_ledgerVars
=============================================================================
