----------------------------- MODULE BuildLedger -----------------------------
(***************************************************************************)
(* What the build queue promises to everyone who reads its sentinels and   *)
(* its files, with the daemons that keep the promise left out.  A          *)
(* directive is open, then done or given up; giving up is for ever.  It is *)
(* done in one step with bytes that passed every gate.  A file is handed   *)
(* over when its bytes have passed, and from then until the publisher      *)
(* takes it nobody touches it.                                             *)
(***************************************************************************)
CONSTANTS
  Directive, File, NoFile,
  Out,         \* Directive -> File \cup {NoFile}
  HandedOff    \* directives that another worker builds

VARIABLES
  verdict,     \* Directive -> "open", "done" or "given_up"
  bytes,       \* File -> what is on disk: "absent", "unproven" or "passed"
  stage        \* File -> where its pull request is

ledgerVars == <<verdict, bytes, stage>>

Verdicts == {"open", "done", "given_up"}
Bytes    == {"absent", "unproven", "passed"}
Stages   == {"none", "outbox", "inflight", "merged", "refused"}

Init ==
  /\ verdict = [d \in Directive |-> "open"]
  /\ bytes = [f \in File |-> "absent"]
  /\ stage = [f \in File |-> "none"]

\* An engine, a cleaner or a gate leaves other bytes, or the same bytes judged
\* anew; never under the hands of the publisher.
Work(f) ==
  /\ stage[f] # "outbox"
  /\ \E b \in Bytes \ {"absent"} : bytes' = [bytes EXCEPT ![f] = b]
  /\ UNCHANGED <<verdict, stage>>

Finish(d) ==
  /\ verdict[d] = "open"
  /\ d \in HandedOff \/ Out[d] = NoFile \/ bytes[Out[d]] = "passed"
  /\ verdict' = [verdict EXCEPT ![d] = "done"]
  /\ UNCHANGED <<bytes, stage>>

\* The publisher may refuse what it was handed, and give up one that was done.
GiveUp(d) ==
  /\ \/ verdict[d] = "open"
     \/ verdict[d] = "done" /\ Out[d] # NoFile /\ stage[Out[d]] = "outbox"
  /\ verdict' = [verdict EXCEPT ![d] = "given_up"]
  /\ UNCHANGED <<bytes, stage>>

\* Done is taken back only from one whose file is not there.
Reopen(d) ==
  /\ verdict[d] = "done"
  /\ Out[d] # NoFile
  /\ bytes[Out[d]] # "passed"
  /\ verdict' = [verdict EXCEPT ![d] = "open"]
  /\ UNCHANGED <<bytes, stage>>

\* Only the file of a directive that is done or given up is handed over.
HandOver(f) ==
  /\ bytes[f] = "passed"
  /\ \E d \in Directive : Out[d] = f /\ verdict[d] # "open"
  /\ stage' = [stage EXCEPT ![f] = "outbox"]
  /\ UNCHANGED <<verdict, bytes>>

\* The runtime copy steps aside, or goes back to bytes that were merged before.
SetAside(f) == \E b \in {"absent", "passed"} : bytes' = [bytes EXCEPT ![f] = b]

Take(f) ==
  /\ stage[f] = "outbox"
  /\ stage' = [stage EXCEPT ![f] = "inflight"]
  /\ SetAside(f)
  /\ UNCHANGED verdict

Bounce(f) ==
  /\ stage[f] = "outbox"
  /\ stage' = [stage EXCEPT ![f] = "refused"]
  /\ SetAside(f)
  /\ UNCHANGED verdict

Merge(f) ==
  /\ stage[f] = "inflight"
  /\ stage' = [stage EXCEPT ![f] = "merged"]
  /\ bytes' = [bytes EXCEPT ![f] = "passed"]
  /\ UNCHANGED verdict

Close(f) ==
  /\ stage[f] = "inflight"
  /\ stage' = [stage EXCEPT ![f] = "refused"]
  /\ UNCHANGED <<verdict, bytes>>

Next ==
  \/ \E d \in Directive : Finish(d) \/ GiveUp(d) \/ Reopen(d)
  \/ \E f \in File : Work(f) \/ HandOver(f) \/ Take(f) \/ Bounce(f) \/ Merge(f) \/ Close(f)

Spec == Init /\ [][Next]_ledgerVars
=============================================================================
