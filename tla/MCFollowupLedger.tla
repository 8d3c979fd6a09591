-------------------------- MODULE MCFollowupLedger --------------------------
(***************************************************************************)
(* Small instances of FollowupLedger for TLC: time is counted in units of  *)
(* a minute or more, and one edit arrives from the other host.             *)
(***************************************************************************)
EXTENDS FollowupLedger

CONSTANTS w1, w2, w3, r1
=============================================================================
