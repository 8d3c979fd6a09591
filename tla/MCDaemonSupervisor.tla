------------------------- MODULE MCDaemonSupervisor -------------------------
(***************************************************************************)
(* Small instances of DaemonSupervisor for TLC.                            *)
(***************************************************************************)
EXTENDS DaemonSupervisor

CONSTANTS a, b, bare
=============================================================================
