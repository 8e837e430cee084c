---------------------------- MODULE MCSupervisor -----------------------------
(***************************************************************************)
(* Miners are numbers, so that a broadcast's order is a sequence of them.  *)
(***************************************************************************)
EXTENDS Supervisor
=============================================================================
