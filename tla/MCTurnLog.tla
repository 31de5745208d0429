----------------------------- MODULE MCTurnLog -----------------------------
(* Finite instances of TurnEventLog: its constants are numbers and flags.  *)
EXTENDS TurnEventLog
=============================================================================
