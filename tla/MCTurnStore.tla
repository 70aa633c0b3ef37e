---------------------------- MODULE MCTurnStore ----------------------------
(* The turn store alone, for the faults it does not survive. *)
EXTENDS TurnStore
=============================================================================
