---------------------------- MODULE MCTurnSession ----------------------------
(***************************************************************************)
(* TurnSession on small instances: the .cfg files choose the number of     *)
(* slots and the kits, as model values.  Nothing else bounds the runs.     *)
(***************************************************************************)
EXTENDS TurnSession
=============================================================================
