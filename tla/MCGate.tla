------------------------------- MODULE MCGate -------------------------------
(* Three threads: one approved, one that comes later, one that ends.         *)
EXTENDS ActiveTurnGate
=============================================================================
