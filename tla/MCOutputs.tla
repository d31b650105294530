------------------------------- MODULE MCOutputs -------------------------------
(* Packs with one output path, and a reader of it. *)
EXTENDS Outputs, TLC

CONSTANTS p1, p2, p3

PackSymmetry == Permutations(Packs)
================================================================================
