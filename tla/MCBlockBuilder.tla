--------------------------- MODULE MCBlockBuilder ---------------------------
(* BlockBuilder for TLC: labels are interchangeable. *)
EXTENDS BlockBuilder

LabelSymmetry == Permutations(Labels)
=============================================================================
