------------------------------ MODULE MCRimMem ------------------------------
(* RimMem on three blocks. Blocks are interchangeable; entries are not.    *)
EXTENDS RimMem, TLC

Symmetry == Permutations(Block)
=============================================================================
