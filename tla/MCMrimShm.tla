------------------------------ MODULE MCMrimShm ------------------------------
(* MrimShm with two tools and two forked servers, each interchangeable.    *)
EXTENDS MrimShm, TLC

Symmetry == Permutations(Tool) \cup Permutations(Server)
=============================================================================
