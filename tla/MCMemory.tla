------------------------------ MODULE MCMemory -------------------------------
(* Instances of Memory small enough for TLC. *)
EXTENDS Memory, TLC

TwoRecords == 1..2
ThreeRecords == 1..3

Symmetry == Permutations(Threads) \cup Permutations(Contents)
=============================================================================
