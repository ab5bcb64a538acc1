---------------------------- MODULE MCMultiConf ----------------------------
(***************************************************************************)
(* MultiConf for TLC: threads are interchangeable.                         *)
(***************************************************************************)
EXTENDS MultiConf, TLC

Symmetry == Permutations(Thread)

=============================================================================
