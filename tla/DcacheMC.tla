------------------------------ MODULE DcacheMC ------------------------------
(***************************************************************************)
(* Dcache for TLC: the processors are interchangeable.                     *)
(***************************************************************************)
EXTENDS Dcache, TLC

Symmetry == Permutations(Procs)
=============================================================================
