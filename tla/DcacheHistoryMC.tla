-------------------------- MODULE DcacheHistoryMC --------------------------
(***************************************************************************)
(* DcacheHistory for TLC: the processors are interchangeable.              *)
(***************************************************************************)
EXTENDS DcacheHistory, TLC

Symmetry == Permutations(Procs)
=============================================================================
