---------------------------- MODULE MCWriteFunnel ---------------------------
(* WriteFunnel for TLC: the requests are interchangeable. *)
EXTENDS WriteFunnel, TLC

WriteSymmetry == Permutations(Write)
=============================================================================
