------------------------------- MODULE MCAuth -------------------------------
(***************************************************************************)
(* Auth on small instances.                                                *)
(***************************************************************************)
EXTENDS Auth, TLC

MCSymmetry == Permutations(Addrs)
=============================================================================
