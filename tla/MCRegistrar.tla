---------------------------- MODULE MCRegistrar ----------------------------
(***************************************************************************)
(* Registrar on small instances.                                           *)
(***************************************************************************)
EXTENDS Registrar, TLC

CONSTANTS c1, c2

\* Users are interchangeable, and so are the contacts that decode.
MCSymmetry == Permutations(Users) \cup Permutations({c1, c2})
=============================================================================
