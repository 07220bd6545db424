----------------------------- MODULE MCRequests -----------------------------
(***************************************************************************)
(* The requests of phones on small instances: what becomes of the          *)
(* registrations, and how a phone proves who it is, either over a clock    *)
(* that is set or while it changes its address.  A behaviour belongs to    *)
(* one of these three parts (part), and what belongs to the others stays   *)
(* as it is.                                                               *)
(***************************************************************************)
EXTENDS Registrar, Auth, TLC

CONSTANTS c1, c2, a1

VARIABLE part

\* Users are interchangeable, and so are the contacts that decode.
MCSymmetry == Permutations(Users) \cup Permutations({c1, c2})

\* A part that a behaviour does not belong to has one state.  The clock is set
\* while the phone keeps its address, or the phone changes its address under a
\* clock that goes right.
MCInit ==
  /\ part \in {"registrar", "clock", "address"}
  /\ Init
  /\ AuthInit
  /\ part = "registrar" => account = "open"
  /\ part # "address" => addr = a1

MCNext ==
  \/ part = "registrar" /\ Next /\ UNCHANGED <<part, authVars>>
  \/ part = "clock" /\ AuthNext /\ UNCHANGED <<part, vars, addr>>
  \/ part = "address" /\ AuthNext /\ UNCHANGED <<part, vars, off>>

MCSpec == MCInit /\ [][MCNext]_<<part, vars, authVars>>
=============================================================================
