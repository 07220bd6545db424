----------------------------- MODULE MCDtmfQueue -----------------------------
(***************************************************************************)
(* Two of the containers, on small instances.  They do not meet: in a      *)
(* behaviour either the queue works or the linked list does (part), and    *)
(* what belongs to the other stays as it is.                               *)
(*                                                                         *)
(* The queue has a capacity that resets, refusals and drained states       *)
(* reach.  The nodes of the list are interchangeable, and so are its data: *)
(* a search may be for any set of them.                                    *)
(***************************************************************************)
EXTENDS DtmfQueue, LinkedList, TLC

VARIABLE part

MCSymmetry == Permutations(Nodes) \cup Permutations(Data)

MCInit == part \in {"queue", "list"} /\ Init /\ ListInit
MCNext ==
  \/ part = "queue" /\ Next /\ UNCHANGED <<part, listVars>>
  \/ part = "list" /\ ListNext /\ UNCHANGED <<part, vars>>
MCSpec == MCInit /\ [][MCNext]_<<part, vars, listVars>>
=============================================================================
