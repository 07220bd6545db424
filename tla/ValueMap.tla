------------------------------ MODULE ValueMap ------------------------------
(***************************************************************************)
(* What a user of a hash table that owns its values relies on: a set of    *)
(* pairs with distinct keys, and which values have been freed.  An         *)
(* insertion first drops what the key had, then adds the new pair or, when *)
(* there is no memory, leaves the key without a value.                     *)
(***************************************************************************)
CONSTANTS
  Keys,
  Values,
  None     \* no insertion under way

VARIABLES
  pairs,   \* the pairs in the map
  adding,  \* the pair being inserted, or None
  freed    \* the values that have been freed

vars == <<pairs, adding, freed>>

Pair == [key : Keys, val : Values]

Init == pairs = {} /\ adding = None /\ freed = {}

Of(k) == {p \in pairs : p.key = k}
ValuesOf(P) == {p.val : p \in P}

Drop(P) == pairs' = pairs \ P /\ freed' = freed \cup ValuesOf(P)

Fresh(v) == v \notin freed \cup ValuesOf(pairs)

Begin(k, v) ==
  /\ adding = None /\ Fresh(v)
  /\ Drop(Of(k))
  /\ adding' = [key |-> k, val |-> v]

Commit ==
  /\ adding # None
  /\ pairs' = pairs \cup {adding} /\ adding' = None
  /\ UNCHANGED freed

\* The caller frees the value that was not taken.
Abort ==
  /\ adding # None
  /\ freed' = freed \cup {adding.val} /\ adding' = None
  /\ UNCHANGED pairs

Refuse(v) ==
  /\ adding = None /\ Fresh(v)
  /\ freed' = freed \cup {v}
  /\ UNCHANGED <<pairs, adding>>

Delete(k) == adding = None /\ Drop(Of(k)) /\ UNCHANGED adding

Destroy == adding = None /\ Drop(pairs) /\ UNCHANGED adding

Next ==
  \/ \E k \in Keys, v \in Values : Begin(k, v)
  \/ \E v \in Values : Refuse(v)
  \/ \E k \in Keys : Delete(k)
  \/ Commit \/ Abort \/ Destroy

Spec == Init /\ [][Next]_vars
=============================================================================
