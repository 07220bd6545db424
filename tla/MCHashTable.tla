----------------------------- MODULE MCHashTable ----------------------------
(***************************************************************************)
(* Small tables: sizes 2, 3 and 5, and keys that share chains before or    *)
(* after a growth.                                                         *)
(***************************************************************************)
EXTENDS HashTable

CONSTANTS k1, k2, k3, k4, k5

MCPrimes == <<2, 3, 5>>
MCHash == [k \in Keys |-> CASE k = k1 -> 0 [] k = k2 -> 2 [] k = k3 -> 4
                            [] k = k4 -> 5 [] k = k5 -> 7]
MCSymmetry == Permutations(Values)
=============================================================================
