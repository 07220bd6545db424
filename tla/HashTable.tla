----------------------------- MODULE HashTable -----------------------------
(***************************************************************************)
(* The hash table with chained entries: insertion that replaces, deletion, *)
(* growth to the next prime (into a new array, or in place when there is   *)
(* no memory for one), iteration.  All of it under the mutex of the map,   *)
(* so that nothing comes between the steps of a growth or of an iteration. *)
(* The table owns its values, as every map of registrations does.          *)
(***************************************************************************)
EXTENDS Naturals, FiniteSets, SequencesExt

CONSTANTS
  Keys,
  Values,
  None,    \* no insertion under way, no value
  Hash,    \* hash(h, k)
  Primes   \* the sizes a table can have

Entry == [key : Keys, val : Values]

ASSUME HashTableAssumption ==
  /\ Hash \in [Keys -> Nat]
  /\ Primes \in Seq(Nat \ {0}) /\ Primes # << >>
  /\ \A i, j \in DOMAIN Primes : i < j => Primes[i] < Primes[j]
  /\ None \notin Entry \cup Values

VARIABLES
  table,     \* h->table, each chain a sequence
  size,      \* h->tablelength
  prime,     \* h->primeindex
  count,     \* h->entrycount
  adding,    \* the entry being inserted, or None
  newTable,  \* the array of a growth, empty outside
  phase,     \* what the operation under way does next
  at, off,   \* its position in the array and in the chain
  visited,   \* history: the entries the iteration has returned
  freed      \* history: the values that have been freed

vars == <<table, size, prime, count, adding, newTable, phase, at, off,
          visited, freed>>

Chains(t) == UNION {ToSet(t[i]) : i \in DOMAIN t}
Content == Chains(table) \cup Chains(newTable)
Live == {e.val : e \in Content}

\* While a growth moves entries, the larger array has the next size already.
Growing == phase \in {"move", "rehash"}

TypeOK ==
  /\ prime \in DOMAIN Primes /\ size \in Nat \ {0}
  /\ IF Growing THEN size < Primes[prime] ELSE size = Primes[prime]
  /\ table \in [0 .. (IF phase = "rehash" THEN Primes[prime] ELSE size) - 1
                 -> Seq(Entry)]
  /\ IF phase = "move" THEN newTable \in [0 .. Primes[prime] - 1 -> Seq(Entry)]
                       ELSE newTable = << >>
  /\ count \in Nat
  /\ adding \in Entry \cup {None}
  /\ phase \in {"idle", "full", "move", "rehash", "link", "iter", "gone"}
  /\ at \in Nat /\ off \in Nat
  /\ visited \subseteq Entry /\ freed \subseteq Values

EmptyTable(n) == [i \in 0 .. n - 1 |-> << >>]

Init ==
  /\ prime = 1 /\ size = Primes[1] /\ table = EmptyTable(size)
  /\ newTable = << >> /\ count = 0 /\ adding = None
  /\ phase = "idle" /\ at = 0 /\ off = 1
  /\ visited = {} /\ freed = {}

-----------------------------------------------------------------------------
Index(n, k) == Hash[k] % n
Chain(k) == table[Index(size, k)]
Matches(k) == {j \in DOMAIN Chain(k) : Chain(k)[j].key = k}
FirstMatch(k) == CHOOSE j \in Matches(k) : \A i \in Matches(k) : j <= i

Search(k) == IF Matches(k) = {} THEN None ELSE Chain(k)[FirstMatch(k)].val

\* ceil(n * 0.65)
Limit(n) == (65 * n + 99) \div 100

Unlink(k) ==
  /\ table' = [table EXCEPT ![Index(size, k)] = RemoveAt(@, FirstMatch(k))]
  /\ freed' = freed \cup {Search(k)}

Fresh(v) == v \notin freed \cup Live

\* Faulty variant: no check for an entry with the same key.
InsertNoCheck(k, v) ==
  /\ phase = "idle" /\ Fresh(v)
  /\ count' = count + 1 /\ UNCHANGED <<table, freed>>
  /\ adding' = [key |-> k, val |-> v]
  /\ phase' = IF count' > Limit(size) THEN "full" ELSE "link"
  /\ UNCHANGED <<size, prime, newTable, at, off, visited>>

Insert(k, v) ==
  /\ phase = "idle" /\ Fresh(v)
  /\ IF Matches(k) = {} THEN count' = count + 1 /\ UNCHANGED <<table, freed>>
                        ELSE Unlink(k) /\ UNCHANGED count
  /\ adding' = [key |-> k, val |-> v]
  /\ phase' = IF count' > Limit(size) THEN "full" ELSE "link"
  /\ UNCHANGED <<size, prime, newTable, at, off, visited>>

\* No memory for the copy of the key: the caller frees the value.
Refuse(v) ==
  /\ phase = "idle" /\ Fresh(v)
  /\ freed' = freed \cup {v}
  /\ UNCHANGED <<table, size, prime, count, adding, newTable, phase, at, off,
                 visited>>

Link ==
  /\ phase = "link"
  /\ table' = [table EXCEPT ![Index(size, adding.key)] = Cons(adding, @)]
  /\ adding' = None /\ phase' = "idle"
  /\ UNCHANGED <<size, prime, count, newTable, at, off, visited, freed>>

\* No memory for the entry: the caller frees the value.
LinkFail ==
  /\ phase = "link"
  /\ count' = count - 1 /\ freed' = freed \cup {adding.val}
  /\ adding' = None /\ phase' = "idle"
  /\ UNCHANGED <<table, size, prime, newTable, at, off, visited>>

Delete(k) ==
  /\ phase = "idle" /\ Matches(k) # {}
  /\ Unlink(k) /\ count' = count - 1
  /\ UNCHANGED <<size, prime, adding, newTable, phase, at, off, visited>>

Destroy ==
  /\ phase = "idle"
  /\ freed' = freed \cup Live
  /\ table' = [i \in DOMAIN table |-> << >>] /\ phase' = "gone"
  /\ UNCHANGED <<size, prime, count, adding, newTable, at, off, visited>>

-----------------------------------------------------------------------------
\* Growth.  The largest prime is reached, or there is no memory at all.
NoGrowth ==
  /\ phase = "full"
  /\ phase' = "link"
  /\ UNCHANGED <<table, size, prime, count, adding, newTable, at, off, visited,
                 freed>>

GrowNew ==
  /\ phase = "full" /\ prime < Len(Primes)
  /\ prime' = prime + 1 /\ newTable' = EmptyTable(Primes[prime + 1])
  /\ phase' = "move" /\ at' = 0
  /\ UNCHANGED <<table, size, count, adding, off, visited, freed>>

\* Faulty variant: the entry is put where it was.
MoveToOldIndex ==
  /\ phase = "move" /\ at < size /\ table[at] # << >>
  /\ table' = [table EXCEPT ![at] = Tail(@)]
  /\ newTable' = [newTable EXCEPT ![at] = Cons(Head(table[at]), @)]
  /\ UNCHANGED <<size, prime, count, adding, phase, at, off, visited, freed>>

\* The head of a chain goes to the head of its chain in the new array.
Move ==
  /\ phase = "move" /\ at < size /\ table[at] # << >>
  /\ LET e == Head(table[at]) IN
       /\ table' = [table EXCEPT ![at] = Tail(@)]
       /\ newTable' = [newTable EXCEPT ![Index(Primes[prime], e.key)] = Cons(e, @)]
  /\ UNCHANGED <<size, prime, count, adding, phase, at, off, visited, freed>>

MoveOn ==
  /\ phase = "move" /\ at < size /\ table[at] = << >>
  /\ at' = at + 1
  /\ UNCHANGED <<table, size, prime, count, adding, newTable, phase, off,
                 visited, freed>>

MoveDone ==
  /\ phase = "move" /\ at = size
  /\ table' = newTable /\ newTable' = << >> /\ size' = Primes[prime]
  /\ phase' = "link"
  /\ UNCHANGED <<prime, count, adding, at, off, visited, freed>>

\* No memory for a second array, but the first can be made longer.
GrowInPlace ==
  /\ phase = "full" /\ prime < Len(Primes)
  /\ prime' = prime + 1
  /\ table' = [i \in 0 .. Primes[prime + 1] - 1 |->
                 IF i < size THEN table[i] ELSE << >>]
  /\ phase' = "rehash" /\ at' = 0 /\ off' = 1
  /\ UNCHANGED <<size, count, adding, newTable, visited, freed>>

RehashIndex == Index(Primes[prime], table[at][off].key)

RehashKeep ==
  /\ phase = "rehash" /\ at < size /\ off \in DOMAIN table[at]
  /\ RehashIndex = at
  /\ off' = off + 1
  /\ UNCHANGED <<table, size, prime, count, adding, newTable, phase, at,
                 visited, freed>>

\* Faulty variant: the entry after the one moved away is skipped.
RehashMoveSkips ==
  /\ phase = "rehash" /\ at < size /\ off \in DOMAIN table[at]
  /\ RehashIndex # at
  /\ table' = [table EXCEPT ![at] = RemoveAt(@, off),
                            ![RehashIndex] = Cons(table[at][off], @)]
  /\ off' = off + 1
  /\ UNCHANGED <<size, prime, count, adding, newTable, phase, at, visited, freed>>

\* The entry goes to the head of its chain, and the loop on to the next one.
RehashMove ==
  /\ phase = "rehash" /\ at < size /\ off \in DOMAIN table[at]
  /\ RehashIndex # at
  /\ table' = [table EXCEPT ![at] = RemoveAt(@, off),
                            ![RehashIndex] = Cons(table[at][off], @)]
  /\ UNCHANGED <<size, prime, count, adding, newTable, phase, at, off, visited,
                 freed>>

RehashOn ==
  /\ phase = "rehash" /\ at < size /\ off \notin DOMAIN table[at]
  /\ at' = at + 1 /\ off' = 1
  /\ UNCHANGED <<table, size, prime, count, adding, newTable, phase, visited,
                 freed>>

RehashDone ==
  /\ phase = "rehash" /\ at = size
  /\ size' = Primes[prime] /\ phase' = "link"
  /\ UNCHANGED <<table, prime, count, adding, newTable, at, off, visited, freed>>

-----------------------------------------------------------------------------
\* Iteration.

\* The iterator stands at the head of the first chain from n on, or is gone.
GoTo(n, seen) ==
  LET left == {i \in n .. size - 1 : table[i] # << >>} IN
  \/ /\ left = {}
     /\ phase' = "idle" /\ visited' = {} /\ UNCHANGED <<at, off>>
  \/ \E i \in left :
       /\ \A j \in left : i <= j
       /\ phase' = "iter" /\ at' = i /\ off' = 1
       /\ visited' = seen \cup {Head(table[i])}

First ==
  /\ phase = "idle"
  /\ GoTo(0, {})
  /\ UNCHANGED <<table, size, prime, count, adding, newTable, freed>>

NextInChain ==
  /\ phase = "iter" /\ off + 1 \in DOMAIN table[at]
  /\ off' = off + 1 /\ visited' = visited \cup {table[at][off + 1]}
  /\ UNCHANGED <<table, size, prime, count, adding, newTable, phase, at, freed>>

\* Faulty variant: the end of a chain is the end of the iteration.
NextChainStops ==
  /\ phase = "iter" /\ off + 1 \notin DOMAIN table[at]
  /\ GoTo(size, visited)
  /\ UNCHANGED <<table, size, prime, count, adding, newTable, freed>>

NextChain ==
  /\ phase = "iter" /\ off + 1 \notin DOMAIN table[at]
  /\ GoTo(at + 1, visited)
  /\ UNCHANGED <<table, size, prime, count, adding, newTable, freed>>

-----------------------------------------------------------------------------
Growth ==
  \/ NoGrowth \/ GrowNew \/ Move \/ MoveOn \/ MoveDone
  \/ GrowInPlace \/ RehashKeep \/ RehashMove \/ RehashOn \/ RehashDone

Next ==
  \/ \E k \in Keys, v \in Values : Insert(k, v)
  \/ \E v \in Values : Refuse(v)
  \/ \E k \in Keys : Delete(k)
  \/ Link \/ LinkFail \/ Destroy
  \/ Growth
  \/ First \/ NextInChain \/ NextChain

Spec == Init /\ [][Next]_vars

-----------------------------------------------------------------------------
\* Properties.

\* Whatever is in the table is found under its key, and nothing else is, also
\* after a growth: no entry in a chain where no search looks, no second one.
EntriesFound ==
  ~ Growing =>
    \A e \in Content : Search(e.key) = e.val

\* No value in the table has been freed: none is freed twice.
LiveNotFreed == Live \cap freed = {}

\* entrycount is the number of entries, with the one being inserted.
CountExact == phase # "gone" =>
  count = Cardinality(Content) + (IF adding = None THEN 0 ELSE 1)

\* An iteration returns every entry once before it ends.
IterationExact ==
  [][phase = "iter" => IF phase' = "iter" THEN visited' # visited
                                          ELSE visited = Content]_vars

\* The table implements the map: a growth neither adds, loses nor frees
\* anything, an insertion drops exactly what the key had.
Map == INSTANCE ValueMap WITH pairs <- Content
MapSpec == Map!Spec
=============================================================================
