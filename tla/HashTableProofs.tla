-------------------------- MODULE HashTableProofs --------------------------
(***************************************************************************)
(* For tables of any sizes and any hash: a search finds every entry and    *)
(* finds nothing else, the count is exact, an iteration is complete, and   *)
(* the table implements ValueMap.  First what a cut and a push do to an    *)
(* array of chains, then one lemma per step, then the invariant.           *)
(***************************************************************************)
EXTENDS HashTable, FiniteSetTheorems, SequenceTheorems, TLAPS

-----------------------------------------------------------------------------
\* Chains.

\* An entry linked in at the head of a chain.
LEMMA ConsChain ==
  ASSUME NEW s \in Seq(Entry), NEW e \in Entry
  PROVE  /\ Cons(e, s) \in Seq(Entry)
         /\ DOMAIN Cons(e, s) = 1 .. Len(s) + 1
         /\ \A j \in 1 .. Len(s) + 1 :
              Cons(e, s)[j] = IF j = 1 THEN e ELSE s[j - 1]
BY DEF Cons

\* An entry cut out of a chain.
LEMMA CutChain ==
  ASSUME NEW s \in Seq(Entry), NEW n \in DOMAIN s
  PROVE  /\ RemoveAt(s, n) \in Seq(Entry)
         /\ DOMAIN RemoveAt(s, n) = 1 .. Len(s) - 1
         /\ \A j \in 1 .. Len(s) - 1 :
              RemoveAt(s, n)[j] = IF j < n THEN s[j] ELSE s[j + 1]
<1> DEFINE a == SubSeq(s, 1, n - 1)
           b == SubSeq(s, n + 1, Len(s))
<1>1. /\ Len(s) \in Nat /\ n \in 1 .. Len(s)
      /\ \A j \in 1 .. Len(s) : s[j] \in Entry
  OBVIOUS
<1>2. /\ a \in Seq(Entry) /\ Len(a) = n - 1
      /\ \A j \in 1 .. n - 1 : a[j] = s[j]
  BY <1>1
<1>3. /\ b \in Seq(Entry) /\ Len(b) = Len(s) - n
      /\ \A j \in 1 .. Len(s) - n : b[j] = s[n + j]
  BY <1>1
<1>4. RemoveAt(s, n) = a \o b
  BY DEF RemoveAt
<1> HIDE DEF a, b
<1>5. /\ a \o b \in Seq(Entry) /\ Len(a \o b) = Len(s) - 1
      /\ DOMAIN (a \o b) = 1 .. Len(s) - 1
  BY <1>1, <1>2, <1>3
<1>6. ASSUME NEW j \in 1 .. Len(s) - 1
      PROVE  (a \o b)[j] = IF j < n THEN s[j] ELSE s[j + 1]
  <2>1. (a \o b)[j] = IF j <= Len(a) THEN a[j] ELSE b[j - Len(a)]
    <3>1. j \in 1 .. Len(a) + Len(b)
      BY <1>1, <1>2, <1>3
    <3> QED BY <3>1, <1>2, <1>3, ConcatProperties, Zenon
  <2>2. CASE j < n
    <3>1. j \in 1 .. n - 1 /\ j <= Len(a)
      BY <2>2, <1>1, <1>2
    <3> QED BY <2>1, <2>2, <3>1, <1>2
  <2>3. CASE ~ (j < n)
    <3>1. j - Len(a) \in 1 .. Len(s) - n /\ n + (j - Len(a)) = j + 1
      BY <2>3, <1>1, <1>2
    <3>2. ~ (j <= Len(a))
      BY <2>3, <1>1, <1>2
    <3> QED BY <2>1, <2>3, <3>1, <3>2, <1>3
  <2> QED BY <2>2, <2>3
<1> QED BY <1>4, <1>5, <1>6

\* The head of a chain is its first entry.
LEMMA TailChain ==
  ASSUME NEW s \in Seq(Entry), s # << >>
  PROVE  /\ Tail(s) = RemoveAt(s, 1) /\ 1 \in DOMAIN s /\ Head(s) = s[1]
BY DEF RemoveAt

\* Arrays of chains.

Cell(t, i, j) == i \in DOMAIN t /\ j \in DOMAIN t[i]

\* What is in the chains of an array.
LEMMA InChains ==
  ASSUME NEW t, NEW e
  PROVE  e \in Chains(t)
           <=> \E i \in DOMAIN t : \E j \in DOMAIN t[i] : e = t[i][j]
BY DEF Chains, ToSet, Cell

\* No key twice.
Distinct(t) ==
  \A i, j, h, l : Cell(t, i, j) /\ Cell(t, h, l) /\ t[i][j].key = t[h][l].key
                    => i = h /\ j = l

\* Where what is at <<a, b>> was before a cut at, or a push onto, chain i.
CutPos(i, n, a, b) == IF a = i /\ ~ (b < n) THEN b + 1 ELSE b
PushPos(i, a, b) == IF a = i THEN b - 1 ELSE b

\* u is t with e pushed onto chain i.
IsPush(D, t, i, e, u) ==
  /\ u \in [D -> Seq(Entry)]
  /\ Chains(u) = Chains(t) \cup {e}
  /\ \A h \in D \ {i} : u[h] = t[h]
  /\ Cell(u, i, 1) /\ u[i][1] = e
  /\ \A a, b : Cell(u, a, b) /\ ~ (a = i /\ b = 1) =>
       Cell(t, a, PushPos(i, a, b)) /\ u[a][b] = t[a][PushPos(i, a, b)]
  /\ Distinct(t) /\ (\A f \in Chains(t) : f.key # e.key) => Distinct(u)

\* A push adds its entry and keeps keys distinct.
LEMMA PushCell ==
  ASSUME NEW D, NEW t \in [D -> Seq(Entry)], NEW i \in D, NEW e \in Entry,
         NEW u, u = [t EXCEPT ![i] = Cons(e, @)]
  PROVE  IsPush(D, t, i, e, u)
<1>1. /\ u \in [D -> Seq(Entry)] /\ \A h \in D \ {i} : u[h] = t[h]
      /\ DOMAIN u[i] = 1 .. Len(t[i]) + 1
      /\ \A j \in 1 .. Len(t[i]) + 1 :
           u[i][j] = IF j = 1 THEN e ELSE t[i][j - 1]
  <2>1. u \in [D -> Seq(Entry)] /\ u[i] = Cons(e, t[i])
    BY ConsChain
  <2>2. \A h \in D \ {i} : u[h] = t[h]
    OBVIOUS
  <2>3. t[i] \in Seq(Entry)
    OBVIOUS
  <2>4. /\ DOMAIN Cons(e, t[i]) = 1 .. Len(t[i]) + 1
        /\ \A j \in 1 .. Len(t[i]) + 1 :
             Cons(e, t[i])[j] = IF j = 1 THEN e ELSE t[i][j - 1]
    BY <2>3, ConsChain, Zenon
  <2> QED BY <2>1, <2>2, <2>4, Zenon
<1>2. /\ DOMAIN t[i] = 1 .. Len(t[i]) /\ Len(t[i]) \in Nat
  OBVIOUS
<1>3. ToSet(u[i]) = ToSet(t[i]) \cup {e}
  <2>1. ASSUME NEW j \in DOMAIN t[i] PROVE t[i][j] \in ToSet(u[i])
    <3>1. j + 1 \in DOMAIN u[i] /\ u[i][j + 1] = t[i][j]
      BY <1>1, <1>2
    <3> QED BY <3>1 DEF ToSet
  <2>2. e \in ToSet(u[i])
    BY <1>1, <1>2 DEF ToSet
  <2>3. ASSUME NEW j \in DOMAIN u[i] PROVE u[i][j] \in ToSet(t[i]) \cup {e}
    BY <1>1, <1>2 DEF ToSet
  <2> QED BY <2>1, <2>2, <2>3 DEF ToSet
<1>4. Chains(u) = Chains(t) \cup {e}
  <2>1. DOMAIN u = D /\ DOMAIN t = D
    BY <1>1
  <2>2. \A h \in D : ToSet(u[h]) = ToSet(t[h]) \cup (IF h = i THEN {e} ELSE {})
    BY <1>1, <1>3
  <2>3. \A f : f \in Chains(u) <=> \E h \in D : f \in ToSet(u[h])
    BY <2>1 DEF Chains
  <2>4. \A f : f \in Chains(t) <=> \E h \in D : f \in ToSet(t[h])
    BY <2>1 DEF Chains
  <2> QED BY <2>2, <2>3, <2>4
<1>7. ASSUME NEW a, NEW b, Cell(u, a, b), ~ (a = i /\ b = 1)
      PROVE  LET c == IF a = i THEN b - 1 ELSE b
             IN  Cell(t, a, c) /\ u[a][b] = t[a][c]
  BY <1>7, <1>1, <1>2 DEF Cell
<1>8. Cell(u, i, 1) /\ u[i][1] = e
  BY <1>1, <1>2 DEF Cell
<1>5. ASSUME Distinct(t), \A f \in Chains(t) : f.key # e.key PROVE Distinct(u)
  <2> SUFFICES ASSUME NEW g, NEW j, NEW h, NEW l, Cell(u, g, j), Cell(u, h, l),
                      u[g][j].key = u[h][l].key
               PROVE  g = h /\ j = l
    BY DEF Distinct
  <2>2. ASSUME NEW a, NEW b, Cell(u, a, b), ~ (a = i /\ b = 1)
        PROVE  u[a][b].key # e.key
    <3> DEFINE c == IF a = i THEN b - 1 ELSE b
    <3>1. Cell(t, a, c) /\ u[a][b] = t[a][c]
      BY <1>7, <2>2
    <3>1a. u[a][b] \in Chains(t)
      BY <3>1, InChains, Zenon DEF Cell
    <3> QED BY <3>1a, <1>5
  <2>3. u[i][1] = e
    BY <1>1, <1>2
  <2>4. CASE g = i /\ j = 1
    BY <2>4, <2>2, <2>3
  <2>5. CASE h = i /\ l = 1
    BY <2>5, <2>2, <2>3
  <2>6. CASE ~ (g = i /\ j = 1) /\ ~ (h = i /\ l = 1)
    <3> DEFINE c == IF g = i THEN j - 1 ELSE j
               d == IF h = i THEN l - 1 ELSE l
    <3>1. Cell(t, g, c) /\ u[g][j] = t[g][c] /\ Cell(t, h, d) /\ u[h][l] = t[h][d]
      BY <1>7, <2>6
    <3>2. g = h /\ c = d
      BY <3>1, <1>5 DEF Distinct
    <3>3. (g = i => j \in Nat) /\ (h = i => l \in Nat)
      BY <1>1, <1>2 DEF Cell
    <3> QED BY <3>2, <3>3
  <2> QED BY <2>4, <2>5, <2>6
<1> QED BY <1>1, <1>4, <1>5, <1>7, <1>8 DEF PushPos, IsPush

\* u is t without what was at <<i, n>>.
IsCut(D, t, i, n, u) ==
  /\ u \in [D -> Seq(Entry)]
  /\ Chains(u) = Chains(t) \ {t[i][n]}
  /\ \A h \in D \ {i} : u[h] = t[h]
  /\ t[i][n] \in Chains(t)
  /\ \A a, b : Cell(u, a, b) =>
       /\ Cell(t, a, CutPos(i, n, a, b))
       /\ u[a][b] = t[a][CutPos(i, n, a, b)]
  /\ Distinct(u)

\* A cut removes its entry and nothing else.
LEMMA CutCell ==
  ASSUME NEW D, NEW t \in [D -> Seq(Entry)], NEW i \in D, NEW n \in DOMAIN t[i],
         NEW u, u = [t EXCEPT ![i] = RemoveAt(@, n)], Distinct(t)
  PROVE  IsCut(D, t, i, n, u)
<1>1. /\ u \in [D -> Seq(Entry)] /\ \A h \in D \ {i} : u[h] = t[h]
      /\ DOMAIN u[i] = 1 .. Len(t[i]) - 1
      /\ \A j \in 1 .. Len(t[i]) - 1 :
           u[i][j] = IF j < n THEN t[i][j] ELSE t[i][j + 1]
  BY CutChain
<1>2. /\ DOMAIN t[i] = 1 .. Len(t[i]) /\ Len(t[i]) \in Nat /\ n \in Nat
  OBVIOUS
<1>3. ASSUME NEW a, NEW b, Cell(u, a, b)
      PROVE  LET c == IF a = i /\ ~ (b < n) THEN b + 1 ELSE b
             IN  Cell(t, a, c) /\ u[a][b] = t[a][c] /\ ~ (a = i /\ c = n)
  BY <1>3, <1>1, <1>2 DEF Cell
<1>4. ASSUME NEW a, NEW b, Cell(t, a, b), ~ (a = i /\ b = n)
      PROVE  LET c == IF a = i /\ ~ (b < n) THEN b - 1 ELSE b
             IN  Cell(u, a, c) /\ u[a][c] = t[a][b]
  BY <1>4, <1>1, <1>2 DEF Cell
<1>5. t[i][n] \in Chains(t)
  BY InChains
<1>6. Chains(u) = Chains(t) \ {t[i][n]}
  <2>1. Cell(t, i, n)
    BY DEF Cell
  <2>2. ASSUME NEW e \in Chains(u) PROVE e \in Chains(t) /\ e # t[i][n]
    <3>1. PICK a \in DOMAIN u : e \in ToSet(u[a])
      BY <2>2, Zenon DEF Chains
    <3>1a. PICK b \in DOMAIN u[a] : e = u[a][b]
      BY <3>1, Zenon DEF ToSet
    <3> DEFINE c == IF a = i /\ ~ (b < n) THEN b + 1 ELSE b
    <3>2. Cell(t, a, c) /\ e = t[a][c] /\ ~ (a = i /\ c = n)
      BY <1>3, <3>1a DEF Cell
    <3>3. e # t[i][n]
      BY <3>2, <2>1 DEF Distinct
    <3> QED BY <3>2, <3>3, InChains DEF Cell
  <2>3. ASSUME NEW e \in Chains(t), e # t[i][n] PROVE e \in Chains(u)
    <3>1. PICK a, b : Cell(t, a, b) /\ e = t[a][b]
      BY InChains DEF Cell
    <3>2. ~ (a = i /\ b = n)
      BY <3>1, <2>3
    <3> DEFINE c == IF a = i /\ ~ (b < n) THEN b - 1 ELSE b
    <3>3. Cell(u, a, c) /\ u[a][c] = e
      BY <1>4, <3>1, <3>2
    <3> QED BY <3>3, InChains DEF Cell
  <2> QED BY <2>2, <2>3
<1>7. Distinct(u)
  <2> SUFFICES ASSUME NEW g, NEW j, NEW h, NEW l, Cell(u, g, j), Cell(u, h, l),
                      u[g][j].key = u[h][l].key
               PROVE  g = h /\ j = l
    BY DEF Distinct
  <2> DEFINE c == IF g = i /\ ~ (j < n) THEN j + 1 ELSE j
             d == IF h = i /\ ~ (l < n) THEN l + 1 ELSE l
  <2>1. Cell(t, g, c) /\ u[g][j] = t[g][c] /\ Cell(t, h, d) /\ u[h][l] = t[h][d]
    BY <1>3
  <2>2. g = h /\ c = d
    BY <2>1 DEF Distinct
  <2>3. (g = i => j \in Nat) /\ (h = i => l \in Nat)
    BY <1>1, <1>2 DEF Cell
  <2> QED BY <2>2, <2>3, <1>2
<1> QED BY <1>1, <1>3, <1>5, <1>6, <1>7 DEF CutPos, IsCut

\* What is in a cell is an entry of the chains.
LEMMA CellEntry ==
  ASSUME NEW D, NEW t \in [D -> Seq(Entry)], NEW i, NEW j, Cell(t, i, j)
  PROVE  /\ i \in D /\ j \in Nat \ {0} /\ j \in 1 .. Len(t[i])
         /\ t[i][j] \in Entry /\ t[i][j] \in Chains(t)
         /\ t[i][j].key \in Keys /\ t[i][j].val \in Values
<1>1. i \in D /\ t[i] \in Seq(Entry) /\ j \in DOMAIN t[i] /\ i \in DOMAIN t
  BY DEF Cell
<1>2. j \in 1 .. Len(t[i]) /\ j \in Nat \ {0} /\ t[i][j] \in Entry
  BY <1>1
<1>3. t[i][j] \in Chains(t)
  BY <1>1, InChains, Zenon
<1> QED BY <1>1, <1>2, <1>3 DEF Entry

\* Empty arrays.
LEMMA NoChains ==
  ASSUME NEW t, \A i \in DOMAIN t : t[i] = << >>
  PROVE  Chains(t) = {} /\ Distinct(t) /\ \A i, j : ~ Cell(t, i, j)
<1>1. \A i, j : ~ Cell(t, i, j)
  BY DEF Cell
<1>2. Chains(t) = {}
  BY <1>1, InChains DEF Cell
<1>3. Distinct(t)
  BY <1>1, Zenon DEF Distinct
<1> QED BY <1>1, <1>2, <1>3

\* No array at all.
LEMMA NoArray == Chains(<< >>) = {} /\ Distinct(<< >>) /\ \A i, j : ~ Cell(<< >>, i, j)
<1>1. \A i \in DOMAIN << >> : << >>[i] = << >>
  OBVIOUS
<1> QED BY <1>1, NoChains, Zenon

\* A position is inside the array.
LEMMA IndexRange ==
  ASSUME NEW n \in Nat \ {0}, NEW k \in Keys
  PROVE  Index(n, k) \in 0 .. n - 1
<1>1. Hash[k] \in Nat
  BY HashTableAssumption
<1> QED BY <1>1 DEF Index

\* The next size is larger.
LEMMA PrimesGrow ==
  ASSUME NEW p \in DOMAIN Primes
  PROVE  /\ p \in Nat \ {0} /\ Primes[p] \in Nat \ {0}
         /\ p < Len(Primes) => p + 1 \in DOMAIN Primes /\ Primes[p] < Primes[p + 1]
BY HashTableAssumption

-----------------------------------------------------------------------------
\* The invariant.

ShapeInv ==
  /\ prime \in DOMAIN Primes /\ size \in Nat \ {0}
  /\ IF Growing THEN size < Primes[prime] ELSE size = Primes[prime]
  /\ table \in [0 .. (IF phase = "rehash" THEN Primes[prime] ELSE size) - 1
                 -> Seq(Entry)]
  /\ IF phase = "move" THEN newTable \in [0 .. Primes[prime] - 1 -> Seq(Entry)]
                       ELSE newTable = << >>
  /\ adding \in Entry \cup {None}
  /\ phase \in {"idle", "full", "move", "rehash", "link", "iter", "gone"}
  /\ adding # None <=> phase \in {"full", "move", "rehash", "link"}
  /\ at \in Nat /\ off \in Nat \ {0}
  /\ Growing => at <= size

\* Where the entries are.  In a growth the array is done up to <at, off>.
PlaceInv ==
  /\ \A i, j : Cell(table, i, j) =>
       \/ i = Index(size, table[i][j].key)
          /\ (phase = "rehash" => at < i \/ (at = i /\ off <= j))
       \/ i = Index(Primes[prime], table[i][j].key) /\ phase = "rehash"
  /\ \A i, j : Cell(newTable, i, j) =>
       i = Index(Primes[prime], newTable[i][j].key)
  /\ phase = "move" => \A i \in DOMAIN table : i < at => table[i] = << >>

KeyInv ==
  /\ Distinct(table) /\ Distinct(newTable)
  /\ \A e \in Chains(table), f \in Chains(newTable) : e.key # f.key
  /\ adding # None => \A e \in Content : e.key # adding.key

CountInv ==
  /\ count \in Nat
  /\ phase # "gone" =>
       /\ IsFiniteSet(Content)
       /\ count = Cardinality(Content) + (IF adding = None THEN 0 ELSE 1)

ValueInv ==
  /\ freed \subseteq Values
  /\ Live \cap freed = {}
  /\ \A e, f \in Content : e.val = f.val => e = f
  /\ adding # None => adding.val \notin freed \cup Live

\* An iteration has returned what lies before its position, and no more.
IterInv ==
  /\ visited \subseteq Entry
  /\ phase = "iter" =>
       /\ at < size /\ off \in DOMAIN table[at]
       /\ \A e : e \in visited <=>
            \E i \in DOMAIN table : \E j \in DOMAIN table[i] :
              e = table[i][j] /\ (i < at \/ (i = at /\ j <= off))

Arrays == ShapeInv /\ PlaceInv /\ KeyInv

\* What a search finds, outside a growth.
LEMMA Found ==
  ASSUME Arrays, ~ Growing, NEW k \in Keys
  PROVE  LET i == Index(size, k)
             n == FirstMatch(k)
         IN  IF Matches(k) = {}
             THEN \A e \in Chains(table) : e.key # k
             ELSE /\ Cell(table, i, n) /\ table[i][n].key = k
                  /\ Search(k) = table[i][n].val
                  /\ \A e \in Chains(table) : e.key = k => e = table[i][n]
<1> DEFINE i == Index(size, k)
           n == FirstMatch(k)
<1>1. /\ table \in [0 .. size - 1 -> Seq(Entry)] /\ size \in Nat \ {0}
      /\ Distinct(table) /\ i \in DOMAIN table
  BY IndexRange DEF Arrays, ShapeInv, KeyInv, Growing
<1>2. ASSUME NEW a, NEW b, Cell(table, a, b)
      PROVE  a = Index(size, table[a][b].key)
  BY <1>2 DEF Arrays, PlaceInv, Growing
<1>3. \A e \in Chains(table) : e.key = k => \E b \in Matches(k) : e = table[i][b]
  <2> SUFFICES ASSUME NEW e \in Chains(table), e.key = k
               PROVE  \E b \in Matches(k) : e = table[i][b]
    OBVIOUS
  <2>1. PICK a, b : Cell(table, a, b) /\ e = table[a][b]
    BY InChains DEF Cell
  <2>2. a = i
    BY <2>1, <1>2
  <2> QED BY <2>1, <2>2 DEF Matches, Chain, Cell
<1>4. CASE Matches(k) = {}
  BY <1>3, <1>4
<1>5. CASE Matches(k) # {}
  <2>1. PICK b : b \in Matches(k)
    BY <1>5
  <2>2. \A c \in Matches(k) : c = b
    <3> SUFFICES ASSUME NEW c \in Matches(k) PROVE c = b
      OBVIOUS
    <3>1. Cell(table, i, b) /\ Cell(table, i, c) /\ table[i][b].key = table[i][c].key
      BY <1>1, <2>1 DEF Matches, Chain, Cell
    <3> QED BY <3>1, <1>1 DEF Distinct
  <2>3. b \in Nat
    BY <1>1, <2>1 DEF Matches, Chain
  <2>3a. \A c \in Matches(k) : b <= c
    BY <2>2, <2>3
  <2>4. n = b
    BY <2>1, <2>2, <2>3a, Zenon DEF FirstMatch
  <2>5. Cell(table, i, n) /\ table[i][n].key = k
    BY <2>1, <2>4, <1>1 DEF Matches, Chain, Cell
  <2>6. \A e \in Chains(table) : e.key = k => e = table[i][n]
    BY <1>3, <2>2, <2>4
  <2>7. Search(k) = table[i][n].val
    BY <1>5 DEF Search, Chain
  <2> QED BY <1>5, <2>5, <2>6, <2>7
<1> QED BY <1>4, <1>5

\* The entry of k is cut out of its chain.
LEMMA UnlinkStep ==
  ASSUME Arrays, ~ Growing, NEW k \in Keys, Matches(k) # {}, Unlink(k)
  PROVE  \E e \in Chains(table) :
           /\ e \in Entry /\ e.key = k
           /\ \A f \in Chains(table) : f.key = k => f = e
           /\ Chains(table') = Chains(table) \ {e}
           /\ freed' = freed \cup {e.val}
           /\ table' \in [0 .. size - 1 -> Seq(Entry)] /\ Distinct(table')
           /\ \A i, j : Cell(table', i, j) => i = Index(size, table'[i][j].key)
<1> DEFINE i == Index(size, k)
           n == FirstMatch(k)
           e == table[i][n]
<1>1. /\ Cell(table, i, n) /\ e.key = k /\ Search(k) = e.val
      /\ \A f \in Chains(table) : f.key = k => f = e
  BY Found
<1>2. /\ table \in [0 .. size - 1 -> Seq(Entry)] /\ size \in Nat \ {0}
      /\ Distinct(table) /\ i \in 0 .. size - 1
      /\ \A a, b : Cell(table, a, b) => a = Index(size, table[a][b].key)
  BY IndexRange DEF Arrays, ShapeInv, PlaceInv, KeyInv, Growing
<1>3. /\ table' = [table EXCEPT ![i] = RemoveAt(@, n)]
      /\ freed' = freed \cup {e.val}
  BY <1>1 DEF Unlink
<1>3a. n \in DOMAIN table[i]
  BY <1>1 DEF Cell
<1> HIDE DEF i, n
<1>3b. IsCut(0 .. size - 1, table, i, n, table')
  BY <1>2, <1>3, <1>3a, CutCell, Zenon
<1>4. /\ table' \in [0 .. size - 1 -> Seq(Entry)] /\ Distinct(table')
      /\ Chains(table') = Chains(table) \ {e} /\ e \in Chains(table)
  BY <1>3b DEF IsCut
<1>5. e \in Entry
  BY <1>1, <1>2, CellEntry
<1>6. ASSUME NEW a, NEW b, Cell(table', a, b)
      PROVE  a = Index(size, table'[a][b].key)
  <2> DEFINE c == CutPos(i, n, a, b)
  <2>1. Cell(table, a, c) /\ table'[a][b] = table[a][c]
    BY <1>3b, <1>6 DEF IsCut
  <2>2. a = Index(size, table[a][c].key)
    BY <2>1, <1>2
  <2> QED BY <2>1, <2>2
<1> QED BY <1>1, <1>3, <1>4, <1>5, <1>6

Dropped(k) == {e \in Content : e.key = k}

\* What an insertion and a deletion do first.
LEMMA DropStep ==
  ASSUME Arrays, phase = "idle", NEW k \in Keys,
         IF Matches(k) = {} THEN UNCHANGED <<table, freed>> ELSE Unlink(k),
         newTable' = newTable
  PROVE  /\ table' \in [0 .. size - 1 -> Seq(Entry)] /\ Distinct(table')
         /\ \A i, j : Cell(table', i, j) => i = Index(size, table'[i][j].key)
         /\ newTable' = << >> /\ Chains(newTable) = {}
         /\ Content' = Content \ Dropped(k)
         /\ freed' = freed \cup {e.val : e \in Dropped(k)}
         /\ IF Matches(k) = {} THEN Dropped(k) = {}
                               ELSE \E e \in Content : Dropped(k) = {e}
<1>1. /\ newTable = << >> /\ Content = Chains(table) /\ Content' = Chains(table')
      /\ ~ Growing /\ Chains(newTable) = {}
  BY NoArray DEF Arrays, ShapeInv, Growing, Content
<1>2. CASE Matches(k) = {}
  <2>1. Dropped(k) = {}
    BY <1>1, <1>2, Found DEF Dropped
  <2>2. /\ table \in [0 .. size - 1 -> Seq(Entry)] /\ Distinct(table)
        /\ \A i, j : Cell(table, i, j) => i = Index(size, table[i][j].key)
    BY <1>1 DEF Arrays, ShapeInv, PlaceInv, KeyInv, Growing
  <2>3. table' = table /\ freed' = freed
    BY <1>2
  <2>4. {e.val : e \in Dropped(k)} = {}
    BY <2>1
  <2>5. Content' = Content \ Dropped(k) /\ freed' = freed \cup {e.val : e \in Dropped(k)}
    BY <2>1, <2>3, <2>4, <1>1
  <2> QED BY <1>1, <1>2, <2>1, <2>2, <2>3, <2>5
<1>3. CASE Matches(k) # {}
  <2>0. Unlink(k)
    BY <1>3
  <2>1. PICK e \in Chains(table) :
           /\ e \in Entry /\ e.key = k
           /\ \A f \in Chains(table) : f.key = k => f = e
           /\ Chains(table') = Chains(table) \ {e}
           /\ freed' = freed \cup {e.val}
           /\ table' \in [0 .. size - 1 -> Seq(Entry)] /\ Distinct(table')
           /\ \A i, j : Cell(table', i, j) => i = Index(size, table'[i][j].key)
    BY <1>1, <1>3, <2>0, UnlinkStep
  <2>2. Dropped(k) = {e}
    BY <2>1, <1>1 DEF Dropped
  <2>3. {f.val : f \in Dropped(k)} = {e.val}
    BY <2>2
  <2>4. Content' = Content \ Dropped(k) /\ freed' = freed \cup {f.val : f \in Dropped(k)}
    BY <2>1, <2>2, <2>3, <1>1
  <2>5. \E f \in Content : Dropped(k) = {f}
    BY <2>2, <1>1
  <2> QED BY <1>1, <1>3, <2>1, <2>4, <2>5
<1> QED BY <1>2, <1>3

\* An insertion keeps the arrays in order, and drops what the key had.
LEMMA InsertStep ==
  ASSUME Arrays, NEW k \in Keys, NEW v \in Values, Insert(k, v)
  PROVE  /\ Arrays'
         /\ Content' = Content \ Dropped(k)
         /\ freed' = freed \cup {e.val : e \in Dropped(k)}
         /\ \/ Dropped(k) = {} /\ count' = count + 1
            \/ count' = count /\ \E e \in Content : Dropped(k) = {e}
<1>1. /\ phase = "idle" /\ newTable' = newTable /\ size' = size /\ prime' = prime
      /\ IF Matches(k) = {} THEN UNCHANGED <<table, freed>> ELSE Unlink(k)
      /\ IF Matches(k) = {} THEN count' = count + 1 ELSE count' = count
      /\ adding' = [key |-> k, val |-> v] /\ phase' \in {"full", "link"}
      /\ at' = at /\ off' = off /\ visited' = visited
  BY DEF Insert
<1>2. /\ table' \in [0 .. size - 1 -> Seq(Entry)] /\ Distinct(table')
      /\ \A i, j : Cell(table', i, j) => i = Index(size, table'[i][j].key)
      /\ newTable' = << >>
      /\ Content' = Content \ Dropped(k)
      /\ freed' = freed \cup {e.val : e \in Dropped(k)}
      /\ IF Matches(k) = {} THEN Dropped(k) = {}
                            ELSE \E e \in Content : Dropped(k) = {e}
  BY <1>1, DropStep
<1>3. adding' \in Entry /\ adding' # None /\ adding'.key = k
  BY <1>1, HashTableAssumption DEF Entry
<1>4. ShapeInv'
  BY <1>1, <1>2, <1>3 DEF Arrays, ShapeInv, Growing
<1>5. PlaceInv'
  BY <1>1, <1>2, NoArray DEF PlaceInv
<1>6. KeyInv'
  <2>1. Distinct(newTable') /\ Chains(newTable') = {}
    BY <1>2, NoArray
  <2>2. \A e \in Content' : e.key # adding'.key
    BY <1>2, <1>3 DEF Dropped
  <2> QED BY <1>2, <2>1, <2>2 DEF KeyInv
<1> QED BY <1>1, <1>2, <1>4, <1>5, <1>6 DEF Arrays

\* A deletion keeps the arrays in order, and drops what the key had.
LEMMA DeleteStep ==
  ASSUME Arrays, NEW k \in Keys, Delete(k)
  PROVE  /\ Arrays'
         /\ Content' = Content \ Dropped(k)
         /\ freed' = freed \cup {e.val : e \in Dropped(k)}
         /\ count' = count - 1 /\ \E e \in Content : Dropped(k) = {e}
<1>1. /\ phase = "idle" /\ newTable' = newTable /\ size' = size /\ prime' = prime
      /\ IF Matches(k) = {} THEN UNCHANGED <<table, freed>> ELSE Unlink(k)
      /\ Matches(k) # {} /\ count' = count - 1
      /\ adding' = adding /\ phase' = phase
      /\ at' = at /\ off' = off /\ visited' = visited
  BY DEF Delete
<1>2. /\ table' \in [0 .. size - 1 -> Seq(Entry)] /\ Distinct(table')
      /\ \A i, j : Cell(table', i, j) => i = Index(size, table'[i][j].key)
      /\ newTable' = << >>
      /\ Content' = Content \ Dropped(k)
      /\ freed' = freed \cup {e.val : e \in Dropped(k)}
      /\ \E e \in Content : Dropped(k) = {e}
  BY <1>1, DropStep
<1>4. ShapeInv'
  BY <1>1, <1>2 DEF Arrays, ShapeInv, Growing
<1>5. PlaceInv'
  BY <1>1, <1>2, NoArray DEF PlaceInv
<1>6. KeyInv'
  <2>1. Distinct(newTable') /\ Chains(newTable') = {}
    BY <1>2, NoArray
  <2>2. adding' = None
    BY <1>1 DEF Arrays, ShapeInv
  <2> QED BY <1>2, <2>1, <2>2 DEF KeyInv
<1> QED BY <1>1, <1>2, <1>4, <1>5, <1>6 DEF Arrays

\* The new entry joins the chain of its key.
LEMMA LinkStep ==
  ASSUME Arrays, Link
  PROVE  Arrays' /\ Content' = Content \cup {adding} /\ adding \in Entry
<1> DEFINE i == Index(size, adding.key)
<1>1. /\ phase = "link" /\ ~ Growing /\ adding # None /\ adding \in Entry
      /\ table \in [0 .. size - 1 -> Seq(Entry)] /\ size \in Nat \ {0}
      /\ newTable = << >> /\ i \in 0 .. size - 1
      /\ \A a, b : Cell(table, a, b) => a = Index(size, table[a][b].key)
      /\ Distinct(table) /\ \A e \in Content : e.key # adding.key
  <2>1. phase = "link" /\ ~ Growing /\ adding # None /\ adding \in Entry
    BY DEF Link, Arrays, ShapeInv, Growing
  <2>2. adding.key \in Keys
    BY <2>1 DEF Entry
  <2> QED BY <2>1, <2>2, IndexRange DEF Arrays, ShapeInv, PlaceInv, KeyInv
<1>2. Content = Chains(table) /\ Content' = Chains(table')
  BY <1>1, NoArray DEF Link, Content
<1>3. table' = [table EXCEPT ![i] = Cons(adding, @)]
  BY DEF Link
<1> HIDE DEF i
<1>4. IsPush(0 .. size - 1, table, i, adding, table')
  BY <1>1, <1>3, PushCell, Zenon
<1>5. /\ table' \in [0 .. size - 1 -> Seq(Entry)] /\ Distinct(table')
      /\ Chains(table') = Chains(table) \cup {adding}
  BY <1>1, <1>2, <1>4 DEF IsPush
<1>6. ASSUME NEW a, NEW b, Cell(table', a, b)
      PROVE  a = Index(size, table'[a][b].key)
  <2>1. CASE a = i /\ b = 1
    BY <2>1, <1>4 DEF IsPush, i
  <2>2. CASE ~ (a = i /\ b = 1)
    <3> DEFINE c == PushPos(i, a, b)
    <3>1. Cell(table, a, c) /\ table'[a][b] = table[a][c]
      BY <2>2, <1>4, <1>6 DEF IsPush
    <3>2. a = Index(size, table[a][c].key)
      BY <3>1, <1>1
    <3> QED BY <3>1, <3>2
  <2> QED BY <2>1, <2>2
<1>7. ShapeInv'
  BY <1>1, <1>5 DEF Link, Arrays, ShapeInv, Growing
<1>8. PlaceInv'
  BY <1>1, <1>6, NoArray DEF Link, PlaceInv
<1>9. KeyInv'
  BY <1>1, <1>5, NoArray DEF Link, KeyInv
<1> QED BY <1>1, <1>2, <1>5, <1>7, <1>8, <1>9 DEF Arrays

\* The steps that leave the arrays alone.
LEMMA StaticStep ==
  ASSUME Arrays, UNCHANGED <<table, newTable, size, prime>>,
         ~ Growing, ~ Growing',
         phase' \in {"idle", "full", "link", "iter", "gone"},
         adding' \in {adding, None},
         adding' # None <=> phase' \in {"full", "link"},
         at' \in Nat, off' \in Nat \ {0}
  PROVE  Arrays' /\ Content' = Content
<1>1. Content' = Content
  BY DEF Content
<1>2. ShapeInv'
  BY DEF Arrays, ShapeInv, Growing
<1>3. PlaceInv'
  BY DEF Arrays, PlaceInv, Growing
<1>4. KeyInv'
  BY <1>1 DEF Arrays, KeyInv
<1> QED BY <1>1, <1>2, <1>3, <1>4 DEF Arrays

\* A destroyed table is empty.
LEMMA DestroyStep ==
  ASSUME Arrays, Destroy
  PROVE  Arrays' /\ Content' = {} /\ adding = None
<1>1. \A i \in DOMAIN table' : table'[i] = << >>
  BY DEF Destroy
<1>2. Chains(table') = {} /\ Distinct(table') /\ \A i, j : ~ Cell(table', i, j)
  BY <1>1, NoChains, Zenon
<1>3. newTable' = << >> /\ phase' = "gone" /\ adding = None /\ adding' = None
  BY DEF Destroy, Arrays, ShapeInv
<1>4. Content' = {}
  BY <1>2, <1>3, NoArray DEF Content
<1>5. table' \in [0 .. size - 1 -> Seq(Entry)]
  BY DEF Destroy, Arrays, ShapeInv, Growing
<1>6. ShapeInv'
  BY <1>3, <1>5 DEF Destroy, Arrays, ShapeInv, Growing
<1>7. PlaceInv'
  BY <1>2, <1>3, NoArray DEF PlaceInv
<1>8. KeyInv'
  BY <1>2, <1>3, NoArray DEF KeyInv
<1> QED BY <1>3, <1>4, <1>6, <1>7, <1>8 DEF Arrays

\* A second array starts empty.
LEMMA GrowNewStep ==
  ASSUME Arrays, GrowNew
  PROVE  Arrays' /\ Content' = Content
<1>1. /\ prime' = prime + 1 /\ prime' \in DOMAIN Primes
      /\ Primes[prime'] \in Nat \ {0} /\ size < Primes[prime']
      /\ phase = "full" /\ phase' = "move" /\ at' = 0
      /\ newTable' = EmptyTable(Primes[prime'])
      /\ UNCHANGED <<table, size, adding, off>>
  BY PrimesGrow DEF GrowNew, Arrays, ShapeInv, Growing
<1>2. /\ newTable' \in [0 .. Primes[prime'] - 1 -> Seq(Entry)]
      /\ \A i \in DOMAIN newTable' : newTable'[i] = << >>
  BY <1>1 DEF EmptyTable
<1>3. /\ Chains(newTable') = {} /\ Distinct(newTable')
      /\ \A i, j : ~ Cell(newTable', i, j)
  BY <1>2, NoChains, Zenon
<1>4. newTable = << >> /\ Content' = Content
  BY <1>1, <1>3, NoArray DEF Arrays, ShapeInv, Content
<1>5. ShapeInv'
  BY <1>1, <1>2 DEF Arrays, ShapeInv, Growing
<1>6. PlaceInv'
  <2>1. \A i, j : Cell(table, i, j) => i = Index(size, table[i][j].key)
    BY <1>1 DEF Arrays, PlaceInv
  <2>2. \A i \in DOMAIN table' : ~ (i < at')
    BY <1>1 DEF Arrays, ShapeInv, Growing
  <2> QED BY <1>1, <1>3, <2>1, <2>2 DEF PlaceInv
<1>7. KeyInv'
  BY <1>1, <1>3, <1>4 DEF Arrays, KeyInv
<1> QED BY <1>4, <1>5, <1>6, <1>7 DEF Arrays

\* An entry goes from one array to the other.
LEMMA MoveStep ==
  ASSUME Arrays, Move
  PROVE  Arrays' /\ Content' = Content
<1> DEFINE N == Primes[prime]
           e == table[at][1]
           i == Index(N, e.key)
<1>1. /\ phase = "move" /\ phase' = "move" /\ Growing /\ at \in 0 .. size - 1
      /\ table \in [0 .. size - 1 -> Seq(Entry)] /\ size \in Nat \ {0}
      /\ newTable \in [0 .. N - 1 -> Seq(Entry)] /\ N \in Nat \ {0}
      /\ Distinct(table) /\ Distinct(newTable)
      /\ table[at] \in Seq(Entry) /\ table[at] # << >>
      /\ UNCHANGED <<size, prime, adding, at, off>>
  <2>1. /\ phase = "move" /\ phase' = "move" /\ at < size /\ table[at] # << >>
        /\ UNCHANGED <<size, prime, adding, at, off>>
    BY DEF Move
  <2>2. /\ table \in [0 .. size - 1 -> Seq(Entry)] /\ size \in Nat \ {0}
        /\ newTable \in [0 .. N - 1 -> Seq(Entry)] /\ at \in Nat
        /\ prime \in DOMAIN Primes
    BY <2>1 DEF Arrays, ShapeInv, Growing
  <2>3. N \in Nat \ {0} /\ at \in 0 .. size - 1
    BY <2>1, <2>2, PrimesGrow
  <2>4. table[at] \in Seq(Entry)
    BY <2>2, <2>3
  <2> QED BY <2>1, <2>2, <2>3, <2>4 DEF Arrays, KeyInv, Growing
<1>2. /\ 1 \in DOMAIN table[at] /\ e \in Entry /\ i \in 0 .. N - 1 /\ Cell(table, at, 1)
      /\ table' = [table EXCEPT ![at] = RemoveAt(@, 1)]
      /\ newTable' = [newTable EXCEPT ![i] = Cons(e, @)]
  <2>1. Tail(table[at]) = RemoveAt(table[at], 1) /\ 1 \in DOMAIN table[at]
        /\ Head(table[at]) = e
    BY <1>1, TailChain
  <2>2. Cell(table, at, 1)
    BY <1>1, <2>1 DEF Cell
  <2>3. e \in Entry /\ e.key \in Keys
    BY <1>1, <2>2, CellEntry
  <2>4. i \in 0 .. N - 1
    BY <1>1, <2>3, IndexRange
  <2> QED BY <2>1, <2>2, <2>3, <2>4 DEF Move
<1>3. IsCut(0 .. size - 1, table, at, 1, table')
  BY <1>1, <1>2, CutCell, Zenon
<1>4. IsPush(0 .. N - 1, newTable, i, e, newTable')
  <2> HIDE DEF e, i, N
  <2> QED BY <1>1, <1>2, PushCell, Zenon
<1>5. /\ Chains(table') = Chains(table) \ {e} /\ e \in Chains(table)
      /\ Chains(newTable') = Chains(newTable) \cup {e}
  BY <1>3, <1>4 DEF IsCut, IsPush
<1>6. Content' = Content
  BY <1>5 DEF Content
<1>7. ShapeInv'
  <2>1. /\ table' \in [0 .. size - 1 -> Seq(Entry)]
        /\ newTable' \in [0 .. N - 1 -> Seq(Entry)]
    BY <1>3, <1>4 DEF IsCut, IsPush
  <2> QED BY <1>1, <2>1 DEF Arrays, ShapeInv, Growing
<1>8. PlaceInv'
  <2>1. ASSUME NEW a, NEW b, Cell(table', a, b)
        PROVE  a = Index(size, table'[a][b].key)
    <3> DEFINE c == CutPos(at, 1, a, b)
    <3>1. Cell(table, a, c) /\ table'[a][b] = table[a][c]
      BY <2>1, <1>3 DEF IsCut
    <3>2. a = Index(size, table[a][c].key)
      BY <3>1, <1>1 DEF Arrays, PlaceInv
    <3> QED BY <3>1, <3>2
  <2>2. ASSUME NEW a, NEW b, Cell(newTable', a, b)
        PROVE  a = Index(N, newTable'[a][b].key)
    <3>1. CASE a = i /\ b = 1
      BY <3>1, <1>4 DEF IsPush
    <3>2. CASE ~ (a = i /\ b = 1)
      <4> DEFINE c == PushPos(i, a, b)
      <4>1. Cell(newTable, a, c) /\ newTable'[a][b] = newTable[a][c]
        BY <3>2, <1>4, <2>2 DEF IsPush
      <4>2. a = Index(N, newTable[a][c].key)
        BY <4>1 DEF Arrays, PlaceInv
      <4> QED BY <4>1, <4>2
    <3> QED BY <3>1, <3>2
  <2>3. \A a \in DOMAIN table' : a < at' => table'[a] = << >>
    BY <1>1, <1>3 DEF IsCut, Arrays, PlaceInv
  <2> QED BY <1>1, <2>1, <2>2, <2>3 DEF PlaceInv
<1>9. KeyInv'
  <2>1. \A f \in Chains(newTable) : f.key # e.key
    BY <1>5 DEF Arrays, KeyInv
  <2>2. Distinct(table') /\ Distinct(newTable')
    BY <1>1, <1>3, <1>4, <2>1 DEF IsCut, IsPush
  <2>3. \A f \in Chains(table') : f.key # e.key
    <3> SUFFICES ASSUME NEW f \in Chains(table'), f.key = e.key PROVE FALSE
      OBVIOUS
    <3>1. f \in Chains(table) /\ f # e
      BY <1>5
    <3>2. PICK a, b : Cell(table, a, b) /\ f = table[a][b]
      BY <3>1, InChains DEF Cell
    <3>3. a = at /\ b = 1
      BY <3>2, <1>1, <1>2 DEF Distinct
    <3> QED BY <3>1, <3>2, <3>3
  <2>4. \A f \in Chains(table'), g \in Chains(newTable') : f.key # g.key
    BY <1>5, <2>3 DEF Arrays, KeyInv
  <2> QED BY <1>1, <1>6, <2>2, <2>4 DEF Arrays, KeyInv
<1> QED BY <1>6, <1>7, <1>8, <1>9 DEF Arrays

\* The chain at the position is empty.
LEMMA MoveOnStep ==
  ASSUME Arrays, MoveOn
  PROVE  Arrays' /\ Content' = Content
<1>1. Content' = Content
  BY DEF MoveOn, Content
<1>2. ShapeInv'
  BY DEF MoveOn, Arrays, ShapeInv, Growing
<1>3. PlaceInv'
  <2>1. /\ phase = "move" /\ phase' = "move" /\ at' = at + 1 /\ table[at] = << >>
        /\ UNCHANGED <<table, newTable, size, prime>>
    BY DEF MoveOn
  <2>2. \A i \in DOMAIN table : i < at + 1 => table[i] = << >>
    <3>1. at \in Nat /\ DOMAIN table = 0 .. size - 1 /\ size \in Nat
      BY <2>1 DEF Arrays, ShapeInv
    <3>2. \A i \in DOMAIN table : i < at => table[i] = << >>
      BY <2>1 DEF Arrays, PlaceInv
    <3>3. \A i \in DOMAIN table : i < at + 1 => i < at \/ i = at
      BY <3>1
    <3> QED BY <2>1, <3>2, <3>3
  <2> QED BY <2>1, <2>2 DEF Arrays, PlaceInv
<1>4. KeyInv'
  BY <1>1 DEF MoveOn, Arrays, KeyInv
<1> QED BY <1>1, <1>2, <1>3, <1>4 DEF Arrays

\* The first array is empty when the second takes its place.
LEMMA MoveDoneStep ==
  ASSUME Arrays, MoveDone
  PROVE  Arrays' /\ Content' = Content
<1>1. /\ phase = "move" /\ phase' = "link" /\ at = size
      /\ table' = newTable /\ newTable' = << >> /\ size' = Primes[prime]
      /\ UNCHANGED <<prime, adding, at, off>>
  BY DEF MoveDone
<1>2. \A i \in DOMAIN table : table[i] = << >>
  <2>1. DOMAIN table = 0 .. size - 1 /\ size \in Nat
    BY <1>1 DEF Arrays, ShapeInv
  <2> QED BY <1>1, <2>1 DEF Arrays, PlaceInv
<1>3. Chains(table) = {}
  BY <1>2, NoChains, Zenon
<1>4. Content' = Content
  BY <1>1, <1>3, NoArray DEF Content
<1>5. ShapeInv'
  BY <1>1, PrimesGrow DEF Arrays, ShapeInv, Growing
<1>6. PlaceInv'
  BY <1>1, NoArray DEF Arrays, PlaceInv
<1>7. KeyInv'
  BY <1>1, <1>4, NoArray DEF Arrays, KeyInv
<1> QED BY <1>4, <1>5, <1>6, <1>7 DEF Arrays

\* A longer array holds what the shorter one did.
LEMMA GrowInPlaceStep ==
  ASSUME Arrays, GrowInPlace
  PROVE  Arrays' /\ Content' = Content
<1>1. /\ prime' = prime + 1 /\ prime' \in DOMAIN Primes
      /\ Primes[prime'] \in Nat \ {0} /\ size < Primes[prime']
      /\ phase = "full" /\ phase' = "rehash" /\ at' = 0 /\ off' = 1
      /\ table' = [i \in 0 .. Primes[prime'] - 1 |->
                     IF i < size THEN table[i] ELSE << >>]
      /\ newTable = << >> /\ UNCHANGED <<size, adding, newTable>>
      /\ table \in [0 .. size - 1 -> Seq(Entry)] /\ size \in Nat \ {0}
  BY PrimesGrow DEF GrowInPlace, Arrays, ShapeInv, Growing
<1>2. table' \in [0 .. Primes[prime'] - 1 -> Seq(Entry)]
  <2>1. ASSUME NEW i \in 0 .. Primes[prime'] - 1
        PROVE  (IF i < size THEN table[i] ELSE << >>) \in Seq(Entry)
    BY <1>1
  <2> QED BY <1>1, <2>1
<1>3. ASSUME NEW i, NEW j
      PROVE  /\ Cell(table', i, j) <=> Cell(table, i, j)
             /\ Cell(table, i, j) => table'[i][j] = table[i][j] /\ 0 <= i /\ 1 <= j
  BY <1>1 DEF Cell
<1>4. Chains(table') = Chains(table)
  <2>1. ASSUME NEW e PROVE e \in Chains(table') <=> e \in Chains(table)
    <3>1. e \in Chains(table') <=> \E i, j : Cell(table', i, j) /\ e = table'[i][j]
      BY InChains DEF Cell
    <3>2. e \in Chains(table) <=> \E i, j : Cell(table, i, j) /\ e = table[i][j]
      BY InChains DEF Cell
    <3> QED BY <3>1, <3>2, <1>3
  <2> QED BY <2>1
<1>5. Content' = Content
  BY <1>1, <1>4 DEF Content
<1>6. ShapeInv'
  BY <1>1, <1>2 DEF Arrays, ShapeInv, Growing
<1>7. PlaceInv'
  <2>1. ASSUME NEW i, NEW j, Cell(table', i, j)
        PROVE  /\ i = Index(size, table'[i][j].key)
               /\ 0 < i \/ (0 = i /\ 1 <= j)
    <3>1. /\ Cell(table, i, j) /\ table'[i][j] = table[i][j] /\ 0 <= i /\ 1 <= j
          /\ i \in DOMAIN table
      BY <2>1, <1>3 DEF Cell
    <3>2. i = Index(size, table[i][j].key)
      BY <3>1, <1>1 DEF Arrays, PlaceInv
    <3>3. 0 < i \/ 0 = i
      BY <3>1, <1>1
    <3> QED BY <3>1, <3>2, <3>3
  <2> QED BY <1>1, <2>1, NoArray DEF PlaceInv
<1>8. KeyInv'
  <2>1. Distinct(table')
    BY <1>3 DEF Arrays, KeyInv, Distinct
  <2> QED BY <1>1, <1>4, <1>5, <2>1 DEF Arrays, KeyInv
<1> QED BY <1>5, <1>6, <1>7, <1>8 DEF Arrays

\* An entry that is in its chain already.
LEMMA RehashKeepStep ==
  ASSUME Arrays, RehashKeep
  PROVE  Arrays' /\ Content' = Content
<1>1. Content' = Content
  BY DEF RehashKeep, Content
<1>2. ShapeInv'
  BY DEF RehashKeep, Arrays, ShapeInv, Growing
<1>3. PlaceInv'
  <2>1. /\ phase = "rehash" /\ phase' = "rehash" /\ off' = off + 1 /\ at' = at
        /\ at = Index(Primes[prime], table[at][off].key)
        /\ UNCHANGED <<table, newTable, size, prime>> /\ off \in Nat
    BY DEF RehashKeep, RehashIndex, Arrays, ShapeInv
  <2>2. ASSUME NEW i, NEW j, Cell(table, i, j)
        PROVE  \/ i = Index(size, table[i][j].key)
                  /\ (at < i \/ (at = i /\ off + 1 <= j))
               \/ i = Index(Primes[prime], table[i][j].key)
    <3>1. j \in Nat
      BY <2>2, CellEntry DEF Arrays, ShapeInv
    <3>2. \/ i = Index(size, table[i][j].key)
             /\ (at < i \/ (at = i /\ off <= j))
          \/ i = Index(Primes[prime], table[i][j].key)
      BY <2>1, <2>2 DEF Arrays, PlaceInv
    <3>3. off <= j => off + 1 <= j \/ off = j
      BY <2>1, <3>1
    <3> QED BY <2>1, <3>2, <3>3
  <2> QED BY <2>1, <2>2 DEF Arrays, PlaceInv
<1>4. KeyInv'
  BY <1>1 DEF RehashKeep, Arrays, KeyInv
<1> QED BY <1>1, <1>2, <1>3, <1>4 DEF Arrays

\* What is behind the position is in its chain.
LEMMA RehashOnStep ==
  ASSUME Arrays, RehashOn
  PROVE  Arrays' /\ Content' = Content
<1>1. Content' = Content
  BY DEF RehashOn, Content
<1>2. ShapeInv'
  BY DEF RehashOn, Arrays, ShapeInv, Growing
<1>3. PlaceInv'
  <2>1. /\ phase = "rehash" /\ phase' = "rehash" /\ off' = 1 /\ at' = at + 1
        /\ off \notin DOMAIN table[at]
        /\ UNCHANGED <<table, newTable, size, prime>>
    BY DEF RehashOn
  <2>1a. at \in Nat /\ off \in Nat \ {0}
    BY DEF Arrays, ShapeInv
  <2>2. ASSUME NEW i, NEW j, Cell(table, i, j)
        PROVE  \/ i = Index(size, table[i][j].key)
                  /\ (at + 1 < i \/ (at + 1 = i /\ 1 <= j))
               \/ i = Index(Primes[prime], table[i][j].key)
    <3>1. /\ j \in 1 .. Len(table[i]) /\ i \in Nat /\ DOMAIN table[i] = 1 .. Len(table[i])
          /\ Len(table[i]) \in Nat
      <4>1. table \in [0 .. Primes[prime] - 1 -> Seq(Entry)]
        BY <2>1 DEF Arrays, ShapeInv
      <4>2. i \in 0 .. Primes[prime] - 1 /\ j \in 1 .. Len(table[i])
        BY <2>2, <4>1, CellEntry
      <4> QED BY <4>1, <4>2
    <3>2. \/ i = Index(size, table[i][j].key)
             /\ (at < i \/ (at = i /\ off <= j))
          \/ i = Index(Primes[prime], table[i][j].key)
      BY <2>1, <2>2 DEF Arrays, PlaceInv
    <3>3. ~ (at = i /\ off <= j)
      BY <2>1, <2>1a, <3>1
    <3>4. at < i => at + 1 < i \/ (at + 1 = i /\ 1 <= j)
      BY <2>1a, <3>1
    <3> QED BY <3>2, <3>3, <3>4
  <2> QED BY <2>1, <2>2 DEF Arrays, PlaceInv
<1>4. KeyInv'
  BY <1>1 DEF RehashOn, Arrays, KeyInv
<1> QED BY <1>1, <1>2, <1>3, <1>4 DEF Arrays

\* At the end every entry is in its chain.
LEMMA RehashDoneStep ==
  ASSUME Arrays, RehashDone
  PROVE  Arrays' /\ Content' = Content
<1>1. /\ phase = "rehash" /\ phase' = "link" /\ at = size /\ size' = Primes[prime]
      /\ UNCHANGED <<table, newTable, prime, adding, at, off>>
  BY DEF RehashDone
<1>2. Content' = Content
  BY <1>1 DEF Content
<1>3. ShapeInv'
  BY <1>1, PrimesGrow DEF Arrays, ShapeInv, Growing
<1>4. PlaceInv'
  <2>1. ASSUME NEW i, NEW j, Cell(table, i, j)
        PROVE  i = Index(Primes[prime], table[i][j].key)
    <3>1. \/ i = Index(size, table[i][j].key)
             /\ (size < i \/ (size = i /\ off <= j))
          \/ i = Index(Primes[prime], table[i][j].key)
      BY <1>1, <2>1 DEF Arrays, PlaceInv
    <3>2. table[i][j].key \in Keys /\ size \in Nat \ {0}
      BY <2>1, CellEntry DEF Arrays, ShapeInv
    <3>3. Index(size, table[i][j].key) \in 0 .. size - 1
      BY <3>2, IndexRange
    <3> QED BY <3>1, <3>2, <3>3
  <2> QED BY <1>1, <2>1, NoArray DEF Arrays, ShapeInv, PlaceInv
<1>5. KeyInv'
  BY <1>1, <1>2 DEF Arrays, KeyInv
<1> QED BY <1>2, <1>3, <1>4, <1>5 DEF Arrays

\* An entry goes to its chain, ahead of or behind the position.
LEMMA RehashMoveStep ==
  ASSUME Arrays, RehashMove
  PROVE  Arrays' /\ Content' = Content
<1> DEFINE N == Primes[prime]
           e == table[at][off]
           i == Index(N, e.key)
           mid == [table EXCEPT ![at] = RemoveAt(@, off)]
<1>1. /\ phase = "rehash" /\ phase' = "rehash" /\ at < size
      /\ off \in DOMAIN table[at] /\ i # at
      /\ UNCHANGED <<newTable, size, prime, adding, at, off>>
      /\ table' = [table EXCEPT ![at] = RemoveAt(@, off), ![i] = Cons(e, @)]
  BY DEF RehashMove, RehashIndex
<1>2. /\ table \in [0 .. N - 1 -> Seq(Entry)] /\ size \in Nat \ {0} /\ size < N
      /\ at \in Nat /\ off \in Nat /\ prime \in DOMAIN Primes /\ newTable = << >>
      /\ Distinct(table)
  BY <1>1 DEF Arrays, ShapeInv, KeyInv, Growing
<1>3. N \in Nat \ {0} /\ at \in 0 .. N - 1 /\ Cell(table, at, off)
  BY <1>1, <1>2, PrimesGrow DEF Cell
<1>4. e \in Entry /\ e.key \in Keys /\ e \in Chains(table)
  BY <1>2, <1>3, CellEntry
<1>5. i \in 0 .. N - 1
  BY <1>3, <1>4, IndexRange
<1>6. table' = [mid EXCEPT ![i] = Cons(e, @)]
  BY <1>1, <1>2, <1>3, <1>5
<1>7. IsCut(0 .. N - 1, table, at, off, mid)
  <2> DEFINE t2 == mid
  <2>1. t2 = [table EXCEPT ![at] = RemoveAt(@, off)]
    OBVIOUS
  <2> HIDE DEF t2, mid, e, i, N
  <2> QED BY <1>1, <1>2, <1>3, <2>1, CutCell, Zenon DEF mid
<1>8. mid \in [0 .. N - 1 -> Seq(Entry)] /\ Distinct(mid) /\ Chains(mid) = Chains(table) \ {e}
  BY <1>7 DEF IsCut
<1>9. IsPush(0 .. N - 1, mid, i, e, table')
  <2> HIDE DEF mid, e, i, N
  <2> QED BY <1>4, <1>5, <1>6, <1>8, PushCell, Zenon
<1> HIDE DEF mid, i
<1>10. Chains(table') = Chains(table)
  BY <1>4, <1>8, <1>9 DEF IsPush
<1>11. Content' = Content
  BY <1>1, <1>10 DEF Content
<1>12. ShapeInv'
  <2>1. table' \in [0 .. N - 1 -> Seq(Entry)]
    BY <1>9 DEF IsPush
  <2> QED BY <1>1, <2>1 DEF Arrays, ShapeInv, Growing
<1>13. PlaceInv'
  <2>1. ASSUME NEW a, NEW b, Cell(table', a, b)
        PROVE  \/ a = Index(size, table'[a][b].key)
                  /\ (at < a \/ (at = a /\ off <= b))
               \/ a = Index(N, table'[a][b].key)
    <3>1. CASE a = i /\ b = 1
      BY <3>1, <1>9 DEF IsPush, i
    <3>2. CASE ~ (a = i /\ b = 1)
      <4> DEFINE c == PushPos(i, a, b)
                 d == CutPos(at, off, a, c)
      <4>1. Cell(mid, a, c) /\ table'[a][b] = mid[a][c]
        BY <3>2, <1>9, <2>1 DEF IsPush
      <4>2. Cell(table, a, d) /\ table'[a][b] = table[a][d]
        BY <4>1, <1>7 DEF IsCut
      <4>3. \/ a = Index(size, table[a][d].key)
               /\ (at < a \/ (at = a /\ off <= d))
            \/ a = Index(N, table[a][d].key)
        BY <1>1, <4>2 DEF Arrays, PlaceInv
      <4>4. b \in Nat
        <5>1. table' \in [0 .. N - 1 -> Seq(Entry)]
          BY <1>9 DEF IsPush
        <5> QED BY <2>1, <5>1, CellEntry
      <4>5. at = a /\ off <= d => off <= b
        BY <1>1, <1>2, <4>4 DEF PushPos, CutPos
      <4> QED BY <4>2, <4>3, <4>5
    <3> QED BY <3>1, <3>2
  <2> QED BY <1>1, <1>2, <2>1, NoArray DEF PlaceInv
<1>14. KeyInv'
  <2>1. \A f \in Chains(mid) : f.key # e.key
    <3> SUFFICES ASSUME NEW f \in Chains(mid), f.key = e.key PROVE FALSE
      OBVIOUS
    <3>1. f \in Chains(table) /\ f # e
      BY <1>8
    <3>2. PICK a, b : Cell(table, a, b) /\ f = table[a][b]
      BY <3>1, InChains DEF Cell
    <3>3. a = at /\ b = off
      BY <3>2, <1>2, <1>3 DEF Distinct
    <3> QED BY <3>1, <3>2, <3>3
  <2>2. Distinct(table')
    BY <1>8, <1>9, <2>1 DEF IsPush
  <2> QED BY <1>1, <1>2, <1>10, <1>11, <2>2, NoArray DEF Arrays, KeyInv
<1> QED BY <1>11, <1>12, <1>13, <1>14 DEF Arrays

-----------------------------------------------------------------------------
\* What each step does to the map, and to the count.

Quiet == UNCHANGED <<Content, adding, freed, count>>

Effect ==
  \/ \E k \in Keys, v \in Values :
       /\ Map!Begin(k, v)
       /\ \/ Dropped(k) = {} /\ count' = count + 1
          \/ count' = count /\ \E e \in Content : Dropped(k) = {e}
  \/ \E v \in Values : Map!Refuse(v) /\ count' = count
  \/ \E k \in Keys : /\ Map!Delete(k) /\ count' = count - 1
                     /\ \E e \in Content : Dropped(k) = {e}
  \/ Map!Commit /\ count' = count
  \/ Map!Abort /\ count' = count - 1
  \/ Map!Destroy /\ phase' = "gone" /\ count' = count
  \/ Quiet

\* Where an iterator can go.
LEMMA GoToStatic ==
  ASSUME NEW n \in Nat, NEW seen, GoTo(n, seen), size \in Nat,
         at \in Nat, off \in Nat \ {0}
  PROVE  at' \in Nat /\ off' \in Nat \ {0} /\ phase' \in {"idle", "iter"}
BY DEF GoTo

\* Every step keeps the arrays in order and is a step of the map, or none.
LEMMA ArraysStep ==
  ASSUME Arrays, [Next]_vars
  PROVE  Arrays' /\ Effect /\ (phase = "gone" => phase' = "gone" /\ count' = count)
<1>0. /\ Live = Map!ValuesOf(Content)
      /\ \A v : Fresh(v) = Map!Fresh(v)
      /\ \A k : Dropped(k) = Map!Of(k)
      /\ \A P : Map!ValuesOf(P) = {e.val : e \in P}
  BY DEF Live, Fresh, Dropped, Map!ValuesOf, Map!Fresh, Map!Of
<1>1. ASSUME NEW k \in Keys, NEW v \in Values, Insert(k, v)
      PROVE  Arrays' /\ Effect /\ (phase = "gone" => phase' = "gone" /\ count' = count)
  <2>1. /\ phase = "idle" /\ adding = None /\ Fresh(v)
        /\ adding' = [key |-> k, val |-> v]
    BY <1>1 DEF Insert, Arrays, ShapeInv
  <2>2. Map!Begin(k, v)
    BY <1>0, <1>1, <2>1, InsertStep DEF Map!Begin, Map!Drop
  <2> QED BY <1>1, <2>1, <2>2, InsertStep DEF Effect
<1>2. ASSUME NEW k \in Keys, Delete(k)
      PROVE  Arrays' /\ Effect /\ (phase = "gone" => phase' = "gone" /\ count' = count)
  <2>1. phase = "idle" /\ adding = None /\ adding' = adding
    BY <1>2 DEF Delete, Arrays, ShapeInv
  <2>2. Map!Delete(k)
    BY <1>0, <1>2, <2>1, DeleteStep DEF Map!Delete, Map!Drop
  <2> QED BY <1>2, <2>1, <2>2, DeleteStep DEF Effect
<1>3. CASE Link
  <2>1. Arrays' /\ Content' = Content \cup {adding} /\ adding \in Entry
    BY <1>3, LinkStep
  <2>2. adding # None
    BY <2>1, HashTableAssumption
  <2>3. Map!Commit
    BY <1>3, <2>1, <2>2 DEF Map!Commit, Link
  <2>4. phase = "link" /\ count' = count
    BY <1>3 DEF Link
  <2> QED BY <2>1, <2>3, <2>4 DEF Effect
<1>4. CASE Destroy
  <2>1. Arrays' /\ Content' = {} /\ adding = None
    BY <1>4, DestroyStep
  <2>2. Map!Destroy
    BY <1>0, <1>4, <2>1 DEF Destroy, Map!Destroy, Map!Drop
  <2> QED BY <1>4, <2>1, <2>2 DEF Effect, Destroy
<1>5. ASSUME NEW v \in Values, Refuse(v)
      PROVE  Arrays' /\ Effect /\ (phase = "gone" => phase' = "gone" /\ count' = count)
  <2>1. /\ phase = "idle" /\ phase' = "idle" /\ adding = None /\ Fresh(v)
        /\ freed' = freed \cup {v} /\ count' = count
        /\ UNCHANGED <<table, newTable, size, prime, adding, at, off>>
        /\ at \in Nat /\ off \in Nat \ {0}
    BY <1>5 DEF Refuse, Arrays, ShapeInv
  <2>2. Arrays' /\ Content' = Content
    BY <2>1, StaticStep DEF Growing
  <2>3. Map!Refuse(v)
    BY <1>0, <2>1, <2>2 DEF Map!Refuse
  <2> QED BY <2>1, <2>2, <2>3 DEF Effect
<1>6. CASE LinkFail
  <2>1. /\ phase = "link" /\ phase' = "idle" /\ adding # None /\ adding' = None
        /\ freed' = freed \cup {adding.val} /\ count' = count - 1
        /\ UNCHANGED <<table, newTable, size, prime, at, off>>
        /\ at \in Nat /\ off \in Nat \ {0}
    BY <1>6 DEF LinkFail, Arrays, ShapeInv
  <2>2. Arrays' /\ Content' = Content
    BY <2>1, StaticStep DEF Growing
  <2>3. Map!Abort
    BY <2>1, <2>2 DEF Map!Abort
  <2> QED BY <2>1, <2>2, <2>3 DEF Effect
<1>7. CASE Growth
  <2>1. Arrays' /\ Content' = Content
    <3>1. CASE NoGrowth
      <4>1. /\ phase = "full" /\ phase' = "link" /\ adding # None
            /\ UNCHANGED <<table, newTable, size, prime, adding, at, off>>
            /\ at \in Nat /\ off \in Nat \ {0}
        BY <3>1 DEF NoGrowth, Arrays, ShapeInv
      <4> QED BY <4>1, StaticStep DEF Growing
    <3> QED BY <1>7, <3>1, GrowNewStep, MoveStep, MoveOnStep, MoveDoneStep,
               GrowInPlaceStep, RehashKeepStep, RehashMoveStep, RehashOnStep,
               RehashDoneStep DEF Growth
  <2>2. UNCHANGED <<adding, freed, count>> /\ phase # "gone"
    BY <1>7 DEF Growth, NoGrowth, GrowNew, Move, MoveOn, MoveDone, GrowInPlace,
                RehashKeep, RehashMove, RehashOn, RehashDone
  <2> QED BY <2>1, <2>2 DEF Effect, Quiet
<1>8. CASE First \/ NextInChain \/ NextChain
  <2>1. /\ phase \in {"idle", "iter"} /\ adding = None
        /\ UNCHANGED <<table, newTable, size, prime, adding, freed, count>>
        /\ at \in Nat /\ off \in Nat \ {0} /\ size \in Nat
    BY <1>8 DEF First, NextInChain, NextChain, Arrays, ShapeInv
  <2>2. at' \in Nat /\ off' \in Nat \ {0} /\ phase' \in {"idle", "iter"}
    <3>1. CASE First
      BY <3>1, <2>1, GoToStatic DEF First
    <3>2. CASE NextInChain
      BY <3>2, <2>1 DEF NextInChain
    <3>3. CASE NextChain
      <4>1. at + 1 \in Nat /\ GoTo(at + 1, visited)
        BY <3>3, <2>1 DEF NextChain
      <4> QED BY <4>1, <2>1, GoToStatic
    <3> QED BY <1>8, <3>1, <3>2, <3>3
  <2>3. Arrays' /\ Content' = Content
    BY <2>1, <2>2, StaticStep DEF Growing
  <2> QED BY <2>1, <2>3 DEF Effect, Quiet
<1>9. CASE UNCHANGED vars
  <2>1. Arrays' /\ Content' = Content
    BY <1>9 DEF vars, Arrays, ShapeInv, PlaceInv, KeyInv, Growing, Content
  <2> QED BY <1>9, <2>1 DEF vars, Effect, Quiet
<1> QED BY <1>1, <1>2, <1>3, <1>4, <1>5, <1>6, <1>7, <1>8, <1>9 DEF Next

\* The count follows.
LEMMA CountStep ==
  ASSUME Arrays, CountInv, Effect, phase = "gone" => phase' = "gone" /\ count' = count
  PROVE  CountInv'
<1> DEFINE Goal == /\ IsFiniteSet(Content')
                   /\ count' = Cardinality(Content')
                                 + (IF adding' = None THEN 0 ELSE 1)
<1>a. CASE phase = "gone"
  BY <1>a DEF CountInv
<1>b. Goal => CountInv'
  <2> SUFFICES ASSUME Goal PROVE CountInv'
    OBVIOUS
  <2>1. Cardinality(Content') \in Nat
    BY FS_CardinalityType
  <2>2. count' \in Nat
    BY <2>1
  <2> QED BY <2>2 DEF CountInv
<1>c. CASE Map!Destroy /\ phase' = "gone" /\ count' = count
  BY <1>c DEF CountInv
<1> SUFFICES ASSUME phase # "gone", ~ (Map!Destroy /\ phase' = "gone" /\ count' = count)
             PROVE  Goal
  BY <1>a, <1>b, <1>c
<1>1. /\ IsFiniteSet(Content) /\ Cardinality(Content) \in Nat
      /\ count = Cardinality(Content) + (IF adding = None THEN 0 ELSE 1)
  BY FS_CardinalityType DEF CountInv
<1>2. ASSUME NEW e \in Content
      PROVE  /\ IsFiniteSet(Content \ {e})
             /\ Cardinality(Content \ {e}) = Cardinality(Content) - 1
  BY <1>1, FS_RemoveElement
<1>3. \A k : Map!Of(k) = Dropped(k)
  BY DEF Map!Of, Dropped
<1>4. ASSUME NEW k \in Keys, NEW v \in Values, Map!Begin(k, v),
             \/ Dropped(k) = {} /\ count' = count + 1
             \/ count' = count /\ \E e \in Content : Dropped(k) = {e}
      PROVE  /\ IsFiniteSet(Content')
             /\ count' = Cardinality(Content') + (IF adding' = None THEN 0 ELSE 1)
  <2>1. /\ adding = None /\ Content' = Content \ Dropped(k)
        /\ adding' = [key |-> k, val |-> v]
    BY <1>3, <1>4 DEF Map!Begin, Map!Drop
  <2>2. adding' # None
    BY <2>1, HashTableAssumption DEF Entry
  <2>3. CASE Dropped(k) = {} /\ count' = count + 1
    BY <1>1, <2>1, <2>2, <2>3
  <2>4. CASE count' = count /\ \E e \in Content : Dropped(k) = {e}
    BY <1>1, <1>2, <2>1, <2>2, <2>4
  <2> QED BY <1>4, <2>3, <2>4
<1>5. ASSUME NEW k \in Keys, Map!Delete(k), count' = count - 1,
             \E e \in Content : Dropped(k) = {e}
      PROVE  /\ IsFiniteSet(Content')
             /\ count' = Cardinality(Content') + (IF adding' = None THEN 0 ELSE 1)
  <2>1. adding = None /\ adding' = None /\ Content' = Content \ Dropped(k)
    BY <1>3, <1>5 DEF Map!Delete, Map!Drop
  <2> QED BY <1>1, <1>2, <1>5, <2>1
<1>6. CASE Map!Commit /\ count' = count
  <2>1. /\ adding # None /\ adding' = None /\ Content' = Content \cup {adding}
    BY <1>6 DEF Map!Commit
  <2>2. adding \notin Content
    BY <2>1 DEF Arrays, KeyInv
  <2>3. /\ IsFiniteSet(Content \cup {adding})
        /\ Cardinality(Content \cup {adding}) = Cardinality(Content) + 1
    BY <1>1, <2>2, FS_AddElement
  <2> QED BY <1>1, <1>6, <2>1, <2>3
<1>7. CASE Map!Abort /\ count' = count - 1
  BY <1>1, <1>7 DEF Map!Abort
<1>8. CASE Quiet
  BY <1>1, <1>8 DEF Quiet
<1>9. CASE \E v \in Values : Map!Refuse(v) /\ count' = count
  BY <1>1, <1>9 DEF Map!Refuse
<1> QED BY <1>4, <1>5, <1>6, <1>7, <1>8, <1>9 DEF Effect

\* No step frees a value that stays in the map.
LEMMA ValueStep ==
  ASSUME Arrays, ValueInv, Effect
  PROVE  ValueInv'
<1>0. /\ \A P : Map!ValuesOf(P) = {e.val : e \in P}
      /\ \A k : Map!Of(k) = Dropped(k)
      /\ Live = {e.val : e \in Content}
      /\ Live' = {e.val : e \in Content'}
  BY DEF Map!ValuesOf, Map!Of, Dropped, Live
<1>1. Content \subseteq Entry
  <2>1. Chains(table) \subseteq Entry
    <3> SUFFICES ASSUME NEW e \in Chains(table) PROVE e \in Entry
      OBVIOUS
    <3>1. PICK a, b : Cell(table, a, b) /\ e = table[a][b]
      BY InChains DEF Cell
    <3> QED BY <3>1, CellEntry DEF Arrays, ShapeInv
  <2>2. Chains(newTable) \subseteq Entry
    <3> SUFFICES ASSUME NEW e \in Chains(newTable) PROVE e \in Entry
      OBVIOUS
    <3>1. PICK a, b : Cell(newTable, a, b) /\ e = newTable[a][b]
      BY InChains DEF Cell
    <3>2. phase = "move"
      BY <3>1, NoArray DEF Arrays, ShapeInv
    <3> QED BY <3>1, <3>2, CellEntry DEF Arrays, ShapeInv
  <2> QED BY <2>1, <2>2 DEF Content
<1>2. \A e \in Entry : e.val \in Values
  BY DEF Entry
<1>3. /\ freed \subseteq Values
      /\ \A e \in Content : e.val \notin freed
      /\ \A e, f \in Content : e.val = f.val => e = f
      /\ adding # None => /\ adding.val \notin freed
                          /\ \A e \in Content : e.val # adding.val
  BY <1>0 DEF ValueInv
<1> DEFINE Goal == /\ freed' \subseteq Values
                   /\ \A e \in Content' : e.val \notin freed'
                   /\ \A e, f \in Content' : e.val = f.val => e = f
                   /\ adding' # None => /\ adding'.val \notin freed'
                                        /\ \A e \in Content' : e.val # adding'.val
<1> SUFFICES Goal
  BY <1>0 DEF ValueInv
<1>4. ASSUME NEW P \in SUBSET Content, Map!Drop(P)
      PROVE  /\ freed' \subseteq Values
             /\ \A e \in Content' : e.val \notin freed'
             /\ \A e, f \in Content' : e.val = f.val => e = f
             /\ \A v : v \in freed' <=> v \in freed \/ \E e \in P : v = e.val
             /\ Content' \subseteq Content
  <2>1. Content' = Content \ P /\ freed' = freed \cup {e.val : e \in P}
    BY <1>0, <1>4 DEF Map!Drop
  <2>2. \A v : v \in freed' <=> v \in freed \/ \E e \in P : v = e.val
    BY <2>1
  <2> HIDE DEF Goal
  <2> QED BY <1>1, <1>2, <1>3, <2>1, <2>2
<1>5. \A k : Dropped(k) \in SUBSET Content
  BY DEF Dropped
<1>6. ASSUME NEW k \in Keys, NEW v \in Values, Map!Begin(k, v) PROVE Goal
  <2>1. /\ v \notin freed /\ \A e \in Content : e.val # v
        /\ Map!Drop(Dropped(k)) /\ adding' = [key |-> k, val |-> v]
    BY <1>0, <1>6 DEF Map!Begin, Map!Fresh
  <2>2. v \notin freed' /\ \A e \in Content' : e.val # v
    BY <1>4, <1>5, <2>1
  <2> QED BY <1>4, <1>5, <2>1, <2>2
<1>7. ASSUME NEW k \in Keys, Map!Delete(k) PROVE Goal
  <2>1. Map!Drop(Dropped(k)) /\ adding' = None
    BY <1>0, <1>7 DEF Map!Delete
  <2> QED BY <1>4, <1>5, <2>1
<1>8. CASE Map!Destroy
  <2>1. Map!Drop(Content) /\ adding' = None
    BY <1>8 DEF Map!Destroy
  <2> QED BY <1>4, <2>1 DEF ValueInv, Live
<1>9. ASSUME NEW v \in Values, Map!Refuse(v) PROVE Goal
  <2>1. /\ v \notin freed /\ \A e \in Content : e.val # v
        /\ freed' = freed \cup {v} /\ Content' = Content
        /\ adding = None /\ adding' = None
    BY <1>0, <1>9 DEF Map!Refuse, Map!Fresh
  <2> QED BY <1>3, <2>1
<1>10. CASE Map!Commit
  <2>1. /\ adding # None /\ adding' = None /\ freed' = freed
        /\ Content' = Content \cup {adding}
    BY <1>10 DEF Map!Commit
  <2> QED BY <1>3, <2>1
<1>11. CASE Map!Abort
  <2>1. /\ adding # None /\ adding' = None /\ Content' = Content
        /\ freed' = freed \cup {adding.val}
    BY <1>11 DEF Map!Abort
  <2>2. adding \in Entry
    BY <2>1 DEF Arrays, ShapeInv
  <2> QED BY <1>2, <1>3, <2>1, <2>2
<1>12. CASE Quiet
  BY <1>3, <1>12 DEF Quiet
<1> HIDE DEF Goal
<1> QED BY <1>6, <1>7, <1>8, <1>9, <1>10, <1>11, <1>12 DEF Effect

\* The iteration: what it has returned, and that it ends with everything.

\* The entries of the chains below n.
Before(n) ==
  {e \in Content : \E i \in DOMAIN table : \E j \in DOMAIN table[i] :
     e = table[i][j] /\ i < n}

\* The iterator goes to the next chain that has an entry, or is gone.
LEMMA GoToStep ==
  ASSUME Arrays, ~ Growing, NEW n \in Nat, NEW seen, seen = Before(n),
         GoTo(n, seen), UNCHANGED <<table, size>>
  PROVE  /\ IterInv'
         /\ phase' = "iter" => visited' # seen
         /\ phase' # "iter" => seen = Content
<1> DEFINE left == {i \in n .. size - 1 : table[i] # << >>}
<1>1. /\ table \in [0 .. size - 1 -> Seq(Entry)] /\ size \in Nat \ {0}
      /\ Content = Chains(table) /\ Distinct(table)
  BY NoArray DEF Arrays, ShapeInv, KeyInv, Growing, Content
<1>2. \A e : e \in Content <=> \E i \in DOMAIN table : \E j \in DOMAIN table[i] : e = table[i][j]
  <2>1. ASSUME NEW e
        PROVE  e \in Chains(table) <=>
                 \E i \in DOMAIN table : \E j \in DOMAIN table[i] : e = table[i][j]
    BY InChains
  <2> QED BY <1>1, <2>1
<1>3. Content \subseteq Entry
  BY <1>1, <1>2
<1>4. CASE left = {}
  <2>1. phase' = "idle" /\ visited' = {}
    BY <1>4 DEF GoTo
  <2>2. ASSUME NEW e \in Content PROVE e \in Before(n)
    <3>1. PICK i \in DOMAIN table : \E j \in DOMAIN table[i] : e = table[i][j]
      BY <1>2
    <3>2. table[i] # << >> /\ i \in 0 .. size - 1
      BY <1>1, <3>1
    <3>3. i < n
      <4>1. i \notin n .. size - 1
        BY <1>4, <3>2
      <4> QED BY <1>1, <3>2, <4>1
    <3> QED BY <3>1, <3>3 DEF Before
  <2>3. Before(n) = Content
    BY <2>2 DEF Before
  <2> QED BY <2>1, <2>3 DEF IterInv
<1>5. ASSUME left # {}
      PROVE  \E i \in left :
               /\ \A j \in left : i <= j
               /\ phase' = "iter" /\ at' = i /\ off' = 1
               /\ visited' = seen \cup {Head(table[i])}
  BY <1>5 DEF GoTo
<1>6. CASE left # {}
  <2>1. PICK i \in left :
               /\ \A j \in left : i <= j
               /\ phase' = "iter" /\ at' = i /\ off' = 1
               /\ visited' = seen \cup {Head(table[i])}
    BY <1>5, <1>6
  <2>2. /\ i \in 0 .. size - 1 /\ n <= i /\ table[i] \in Seq(Entry) /\ table[i] # << >>
        /\ i \in DOMAIN table
    BY <1>1, <2>1
  <2>3. 1 \in DOMAIN table[i] /\ Head(table[i]) = table[i][1]
    BY <2>2, TailChain
  <2>4. \A h \in DOMAIN table : h < i /\ ~ (h < n) => table[h] = << >>
    BY <1>1, <2>1, <2>2
  <2>5. visited' \subseteq Entry
    BY <1>2, <1>3, <2>1, <2>2, <2>3 DEF Before
  <2>6. ASSUME NEW e
        PROVE  e \in visited' <=>
                 \E h \in DOMAIN table : \E j \in DOMAIN table[h] :
                   e = table[h][j] /\ (h < i \/ (h = i /\ j <= 1))
    <3>1. ASSUME e \in visited'
          PROVE  \E h \in DOMAIN table : \E j \in DOMAIN table[h] :
                   e = table[h][j] /\ (h < i \/ (h = i /\ j <= 1))
      <4>1. CASE e = table[i][1]
        BY <4>1, <2>2, <2>3
      <4>2. CASE e \in Before(n)
        <5>1. PICK h \in DOMAIN table : \E j \in DOMAIN table[h] : e = table[h][j] /\ h < n
          BY <4>2 DEF Before
        <5>2. h < i
          BY <1>1, <5>1, <2>2
        <5> QED BY <5>1, <5>2
      <4> QED BY <3>1, <4>1, <4>2, <2>1, <2>3
    <3>2. ASSUME NEW h \in DOMAIN table, NEW j \in DOMAIN table[h],
                 e = table[h][j], h < i \/ (h = i /\ j <= 1)
          PROVE  e \in visited'
      <4>1. CASE h < i
        <5>1. h < n
          BY <4>1, <2>4, <3>2
        <5>2. e \in Before(n)
          BY <1>2, <5>1, <3>2 DEF Before
        <5> QED BY <5>2, <2>1
      <4>2. CASE h = i /\ j <= 1
        <5>1. j = 1
          BY <4>2, <2>2
        <5> QED BY <5>1, <4>2, <3>2, <2>1, <2>3
      <4> QED BY <3>2, <4>1, <4>2
    <3> QED BY <3>1, <3>2
  <2>7. IterInv'
    BY <1>1, <2>1, <2>2, <2>3, <2>5, <2>6 DEF IterInv
  <2>8. table[i][1] \notin Before(n)
    <3> SUFFICES ASSUME table[i][1] \in Before(n) PROVE FALSE
      OBVIOUS
    <3>1. PICK h \in DOMAIN table : \E j \in DOMAIN table[h] : table[i][1] = table[h][j] /\ h < n
      BY DEF Before
    <3>2. PICK j \in DOMAIN table[h] : table[i][1] = table[h][j] /\ h < n
      BY <3>1
    <3>3. Cell(table, i, 1) /\ Cell(table, h, j)
      BY <2>2, <2>3, <3>1, <3>2 DEF Cell
    <3>4. h = i
      BY <3>2, <3>3, <1>1 DEF Distinct
    <3> QED BY <3>2, <3>4, <2>2
  <2> QED BY <2>1, <2>3, <2>7, <2>8
<1> QED BY <1>4, <1>6

\* To the next entry of the chain.
LEMMA NextInChainStep ==
  ASSUME Arrays, IterInv, NextInChain
  PROVE  IterInv' /\ visited' # visited
<1>1. /\ phase = "iter" /\ phase' = "iter" /\ off + 1 \in DOMAIN table[at]
      /\ off' = off + 1 /\ visited' = visited \cup {table[at][off + 1]}
      /\ UNCHANGED <<table, size, at>>
      /\ at < size /\ off \in Nat /\ at \in Nat /\ at \in DOMAIN table
      /\ table \in [0 .. size - 1 -> Seq(Entry)] /\ Distinct(table)
      /\ Cell(table, at, off + 1)
  BY DEF NextInChain, IterInv, Arrays, ShapeInv, KeyInv, Growing, Cell
<1>2. \A e : e \in visited <=>
        \E i \in DOMAIN table : \E j \in DOMAIN table[i] :
          e = table[i][j] /\ (i < at \/ (i = at /\ j <= off))
  BY <1>1 DEF IterInv
<1>3. table[at][off + 1] \notin visited
  <2> SUFFICES ASSUME table[at][off + 1] \in visited PROVE FALSE
    OBVIOUS
  <2>0. PICK i \in DOMAIN table : \E j \in DOMAIN table[i] :
          table[at][off + 1] = table[i][j] /\ (i < at \/ (i = at /\ j <= off))
    BY <1>2
  <2>1. PICK j \in DOMAIN table[i] :
          table[at][off + 1] = table[i][j] /\ (i < at \/ (i = at /\ j <= off))
    BY <2>0
  <2>2. Cell(table, i, j)
    BY <2>1 DEF Cell
  <2>3. i = at /\ j = off + 1
    BY <1>1, <2>1, <2>2 DEF Distinct
  <2> QED BY <1>1, <2>1, <2>3
<1>4. ASSUME NEW e
      PROVE  e \in visited' <=>
               \E i \in DOMAIN table : \E j \in DOMAIN table[i] :
                 e = table[i][j] /\ (i < at \/ (i = at /\ j <= off + 1))
  <2>1. ASSUME NEW i \in DOMAIN table, NEW j \in DOMAIN table[i]
        PROVE  (i = at /\ j <= off + 1) <=> (i = at /\ (j <= off \/ j = off + 1))
    BY <1>1
  <2> QED BY <1>1, <1>2, <2>1
<1>5. visited' \subseteq Entry
  <2>1. table[at][off + 1] \in Entry
    BY <1>1, CellEntry
  <2> QED BY <1>1, <2>1 DEF IterInv
<1>6. IterInv'
  BY <1>1, <1>4, <1>5 DEF IterInv
<1> QED BY <1>1, <1>3, <1>6

\* From the end of a chain.
LEMMA NextChainStep ==
  ASSUME Arrays, IterInv, NextChain
  PROVE  /\ IterInv'
         /\ phase' = "iter" => visited' # visited
         /\ phase' # "iter" => visited = Content
<1>1. /\ phase = "iter" /\ ~ Growing /\ off + 1 \notin DOMAIN table[at]
      /\ GoTo(at + 1, visited) /\ UNCHANGED <<table, size>>
      /\ at < size /\ off \in DOMAIN table[at] /\ at \in Nat /\ size \in Nat
      /\ table \in [0 .. size - 1 -> Seq(Entry)] /\ Content = Chains(table)
  BY NoArray DEF NextChain, IterInv, Arrays, ShapeInv, Growing, Content
<1>2. \A e : e \in visited <=>
        \E i \in DOMAIN table : \E j \in DOMAIN table[i] :
          e = table[i][j] /\ (i < at \/ (i = at /\ j <= off))
  BY <1>1 DEF IterInv
<1>3. off = Len(table[at]) /\ DOMAIN table[at] = 1 .. Len(table[at]) /\ Len(table[at]) \in Nat
  BY <1>1
<1>4. ASSUME NEW i \in DOMAIN table, NEW j \in DOMAIN table[i]
      PROVE  (i < at \/ (i = at /\ j <= off)) <=> i < at + 1
  BY <1>1, <1>3
<1>5. \A e : e \in visited => e \in Content
  BY <1>1, <1>2, InChains
<1>6. visited = Before(at + 1)
  BY <1>2, <1>4, <1>5 DEF Before
<1> QED BY <1>1, <1>6, GoToStep

\* To the first entry.
LEMMA FirstStep ==
  ASSUME Arrays, First
  PROVE  IterInv'
<1>1. ~ Growing /\ GoTo(0, {}) /\ UNCHANGED <<table, size>>
  BY DEF First, Growing
<1>2. {} = Before(0)
  BY <1>1 DEF Before, Arrays, ShapeInv
<1> QED BY <1>1, <1>2, GoToStep

\* No other step comes into an iteration.
LEMMA IterStep ==
  ASSUME Arrays, IterInv, [Next]_vars
  PROVE  IterInv'
<1>1. CASE First
  BY <1>1, FirstStep
<1>2. CASE NextInChain
  BY <1>2, NextInChainStep
<1>3. CASE NextChain
  BY <1>3, NextChainStep
<1>4. ASSUME phase' # "iter", visited' = visited PROVE IterInv'
  BY <1>4 DEF IterInv
<1>5. CASE UNCHANGED vars
  BY <1>5 DEF vars, IterInv
<1>6. ASSUME NEW k \in Keys, NEW v \in Values, Insert(k, v) PROVE IterInv'
  BY <1>4, <1>6 DEF Insert
<1>7. ASSUME NEW v \in Values, Refuse(v) PROVE IterInv'
  BY <1>4, <1>7 DEF Refuse
<1>8. ASSUME NEW k \in Keys, Delete(k) PROVE IterInv'
  BY <1>4, <1>8 DEF Delete
<1>9. CASE Link \/ LinkFail \/ Destroy \/ Growth
  BY <1>4, <1>9 DEF Link, LinkFail, Destroy, Growth, NoGrowth, GrowNew, Move,
       MoveOn, MoveDone, GrowInPlace, RehashKeep, RehashMove, RehashOn, RehashDone
<1> QED BY <1>1, <1>2, <1>3, <1>5, <1>6, <1>7, <1>8, <1>9 DEF Next

-----------------------------------------------------------------------------
\* The theorems.

IInv == Arrays /\ CountInv /\ ValueInv /\ IterInv

\* A new table.
LEMMA IInvInit == Init => IInv /\ Content = {}
<1> SUFFICES ASSUME Init PROVE IInv /\ Content = {}
  OBVIOUS
<1>1. /\ prime = 1 /\ prime \in DOMAIN Primes /\ size = Primes[1] /\ size \in Nat \ {0}
      /\ table = EmptyTable(size) /\ newTable = << >> /\ count = 0
      /\ adding = None /\ phase = "idle" /\ at = 0 /\ off = 1
      /\ visited = {} /\ freed = {}
  BY HashTableAssumption DEF Init
<1>2. /\ table \in [0 .. size - 1 -> Seq(Entry)]
      /\ \A i \in DOMAIN table : table[i] = << >>
  BY <1>1 DEF EmptyTable
<1>3. Chains(table) = {} /\ Distinct(table) /\ \A i, j : ~ Cell(table, i, j)
  BY <1>2, NoChains, Zenon
<1>4. Content = {}
  BY <1>1, <1>3, NoArray DEF Content
<1>5. ShapeInv
  BY <1>1, <1>2 DEF ShapeInv, Growing
<1>6. PlaceInv
  BY <1>1, <1>3, NoArray DEF PlaceInv
<1>7. KeyInv
  BY <1>1, <1>3, NoArray DEF KeyInv
<1>8. CountInv
  BY <1>1, <1>4, FS_EmptySet DEF CountInv
<1>9. ValueInv
  BY <1>1, <1>4 DEF ValueInv, Live
<1>10. IterInv
  BY <1>1 DEF IterInv
<1> QED BY <1>4, <1>5, <1>6, <1>7, <1>8, <1>9, <1>10 DEF IInv, Arrays

\* Every step.
LEMMA IInvStep == IInv /\ [Next]_vars => IInv'
BY ArraysStep, CountStep, ValueStep, IterStep DEF IInv

\* The invariant holds throughout.
LEMMA IInvAlways == Spec => []IInv
BY IInvInit, IInvStep, PTL DEF Spec

\* It implies the properties of the table.
LEMMA IInvFound == IInv => EntriesFound
<1> SUFFICES ASSUME IInv, ~ Growing, NEW e \in Content
             PROVE  Search(e.key) = e.val
  BY DEF EntriesFound
<1>1. e \in Chains(table)
  BY NoArray DEF IInv, Arrays, ShapeInv, Growing, Content
<1>2. e.key \in Keys
  <2>1. PICK a, b : Cell(table, a, b) /\ e = table[a][b]
    BY <1>1, InChains DEF Cell
  <2> QED BY <2>1, CellEntry DEF IInv, Arrays, ShapeInv
<1>3. Matches(e.key) # {}
  BY <1>1, <1>2, Found DEF IInv
<1> QED BY <1>1, <1>2, <1>3, Found DEF IInv

\* It implies the ranges.
LEMMA IInvType == IInv => TypeOK
<1> SUFFICES ASSUME IInv PROVE TypeOK
  OBVIOUS
<1> QED BY DEF IInv, Arrays, ShapeInv, CountInv, ValueInv, IterInv, TypeOK

\* The fields of the table keep their ranges; the array has the length that
\* tablelength says, or will say when the growth is over.
THEOREM TypeCorrect == Spec => []TypeOK
BY IInvAlways, IInvType, PTL

\* A search finds every entry, and finds nothing else: the growth leaves no
\* entry in a chain where no search looks, and the insertion no second one.
THEOREM SearchFindsEntries == Spec => []EntriesFound
BY IInvAlways, IInvFound, PTL

\* A value in the table has not been freed.
THEOREM ValuesAlive == Spec => []LiveNotFreed
<1>1. IInv => LiveNotFreed
  BY DEF IInv, ValueInv, LiveNotFreed
<1> QED BY <1>1, IInvAlways, PTL

\* entrycount is the number of entries, with the one being inserted.
THEOREM EntryCount == Spec => []CountExact
<1>1. IInv => CountExact
  BY DEF IInv, CountInv, CountExact
<1> QED BY <1>1, IInvAlways, PTL

\* An iteration returns a new entry at each step, and ends with all of them.
THEOREM IterationComplete == Spec => IterationExact
<1>1. IInv /\ [Next]_vars
        => [phase = "iter" => IF phase' = "iter" THEN visited' # visited
                                                 ELSE visited = Content]_vars
  <2> SUFFICES ASSUME IInv, Next, phase = "iter"
               PROVE  IF phase' = "iter" THEN visited' # visited
                                         ELSE visited = Content
    OBVIOUS
  <2>1. NextInChain \/ NextChain
    BY DEF Next, Insert, Refuse, Delete, Link, LinkFail, Destroy, First, Growth,
           NoGrowth, GrowNew, Move, MoveOn, MoveDone, GrowInPlace, RehashKeep,
           RehashMove, RehashOn, RehashDone
  <2>2. CASE NextInChain
    BY <2>2, NextInChainStep DEF NextInChain, IInv
  <2>3. CASE NextChain
    BY <2>3, NextChainStep DEF IInv
  <2> QED BY <2>1, <2>2, <2>3
<1> QED BY <1>1, IInvAlways, PTL DEF Spec, IterationExact

\* The chained table implements the map, whatever its growths do.
THEOREM TableImplementsMap == Spec => MapSpec
<1>1. Init => Map!Init
  BY IInvInit DEF Init, Map!Init
<1>2. IInv /\ [Next]_vars => [Map!Next]_(Map!vars)
  <2> SUFFICES ASSUME IInv, [Next]_vars PROVE Map!Next \/ UNCHANGED Map!vars
    OBVIOUS
  <2>1. Effect
    BY ArraysStep DEF IInv
  <2>2. Quiet => UNCHANGED Map!vars
    BY DEF Quiet, Map!vars
  <2> QED BY <2>1, <2>2 DEF Effect, Map!Next
<1> QED BY <1>1, <1>2, IInvAlways, PTL DEF Spec, MapSpec, Map!Spec
=============================================================================
