--------------------------- MODULE XmlTreeProofs ---------------------------
(***************************************************************************)
(* Proofs about the tags of an XML document, for any sets of tags and       *)
(* names, any tree of them and any offsets: the three lists of a tag lead   *)
(* to each of its subtags, and they implement the document of XmlDoc.       *)
(*                                                                         *)
(* The order B of the placed tags is in no variable.  It is carried along   *)
(* from step to step: a tag that is put in comes after those at its offset, *)
(* and one that is cut leaves the order of the others as it is.             *)
(***************************************************************************)
EXTENDS XmlTree, FiniteSetTheorems, SequenceTheorems, NaturalsInduction,
        WellFoundedInduction, TLAPS

-----------------------------------------------------------------------------
\* Lists of tags.  B says of two tags which comes first in the document.

\* The order of the tags has no two of them both ways.
Asym(B) == \A u, v \in Tags : <<u, v>> \in B => <<v, u>> \notin B

\* The link f leads from h through s.
Chain(f, h, s) ==
  /\ h = OrNil(s, 1)
  /\ \A i \in 1 .. Len(s) : f[s[i]] = OrNil(s, i + 1)

\* s has the tags of Q in the order of B.
Sorted(s, Q, B) ==
  /\ s \in Seq(Tags)
  /\ \A i, j \in 1 .. Len(s) : i < j => <<s[i], s[j]>> \in B
  /\ Q = {s[i] : i \in 1 .. Len(s)}

\* The tags met from h along the link f are those of Q, in the order of B.
Listed(f, h, Q, B) == Chain(f, h, Way(f, h)) /\ Sorted(Way(f, h), Q, B)

\* A set of numbers that is not empty has a least one.
LEMMA LeastNatural ==
  ASSUME NEW T, T \subseteq Nat, T # {}
  PROVE  \E m \in T : \A j \in T : m <= j
<1>1. PICK m \in T : \A j \in T : ~(<<j, m>> \in OpToRel(<, Nat))
  BY WFMin, NatLessThanWellFounded, Zenon
<1>2. \A j \in T : m \in Nat /\ j \in Nat /\ ~(j < m)
  BY <1>1, Zenon DEF OpToRel
<1> QED
  BY <1>2

\* No tag comes twice.
LEMMA SortedOnce ==
  ASSUME NEW s, NEW Q, NEW B, Sorted(s, Q, B), Asym(B)
  PROVE  \A i, j \in 1 .. Len(s) : /\ s[i] \in Tags
                                   /\ s[i] = s[j] => i = j
                                   /\ <<s[i], s[j]>> \in B => i < j
<1> SUFFICES ASSUME NEW i \in 1 .. Len(s), NEW j \in 1 .. Len(s)
             PROVE  s[i] \in Tags /\ (s[i] = s[j] => i = j) /\ (<<s[i], s[j]>> \in B => i < j)
  OBVIOUS
<1>1. s[i] \in Tags /\ s[j] \in Tags
  BY DEF Sorted
<1>2. <<s[j], s[i]>> \in B => <<s[i], s[j]>> \notin B
  BY <1>1 DEF Asym
<1>3. i < j \/ i = j \/ j < i
  OBVIOUS
<1>4. i < j => <<s[i], s[j]>> \in B
  BY DEF Sorted
<1>5. j < i => <<s[j], s[i]>> \in B
  BY DEF Sorted
<1> QED
  BY <1>1, <1>2, <1>3, <1>4, <1>5

\* Nor are there more of them than there are tags.
LEMMA SortedFits ==
  ASSUME NEW s, NEW Q, NEW B, Sorted(s, Q, B), Asym(B)
  PROVE  /\ Len(s) \in Nat /\ Len(s) <= Cardinality(Tags)
         /\ Cardinality(Tags) \in Nat
<1>1. Len(s) \in Nat /\ IsFiniteSet(1 .. Len(s)) /\ Cardinality(1 .. Len(s)) = Len(s)
  <2>1. Len(s) \in Nat
    BY DEF Sorted
  <2>2. IsFiniteSet(1 .. Len(s)) /\ Cardinality(1 .. Len(s)) = IF 1 > Len(s) THEN 0 ELSE Len(s) - 1 + 1
    BY <2>1, FS_Interval
  <2> QED
    BY <2>1, <2>2
<1>2. s \in [1 .. Len(s) -> Tags]
  BY DEF Sorted
<1>3. s \in Injection(1 .. Len(s), Tags)
  BY <1>2, SortedOnce DEF Injection, IsInjective
<1>4. IsFiniteSet(Tags)
  BY TreeAssumption
<1>5. Cardinality(Tags) \in Nat
  BY <1>4, FS_CardinalityType
<1>6. Cardinality(1 .. Len(s)) <= Cardinality(Tags)
  BY <1>3, <1>4, FS_Injection
<1> QED
  BY <1>1, <1>5, <1>6

-----------------------------------------------------------------------------
\* The array a is the walk of n steps along the link f from h.
Walks(f, h, n, a) ==
  a = [i \in 0 .. n |-> IF i = 0 THEN h ELSE IF a[i - 1] = Nil THEN Nil ELSE f[a[i - 1]]]

\* There is one such walk.
LEMMA WalkOnce ==
  ASSUME NEW f, NEW h, NEW n \in Nat, NEW a, NEW b, Walks(f, h, n, a), Walks(f, h, n, b)
  PROVE  a = b
<1> DEFINE T == {i \in 0 .. n : a[i] # b[i]}
<1>1. \A i \in 0 .. n :
        /\ a[i] = IF i = 0 THEN h ELSE IF a[i - 1] = Nil THEN Nil ELSE f[a[i - 1]]
        /\ b[i] = IF i = 0 THEN h ELSE IF b[i - 1] = Nil THEN Nil ELSE f[b[i - 1]]
  BY DEF Walks
<1>2. T = {}
  <2> SUFFICES ASSUME T # {} PROVE FALSE
    OBVIOUS
  <2>1. T \subseteq Nat
    OBVIOUS
  <2>2. PICK m \in T : \A j \in T : m <= j
    <3> HIDE DEF T
    <3> QED
      BY <2>1, LeastNatural
  <2>3. m # 0
    BY <1>1
  <2>4. m - 1 \in 0 .. n /\ m - 1 \notin T /\ m \in 0 .. n
    BY <2>2, <2>3
  <2>5. a[m - 1] = b[m - 1]
    BY <2>4
  <2>6. a[m] = b[m]
    <3> HIDE DEF T
    <3> QED
      BY <1>1, <2>3, <2>4, <2>5, Zenon
  <2> QED
    BY <2>6
<1>3. \A i \in 0 .. n : a[i] = b[i]
  BY <1>2
<1>4. a = [i \in 0 .. n |-> a[i]] /\ b = [i \in 0 .. n |-> b[i]]
  BY DEF Walks
<1> HIDE DEF T
<1>5. [i \in 0 .. n |-> a[i]] = [i \in 0 .. n |-> b[i]]
  BY <1>3
<1> QED
  BY <1>4, <1>5, Zenon

\* Way returns the tags of a chain in which none comes twice.
LEMMA WayIs ==
  ASSUME NEW f, NEW h, NEW s, NEW Q, NEW B, Chain(f, h, s), Sorted(s, Q, B), Asym(B)
  PROVE  Way(f, h) = s
<1> DEFINE n == Cardinality(Tags)
           a == [i \in 0 .. n |-> OrNil(s, i + 1)]
           A == CHOOSE b : Walks(f, h, n, b)
<1>1. Len(s) \in Nat /\ Len(s) <= n /\ n \in Nat /\ DOMAIN s = 1 .. Len(s)
  <2>1. Len(s) \in Nat /\ Len(s) <= Cardinality(Tags) /\ Cardinality(Tags) \in Nat
    BY SortedFits
  <2>2. DOMAIN s = 1 .. Len(s)
    BY DEF Sorted
  <2> QED
    BY <2>1, <2>2
<1>2. \A i \in 1 .. Len(s) : s[i] \in Tags /\ s[i] # Nil
  BY TreeAssumption DEF Sorted
<1>3. Walks(f, h, n, a)
  <2> SUFFICES ASSUME NEW i \in 0 .. n
               PROVE  OrNil(s, i + 1) = IF i = 0 THEN h ELSE
                        IF a[i - 1] = Nil THEN Nil ELSE f[a[i - 1]]
    BY DEF Walks
  <2>1. CASE i = 0
    BY <2>1 DEF Chain
  <2>2. CASE i # 0 /\ i \in 1 .. Len(s)
    <3>1. a[i - 1] = s[i]
      BY <2>2, <1>1 DEF OrNil
    <3> QED
      BY <2>2, <3>1, <1>2 DEF Chain
  <2>3. CASE i # 0 /\ i \notin 1 .. Len(s)
    <3>1. a[i - 1] = Nil /\ OrNil(s, i + 1) = Nil
      BY <2>3, <1>1 DEF OrNil
    <3> QED
      BY <2>3, <3>1
  <2> QED
    BY <2>1, <2>2, <2>3
<1>4. A = a
  <2> HIDE DEF a, n
  <2>1. Walks(f, h, n, A)
    BY <1>3
  <2> QED
    BY <2>1, <1>1, <1>3, WalkOnce
<1>5. Way(f, h) = [i \in 1 .. Cardinality({i \in DOMAIN A : A[i] # Nil}) |-> A[i - 1]]
  BY DEF Way, Walks
<1>6. {i \in DOMAIN A : A[i] # Nil} = 0 .. Len(s) - 1
  <2>1. DOMAIN a = 0 .. n
    OBVIOUS
  <2>2. \A i \in 0 .. n : a[i] # Nil <=> i + 1 \in 1 .. Len(s)
    BY <1>1, <1>2 DEF OrNil
  <2>3. {i \in 0 .. n : a[i] # Nil} = 0 .. Len(s) - 1
    <3> HIDE DEF a, n
    <3> QED
      BY <1>1, <2>2
  <2> HIDE DEF a, n, A
  <2> QED
    BY <1>4, <2>1, <2>3
<1>7. Cardinality(0 .. Len(s) - 1) = Len(s)
  <2>1. Len(s) - 1 \in Int /\ 0 \in Int
    BY <1>1
  <2>2. Cardinality(0 .. Len(s) - 1) = IF 0 > Len(s) - 1 THEN 0 ELSE Len(s) - 1 - 0 + 1
    BY <2>1, FS_Interval
  <2> QED
    BY <2>2, <1>1
<1>8. Way(f, h) = [i \in 1 .. Len(s) |-> A[i - 1]]
  BY <1>5, <1>6, <1>7
<1>9. \A i \in 1 .. Len(s) : A[i - 1] = s[i]
  <2> SUFFICES ASSUME NEW i \in 1 .. Len(s) PROVE a[i - 1] = s[i]
    BY <1>4
  <2> QED
    BY <1>1 DEF OrNil
<1>10. s = [i \in 1 .. Len(s) |-> s[i]]
  BY DEF Sorted
<1> HIDE DEF A
<1>11. [i \in 1 .. Len(s) |-> A[i - 1]] = [i \in 1 .. Len(s) |-> s[i]]
  BY <1>9
<1> QED
  BY <1>8, <1>10, <1>11, Zenon

\* So a link that leads through the tags of Q in their order lists them.
LEMMA ListedBy ==
  ASSUME NEW f, NEW h, NEW s, NEW Q, NEW B, Chain(f, h, s), Sorted(s, Q, B), Asym(B)
  PROVE  Listed(f, h, Q, B) /\ Way(f, h) = s
BY WayIs DEF Listed

-----------------------------------------------------------------------------
\* A sequence with one tag more.
LEMMA Inserted ==
  ASSUME NEW s \in Seq(Tags), NEW i \in 1 .. Len(s) + 1, NEW t \in Tags
  PROVE  /\ InsertAt(s, i, t) \in Seq(Tags) /\ Len(InsertAt(s, i, t)) = Len(s) + 1
         /\ \A k \in 1 .. Len(s) + 1 :
              InsertAt(s, i, t)[k] = IF k < i THEN s[k] ELSE IF k = i THEN t ELSE s[k - 1]
<1> SUFFICES ASSUME NEW n \in Nat, n = Len(s)
             PROVE  /\ InsertAt(s, i, t) \in Seq(Tags) /\ Len(InsertAt(s, i, t)) = Len(s) + 1
             /\ \A k \in 1 .. Len(s) + 1 :
                  InsertAt(s, i, t)[k] = IF k < i THEN s[k] ELSE IF k = i THEN t ELSE s[k - 1]
  OBVIOUS
<1> DEFINE a == SubSeq(s, 1, i - 1)
           b == SubSeq(s, i, n)
<1>1. n \in Nat /\ i \in 1 .. n + 1 /\ \A k \in 1 .. n : s[k] \in Tags
  OBVIOUS
<1>2. a \in Seq(Tags) /\ Len(a) = i - 1 /\ \A k \in 1 .. i - 1 : a[k] = s[k]
  BY <1>1
<1>3. b \in Seq(Tags) /\ Len(b) = n - i + 1 /\ \A k \in 1 .. n - i + 1 : b[k] = s[i + k - 1]
  BY <1>1
<1>4. InsertAt(s, i, t) = a \o <<t>> \o b
  BY DEF InsertAt
<1> HIDE DEF a, b
<1> DEFINE c == a \o <<t>>
<1>5. /\ c \in Seq(Tags) /\ Len(c) = i
      /\ \A k \in 1 .. i - 1 : c[k] = s[k]
      /\ c[i] = t
  BY <1>2
<1> HIDE DEF c
<1>6. /\ c \o b \in Seq(Tags) /\ Len(c \o b) = n + 1
      /\ \A k \in 1 .. n + 1 : (c \o b)[k] = IF k <= i THEN c[k] ELSE b[k - i]
  <2>1. /\ c \o b \in Seq(Tags) /\ Len(c \o b) = Len(c) + Len(b)
        /\ \A k \in 1 .. Len(c) + Len(b) :
             (c \o b)[k] = IF k <= Len(c) THEN c[k] ELSE b[k - Len(c)]
    BY <1>3, <1>5, ConcatProperties
  <2>2. Len(c) = i /\ Len(c) + Len(b) = n + 1
    BY <1>1, <1>3, <1>5
  <2> QED
    BY <2>1, <2>2
<1>7. \A k \in 1 .. n + 1 :
        (c \o b)[k] = IF k < i THEN s[k] ELSE IF k = i THEN t ELSE s[k - 1]
  <2> TAKE k \in 1 .. n + 1
  <2>1. CASE k < i
    <3>1. k \in 1 .. i - 1 /\ k <= i
      BY <2>1
    <3> QED
      BY <1>5, <1>6, <2>1, <3>1
  <2>2. CASE k = i
    BY <1>5, <1>6, <2>2
  <2>3. CASE k > i
    <3>1. k - i \in 1 .. n - i + 1 /\ i + (k - i) - 1 = k - 1
      BY <1>1, <2>3
    <3>2. (c \o b)[k] = b[k - i]
      BY <1>6, <2>3
    <3>3. b[k - i] = s[i + (k - i) - 1]
      BY <1>3, <3>1
    <3>4. (c \o b)[k] = s[k - 1]
      BY <3>1, <3>2, <3>3, Zenon
    <3>5. ~(k < i) /\ k # i
      BY <2>3
    <3> QED
      BY <3>4, <3>5, Zenon
  <2>4. k < i \/ k = i \/ k > i
    BY <1>1
  <2> QED
    BY <2>1, <2>2, <2>3, <2>4, Zenon
<1> QED
  BY <1>4, <1>6, <1>7 DEF c

\* A sequence with one tag less.
LEMMA Removed ==
  ASSUME NEW s \in Seq(Tags), NEW i \in 1 .. Len(s)
  PROVE  /\ RemoveAt(s, i) \in Seq(Tags) /\ Len(RemoveAt(s, i)) = Len(s) - 1
         /\ \A k \in 1 .. Len(s) - 1 : RemoveAt(s, i)[k] = IF k < i THEN s[k] ELSE s[k + 1]
<1> SUFFICES ASSUME NEW n \in Nat, n = Len(s)
             PROVE  /\ RemoveAt(s, i) \in Seq(Tags) /\ Len(RemoveAt(s, i)) = Len(s) - 1
             /\ \A k \in 1 .. Len(s) - 1 : RemoveAt(s, i)[k] = IF k < i THEN s[k] ELSE s[k + 1]
  OBVIOUS
<1> DEFINE a == SubSeq(s, 1, i - 1)
           b == SubSeq(s, i + 1, n)
<1>1. n \in Nat /\ i \in 1 .. n /\ \A k \in 1 .. n : s[k] \in Tags
  OBVIOUS
<1>2. a \in Seq(Tags) /\ Len(a) = i - 1 /\ \A k \in 1 .. i - 1 : a[k] = s[k]
  BY <1>1
<1>3. b \in Seq(Tags) /\ Len(b) = n - i /\ \A k \in 1 .. n - i : b[k] = s[i + k]
  BY <1>1
<1>4. RemoveAt(s, i) = a \o b
  BY DEF RemoveAt
<1> HIDE DEF a, b
<1>5. /\ a \o b \in Seq(Tags) /\ Len(a \o b) = n - 1
      /\ \A k \in 1 .. n - 1 : (a \o b)[k] = IF k <= i - 1 THEN a[k] ELSE b[k - (i - 1)]
  <2>1. /\ a \o b \in Seq(Tags) /\ Len(a \o b) = Len(a) + Len(b)
        /\ \A k \in 1 .. Len(a) + Len(b) :
             (a \o b)[k] = IF k <= Len(a) THEN a[k] ELSE b[k - Len(a)]
    BY <1>2, <1>3, ConcatProperties
  <2>2. Len(a) = i - 1 /\ Len(a) + Len(b) = n - 1
    BY <1>1, <1>2, <1>3
  <2> QED
    BY <2>1, <2>2
<1>6. \A k \in 1 .. n - 1 : (a \o b)[k] = IF k < i THEN s[k] ELSE s[k + 1]
  <2> TAKE k \in 1 .. n - 1
  <2>1. CASE k < i
    BY <1>2, <1>5, <2>1
  <2>2. CASE k >= i
    <3>1. k - (i - 1) \in 1 .. n - i /\ i + (k - (i - 1)) = k + 1
      BY <1>1, <2>2
    <3>2. (a \o b)[k] = b[k - (i - 1)]
      BY <1>5, <2>2
    <3>3. b[k - (i - 1)] = s[i + (k - (i - 1))]
      BY <1>3, <3>1
    <3>4. (a \o b)[k] = s[k + 1]
      BY <3>1, <3>2, <3>3, Zenon
    <3>5. ~(k < i)
      BY <2>2
    <3> QED
      BY <3>4, <3>5, Zenon
  <2>3. k < i \/ k >= i
    BY <1>1
  <2> QED
    BY <2>1, <2>2, <2>3, Zenon
<1> QED
  BY <1>4, <1>5, <1>6

-----------------------------------------------------------------------------
\* What a list tells of the order, without its places.
LEMMA ListOrder ==
  ASSUME NEW f, NEW h, NEW Q, NEW B, Listed(f, h, Q, B), Asym(B)
  PROVE  /\ Q \subseteq Tags
         /\ h = Nil <=> Q = {}
         /\ h # Nil => h \in Q /\ \A w \in Q : w # h => <<h, w>> \in B
         /\ \A u, v \in Q : u # v => <<u, v>> \in B \/ <<v, u>> \in B
<1> DEFINE s == Way(f, h)
<1>1. Chain(f, h, s) /\ Sorted(s, Q, B)
  BY DEF Listed
<1> HIDE DEF s
<1>2. s \in Seq(Tags) /\ DOMAIN s = 1 .. Len(s) /\ Q = {s[i] : i \in 1 .. Len(s)}
  BY <1>1 DEF Sorted
<1>3. \A i \in 1 .. Len(s) : s[i] \in Tags /\ s[i] # Nil
  BY <1>2, TreeAssumption
<1>4. Q \subseteq Tags
  BY <1>2, <1>3
<1>5. h = OrNil(s, 1)
  BY <1>1 DEF Chain
<1>6. CASE Len(s) = 0
  <2>1. Q = {} /\ h = Nil
    BY <1>2, <1>5, <1>6 DEF OrNil
  <2> QED
    BY <2>1
<1>7. CASE Len(s) # 0
  <2>1. 1 \in 1 .. Len(s) /\ h = s[1] /\ h \in Q /\ h # Nil
    BY <1>2, <1>3, <1>5, <1>7 DEF OrNil
  <2>2. ASSUME NEW w \in Q, w # h PROVE <<h, w>> \in B
    <3>1. PICK i \in 1 .. Len(s) : w = s[i]
      BY <1>2
    <3>2. 1 < i
      BY <2>1, <2>2, <3>1
    <3> QED
      BY <1>1, <2>1, <3>1, <3>2 DEF Sorted
  <2>3. ASSUME NEW u \in Q, NEW v \in Q, u # v PROVE <<u, v>> \in B \/ <<v, u>> \in B
    <3>1. PICK i \in 1 .. Len(s), j \in 1 .. Len(s) : u = s[i] /\ v = s[j]
      BY <1>2
    <3>2. i < j \/ j < i
      BY <2>3, <3>1
    <3> QED
      BY <1>1, <3>1, <3>2 DEF Sorted
  <2> QED
    BY <1>4, <2>1, <2>2, <2>3
<1> QED
  BY <1>6, <1>7

\* The tag after another one in a list follows it in the order, with none
\* between them; the last one comes after all the others.
LEMMA ListNext ==
  ASSUME NEW f, NEW h, NEW Q, NEW B, Listed(f, h, Q, B), Asym(B), NEW u \in Q
  PROVE  /\ f[u] = Nil => \A w \in Q : w # u => <<w, u>> \in B
         /\ f[u] # Nil =>
              /\ f[u] \in Q /\ <<u, f[u]>> \in B
              /\ \A w \in Q : w \notin {u, f[u]} =>
                   \/ <<u, w>> \in B /\ <<f[u], w>> \in B
                   \/ <<w, u>> \in B /\ <<w, f[u]>> \in B
<1> DEFINE s == Way(f, h)
<1>1. Chain(f, h, s) /\ Sorted(s, Q, B)
  BY DEF Listed
<1> HIDE DEF s
<1>2. s \in Seq(Tags) /\ DOMAIN s = 1 .. Len(s) /\ Q = {s[i] : i \in 1 .. Len(s)}
  BY <1>1 DEF Sorted
<1>3. \A i \in 1 .. Len(s) : s[i] \in Tags /\ s[i] # Nil
  BY <1>2, TreeAssumption
<1>4. \A i, j \in 1 .. Len(s) : i < j => <<s[i], s[j]>> \in B
  BY <1>1 DEF Sorted
<1>5. PICK i \in 1 .. Len(s) : u = s[i]
  BY <1>2
<1>6. f[u] = OrNil(s, i + 1)
  BY <1>1, <1>5 DEF Chain
<1>7. ASSUME NEW w \in Q
      PROVE  \E j \in 1 .. Len(s) : w = s[j]
  BY <1>2
<1>8. CASE i = Len(s)
  <2>1. f[u] = Nil
    BY <1>2, <1>6, <1>8 DEF OrNil
  <2>2. ASSUME NEW w \in Q, w # u PROVE <<w, u>> \in B
    <3>1. PICK j \in 1 .. Len(s) : w = s[j]
      BY <1>7
    <3>2. j < i
      BY <2>2, <3>1, <1>5, <1>8
    <3> QED
      BY <1>4, <1>5, <3>1, <3>2
  <2> QED
    BY <2>1, <2>2
<1>9. CASE i # Len(s)
  <2>1. i + 1 \in 1 .. Len(s) /\ f[u] = s[i + 1] /\ f[u] # Nil /\ f[u] \in Q
    <3>0. Len(s) \in Nat
      BY <1>2
    <3>1. i + 1 \in 1 .. Len(s)
      BY <3>0, <1>9
    <3>2. f[u] = s[i + 1]
      BY <1>2, <1>6, <3>1 DEF OrNil
    <3> QED
      BY <1>2, <1>3, <3>1, <3>2
  <2>2. <<u, f[u]>> \in B
    BY <1>4, <1>5, <2>1
  <2>3. ASSUME NEW w \in Q, w \notin {u, f[u]}
        PROVE  \/ <<u, w>> \in B /\ <<f[u], w>> \in B
               \/ <<w, u>> \in B /\ <<w, f[u]>> \in B
    <3>1. PICK j \in 1 .. Len(s) : w = s[j]
      BY <1>7
    <3>2. j < i \/ i + 1 < j
      BY <2>1, <2>3, <3>1, <1>5
    <3>3. j < i => j < i + 1
      OBVIOUS
    <3>4. i + 1 < j => i < j
      OBVIOUS
    <3> QED
      BY <1>4, <1>5, <2>1, <3>1, <3>2, <3>3, <3>4
  <2> QED
    BY <2>1, <2>2, <2>3
<1> QED
  BY <1>8, <1>9

-----------------------------------------------------------------------------
\* Lists that change.  B and C are the orders before and after.

\* The order C says of the tags of Q what B says.
Keeps(Q, B, C) == \A u, v \in Q : <<u, v>> \in B => <<u, v>> \in C

\* It stays a list under another link that agrees on its tags.
LEMMA ListSame ==
  ASSUME NEW f, NEW g, NEW h, NEW Q, NEW B, NEW C, Listed(f, h, Q, B), Asym(B), Asym(C),
         \A u \in Q : g[u] = f[u], Keeps(Q, B, C)
  PROVE  Listed(g, h, Q, C) /\ Way(g, h) = Way(f, h)
<1> DEFINE s == Way(f, h)
<1>1. Chain(f, h, s) /\ Sorted(s, Q, B)
  BY DEF Listed
<1> HIDE DEF s
<1>2. Q = {s[i] : i \in 1 .. Len(s)}
  BY <1>1 DEF Sorted
<1>3. \A i \in 1 .. Len(s) : s[i] \in Q
  BY <1>2
<1>4. Chain(g, h, s)
  BY <1>1, <1>3 DEF Chain
<1>5. Sorted(s, Q, C)
  BY <1>1, <1>3 DEF Sorted, Keeps
<1>6. Listed(g, h, Q, C) /\ Way(g, h) = s
  BY <1>4, <1>5, ListedBy
<1> QED
  BY <1>6 DEF s

\* t comes in at the place i.
PutsIn(f, g, h, e, s, i, t) ==
  /\ i \in 1 .. Len(s) + 1
  /\ g[t] = OrNil(s, i)
  /\ e = IF i = 1 THEN t ELSE h
  /\ \A j \in 1 .. Len(s) : g[s[j]] = IF j = i - 1 THEN t ELSE f[s[j]]

\* The place i is the one that t has in the order C.
Between(s, i, t, C) ==
  \A j \in 1 .. Len(s) : IF j < i THEN <<s[j], t>> \in C ELSE <<t, s[j]>> \in C

\* A tag linked in at its place in the order gives a list with that tag more.
LEMMA ListPut ==
  ASSUME NEW f, NEW g, NEW h, NEW e, NEW Q, NEW B, NEW C, NEW i, NEW t \in Tags,
         Listed(f, h, Q, B), Asym(B), Asym(C), Keeps(Q, B, C),
         PutsIn(f, g, h, e, Way(f, h), i, t), Between(Way(f, h), i, t, C)
  PROVE  /\ Listed(g, e, Q \cup {t}, C)
         /\ Way(g, e) = InsertAt(Way(f, h), i, t)
<1> DEFINE s == Way(f, h)
           r == InsertAt(s, i, t)
<1>1. Chain(f, h, s) /\ Sorted(s, Q, B)
  BY DEF Listed
<1>0. PutsIn(f, g, h, e, s, i, t) /\ Between(s, i, t, C)
  OBVIOUS
<1> HIDE DEF s
<1> SUFFICES Listed(g, e, Q \cup {t}, C) /\ Way(g, e) = r
  BY DEF s
<1>2. s \in Seq(Tags) /\ DOMAIN s = 1 .. Len(s) /\ Q = {s[j] : j \in 1 .. Len(s)} /\ Len(s) \in Nat
  BY <1>1 DEF Sorted
<1>3. i \in 1 .. Len(s) + 1
  BY <1>0 DEF PutsIn
<1>4. /\ r \in Seq(Tags) /\ Len(r) = Len(s) + 1 /\ DOMAIN r = 1 .. Len(s) + 1
      /\ \A k \in 1 .. Len(s) + 1 : r[k] = IF k < i THEN s[k] ELSE IF k = i THEN t ELSE s[k - 1]
  BY <1>2, <1>3, Inserted
<1> HIDE DEF r
<1>5. \A k \in 1 .. Len(s) + 1 :
        /\ k < i => k \in 1 .. Len(s) /\ r[k] = s[k]
        /\ k = i => r[k] = t
        /\ k > i => k - 1 \in 1 .. Len(s) /\ r[k] = s[k - 1]
  BY <1>2, <1>3, <1>4
<1>6. Chain(g, e, r)
  <2>1. e = OrNil(r, 1)
    <3>1. CASE i = 1
      BY <1>0, <1>4, <1>5, <3>1, <1>2 DEF PutsIn, OrNil
    <3>2. CASE i # 1
      <4>1. 1 \in 1 .. Len(s) /\ 1 < i /\ 1 \in 1 .. Len(s) + 1
        BY <1>2, <1>3, <3>2
      <4>2. e = h /\ h = s[1]
        BY <1>0, <1>1, <1>2, <3>2, <4>1 DEF PutsIn, Chain, OrNil
      <4> QED
        BY <1>4, <1>5, <4>1, <4>2 DEF OrNil
    <3> QED
      BY <3>1, <3>2
  <2>2. ASSUME NEW k \in 1 .. Len(r)
        PROVE  g[r[k]] = OrNil(r, k + 1)
    <3>0. k \in 1 .. Len(s) + 1
      BY <1>4
    <3>1. \A j \in 1 .. Len(s) : /\ f[s[j]] = OrNil(s, j + 1)
                                 /\ g[s[j]] = IF j = i - 1 THEN t ELSE f[s[j]]
      BY <1>0, <1>1 DEF Chain, PutsIn
    <3>2. CASE k < i - 1
      <4>1. k \in 1 .. Len(s) /\ k < i /\ k + 1 < i /\ k + 1 \in 1 .. Len(s) /\ k # i - 1
            /\ k + 1 \in 1 .. Len(s) + 1
        BY <1>2, <1>3, <3>0, <3>2
      <4>2. g[r[k]] = f[s[k]] /\ f[s[k]] = s[k + 1]
        BY <1>2, <1>5, <3>0, <3>1, <4>1 DEF OrNil
      <4> QED
        BY <1>4, <1>5, <4>1, <4>2 DEF OrNil
    <3>3. CASE k = i - 1
      <4>1. k \in 1 .. Len(s) /\ k < i /\ k + 1 = i /\ k + 1 \in 1 .. Len(s) + 1
        BY <1>2, <1>3, <3>0, <3>3
      <4>2. g[r[k]] = t
        BY <1>5, <3>0, <3>1, <3>3, <4>1
      <4> QED
        BY <1>4, <1>5, <4>1, <4>2 DEF OrNil
    <3>4. CASE k = i
      <4>1. g[r[k]] = OrNil(s, i)
        BY <1>0, <1>5, <3>0, <3>4 DEF PutsIn
      <4>2. i \in 1 .. Len(s) => i + 1 \in 1 .. Len(s) + 1 /\ i + 1 > i /\ i + 1 - 1 = i
        BY <1>2
      <4>3. i \notin 1 .. Len(s) => i + 1 \notin 1 .. Len(s) + 1
        BY <1>2, <1>3
      <4> QED
        BY <1>2, <1>4, <1>5, <3>4, <4>1, <4>2, <4>3 DEF OrNil
    <3>5. CASE k > i
      <4>1. k - 1 \in 1 .. Len(s) /\ k - 1 # i - 1 /\ (k - 1) + 1 = k
        BY <1>2, <1>3, <3>0, <3>5
      <4>2. g[r[k]] = OrNil(s, k)
        BY <1>5, <3>0, <3>1, <3>5, <4>1
      <4>3. k \in 1 .. Len(s) => k + 1 \in 1 .. Len(s) + 1 /\ k + 1 > i /\ k + 1 - 1 = k
        BY <1>2, <1>3, <3>5
      <4>4. k \notin 1 .. Len(s) => k + 1 \notin 1 .. Len(s) + 1
        BY <1>2, <3>0
      <4> QED
        BY <1>2, <1>4, <1>5, <4>2, <4>3, <4>4 DEF OrNil
    <3>6. k < i - 1 \/ k = i - 1 \/ k = i \/ k > i
      BY <1>3, <3>0
    <3> QED
      BY <3>2, <3>3, <3>4, <3>5, <3>6, Zenon
  <2> QED
    BY <2>1, <2>2 DEF Chain
<1>7. Sorted(r, Q \cup {t}, C)
  <2>1. \A j, k \in 1 .. Len(s) : j < k => <<s[j], s[k]>> \in C
    <3>1. \A j \in 1 .. Len(s) : s[j] \in Q
      BY <1>2
    <3> QED
      BY <1>1, <3>1 DEF Sorted, Keeps
  <2>2. ASSUME NEW j \in 1 .. Len(s) + 1, NEW k \in 1 .. Len(s) + 1, j < k
        PROVE  <<r[j], r[k]>> \in C
    <3>1. CASE k < i
      <4>1. j < i
        BY <1>2, <1>3, <2>2, <3>1
      <4> QED
        BY <1>5, <2>1, <2>2, <3>1, <4>1
    <3>2. CASE k = i
      BY <1>0, <1>5, <2>2, <3>2 DEF Between
    <3>3. CASE k > i /\ j < i
      <4>1. j < k - 1 /\ j \in 1 .. Len(s) /\ k - 1 \in 1 .. Len(s)
        BY <1>2, <1>3, <2>2, <3>3
      <4>2. r[j] = s[j] /\ r[k] = s[k - 1]
        BY <1>5, <3>3
      <4>3. <<s[j], s[k - 1]>> \in C
        BY <2>1, <4>1
      <4> QED
        BY <4>2, <4>3
    <3>4. CASE k > i /\ j = i
      <4>1. ~(k - 1 < i) /\ k - 1 \in 1 .. Len(s)
        BY <1>2, <1>3, <3>4
      <4> QED
        BY <1>0, <1>5, <3>4, <4>1 DEF Between
    <3>5. CASE k > i /\ j > i
      <4>1. j - 1 < k - 1 /\ j - 1 \in 1 .. Len(s) /\ k - 1 \in 1 .. Len(s)
        BY <1>2, <1>3, <2>2, <3>5
      <4>2. r[j] = s[j - 1] /\ r[k] = s[k - 1]
        BY <1>5, <3>5
      <4>3. <<s[j - 1], s[k - 1]>> \in C
        BY <2>1, <4>1
      <4> QED
        BY <4>2, <4>3
    <3>6. k < i \/ k = i \/ (k > i /\ (j < i \/ j = i \/ j > i))
      BY <1>2, <1>3
    <3> QED
      BY <3>1, <3>2, <3>3, <3>4, <3>5, <3>6, Zenon
  <2>3. Q \cup {t} = {r[k] : k \in 1 .. Len(s) + 1}
    <3>1. ASSUME NEW x \in Q \cup {t} PROVE \E k \in 1 .. Len(s) + 1 : x = r[k]
      <4>1. CASE x = t
        BY <1>3, <1>5, <4>1
      <4>2. CASE x \in Q
        <5>1. PICK j \in 1 .. Len(s) : x = s[j]
          BY <1>2, <4>2
        <5>2. CASE j < i
          <6>1. j \in 1 .. Len(s) + 1 /\ r[j] = s[j]
            BY <1>2, <1>5, <5>2
          <6> QED
            BY <5>1, <6>1
        <5>3. CASE j >= i
          <6>1. j + 1 \in 1 .. Len(s) + 1 /\ j + 1 > i /\ j + 1 - 1 = j
            BY <1>2, <1>3, <5>3
          <6>2. r[j + 1] = s[j]
            BY <1>5, <6>1
          <6> QED
            BY <5>1, <6>1, <6>2
        <5>4. j < i \/ j >= i
          BY <1>3
        <5> QED
          BY <5>2, <5>3, <5>4, Zenon
      <4> QED
        BY <4>1, <4>2
    <3>2. ASSUME NEW k \in 1 .. Len(s) + 1 PROVE r[k] \in Q \cup {t}
      <4>1. k < i \/ k = i \/ k > i
        BY <1>3
      <4>2. \A j \in 1 .. Len(s) : s[j] \in Q
        BY <1>2
      <4> QED
        BY <1>5, <4>1, <4>2
    <3> QED
      BY <3>1, <3>2
  <2> QED
    BY <1>4, <2>2, <2>3 DEF Sorted
<1> QED
  BY <1>6, <1>7, ListedBy

\* The tag at the place i is taken out.
TakesOut(f, g, h, e, s, i) ==
  /\ i \in 1 .. Len(s)
  /\ e = IF i = 1 THEN f[s[i]] ELSE h
  /\ \A j \in 1 .. Len(s) : j # i => g[s[j]] = IF j = i - 1 THEN f[s[i]] ELSE f[s[j]]

\* A tag taken out gives a list with that tag less.
LEMMA ListCut ==
  ASSUME NEW f, NEW g, NEW h, NEW e, NEW Q, NEW B, NEW C, NEW i,
         Listed(f, h, Q, B), Asym(B), Asym(C),
         TakesOut(f, g, h, e, Way(f, h), i), Keeps(Q \ {Way(f, h)[i]}, B, C)
  PROVE  /\ Listed(g, e, Q \ {Way(f, h)[i]}, C)
         /\ Way(g, e) = RemoveAt(Way(f, h), i)
<1> DEFINE s == Way(f, h)
           r == RemoveAt(s, i)
<1>1. Chain(f, h, s) /\ Sorted(s, Q, B)
  BY DEF Listed
<1>0. TakesOut(f, g, h, e, s, i) /\ Keeps(Q \ {s[i]}, B, C)
  OBVIOUS
<1> HIDE DEF s
<1> SUFFICES Listed(g, e, Q \ {s[i]}, C) /\ Way(g, e) = r
  BY DEF s
<1>2. s \in Seq(Tags) /\ DOMAIN s = 1 .. Len(s) /\ Q = {s[j] : j \in 1 .. Len(s)} /\ Len(s) \in Nat
  BY <1>1 DEF Sorted
<1>3. i \in 1 .. Len(s)
  BY <1>0 DEF TakesOut
<1>4. /\ r \in Seq(Tags) /\ Len(r) = Len(s) - 1 /\ DOMAIN r = 1 .. Len(s) - 1
      /\ \A k \in 1 .. Len(s) - 1 : r[k] = IF k < i THEN s[k] ELSE s[k + 1]
  <2>1. /\ r \in Seq(Tags) /\ Len(r) = Len(s) - 1
        /\ \A k \in 1 .. Len(s) - 1 : r[k] = IF k < i THEN s[k] ELSE s[k + 1]
    BY <1>2, <1>3, Removed
  <2> HIDE DEF r
  <2>2. DOMAIN r = 1 .. Len(r)
    BY <2>1
  <2> QED
    BY <2>1, <2>2
<1> HIDE DEF r
<1>5. \A k \in 1 .. Len(s) - 1 :
        /\ k < i => k \in 1 .. Len(s) /\ k # i /\ r[k] = s[k]
        /\ k >= i => k + 1 \in 1 .. Len(s) /\ k + 1 # i /\ r[k] = s[k + 1]
  BY <1>2, <1>3, <1>4
<1>6. \A j \in 1 .. Len(s) : /\ f[s[j]] = OrNil(s, j + 1)
                             /\ j # i => g[s[j]] = IF j = i - 1 THEN f[s[i]] ELSE f[s[j]]
  BY <1>0, <1>1 DEF Chain, TakesOut
<1>7. Chain(g, e, r)
  <2>1. e = OrNil(r, 1)
    <3>1. CASE i = 1
      <4>1. e = OrNil(s, 2)
        BY <1>0, <1>3, <1>6, <3>1 DEF TakesOut
      <4>2. 2 \in 1 .. Len(s) => 1 \in 1 .. Len(s) - 1 /\ 1 >= i /\ 1 + 1 = 2
        BY <1>2, <3>1
      <4>3. 2 \notin 1 .. Len(s) => 1 \notin 1 .. Len(s) - 1
        BY <1>2, <1>3
      <4> QED
        BY <1>2, <1>4, <1>5, <4>1, <4>2, <4>3 DEF OrNil
    <3>2. CASE i # 1
      <4>1. 1 \in 1 .. Len(s) /\ 1 < i /\ 1 \in 1 .. Len(s) - 1
        BY <1>2, <1>3, <3>2
      <4>2. e = h /\ h = s[1]
        BY <1>0, <1>1, <1>2, <3>2, <4>1 DEF TakesOut, Chain, OrNil
      <4> QED
        BY <1>4, <1>5, <4>1, <4>2 DEF OrNil
    <3> QED
      BY <3>1, <3>2
  <2>2. ASSUME NEW k \in 1 .. Len(r)
        PROVE  g[r[k]] = OrNil(r, k + 1)
    <3>0. k \in 1 .. Len(s) - 1
      BY <1>4
    <3>2. CASE k < i - 1
      <4>1. k \in 1 .. Len(s) /\ k < i /\ k + 1 < i /\ k + 1 \in 1 .. Len(s) /\ k # i - 1
            /\ k + 1 \in 1 .. Len(s) - 1 /\ k # i
        BY <1>2, <1>3, <3>0, <3>2
      <4>2. g[r[k]] = f[s[k]] /\ f[s[k]] = s[k + 1]
        BY <1>2, <1>5, <1>6, <3>0, <4>1 DEF OrNil
      <4> QED
        BY <1>4, <1>5, <4>1, <4>2 DEF OrNil
    <3>3. CASE k = i - 1
      <4>1. k \in 1 .. Len(s) /\ k < i /\ k + 1 = i /\ k # i
        BY <1>2, <1>3, <3>0, <3>3
      <4>2. g[r[k]] = OrNil(s, i + 1)
        BY <1>3, <1>5, <1>6, <3>0, <3>3, <4>1
      <4>3. i + 1 \in 1 .. Len(s) => i \in 1 .. Len(s) - 1 /\ i >= i
        BY <1>2, <1>3
      <4>4. i + 1 \notin 1 .. Len(s) => i \notin 1 .. Len(s) - 1
        BY <1>2, <1>3
      <4> QED
        BY <1>2, <1>4, <1>5, <4>1, <4>2, <4>3, <4>4 DEF OrNil
    <3>4. CASE k > i - 1
      <4>1. k + 1 \in 1 .. Len(s) /\ k + 1 # i - 1 /\ k >= i /\ k + 1 # i
        BY <1>2, <1>3, <3>0, <3>4
      <4>2. g[r[k]] = OrNil(s, (k + 1) + 1)
        BY <1>5, <1>6, <3>0, <4>1
      <4>3. (k + 1) + 1 \in 1 .. Len(s) => k + 1 \in 1 .. Len(s) - 1 /\ k + 1 >= i
        BY <1>2, <1>3, <3>0, <4>1
      <4>4. (k + 1) + 1 \notin 1 .. Len(s) => k + 1 \notin 1 .. Len(s) - 1
        BY <1>2, <3>0
      <4> QED
        BY <1>2, <1>4, <1>5, <4>2, <4>3, <4>4 DEF OrNil
    <3>5. k < i - 1 \/ k = i - 1 \/ k > i - 1
      BY <1>3, <3>0
    <3> QED
      BY <3>2, <3>3, <3>4, <3>5, Zenon
  <2> QED
    BY <2>1, <2>2 DEF Chain
<1>8. \A j \in 1 .. Len(s) : s[j] \in Q /\ (j # i => s[j] # s[i])
  BY <1>1, <1>2, <1>3, SortedOnce
<1>9. Sorted(r, Q \ {s[i]}, C)
  <2>1. \A j, k \in 1 .. Len(s) : j # i /\ k # i /\ j < k => <<s[j], s[k]>> \in C
    BY <1>0, <1>1, <1>8 DEF Sorted, Keeps
  <2>2. ASSUME NEW j \in 1 .. Len(s) - 1, NEW k \in 1 .. Len(s) - 1, j < k
        PROVE  <<r[j], r[k]>> \in C
    <3>1. CASE k < i
      <4>1. j < i
        BY <1>2, <1>3, <2>2, <3>1
      <4> QED
        BY <1>5, <2>1, <2>2, <3>1, <4>1
    <3>3. CASE k >= i /\ j < i
      <4>1. j < k + 1 /\ j \in 1 .. Len(s) /\ k + 1 \in 1 .. Len(s) /\ j # i /\ k + 1 # i
        BY <1>2, <1>3, <2>2, <3>3
      <4>2. r[j] = s[j] /\ r[k] = s[k + 1]
        BY <1>5, <3>3
      <4>3. <<s[j], s[k + 1]>> \in C
        BY <2>1, <4>1
      <4> QED
        BY <4>2, <4>3
    <3>5. CASE k >= i /\ j >= i
      <4>1. j + 1 < k + 1 /\ j + 1 \in 1 .. Len(s) /\ k + 1 \in 1 .. Len(s) /\ j + 1 # i /\ k + 1 # i
        BY <1>2, <1>3, <2>2, <3>5
      <4>2. r[j] = s[j + 1] /\ r[k] = s[k + 1]
        BY <1>5, <3>5
      <4>3. <<s[j + 1], s[k + 1]>> \in C
        BY <2>1, <4>1
      <4> QED
        BY <4>2, <4>3
    <3>6. k < i \/ (k >= i /\ (j < i \/ j >= i))
      BY <1>2, <1>3
    <3> QED
      BY <3>1, <3>3, <3>5, <3>6, Zenon
  <2>3. Q \ {s[i]} = {r[k] : k \in 1 .. Len(s) - 1}
    <3>1. ASSUME NEW x \in Q \ {s[i]} PROVE \E k \in 1 .. Len(s) - 1 : x = r[k]
      <4>1. PICK j \in 1 .. Len(s) : x = s[j] /\ j # i
        BY <1>2
      <4>2. CASE j < i
        <5>1. j \in 1 .. Len(s) - 1 /\ r[j] = s[j]
          BY <1>2, <1>3, <1>5, <4>2
        <5> QED
          BY <4>1, <5>1
      <4>3. CASE j > i
        <5>1. j - 1 \in 1 .. Len(s) - 1 /\ j - 1 >= i /\ (j - 1) + 1 = j
          BY <1>2, <1>3, <4>3
        <5>2. r[j - 1] = s[j]
          BY <1>5, <5>1
        <5> QED
          BY <4>1, <5>1, <5>2
      <4>4. j < i \/ j > i
        BY <1>3, <4>1
      <4> QED
        BY <4>2, <4>3, <4>4, Zenon
    <3>2. ASSUME NEW k \in 1 .. Len(s) - 1 PROVE r[k] \in Q \ {s[i]}
      <4>1. k < i \/ k >= i
        BY <1>3
      <4> QED
        BY <1>5, <1>8, <4>1
    <3> QED
      BY <3>1, <3>2
  <2> QED
    BY <1>4, <2>2, <2>3 DEF Sorted
<1> QED
  BY <1>7, <1>9, ListedBy

\* The tag at the place i makes room for v.
Swaps(f, g, h, e, s, i, v) ==
  /\ i \in 1 .. Len(s)
  /\ g[v] = f[s[i]]
  /\ e = IF i = 1 THEN v ELSE h
  /\ \A j \in 1 .. Len(s) : j # i => g[s[j]] = IF j = i - 1 THEN v ELSE f[s[j]]

\* v is in C where t was in B.
InPlaceOf(Q, t, v, B, C) ==
  \A w \in Q \ {t} : /\ <<w, t>> \in B => <<w, v>> \in C
                     /\ <<t, w>> \in B => <<v, w>> \in C

\* And one tag for another gives a list with that one for the other.
LEMMA ListSwap ==
  ASSUME NEW f, NEW g, NEW h, NEW e, NEW Q, NEW B, NEW C, NEW i, NEW v \in Tags,
         Listed(f, h, Q, B), Asym(B), Asym(C), Swaps(f, g, h, e, Way(f, h), i, v),
         Keeps(Q \ {Way(f, h)[i]}, B, C), InPlaceOf(Q, Way(f, h)[i], v, B, C)
  PROVE  Listed(g, e, (Q \ {Way(f, h)[i]}) \cup {v}, C)
<1> DEFINE s == Way(f, h)
           r == [k \in 1 .. Len(s) |-> IF k = i THEN v ELSE s[k]]
<1>1. Chain(f, h, s) /\ Sorted(s, Q, B)
  BY DEF Listed
<1>0. /\ Swaps(f, g, h, e, s, i, v)
      /\ Keeps(Q \ {s[i]}, B, C) /\ InPlaceOf(Q, s[i], v, B, C)
  OBVIOUS
<1> HIDE DEF s
<1> SUFFICES Listed(g, e, (Q \ {s[i]}) \cup {v}, C)
  BY DEF s
<1>2. s \in Seq(Tags) /\ DOMAIN s = 1 .. Len(s) /\ Q = {s[j] : j \in 1 .. Len(s)} /\ Len(s) \in Nat
  BY <1>1 DEF Sorted
<1>3. i \in 1 .. Len(s)
  BY <1>0 DEF Swaps
<1>4. /\ r \in Seq(Tags) /\ Len(r) = Len(s) /\ DOMAIN r = 1 .. Len(s)
      /\ \A k \in 1 .. Len(s) : r[k] = IF k = i THEN v ELSE s[k]
  BY <1>2
<1> HIDE DEF r
<1>6. \A j \in 1 .. Len(s) : /\ f[s[j]] = OrNil(s, j + 1)
                             /\ j # i => g[s[j]] = IF j = i - 1 THEN v ELSE f[s[j]]
  BY <1>0, <1>1 DEF Chain, Swaps
<1>7. Chain(g, e, r)
  <2>1. e = OrNil(r, 1)
    BY <1>0, <1>1, <1>2, <1>3, <1>4 DEF Swaps, Chain, OrNil
  <2>2. ASSUME NEW k \in 1 .. Len(r)
        PROVE  g[r[k]] = OrNil(r, k + 1)
    <3>0. k \in 1 .. Len(s)
      BY <1>4
    <3>1. CASE k = i
      <4>1. g[r[k]] = OrNil(s, k + 1) /\ k + 1 # i
        BY <1>0, <1>3, <1>4, <1>6, <3>0, <3>1 DEF Swaps
      <4> QED
        BY <1>2, <1>4, <4>1 DEF OrNil
    <3>2. CASE k = i - 1
      <4>1. k + 1 = i /\ k # i
        BY <1>3, <3>2
      <4> QED
        BY <1>3, <1>4, <1>6, <3>0, <3>2, <4>1 DEF OrNil
    <3>3. CASE k # i /\ k # i - 1
      <4>1. g[r[k]] = OrNil(s, k + 1)
        BY <1>4, <1>6, <3>0, <3>3
      <4>2. k + 1 # i
        BY <1>3, <3>0, <3>3
      <4> QED
        BY <1>2, <1>4, <4>1, <4>2 DEF OrNil
    <3> QED
      BY <3>1, <3>2, <3>3
  <2> QED
    BY <2>1, <2>2 DEF Chain
<1>8. \A j \in 1 .. Len(s) : s[j] \in Q /\ (j # i => s[j] # s[i])
  BY <1>1, <1>2, <1>3, SortedOnce
<1>9. Sorted(r, (Q \ {s[i]}) \cup {v}, C)
  <2>1. \A j, k \in 1 .. Len(s) : j # i /\ k # i /\ j < k => <<s[j], s[k]>> \in C
    BY <1>0, <1>1, <1>8 DEF Sorted, Keeps
  <2>2. \A j \in 1 .. Len(s) : /\ j < i => <<s[j], v>> \in C
                               /\ i < j => <<v, s[j]>> \in C
    <3> SUFFICES ASSUME NEW j \in 1 .. Len(s)
                 PROVE  /\ j < i => <<s[j], v>> \in C
                        /\ i < j => <<v, s[j]>> \in C
      OBVIOUS
    <3>1. /\ j < i => <<s[j], s[i]>> \in B
          /\ i < j => <<s[i], s[j]>> \in B
      BY <1>1, <1>3 DEF Sorted
    <3>2. j < i \/ i < j => s[j] \in Q \ {s[i]}
      BY <1>3, <1>8
    <3>3. \A w \in Q \ {s[i]} : /\ <<w, s[i]>> \in B => <<w, v>> \in C
                                /\ <<s[i], w>> \in B => <<v, w>> \in C
      BY <1>0 DEF InPlaceOf
    <3>4. ASSUME j < i PROVE <<s[j], v>> \in C
      BY <3>1, <3>2, <3>3, <3>4, Zenon
    <3>5. ASSUME i < j PROVE <<v, s[j]>> \in C
      BY <3>1, <3>2, <3>3, <3>5, Zenon
    <3> QED
      BY <3>4, <3>5
  <2>3. ASSUME NEW j \in 1 .. Len(s), NEW k \in 1 .. Len(s), j < k
        PROVE  <<r[j], r[k]>> \in C
    <3>1. CASE j # i /\ k # i
      BY <1>4, <2>1, <2>3, <3>1
    <3>2. CASE k = i
      <4>1. r[k] = v /\ r[j] = s[j] /\ j < i
        BY <1>4, <2>3, <3>2
      <4> QED
        BY <2>2, <4>1
    <3>3. CASE j = i
      <4>1. r[j] = v /\ r[k] = s[k] /\ i < k
        BY <1>4, <2>3, <3>3
      <4> QED
        BY <2>2, <4>1
    <3> QED
      BY <3>1, <3>2, <3>3
  <2>4. (Q \ {s[i]}) \cup {v} = {r[k] : k \in 1 .. Len(s)}
    BY <1>2, <1>3, <1>4, <1>8
  <2> QED
    BY <1>4, <2>3, <2>4 DEF Sorted
<1> QED
  BY <1>7, <1>9, ListedBy

-----------------------------------------------------------------------------
\* The searches along a way return the least place that fits.
LEMMA LeastOf ==
  ASSUME NEW n \in Nat, NEW I, I \subseteq 1 .. n
  PROVE  /\ I = {} => (IF I # {} THEN Min(I) ELSE 0) = 0
         /\ I # {} => /\ (IF I # {} THEN Min(I) ELSE 0) \in I
                      /\ \A j \in I : (IF I # {} THEN Min(I) ELSE 0) <= j
<1> SUFFICES ASSUME I # {} PROVE Min(I) \in I /\ \A j \in I : Min(I) <= j
  OBVIOUS
<1>1. I \subseteq Nat
  OBVIOUS
<1>2. \E m \in I : \A j \in I : m <= j
  BY <1>1, LeastNatural
<1> QED
  BY <1>2 DEF Min

\* PastOff returns the place of the first tag past the offset.
LEMMA PastOffIs ==
  ASSUME NEW s \in Seq(Tags), NEW o \in Nat, off \in [Tags -> Nat]
  PROVE  /\ PastOff(s, o) \in 1 .. Len(s) + 1
         /\ \A j \in 1 .. Len(s) : j < PastOff(s, o) => off[s[j]] <= o
         /\ PastOff(s, o) \in 1 .. Len(s) => off[s[PastOff(s, o)]] > o
<1> DEFINE I == {i \in 1 .. Len(s) : off[s[i]] > o}
           m == IF I # {} THEN Min(I) ELSE 0
<1>1. PastOff(s, o) = IF m = 0 THEN Len(s) + 1 ELSE m
  BY DEF PastOff, SelectInSeq
<1>2. Len(s) \in Nat /\ I \subseteq 1 .. Len(s)
  OBVIOUS
<1>3. /\ I = {} => m = 0
      /\ I # {} => m \in I /\ \A j \in I : m <= j
  <2> HIDE DEF I
  <2> QED
    BY <1>2, LeastOf
<1>4. \A j \in 1 .. Len(s) : j \notin I => off[s[j]] <= o
  <2> SUFFICES ASSUME NEW j \in 1 .. Len(s), j \notin I PROVE off[s[j]] <= o
    OBVIOUS
  <2>1. s[j] \in Tags /\ off[s[j]] \in Nat
    OBVIOUS
  <2> QED
    BY <2>1
<1>5. \A j \in I : j \in 1 .. Len(s) /\ off[s[j]] > o
  OBVIOUS
<1> HIDE DEF I, m
<1>6. CASE I = {}
  BY <1>1, <1>2, <1>3, <1>4, <1>6
<1>7. CASE I # {}
  <2>0. m \in I
    BY <1>3, <1>7
  <2>1. m \in I /\ m \in 1 .. Len(s) /\ PastOff(s, o) = m
    BY <1>1, <1>2, <2>0
  <2>2. \A j \in 1 .. Len(s) : j < m => j \notin I
    BY <1>2, <1>3, <1>7, <2>1
  <2> QED
    BY <1>2, <1>4, <1>5, <2>1, <2>2
<1> QED
  BY <1>6, <1>7

\* The search for a name returns the first tag that has it, or none has it.
LEMMA FirstNamed ==
  ASSUME NEW s \in Seq(Tags), NEW n, NEW j, j = SelectInSeq(s, LAMBDA u : name[u] = n)
  PROVE  \/ j = 0 /\ \A k \in 1 .. Len(s) : name[s[k]] # n
         \/ j \in 1 .. Len(s) /\ name[s[j]] = n /\ \A k \in 1 .. Len(s) : name[s[k]] = n => j <= k
<1> DEFINE I == {i \in 1 .. Len(s) : name[s[i]] = n}
<1>1. j = IF I # {} THEN Min(I) ELSE 0
  BY DEF SelectInSeq
<1>2. Len(s) \in Nat /\ I \subseteq 1 .. Len(s)
  OBVIOUS
<1>3. /\ I = {} => j = 0
      /\ I # {} => j \in I /\ \A k \in I : j <= k
  <2> HIDE DEF I
  <2> QED
    BY <1>1, <1>2, LeastOf
<1>4. \A k \in 1 .. Len(s) : k \in I <=> name[s[k]] = n
  OBVIOUS
<1> HIDE DEF I
<1>5. CASE I = {}
  BY <1>3, <1>4, <1>5
<1>6. CASE I # {}
  BY <1>2, <1>3, <1>4, <1>6
<1> QED
  BY <1>5, <1>6

\* The search for a tag returns a place of it, or it is not there.
LEMMA PlaceOf ==
  ASSUME NEW s \in Seq(Tags), NEW t, NEW j, j = SelectInSeq(s, LAMBDA u : u = t)
  PROVE  \/ j = 0 /\ \A k \in 1 .. Len(s) : s[k] # t
         \/ j \in 1 .. Len(s) /\ s[j] = t
<1> DEFINE I == {i \in 1 .. Len(s) : s[i] = t}
<1>1. j = IF I # {} THEN Min(I) ELSE 0
  BY DEF SelectInSeq
<1>2. Len(s) \in Nat /\ I \subseteq 1 .. Len(s)
  OBVIOUS
<1>3. /\ I = {} => j = 0
      /\ I # {} => j \in I /\ \A k \in I : j <= k
  <2> HIDE DEF I
  <2> QED
    BY <1>1, <1>2, LeastOf
<1>4. \A k \in 1 .. Len(s) : k \in I <=> s[k] = t
  OBVIOUS
<1> HIDE DEF I
<1>5. CASE I = {}
  BY <1>3, <1>4, <1>5
<1>6. CASE I # {}
  BY <1>2, <1>3, <1>4, <1>6
<1> QED
  BY <1>5, <1>6

-----------------------------------------------------------------------------
\* The subtags of a tag, those of a name, and the first of each name.
Kin(d) == {t \in Tags : Placed(t) /\ parent[t] = d}
NamedIn(K, nm, n) == {t \in K : nm[t] = n}
FirstsOf(K, nm, B) == {t \in K : \A u \in K : nm[u] = nm[t] /\ u # t => <<t, u>> \in B}

\* The order is that of the offsets.
OrderOK(B) ==
  /\ Asym(B)
  /\ \A u, v \in Tags : <<u, v>> \in B => Placed(u) /\ Placed(v) /\ off[u] <= off[v]

\* The three lists of a tag whose subtags are those of K and start at h: all of
\* them in order, those of each name, and the first ones of the names.
FamilyOf(ord, nxt, sib, h, K, nm, B) ==
  /\ Listed(ord, h, K, B)
  /\ \A n \in Names : \E g : Listed(nxt, g, NamedIn(K, nm, n), B)
  /\ Listed(sib, h, FirstsOf(K, nm, B), B)

\* The lists of d are right.
Family(d, B) == FamilyOf(ordered, next, sibling, child[d], Kin(d), name, B)

\* A placed tag is in the document or in a live tag, and a loose one in no list.
Within ==
  /\ \A t \in Tags : Placed(t) => parent[t] = Root \/ (parent[t] \in Tags /\ Live(parent[t]))
  /\ \A t \in loose : ordered[t] = Nil

\* The inductive invariant: the lists of every tag are right, all in one order.
TreeInv(B) == TreeTypeOK /\ OrderOK(B) /\ Within /\ \A d \in Parents : Family(d, B)

\* A family that nothing touched.
LEMMA FamilySame ==
  ASSUME NEW f, NEW ff, NEW g, NEW gg, NEW k, NEW kk, NEW h, NEW K, NEW m, NEW mm,
         NEW B, NEW C, FamilyOf(f, g, k, h, K, m, B), Asym(B), Asym(C), Keeps(K, B, C),
         \A u \in K : ff[u] = f[u] /\ gg[u] = g[u] /\ kk[u] = k[u] /\ mm[u] = m[u]
  PROVE  FamilyOf(ff, gg, kk, h, K, mm, C) /\ Way(ff, h) = Way(f, h)
<1>1. Listed(ff, h, K, C) /\ Way(ff, h) = Way(f, h)
  BY ListSame DEF FamilyOf
<1>2. ASSUME NEW n \in Names
      PROVE  \E e : Listed(gg, e, NamedIn(K, mm, n), C)
  <2>1. PICK e : Listed(g, e, NamedIn(K, m, n), B)
    BY DEF FamilyOf
  <2>2. NamedIn(K, mm, n) = NamedIn(K, m, n) /\ NamedIn(K, m, n) \subseteq K
    BY DEF NamedIn
  <2>3. Keeps(NamedIn(K, m, n), B, C)
    BY <2>2 DEF Keeps
  <2>4. Listed(gg, e, NamedIn(K, m, n), C)
    BY <2>1, <2>2, <2>3, ListSame
  <2> QED
    BY <2>2, <2>4
<1>3. FirstsOf(K, mm, C) = FirstsOf(K, m, B)
  <2>1. \A u, v \in K : u # v => (<<u, v>> \in C <=> <<u, v>> \in B)
    <3>1. Listed(f, h, K, B)
      BY DEF FamilyOf
    <3>2. K \subseteq Tags /\ \A u, v \in K : u # v => <<u, v>> \in B \/ <<v, u>> \in B
      BY <3>1, ListOrder
    <3> QED
      BY <3>2 DEF Keeps, Asym
  <2> QED
    BY <2>1 DEF FirstsOf
<1>4. Listed(kk, h, FirstsOf(K, m, B), C)
  <2>1. Listed(k, h, FirstsOf(K, m, B), B)
    BY DEF FamilyOf
  <2>2. FirstsOf(K, m, B) \subseteq K
    BY DEF FirstsOf
  <2>3. Keeps(FirstsOf(K, m, B), B, C)
    BY <2>2 DEF Keeps
  <2> QED
    BY <2>1, <2>2, <2>3, ListSame
<1> QED
  BY <1>1, <1>2, <1>3, <1>4 DEF FamilyOf

-----------------------------------------------------------------------------
\* A tag is put in.  It comes after the tags at its offset and before the others.
Wider(B, K, of, t, o) ==
  {p \in Tags \X Tags :
      IF p[2] = t THEN p[1] \in K /\ of[p[1]] <= o
      ELSE IF p[1] = t THEN p[2] \in K /\ of[p[2]] > o
      ELSE p \in B}

\* The tag t is not in the order, nor among the tags of K.
Unordered(B, K, t) == t \notin K /\ \A u \in Tags : <<u, t>> \notin B /\ <<t, u>> \notin B

\* What the order says of t is by the offset; of the others it says what it did.
LEMMA WiderIs ==
  ASSUME NEW B, NEW K, NEW of \in [Tags -> Nat], NEW t \in Tags, NEW o \in Nat,
         Unordered(B, K, t), Asym(B)
  PROVE  /\ Asym(Wider(B, K, of, t, o))
         /\ \A Q : Q \subseteq Tags \ {t} => Keeps(Q, B, Wider(B, K, of, t, o))
         /\ \A u \in Tags : u # t =>
              /\ <<u, t>> \in Wider(B, K, of, t, o) <=> u \in K /\ of[u] <= o
              /\ <<t, u>> \in Wider(B, K, of, t, o) <=> u \in K /\ of[u] > o
         /\ \A u, v \in Tags : u # t /\ v # t =>
              (<<u, v>> \in Wider(B, K, of, t, o) <=> <<u, v>> \in B)
<1> DEFINE W == Wider(B, K, of, t, o)
<1>1. ASSUME NEW u \in Tags, NEW v \in Tags
      PROVE  <<u, v>> \in W <=> IF v = t THEN u \in K /\ of[u] <= o
                                ELSE IF u = t THEN v \in K /\ of[v] > o
                                ELSE <<u, v>> \in B
  BY DEF Wider
<1> HIDE DEF W
<1>2. t \notin K
  BY DEF Unordered
<1>3. \A u \in Tags : u # t => /\ <<u, t>> \in W <=> u \in K /\ of[u] <= o
                               /\ <<t, u>> \in W <=> u \in K /\ of[u] > o
  BY <1>1
<1>4. \A u, v \in Tags : u # t /\ v # t => (<<u, v>> \in W <=> <<u, v>> \in B)
  BY <1>1
<1>5. <<t, t>> \notin W
  BY <1>1, <1>2
<1>6. Asym(W)
  <2> SUFFICES ASSUME NEW u \in Tags, NEW v \in Tags, <<u, v>> \in W
               PROVE  <<v, u>> \notin W
    BY DEF Asym
  <2>1. CASE u # t /\ v # t
    BY <1>4, <2>1 DEF Asym
  <2>2. CASE u = t /\ v # t
    <3>1. of[v] \in Nat /\ of[v] > o
      BY <1>3, <2>2
    <3>2. ~(of[v] <= o)
      BY <3>1
    <3> QED
      BY <1>3, <2>2, <3>2
  <2>3. CASE u # t /\ v = t
    <3>1. of[u] \in Nat /\ of[u] <= o
      BY <1>3, <2>3
    <3>2. ~(of[u] > o)
      BY <3>1
    <3> QED
      BY <1>3, <2>3, <3>2
  <2> QED
    BY <1>5, <2>1, <2>2, <2>3
<1>7. \A Q : Q \subseteq Tags \ {t} => Keeps(Q, B, W)
  BY <1>4 DEF Keeps
<1> QED
  BY <1>3, <1>4, <1>6, <1>7 DEF W

\* Such a place in a list is the one that PastOff finds.
LEMMA PastOffFits ==
  ASSUME NEW B, NEW K, NEW t \in Tags, NEW o \in Nat, off \in [Tags -> Nat],
         K \subseteq Tags, Unordered(B, K, t), OrderOK(B),
         NEW s, NEW Q, Q \subseteq K, Sorted(s, Q, B)
  PROVE  Between(s, PastOff(s, o), t, Wider(B, K, off, t, o))
<1> DEFINE i == PastOff(s, o)
           W == Wider(B, K, off, t, o)
<1>1. s \in Seq(Tags) /\ Q = {s[j] : j \in 1 .. Len(s)} /\ Asym(B) /\ t \notin K
  BY DEF Sorted, OrderOK, Unordered
<1>2. /\ i \in 1 .. Len(s) + 1
      /\ \A j \in 1 .. Len(s) : j < i => off[s[j]] <= o
      /\ i \in 1 .. Len(s) => off[s[i]] > o
  BY <1>1, PastOffIs
<1>3. \A u \in Tags : u # t => /\ <<u, t>> \in W <=> u \in K /\ off[u] <= o
                               /\ <<t, u>> \in W <=> u \in K /\ off[u] > o
  BY <1>1, WiderIs
<1> HIDE DEF i, W
<1>4. \A j \in 1 .. Len(s) : s[j] \in K /\ s[j] \in Tags /\ s[j] # t /\ off[s[j]] \in Nat
  <2> SUFFICES ASSUME NEW j \in 1 .. Len(s)
               PROVE  s[j] \in K /\ s[j] \in Tags /\ s[j] # t /\ off[s[j]] \in Nat
    OBVIOUS
  <2>1. s[j] \in K
    BY <1>1
  <2> QED
    BY <1>1, <2>1
<1>5. ASSUME NEW j \in 1 .. Len(s), ~(j < i)
      PROVE  off[s[j]] > o
  <2>1. i \in 1 .. Len(s) /\ i <= j
    BY <1>1, <1>2, <1>5
  <2>2. off[s[i]] > o /\ off[s[i]] \in Nat /\ off[s[j]] \in Nat
    BY <1>2, <1>4, <2>1
  <2>3. CASE i = j
    BY <2>2, <2>3
  <2>4. CASE i # j
    <3>1. <<s[i], s[j]>> \in B
      BY <2>1, <2>4 DEF Sorted
    <3>2. off[s[i]] <= off[s[j]]
      BY <1>4, <2>1, <3>1 DEF OrderOK
    <3> QED
      BY <2>2, <3>2
  <2> QED
    BY <2>3, <2>4
<1>6. ASSUME NEW j \in 1 .. Len(s)
      PROVE  IF j < i THEN <<s[j], t>> \in W ELSE <<t, s[j]>> \in W
  <2>1. CASE j < i
    BY <1>2, <1>3, <1>4, <2>1
  <2>2. CASE ~(j < i)
    BY <1>3, <1>4, <1>5, <2>2
  <2> QED
    BY <2>1, <2>2
<1> QED
  BY <1>6 DEF Between, i, W

\* How ezxml_insert links a tag in at a place of a list.
LinksIn(f, g, s, i, t) ==
  /\ i \in 1 .. Len(s) + 1
  /\ g = IF i = 1 THEN [f EXCEPT ![t] = OrNil(s, 1)]
         ELSE [f EXCEPT ![t] = OrNil(s, i), ![s[i - 1]] = t]

\* That is a way to put the tag in.
LEMMA LinkPut ==
  ASSUME NEW f \in Links, NEW g, NEW s, NEW Q, NEW B, NEW i, NEW t \in Tags,
         Sorted(s, Q, B), Asym(B), LinksIn(f, g, s, i, t), t \notin Q
  PROVE  /\ g \in Links
         /\ \A h : PutsIn(f, g, h, IF i = 1 THEN t ELSE h, s, i, t)
         /\ \A u \in Tags : u \notin Q \cup {t} => g[u] = f[u]
<1>0. /\ i \in 1 .. Len(s) + 1
      /\ g = IF i = 1 THEN [f EXCEPT ![t] = OrNil(s, 1)]
             ELSE [f EXCEPT ![t] = OrNil(s, i), ![s[i - 1]] = t]
  BY DEF LinksIn
<1>1. s \in Seq(Tags) /\ Q = {s[j] : j \in 1 .. Len(s)} /\ DOMAIN s = 1 .. Len(s)
  BY DEF Sorted
<1>2. \A j \in 1 .. Len(s) : s[j] \in Q /\ s[j] \in Tags /\ s[j] # t
  BY <1>1
<1>3. \A x : OrNil(s, x) \in Tags \cup {Nil}
  BY <1>1, <1>2 DEF OrNil
<1>4. i # 1 => i - 1 \in 1 .. Len(s)
  BY <1>0, <1>1
<1>5. i # 1 => s[i - 1] \in Q /\ s[i - 1] \in Tags /\ s[i - 1] # t
  BY <1>2, <1>4
<1>6. /\ g \in Links
      /\ \A u \in Tags : g[u] = IF u = t THEN OrNil(s, i)
                                ELSE IF i # 1 /\ u = s[i - 1] THEN t ELSE f[u]
  <2>1. CASE i = 1
    BY <1>0, <1>3, <2>1 DEF Links
  <2>2. CASE i # 1
    BY <1>0, <1>3, <1>5, <2>2 DEF Links
  <2> QED
    BY <2>1, <2>2
<1>7. ASSUME NEW j \in 1 .. Len(s)
      PROVE  g[s[j]] = IF j = i - 1 THEN t ELSE f[s[j]]
  <2>1. i # 1 => (s[j] = s[i - 1] <=> j = i - 1)
    BY <1>4, SortedOnce
  <2>2. i = 1 => j # i - 1
    OBVIOUS
  <2> QED
    BY <1>2, <1>6, <2>1, <2>2
<1>8. \A h : PutsIn(f, g, h, IF i = 1 THEN t ELSE h, s, i, t)
  BY <1>0, <1>6, <1>7 DEF PutsIn
<1> QED
  BY <1>5, <1>6, <1>8

\* A tag that is in no list, and the family it comes to.
Fresh(B, d, t) == TreeTypeOK /\ OrderOK(B) /\ Family(d, B) /\ t \in Tags /\ ~Placed(t)

\* Such a tag is in no pair of the order.
LEMMA FreshFacts ==
  ASSUME NEW B, NEW d \in Parents, NEW t, Fresh(B, d, t)
  PROVE  /\ off \in [Tags -> Nat] /\ Kin(d) \subseteq Tags
         /\ Unordered(B, Kin(d), t) /\ Asym(B)
         /\ Nil \notin Tags /\ Nil \notin Names
<1>1. off \in [Tags -> Nat]
  BY TreeAssumption DEF Fresh, TreeTypeOK
<1> QED
  BY <1>1, TreeAssumption DEF Fresh, OrderOK, Unordered, Kin

\* ezxml_insert puts the tag into the list of the subtags of d.
LEMMA PutOrdered ==
  ASSUME NEW B, NEW d \in Parents, NEW t \in Tags, NEW o \in Nat, Fresh(B, d, t),
         LinkOrdered(t, d, o)
  PROVE  /\ Listed(ordered', child'[d], Kin(d) \cup {t}, Wider(B, Kin(d), off, t, o))
         /\ Way(ordered', child'[d]) =
              InsertAt(Way(ordered, child[d]), PastOff(Way(ordered, child[d]), o), t)
         /\ ordered' \in Links /\ child' \in [Parents -> Tags \cup {Nil}]
         /\ child'[d] = IF PastOff(Way(ordered, child[d]), o) = 1 THEN t ELSE child[d]
         /\ \A e \in Parents : e # d => child'[e] = child[e]
         /\ \A u \in Tags : u \notin Kin(d) \cup {t} => ordered'[u] = ordered[u]
<1> DEFINE s == Way(ordered, child[d])
           i == PastOff(s, o)
           K == Kin(d)
           W == Wider(B, K, off, t, o)
<1>1. /\ off \in [Tags -> Nat] /\ K \subseteq Tags
      /\ Unordered(B, K, t) /\ Asym(B)
  BY FreshFacts
<1>2. Listed(ordered, child[d], K, B) /\ OrderOK(B)
  BY DEF Fresh, Family, FamilyOf
<1>3. Chain(ordered, child[d], s) /\ Sorted(s, K, B)
  BY <1>2 DEF Listed
<1>4. s \in Seq(Tags) /\ K = {s[j] : j \in 1 .. Len(s)} /\ DOMAIN s = 1 .. Len(s)
  BY <1>3 DEF Sorted
<1>5. /\ Asym(W) /\ Keeps(K, B, W) /\ t \notin K
  <2>1. t \notin K
    BY <1>1 DEF Unordered
  <2>2. K \subseteq Tags \ {t}
    BY <1>1, <2>1
  <2> QED
    BY <1>1, <2>1, <2>2, WiderIs
<1>6. Between(s, i, t, W)
  BY <1>1, <1>2, <1>3, PastOffFits
<1>7. i \in 1 .. Len(s) + 1
  BY <1>1, <1>4, PastOffIs
<1>8. ordered \in Links /\ child \in [Parents -> Tags \cup {Nil}]
  BY DEF Fresh, TreeTypeOK
<1>9. IF i = 1
      THEN /\ child' = [child EXCEPT ![d] = t]
           /\ ordered' = [ordered EXCEPT ![t] = OrNil(s, 1)]
      ELSE /\ ordered' = [ordered EXCEPT ![t] = OrNil(s, i), ![s[i - 1]] = t]
           /\ UNCHANGED child
  BY DEF LinkOrdered
<1> HIDE DEF s, i, K, W
<1>11. child' = [child EXCEPT ![d] = IF i = 1 THEN t ELSE child[d]]
  BY <1>8, <1>9
<1>12. child'[d] = IF i = 1 THEN t ELSE child[d]
  BY <1>8, <1>11
<1>13. /\ ordered' \in Links
       /\ PutsIn(ordered, ordered', child[d], child'[d], s, i, t)
       /\ \A u \in Tags : u \notin K \cup {t} => ordered'[u] = ordered[u]
  <2>1. LinksIn(ordered, ordered', s, i, t)
    BY <1>7, <1>9 DEF LinksIn
  <2>2. /\ ordered' \in Links
        /\ \A h : PutsIn(ordered, ordered', h, IF i = 1 THEN t ELSE h, s, i, t)
        /\ \A u \in Tags : u \notin K \cup {t} => ordered'[u] = ordered[u]
    BY <1>1, <1>3, <1>5, <1>8, <2>1, LinkPut
  <2> QED
    BY <1>12, <2>2
<1>15. /\ Listed(ordered', child'[d], K \cup {t}, W)
       /\ Way(ordered', child'[d]) = InsertAt(s, i, t)
  BY <1>1, <1>2, <1>5, <1>6, <1>13, ListPut DEF s
<1>17. child' \in [Parents -> Tags \cup {Nil}]
  BY <1>8, <1>11
<1>18. \A e \in Parents : e # d => child'[e] = child[e]
  BY <1>8, <1>11
<1> QED
  BY <1>12, <1>13, <1>15, <1>17, <1>18 DEF s, i, K, W

\* A tag comes before all of a list if it comes before its head.
LEMMA PastHead ==
  ASSUME NEW f, NEW h, NEW s \in Seq(Tags), NEW o \in Nat, off \in [Tags -> Nat],
         Chain(f, h, s)
  PROVE  PastOff(s, o) = 1 <=> h = Nil \/ off[h] > o
<1> DEFINE i == PastOff(s, o)
<1>1. /\ i \in 1 .. Len(s) + 1
      /\ \A j \in 1 .. Len(s) : j < i => off[s[j]] <= o
      /\ i \in 1 .. Len(s) => off[s[i]] > o
  BY PastOffIs
<1>2. DOMAIN s = 1 .. Len(s) /\ h = OrNil(s, 1) /\ Len(s) \in Nat
  BY DEF Chain
<1> SUFFICES i = 1 <=> h = Nil \/ off[h] > o
  OBVIOUS
<1> HIDE DEF i
<1>3. CASE Len(s) = 0
  BY <1>1, <1>2, <1>3 DEF OrNil
<1>4. CASE Len(s) # 0
  <2>1. 1 \in 1 .. Len(s) /\ h = s[1] /\ h \in Tags /\ h # Nil /\ off[h] \in Nat
    <3>1. 1 \in 1 .. Len(s)
      BY <1>2, <1>4
    <3>2. h = s[1] /\ s[1] \in Tags
      BY <1>2, <3>1 DEF OrNil
    <3> QED
      BY <3>1, <3>2, TreeAssumption
  <2>2. i = 1 => off[h] > o
    BY <1>1, <2>1
  <2>3. i # 1 => off[h] <= o
    BY <1>1, <2>1
  <2>4. off[h] <= o => ~(off[h] > o)
    BY <2>1
  <2> QED
    BY <2>1, <2>2, <2>3, <2>4, Zenon
<1> QED
  BY <1>3, <1>4

-----------------------------------------------------------------------------
\* ezxml_child finds the head of the list of a name.
LEMMA ChildIs ==
  ASSUME NEW B, NEW d \in Parents, NEW n \in Names, Asym(B), Family(d, B)
  PROVE  /\ Listed(next, Child(d, n), NamedIn(Kin(d), name, n), B)
         /\ Child(d, n) = Nil <=> NamedIn(Kin(d), name, n) = {}
         /\ Child(d, n) # Nil => /\ Child(d, n) \in NamedIn(Kin(d), name, n)
                                 /\ Child(d, n) \in FirstsOf(Kin(d), name, B)
         /\ \A u \in NamedIn(Kin(d), name, n) :
              u # Child(d, n) => <<Child(d, n), u>> \in B
         /\ \A u \in FirstsOf(Kin(d), name, B) : name[u] = n => u = Child(d, n)
<1> DEFINE s == Way(sibling, child[d])
           K == Kin(d)
           N == NamedIn(K, name, n)
           F == FirstsOf(K, name, B)
           j == SelectInSeq(s, LAMBDA u : name[u] = n)
<1>1. /\ Listed(sibling, child[d], F, B)
      /\ \E h : Listed(next, h, N, B)
  BY DEF Family, FamilyOf
<1>2. PICK h : Listed(next, h, N, B)
  BY <1>1
<1>3. /\ h = Nil <=> N = {}
      /\ h # Nil => h \in N /\ \A w \in N : w # h => <<h, w>> \in B
  BY <1>2, ListOrder
<1>4. s \in Seq(Tags) /\ F = {s[i] : i \in 1 .. Len(s)} /\ DOMAIN s = 1 .. Len(s)
  BY <1>1 DEF Listed, Sorted
<1>5. Child(d, n) = OrNil(s, j)
  BY DEF Child
<1>6. \/ j = 0 /\ \A k \in 1 .. Len(s) : name[s[k]] # n
      \/ j \in 1 .. Len(s) /\ name[s[j]] = n
  <2> HIDE DEF s
  <2> QED
    BY <1>4, FirstNamed
<1>7. K \subseteq Tags /\ \A u : u \in N <=> u \in K /\ name[u] = n
  BY DEF Kin, NamedIn
<1>8. \A u : u \in F <=> u \in K /\ \A v \in K : name[v] = name[u] /\ v # u => <<u, v>> \in B
  BY DEF FirstsOf
<1> HIDE DEF s, K, N, F, j
<1>9. h # Nil => h \in F
  BY <1>3, <1>7, <1>8
<1>10. \A u \in F : name[u] = n => u = h
  <2> SUFFICES ASSUME NEW u \in F, name[u] = n, u # h PROVE FALSE
    OBVIOUS
  <2>1. u \in N /\ h # Nil /\ h \in N /\ <<h, u>> \in B
    BY <1>3, <1>7, <1>8
  <2>2. <<u, h>> \in B
    BY <1>7, <1>8, <2>1
  <2> QED
    BY <1>7, <2>1, <2>2 DEF Asym
<1>11. Child(d, n) = h
  <2>1. CASE h = Nil
    <3>1. \A k \in 1 .. Len(s) : name[s[k]] # n
      BY <1>3, <1>4, <1>7, <1>8, <2>1
    <3>2. j = 0 /\ j \notin 1 .. Len(s)
      BY <1>6, <3>1
    <3> QED
      BY <1>4, <1>5, <2>1, <3>2 DEF OrNil
  <2>2. CASE h # Nil
    <3>1. name[h] = n /\ h \in F
      BY <1>3, <1>7, <1>9, <2>2
    <3>2. PICK k \in 1 .. Len(s) : h = s[k]
      BY <1>4, <3>1
    <3>3. j \in 1 .. Len(s) /\ name[s[j]] = n /\ s[j] \in F
      BY <1>4, <1>6, <3>1, <3>2
    <3> QED
      BY <1>4, <1>5, <1>10, <3>3 DEF OrNil
  <2> QED
    BY <2>1, <2>2
<1> QED
  BY <1>2, <1>3, <1>9, <1>10, <1>11 DEF K, N, F

\* The tags of the name n with t among them.
NamesPut(B, d, t, n, o) ==
  /\ \E h : Listed(next', h, NamedIn(Kin(d), name, n) \cup {t}, Wider(B, Kin(d), off, t, o))
  /\ next' \in Links
  /\ \A u \in Tags : u \notin NamedIn(Kin(d), name, n) \cup {t} => next'[u] = next[u]

\* ezxml_insert puts the tag into the list of its name.
LEMMA PutNames ==
  ASSUME NEW B, NEW d \in Parents, NEW t \in Tags, NEW n \in Names, NEW o \in Nat,
         Fresh(B, d, t), LinkNamed(t, n, d, o)
  PROVE  NamesPut(B, d, t, n, o)
<1> DEFINE K == Kin(d)
           N == NamedIn(K, name, n)
           W == Wider(B, K, off, t, o)
           h == Child(d, n)
           q == Way(next, h)
           k == PastOff(q, o)
<1>1. /\ off \in [Tags -> Nat] /\ K \subseteq Tags
      /\ Unordered(B, K, t) /\ Asym(B)
  BY FreshFacts
<1>2. OrderOK(B) /\ Family(d, B) /\ next \in Links
  BY DEF Fresh, TreeTypeOK
<1>3. Listed(next, h, N, B)
  BY <1>1, <1>2, ChildIs
<1>4. Chain(next, h, q) /\ Sorted(q, N, B) /\ q \in Seq(Tags)
  BY <1>3 DEF Listed, Sorted
<1>5. N \subseteq K /\ t \notin K /\ t \notin N /\ N \subseteq Tags \ {t}
  BY <1>1 DEF NamedIn, Unordered
<1>6. k > 1 \/ k = 1
  <2>1. k \in 1 .. Len(q) + 1
    BY <1>1, <1>4, PastOffIs
  <2> QED
    BY <1>4, <2>1
<1>7. k \in 1 .. Len(q) + 1
  BY <1>1, <1>4, PastOffIs
<1>8. LinksIn(next, next', q, k, t)
  <2>1. IF k > 1 THEN next' = [next EXCEPT ![t] = OrNil(q, k), ![q[k - 1]] = t]
        ELSE next' = [next EXCEPT ![t] = h]
    BY DEF LinkNamed, Child
  <2>2. h = OrNil(q, 1)
    BY <1>4 DEF Chain
  <2>3. k > 1 => k # 1
    OBVIOUS
  <2> HIDE DEF k, q, h
  <2> QED
    BY <1>6, <1>7, <2>1, <2>2, <2>3 DEF LinksIn
<1>9. Asym(W) /\ Keeps(N, B, W)
  BY <1>1, <1>5, WiderIs
<1>10. Between(q, k, t, W)
  BY <1>1, <1>2, <1>4, <1>5, PastOffFits
<1> HIDE DEF K, N, W, h, q, k
<1>11. /\ next' \in Links
       /\ PutsIn(next, next', h, IF k = 1 THEN t ELSE h, q, k, t)
       /\ \A u \in Tags : u \notin N \cup {t} => next'[u] = next[u]
  BY <1>1, <1>2, <1>4, <1>5, <1>8, LinkPut
<1>12. Listed(next', IF k = 1 THEN t ELSE h, N \cup {t}, W)
  BY <1>1, <1>3, <1>9, <1>10, <1>11, ListPut DEF q
<1> QED
  BY <1>11, <1>12 DEF K, N, W, NamesPut

\* The names when t is put in under the name n.
Named(nm, d, t, n) == nm[t] = n /\ \A u \in Kin(d) : nm[u] = name[u]

\* A tag of the name stays before t.
Behind(d, n, o) == Child(d, n) # Nil /\ off[Child(d, n)] <= o

\* Which tags are then the first of their names.
LEMMA PutFirsts ==
  ASSUME NEW B, NEW d \in Parents, NEW t \in Tags, NEW n \in Names, NEW o \in Nat,
         NEW nm, Fresh(B, d, t), Named(nm, d, t, n)
  PROVE  /\ Behind(d, n, o) =>
              FirstsOf(Kin(d) \cup {t}, nm, Wider(B, Kin(d), off, t, o)) =
                FirstsOf(Kin(d), name, B)
         /\ ~Behind(d, n, o) =>
              FirstsOf(Kin(d) \cup {t}, nm, Wider(B, Kin(d), off, t, o)) =
                (FirstsOf(Kin(d), name, B) \ {Child(d, n)}) \cup {t}
<1> DEFINE K == Kin(d)
           N == NamedIn(K, name, n)
           F == FirstsOf(K, name, B)
           W == Wider(B, K, off, t, o)
           h == Child(d, n)
           G == FirstsOf(K \cup {t}, nm, W)
<1>1. /\ off \in [Tags -> Nat] /\ K \subseteq Tags
      /\ Unordered(B, K, t) /\ Asym(B) /\ Nil \notin Tags
  BY FreshFacts
<1>2. OrderOK(B) /\ Family(d, B) /\ name \in [Tags -> Names \cup {Nil}]
  BY DEF Fresh, TreeTypeOK
<1>3. /\ h = Nil <=> N = {}
      /\ h # Nil => h \in N /\ h \in F
      /\ \A u \in N : u # h => <<h, u>> \in B
      /\ \A u \in F : name[u] = n => u = h
  BY <1>1, <1>2, ChildIs
<1>4. t \notin K
  BY <1>1 DEF Unordered
<1>5. nm[t] = n /\ \A u \in K : nm[u] = name[u]
  BY DEF Named
<1>6. /\ \A u \in Tags : u # t => /\ <<u, t>> \in W <=> u \in K /\ off[u] <= o
                                  /\ <<t, u>> \in W <=> u \in K /\ off[u] > o
      /\ \A u, v \in Tags : u # t /\ v # t => (<<u, v>> \in W <=> <<u, v>> \in B)
  BY <1>1, WiderIs
<1>7. \A u : u \in N <=> u \in K /\ name[u] = n
  BY DEF NamedIn
<1>8. \A u : u \in F <=> u \in K /\ \A v \in K : name[v] = name[u] /\ v # u => <<u, v>> \in B
  BY DEF FirstsOf
<1>9. \A u : u \in G <=> /\ u \in K \cup {t}
                         /\ \A v \in K \cup {t} : nm[v] = nm[u] /\ v # u => <<u, v>> \in W
  BY DEF FirstsOf
<1>10. \A u \in N : u # h => off[h] <= off[u]
  BY <1>1, <1>2, <1>3, <1>7 DEF OrderOK
<1> SUFFICES G = IF h # Nil /\ off[h] <= o THEN F ELSE (F \ {h}) \cup {t}
  BY DEF Behind
<1> HIDE DEF K, N, F, W, h, G
<1>11. t \in G <=> \A v \in N : off[v] > o
  BY <1>1, <1>4, <1>5, <1>6, <1>7, <1>9
<1>12. \A u \in K : u \in G <=> u \in F /\ (name[u] = n => off[u] <= o)
  <2> SUFFICES ASSUME NEW u \in K
               PROVE  u \in G <=> u \in F /\ (name[u] = n => off[u] <= o)
    OBVIOUS
  <2>1. u # t /\ u \in Tags
    BY <1>1, <1>4
  <2>2. (\A v \in K : nm[v] = nm[u] /\ v # u => <<u, v>> \in W) <=> u \in F
    BY <1>1, <1>4, <1>5, <1>6, <1>8, <2>1
  <2>3. (nm[t] = nm[u] /\ t # u => <<u, t>> \in W) <=> (name[u] = n => off[u] <= o)
    BY <1>5, <1>6, <2>1
  <2> QED
    BY <1>9, <2>2, <2>3
<1>13. h # Nil => h \in Tags /\ off[h] \in Nat
  BY <1>1, <1>3, <1>7
<1>14. CASE h # Nil /\ off[h] <= o
  <2>1. h \in N /\ ~(off[h] > o)
    BY <1>3, <1>13, <1>14
  <2>2. t \notin G
    BY <1>11, <2>1
  <2>3. \A u \in K : u \in G <=> u \in F
    BY <1>3, <1>12, <1>14
  <2>4. G = F
    BY <1>8, <1>9, <2>2, <2>3
  <2> QED
    BY <1>14, <2>4
<1>15. CASE ~(h # Nil /\ off[h] <= o)
  <2>1. \A v \in N : off[v] > o
    <3> SUFFICES ASSUME NEW v \in N PROVE off[v] > o
      OBVIOUS
    <3>1. h # Nil /\ off[h] \in Nat /\ ~(off[h] <= o) /\ off[v] \in Nat
      BY <1>1, <1>3, <1>7, <1>13, <1>15
    <3> QED
      BY <1>10, <3>1
  <2>2. t \in G
    BY <1>11, <2>1
  <2>3. \A u \in K : u \in G <=> u \in F /\ u # h
    <3> SUFFICES ASSUME NEW u \in K PROVE u \in G <=> u \in F /\ u # h
      OBVIOUS
    <3>1. CASE name[u] = n
      <4>1. u \in N /\ off[u] > o /\ off[u] \in Nat
        BY <1>1, <1>7, <2>1, <3>1
      <4>2. ~(off[u] <= o)
        BY <4>1
      <4>3. u \in F => u = h
        BY <1>3, <3>1
      <4> QED
        BY <1>12, <3>1, <4>2, <4>3
    <3>2. CASE name[u] # n
      <4>1. u # h
        BY <1>1, <1>3, <1>7, <3>2
      <4> QED
        BY <1>12, <3>2, <4>1
    <3> QED
      BY <3>1, <3>2
  <2>4. G = (F \ {h}) \cup {t}
    BY <1>8, <1>9, <2>2, <2>3
  <2> QED
    BY <1>15, <2>4
<1> QED
  BY <1>14, <1>15

\* ezxml_insert leaves the first tags of the names in the sibling list, unless
\* the tag comes before the head of the subtags and has its name.
LEMMA PutSiblings ==
  ASSUME NEW B, NEW d \in Parents, NEW t \in Tags, NEW n \in Names, NEW o \in Nat,
         NEW nm, Fresh(B, d, t), Named(nm, d, t, n),
         LinkOrdered(t, d, o), LinkNamed(t, n, d, o), ~BeforeItsName(n, d, o)
  PROVE  /\ Listed(sibling', child'[d],
                   FirstsOf(Kin(d) \cup {t}, nm, Wider(B, Kin(d), off, t, o)),
                   Wider(B, Kin(d), off, t, o))
         /\ sibling' \in Links
         /\ \A u \in Tags : u \notin Kin(d) \cup {t} => sibling'[u] = sibling[u]
<1>7. /\ Behind(d, n, o) =>
           FirstsOf(Kin(d) \cup {t}, nm, Wider(B, Kin(d), off, t, o)) =
             FirstsOf(Kin(d), name, B)
      /\ ~Behind(d, n, o) =>
           FirstsOf(Kin(d) \cup {t}, nm, Wider(B, Kin(d), off, t, o)) =
             (FirstsOf(Kin(d), name, B) \ {Child(d, n)}) \cup {t}
  BY PutFirsts
<1> DEFINE K == Kin(d)
           N == NamedIn(K, name, n)
           F == FirstsOf(K, name, B)
           W == Wider(B, K, off, t, o)
           G == FirstsOf(K \cup {t}, nm, W)
           s == Way(sibling, child[d])
           j == SelectInSeq(s, LAMBDA u : name[u] = n)
           h == Child(d, n)
           q == Way(next, h)
           k == PastOff(q, o)
           without == IF j > 1 THEN [sibling EXCEPT ![s[j - 1]] = sibling[h]] ELSE sibling
           rest == Way(without, child[d])
           i == PastOff(rest, o)
<1>1. /\ off \in [Tags -> Nat] /\ K \subseteq Tags
      /\ Unordered(B, K, t) /\ Asym(B) /\ Nil \notin Tags
  BY FreshFacts
<1>2. /\ OrderOK(B) /\ Family(d, B) /\ sibling \in Links
      /\ child \in [Parents -> Tags \cup {Nil}]
  BY DEF Fresh, TreeTypeOK
<1>3. /\ Listed(next, h, N, B)
      /\ h = Nil <=> N = {}
      /\ h # Nil => h \in N /\ h \in F
      /\ \A u \in F : name[u] = n => u = h
  BY <1>1, <1>2, ChildIs
<1>4. /\ Listed(sibling, child[d], F, B)
      /\ Listed(ordered, child[d], K, B)
  BY <1>2 DEF Family, FamilyOf
<1>5. /\ Chain(sibling, child[d], s) /\ Sorted(s, F, B) /\ s \in Seq(Tags)
      /\ Chain(next, h, q) /\ q \in Seq(Tags)
  BY <1>3, <1>4 DEF Listed, Sorted
<1>6. F \subseteq K /\ t \notin K /\ N \subseteq K /\ \A u \in N : name[u] = n
  BY <1>1 DEF FirstsOf, NamedIn, Unordered
<1>8. k = 1 <=> h = Nil \/ off[h] > o
  BY <1>1, <1>5, PastHead
<1>9. k \in 1 .. Len(q) + 1
  BY <1>1, <1>5, PastOffIs
<1>10. /\ Asym(W)
       /\ \A Q : Q \subseteq K => Keeps(Q, B, W)
  <2>1. \A Q : Q \subseteq K => Q \subseteq Tags \ {t}
    BY <1>1, <1>6
  <2> QED
    BY <1>1, <2>1, WiderIs
<1>11. child'[d] = IF child[d] = Nil \/ off[child[d]] > o THEN t ELSE child[d]
  <2> DEFINE w == Way(ordered, child[d])
  <2>1. Chain(ordered, child[d], w) /\ w \in Seq(Tags)
    BY <1>4 DEF Listed, Sorted
  <2>2. child'[d] = IF PastOff(w, o) = 1 THEN t ELSE child[d]
    BY PutOrdered
  <2> HIDE DEF w
  <2>3. PastOff(w, o) = 1 <=> child[d] = Nil \/ off[child[d]] > o
    BY <1>1, <2>1, PastHead
  <2> QED
    BY <1>2, <2>2, <2>3
<1>12. \/ j = 0 /\ \A x \in 1 .. Len(s) : name[s[x]] # n
       \/ j \in 1 .. Len(s) /\ name[s[j]] = n
  <2> HIDE DEF s
  <2> QED
    BY <1>5, FirstNamed
<1>13. IF k > 1 THEN sibling' = [sibling EXCEPT ![t] = Nil]
       ELSE sibling' = IF i = 1 THEN [without EXCEPT ![t] = OrNil(rest, 1)]
                       ELSE [without EXCEPT ![t] = OrNil(rest, i), ![rest[i - 1]] = t]
  BY DEF LinkNamed, Child
<1>14. /\ child[d] = Nil <=> K = {}
       /\ child[d] # Nil => child[d] \in K /\ \A u \in K : u # child[d] => <<child[d], u>> \in B
  BY <1>1, <1>4, ListOrder
<1>15. s \in Seq(Tags) /\ F = {s[x] : x \in 1 .. Len(s)} /\ DOMAIN s = 1 .. Len(s)
       /\ child[d] = OrNil(s, 1)
  BY <1>5 DEF Sorted, Chain
<1> HIDE DEF K, N, F, W, G, s, j, h, q, k, i
\* The tag is not the first of its name.
<1>16. CASE k # 1
  <2>1. h # Nil /\ ~(off[h] > o) /\ h \in K /\ h \in Tags /\ off[h] \in Nat
    BY <1>1, <1>3, <1>6, <1>8, <1>16
  <2>2. off[h] <= o
    BY <2>1
  <2>3. sibling' = [sibling EXCEPT ![t] = Nil]
    <3>1. k > 1
      BY <1>5, <1>9, <1>16
    <3> QED
      BY <1>13, <3>1
  <2>4. child'[d] = child[d]
    <3>1. child[d] # Nil /\ child[d] \in Tags /\ off[child[d]] \in Nat
      BY <1>1, <1>14, <2>1
    <3>2. off[child[d]] <= off[h]
      <4>1. CASE h = child[d]
        BY <2>1, <4>1
      <4>2. CASE h # child[d]
        BY <1>2, <1>14, <2>1, <3>1, <4>2 DEF OrderOK
      <4> QED
        BY <4>1, <4>2
    <3>3. ~(off[child[d]] > o)
      BY <2>1, <2>2, <3>1, <3>2
    <3> QED
      BY <1>11, <3>1, <3>3
  <2>5. G = F
    BY <1>7, <2>1, <2>2 DEF G, W, K, F, h, Behind
  <2>6. \A u \in Tags : u # t => sibling'[u] = sibling[u]
    BY <1>2, <2>3 DEF Links
  <2>7. \A u \in F : sibling'[u] = sibling[u]
    BY <1>1, <1>6, <2>6
  <2>8. Listed(sibling', child[d], F, W)
    BY <1>1, <1>4, <1>6, <1>10, <2>7, ListSame
  <2>9. sibling' \in Links
    BY <1>2, <2>3 DEF Links
  <2> QED
    BY <2>4, <2>5, <2>6, <2>8, <2>9 DEF K, G, W
\* It is.
<1>17. CASE k = 1
  <2>1. h = Nil \/ off[h] > o
    BY <1>8, <1>17
  <2>2. G = (F \ {h}) \cup {t}
    <3>1. ~(h # Nil /\ off[h] <= o)
      <4>1. h # Nil => off[h] \in Nat
        BY <1>1, <1>3, <1>6
      <4>2. h # Nil => ~(off[h] <= o)
        BY <2>1, <4>1
      <4> QED
        BY <4>2
    <3> QED
      BY <1>7, <3>1 DEF G, W, K, F, h, Behind
  <2>3. /\ h = Nil => j = 0
        /\ h # Nil => j \in 1 .. Len(s) /\ s[j] = h /\ j > 1
    <3>1. ASSUME h = Nil PROVE j = 0
      <4>1. ~(j \in 1 .. Len(s) /\ name[s[j]] = n)
        BY <1>3, <1>15, <1>6, <3>1 DEF N, NamedIn
      <4> QED
        BY <1>12, <4>1
    <3>2. ASSUME h # Nil PROVE j \in 1 .. Len(s) /\ s[j] = h /\ j > 1
      <4>1. h \in F /\ name[h] = n
        BY <1>3, <1>6, <3>2
      <4>2. j \in 1 .. Len(s) /\ name[s[j]] = n
        BY <1>12, <1>15, <4>1
      <4>3. s[j] = h
        BY <1>3, <1>15, <4>2
      <4>4. j # 1
        <5> SUFFICES ASSUME j = 1 PROVE FALSE
          OBVIOUS
        <5>1. child[d] = h
          BY <1>15, <4>2, <4>3 DEF OrNil
        <5> QED
          BY <2>1, <3>2, <4>1, <5>1 DEF BeforeItsName
      <4> QED
        BY <4>2, <4>3, <4>4
    <3> QED
      BY <3>1, <3>2
  <2>4. /\ Listed(without, child[d], F \ {h}, B)
        /\ without \in Links
        /\ \A u \in Tags : u \notin K => without[u] = sibling[u]
    <3>1. CASE h = Nil
      <4>1. F \ {h} = F
        BY <1>1, <1>6, <3>1
      <4>2. without = sibling
        BY <2>3, <3>1
      <4> QED
        BY <1>2, <1>4, <4>1, <4>2
    <3>2. CASE h # Nil
      <4>1. j \in 1 .. Len(s) /\ s[j] = h /\ j # 1 /\ j > 1
        BY <2>3, <3>2
      <4>2. j - 1 \in 1 .. Len(s) /\ s[j - 1] \in F /\ s[j - 1] \in Tags
        <5>1. j - 1 \in 1 .. Len(s)
          BY <4>1
        <5> QED
          BY <1>15, <5>1
      <4>3. without = [sibling EXCEPT ![s[j - 1]] = sibling[h]]
        BY <4>1
      <4>4. h \in Tags
        BY <1>1, <1>3, <1>6, <3>2
      <4> HIDE DEF without
      <4>5. without \in Links /\ \A u \in Tags : without[u] = IF u = s[j - 1] THEN sibling[h] ELSE sibling[u]
        BY <1>2, <4>2, <4>3, <4>4 DEF Links
      <4>6. ASSUME NEW x \in 1 .. Len(s), x # j
            PROVE  without[s[x]] = IF x = j - 1 THEN sibling[s[j]] ELSE sibling[s[x]]
        <5>1. s[x] = s[j - 1] <=> x = j - 1
          BY <1>1, <1>5, <4>2, SortedOnce
        <5>2. s[x] \in Tags
          BY <1>15
        <5> QED
          BY <4>1, <4>5, <5>1, <5>2
      <4>7. TakesOut(sibling, without, child[d], child[d], s, j)
        BY <4>1, <4>6 DEF TakesOut
      <4>8. Keeps(F \ {s[j]}, B, B)
        BY DEF Keeps
      <4>9. Listed(without, child[d], F \ {s[j]}, B)
        BY <1>1, <1>4, <4>7, <4>8, ListCut DEF s
      <4> QED
        BY <1>6, <4>1, <4>2, <4>5, <4>9
    <3> QED
      BY <3>1, <3>2
  <2> HIDE DEF without
  <2>5. /\ Chain(without, child[d], rest) /\ Sorted(rest, F \ {h}, B) /\ rest \in Seq(Tags)
    BY <2>4 DEF Listed, Sorted
  <2> HIDE DEF rest
  <2>6. i \in 1 .. Len(rest) + 1 /\ (i = 1 <=> child[d] = Nil \/ off[child[d]] > o)
    BY <1>1, <2>5, PastHead, PastOffIs DEF i
  <2>7. LinksIn(without, sibling', rest, i, t)
    <3>1. ~(k > 1)
      BY <1>17
    <3> QED
      BY <1>13, <2>6, <3>1 DEF LinksIn
  <2>8. F \ {h} \subseteq K /\ t \notin F \ {h}
    BY <1>6
  <2>9. /\ sibling' \in Links
        /\ PutsIn(without, sibling', child[d], IF i = 1 THEN t ELSE child[d], rest, i, t)
        /\ \A u \in Tags : u \notin (F \ {h}) \cup {t} => sibling'[u] = without[u]
    BY <1>1, <2>4, <2>5, <2>7, <2>8, LinkPut
  <2>10. child'[d] = IF i = 1 THEN t ELSE child[d]
    BY <1>11, <2>6
  <2>11. Between(rest, i, t, W)
    BY <1>1, <1>2, <2>5, <2>8, PastOffFits DEF i, W
  <2>12. Keeps(F \ {h}, B, W)
    BY <1>10, <2>8
  <2>13. Listed(sibling', child'[d], (F \ {h}) \cup {t}, W)
    BY <1>1, <1>10, <2>4, <2>9, <2>10, <2>11, <2>12, ListPut DEF rest
  <2>14. \A u \in Tags : u \notin K \cup {t} => sibling'[u] = sibling[u]
    BY <2>4, <2>8, <2>9
  <2> QED
    BY <2>2, <2>9, <2>13, <2>14 DEF K, G, W
<1> QED
  BY <1>16, <1>17

\* The families after t was put in: that of d has it, the others are as before.
Reared(d, t, o, nm, C) ==
  /\ FamilyOf(ordered', next', sibling', child'[d], Kin(d) \cup {t}, nm, C)
  /\ Way(ordered', child'[d]) =
       InsertAt(Way(ordered, child[d]), PastOff(Way(ordered, child[d]), o), t)
  /\ \A e \in Parents : e # d =>
       /\ FamilyOf(ordered', next', sibling', child'[e], Kin(e), nm, C)
       /\ Way(ordered', child'[e]) = Way(ordered, child[e])
  /\ ordered' \in Links /\ next' \in Links /\ sibling' \in Links
  /\ child' \in [Parents -> Tags \cup {Nil}]
  /\ \A u \in Tags : u \notin Kin(d) \cup {t} => ordered'[u] = ordered[u]

\* The lists of d have the tag, and those of the other tags stay as they are.
LEMMA PutFamily ==
  ASSUME NEW B, NEW d \in Parents, NEW t \in Tags, NEW n \in Names, NEW o \in Nat,
         NEW nm, NEW C, C = Wider(B, Kin(d), off, t, o),
         TreeInv(B), ~Placed(t), nm[t] = n, \A u \in Tags : u # t => nm[u] = name[u],
         LinkOrdered(t, d, o), LinkNamed(t, n, d, o), ~BeforeItsName(n, d, o)
  PROVE  Reared(d, t, o, nm, C)
<1> DEFINE K == Kin(d)
           N == NamedIn(K, name, n)
<1>1. Fresh(B, d, t) /\ Family(d, B)
  BY DEF TreeInv, Fresh
<1>2. K \subseteq Tags /\ t \notin K /\ Asym(B) /\ off \in [Tags -> Nat] /\ Unordered(B, K, t)
  BY <1>1, FreshFacts DEF Unordered
<1>3. Named(nm, d, t, n)
  BY <1>2 DEF Named
<1>4. /\ Asym(C)
      /\ \A Q : Q \subseteq Tags \ {t} => Keeps(Q, B, C)
  BY <1>2, WiderIs
<1>5. /\ Listed(ordered', child'[d], K \cup {t}, C)
      /\ Way(ordered', child'[d]) =
           InsertAt(Way(ordered, child[d]), PastOff(Way(ordered, child[d]), o), t)
      /\ ordered' \in Links /\ child' \in [Parents -> Tags \cup {Nil}]
      /\ \A e \in Parents : e # d => child'[e] = child[e]
      /\ \A u \in Tags : u \notin K \cup {t} => ordered'[u] = ordered[u]
  <2> HIDE DEF K
  <2>1. /\ Listed(ordered', child'[d], K \cup {t}, Wider(B, K, off, t, o))
        /\ Way(ordered', child'[d]) =
             InsertAt(Way(ordered, child[d]), PastOff(Way(ordered, child[d]), o), t)
        /\ ordered' \in Links /\ child' \in [Parents -> Tags \cup {Nil}]
        /\ \A e \in Parents : e # d => child'[e] = child[e]
        /\ \A u \in Tags : u \notin K \cup {t} => ordered'[u] = ordered[u]
    BY <1>1, PutOrdered DEF K
  <2> QED
    BY <2>1 DEF K
<1>6. /\ \E h : Listed(next', h, N \cup {t}, C)
      /\ next' \in Links
      /\ \A u \in Tags : u \notin N \cup {t} => next'[u] = next[u]
  <2>1. NamesPut(B, d, t, n, o)
    BY <1>1, PutNames
  <2> QED
    BY <2>1 DEF NamesPut
<1>7. /\ Listed(sibling', child'[d], FirstsOf(K \cup {t}, nm, C), C)
      /\ sibling' \in Links
      /\ \A u \in Tags : u \notin K \cup {t} => sibling'[u] = sibling[u]
  BY <1>1, <1>3, PutSiblings
<1>8. N \subseteq K /\ \A u \in N : name[u] = n
  BY DEF NamedIn
<1>9. \A u : u \in N <=> u \in K /\ name[u] = n
  BY DEF NamedIn
<1>10. ASSUME NEW m \in Names
       PROVE  \E h : Listed(next', h, NamedIn(K \cup {t}, nm, m), C)
  <2>1. CASE m = n
    <3>1. NamedIn(K \cup {t}, nm, n) = N \cup {t}
      BY <1>2, <1>9 DEF NamedIn
    <3> QED
      BY <1>6, <2>1, <3>1
  <2>2. CASE m # n
    <3>1. NamedIn(K \cup {t}, nm, m) = NamedIn(K, name, m)
      BY <1>2, <2>2 DEF NamedIn
    <3>2. PICK h : Listed(next, h, NamedIn(K, name, m), B)
      BY <1>1 DEF Family, FamilyOf
    <3>3. \A u \in NamedIn(K, name, m) : u \in K /\ u \notin N /\ u # t /\ u \in Tags
      BY <1>2, <1>8, <2>2 DEF NamedIn
    <3>4. \A u \in NamedIn(K, name, m) : next'[u] = next[u]
      BY <1>6, <3>3
    <3>5. Keeps(NamedIn(K, name, m), B, C)
      <4>1. NamedIn(K, name, m) \subseteq Tags \ {t}
        BY <3>3
      <4> QED
        BY <1>4, <4>1
    <3>6. Listed(next', h, NamedIn(K, name, m), C)
      BY <1>2, <1>4, <3>2, <3>4, <3>5, ListSame
    <3> QED
      BY <3>1, <3>6
  <2> QED
    BY <2>1, <2>2
<1>11. FamilyOf(ordered', next', sibling', child'[d], K \cup {t}, nm, C)
  BY <1>5, <1>7, <1>10 DEF FamilyOf
<1>12. ASSUME NEW e \in Parents, e # d
       PROVE  /\ FamilyOf(ordered', next', sibling', child'[e], Kin(e), nm, C)
              /\ Way(ordered', child'[e]) = Way(ordered, child[e])
  <2>1. \A u \in Kin(e) : u \in Tags /\ u # t /\ u \notin K
    BY <1>12 DEF Kin
  <2>2. \A u \in Kin(e) : /\ ordered'[u] = ordered[u] /\ next'[u] = next[u]
                          /\ sibling'[u] = sibling[u] /\ nm[u] = name[u]
    BY <1>5, <1>6, <1>7, <1>8, <2>1
  <2>3. FamilyOf(ordered, next, sibling, child[e], Kin(e), name, B)
    BY DEF TreeInv, Family
  <2>4. Keeps(Kin(e), B, C)
    <3>1. Kin(e) \subseteq Tags \ {t}
      BY <2>1
    <3> QED
      BY <1>4, <3>1
  <2>5. child'[e] = child[e]
    BY <1>5, <1>12
  <2>6. /\ FamilyOf(ordered', next', sibling', child[e], Kin(e), nm, C)
        /\ Way(ordered', child[e]) = Way(ordered, child[e])
    BY <1>2, <1>4, <2>2, <2>3, <2>4, FamilySame
  <2> QED
    BY <2>5, <2>6
<1> QED
  BY <1>5, <1>6, <1>7, <1>11, <1>12 DEF Reared

\* A tag that is in no list is put into a tag that is live, or the document.
PutsTag(t, n, d, o) ==
  /\ ~Placed(t) /\ d \in Open
  /\ ~BeforeItsName(n, d, o)
  /\ Put(t, n, d, o)
  /\ name' = [name EXCEPT ![t] = n] /\ loose' = loose \ {t}

\* So a tag that is put in leaves the invariant true: it has a place in the order.
LEMMA PutInv ==
  ASSUME NEW B, NEW d \in Parents, NEW t \in Tags, NEW n \in Names, NEW o \in 0 .. MaxOff,
         TreeInv(B), PutsTag(t, n, d, o)
  PROVE  /\ \E C : TreeInv(C)'
         /\ Kids(d)' = InsertAt(Kids(d), PastOff(Kids(d), o), t)
         /\ \A e \in Parents : e # d => Kids(e)' = Kids(e)
<1>1. PICK C : C = Wider(B, Kin(d), off, t, o)
  OBVIOUS
<1>2. /\ ~Placed(t) /\ d \in Open /\ ~BeforeItsName(n, d, o)
      /\ LinkOrdered(t, d, o) /\ LinkNamed(t, n, d, o)
      /\ off' = [off EXCEPT ![t] = o] /\ parent' = [parent EXCEPT ![t] = d]
      /\ name' = [name EXCEPT ![t] = n] /\ loose' = loose \ {t}
  BY DEF PutsTag, Put
<1>3. TreeTypeOK /\ OrderOK(B) /\ Within
  BY DEF TreeInv
<1>4. o \in Nat /\ MaxOff \in Nat /\ Nil \notin Names
  BY TreeAssumption
<1>5. /\ \A u \in Tags : name'[u] = IF u = t THEN n ELSE name[u]
      /\ \A u \in Tags : off'[u] = IF u = t THEN o ELSE off[u]
      /\ \A u \in Tags : parent'[u] = IF u = t THEN d ELSE parent[u]
      /\ name' \in [Tags -> Names \cup {Nil}] /\ off' \in [Tags -> 0 .. MaxOff]
      /\ parent' \in [Tags -> Parents \cup {Nil}]
  BY <1>2, <1>3 DEF TreeTypeOK
<1>6. /\ FamilyOf(ordered', next', sibling', child'[d], Kin(d) \cup {t}, name', C)
      /\ Way(ordered', child'[d]) =
           InsertAt(Way(ordered, child[d]), PastOff(Way(ordered, child[d]), o), t)
      /\ \A e \in Parents : e # d =>
           /\ FamilyOf(ordered', next', sibling', child'[e], Kin(e), name', C)
           /\ Way(ordered', child'[e]) = Way(ordered, child[e])
      /\ ordered' \in Links /\ next' \in Links /\ sibling' \in Links
      /\ child' \in [Parents -> Tags \cup {Nil}]
      /\ \A u \in Tags : u \notin Kin(d) \cup {t} => ordered'[u] = ordered[u]
  <2>1. name'[t] = n /\ \A u \in Tags : u # t => name'[u] = name[u]
    BY <1>5
  <2>2. Reared(d, t, o, name', C)
    BY <1>1, <1>2, <1>4, <2>1, PutFamily
  <2> QED
    BY <2>2 DEF Reared
<1>7. \A u \in Tags : Placed(u)' <=> u = t \/ Placed(u)
  BY <1>2, <1>4, <1>5 DEF Placed, Live
<1>8. \A e \in Parents : Kin(e)' = IF e = d THEN Kin(d) \cup {t} ELSE Kin(e)
  BY <1>2, <1>5, <1>7 DEF Kin
<1>9. \A e \in Parents : Family(e, C)'
  BY <1>6, <1>8 DEF Family
<1>10. TreeTypeOK'
  <2>1. loose' \subseteq {u \in Tags : Live(u)'}
    BY <1>2, <1>3, <1>5 DEF TreeTypeOK, Live
  <2> QED
    BY <1>5, <1>6, <2>1 DEF TreeTypeOK
<1>11. OrderOK(C)'
  <2>1. off \in [Tags -> Nat] /\ Asym(B) /\ Unordered(B, Kin(d), t)
    <3>1. Fresh(B, d, t)
      BY <1>2 DEF Fresh, TreeInv
    <3> QED
      BY <3>1, FreshFacts
  <2>2. /\ Asym(C)
        /\ \A u \in Tags : u # t => /\ <<u, t>> \in C <=> u \in Kin(d) /\ off[u] <= o
                                    /\ <<t, u>> \in C <=> u \in Kin(d) /\ off[u] > o
        /\ \A u, v \in Tags : u # t /\ v # t => (<<u, v>> \in C <=> <<u, v>> \in B)
    BY <1>1, <1>4, <2>1, WiderIs
  <2>3. ASSUME NEW u \in Tags, NEW v \in Tags, <<u, v>> \in C
        PROVE  Placed(u)' /\ Placed(v)' /\ off'[u] <= off'[v]
    <3>1. CASE u # t /\ v # t
      BY <1>3, <1>5, <1>7, <2>2, <2>3, <3>1 DEF OrderOK
    <3>2. CASE u = t /\ v # t
      <4>1. v \in Kin(d) /\ off[v] > o /\ off[v] \in Nat
        BY <2>1, <2>2, <2>3, <3>2
      <4>2. Placed(v)
        BY <4>1 DEF Kin
      <4>3. off'[u] = o /\ off'[v] = off[v] /\ o <= off[v]
        BY <1>4, <1>5, <3>2, <4>1
      <4> QED
        BY <1>7, <3>2, <4>2, <4>3
    <3>3. CASE u # t /\ v = t
      <4>1. u \in Kin(d) /\ off[u] <= o
        BY <2>2, <2>3, <3>3
      <4>2. Placed(u)
        BY <4>1 DEF Kin
      <4> QED
        BY <1>5, <1>7, <3>3, <4>1, <4>2
    <3>4. CASE u = t /\ v = t
      BY <2>2, <2>3, <3>4 DEF Asym
    <3> QED
      BY <3>1, <3>2, <3>3, <3>4
  <2>4. Asym(C)'
    BY <2>2 DEF Asym
  <2> QED
    BY <2>3, <2>4 DEF OrderOK
<1>12. Within'
  <2>1. ASSUME NEW u \in Tags, Placed(u)'
        PROVE  (parent[u] = Root \/ (parent[u] \in Tags /\ Live(parent[u])))'
    <3>1. \A v \in Tags : Live(v) => name'[v] # Nil
      BY <1>4, <1>5 DEF Live
    <3>2. CASE u = t
      BY <1>2, <1>5, <3>1, <3>2 DEF Open, Parents, Live
    <3>3. CASE u # t
      BY <1>3, <1>5, <1>7, <2>1, <3>1, <3>3 DEF Within, Live
    <3> QED
      BY <3>2, <3>3
  <2>2. \A u \in loose' : ordered'[u] = Nil
    <3> SUFFICES ASSUME NEW u \in loose' PROVE ordered'[u] = Nil
      OBVIOUS
    <3>1. u \in loose /\ u # t /\ u \in Tags /\ u \notin Kin(d)
      BY <1>2, <1>3 DEF TreeTypeOK, Kin, Placed
    <3> QED
      BY <1>3, <1>6, <3>1 DEF Within
  <2> QED
    BY <2>1, <2>2 DEF Within
<1>13. TreeInv(C)'
  BY <1>9, <1>10, <1>11, <1>12 DEF TreeInv
<1> QED
  BY <1>6, <1>13 DEF Kids

-----------------------------------------------------------------------------
\* A tag is taken out.
Narrower(B, t) == {p \in B : p[1] # t /\ p[2] # t}

\* The order without t says of the other tags what it said before.
LEMMA NarrowerIs ==
  ASSUME NEW B, NEW t, Asym(B)
  PROVE  /\ Asym(Narrower(B, t))
         /\ \A Q : t \notin Q => Keeps(Q, B, Narrower(B, t))
         /\ \A u, v : <<u, v>> \in Narrower(B, t) => <<u, v>> \in B /\ u # t /\ v # t
         /\ \A u, v : u # t /\ v # t /\ <<u, v>> \in B => <<u, v>> \in Narrower(B, t)
<1>1. \A u, v : <<u, v>> \in Narrower(B, t) <=> <<u, v>> \in B /\ u # t /\ v # t
  BY DEF Narrower
<1> QED
  BY <1>1 DEF Asym, Keeps

\* How ezxml_cut takes the tag at a place of a list out.
LinksOut(f, g, s, i, t) ==
  /\ i \in 1 .. Len(s) /\ s[i] = t
  /\ g = IF i = 1 THEN [f EXCEPT ![t] = Nil]
         ELSE [f EXCEPT ![s[i - 1]] = f[t], ![t] = Nil]

\* That is a way to take the tag out.
LEMMA LinkCut ==
  ASSUME NEW f \in Links, NEW g, NEW s, NEW Q, NEW B, NEW i, NEW t,
         Sorted(s, Q, B), Asym(B), LinksOut(f, g, s, i, t)
  PROVE  /\ g \in Links
         /\ \A h : TakesOut(f, g, h, IF i = 1 THEN f[t] ELSE h, s, i)
         /\ \A u \in Tags : u \notin Q => g[u] = f[u]
         /\ g[t] = Nil
<1>0. /\ i \in 1 .. Len(s) /\ s[i] = t
      /\ g = IF i = 1 THEN [f EXCEPT ![t] = Nil]
             ELSE [f EXCEPT ![s[i - 1]] = f[t], ![t] = Nil]
  BY DEF LinksOut
<1>1. s \in Seq(Tags) /\ Q = {s[j] : j \in 1 .. Len(s)} /\ DOMAIN s = 1 .. Len(s)
  BY DEF Sorted
<1>2. \A j \in 1 .. Len(s) : s[j] \in Q /\ s[j] \in Tags
  BY <1>1
<1>3. i # 1 => i - 1 \in 1 .. Len(s)
  BY <1>0, <1>1
<1>4. \A j, k \in 1 .. Len(s) : s[j] = s[k] <=> j = k
  BY SortedOnce
<1>5. i # 1 => s[i - 1] \in Q /\ s[i - 1] \in Tags /\ s[i - 1] # t
  <2>1. i # i - 1
    BY <1>0
  <2> QED
    BY <1>0, <1>2, <1>3, <1>4, <2>1
<1>6. t \in Q /\ t \in Tags
  BY <1>0, <1>2
<1>7. /\ g \in Links
      /\ \A u \in Tags : g[u] = IF u = t THEN Nil
                                ELSE IF i # 1 /\ u = s[i - 1] THEN f[t] ELSE f[u]
  <2>1. CASE i = 1
    BY <1>0, <1>6, <2>1 DEF Links
  <2>2. CASE i # 1
    BY <1>0, <1>5, <1>6, <2>2 DEF Links
  <2> QED
    BY <2>1, <2>2
<1>8. ASSUME NEW j \in 1 .. Len(s), j # i
      PROVE  g[s[j]] = IF j = i - 1 THEN f[s[i]] ELSE f[s[j]]
  <2>1. i # 1 => (s[j] = s[i - 1] <=> j = i - 1)
    BY <1>3, <1>4
  <2>2. i = 1 => j # i - 1
    OBVIOUS
  <2>3. s[j] # t /\ s[j] \in Tags
    BY <1>0, <1>2, <1>4, <1>8
  <2> QED
    BY <1>0, <1>7, <2>1, <2>2, <2>3
<1>9. \A h : TakesOut(f, g, h, IF i = 1 THEN f[t] ELSE h, s, i)
  BY <1>0, <1>8 DEF TakesOut
<1> QED
  BY <1>5, <1>6, <1>7, <1>9

\* A tag that is in the lists of its parent.
Stands(B, d, t) ==
  /\ TreeTypeOK /\ OrderOK(B) /\ Family(d, B)
  /\ t \in Kin(d)

\* Such a tag has a name and is one of the tags of that name.
LEMMA StandsFacts ==
  ASSUME NEW B, NEW d \in Parents, NEW t, Stands(B, d, t)
  PROVE  /\ t \in Tags /\ Placed(t) /\ name[t] \in Names /\ t \in NamedIn(Kin(d), name, name[t])
         /\ Asym(B) /\ Family(d, B) /\ Nil \notin Tags /\ Kin(d) \subseteq Tags
         /\ ordered \in Links /\ next \in Links /\ sibling \in Links
         /\ child \in [Parents -> Tags \cup {Nil}]
BY TreeAssumption DEF Stands, OrderOK, Kin, TreeTypeOK, Placed, Live, NamedIn

\* ezxml_cut starts along the siblings as they were: the tag that follows t under
\* its name is not among them.
Patched(p, t) ==
  p = IF next[t] = Nil THEN sibling ELSE [sibling EXCEPT ![next[t]] = sibling[t]]

\* The way along the siblings is as before, and the tag after t in its name is
\* not on it.
WayKept(p, d, t, B) ==
  /\ Way(p, child[d]) = Way(sibling, child[d])
  /\ next[t] # Nil => /\ next[t] \in NamedIn(Kin(d), name, name[t])
                      /\ next[t] \notin FirstsOf(Kin(d), name, B)
                      /\ next[t] # t /\ <<t, next[t]>> \in B
  /\ p \in Links
  /\ \A u \in Tags : p[u] = IF u = next[t] THEN sibling[t] ELSE sibling[u]

\* The first statement of ezxml_cut changes nothing on the way.
LEMMA CutWay ==
  ASSUME NEW B, NEW d \in Parents, NEW t, Stands(B, d, t), NEW p, Patched(p, t)
  PROVE  WayKept(p, d, t, B)
<1> DEFINE n == name[t]
           K == Kin(d)
           N == NamedIn(K, name, n)
           F == FirstsOf(K, name, B)
           v == next[t]
<1>1. /\ t \in Tags /\ n \in Names /\ t \in N
      /\ Asym(B) /\ Family(d, B) /\ Nil \notin Tags /\ K \subseteq Tags
      /\ next \in Links /\ sibling \in Links
  BY StandsFacts
<1>2. Listed(next, Child(d, n), N, B) /\ Listed(sibling, child[d], F, B)
  BY <1>1, ChildIs DEF Family, FamilyOf
<1>3. N \subseteq K /\ F \subseteq K /\ \A u \in N : name[u] = n
  BY DEF NamedIn, FirstsOf
<1>4. v # Nil => v \in N /\ <<t, v>> \in B
  BY <1>1, <1>2, ListNext
<1>5. v # Nil => v # t /\ v \notin F
  <2> SUFFICES ASSUME v # Nil PROVE v # t /\ v \notin F
    OBVIOUS
  <2>1. v \in N /\ <<t, v>> \in B /\ v \in Tags
    BY <1>1, <1>3, <1>4
  <2>2. <<v, t>> \notin B
    BY <1>1, <2>1 DEF Asym
  <2>3. v # t
    BY <2>1, <2>2
  <2>4. t \in K /\ name[t] = name[v]
    BY <1>1, <1>3, <2>1
  <2> QED
    BY <2>2, <2>3, <2>4 DEF FirstsOf
<1>0. p = IF v = Nil THEN sibling ELSE [sibling EXCEPT ![v] = sibling[t]]
  BY DEF Patched
<1>6. /\ p \in Links
      /\ \A u \in Tags : p[u] = IF u = v THEN sibling[t] ELSE sibling[u]
  <2>1. CASE v = Nil
    BY <1>0, <1>1, <2>1
  <2>2. CASE v # Nil
    <3>1. v \in Tags
      BY <1>1, <1>3, <1>4, <2>2
    <3> HIDE DEF v
    <3>2. p = [sibling EXCEPT ![v] = sibling[t]]
      BY <1>0, <2>2
    <3> QED
      BY <1>1, <3>1, <3>2 DEF Links
  <2> QED
    BY <2>1, <2>2
<1>7. \A u \in F : p[u] = sibling[u]
  <2>1. \A u \in F : u \in Tags /\ u # v
    BY <1>1, <1>3, <1>5
  <2> QED
    BY <1>6, <2>1
<1>8. Way(p, child[d]) = Way(sibling, child[d])
  <2>1. Keeps(F, B, B)
    BY DEF Keeps
  <2>2. ASSUME NEW g, \A u \in F : g[u] = sibling[u]
        PROVE  Listed(g, child[d], F, B) /\ Way(g, child[d]) = Way(sibling, child[d])
    BY <1>1, <1>2, <2>1, <2>2, ListSame
  <2> HIDE DEF F
  <2> QED
    BY <1>7, <2>2
<1> QED
  BY <1>4, <1>5, <1>6, <1>8 DEF WayKept

\* Which tags are the first of their names when t is gone.
FirstsCut(B, d, t, C) ==
  /\ t # Child(d, name[t]) =>
       /\ t \notin FirstsOf(Kin(d), name, B)
       /\ FirstsOf(Kin(d) \ {t}, name, C) = FirstsOf(Kin(d), name, B)
  /\ t = Child(d, name[t]) =>
       /\ t \in FirstsOf(Kin(d), name, B)
       /\ next[t] = Nil =>
            FirstsOf(Kin(d) \ {t}, name, C) = FirstsOf(Kin(d), name, B) \ {t}
       /\ next[t] # Nil =>
            FirstsOf(Kin(d) \ {t}, name, C) =
              (FirstsOf(Kin(d), name, B) \ {t}) \cup {next[t]}

\* If t was the first of its name, the next one of the name takes its place.
LEMMA CutFirsts ==
  ASSUME NEW B, NEW d \in Parents, NEW t, Stands(B, d, t), NEW C, C = Narrower(B, t)
  PROVE  FirstsCut(B, d, t, C)
<1> DEFINE n == name[t]
           K == Kin(d)
           N == NamedIn(K, name, n)
           F == FirstsOf(K, name, B)
           G == FirstsOf(K \ {t}, name, C)
           v == next[t]
           h == Child(d, n)
<1>1. /\ t \in Tags /\ n \in Names /\ t \in N
      /\ Asym(B) /\ Family(d, B) /\ Nil \notin Tags /\ K \subseteq Tags
  BY StandsFacts
<1>2. /\ Listed(next, h, N, B)
      /\ h = Nil <=> N = {}
      /\ h # Nil => h \in N /\ h \in F
      /\ \A u \in N : u # h => <<h, u>> \in B
      /\ \A u \in F : name[u] = n => u = h
  BY <1>1, ChildIs
<1>3. h \in N /\ h \in F
  BY <1>1, <1>2
<1>4. /\ v = Nil => \A w \in N : w # t => <<w, t>> \in B
      /\ v # Nil =>
           /\ v \in N /\ <<t, v>> \in B
           /\ \A w \in N : w \notin {t, v} =>
                \/ <<t, w>> \in B /\ <<v, w>> \in B
                \/ <<w, t>> \in B /\ <<w, v>> \in B
  BY <1>1, <1>2, ListNext
<1>5. \A u : u \in N <=> u \in K /\ name[u] = n
  BY DEF NamedIn
<1>6. \A u : u \in F <=> u \in K /\ \A w \in K : name[w] = name[u] /\ w # u => <<u, w>> \in B
  BY DEF FirstsOf
<1>7. \A u : u \in G <=> /\ u \in K \ {t}
                         /\ \A w \in K \ {t} : name[w] = name[u] /\ w # u => <<u, w>> \in C
  BY DEF FirstsOf
<1>8. \A u, w \in K \ {t} : <<u, w>> \in C <=> <<u, w>> \in B
  BY <1>1, NarrowerIs
<1>9. \A u, w \in K : <<u, w>> \in B => <<w, u>> \notin B
  BY <1>1 DEF Asym
<1> SUFFICES /\ t # h => t \notin F /\ G = F
             /\ t = h => /\ t \in F
                         /\ v = Nil => G = F \ {t}
                         /\ v # Nil => G = (F \ {t}) \cup {v}
  BY DEF FirstsCut
<1> HIDE DEF n, K, N, F, G, v, h
<1>10. \A u \in K \ {t} : name[u] # n => (u \in G <=> u \in F)
  <2> SUFFICES ASSUME NEW u \in K \ {t}, name[u] # n PROVE u \in G <=> u \in F
    OBVIOUS
  <2>1. name[t] # name[u] /\ t \in K
    BY <1>1, <1>5 DEF n
  <2> QED
    BY <1>6, <1>7, <1>8, <2>1
<1>11. \A u \in K \ {t} : name[u] = n =>
         (u \in G <=> \A w \in N : w # t /\ w # u => <<u, w>> \in B)
  BY <1>5, <1>7, <1>8
<1>12. CASE t # h
  <2>1. <<h, t>> \in B /\ h \in K \ {t} /\ name[h] = n
    BY <1>1, <1>2, <1>3, <1>5, <1>12
  <2>2. t \notin F
    BY <1>1, <1>2, <1>12 DEF n
  <2>3. \A u \in K \ {t} : name[u] = n => (u \in G <=> u = h)
    <3> SUFFICES ASSUME NEW u \in K \ {t}, name[u] = n PROVE u \in G <=> u = h
      OBVIOUS
    <3>1. u \in N
      BY <1>5
    <3>2. u = h => u \in G
      BY <1>2, <1>11
    <3>3. ASSUME u \in G, u # h PROVE FALSE
      <4>1. <<u, h>> \in B
        BY <1>3, <1>11, <1>12, <3>3
      <4>2. <<h, u>> \in B
        BY <1>2, <3>1, <3>3
      <4> QED
        BY <1>9, <2>1, <4>1, <4>2
    <3> QED
      BY <3>2, <3>3
  <2>4. \A u \in K \ {t} : name[u] = n => (u \in F <=> u = h)
    BY <1>2, <1>3
  <2>5. \A u \in K \ {t} : u \in G <=> u \in F
    BY <1>10, <2>3, <2>4
  <2>6. G = F
    BY <1>6, <1>7, <2>2, <2>5
  <2> QED
    BY <1>12, <2>2, <2>6
<1>13. CASE t = h
  <2>1. t \in F /\ \A u \in K \ {t} : name[u] = n => u \notin F
    BY <1>2, <1>3, <1>13
  <2>2. CASE v = Nil
    <3>1. \A u \in K \ {t} : name[u] # n
      <4> SUFFICES ASSUME NEW u \in K \ {t}, name[u] = n PROVE FALSE
        OBVIOUS
      <4>1. u \in N /\ u # t
        BY <1>5
      <4>2. <<u, t>> \in B /\ <<t, u>> \in B
        BY <1>2, <1>4, <1>13, <2>2, <4>1
      <4> QED
        BY <1>1, <1>5, <1>9, <4>2
    <3>2. G = F \ {t}
      BY <1>6, <1>7, <1>10, <3>1
    <3> QED
      BY <1>13, <2>1, <2>2, <3>2
  <2>3. CASE v # Nil
    <3>1. v \in N /\ v \in K /\ v # t /\ name[v] = n
      BY <1>1, <1>4, <1>5, <1>9, <2>3
    <3>2. \A w \in N : w # t /\ w # v => <<v, w>> \in B
      <4> SUFFICES ASSUME NEW w \in N, w # t, w # v PROVE <<v, w>> \in B
        OBVIOUS
      <4>1. <<t, w>> \in B
        BY <1>2, <1>13
      <4>2. <<w, t>> \notin B
        BY <1>1, <1>5, <1>9, <4>1
      <4> QED
        BY <1>4, <2>3, <4>2
    <3>3. \A u \in K \ {t} : name[u] = n => (u \in G <=> u = v)
      <4> SUFFICES ASSUME NEW u \in K \ {t}, name[u] = n PROVE u \in G <=> u = v
        OBVIOUS
      <4>1. u \in N
        BY <1>5
      <4>2. u = v => u \in G
        BY <1>11, <3>2
      <4>3. ASSUME u \in G, u # v PROVE FALSE
        <5>1. <<u, v>> \in B
          BY <1>11, <3>1, <4>3
        <5>2. <<v, u>> \in B
          BY <3>2, <4>1, <4>3
        <5> QED
          BY <1>9, <3>1, <5>1, <5>2
      <4> QED
        BY <4>2, <4>3
    <3>4. G = (F \ {t}) \cup {v}
      <4>1. v \in G /\ t \notin G
        BY <1>7, <3>1, <3>3
      <4>2. \A u \in K \ {t} : u # v => (u \in G <=> u \in F)
        BY <1>10, <2>1, <3>3
      <4> QED
        BY <1>6, <1>7, <3>1, <4>1, <4>2
    <3> QED
      BY <1>13, <2>1, <2>3, <3>4
  <2> QED
    BY <2>2, <2>3
<1> QED
  BY <1>12, <1>13

\* The subtags without t.
KidsCut(d, t, C) ==
  /\ Listed(ordered', child'[d], Kin(d) \ {t}, C)
  /\ \E i \in 1 .. Len(Way(ordered, child[d])) :
        /\ Way(ordered, child[d])[i] = t
        /\ Way(ordered', child'[d]) = RemoveAt(Way(ordered, child[d]), i)
  /\ ordered' \in Links /\ child' \in [Parents -> Tags \cup {Nil}]
  /\ child'[d] = IF child[d] = t THEN ordered[t] ELSE child[d]
  /\ \A e \in Parents : e # d => child'[e] = child[e]
  /\ ordered'[t] = Nil
  /\ \A u \in Tags : u \notin Kin(d) => ordered'[u] = ordered[u]

\* ezxml_cut takes the tag out of the list of the subtags.
LEMMA CutKids ==
  ASSUME NEW B, NEW d \in Parents, NEW t, Stands(B, d, t), NEW C, C = Narrower(B, t),
         CutOrdered(t, d)
  PROVE  KidsCut(d, t, C)
<1> DEFINE s == Way(ordered, child[d])
           i == SelectInSeq(s, LAMBDA u : u = t)
           K == Kin(d)
<1>1. /\ t \in Tags /\ t \in K /\ Asym(B) /\ Nil \notin Tags /\ K \subseteq Tags
      /\ ordered \in Links /\ child \in [Parents -> Tags \cup {Nil}]
  BY StandsFacts DEF Stands
<1>2. Listed(ordered, child[d], K, B)
  BY DEF Stands, Family, FamilyOf
<1>3. Chain(ordered, child[d], s) /\ Sorted(s, K, B)
  BY <1>2 DEF Listed
<1>4. /\ s \in Seq(Tags) /\ K = {s[j] : j \in 1 .. Len(s)} /\ DOMAIN s = 1 .. Len(s)
      /\ child[d] = OrNil(s, 1)
  BY <1>3 DEF Sorted, Chain
<1>5. i \in 1 .. Len(s) /\ s[i] = t
  <2>1. \/ i = 0 /\ \A k \in 1 .. Len(s) : s[k] # t
        \/ i \in 1 .. Len(s) /\ s[i] = t
    <3> HIDE DEF s
    <3> QED
      BY <1>4, PlaceOf
  <2> HIDE DEF s, i, K
  <2> QED
    BY <1>1, <1>4, <2>1
<1>6. IF i = 1
      THEN /\ child' = [child EXCEPT ![d] = ordered[t]]
           /\ ordered' = [ordered EXCEPT ![t] = Nil]
      ELSE /\ ordered' = [ordered EXCEPT ![s[i - 1]] = ordered[t], ![t] = Nil]
           /\ UNCHANGED child
  BY DEF CutOrdered
<1>7. Asym(C) /\ Keeps(K \ {t}, B, C)
  BY <1>1, NarrowerIs
<1> HIDE DEF s, i, K
<1>8. i = 1 <=> child[d] = t
  <2>1. i = 1 => child[d] = t
    BY <1>4, <1>5 DEF OrNil
  <2>2. ASSUME child[d] = t PROVE i = 1
    <3>1. 1 \in 1 .. Len(s) /\ s[1] = t
      BY <1>1, <1>4, <2>2 DEF OrNil
    <3> QED
      BY <1>1, <1>3, <1>5, <3>1, SortedOnce
  <2> QED
    BY <2>1, <2>2
<1>9. child' = [child EXCEPT ![d] = IF i = 1 THEN ordered[t] ELSE child[d]]
  BY <1>1, <1>6
<1>10. ordered[t] \in Tags \cup {Nil}
  BY <1>1 DEF Links
<1>11. /\ child' \in [Parents -> Tags \cup {Nil}]
       /\ child'[d] = IF i = 1 THEN ordered[t] ELSE child[d]
       /\ \A e \in Parents : e # d => child'[e] = child[e]
  BY <1>1, <1>9, <1>10
<1>12. LinksOut(ordered, ordered', s, i, t)
  BY <1>5, <1>6 DEF LinksOut
<1>13. /\ ordered' \in Links
       /\ \A h : TakesOut(ordered, ordered', h, IF i = 1 THEN ordered[t] ELSE h, s, i)
       /\ \A u \in Tags : u \notin K => ordered'[u] = ordered[u]
       /\ ordered'[t] = Nil
  BY <1>1, <1>3, <1>12, LinkCut
<1>14. TakesOut(ordered, ordered', child[d], child'[d], s, i)
  BY <1>11, <1>13
<1>15. /\ Listed(ordered', child'[d], K \ {t}, C)
       /\ Way(ordered', child'[d]) = RemoveAt(s, i)
  <2>1. /\ Listed(ordered', child'[d], K \ {s[i]}, C)
        /\ Way(ordered', child'[d]) = RemoveAt(s, i)
    BY <1>1, <1>2, <1>5, <1>7, <1>14, ListCut DEF s
  <2> QED
    BY <1>5, <2>1
<1> QED
  BY <1>5, <1>8, <1>11, <1>13, <1>15 DEF KidsCut, s, K

\* What ezxml_cut does to the lists of names, tag by tag: s and q are the lists
\* of the siblings and of the name, v is the tag after t in the second.
CutsNamed(d, t, s, j, q, k) ==
  /\ j \in 1 .. Len(s) /\ s[j] = Child(d, name[t])
  /\ k \in 1 .. Len(q) /\ q[k] = t
  /\ child[d] = t <=> j = 1 /\ Child(d, name[t]) = t
  /\ LinksOut(next, next', q, k, t)
  /\ sibling' \in [Tags -> Tags \cup {Nil}]
  /\ \A u \in Tags : sibling'[u] =
       IF u = t THEN Nil
       ELSE IF j # 1 /\ Child(d, name[t]) = t /\ u = s[j - 1]
            THEN IF next[t] # Nil THEN next[t] ELSE sibling[t]
       ELSE IF u = next[t] THEN sibling[t] ELSE sibling[u]

\* The two cases of ezxml_cut, t at the head of the subtags or further on, change
\* those lists in the same way.
LEMMA CutNamedIs ==
  ASSUME NEW B, NEW d \in Parents, NEW t, Stands(B, d, t), CutNamed(t, d)
  PROVE  \E j, k : CutsNamed(d, t, Way(sibling, child[d]), j, Way(next, Child(d, name[t])), k)
<1> DEFINE n == name[t]
           K == Kin(d)
           N == NamedIn(K, name, n)
           F == FirstsOf(K, name, B)
           v == next[t]
           h == Child(d, n)
           q == Way(next, h)
           s == Way(sibling, child[d])
           p == IF next[t] = Nil THEN sibling ELSE [sibling EXCEPT ![next[t]] = sibling[t]]
           j == SelectInSeq(s, LAMBDA u : name[u] = n)
           k == SelectInSeq(q, LAMBDA u : u = t)
<1>1. /\ t \in Tags /\ n \in Names /\ t \in N
      /\ Asym(B) /\ Family(d, B) /\ Nil \notin Tags /\ K \subseteq Tags
      /\ next \in Links /\ sibling \in Links
  BY StandsFacts
<1>2. /\ Listed(next, h, N, B) /\ Listed(sibling, child[d], F, B)
      /\ h \in N /\ h \in F /\ \A u \in F : name[u] = n => u = h
  <2>1. /\ Listed(next, h, N, B)
        /\ h = Nil <=> N = {}
        /\ h # Nil => h \in N /\ h \in F
        /\ \A u \in F : name[u] = n => u = h
    BY <1>1, ChildIs
  <2>2. Listed(sibling, child[d], F, B)
    BY <1>1 DEF Family, FamilyOf
  <2> HIDE DEF N, F, h
  <2> QED
    BY <1>1, <2>1, <2>2
<1>3. /\ Way(p, child[d]) = s
      /\ v # Nil => v \in N /\ v # t
      /\ p \in Links
      /\ \A u \in Tags : p[u] = IF u = v THEN sibling[t] ELSE sibling[u]
  <2>1. PICK pp : pp = p
    OBVIOUS
  <2>2. Patched(pp, t)
    BY <2>1 DEF Patched
  <2>3. WayKept(pp, d, t, B)
    BY <2>2, CutWay
  <2>4. /\ Way(pp, child[d]) = Way(sibling, child[d])
        /\ next[t] # Nil => next[t] \in NamedIn(Kin(d), name, name[t]) /\ next[t] # t
        /\ pp \in Links
        /\ \A u \in Tags : pp[u] = IF u = next[t] THEN sibling[t] ELSE sibling[u]
    BY <2>3 DEF WayKept
  <2> HIDE DEF p
  <2> QED
    BY <2>1, <2>4
<1>4. LET way == Way(p, child[d])
          jj == SelectInSeq(way, LAMBDA u : name[u] = n)
          named == Way(next, way[jj])
          kk == SelectInSeq(named, LAMBDA u : u = t)
          after == IF next[t] # Nil THEN next[t] ELSE p[t]
      IN  IF child[d] = t
          THEN /\ sibling' = [p EXCEPT ![t] = Nil]
               /\ next' = [next EXCEPT ![t] = Nil]
          ELSE /\ sibling' = IF way[jj] = t THEN [p EXCEPT ![way[jj - 1]] = after, ![t] = Nil]
                             ELSE [p EXCEPT ![t] = Nil]
               /\ next' = IF kk > 1 THEN [next EXCEPT ![named[kk - 1]] = next[t], ![t] = Nil]
                          ELSE [next EXCEPT ![t] = Nil]
  BY DEF CutNamed
<1> HIDE DEF p
<1>5. /\ s \in Seq(Tags) /\ F = {s[x] : x \in 1 .. Len(s)} /\ DOMAIN s = 1 .. Len(s)
      /\ child[d] = OrNil(s, 1) /\ Sorted(s, F, B)
      /\ q \in Seq(Tags) /\ N = {q[x] : x \in 1 .. Len(q)} /\ DOMAIN q = 1 .. Len(q)
      /\ h = OrNil(q, 1) /\ Sorted(q, N, B)
  BY <1>2 DEF Listed, Sorted, Chain
<1>6. \/ j = 0 /\ \A x \in 1 .. Len(s) : name[s[x]] # n
      \/ j \in 1 .. Len(s) /\ name[s[j]] = n
  <2> HIDE DEF s, n
  <2> QED
    BY <1>5, FirstNamed
<1>7. \/ k = 0 /\ \A x \in 1 .. Len(q) : q[x] # t
      \/ k \in 1 .. Len(q) /\ q[k] = t
  <2> HIDE DEF q
  <2> QED
    BY <1>5, PlaceOf
<1>8. \A u \in N : u \in K /\ name[u] = n
  BY DEF NamedIn
<1> HIDE DEF N, F
<1>9. j \in 1 .. Len(s) /\ s[j] = h
  <2> HIDE DEF j, s, h, n
  <2>1. name[h] = n /\ h \in F
    BY <1>2, <1>8
  <2>2. j \in 1 .. Len(s) /\ name[s[j]] = n
    BY <1>5, <1>6, <2>1
  <2>3. s[j] \in F
    BY <1>5, <2>2
  <2> QED
    BY <1>2, <2>2, <2>3
<1>10. k \in 1 .. Len(q) /\ q[k] = t
  <2> HIDE DEF k, q
  <2> QED
    BY <1>1, <1>5, <1>7
<1>11. IF child[d] = t
       THEN /\ sibling' = [p EXCEPT ![t] = Nil]
            /\ next' = [next EXCEPT ![t] = Nil]
       ELSE /\ sibling' = IF h = t THEN [p EXCEPT ![s[j - 1]] = IF v # Nil THEN v ELSE p[t],
                                                  ![t] = Nil]
                          ELSE [p EXCEPT ![t] = Nil]
            /\ next' = IF k > 1 THEN [next EXCEPT ![q[k - 1]] = next[t], ![t] = Nil]
                       ELSE [next EXCEPT ![t] = Nil]
  BY <1>3, <1>4, <1>9, Zenon
<1> HIDE DEF s, q, j, k, h, n, v
<1>20. /\ \A x, y \in 1 .. Len(s) : s[x] = s[y] => x = y
       /\ \A x, y \in 1 .. Len(q) : q[x] = q[y] => x = y
  <2>1. Sorted(s, F, B) /\ Sorted(q, N, B) /\ Asym(B)
    BY <1>1, <1>5
  <2>2. \A x, y \in 1 .. Len(s) : s[x] = s[y] => x = y
    BY <2>1, SortedOnce
  <2>3. \A x, y \in 1 .. Len(q) : q[x] = q[y] => x = y
    BY <2>1, SortedOnce
  <2> QED
    BY <2>2, <2>3
<1>12. child[d] = t <=> j = 1 /\ h = t
  <2>1. ASSUME child[d] = t PROVE j = 1 /\ h = t
    <3>1. 1 \in 1 .. Len(s) /\ s[1] = t
      BY <1>1, <1>5, <2>1 DEF OrNil
    <3>2. s[1] \in F
      BY <1>5, <3>1
    <3>3. h = t
      BY <1>1, <1>2, <1>8, <3>1, <3>2
    <3>4. j = 1
      BY <1>9, <1>20, <3>1, <3>3
    <3> QED
      BY <3>3, <3>4
  <2>2. ASSUME j = 1, h = t PROVE child[d] = t
    BY <1>5, <1>9, <2>2 DEF OrNil
  <2> QED
    BY <2>1, <2>2
<1>13. h = t <=> k = 1
  <2>1. 1 \in 1 .. Len(q) /\ q[1] = h
    BY <1>5, <1>10 DEF OrNil
  <2> QED
    BY <1>10, <1>20, <2>1
<1>14. LinksOut(next, next', q, k, t)
  <2>1. k = 1 => next' = [next EXCEPT ![t] = Nil]
    BY <1>11
  <2>2. k # 1 => next' = [next EXCEPT ![q[k - 1]] = next[t], ![t] = Nil]
    <3>1. k # 1 => k > 1 /\ child[d] # t
      BY <1>10, <1>12, <1>13
    <3> QED
      BY <1>11, <3>1
  <2> QED
    BY <1>10, <2>1, <2>2 DEF LinksOut
<1>15. j # 1 => s[j - 1] \in Tags /\ s[j - 1] # s[j]
  <2> SUFFICES ASSUME j # 1 PROVE s[j - 1] \in Tags /\ s[j - 1] # s[j]
    OBVIOUS
  <2>1. j - 1 \in 1 .. Len(s) /\ j - 1 # j
    BY <1>5, <1>9
  <2> QED
    BY <1>5, <1>9, <1>20, <2>1
<1>16. p[t] = sibling[t] /\ sibling[t] \in Tags \cup {Nil} /\ (v # Nil => v \in Tags)
  BY <1>1, <1>3, <1>8 DEF Links, v
<1>17. p \in [Tags -> Tags \cup {Nil}]
  BY <1>3 DEF Links
<1>18. /\ sibling' \in [Tags -> Tags \cup {Nil}]
       /\ \A u \in Tags : sibling'[u] =
            IF u = t THEN Nil
            ELSE IF j # 1 /\ h = t /\ u = s[j - 1]
                 THEN IF v # Nil THEN v ELSE sibling[t]
            ELSE IF u = v THEN sibling[t] ELSE sibling[u]
  <2>1. CASE child[d] = t \/ h # t
    <3>1. sibling' = [p EXCEPT ![t] = Nil]
      BY <1>11, <2>1
    <3>2. ~(j # 1 /\ h = t)
      BY <1>12, <2>1
    <3> QED
      BY <1>3, <1>17, <3>1, <3>2
  <2>2. CASE child[d] # t /\ h = t
    <3>1. sibling' = [p EXCEPT ![s[j - 1]] = IF v # Nil THEN v ELSE sibling[t], ![t] = Nil]
      BY <1>11, <1>16, <2>2
    <3>2. j # 1 /\ h = t /\ s[j - 1] \in Tags /\ s[j - 1] # t
      BY <1>9, <1>12, <1>15, <2>2
    <3>3. (IF v # Nil THEN v ELSE sibling[t]) \in Tags \cup {Nil}
      BY <1>16
    <3> QED
      BY <1>3, <1>17, <3>1, <3>2, <3>3
  <2> QED
    BY <2>1, <2>2
<1>19. CutsNamed(d, t, s, j, q, k)
  BY <1>9, <1>10, <1>12, <1>14, <1>18 DEF CutsNamed, h, n, v
<1> QED
  BY <1>19 DEF s, q, h, n

\* A head that is alone with its name is followed by the same tag among the
\* subtags and among the siblings.
LEMMA HeadAlone ==
  ASSUME NEW B, NEW d \in Parents, NEW t, Stands(B, d, t), child[d] = t, next[t] = Nil
  PROVE  ordered[t] = sibling[t]
<1> DEFINE n == name[t]
           K == Kin(d)
           N == NamedIn(K, name, n)
           F == FirstsOf(K, name, B)
           x == ordered[t]
           y == sibling[t]
<1>1. /\ t \in Tags /\ n \in Names /\ t \in N /\ t \in K
      /\ Asym(B) /\ Family(d, B) /\ Nil \notin Tags /\ K \subseteq Tags
  BY StandsFacts DEF Stands
<1>2. /\ Listed(next, Child(d, n), N, B) /\ Listed(sibling, t, F, B) /\ Listed(ordered, t, K, B)
      /\ F \subseteq K
  <2>1. Listed(sibling, child[d], F, B) /\ Listed(ordered, child[d], K, B)
    BY <1>1 DEF Family, FamilyOf
  <2>2. F \subseteq K
    BY DEF FirstsOf
  <2> QED
    BY <1>1, <2>1, <2>2, ChildIs
<1>3. /\ \A w \in K : w # t => <<t, w>> \in B
      /\ t \in F
  <2>1. /\ t # Nil => t \in F /\ \A w \in F : w # t => <<t, w>> \in B
        /\ t # Nil => t \in K /\ \A w \in K : w # t => <<t, w>> \in B
    <3>1. t # Nil => t \in F /\ \A w \in F : w # t => <<t, w>> \in B
      BY <1>1, <1>2, ListOrder
    <3>2. t # Nil => t \in K /\ \A w \in K : w # t => <<t, w>> \in B
      BY <1>1, <1>2, ListOrder
    <3> QED
      BY <3>1, <3>2
  <2> QED
    BY <1>1, <2>1
<1>4. /\ x = Nil => \A w \in K : w # t => <<w, t>> \in B
      /\ x # Nil => /\ x \in K /\ <<t, x>> \in B
                    /\ \A w \in K : w \notin {t, x} =>
                         \/ <<t, w>> \in B /\ <<x, w>> \in B
                         \/ <<w, t>> \in B /\ <<w, x>> \in B
  BY <1>1, <1>2, ListNext
<1>5. /\ y = Nil => \A w \in F : w # t => <<w, t>> \in B
      /\ y # Nil => /\ y \in F /\ <<t, y>> \in B
                    /\ \A w \in F : w \notin {t, y} =>
                         \/ <<t, w>> \in B /\ <<y, w>> \in B
                         \/ <<w, t>> \in B /\ <<w, y>> \in B
  BY <1>1, <1>2, <1>3, ListNext
<1>6. \A w \in N : w # t => <<w, t>> \in B
  <2>1. PICK e, Q : e = Child(d, n) /\ Q = N
    OBVIOUS
  <2>2. Listed(next, e, Q, B) /\ t \in Q /\ Asym(B)
    BY <1>1, <1>2, <2>1
  <2> HIDE DEF N, K, n
  <2>3. next[t] = Nil => \A w \in Q : w # t => <<w, t>> \in B
    BY <2>2, ListNext
  <2> QED
    BY <2>1, <2>3
<1>7. \A u : u \in N <=> u \in K /\ name[u] = n
  BY DEF NamedIn
<1>8. \A u : u \in F <=> u \in K /\ \A w \in K : name[w] = name[u] /\ w # u => <<u, w>> \in B
  BY DEF FirstsOf
<1>9. \A u, w \in K : <<u, w>> \in B => <<w, u>> \notin B
  BY <1>1 DEF Asym
<1> HIDE DEF K, N, F, x, y
<1>10. \A w \in K : name[w] = n => w = t
  <2> SUFFICES ASSUME NEW w \in K, name[w] = n, w # t PROVE FALSE
    OBVIOUS
  <2>1. <<w, t>> \in B /\ <<t, w>> \in B
    BY <1>3, <1>6, <1>7
  <2> QED
    BY <1>1, <1>9, <2>1
<1>11. CASE x = Nil
  <2>1. \A w \in K : w = t
    <3> SUFFICES ASSUME NEW w \in K, w # t PROVE FALSE
      OBVIOUS
    <3>1. <<w, t>> \in B /\ <<t, w>> \in B
      BY <1>3, <1>4, <1>11
    <3> QED
      BY <1>1, <1>9, <3>1
  <2>2. ASSUME y # Nil PROVE FALSE
    <3>1. y \in K /\ <<t, y>> \in B
      BY <1>2, <1>5, <2>2
    <3>2. y = t
      BY <2>1, <3>1
    <3> QED
      BY <1>1, <1>9, <3>1, <3>2
  <2> QED
    BY <1>11, <2>2 DEF x, y
<1>12. CASE x # Nil
  <2>1. x \in K /\ x # t /\ <<t, x>> \in B
    BY <1>1, <1>4, <1>9, <1>12
  <2>2. \A w \in K : w # t /\ w # x => <<x, w>> \in B
    <3> SUFFICES ASSUME NEW w \in K, w # t, w # x PROVE <<x, w>> \in B
      OBVIOUS
    <3>1. <<t, w>> \in B /\ <<w, t>> \notin B
      BY <1>1, <1>3, <1>9
    <3> QED
      BY <1>4, <1>12, <3>1
  <2>3. x \in F
    <3>1. name[t] # name[x]
      BY <1>10, <2>1 DEF n
    <3> QED
      BY <1>8, <2>1, <2>2, <3>1
  <2>4. y # Nil
    <3> SUFFICES ASSUME y = Nil PROVE FALSE
      OBVIOUS
    <3>1. <<x, t>> \in B
      BY <1>5, <2>1, <2>3
    <3> QED
      BY <1>1, <1>9, <2>1, <3>1
  <2>5. y \in F /\ y \in K /\ <<t, y>> \in B /\ y # t
    BY <1>1, <1>2, <1>5, <1>9, <2>4
  <2>6. ASSUME x # y PROVE FALSE
    <3>1. <<x, y>> \in B
      BY <2>2, <2>5, <2>6
    <3>2. <<y, x>> \notin B /\ <<x, t>> \notin B
      BY <1>1, <1>9, <2>1, <2>5, <3>1
    <3> QED
      BY <1>5, <2>1, <2>3, <2>4, <2>6, <3>2
  <2> QED
    BY <2>6 DEF x, y
<1> QED
  BY <1>11, <1>12

\* The siblings without t, where the tag after it in its name follows it at once.
SiblingsCut(d, t, C) ==
  /\ Listed(sibling', child'[d], FirstsOf(Kin(d) \ {t}, name, C), C)
  /\ sibling' \in Links
  /\ \A u \in Tags : u \notin Kin(d) => sibling'[u] = sibling[u]

\* ezxml_cut leaves the first tags of the names in the sibling list, unless tags of
\* other names stand between the tag and the next one of its name.
LEMMA CutSiblings ==
  ASSUME NEW B, NEW d \in Parents, NEW t, Stands(B, d, t), NEW C, C = Narrower(B, t),
         CutOrdered(t, d), CutNamed(t, d), ~LeavesLater(t)
  PROVE  SiblingsCut(d, t, C)
<1>0. FirstsCut(B, d, t, C)
  BY CutFirsts
<1> DEFINE n == name[t]
           K == Kin(d)
           N == NamedIn(K, name, n)
           F == FirstsOf(K, name, B)
           G == FirstsOf(K \ {t}, name, C)
           v == next[t]
           h == Child(d, n)
           q == Way(next, h)
           s == Way(sibling, child[d])
<1>1. /\ t \in Tags /\ t \in K /\ Asym(B) /\ Nil \notin Tags /\ K \subseteq Tags
      /\ sibling \in [Tags -> Tags \cup {Nil}]
  BY StandsFacts DEF Stands, Links
<1>2. PICK j, k : CutsNamed(d, t, s, j, q, k)
  BY CutNamedIs
<1>3. /\ j \in 1 .. Len(s) /\ s[j] = h
      /\ child[d] = t <=> j = 1 /\ h = t
      /\ sibling' \in Links
      /\ \A u \in Tags : sibling'[u] =
           IF u = t THEN Nil
           ELSE IF j # 1 /\ h = t /\ u = s[j - 1]
                THEN IF v # Nil THEN v ELSE sibling[t]
           ELSE IF u = v THEN sibling[t] ELSE sibling[u]
  BY <1>2 DEF CutsNamed, Links
<1>4. /\ t # h => t \notin F /\ G = F
      /\ t = h => /\ t \in F
                  /\ v = Nil => G = F \ {t}
                  /\ v # Nil => G = (F \ {t}) \cup {v}
  BY <1>0 DEF FirstsCut
<1>5. v # Nil => v \in K /\ v \in Tags /\ v \notin F /\ v # t
  <2>1. PICK p : Patched(p, t)
    BY DEF Patched
  <2>2. WayKept(p, d, t, B)
    BY <2>1, CutWay
  <2> QED
    BY <1>1, <2>2 DEF NamedIn, WayKept
<1>6. /\ Listed(sibling, child[d], F, B) /\ Listed(ordered, child[d], K, B)
  BY DEF Stands, Family, FamilyOf
<1>7. /\ s \in Seq(Tags) /\ F = {s[x] : x \in 1 .. Len(s)} /\ Sorted(s, F, B)
      /\ F \subseteq K
  BY <1>6 DEF Listed, Sorted, FirstsOf
<1>8. /\ Asym(C) /\ \A Q : t \notin Q => Keeps(Q, B, C)
      /\ \A u, w : u # t /\ w # t /\ <<u, w>> \in B => <<u, w>> \in C
  BY <1>1, NarrowerIs
<1>9. child'[d] = IF child[d] = t THEN ordered[t] ELSE child[d]
  <2>1. KidsCut(d, t, C)
    BY CutKids
  <2> QED
    BY <2>1 DEF KidsCut
<1>10. v # Nil => v = ordered[t]
  BY DEF LeavesLater
<1>11. child[d] = t /\ v = Nil => ordered[t] = sibling[t]
  BY HeadAlone
<1>12. v # Nil => InPlaceOf(F, t, v, B, C)
  <2> SUFFICES ASSUME v # Nil, NEW w \in F \ {t}
               PROVE  /\ <<w, t>> \in B => <<w, v>> \in C
                      /\ <<t, w>> \in B => <<v, w>> \in C
    BY DEF InPlaceOf
  <2>1. w \in K /\ w \notin {t, v} /\ w \in Tags
    BY <1>1, <1>5, <1>7
  <2>2. \/ <<t, w>> \in B /\ <<v, w>> \in B
        \/ <<w, t>> \in B /\ <<w, v>> \in B
    <3>1. ordered[t] # Nil =>
            /\ ordered[t] \in K /\ <<t, ordered[t]>> \in B
            /\ \A x \in K : x \notin {t, ordered[t]} =>
                 \/ <<t, x>> \in B /\ <<ordered[t], x>> \in B
                 \/ <<x, t>> \in B /\ <<x, ordered[t]>> \in B
      BY <1>1, <1>6, ListNext
    <3> QED
      BY <1>10, <2>1, <3>1
  <2>3. <<w, t>> \in B => <<t, w>> \notin B
    BY <1>1, <2>1 DEF Asym
  <2> QED
    BY <1>5, <1>8, <2>1, <2>2, <2>3
<1>18. \A x, y \in 1 .. Len(s) : s[x] = s[y] => x = y
  <2>1. Sorted(s, F, B) /\ Asym(B)
    BY <1>1, <1>7
  <2> HIDE DEF s, F
  <2> QED
    BY <2>1, SortedOnce
<1> HIDE DEF n, K, N, F, G, v, h, q, s
<1>13. j # 1 => s[j - 1] \in F /\ s[j - 1] \in Tags /\ s[j - 1] # s[j]
  <2> SUFFICES ASSUME j # 1 PROVE s[j - 1] \in F /\ s[j - 1] \in Tags /\ s[j - 1] # s[j]
    OBVIOUS
  <2>1. j - 1 \in 1 .. Len(s) /\ j - 1 # j
    BY <1>3, <1>7
  <2> QED
    BY <1>1, <1>3, <1>7, <1>18, <2>1
<1>14. \A x \in 1 .. Len(s) : s[x] \in F /\ s[x] \in Tags /\ s[x] # v
  <2>1. \A x \in 1 .. Len(s) : s[x] \in F /\ s[x] \in Tags
    BY <1>1, <1>7
  <2> QED
    BY <1>1, <1>5, <2>1
<1>15. \A u \in Tags : u \notin K => sibling'[u] = sibling[u]
  BY <1>1, <1>3, <1>5, <1>7, <1>13
<1>16. CASE h # t
  <2>1. G = F /\ t \notin F /\ child'[d] = child[d]
    BY <1>3, <1>4, <1>9, <1>16
  <2>2. \A u \in F : sibling'[u] = sibling[u]
    BY <1>1, <1>3, <1>5, <1>7, <1>16, <2>1
  <2>3. Keeps(F, B, C)
    BY <1>8, <2>1
  <2>4. Listed(sibling', child[d], F, C)
    BY <1>1, <1>6, <1>8, <2>2, <2>3, ListSame
  <2> QED
    BY <1>3, <1>15, <2>1, <2>4 DEF SiblingsCut, G, K
<1>17. CASE h = t
  <2>1. /\ s[j] = t /\ t \in F
        /\ child[d] = t <=> j = 1
        /\ Keeps(F \ {t}, B, C)
    BY <1>3, <1>4, <1>8, <1>17
  <2>2. ASSUME NEW x \in 1 .. Len(s), x # j
        PROVE  sibling'[s[x]] = IF x = j - 1 THEN IF v # Nil THEN v ELSE sibling[t]
                                ELSE sibling[s[x]]
    <3>1. s[x] # t /\ (j # 1 => (s[x] = s[j - 1] <=> x = j - 1)) /\ (j = 1 => x # j - 1)
      <4>1. s[x] # s[j]
        BY <1>3, <1>18, <2>2
      <4>2. ASSUME j # 1 PROVE s[x] = s[j - 1] <=> x = j - 1
        <5>1. j - 1 \in 1 .. Len(s)
          BY <1>3, <1>7, <4>2
        <5> QED
          BY <1>18, <5>1
      <4> QED
        BY <2>1, <4>1, <4>2
    <3> QED
      BY <1>3, <1>14, <1>17, <3>1
  <2>3. CASE v = Nil
    <3>1. child'[d] = IF j = 1 THEN sibling[s[j]] ELSE child[d]
      BY <1>9, <1>11, <2>1, <2>3
    <3>2. TakesOut(sibling, sibling', child[d], child'[d], s, j)
      BY <1>3, <2>1, <2>2, <2>3, <3>1 DEF TakesOut
    <3>3. Keeps(F \ {s[j]}, B, C)
      BY <2>1
    <3>4. Listed(sibling', child'[d], F \ {s[j]}, C)
      BY <1>1, <1>6, <1>8, <3>2, <3>3, ListCut DEF s
    <3> QED
      BY <1>3, <1>4, <1>15, <1>17, <2>1, <2>3, <3>4 DEF SiblingsCut, G, K
  <2>4. CASE v # Nil
    <3>1. child'[d] = IF j = 1 THEN v ELSE child[d]
      BY <1>9, <1>10, <2>1, <2>4
    <3>2. sibling'[v] = sibling[s[j]]
      BY <1>3, <1>5, <1>13, <2>1, <2>4
    <3>3. Swaps(sibling, sibling', child[d], child'[d], s, j, v)
      BY <1>3, <2>2, <2>4, <3>1, <3>2 DEF Swaps
    <3>4. Keeps(F \ {s[j]}, B, C) /\ InPlaceOf(F, s[j], v, B, C)
      BY <1>12, <2>1, <2>4
    <3>5. Listed(sibling', child'[d], (F \ {s[j]}) \cup {v}, C)
      BY <1>1, <1>5, <1>6, <1>8, <2>4, <3>3, <3>4, ListSwap DEF s
    <3> QED
      BY <1>3, <1>4, <1>15, <1>17, <2>1, <2>4, <3>5 DEF SiblingsCut, G, K
  <2> QED
    BY <2>3, <2>4
<1> QED
  BY <1>16, <1>17

\* The tags of the name of t without t.
NamesCut(d, t, C) ==
  /\ \E h : Listed(next', h, NamedIn(Kin(d), name, name[t]) \ {t}, C)
  /\ next' \in Links
  /\ \A u \in Tags : u \notin NamedIn(Kin(d), name, name[t]) => next'[u] = next[u]

\* ezxml_cut takes the tag out of the list of its name.
LEMMA CutNames ==
  ASSUME NEW B, NEW d \in Parents, NEW t, Stands(B, d, t), NEW C, C = Narrower(B, t),
         CutNamed(t, d)
  PROVE  NamesCut(d, t, C)
<1> DEFINE N == NamedIn(Kin(d), name, name[t])
           h == Child(d, name[t])
           q == Way(next, h)
<1>1. Asym(B) /\ next \in Links /\ name[t] \in Names /\ Family(d, B)
  BY StandsFacts
<1>2. Listed(next, h, N, B)
  BY <1>1, ChildIs
<1>3. Sorted(q, N, B)
  BY <1>2 DEF Listed
<1>4. PICK j, k : CutsNamed(d, t, Way(sibling, child[d]), j, q, k)
  BY CutNamedIs
<1>5. LinksOut(next, next', q, k, t) /\ k \in 1 .. Len(q) /\ q[k] = t
  BY <1>4 DEF CutsNamed
<1>6. Asym(C) /\ Keeps(N \ {t}, B, C)
  BY <1>1, NarrowerIs
<1> HIDE DEF N, h, q
<1>7. /\ next' \in Links
      /\ TakesOut(next, next', h, IF k = 1 THEN next[t] ELSE h, q, k)
      /\ \A u \in Tags : u \notin N => next'[u] = next[u]
  BY <1>1, <1>3, <1>5, LinkCut
<1>8. Keeps(N \ {q[k]}, B, C)
  BY <1>5, <1>6
<1>9. Listed(next', IF k = 1 THEN next[t] ELSE h, N \ {q[k]}, C)
  BY <1>1, <1>2, <1>6, <1>7, <1>8, ListCut DEF q
<1> QED
  BY <1>5, <1>7, <1>9 DEF NamesCut, N

\* The families after t was cut: that of d is without it, the others are as before.
Bereft(d, t, C) ==
  /\ FamilyOf(ordered', next', sibling', child'[d], Kin(d) \ {t}, name, C)
  /\ \E i \in 1 .. Len(Way(ordered, child[d])) :
        /\ Way(ordered, child[d])[i] = t
        /\ Way(ordered', child'[d]) = RemoveAt(Way(ordered, child[d]), i)
  /\ \A e \in Parents : e # d =>
       /\ FamilyOf(ordered', next', sibling', child'[e], Kin(e), name, C)
       /\ Way(ordered', child'[e]) = Way(ordered, child[e])
  /\ ordered' \in Links /\ next' \in Links /\ sibling' \in Links
  /\ child' \in [Parents -> Tags \cup {Nil}]
  /\ ordered'[t] = Nil
  /\ \A u \in Tags : u \notin Kin(d) => ordered'[u] = ordered[u]

\* The lists of d are without the tag, and those of the other tags stay as they are.
LEMMA CutFamily ==
  ASSUME NEW B, NEW d \in Parents, NEW t, TreeInv(B), t \in Kin(d),
         NEW C, C = Narrower(B, t),
         CutOrdered(t, d), CutNamed(t, d), ~LeavesLater(t)
  PROVE  Bereft(d, t, C)
<1> DEFINE K == Kin(d)
           N == NamedIn(K, name, name[t])
<1>1. Stands(B, d, t)
  BY DEF TreeInv, Stands
<1>2. Asym(B) /\ Family(d, B) /\ K \subseteq Tags /\ t \in Tags
  BY <1>1, StandsFacts
<1>3. Asym(C) /\ \A Q : t \notin Q => Keeps(Q, B, C)
  BY <1>2, NarrowerIs
<1>4. KidsCut(d, t, C)
  BY <1>1, CutKids
<1>5. /\ Listed(ordered', child'[d], K \ {t}, C)
      /\ \E i \in 1 .. Len(Way(ordered, child[d])) :
            /\ Way(ordered, child[d])[i] = t
            /\ Way(ordered', child'[d]) = RemoveAt(Way(ordered, child[d]), i)
      /\ ordered' \in Links /\ child' \in [Parents -> Tags \cup {Nil}]
      /\ \A e \in Parents : e # d => child'[e] = child[e]
      /\ ordered'[t] = Nil
      /\ \A u \in Tags : u \notin K => ordered'[u] = ordered[u]
  BY <1>4 DEF KidsCut
<1>6. /\ \E h : Listed(next', h, N \ {t}, C)
      /\ next' \in Links
      /\ \A u \in Tags : u \notin N => next'[u] = next[u]
  <2>1. NamesCut(d, t, C)
    BY <1>1, CutNames
  <2> QED
    BY <2>1 DEF NamesCut
<1>7. /\ Listed(sibling', child'[d], FirstsOf(K \ {t}, name, C), C)
      /\ sibling' \in Links
      /\ \A u \in Tags : u \notin K => sibling'[u] = sibling[u]
  <2>1. SiblingsCut(d, t, C)
    BY <1>1, CutSiblings
  <2> QED
    BY <2>1 DEF SiblingsCut
<1>8. \A u : u \in N <=> u \in K /\ name[u] = name[t]
  BY DEF NamedIn
<1>9. ASSUME NEW m \in Names
      PROVE  \E h : Listed(next', h, NamedIn(K \ {t}, name, m), C)
  <2>1. CASE m = name[t]
    <3>1. NamedIn(K \ {t}, name, m) = N \ {t}
      BY <2>1 DEF NamedIn
    <3> QED
      BY <1>6, <3>1
  <2>2. CASE m # name[t]
    <3>1. NamedIn(K \ {t}, name, m) = NamedIn(K, name, m)
      BY <2>2 DEF NamedIn
    <3>2. PICK h : Listed(next, h, NamedIn(K, name, m), B)
      BY <1>2 DEF Family, FamilyOf
    <3>3. \A u \in NamedIn(K, name, m) : u \in Tags /\ u \notin N /\ u # t
      BY <1>2, <1>8, <2>2 DEF NamedIn
    <3>4. \A u \in NamedIn(K, name, m) : next'[u] = next[u]
      BY <1>6, <3>3
    <3>5. Keeps(NamedIn(K, name, m), B, C)
      BY <1>3, <3>3
    <3>6. Listed(next', h, NamedIn(K, name, m), C)
      BY <1>2, <1>3, <3>2, <3>4, <3>5, ListSame
    <3> QED
      BY <3>1, <3>6
  <2> QED
    BY <2>1, <2>2
<1>10. FamilyOf(ordered', next', sibling', child'[d], K \ {t}, name, C)
  BY <1>5, <1>7, <1>9 DEF FamilyOf
<1>11. ASSUME NEW e \in Parents, e # d
       PROVE  /\ FamilyOf(ordered', next', sibling', child'[e], Kin(e), name, C)
              /\ Way(ordered', child'[e]) = Way(ordered, child[e])
  <2>1. \A u \in Kin(e) : u \in Tags /\ u # t /\ u \notin K
    BY <1>11 DEF Kin
  <2>2. \A u \in Kin(e) : /\ ordered'[u] = ordered[u] /\ next'[u] = next[u]
                          /\ sibling'[u] = sibling[u] /\ name[u] = name[u]
    BY <1>5, <1>6, <1>7, <1>8, <2>1
  <2>3. FamilyOf(ordered, next, sibling, child[e], Kin(e), name, B)
    BY DEF TreeInv, Family
  <2>4. Keeps(Kin(e), B, C)
    BY <1>3, <2>1
  <2>5. child'[e] = child[e]
    BY <1>5, <1>11
  <2>6. /\ FamilyOf(ordered', next', sibling', child[e], Kin(e), name, C)
        /\ Way(ordered', child[e]) = Way(ordered, child[e])
    BY <1>2, <1>3, <2>2, <2>3, <2>4, FamilySame
  <2> QED
    BY <2>5, <2>6
<1> QED
  BY <1>5, <1>6, <1>7, <1>10, <1>11 DEF Bereft

\* A placed tag is one of the subtags of its parent.
LEMMA PlacedKin ==
  ASSUME Within, NEW t \in Tags, Placed(t)
  PROVE  parent[t] \in Parents /\ t \in Kin(parent[t])
BY DEF Within, Kin, Parents

\* So a tag that is cut leaves the invariant true, in the order without it.
LEMMA CutInv ==
  ASSUME NEW B, NEW t \in Tags, TreeInv(B), Cut(t), ~LeavesLater(t)
  PROVE  /\ \E C : TreeInv(C)'
         /\ \E i \in 1 .. Len(Kids(parent[t])) :
              /\ Kids(parent[t])[i] = t
              /\ Way(ordered', child'[parent[t]]) = RemoveAt(Kids(parent[t]), i)
         /\ \A e \in Parents : e # parent[t] => Kids(e)' = Kids(e)
<1>1. PICK C, d : C = Narrower(B, t) /\ d = parent[t]
  OBVIOUS
<1>2. /\ Placed(t) /\ CutOrdered(t, d) /\ CutNamed(t, d)
      /\ loose' = loose \cup {t}
      /\ UNCHANGED <<name, off, parent>>
  BY <1>1 DEF Cut
<1>3. TreeTypeOK /\ OrderOK(B) /\ Within
  BY DEF TreeInv
<1>4. d \in Parents /\ t \in Kin(d)
  BY <1>1, <1>2, <1>3, PlacedKin
<1>5. Bereft(d, t, C)
  BY <1>1, <1>2, <1>4, CutFamily
<1>6. /\ FamilyOf(ordered', next', sibling', child'[d], Kin(d) \ {t}, name, C)
      /\ \E i \in 1 .. Len(Way(ordered, child[d])) :
            /\ Way(ordered, child[d])[i] = t
            /\ Way(ordered', child'[d]) = RemoveAt(Way(ordered, child[d]), i)
      /\ \A e \in Parents : e # d =>
           /\ FamilyOf(ordered', next', sibling', child'[e], Kin(e), name, C)
           /\ Way(ordered', child'[e]) = Way(ordered, child[e])
      /\ ordered' \in Links /\ next' \in Links /\ sibling' \in Links
      /\ child' \in [Parents -> Tags \cup {Nil}]
      /\ ordered'[t] = Nil
      /\ \A u \in Tags : u \notin Kin(d) => ordered'[u] = ordered[u]
  BY <1>5 DEF Bereft
<1>7. \A u \in Tags : Placed(u)' <=> u # t /\ Placed(u)
  BY <1>2 DEF Placed, Live
<1>8. \A e \in Parents : Kin(e)' = IF e = d THEN Kin(d) \ {t} ELSE Kin(e)
  BY <1>1, <1>2, <1>7 DEF Kin
<1>9. \A e \in Parents : Family(e, C)'
  BY <1>2, <1>6, <1>8 DEF Family
<1>10. TreeTypeOK'
  <2>1. loose' \subseteq {u \in Tags : Live(u)'}
    BY <1>2, <1>3 DEF TreeTypeOK, Placed, Live
  <2> QED
    BY <1>2, <1>3, <1>6, <2>1 DEF TreeTypeOK
<1>11. OrderOK(C)'
  <2>1. /\ Asym(C)
        /\ \A u, v : <<u, v>> \in C => <<u, v>> \in B /\ u # t /\ v # t
    BY <1>1, <1>3, NarrowerIs DEF OrderOK
  <2>2. \A u, v \in Tags : <<u, v>> \in C => Placed(u)' /\ Placed(v)' /\ off'[u] <= off'[v]
    BY <1>2, <1>3, <1>7, <2>1 DEF OrderOK
  <2>3. Asym(C)'
    BY <2>1 DEF Asym
  <2> QED
    BY <2>2, <2>3 DEF OrderOK
<1>12. Within'
  <2>1. ASSUME NEW u \in Tags, Placed(u)'
        PROVE  (parent[u] = Root \/ (parent[u] \in Tags /\ Live(parent[u])))'
    BY <1>2, <1>3, <1>7, <2>1 DEF Within, Live
  <2>2. \A u \in loose' : ordered'[u] = Nil
    <3> SUFFICES ASSUME NEW u \in loose', u # t PROVE ordered'[u] = Nil
      BY <1>6
    <3>1. u \in loose /\ u \in Tags /\ u \notin Kin(d)
      BY <1>2, <1>3 DEF TreeTypeOK, Kin, Placed
    <3> QED
      BY <1>3, <1>6, <3>1 DEF Within
  <2> QED
    BY <2>1, <2>2 DEF Within
<1>13. TreeInv(C)'
  BY <1>9, <1>10, <1>11, <1>12 DEF TreeInv
<1> QED
  BY <1>1, <1>6, <1>13 DEF Kids

-----------------------------------------------------------------------------
\* A tag that was cut is freed, with all that is below it.  An empty list lists
\* no tags.
LEMMA NothingListed ==
  ASSUME NEW B, Asym(B)
  PROVE  \A f : Listed(f, Nil, {}, B) /\ Way(f, Nil) = <<>>
<1> SUFFICES ASSUME NEW f PROVE Listed(f, Nil, {}, B) /\ Way(f, Nil) = <<>>
  OBVIOUS
<1>1. Chain(f, Nil, <<>>)
  BY DEF Chain, OrNil
<1>2. Sorted(<<>>, {}, B)
  BY DEF Sorted
<1> QED
  BY <1>1, <1>2, ListedBy

\* What ezxml_free reaches is itself a set that it does not leave.
LEMMA BelowLeast ==
  ASSUME TreeTypeOK, NEW t \in Tags
  PROVE  /\ t \in Below(t) /\ Below(t) \subseteq Tags /\ Closed(Below(t))
         /\ \A S \in SUBSET Tags : t \in S /\ Closed(S) => Below(t) \subseteq S
<1>1. \A u : u \in Below(t) <=>
        u \in Tags /\ \A S \in SUBSET Tags : t \in S /\ Closed(S) => u \in S
  BY DEF Below
<1>2. ASSUME NEW v \in Below(t)
      PROVE  child[v] \in Below(t) \cup {Nil} /\ ordered[v] \in Below(t) \cup {Nil}
  <2>1. v \in Tags /\ child[v] \in Tags \cup {Nil} /\ ordered[v] \in Tags \cup {Nil}
    BY <1>1 DEF TreeTypeOK, Parents, Links
  <2>2. ASSUME NEW S \in SUBSET Tags, t \in S, Closed(S)
        PROVE  child[v] \in S \cup {Nil} /\ ordered[v] \in S \cup {Nil}
    BY <1>1, <2>2 DEF Closed
  <2> QED
    BY <1>1, <2>1, <2>2
<1> QED
  BY <1>1, <1>2 DEF Closed

\* A set that ezxml_free does not leave has the subtags of its tags.
LEMMA KinInside ==
  ASSUME NEW B, NEW d \in Parents, NEW S, Asym(B), Family(d, B), Closed(S), d \in S
  PROVE  Kin(d) \subseteq S
<1> DEFINE s == Way(ordered, child[d])
           bad == {i \in 1 .. Len(s) : s[i] \notin S}
<1>1. Listed(ordered, child[d], Kin(d), B)
  BY DEF Family, FamilyOf
<1>2. /\ s \in Seq(Tags) /\ Kin(d) = {s[i] : i \in 1 .. Len(s)} /\ DOMAIN s = 1 .. Len(s)
      /\ child[d] = OrNil(s, 1) /\ \A i \in 1 .. Len(s) : ordered[s[i]] = OrNil(s, i + 1)
  BY <1>1 DEF Listed, Sorted, Chain
<1>3. \A v \in S : child[v] \in S \cup {Nil} /\ ordered[v] \in S \cup {Nil}
  BY DEF Closed
<1>4. Nil \notin Tags
  BY TreeAssumption
<1>5. \A i \in bad : i \in 1 .. Len(s) /\ s[i] \notin S
  OBVIOUS
<1>6. \A i \in 1 .. Len(s) : i \notin bad => s[i] \in S
  OBVIOUS
<1> HIDE DEF s, bad
<1>7. bad = {}
  <2> SUFFICES ASSUME bad # {} PROVE FALSE
    OBVIOUS
  <2>1. bad \subseteq Nat
    BY <1>5
  <2>2. PICK m \in bad : \A i \in bad : m <= i
    BY <2>1, LeastNatural
  <2>3. m \in 1 .. Len(s) /\ s[m] \notin S /\ s[m] \in Tags /\ s[m] # Nil
    BY <1>2, <1>4, <1>5
  <2>4. CASE m = 1
    <3>1. child[d] = s[1]
      BY <1>2, <2>3, <2>4 DEF OrNil
    <3> QED
      BY <1>3, <2>3, <2>4, <3>1
  <2>5. CASE m # 1
    <3>1. m - 1 \in 1 .. Len(s) /\ m - 1 \notin bad /\ m - 1 + 1 = m
      BY <2>1, <2>2, <2>3, <2>5
    <3>2. s[m - 1] \in S
      BY <1>6, <3>1
    <3>3. ordered[s[m - 1]] = s[m]
      BY <1>2, <2>3, <3>1 DEF OrNil
    <3> QED
      BY <1>3, <2>3, <3>2, <3>3
  <2> QED
    BY <2>4, <2>5
<1> QED
  BY <1>2, <1>6, <1>7

\* And the tags that it reaches from a loose tag are in every set that has the
\* subtags of its tags, each below another one of them.
LEMMA BelowInside ==
  ASSUME NEW B, TreeInv(B), NEW t \in loose, NEW S \in SUBSET Tags, t \in S,
         \A u \in S : Kin(u) \subseteq S
  PROVE  \A u \in Below(t) : u \in S /\ (u # t => Placed(u) /\ parent[u] \in S)
<1> DEFINE U == {u \in S : u # t => Placed(u) /\ parent[u] \in S}
<1>1. TreeTypeOK /\ Within /\ Asym(B) /\ t \in Tags /\ Nil \notin Tags
  BY TreeAssumption DEF TreeInv, OrderOK, TreeTypeOK
<1>2. t \in U /\ U \in SUBSET Tags
  OBVIOUS
<1>3. \A d \in Parents : Listed(ordered, child[d], Kin(d), B)
  BY DEF TreeInv, Family, FamilyOf
<1>4. \A u \in S : \A w \in Kin(u) : w \in U
  BY DEF Kin
<1>5. \A v \in U : v \in S /\ v \in Tags /\ v \in Parents
                   /\ (v # t => Placed(v) /\ parent[v] \in S)
  BY DEF Parents
<1> HIDE DEF U
<1>6. ASSUME NEW v \in U
      PROVE  child[v] \in U \cup {Nil}
  <2>1. child[v] # Nil => child[v] \in Kin(v)
    BY <1>1, <1>3, <1>5, ListOrder
  <2> QED
    BY <1>4, <1>5, <2>1
<1>7. ASSUME NEW v \in U
      PROVE  ordered[v] \in U \cup {Nil}
  <2>1. CASE v = t
    BY <1>1, <2>1 DEF Within
  <2>2. CASE v # t
    <3>1. Placed(v) /\ parent[v] \in S /\ parent[v] \in Parents /\ v \in Kin(parent[v])
      BY <1>1, <1>5, <2>2, PlacedKin
    <3>2. Listed(ordered, child[parent[v]], Kin(parent[v]), B)
      BY <1>3, <3>1
    <3>3. ordered[v] # Nil => ordered[v] \in Kin(parent[v])
      <4>1. PICK Q, e : Q = Kin(parent[v]) /\ e = child[parent[v]]
        OBVIOUS
      <4>2. Listed(ordered, e, Q, B) /\ v \in Q
        BY <3>1, <3>2, <4>1
      <4>3. ordered[v] # Nil => ordered[v] \in Q
        BY <1>1, <4>2, ListNext
      <4> QED
        BY <4>1, <4>3
    <3> QED
      BY <1>4, <3>1, <3>3
  <2> QED
    BY <2>1, <2>2
<1>8. Closed(U)
  BY <1>6, <1>7 DEF Closed
<1>9. Below(t) \subseteq U
  BY <1>1, <1>2, <1>8, BelowLeast
<1> QED
  BY <1>5, <1>9

\* The order of the tags that stay.
Spared(B, gone) == {p \in B : p[1] \notin gone /\ p[2] \notin gone}

\* So tags that are freed leave the invariant true: all their lists are empty.
LEMMA FreeInv ==
  ASSUME NEW B, NEW t \in Tags, TreeInv(B), Free(t)
  PROVE  /\ \E C : TreeInv(C)'
         /\ \A d \in Parents : /\ d \in Below(t) => Kids(d)' = <<>>
                               /\ d \notin Below(t) => Kids(d)' = Kids(d)
<1>1. PICK C, gone : gone = Below(t) /\ C = Spared(B, gone)
  OBVIOUS
<1>2. /\ t \in loose /\ loose' = loose \ gone
      /\ name' = [u \in Tags |-> IF u \in gone THEN Nil ELSE name[u]]
      /\ parent' = [u \in Tags |-> IF u \in gone THEN Nil ELSE parent[u]]
      /\ ordered' = [u \in Tags |-> IF u \in gone THEN Nil ELSE ordered[u]]
      /\ next' = [u \in Tags |-> IF u \in gone THEN Nil ELSE next[u]]
      /\ sibling' = [u \in Tags |-> IF u \in gone THEN Nil ELSE sibling[u]]
      /\ off' = [u \in Tags |-> IF u \in gone THEN 0 ELSE off[u]]
      /\ child' = [u \in Parents |-> IF u \in gone THEN Nil ELSE child[u]]
  BY <1>1 DEF Free
<1>3. /\ TreeTypeOK /\ OrderOK(B) /\ Within /\ \A d \in Parents : Family(d, B)
      /\ Asym(B) /\ Nil \notin Tags \cup Names /\ MaxOff \in Nat /\ Root \notin Tags
  BY TreeAssumption DEF TreeInv, OrderOK
<1>4. gone \subseteq Tags /\ t \in gone /\ Closed(gone)
  BY <1>1, <1>3, BelowLeast
<1>5. \A d \in gone : d \in Parents /\ Kin(d) \subseteq gone
  <2>1. \A d \in gone : d \in Parents
    BY <1>4 DEF Parents
  <2> QED
    BY <1>3, <1>4, <2>1, KinInside
<1>6. \A u \in gone : u # t => Placed(u) /\ parent[u] \in gone
  BY <1>1, <1>2, <1>4, <1>5, BelowInside
<1>7. \A d \in Parents : d \notin gone => Kin(d) \cap gone = {}
  <2> SUFFICES ASSUME NEW d \in Parents, d \notin gone, NEW u \in Kin(d) \cap gone PROVE FALSE
    OBVIOUS
  <2>1. Placed(u) /\ parent[u] = d
    BY DEF Kin
  <2> QED
    BY <1>2, <1>6, <2>1 DEF Placed
<1>8. \A u \in Tags :
        /\ name'[u] = IF u \in gone THEN Nil ELSE name[u]
        /\ parent'[u] = IF u \in gone THEN Nil ELSE parent[u]
        /\ ordered'[u] = IF u \in gone THEN Nil ELSE ordered[u]
        /\ next'[u] = IF u \in gone THEN Nil ELSE next[u]
        /\ sibling'[u] = IF u \in gone THEN Nil ELSE sibling[u]
        /\ off'[u] = IF u \in gone THEN 0 ELSE off[u]
  BY <1>2
<1>9. \A u \in Tags : Placed(u)' <=> u \notin gone /\ Placed(u)
  BY <1>2, <1>8 DEF Placed, Live
<1>10. \A d \in Parents : /\ d \in gone => Kin(d)' = {} /\ child'[d] = Nil
                          /\ d \notin gone => Kin(d)' = Kin(d) /\ child'[d] = child[d]
  <2>1. \A d \in Parents : Kin(d)' = Kin(d) \ gone
    BY <1>8, <1>9 DEF Kin
  <2>2. \A d \in Parents : child'[d] = IF d \in gone THEN Nil ELSE child[d]
    BY <1>2
  <2> QED
    BY <1>5, <1>7, <2>1, <2>2
<1>11. /\ \A u, v : <<u, v>> \in C <=> <<u, v>> \in B /\ u \notin gone /\ v \notin gone
       /\ Asym(C)
       /\ \A Q : Q \cap gone = {} => Keeps(Q, B, C)
  <2>1. \A u, v : <<u, v>> \in C <=> <<u, v>> \in B /\ u \notin gone /\ v \notin gone
    BY <1>1 DEF Spared
  <2> QED
    BY <1>3, <2>1 DEF Asym, Keeps
<1>12. ASSUME NEW d \in Parents
       PROVE  /\ Family(d, C)'
              /\ d \in gone => Way(ordered', child'[d]) = <<>>
              /\ d \notin gone => Way(ordered', child'[d]) = Way(ordered, child[d])
  <2>1. CASE d \in gone
    <3>1. \A f : Listed(f, Nil, {}, C) /\ Way(f, Nil) = <<>>
      BY <1>11, NothingListed
    <3>2. FirstsOf({}, name', C) = {} /\ \A n \in Names : NamedIn({}, name', n) = {}
      BY DEF FirstsOf, NamedIn
    <3>3. FamilyOf(ordered', next', sibling', Nil, {}, name', C)
      BY <3>1, <3>2 DEF FamilyOf
    <3>4. Kin(d)' = {} /\ child'[d] = Nil
      BY <1>10, <2>1
    <3> QED
      BY <2>1, <3>1, <3>3, <3>4 DEF Family
  <2>2. CASE d \notin gone
    <3>1. Kin(d)' = Kin(d) /\ child'[d] = child[d] /\ Kin(d) \cap gone = {} /\ Kin(d) \subseteq Tags
      BY <1>7, <1>10, <2>2 DEF Kin
    <3>2. \A u \in Kin(d) : /\ ordered'[u] = ordered[u] /\ next'[u] = next[u]
                            /\ sibling'[u] = sibling[u] /\ name'[u] = name[u]
      BY <1>8, <3>1
    <3>3. FamilyOf(ordered, next, sibling, child[d], Kin(d), name, B)
      BY <1>3 DEF Family
    <3>4. Keeps(Kin(d), B, C)
      BY <1>11, <3>1
    <3>5. /\ FamilyOf(ordered', next', sibling', child[d], Kin(d), name', C)
          /\ Way(ordered', child[d]) = Way(ordered, child[d])
      BY <1>3, <1>11, <3>2, <3>3, <3>4, FamilySame
    <3> QED
      BY <2>2, <3>1, <3>5 DEF Family
  <2> QED
    BY <2>1, <2>2
<1>13. TreeTypeOK'
  <2>1. /\ name' \in [Tags -> Names \cup {Nil}]
        /\ off' \in [Tags -> 0 .. MaxOff]
        /\ parent' \in [Tags -> Parents \cup {Nil}]
        /\ child' \in [Parents -> Tags \cup {Nil}]
        /\ ordered' \in Links /\ next' \in Links /\ sibling' \in Links
    BY <1>2, <1>3 DEF TreeTypeOK, Links
  <2>2. loose' \subseteq {u \in Tags : Live(u)'}
    BY <1>2, <1>3, <1>8 DEF TreeTypeOK, Live
  <2> QED
    BY <2>1, <2>2 DEF TreeTypeOK
<1>14. OrderOK(C)'
  <2>1. \A u, v \in Tags : <<u, v>> \in C => Placed(u)' /\ Placed(v)' /\ off'[u] <= off'[v]
    BY <1>3, <1>8, <1>9, <1>11 DEF OrderOK
  <2>2. Asym(C)'
    BY <1>11 DEF Asym
  <2> QED
    BY <2>1, <2>2 DEF OrderOK
<1>15. Within'
  <2>1. ASSUME NEW u \in Tags, Placed(u)'
        PROVE  (parent[u] = Root \/ (parent[u] \in Tags /\ Live(parent[u])))'
    <3>1. u \notin gone /\ Placed(u) /\ parent'[u] = parent[u]
      BY <1>8, <1>9, <2>1
    <3>2. parent[u] \in Parents /\ u \in Kin(parent[u])
      BY <1>3, <3>1, PlacedKin
    <3>3. parent[u] \notin gone
      BY <1>5, <3>1, <3>2
    <3> QED
      BY <1>3, <1>8, <3>1, <3>3 DEF Within, Live
  <2>2. \A u \in loose' : ordered'[u] = Nil
    BY <1>2, <1>3, <1>8 DEF Within, TreeTypeOK
  <2> QED
    BY <2>1, <2>2 DEF Within
<1>16. TreeInv(C)'
  BY <1>12, <1>13, <1>14, <1>15 DEF TreeInv
<1> QED
  BY <1>1, <1>12, <1>16 DEF Kids

-----------------------------------------------------------------------------
\* The invariant holds from the start on.
LEMMA TreeInitInv ==
  ASSUME TreeInit
  PROVE  TreeInv({}) /\ \A d \in Parents : Kids(d) = <<>>
<1>1. Asym({}) /\ MaxOff \in Nat
  BY TreeAssumption DEF Asym
<1>2. \A f : Listed(f, Nil, {}, {}) /\ Way(f, Nil) = <<>>
  BY <1>1, NothingListed
<1>3. \A t \in Tags : name[t] = Nil /\ ~Placed(t)
  BY DEF TreeInit, Placed, Live
<1>4. \A d \in Parents : Kin(d) = {} /\ child[d] = Nil
  BY <1>3 DEF Kin, TreeInit
<1>5. FirstsOf({}, name, {}) = {} /\ \A n \in Names : NamedIn({}, name, n) = {}
  BY DEF FirstsOf, NamedIn
<1>6. FamilyOf(ordered, next, sibling, Nil, {}, name, {})
  BY <1>2, <1>5 DEF FamilyOf
<1>7. \A d \in Parents : Family(d, {})
  BY <1>4, <1>6 DEF Family
<1>8. TreeTypeOK
  BY <1>1 DEF TreeInit, TreeTypeOK, Links
<1>9. OrderOK({}) /\ Within
  BY <1>1, <1>3 DEF OrderOK, Within, TreeInit
<1> QED
  BY <1>2, <1>4, <1>7, <1>8, <1>9 DEF TreeInv, Kids

\* Both ways to put a tag in.
LEMMA AddPuts ==
  ASSUME TreeTypeOK, Careful, NEW t \in Tags, NEW n \in Names, NEW d, NEW o, AddChild(t, n, d, o)
  PROVE  PutsTag(t, n, d, o)
<1>1. t \notin loose
  BY DEF AddChild, TreeTypeOK, Live
<1>2. loose' = loose \ {t}
  BY <1>1 DEF AddChild
<1> QED
  BY <1>2 DEF AddChild, Put, PutsTag, Placed

\* A tag that was cut and is put back has its name still.
LEMMA InsertPuts ==
  ASSUME TreeTypeOK, Careful, NEW t \in Tags, NEW d, NEW o, Insert(t, d, o)
  PROVE  name[t] \in Names /\ PutsTag(t, name[t], d, o)
<1>1. name[t] \in Names /\ ~Placed(t)
  BY DEF Insert, TreeTypeOK, Live, Placed
<1>2. name' = [name EXCEPT ![t] = name[t]]
  BY DEF Insert, TreeTypeOK
<1> QED
  BY <1>1, <1>2 DEF Insert, Put, PutsTag

\* The invariant holds after every step.
LEMMA TreeStep ==
  ASSUME NEW B, TreeInv(B), Careful, [TreeNext]_treeVars
  PROVE  \E C : TreeInv(C)'
<1>1. TreeTypeOK
  BY DEF TreeInv
<1>2. ASSUME NEW t \in Tags, NEW n \in Names, NEW d \in Hosts, NEW o \in 0 .. MaxOff,
             AddChild(t, n, d, o)
      PROVE  \E C : TreeInv(C)'
  <2>1. PutsTag(t, n, d, o) /\ d \in Parents
    BY <1>1, <1>2, AddPuts, TreeAssumption
  <2> QED
    BY <2>1, PutInv
<1>3. ASSUME NEW t \in Tags, NEW d \in Hosts, NEW o \in 0 .. MaxOff, Insert(t, d, o)
      PROVE  \E C : TreeInv(C)'
  <2>1. name[t] \in Names /\ PutsTag(t, name[t], d, o) /\ d \in Parents
    BY <1>1, <1>3, InsertPuts, TreeAssumption
  <2>2. PICK n \in Names : n = name[t]
    BY <2>1
  <2>3. PutsTag(t, n, d, o)
    BY <2>1, <2>2
  <2> QED
    BY <2>1, <2>3, PutInv
<1>4. ASSUME NEW t \in Tags, Cut(t)
      PROVE  \E C : TreeInv(C)'
  <2>1. ~LeavesLater(t)
    BY <1>4 DEF Cut
  <2> QED
    BY <1>4, <2>1, CutInv
<1>5. ASSUME NEW t \in Tags, Free(t)
      PROVE  \E C : TreeInv(C)'
  BY <1>5, FreeInv
<1>6. CASE UNCHANGED treeVars
  <2>1. TreeInv(B)'
    BY <1>6 DEF treeVars, lists, TreeInv, TreeTypeOK, OrderOK, Within, Placed, Live,
                Family, FamilyOf, Kin
  <2> QED
    BY <2>1
<1> QED
  BY <1>2, <1>3, <1>4, <1>5, <1>6 DEF TreeNext

-----------------------------------------------------------------------------
\* As many places in I as there are numbers up to m, if both name the same tags
\* and each tag once.
SameTags(s, I, q, m) ==
  /\ \A h, k \in I : s[h] = s[k] => h = k
  /\ \A x, y \in 1 .. m : q[x] = q[y] => x = y
  /\ \A h \in I : \E x \in 1 .. m : s[h] = q[x]
  /\ \A x \in 1 .. m : \E h \in I : s[h] = q[x]

\* The places are counted off one by one.
LEMMA CountSame ==
  ASSUME NEW s, NEW q, NEW I, NEW m \in Nat, SameTags(s, I, q, m)
  PROVE  Cardinality(I) = m
<1>0. /\ \A h, k \in I : s[h] = s[k] => h = k
      /\ \A x, y \in 1 .. m : q[x] = q[y] => x = y
      /\ \A h \in I : \E x \in 1 .. m : s[h] = q[x]
      /\ \A x \in 1 .. m : \E h \in I : s[h] = q[x]
  BY DEF SameTags
<1> DEFINE f == [x \in 1 .. m |-> CHOOSE h \in I : s[h] = q[x]]
<1>1. \A x \in 1 .. m : f[x] \in I /\ s[f[x]] = q[x]
  BY <1>0
<1>2. f \in [1 .. m -> I]
  BY <1>1
<1> HIDE DEF f
<1>3. \A x, y \in 1 .. m : f[x] = f[y] => x = y
  BY <1>0, <1>1
<1>4. \A h \in I : \E x \in 1 .. m : f[x] = h
  <2> TAKE h \in I
  <2>1. PICK x \in 1 .. m : s[h] = q[x]
    BY <1>0
  <2> QED
    BY <1>0, <1>1, <2>1
<1>5. f \in Bijection(1 .. m, I)
  BY <1>2, <1>3, <1>4 DEF Bijection, Injection, Surjection, IsInjective
<1>6. IsFiniteSet(1 .. m) /\ Cardinality(1 .. m) = m
  <2>1. IsFiniteSet(1 .. m) /\ Cardinality(1 .. m) = IF 1 > m THEN 0 ELSE m - 1 + 1
    BY FS_Interval
  <2> QED
    BY <2>1
<1>7. ExistsBijection(1 .. m, I)
  BY <1>5 DEF ExistsBijection
<1> QED
  BY <1>6, <1>7, FS_Bijection

\* The places of a name in the document and in its own list.
LEMMA ChildOf ==
  ASSUME NEW B, NEW d \in Parents, NEW n \in Names, Asym(B), Family(d, B)
  PROVE  /\ \A i \in DOMAIN Kids(d) : name[Kids(d)[i]] = n =>
              Idx(Child(d, n), Cardinality(SameName(d, n, i - 1))) = Kids(d)[i]
         /\ Idx(Child(d, n), Cardinality(SameName(d, n, Len(Kids(d))))) = Nil
<1> DEFINE K == Kin(d)
           N == NamedIn(K, name, n)
           s == Kids(d)
           q == Way(next, Child(d, n))
<1>1. Sorted(s, K, B)
  BY DEF Family, FamilyOf, Listed, Kids
<1>2. Sorted(q, N, B)
  BY ChildIs DEF Listed
<1>3. /\ s \in Seq(Tags) /\ K = {s[h] : h \in 1 .. Len(s)} /\ DOMAIN s = 1 .. Len(s)
      /\ q \in Seq(Tags) /\ N = {q[x] : x \in 1 .. Len(q)} /\ DOMAIN q = 1 .. Len(q)
      /\ \A h, k \in 1 .. Len(s) : h < k => <<s[h], s[k]>> \in B
      /\ \A x, y \in 1 .. Len(q) : x < y => <<q[x], q[y]>> \in B
  BY <1>1, <1>2 DEF Sorted
<1>4. \A h, k \in 1 .. Len(s) : /\ s[h] = s[k] => h = k
                                /\ <<s[h], s[k]>> \in B => h < k
  BY <1>1, SortedOnce
<1>5. \A x, y \in 1 .. Len(q) : /\ q[x] = q[y] => x = y
                                /\ <<q[x], q[y]>> \in B => x < y
  BY <1>2, SortedOnce
<1>6. \A u : u \in N <=> u \in K /\ name[u] = n
  BY DEF NamedIn
<1>7. \A m \in Nat : Idx(Child(d, n), m) = OrNil(q, m + 1)
  BY DEF Idx
<1>8. \A i : SameName(d, n, i) = {h \in 1 .. i : name[s[h]] = n}
  BY DEF SameName
<1> HIDE DEF K, N, s, q
<1>9. \A x \in 1 .. Len(q) : \E h \in 1 .. Len(s) : s[h] = q[x] /\ name[s[h]] = n
  <2> TAKE x \in 1 .. Len(q)
  <2>1. q[x] \in N
    BY <1>3
  <2>2. q[x] \in K /\ name[q[x]] = n
    BY <1>6, <2>1
  <2> QED
    BY <1>3, <2>2
<1>10. \A h \in 1 .. Len(s) : name[s[h]] = n => \E x \in 1 .. Len(q) : s[h] = q[x]
  BY <1>3, <1>6
<1>11. ASSUME NEW i \in 1 .. Len(s), name[s[i]] = n
       PROVE  Idx(Child(d, n), Cardinality(SameName(d, n, i - 1))) = s[i]
  <2>1. PICK p \in 1 .. Len(q) : s[i] = q[p]
    BY <1>10, <1>11
  <2>2. PICK I, m : I = SameName(d, n, i - 1) /\ m = p - 1
    OBVIOUS
  <2>3. m \in Nat /\ \A x \in 1 .. m : x \in 1 .. Len(q) /\ x < p
    BY <1>3, <2>2
  <2>4. \A h : h \in I <=> h \in 1 .. Len(s) /\ h < i /\ name[s[h]] = n
    BY <1>3, <1>8, <2>2
  <2>5. \A x \in 1 .. Len(q) : x < p => x \in 1 .. m
    BY <2>2
  <2>6. ASSUME NEW h \in I PROVE \E x \in 1 .. m : s[h] = q[x]
    <3>1. h \in 1 .. Len(s) /\ h < i /\ name[s[h]] = n
      BY <2>4
    <3>2. PICK x \in 1 .. Len(q) : s[h] = q[x]
      BY <1>10, <3>1
    <3>3. <<s[h], s[i]>> \in B
      BY <1>3, <3>1
    <3>4. x < p
      BY <1>5, <2>1, <3>2, <3>3
    <3> QED
      BY <2>5, <3>2, <3>4
  <2>7. ASSUME NEW x \in 1 .. m PROVE \E h \in I : s[h] = q[x]
    <3>1. x \in 1 .. Len(q) /\ x < p
      BY <2>3
    <3>2. PICK h \in 1 .. Len(s) : s[h] = q[x] /\ name[s[h]] = n
      BY <1>9, <3>1
    <3>3. <<q[x], q[p]>> \in B
      BY <1>3, <3>1
    <3>4. h < i
      BY <1>4, <2>1, <3>2, <3>3
    <3> QED
      BY <2>4, <3>2, <3>4
  <2>8. \A h, k \in I : s[h] = s[k] => h = k
    BY <1>4, <2>4
  <2>9. \A x, y \in 1 .. m : q[x] = q[y] => x = y
    BY <1>5, <2>3
  <2>10. Cardinality(I) = m
    <3>1. SameTags(s, I, q, m)
      BY <2>6, <2>7, <2>8, <2>9 DEF SameTags
    <3> QED
      BY <2>3, <3>1, CountSame
  <2>11. Idx(Child(d, n), m) = OrNil(q, m + 1) /\ m + 1 = p
    BY <1>7, <2>2, <2>3
  <2>12. OrNil(q, p) = s[i]
    BY <1>3, <2>1 DEF OrNil
  <2> QED
    BY <2>2, <2>10, <2>11, <2>12
<1>12. Idx(Child(d, n), Cardinality(SameName(d, n, Len(s)))) = Nil
  <2>1. PICK I : I = SameName(d, n, Len(s))
    OBVIOUS
  <2>2. \A h : h \in I <=> h \in 1 .. Len(s) /\ name[s[h]] = n
    BY <1>8, <2>1
  <2>3. Len(q) \in Nat
    BY <1>3
  <2>4. \A h \in I : \E x \in 1 .. Len(q) : s[h] = q[x]
    BY <1>10, <2>2
  <2>5. \A x \in 1 .. Len(q) : \E h \in I : s[h] = q[x]
    BY <1>9, <2>2
  <2>6. \A h, k \in I : s[h] = s[k] => h = k
    BY <1>4, <2>2
  <2>7. \A x, y \in 1 .. Len(q) : q[x] = q[y] => x = y
    BY <1>5
  <2>8. Cardinality(I) = Len(q)
    <3>1. SameTags(s, I, q, Len(q))
      BY <2>4, <2>5, <2>6, <2>7 DEF SameTags
    <3> QED
      BY <2>3, <3>1, CountSame
  <2>9. Idx(Child(d, n), Len(q)) = OrNil(q, Len(q) + 1) /\ Len(q) + 1 \notin 1 .. Len(q)
    BY <1>7, <2>3
  <2>10. OrNil(q, Len(q) + 1) = Nil
    BY <1>3, <2>9 DEF OrNil
  <2> QED
    BY <2>1, <2>8, <2>9, <2>10
<1> QED
  BY <1>3, <1>11, <1>12 DEF s

\* The sibling list ends, and no two of its tags have the same name.
LEMMA SiblingsOf ==
  ASSUME NEW B, NEW d \in Parents, Asym(B), Family(d, B)
  PROVE  LET way == Way(sibling, child[d]) IN
         /\ Ends(sibling, child[d])
         /\ \A i, j \in DOMAIN way : i # j => name[way[i]] # name[way[j]]
<1> DEFINE s == Way(sibling, child[d])
           F == FirstsOf(Kin(d), name, B)
<1>1. Sorted(s, F, B)
  BY DEF Family, FamilyOf, Listed
<1>2. Len(s) <= Cardinality(Tags)
  BY <1>1, SortedFits
<1>3. \A i, j \in 1 .. Len(s) : s[i] \in Tags /\ (s[i] = s[j] => i = j)
  BY <1>1, SortedOnce
<1>4. DOMAIN s = 1 .. Len(s) /\ \A i \in 1 .. Len(s) : s[i] \in F
  BY <1>1 DEF Sorted
<1>5. \A u, w \in F : name[u] = name[w] /\ u # w => <<u, w>> \in B
  BY DEF FirstsOf
<1>6. Ends(sibling, child[d])
  BY <1>2 DEF Ends
<1> HIDE DEF s, F
<1>7. ASSUME NEW i \in DOMAIN s, NEW j \in DOMAIN s, i # j, name[s[i]] = name[s[j]]
      PROVE  FALSE
  <2>1. s[i] # s[j] /\ s[i] \in Tags /\ s[j] \in Tags
    BY <1>3, <1>4, <1>7
  <2>2. <<s[i], s[j]>> \in B /\ <<s[j], s[i]>> \in B
    BY <1>4, <1>5, <1>7, <2>1
  <2> QED
    BY <2>1, <2>2 DEF Asym
<1> QED
  BY <1>6, <1>7 DEF s

\* In whatever order tags are put in, cut, put back and freed by callers that
\* avoid the two cases, the lists lead ezxml_child and ezxml_idx to every tag.
THEOREM TreeFound ==
  ASSUME Careful
  PROVE  TreeSpec => []TagsFound
<1> DEFINE Inv == \E B : TreeInv(B)
<1>1. TreeInit => Inv
  BY TreeInitInv
<1>2. Inv /\ [TreeNext]_treeVars => Inv'
  BY TreeStep
<1>3. Inv => TagsFound
  <2> SUFFICES ASSUME NEW B, TreeInv(B) PROVE TagsFound
    OBVIOUS
  <2>1. TreeTypeOK /\ Asym(B) /\ \A d \in Parents : Family(d, B)
    BY DEF TreeInv, OrderOK
  <2>2. ChildFinds
    BY <2>1, ChildOf DEF ChildFinds
  <2>3. SiblingDiffers
    BY <2>1, SiblingsOf DEF SiblingDiffers
  <2> QED
    BY <2>1, <2>2, <2>3 DEF TagsFound
<1> QED
  BY <1>1, <1>2, <1>3, PTL DEF TreeSpec

-----------------------------------------------------------------------------
\* The document that the lists stand for.
LEMMA KidsAre ==
  ASSUME NEW B, TreeInv(B), NEW d \in Parents
  PROVE  /\ Kids(d) \in Seq(Tags) /\ DOMAIN Kids(d) = 1 .. Len(Kids(d)) /\ Len(Kids(d)) \in Nat
         /\ Kin(d) = {Kids(d)[i] : i \in 1 .. Len(Kids(d))}
         /\ \A i, j \in 1 .. Len(Kids(d)) : i < j => off[Kids(d)[i]] <= off[Kids(d)[j]]
         /\ \A i \in 1 .. Len(Kids(d)) : Kids(d)[i] \in Tags /\ off[Kids(d)[i]] \in Nat
         /\ off \in [Tags -> Nat]
<1> DEFINE s == Kids(d)
<1>1. Sorted(s, Kin(d), B) /\ OrderOK(B)
  BY DEF TreeInv, Family, FamilyOf, Listed, Kids
<1>2. off \in [Tags -> Nat]
  BY TreeAssumption DEF TreeInv, TreeTypeOK
<1> HIDE DEF s
<1>3. /\ s \in Seq(Tags) /\ DOMAIN s = 1 .. Len(s) /\ Len(s) \in Nat
      /\ Kin(d) = {s[i] : i \in 1 .. Len(s)}
      /\ \A i, j \in 1 .. Len(s) : i < j => <<s[i], s[j]>> \in B
  BY <1>1 DEF Sorted
<1>4. \A i \in 1 .. Len(s) : s[i] \in Tags /\ off[s[i]] \in Nat
  BY <1>2, <1>3
<1>5. \A i, j \in 1 .. Len(s) : i < j => off[s[i]] <= off[s[j]]
  BY <1>1, <1>3, <1>4 DEF OrderOK
<1> QED
  BY <1>2, <1>3, <1>4, <1>5 DEF s

\* A tag is among the subtags of some tag if it is live and not cut.
LEMMA DocPlaced ==
  ASSUME NEW B, TreeInv(B), NEW t \in Tags
  PROVE  Doc!Placed(t) <=> Placed(t)
<1>1. Doc!Placed(t) <=> \E d \in Parents : \E i \in 1 .. Len(Kids(d)) : Kids(d)[i] = t
  BY DEF Doc!Placed, Doc!Contains, Parents, Doc!Parents
<1>2. ASSUME NEW d \in Parents, NEW i \in 1 .. Len(Kids(d)), Kids(d)[i] = t
      PROVE  Placed(t)
  <2>1. t \in Kin(d)
    BY <1>2, KidsAre
  <2> QED
    BY <2>1 DEF Kin
<1>3. ASSUME Placed(t)
      PROVE  \E d \in Parents : \E i \in 1 .. Len(Kids(d)) : Kids(d)[i] = t
  <2>1. Within
    BY DEF TreeInv
  <2>2. PICK d \in Parents : t \in Kin(d)
    BY <1>3, <2>1, PlacedKin
  <2>3. Kin(d) = {Kids(d)[i] : i \in 1 .. Len(Kids(d))}
    BY KidsAre
  <2> QED
    BY <2>2, <2>3
<1> QED
  BY <1>1, <1>2, <1>3

\* What is below a loose tag in the document is what ezxml_free reaches.
LEMMA DocBelow ==
  ASSUME NEW B, TreeInv(B), NEW t \in loose
  PROVE  Doc!Below(t) = Below(t)
<1>1. \A u \in Tags : [d \in Parents |-> Kids(d)][u] = Kids(u)
  BY DEF Parents
<1>2. \A S \in SUBSET Tags : Doc!Closed(S) <=> \A u \in S : Kin(u) \subseteq S
  <2> SUFFICES ASSUME NEW S \in SUBSET Tags
               PROVE  Doc!Closed(S) <=> \A u \in S : Kin(u) \subseteq S
    OBVIOUS
  <2>1. Doc!Closed(S) <=> \A u \in S : Doc!ToSet([d \in Parents |-> Kids(d)][u]) \subseteq S
    BY DEF Doc!Closed, Parents, Doc!Parents
  <2>2. ASSUME NEW u \in S PROVE Doc!ToSet([d \in Parents |-> Kids(d)][u]) = Kin(u)
    <3>1. u \in Parents /\ [d \in Parents |-> Kids(d)][u] = Kids(u)
      BY <1>1 DEF Parents
    <3>2. Doc!ToSet(Kids(u)) = {Kids(u)[i] : i \in DOMAIN Kids(u)}
      BY DEF Doc!ToSet
    <3>3. Kin(u) = {Kids(u)[i] : i \in 1 .. Len(Kids(u))} /\ DOMAIN Kids(u) = 1 .. Len(Kids(u))
      BY <3>1, KidsAre
    <3> QED
      BY <3>1, <3>2, <3>3
  <2> QED
    BY <2>1, <2>2
<1>3. TreeTypeOK /\ t \in Tags
  BY DEF TreeInv, TreeTypeOK
<1>4. \A u : u \in Doc!Below(t) <=>
        u \in Tags /\ \A S \in SUBSET Tags : t \in S /\ Doc!Closed(S) => u \in S
  BY DEF Doc!Below
<1>5. ASSUME NEW u \in Below(t) PROVE u \in Doc!Below(t)
  <2>1. ASSUME NEW S \in SUBSET Tags, t \in S, Doc!Closed(S) PROVE u \in S
    <3>1. \A w \in S : Kin(w) \subseteq S
      BY <1>2, <2>1
    <3> QED
      BY <1>5, <2>1, <3>1, BelowInside
  <2>2. u \in Tags
    BY <1>3, <1>5, BelowLeast
  <2> QED
    BY <1>4, <2>1, <2>2
<1>6. ASSUME NEW u \in Doc!Below(t) PROVE u \in Below(t)
  <2>1. t \in Below(t) /\ Below(t) \in SUBSET Tags /\ Closed(Below(t))
    BY <1>3, BelowLeast
  <2>2. \A w \in Below(t) : Kin(w) \subseteq Below(t)
    <3> SUFFICES ASSUME NEW w \in Below(t) PROVE Kin(w) \subseteq Below(t)
      OBVIOUS
    <3>1. w \in Parents /\ Family(w, B) /\ Asym(B)
      BY <2>1 DEF TreeInv, OrderOK, Parents
    <3> QED
      BY <2>1, <3>1, KinInside
  <2>3. Doc!Closed(Below(t))
    BY <1>2, <2>1, <2>2
  <2> QED
    BY <1>4, <1>6, <2>1, <2>3
<1> QED
  BY <1>5, <1>6

\* The tags at an offset and before it are as many as come before the place.
LEMMA PlaceAt ==
  ASSUME NEW B, TreeInv(B), NEW d \in Parents, NEW o \in Nat
  PROVE  Cardinality({i \in DOMAIN Kids(d) : off[Kids(d)[i]] <= o}) + 1 = PastOff(Kids(d), o)
<1> DEFINE s == Kids(d)
           k == PastOff(s, o)
<1>1. /\ s \in Seq(Tags) /\ DOMAIN s = 1 .. Len(s) /\ Len(s) \in Nat
      /\ \A i, j \in 1 .. Len(s) : i < j => off[s[i]] <= off[s[j]]
      /\ \A i \in 1 .. Len(s) : s[i] \in Tags /\ off[s[i]] \in Nat
      /\ off \in [Tags -> Nat]
  BY KidsAre
<1>2. /\ k \in 1 .. Len(s) + 1
      /\ \A j \in 1 .. Len(s) : j < k => off[s[j]] <= o
      /\ k \in 1 .. Len(s) => off[s[k]] > o
  BY <1>1, PastOffIs
<1> HIDE DEF s, k
<1>3. ASSUME NEW i \in 1 .. Len(s) PROVE off[s[i]] <= o <=> i < k
  <2>1. CASE i < k
    BY <1>2, <2>1
  <2>2. CASE ~(i < k)
    <3>1. k \in 1 .. Len(s) /\ (k < i \/ k = i)
      BY <1>1, <1>2, <2>2
    <3>2. off[s[k]] > o /\ off[s[k]] \in Nat /\ off[s[i]] \in Nat
      BY <1>1, <1>2, <3>1
    <3>3. off[s[k]] <= off[s[i]]
      BY <1>1, <3>1, <3>2
    <3>4. ~(off[s[i]] <= o)
      BY <3>2, <3>3
    <3> QED
      BY <2>2, <3>4
  <2> QED
    BY <2>1, <2>2
<1>4. {i \in DOMAIN s : off[s[i]] <= o} = 1 .. k - 1
  BY <1>1, <1>2, <1>3
<1>5. Cardinality(1 .. k - 1) = k - 1
  <2>1. k - 1 \in Int /\ 1 \in Int
    BY <1>1, <1>2
  <2>2. Cardinality(1 .. k - 1) = IF 1 > k - 1 THEN 0 ELSE k - 1 - 1 + 1
    BY <2>1, FS_Interval
  <2> QED
    BY <1>1, <1>2, <2>2
<1>6. k - 1 + 1 = k
  BY <1>1, <1>2
<1> QED
  BY <1>4, <1>5, <1>6 DEF s, k

\* A tag that is put in comes after those at its offset.
LEMMA DocPut ==
  ASSUME NEW B, NEW d \in Parents, NEW t \in Tags, NEW n \in Names, NEW o \in 0 .. MaxOff,
         TreeInv(B), PutsTag(t, n, d, o)
  PROVE  Doc!Put(t, d, o) /\ \E C : TreeInv(C)'
<1>1. /\ \E C : TreeInv(C)'
      /\ Kids(d)' = InsertAt(Kids(d), PastOff(Kids(d), o), t)
      /\ \A e \in Parents : e # d => Kids(e)' = Kids(e)
  BY PutInv
<1>2. o \in Nat
  BY TreeAssumption
<1>3. PICK at : at = Cardinality({i \in DOMAIN Kids(d) : off[Kids(d)[i]] <= o}) + 1
  OBVIOUS
<1>4. at = PastOff(Kids(d), o)
  BY <1>2, <1>3, PlaceAt
<1>5. Kids(d)' = Doc!InsertAt(Kids(d), at, t)
  BY <1>1, <1>4 DEF InsertAt, Doc!InsertAt
<1>6. [e \in Parents |-> Kids(e)'] =
        [[e \in Parents |-> Kids(e)] EXCEPT ![d] = Doc!InsertAt(@, at, t)]
  BY <1>1, <1>5
<1>7. [e \in Parents |-> Kids(e)][d] = Kids(d)
  OBVIOUS
<1>8. Doc!Put(t, d, o)
  <2>1. \A S : Doc!Cardinality(S) = Cardinality(S)
    BY DEF Cardinality, Doc!Cardinality
  <2>2. at = Doc!Cardinality({i \in DOMAIN [e \in Parents |-> Kids(e)][d] :
                                off[[e \in Parents |-> Kids(e)][d][i]] <= o}) + 1
    BY <1>3, <1>7, <2>1
  <2> QED
    BY <1>6, <2>2 DEF Doc!Put
<1> QED
  BY <1>1, <1>8

\* A tag that is cut leaves the place it had in the document.
LEMMA DocCut ==
  ASSUME NEW B, NEW t \in Tags, TreeInv(B), Cut(t), ~LeavesLater(t)
  PROVE  Doc!Cut(t)
<1>1. /\ \E i \in 1 .. Len(Kids(parent[t])) :
           /\ Kids(parent[t])[i] = t
           /\ Way(ordered', child'[parent[t]]) = RemoveAt(Kids(parent[t]), i)
      /\ \A e \in Parents : e # parent[t] => Kids(e)' = Kids(e)
  BY CutInv
<1>2. PICK d : d = parent[t]
  OBVIOUS
<1>3. PICK i \in 1 .. Len(Kids(d)) :
        Kids(d)[i] = t /\ Way(ordered', child'[d]) = RemoveAt(Kids(d), i)
  BY <1>1, <1>2
<1>4. Placed(t) /\ UNCHANGED <<name, off>>
  BY DEF Cut
<1>5. d \in Parents
  BY <1>2, <1>4, PlacedKin DEF TreeInv
<1>6. Kids(d)' = Doc!RemoveAt(Kids(d), i)
  BY <1>3 DEF Kids, RemoveAt, Doc!RemoveAt
<1>7. [e \in Parents |-> Kids(e)'] =
        [[e \in Parents |-> Kids(e)] EXCEPT ![d] = Doc!RemoveAt(@, i)]
  BY <1>1, <1>2, <1>5, <1>6
<1>8. /\ [e \in Parents |-> Kids(e)][d] = Kids(d)
      /\ i \in DOMAIN Kids(d)
  BY <1>3, <1>5, KidsAre
<1>9. [e \in Parents |-> Kids(e)][d][i] = t /\ i \in DOMAIN [e \in Parents |-> Kids(e)][d]
  BY <1>3, <1>8
<1>10. Doc!Placed(t) /\ Doc!Live(t)
  BY <1>4, DocPlaced DEF Placed, Live, Doc!Live
<1>11. d \in Doc!Parents
  BY <1>5 DEF Parents, Doc!Parents
<1> QED
  BY <1>4, <1>7, <1>9, <1>10, <1>11 DEF Doc!Cut

\* A tag that is freed takes what is below it with it.
LEMMA DocFree ==
  ASSUME NEW B, NEW t \in Tags, TreeInv(B), Free(t)
  PROVE  Doc!Free(t)
<1>1. \A d \in Parents : /\ d \in Below(t) => Kids(d)' = <<>>
                         /\ d \notin Below(t) => Kids(d)' = Kids(d)
  BY FreeInv
<1>2. /\ t \in loose
      /\ name' = [u \in Tags |-> IF u \in Below(t) THEN Nil ELSE name[u]]
      /\ off' = [u \in Tags |-> IF u \in Below(t) THEN 0 ELSE off[u]]
  BY DEF Free
<1>3. Doc!Below(t) = Below(t)
  BY <1>2, DocBelow
<1>4. Doc!Live(t) /\ ~Doc!Placed(t)
  BY <1>2, DocPlaced DEF TreeInv, TreeTypeOK, Live, Placed, Doc!Live
<1>5. [u \in Parents |-> Kids(u)'] =
        [u \in Parents |-> IF u \in Below(t) THEN <<>> ELSE [e \in Parents |-> Kids(e)][u]]
  BY <1>1
<1>6. Doc!Parents = Parents
  BY DEF Parents, Doc!Parents
<1>7. /\ name' = [u \in Tags |-> IF u \in Doc!Below(t) THEN Nil ELSE name[u]]
      /\ off' = [u \in Tags |-> IF u \in Doc!Below(t) THEN 0 ELSE off[u]]
      /\ [u \in Parents |-> Kids(u)'] =
           [u \in Doc!Parents |->
              IF u \in Doc!Below(t) THEN <<>> ELSE [e \in Parents |-> Kids(e)][u]]
  BY <1>2, <1>3, <1>5, <1>6
<1> QED
  BY <1>4, <1>7 DEF Doc!Free

\* Every step is a step of the document, or does not change it.
LEMMA DocStep ==
  ASSUME NEW B, TreeInv(B), Careful, [TreeNext]_treeVars
  PROVE  [Doc!Next]_(Doc!vars)
<1>1. TreeTypeOK
  BY DEF TreeInv
<1>2. Doc!Open = Open
  BY DEF Open, Live, Doc!Open, Doc!Live
<1>3. ASSUME NEW t \in Tags, NEW n \in Names, NEW d \in Hosts, NEW o \in 0 .. MaxOff,
             AddChild(t, n, d, o)
      PROVE  Doc!Next
  <2>1. PutsTag(t, n, d, o) /\ d \in Parents
    BY <1>1, <1>3, AddPuts, TreeAssumption
  <2>2. Doc!Put(t, d, o)
    BY <2>1, DocPut
  <2>3. ~Doc!Live(t) /\ name' = [name EXCEPT ![t] = n] /\ off' = [off EXCEPT ![t] = o]
    BY <1>3 DEF AddChild, Put, Live, Doc!Live
  <2>4. Doc!Add(t, n, d, o)
    BY <2>2, <2>3 DEF Doc!Add
  <2>5. d \in Doc!Open
    BY <1>2, <1>3 DEF AddChild
  <2> QED
    BY <2>4, <2>5 DEF Doc!Next
<1>4. ASSUME NEW t \in Tags, NEW d \in Hosts, NEW o \in 0 .. MaxOff, Insert(t, d, o)
      PROVE  Doc!Next
  <2>1. name[t] \in Names /\ PutsTag(t, name[t], d, o) /\ d \in Parents
    BY <1>1, <1>4, InsertPuts, TreeAssumption
  <2>2. PICK n \in Names : n = name[t]
    BY <2>1
  <2>3. PutsTag(t, n, d, o)
    BY <2>1, <2>2
  <2>4. Doc!Put(t, d, o)
    BY <2>1, <2>3, DocPut
  <2>5. Doc!Live(t) /\ name' = name /\ off' = [off EXCEPT ![t] = o] /\ t \in loose
        /\ d \notin Below(t) /\ d \in Open
    BY <1>1, <1>4 DEF Insert, Put, TreeTypeOK, Live, Doc!Live
  <2>6. ~Doc!Placed(t) /\ d \notin Doc!Below(t)
    BY <2>5, DocPlaced, DocBelow DEF Placed
  <2>7. Doc!Replace(t, d, o)
    BY <2>4, <2>5, <2>6 DEF Doc!Replace
  <2> QED
    BY <1>2, <2>5, <2>7 DEF Doc!Next
<1>5. ASSUME NEW t \in Tags, Cut(t)
      PROVE  Doc!Next
  <2>1. ~LeavesLater(t)
    BY <1>5 DEF Cut
  <2> QED
    BY <1>5, <2>1, DocCut DEF Doc!Next
<1>6. ASSUME NEW t \in Tags, Free(t)
      PROVE  Doc!Next
  BY <1>6, DocFree DEF Doc!Next
<1>7. CASE UNCHANGED treeVars
  <2>1. \A d \in Parents : Kids(d)' = Kids(d)
    BY <1>7 DEF treeVars, lists, Kids
  <2>2. UNCHANGED <<name, off>>
    BY <1>7 DEF treeVars
  <2>3. [d \in Parents |-> Kids(d)'] = [d \in Parents |-> Kids(d)]
    BY <2>1
  <2> QED
    BY <2>2, <2>3 DEF Doc!vars
<1> QED
  BY <1>3, <1>4, <1>5, <1>6, <1>7 DEF TreeNext

\* The lists implement the document: the subtags of a tag are in the order of
\* their offsets, and a tag that is cut or freed takes its own subtags with it
\* and no other.
THEOREM TreeImplementsDocument ==
  ASSUME Careful
  PROVE  TreeSpec => DocSpec
<1> DEFINE Inv == \E B : TreeInv(B)
<1>1. TreeInit => Inv /\ Doc!Init
  <2> SUFFICES ASSUME TreeInit PROVE Inv /\ Doc!Init
    OBVIOUS
  <2>1. TreeInv({}) /\ \A d \in Parents : Kids(d) = <<>>
    BY TreeInitInv
  <2>2. [d \in Parents |-> Kids(d)] = [d \in Doc!Parents |-> <<>>]
    BY <2>1 DEF Parents, Doc!Parents
  <2>3. Doc!Init
    BY <2>2 DEF TreeInit, Doc!Init
  <2> QED
    BY <2>1, <2>3
<1>2. Inv /\ [TreeNext]_treeVars => Inv'
  BY TreeStep
<1>3. Inv /\ [TreeNext]_treeVars => [Doc!Next]_(Doc!vars)
  BY DocStep
<1> QED
  BY <1>1, <1>2, <1>3, PTL DEF TreeSpec, DocSpec, Doc!Spec
=============================================================================
