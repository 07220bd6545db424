--------------------------- MODULE ContainerProofs ---------------------------
(***************************************************************************)
(* Proofs about the digit queue, for every capacity and every set of       *)
(* items: where the items lie, that the destructor frees them all, and     *)
(* that the array implements the bounded first-in-first-out queue.  And    *)
(* about the linked list, for all nodes and data: its pointers lead        *)
(* through the elements in their order, and what its operations do is what *)
(* they do to a sequence.                                                  *)
(***************************************************************************)
EXTENDS DtmfQueue, LinkedList, SequenceTheorems, WellFoundedInduction, TLAPS

\* The invariant is inductive as it stands.
QueueInv == TypeOK /\ SlotInv

LEMMA QueueInit == Init => QueueInv
  BY DtmfQueueAssumption DEF Init, QueueInv, TypeOK, SlotInv, Slots

\* Every operation keeps the items in the slots out .. in - 1.
LEMMA QueueStep == QueueInv /\ [Next]_vars => QueueInv'
<1> SUFFICES ASSUME QueueInv, [Next]_vars PROVE QueueInv'
  OBVIOUS
<1> USE DtmfQueueAssumption DEF QueueInv, TypeOK, SlotInv, Slots
<1>1. CASE \E d \in Items : Push(d)
  BY <1>1 DEF Push
<1>2. CASE Pop
  <2>1. CASE out + 1 > in \/ out + 1 >= Size
    BY <1>2, <2>1 DEF Pop
  <2>2. CASE ~(out + 1 > in \/ out + 1 >= Size)
    BY <1>2, <2>2 DEF Pop
  <2> QED
    BY <2>1, <2>2
<1>3. CASE Refuse \/ PopNothing \/ IsEmpty \/ IsFull
  BY <1>3 DEF Refuse, PopNothing, IsEmpty, IsFull
<1>4. CASE Destroy
  BY <1>4 DEF Destroy
<1>5. CASE UNCHANGED vars
  BY <1>5 DEF vars
<1> QED
  BY <1>1, <1>2, <1>3, <1>4, <1>5 DEF Next

\* Items lie in the slots out .. in - 1 and nowhere else.
THEOREM SlotsExact == Spec => [](TypeOK /\ SlotInv)
<1>1. Spec => []QueueInv
  BY QueueInit, QueueStep, PTL DEF Spec
<1>2. QueueInv => TypeOK /\ SlotInv
  BY DEF QueueInv
<1> QED
  BY <1>1, <1>2, PTL

-----------------------------------------------------------------------------
\* The destructor finds every item that is still queued.
LEMMA LeakStep == QueueInv /\ NothingLeaked /\ [Next]_vars => NothingLeaked'
<1> SUFFICES ASSUME QueueInv, NothingLeaked, [Next]_vars PROVE NothingLeaked'
  OBVIOUS
<1>1. CASE Destroy
  BY <1>1, DtmfQueueAssumption
     DEF Destroy, NothingLeaked, QueueInv, TypeOK, SlotInv, Slots
<1>2. CASE \/ \E d \in Items : Push(d)
           \/ Refuse \/ Pop \/ PopNothing \/ IsEmpty \/ IsFull
  <2>1. alive' = alive
    BY <1>2 DEF Push, Refuse, Pop, PopNothing, IsEmpty, IsFull
  <2>2. alive
    BY <1>2 DEF Push, Refuse, Pop, PopNothing, IsEmpty, IsFull
  <2>4. alive'
    BY <2>1, <2>2, Zenon
  <2> QED
    BY <2>4 DEF NothingLeaked
<1>3. CASE UNCHANGED vars
  BY <1>3 DEF vars, NothingLeaked, Slots
<1> QED
  BY <1>1, <1>2, <1>3 DEF Next

THEOREM QueueFreed == Spec => []NothingLeaked
<1>1. Init => NothingLeaked
  BY DEF Init, NothingLeaked
<1>2. QueueInv /\ [Next]_vars => QueueInv'
  BY QueueStep
<1> QED
  BY <1>1, <1>2, QueueInit, LeakStep, PTL DEF Spec

-----------------------------------------------------------------------------
\* The items between two positions of an array are a sequence.
LEMMA SegmentSeq ==
  ASSUME NEW d \in [Slots -> Items \cup {Null}],
         NEW hi \in 0 .. Size, NEW lo \in 0 .. hi,
         \A i \in Slots : lo <= i /\ i < hi => d[i] # Null
  PROVE  /\ [i \in 1 .. (hi - lo) |-> d[lo + i - 1]] \in Seq(Items)
         /\ Len([i \in 1 .. (hi - lo) |-> d[lo + i - 1]]) = hi - lo
<1> DEFINE q == [i \in 1 .. (hi - lo) |-> d[lo + i - 1]]
<1>1. hi - lo \in Nat
  BY DtmfQueueAssumption
<1>2. \A i \in 1 .. (hi - lo) : d[lo + i - 1] \in Items
  BY DtmfQueueAssumption DEF Slots
<1>3. q \in [1 .. (hi - lo) -> Items]
  BY <1>2
<1>4. q \in Seq(Items)
  BY <1>1, <1>3
<1>5. Len(q) = hi - lo
  BY <1>1, <1>3, <1>4
<1> QED
  BY <1>4, <1>5

\* Every step of the array is a step of the queue it stands for.
LEMMA FifoStep ==
  QueueInv /\ [Next]_vars => [Fifo!Next]_(Fifo!vars)
<1> SUFFICES ASSUME QueueInv, QueueInv', [Next]_vars
             PROVE  [Fifo!Next]_(Fifo!vars)
  BY QueueStep
<1> USE DtmfQueueAssumption
<1>t. in \in Nat /\ out \in Nat /\ Size \in Nat /\ out <= in /\ in <= Size
      /\ out < Size
  BY DEF QueueInv, TypeOK, SlotInv
<1>s. /\ QueueItems \in Seq(Items) /\ Len(QueueItems) = in - out
      /\ QueueItems' \in Seq(Items) /\ Len(QueueItems') = in' - out'
  <2>1. QueueItems \in Seq(Items) /\ Len(QueueItems) = in - out
    <3>1. out \in 0 .. in
      BY <1>t
    <3> QED
      BY SegmentSeq, <3>1 DEF QueueInv, TypeOK, SlotInv, QueueItems
  <2>2. QueueItems' \in Seq(Items) /\ Len(QueueItems') = in' - out'
    <3>1. out' \in 0 .. in'
      BY DEF QueueInv, TypeOK, SlotInv
    <3> QED
      BY SegmentSeq, <3>1 DEF QueueInv, TypeOK, SlotInv, QueueItems
  <2> QED
    BY <2>1, <2>2
<1>1. ASSUME NEW d \in Items, Push(d) PROVE Fifo!Push(d)
  <2>1. in' = in + 1 /\ out' = out /\ in - out < Size
    BY <1>1, <1>t DEF Push
  <2>2. \A i \in 1 .. (in - out) : QueueItems'[i] = QueueItems[i]
    BY <1>1, <1>t, <2>1 DEF Push, QueueItems, QueueInv, TypeOK, SlotInv, Slots
  <2>3. QueueItems'[in - out + 1] = d
    BY <1>1, <1>t, <2>1 DEF Push, QueueItems, QueueInv, TypeOK, SlotInv, Slots
  <2>4. QueueItems' = Append(QueueItems, d)
    BY <1>s, <1>t, <2>1, <2>2, <2>3
  <2> QED
    BY <1>1, <1>s, <2>1, <2>4 DEF Push, Fifo!Push
<1>2. CASE Pop
  <2>1. CASE out = in
    <3>1. data[out] = Null
      BY <1>t, <2>1 DEF QueueInv, TypeOK, SlotInv, Slots
    <3>2. in' = 0 /\ out' = 0
      BY <1>2, <1>t, <2>1 DEF Pop
    <3>3. QueueItems = <<>> /\ QueueItems' = <<>>
      BY <1>s, <1>t, <2>1, <3>2, EmptySeq
    <3> QED
      BY <1>2, <3>1, <3>3 DEF Pop, Fifo!Next, Fifo!PopNothing
  <2>2. CASE out < in
    <3>1. QueueItems # <<>> /\ Head(QueueItems) = data[out]
      <4>1. Len(QueueItems) > 0 /\ QueueItems # <<>>
        BY <1>t, <1>s, <2>2
      <4>2. QueueItems[1] = data[out]
        BY <1>t, <2>2 DEF QueueItems
      <4>3. Head(QueueItems) = QueueItems[1]
        BY <1>s, <4>1
      <4> QED
        BY <4>1, <4>2, <4>3
    <3>2. QueueItems' = Tail(QueueItems)
      <4>1. in' - out' = in - out - 1
        BY <1>2, <1>t, <2>2 DEF Pop
      <4>2. \A i \in 1 .. (in - out - 1) : QueueItems'[i] = QueueItems[i + 1]
        <5> SUFFICES ASSUME NEW i \in 1 .. (in - out - 1)
                     PROVE  QueueItems'[i] = QueueItems[i + 1]
          OBVIOUS
        <5>1. out' = out + 1
          BY <1>2, <1>t, <2>2 DEF Pop
        <5>2. QueueItems'[i] = data'[out + i]
          BY <1>t, <4>1, <5>1 DEF QueueItems
        <5>3. QueueItems[i + 1] = data[out + i]
          BY <1>t DEF QueueItems
        <5>4. data'[out + i] = data[out + i]
          BY <1>2, <1>t DEF Pop, QueueInv, TypeOK, Slots
        <5> QED
          BY <5>2, <5>3, <5>4
      <4>3. /\ Tail(QueueItems) \in Seq(Items)
            /\ Len(Tail(QueueItems)) = in - out - 1
            /\ \A i \in 1 .. (in - out - 1) :
                 Tail(QueueItems)[i] = QueueItems[i + 1]
        BY <1>s, <3>1, HeadTailProperties
      <4> QED
        BY <1>s, <4>1, <4>2, <4>3, SeqEqual
    <3> QED
      BY <1>2, <3>1, <3>2 DEF Pop, Fifo!Next, Fifo!Pop
  <2> QED
    BY <1>t, <2>1, <2>2
<1>3. CASE Refuse
  <2>1. in - out > 0
    BY <1>3, <1>t DEF Refuse
  <2>2. QueueItems # <<>>
    BY <1>s, <2>1
  <2> QED
    BY <1>3, <2>2 DEF Refuse, QueueItems, Fifo!Next, Fifo!Refuse
<1>4. CASE PopNothing
  <2>1. QueueItems = <<>>
    BY <1>4, <1>s, <1>t DEF PopNothing
  <2> QED
    BY <1>4, <2>1 DEF PopNothing, QueueItems, Fifo!Next, Fifo!PopNothing
<1>5. CASE IsEmpty
  <2>1. in = 0 => QueueItems = <<>>
    BY <1>s, <1>t
  <2> QED
    BY <1>5, <2>1 DEF IsEmpty, QueueItems, Fifo!Next, Fifo!IsEmpty
<1>6. CASE IsFull
  <2>1. in >= Size => QueueItems # <<>>
    BY <1>s, <1>t
  <2>2. Len(QueueItems) = Size => in >= Size
    BY <1>s, <1>t
  <2>3. Fifo!IsFull
    <3>1. (in >= Size) \in BOOLEAN
      OBVIOUS
    <3> QED
      BY <1>6, <2>1, <2>2, <3>1 DEF IsFull, QueueItems, Fifo!IsFull
  <2> QED
    BY <2>3 DEF Fifo!Next
<1>7. CASE Destroy
  BY <1>7 DEF Destroy, QueueItems, Fifo!vars
<1>8. CASE UNCHANGED vars
  BY <1>8 DEF vars, QueueItems, Fifo!vars
<1> QED
  BY <1>1, <1>2, <1>3, <1>4, <1>5, <1>6, <1>7, <1>8 DEF Next, Fifo!Next

\* The array queue implements the bounded queue until it is destroyed.
THEOREM QueueImplementsFifo == Spec => FifoSpec
<1>1. Init => Fifo!Init
  BY DtmfQueueAssumption DEF Init, Fifo!Init, QueueItems
<1> QED
  BY <1>1, QueueInit, QueueStep, FifoStep, PTL DEF Spec, FifoSpec, Fifo!Spec

-----------------------------------------------------------------------------
\* The n nodes s are those that are allocated, each leads to the one after it
\* and, but for the first, to the one before.
Linked(nd, n, s) ==
  /\ \A j, k \in 1 .. n : s[j] = s[k] => j = k
  /\ {i \in Nodes : nd[i] # Nil} = {s[k] : k \in 1 .. n}
  /\ \A k \in 1 .. n : nd[s[k]].next = IF k < n THEN s[k + 1] ELSE Nil
  /\ \A k \in 2 .. n : nd[s[k]].prev = s[k - 1]

\* The node i comes after p nodes of s, or the p-th node of s is left out.
With(s, n, p, i) ==
  [k \in 1 .. n + 1 |-> IF k <= p THEN s[k] ELSE IF k = p + 1 THEN i ELSE s[k - 1]]
Without(s, n, p) == [k \in 1 .. n - 1 |-> IF k < p THEN s[k] ELSE s[k + 1]]

Elem(nd, i) == [data |-> nd[i].data, own |-> nd[i].own]
Elems(nd, n, s) == [k \in 1 .. n |-> Elem(nd, s[k])]

Memory == [Nodes -> Node \cup {Nil}]

\* new is nd with the node i linked in after p nodes of s.
PutIn(nd, new, n, s, i, p) ==
  /\ nd \in Memory /\ new \in Memory
  /\ n \in Nat /\ s \in [1 .. n -> Nodes] /\ Linked(nd, n, s)
  /\ i \in Nodes /\ nd[i] = Nil /\ p \in 0 .. n
  /\ new[i] # Nil
  /\ new[i].next = IF p < n THEN s[p + 1] ELSE Nil
  /\ p > 0 => new[i].prev = s[p]
  /\ \A x \in Nodes \ {i} :
       /\ new[x] = Nil <=> nd[x] = Nil
       /\ nd[x] # Nil =>
            /\ Elem(new, x) = Elem(nd, x)
            /\ new[x].next = IF p > 0 /\ x = s[p] THEN i ELSE nd[x].next
            /\ new[x].prev = IF p < n /\ x = s[p + 1] THEN i ELSE nd[x].prev

\* new is nd with the p-th node of s freed and the nodes around it linked to
\* each other.  If it was the first, what the next one has for a previous one is
\* left open.
TakenOut(nd, new, n, s, p) ==
  /\ nd \in Memory /\ new \in Memory
  /\ n \in Nat /\ s \in [1 .. n -> Nodes] /\ Linked(nd, n, s)
  /\ p \in 1 .. n /\ new[s[p]] = Nil
  /\ \A x \in Nodes \ {s[p]} :
       /\ new[x] = Nil <=> nd[x] = Nil
       /\ nd[x] # Nil =>
            /\ Elem(new, x) = Elem(nd, x)
            /\ new[x].next = IF p > 1 /\ x = s[p - 1]
                             THEN IF p < n THEN s[p + 1] ELSE Nil
                             ELSE nd[x].next
            /\ ~(p < n /\ x = s[p + 1]) => new[x].prev = nd[x].prev
            /\ p > 1 /\ p < n /\ x = s[p + 1] => new[x].prev = s[p - 1]

-----------------------------------------------------------------------------
\* A set of numbers that is not empty has a least one.
LEMMA LeastNatural ==
  ASSUME NEW T, T \subseteq Nat, T # {}
  PROVE  \E m \in T : \A j \in T : m <= j
<1>1. PICK m \in T : \A j \in T : ~(<<j, m>> \in OpToRel(<, Nat))
  BY WFMin, NatLessThanWellFounded, Zenon
<1>2. \A j \in T : m \in Nat /\ j \in Nat /\ ~(j < m)
  BY <1>1, Zenon DEF OpToRel
<1> QED
  BY <1>2

\* The pointers leave no choice: from the first node on, each determines the
\* next.
LEMMA OneOrder ==
  ASSUME NEW nd, NEW n \in Nat,
         NEW s \in [1 .. n -> Nodes], NEW t \in [1 .. n -> Nodes],
         Linked(nd, n, s), Linked(nd, n, t), n > 0 => s[1] = t[1]
  PROVE  s = t
<1> DEFINE T == {k \in 1 .. n : s[k] # t[k]}
<1> SUFFICES ASSUME T # {} PROVE FALSE
  OBVIOUS
<1>1. PICK m \in T : \A j \in T : m <= j
  BY LeastNatural, T \subseteq Nat
<1>2. m \in 1 .. n /\ m # 1
  BY <1>1
<1>3. m - 1 \in 1 .. n /\ m - 1 < n /\ m - 1 < m /\ (m - 1) + 1 = m
  BY <1>2
<1>4. s[m - 1] = t[m - 1]
  BY <1>1, <1>3
<1>5. nd[s[m - 1]].next = s[m] /\ nd[t[m - 1]].next = t[m]
  BY <1>3 DEF Linked
<1> QED
  BY <1>1, <1>4, <1>5

\* A node that is linked in at a place joins the chain there.
LEMMA LinkedIn ==
  ASSUME NEW nd, NEW new, NEW n, NEW s, NEW i, NEW p, PutIn(nd, new, n, s, i, p)
  PROVE  /\ With(s, n, p, i) \in [1 .. n + 1 -> Nodes]
         /\ Linked(new, n + 1, With(s, n, p, i))
         /\ Elems(new, n + 1, With(s, n, p, i))
              = With(Elems(nd, n, s), n, p, Elem(new, i))
<1> USE DEF PutIn
<1> DEFINE t == With(s, n, p, i)
<1>1. t \in [1 .. n + 1 -> Nodes]
  BY DEF With
<1>2. /\ \A k \in 1 .. p : t[k] = s[k]
      /\ t[p + 1] = i
      /\ \A k \in p + 2 .. n + 1 : t[k] = s[k - 1]
  BY DEF With
<1>3. \A k \in 1 .. n : s[k] \in Nodes \ {i} /\ nd[s[k]] # Nil
  BY DEF Linked
<1> HIDE DEF t
<1>4. \A j, k \in 1 .. n + 1 : t[j] = t[k] => j = k
  <2> SUFFICES ASSUME NEW j \in 1 .. n + 1, NEW k \in 1 .. n + 1, t[j] = t[k], j < k
               PROVE  FALSE
    BY <1>1
  <2>1. CASE k <= p
    BY <1>2, <2>1 DEF Linked
  <2>2. CASE k = p + 1
    <3>1. j \in 1 .. p /\ j \in 1 .. n
      BY <2>2
    <3> QED
      BY <1>2, <1>3, <2>2, <3>1
  <2>3. CASE k > p + 1
    <3>1. k \in p + 2 .. n + 1 /\ k - 1 \in 1 .. n /\ t[k] = s[k - 1]
      BY <1>2, <2>3
    <3>2. CASE j <= p
      BY <1>2, <3>1, <3>2 DEF Linked
    <3>3. CASE j = p + 1
      BY <1>2, <1>3, <3>1, <3>3
    <3>4. CASE j > p + 1
      BY <1>2, <3>1, <3>4 DEF Linked
    <3> QED
      BY <3>2, <3>3, <3>4
  <2> QED
    BY <2>1, <2>2, <2>3
<1>5. {x \in Nodes : new[x] # Nil} = {t[k] : k \in 1 .. n + 1}
  <2>1. ASSUME NEW x \in Nodes, new[x] # Nil
        PROVE  \E k \in 1 .. n + 1 : x = t[k]
    <3>1. CASE x = i
      BY <1>2, <3>1
    <3>2. CASE x # i
      <4>1. nd[x] # Nil
        BY <2>1, <3>2
      <4>2. PICK k \in 1 .. n : x = s[k]
        BY <4>1 DEF Linked
      <4>3. CASE k <= p
        BY <1>2, <4>2, <4>3
      <4>4. CASE k > p
        <5>1. k + 1 \in p + 2 .. n + 1 /\ k + 1 \in 1 .. n + 1 /\ (k + 1) - 1 = k
          BY <4>4
        <5>2. t[k + 1] = s[k]
          BY <1>2, <5>1
        <5> QED
          BY <4>2, <5>1, <5>2
      <4> QED
        BY <4>3, <4>4
    <3> QED
      BY <3>1, <3>2
  <2>2. ASSUME NEW k \in 1 .. n + 1 PROVE new[t[k]] # Nil
    <3>1. CASE k <= p
      BY <1>2, <1>3, <3>1
    <3>2. CASE k = p + 1
      BY <1>2, <3>2
    <3>3. CASE k > p + 1
      BY <1>2, <1>3, <3>3
    <3> QED
      BY <3>1, <3>2, <3>3
  <2> QED
    BY <1>1, <2>1, <2>2
<1>6. \A k \in 1 .. n + 1 : new[t[k]].next = IF k < n + 1 THEN t[k + 1] ELSE Nil
  <2> TAKE k \in 1 .. n + 1
  <2>1. CASE k < p
    <3>1. k \in 1 .. n /\ p \in 1 .. n /\ k # p /\ k + 1 \in 1 .. p /\ k \in 1 .. p
      BY <2>1
    <3>2. t[k] = s[k] /\ t[k + 1] = s[k + 1] /\ s[k] # s[p]
      BY <1>2, <3>1 DEF Linked
    <3> QED
      BY <1>3, <2>1, <3>1, <3>2 DEF Linked
  <2>2. CASE k = p
    BY <1>2, <1>3, <2>2
  <2>3. CASE k = p + 1
    BY <1>2, <2>3
  <2>4. CASE k > p + 1
    <3>1. /\ k \in p + 2 .. n + 1 /\ k - 1 \in 1 .. n /\ k - 1 # p
          /\ k < n + 1 => k + 1 \in p + 2 .. n + 1 /\ (k + 1) - 1 = k
          /\ p > 0 => p \in 1 .. n
      BY <2>4
    <3>2. /\ t[k] = s[k - 1] /\ (p > 0 => s[k - 1] # s[p])
          /\ k < n + 1 => t[k + 1] = s[k]
      BY <1>2, <3>1 DEF Linked
    <3>3. new[t[k]].next = nd[s[k - 1]].next
      BY <1>3, <3>1, <3>2
    <3> QED
      BY <2>4, <3>1, <3>2, <3>3 DEF Linked
  <2> QED
    BY <2>1, <2>2, <2>3, <2>4
<1>7. \A k \in 2 .. n + 1 : new[t[k]].prev = t[k - 1]
  <2> TAKE k \in 2 .. n + 1
  <2>1. CASE k <= p
    <3>1. t[k] = s[k] /\ t[k - 1] = s[k - 1] /\ k \in 2 .. n
          /\ (p < n => s[k] # s[p + 1])
      BY <1>2, <2>1 DEF Linked
    <3>2. new[t[k]].prev = nd[s[k]].prev
      BY <1>3, <3>1
    <3> QED
      BY <3>1, <3>2 DEF Linked
  <2>2. CASE k = p + 1
    BY <1>2, <2>2
  <2>3. CASE k = p + 2
    <3>1. t[k] = s[p + 1] /\ t[k - 1] = i /\ p < n /\ p + 1 \in 1 .. n
      BY <1>2, <2>3
    <3> QED
      BY <1>3, <3>1
  <2>4. CASE k > p + 2
    <3>1. t[k] = s[k - 1] /\ t[k - 1] = s[k - 2] /\ k - 1 \in 2 .. n
          /\ s[k - 1] # s[p + 1]
      BY <1>2, <2>4 DEF Linked
    <3>2. new[t[k]].prev = nd[s[k - 1]].prev
      BY <1>3, <3>1
    <3> QED
      BY <3>1, <3>2 DEF Linked
  <2> QED
    BY <2>1, <2>2, <2>3, <2>4
<1>8. \A k \in 1 .. n + 1 :
        Elem(new, t[k]) = With(Elems(nd, n, s), n, p, Elem(new, i))[k]
  <2> TAKE k \in 1 .. n + 1
  <2>1. CASE k <= p
    BY <1>2, <1>3, <2>1 DEF With, Elems
  <2>2. CASE k = p + 1
    BY <1>2, <2>2 DEF With, Elems
  <2>3. CASE k > p + 1
    <3>1. t[k] = s[k - 1] /\ k - 1 \in 1 .. n
      BY <1>2, <2>3
    <3> QED
      BY <1>3, <2>3, <3>1 DEF With, Elems
  <2> QED
    BY <2>1, <2>2, <2>3
<1>9. Elems(new, n + 1, t) = With(Elems(nd, n, s), n, p, Elem(new, i))
  BY <1>8 DEF With, Elems
<1> QED
  BY <1>1, <1>4, <1>5, <1>6, <1>7, <1>9 DEF Linked, t

\* A node that is freed leaves the chain, when the nodes around it are linked to
\* each other; that is not needed for the first one, whose next node comes to
\* be the first, whatever it has for a previous one.
LEMMA LinkedOut ==
  ASSUME NEW nd, NEW new, NEW n, NEW s, NEW p, TakenOut(nd, new, n, s, p)
  PROVE  /\ Without(s, n, p) \in [1 .. n - 1 -> Nodes]
         /\ Linked(new, n - 1, Without(s, n, p))
         /\ Elems(new, n - 1, Without(s, n, p))
              = Without(Elems(nd, n, s), n, p)
<1> USE DEF TakenOut
<1> DEFINE t == Without(s, n, p)
<1>1. t \in [1 .. n - 1 -> Nodes]
  BY DEF Without
<1>2. /\ \A k \in 1 .. p - 1 : t[k] = s[k]
      /\ \A k \in p .. n - 1 : t[k] = s[k + 1]
  BY DEF Without
<1> HIDE DEF t
<1>3. \A k \in 1 .. n : k # p => s[k] \in Nodes \ {s[p]} /\ nd[s[k]] # Nil
  BY DEF Linked
\* Where the nodes of the shorter chain were in the longer one.
<1>4. \A k \in 1 .. n - 1 :
        \/ k \in 1 .. p - 1 /\ k \in 1 .. n /\ k # p /\ t[k] = s[k]
        \/ /\ k \in p .. n - 1 /\ k + 1 \in 1 .. n /\ k + 1 # p
           /\ t[k] = s[k + 1]
  BY <1>2
<1>5. \A j, k \in 1 .. n - 1 : t[j] = t[k] => j = k
  <2> SUFFICES ASSUME NEW j \in 1 .. n - 1, NEW k \in 1 .. n - 1,
                      t[j] = t[k], j < k
               PROVE  FALSE
    BY <1>1
  <2>1. CASE t[k] = s[k] /\ k \in 1 .. p - 1
    BY <1>2, <2>1 DEF Linked
  <2>2. CASE t[k] = s[k + 1] /\ k \in p .. n - 1
    BY <1>4, <2>2 DEF Linked
  <2> QED
    BY <1>4, <2>1, <2>2
<1>6. {x \in Nodes : new[x] # Nil} = {t[k] : k \in 1 .. n - 1}
  <2>1. ASSUME NEW x \in Nodes, new[x] # Nil
        PROVE  \E k \in 1 .. n - 1 : x = t[k]
    <3>1. x # s[p] /\ nd[x] # Nil
      BY <2>1
    <3>2. PICK k \in 1 .. n : x = s[k]
      BY <3>1 DEF Linked
    <3>3. CASE k < p
      BY <1>2, <3>2, <3>3
    <3>4. CASE k > p
      <4>1. k - 1 \in p .. n - 1 /\ k - 1 \in 1 .. n - 1 /\ (k - 1) + 1 = k
        BY <3>4
      <4>2. t[k - 1] = s[k]
        BY <1>2, <4>1
      <4> QED
        BY <3>2, <4>1, <4>2
    <3> QED
      BY <3>1, <3>2, <3>3, <3>4
  <2>2. ASSUME NEW k \in 1 .. n - 1 PROVE new[t[k]] # Nil
    BY <1>3, <1>4
  <2> QED
    BY <1>1, <2>1, <2>2
<1>7. \A k \in 1 .. n - 1 : new[t[k]].next = IF k < n - 1 THEN t[k + 1] ELSE Nil
  <2> TAKE k \in 1 .. n - 1
  <2>1. CASE k < p - 1
    <3>1. /\ k \in 1 .. n /\ k # p /\ k \in 1 .. p - 1 /\ k + 1 \in 1 .. p - 1
          /\ k < n /\ k < n - 1 /\ p - 1 \in 1 .. n /\ k # p - 1
      BY <2>1
    <3>2. t[k] = s[k] /\ t[k + 1] = s[k + 1] /\ s[k] # s[p - 1]
      BY <1>2, <3>1 DEF Linked
    <3> QED
      BY <1>3, <3>1, <3>2 DEF Linked
  <2>2. CASE k = p - 1
    <3>1. /\ k \in 1 .. n /\ k # p /\ k \in 1 .. p - 1 /\ p > 1
          /\ k < n - 1 => k + 1 \in p .. n - 1 /\ p < n
          /\ ~(k < n - 1) => ~(p < n)
      BY <2>2
    <3>2. t[k] = s[k] /\ (k < n - 1 => t[k + 1] = s[p + 1])
      BY <1>2, <2>2, <3>1
    <3> QED
      BY <1>3, <2>2, <3>1, <3>2
  <2>3. CASE k > p - 1
    <3>1. /\ k \in p .. n - 1 /\ k + 1 \in 1 .. n /\ k + 1 # p
          /\ k < n - 1 => k + 1 \in p .. n - 1 /\ k + 1 < n
          /\ ~(k < n - 1) => ~(k + 1 < n)
          /\ p > 1 => p - 1 \in 1 .. n /\ k + 1 # p - 1
      BY <2>3
    <3>2. /\ t[k] = s[k + 1] /\ (k < n - 1 => t[k + 1] = s[(k + 1) + 1])
          /\ p > 1 => s[k + 1] # s[p - 1]
      BY <1>2, <3>1 DEF Linked
    <3> QED
      BY <1>3, <3>1, <3>2 DEF Linked
  <2> QED
    BY <2>1, <2>2, <2>3
<1>8. \A k \in 2 .. n - 1 : new[t[k]].prev = t[k - 1]
  <2> TAKE k \in 2 .. n - 1
  <2>1. CASE k < p
    <3>1. /\ k \in 2 .. n /\ k \in 1 .. n /\ k # p /\ k \in 1 .. p - 1
          /\ k - 1 \in 1 .. p - 1
          /\ p < n => p + 1 \in 1 .. n /\ k # p + 1
      BY <2>1
    <3>2. t[k] = s[k] /\ t[k - 1] = s[k - 1] /\ (p < n => s[k] # s[p + 1])
      BY <1>2, <3>1 DEF Linked
    <3> QED
      BY <1>3, <3>1, <3>2 DEF Linked
  <2>2. CASE k = p
    <3>1. /\ k + 1 \in 1 .. n /\ k + 1 # p /\ k \in p .. n - 1 /\ p > 1 /\ p < n
          /\ k - 1 \in 1 .. p - 1
      BY <2>2
    <3>2. t[k] = s[p + 1] /\ t[k - 1] = s[p - 1]
      BY <1>2, <2>2, <3>1
    <3> QED
      BY <1>3, <2>2, <3>1, <3>2
  <2>3. CASE k > p
    <3>1. /\ k \in p .. n - 1 /\ k - 1 \in p .. n - 1 /\ (k - 1) + 1 = k
          /\ k + 1 \in 2 .. n /\ k + 1 \in 1 .. n /\ k + 1 # p /\ k + 1 # p + 1
          /\ p + 1 \in 1 .. n /\ (k + 1) - 1 = k
      BY <2>3
    <3>2. t[k] = s[k + 1] /\ t[k - 1] = s[k] /\ s[k + 1] # s[p + 1]
      BY <1>2, <3>1 DEF Linked
    <3>3. new[s[k + 1]].prev = nd[s[k + 1]].prev
      BY <1>3, <3>1, <3>2
    <3> QED
      BY <3>1, <3>2, <3>3 DEF Linked
  <2> QED
    BY <2>1, <2>2, <2>3
<1>9. Elems(new, n - 1, t) = Without(Elems(nd, n, s), n, p)
  <2>1. \A k \in 1 .. n - 1 :
          Elem(new, t[k]) = Without(Elems(nd, n, s), n, p)[k]
    BY <1>3, <1>4 DEF Without, Elems
  <2> QED
    BY <2>1 DEF Without, Elems
<1> QED
  BY <1>1, <1>5, <1>6, <1>7, <1>8, <1>9 DEF Linked, t

\* What the operations on sequences come to, element by element.
LEMMA WithIsInsertAt ==
  \A n \in Nat : \A q \in [1 .. n -> Seq0!Element] :
    \A p \in 0 .. n : \A e \in Seq0!Element :
      With(q, n, p, e) = Seq0!InsertAt(q, p + 1, e)
<1> DEFINE S == Seq0!Element
<1> HIDE DEF S
<1> SUFFICES ASSUME NEW n \in Nat, NEW q \in [1 .. n -> S],
                    NEW p \in 0 .. n, NEW e \in S
             PROVE  With(q, n, p, e) = Seq0!InsertAt(q, p + 1, e)
  BY DEF S
<1>1. q \in Seq(S) /\ Len(q) = n /\ DOMAIN q = 1 .. n
  OBVIOUS
<1> DEFINE a == SubSeq(q, 1, p)
           b == SubSeq(q, p + 1, n)
<1>2. a \in Seq(S) /\ Len(a) = p /\ \A k \in 1 .. p : a[k] = q[k]
  BY <1>1
<1>3. b \in Seq(S) /\ Len(b) = n - p /\ \A k \in 1 .. n - p : b[k] = q[p + k]
  BY <1>1
<1>4. Seq0!InsertAt(q, p + 1, e) = a \o <<e>> \o b
  BY <1>1 DEF Seq0!InsertAt
<1> HIDE DEF a, b
<1>5. /\ a \o <<e>> \in Seq(S) /\ Len(a \o <<e>>) = p + 1
      /\ \A k \in 1 .. p : (a \o <<e>>)[k] = q[k]
      /\ (a \o <<e>>)[p + 1] = e
  BY <1>2
<1> DEFINE c == a \o <<e>>
<1> HIDE DEF c
<1>8. /\ c \o b \in Seq(S) /\ Len(c \o b) = n + 1
      /\ \A k \in 1 .. n + 1 :
           (c \o b)[k] = IF k <= p + 1 THEN c[k] ELSE b[k - (p + 1)]
  BY <1>3, <1>5, ConcatProperties DEF c
<1>6. \A k \in 1 .. n + 1 : (c \o b)[k] =
        IF k <= p THEN q[k] ELSE IF k = p + 1 THEN e ELSE q[k - 1]
  <2> TAKE k \in 1 .. n + 1
  <2>1. CASE k <= p
    <3>1. k \in 1 .. p /\ k <= p + 1
      BY <2>1
    <3>2. c[k] = q[k]
      BY <1>5, <3>1 DEF c
    <3> QED
      BY <1>8, <2>1, <3>1, <3>2
  <2>3. CASE k = p + 1
    BY <1>5, <1>8, <2>3 DEF c
  <2>2. CASE k > p + 1
    <3>1. k - (p + 1) \in 1 .. n - p /\ p + (k - (p + 1)) = k - 1
      BY <2>2
    <3>2. (c \o b)[k] = b[k - (p + 1)]
      BY <1>8, <2>2
    <3>3. b[k - (p + 1)] = q[p + (k - (p + 1))]
      BY <1>3, <3>1
    <3> QED
      BY <2>2, <3>1, <3>2, <3>3
  <2>4. k <= p \/ k = p + 1 \/ k > p + 1
    OBVIOUS
  <2> QED
    BY <2>1, <2>2, <2>3, <2>4, Zenon
<1>7. /\ With(q, n, p, e) \in Seq(S) /\ Len(With(q, n, p, e)) = n + 1
      /\ \A k \in 1 .. n + 1 : With(q, n, p, e)[k] =
           IF k <= p THEN q[k] ELSE IF k = p + 1 THEN e ELSE q[k - 1]
  BY DEF With
<1>9. With(q, n, p, e) = c \o b
  BY <1>6, <1>7, <1>8, SeqEqual
<1> QED
  BY <1>1, <1>4, <1>9 DEF c

LEMMA WithoutIsRemoveAt ==
  \A n \in Nat : \A q \in [1 .. n -> Seq0!Element] : \A p \in 1 .. n :
    /\ Without(q, n, p) = Seq0!RemoveAt(q, p)
    /\ p = 1 => Without(q, n, p) = Tail(q) /\ Head(q) = q[1] /\ q # << >>
<1> DEFINE S == Seq0!Element
<1> HIDE DEF S
<1> SUFFICES ASSUME NEW n \in Nat, NEW q \in [1 .. n -> S], NEW p \in 1 .. n
             PROVE  /\ Without(q, n, p) = Seq0!RemoveAt(q, p)
                    /\ p = 1 => /\ Without(q, n, p) = Tail(q)
                                /\ Head(q) = q[1] /\ q # << >>
  BY DEF S
<1>1. q \in Seq(S) /\ Len(q) = n /\ DOMAIN q = 1 .. n
  OBVIOUS
<1> DEFINE a == SubSeq(q, 1, p - 1)
           b == SubSeq(q, p + 1, n)
<1>2. a \in Seq(S) /\ Len(a) = p - 1 /\ \A k \in 1 .. p - 1 : a[k] = q[k]
  BY <1>1
<1>3. b \in Seq(S) /\ Len(b) = n - p /\ \A k \in 1 .. n - p : b[k] = q[p + k]
  BY <1>1
<1>4. Seq0!RemoveAt(q, p) = a \o b
  BY <1>1 DEF Seq0!RemoveAt
<1> HIDE DEF a, b
<1>5. /\ a \o b \in Seq(S) /\ Len(a \o b) = n - 1
      /\ \A k \in 1 .. n - 1 : (a \o b)[k] = IF k < p THEN q[k] ELSE q[k + 1]
  <2>1. /\ a \o b \in Seq(S) /\ Len(a \o b) = n - 1
        /\ \A k \in 1 .. n - 1 :
             (a \o b)[k] = IF k <= p - 1 THEN a[k] ELSE b[k - (p - 1)]
    BY <1>2, <1>3, ConcatProperties
  <2>2. ASSUME NEW k \in 1 .. n - 1
        PROVE  (a \o b)[k] = IF k < p THEN q[k] ELSE q[k + 1]
    <3>1. CASE k < p
      BY <1>2, <2>1, <3>1
    <3>2. CASE k >= p
      <4>1. k - (p - 1) \in 1 .. n - p /\ p + (k - (p - 1)) = k + 1
        BY <3>2
      <4>2. (a \o b)[k] = b[k - (p - 1)]
        BY <2>1, <3>2
      <4>3. b[k - (p - 1)] = q[p + (k - (p - 1))]
        BY <1>3, <4>1
      <4>4. (a \o b)[k] = q[k + 1]
        BY <4>1, <4>2, <4>3, Zenon
      <4>5. ~(k < p)
        BY <3>2
      <4> QED
        BY <4>4, <4>5, Zenon
    <3>3. k < p \/ k >= p
      OBVIOUS
    <3> QED
      BY <3>1, <3>2, <3>3, Zenon
  <2> QED
    BY <2>1, <2>2
<1>6. /\ Without(q, n, p) \in Seq(S) /\ Len(Without(q, n, p)) = n - 1
      /\ \A k \in 1 .. n - 1 :
           Without(q, n, p)[k] = IF k < p THEN q[k] ELSE q[k + 1]
  BY DEF Without
<1>7. Without(q, n, p) = Seq0!RemoveAt(q, p)
  BY <1>4, <1>5, <1>6, SeqEqual
<1>8. ASSUME p = 1
      PROVE  Without(q, n, p) = Tail(q) /\ Head(q) = q[1] /\ q # << >>
  <2>1. q # << >> /\ Head(q) = q[1]
    BY <1>1, <1>8
  <2>2. /\ Tail(q) \in Seq(S) /\ Len(Tail(q)) = n - 1
        /\ \A k \in 1 .. n - 1 : Tail(q)[k] = q[k + 1]
    BY <1>1, <2>1, HeadTailProperties
  <2> QED
    BY <1>6, <1>8, <2>1, <2>2, SeqEqual
<1> QED
  BY <1>1, <1>7, <1>8

-----------------------------------------------------------------------------
\* A walk has not left the list, and what a call was asked for is still there
\* to be done when it comes to its end.
WalkInv ==
  /\ Left \in Nat
  /\ phase \notin {"seek", "find"} => req = Nil
  /\ phase \in {"idle", "gone"} => at = 0
  /\ phase = "seek" =>
       /\ req # Nil /\ req.op \in {"add", "del", "get"}
       /\ req.pos < size /\ at <= req.pos
       /\ req.op # "get" => req.pos > 0
       /\ req.op = "add" => Fresh(req.data)
  /\ phase = "find" => req # Nil /\ req.op = "find" /\ at <= size

\* The nodes that a search has passed were not wanted.
Tried(s) == phase = "find" => \A k \in 1 .. at : node[s[k]].data \notin req.want

\* s is the list, of n nodes.
Is(n, s) == n = Left /\ Rep(s) /\ Tried(s)

ListInv ==
  /\ ListTypeOK /\ WalkInv
  /\ \E n \in Nat : \E s \in [1 .. n -> Nodes] : Is(n, s)

\* A chain of nodes that is the list gives its elements.
RepFact ==
  ListTypeOK =>
    \A n \in Nat : \A s \in [1 .. n -> Nodes] :
      n = Left /\ Rep(s) =>
        /\ Linked(node, n, s)
        /\ Elements = Elems(node, n, s)
        /\ Elements \in [1 .. n -> Seq0!Element]

LEMMA Represents == RepFact
<1> SUFFICES ASSUME ListTypeOK,
                    NEW n \in Nat, NEW s \in [1 .. n -> Nodes], n = Left, Rep(s)
             PROVE  /\ Linked(node, n, s)
                    /\ Elements = Elems(node, n, s)
                    /\ Elements \in [1 .. n -> Seq0!Element]
  BY DEF RepFact
<1>1. \A t \in [1 .. n -> Nodes] : Rep(t) => Linked(node, n, t) /\ (n > 0 => t[1] = First)
  BY DEF Rep, Linked, Live
<1>2. Order \in [1 .. n -> Nodes] /\ Rep(Order)
  BY DEF Order
<1>3. Order = s
  BY <1>1, <1>2, OneOrder
<1>4. Elements = Elems(node, n, s)
  BY <1>3 DEF Elements, Elem, Elems
<1>5. \A k \in 1 .. n : Elem(node, s[k]) \in Seq0!Element
  <2> TAKE k \in 1 .. n
  <2>1. node[s[k]] \in Node
    BY <1>1 DEF Linked, ListTypeOK
  <2> QED
    BY <2>1 DEF Elem, Node, Seq0!Element
<1> QED
  BY <1>1, <1>4, <1>5 DEF Elems

LEMMA RepresentsNext == RepFact'
  BY Represents, PTL

\* What is known of the list at the start of a step.
LEMMA ListFacts ==
  ASSUME ListTypeOK, NEW n \in Nat, NEW s \in [1 .. n -> Nodes], Is(n, s)
  PROVE  /\ Linked(node, n, s)
         /\ Elements = Elems(node, n, s)
         /\ Elements \in [1 .. n -> Seq0!Element]
         /\ Elements \in Seq(Seq0!Element) /\ Len(Elements) = n /\ DOMAIN Elements = 1 .. n
         /\ \A k \in 1 .. n : node[s[k]] \in Node
         /\ n > 0 => First = s[1] /\ tail = s[n]
         /\ n = 0 => First = Nil /\ (Dropping \/ tail = Nil)
         /\ n > 0 /\ ~Dropping => node[s[1]].prev = Nil
         /\ \A d : Fresh(d) => Seq0!Fresh(d)
<1>1. /\ Linked(node, n, s)
      /\ Elements = Elems(node, n, s)
      /\ Elements \in [1 .. n -> Seq0!Element]
  BY Represents DEF RepFact, Is
<1>2. Elements \in Seq(Seq0!Element) /\ Len(Elements) = n /\ DOMAIN Elements = 1 .. n
  BY <1>1
<1>3. \A k \in 1 .. n : node[s[k]] \in Node
  BY <1>1 DEF Linked, ListTypeOK
<1>4. /\ n > 0 => First = s[1] /\ tail = s[n]
      /\ n = 0 => First = Nil /\ (Dropping \/ tail = Nil)
      /\ n > 0 /\ ~Dropping => node[s[1]].prev = Nil
  BY DEF Is, Rep
<1>5. ASSUME NEW d, Fresh(d) PROVE Seq0!Fresh(d)
  <2>1. \A k \in 1 .. n : Elements[k].data # d
    BY <1>1, <1>5 DEF Fresh, Live, Linked, Elem, Elems
  <2> QED
    BY <1>2, <1>5, <2>1 DEF Fresh, Seq0!Fresh
<1> QED
  BY <1>1, <1>2, <1>3, <1>4, <1>5

\* A step after which s is still the list, with the same nodes.
LEMMA Kept ==
  ASSUME ListInv, ListTypeOK', WalkInv', node' = node,
         NEW n \in Nat, NEW s \in [1 .. n -> Nodes], Is(n, s), Is(n, s)'
  PROVE  ListInv' /\ Elements' = Elements
<1>1. Elements = Elems(node, n, s)
  BY ListFacts DEF ListInv
<1>2. Elements' = Elems(node, n, s)
  BY RepresentsNext DEF RepFact, Is
<1> QED
  BY <1>1, <1>2 DEF ListInv

\* The step links in the node i after p others.
Inserting(n, s, i, p, d, o) ==
  /\ Is(n, s) /\ ~Dropping
  /\ node[i] = Nil
  /\ phase' = "idle" /\ size' = size + 1
  /\ head' = (IF p = 0 THEN i ELSE head) /\ tail' = (IF p = n THEN i ELSE tail)
  /\ node'[i] = New(IF p < n THEN s[p + 1] ELSE Nil, IF p > 0 THEN s[p] ELSE Nil, d, o)
  /\ \A x \in Nodes \ {i} :
       node'[x] = IF p > 0 /\ x = s[p] THEN [node[x] EXCEPT !.next = i]
                  ELSE IF p < n /\ x = s[p + 1] THEN [node[x] EXCEPT !.prev = i]
                  ELSE node[x]

LEMMA Inserted ==
  ASSUME ListInv, ListTypeOK', WalkInv',
         NEW n \in Nat, NEW s \in [1 .. n -> Nodes], NEW i \in Nodes, NEW p \in 0 .. n,
         NEW d \in Data, NEW o \in BOOLEAN, Inserting(n, s, i, p, d, o)
  PROVE  /\ ListInv'
         /\ Elements' = Seq0!InsertAt(Elements, p + 1, [data |-> d, own |-> o])
<1> USE DEF Inserting
<1> DEFINE t == With(s, n, p, i)
           e == [data |-> d, own |-> o]
<1>1. /\ ListTypeOK /\ Linked(node, n, s)
      /\ Elements = Elems(node, n, s)
      /\ Elements \in [1 .. n -> Seq0!Element]
      /\ \A k \in 1 .. n : node[s[k]] \in Node
      /\ n > 0 => head = s[1] /\ tail = s[n] /\ node[s[1]].prev = Nil
  BY ListFacts DEF ListInv, First
<1>2. Nil \notin Nodes /\ Nil \notin Node
  BY ListAssumption
<1>3. node'[i] \in Node /\ node'[i] # Nil /\ Elem(node', i) = e /\ e \in Seq0!Element
  <2>1. node'[i] \in Node
    BY DEF New, Node, Link
  <2> QED
    BY <1>2, <2>1 DEF New, Elem, Seq0!Element
<1>4. node \in [Nodes -> Node \cup {Nil}] /\ node' \in [Nodes -> Node \cup {Nil}]
  BY <1>1 DEF ListTypeOK
<1>5. \A x \in Nodes : node[x] # Nil => \E k \in 1 .. n : x = s[k]
  BY <1>1 DEF Linked
<1>6. 0 < p /\ p < n => s[p] # s[p + 1]
  BY <1>1 DEF Linked
<1>7. \A x \in Nodes \ {i} :
        /\ node'[x] = Nil <=> node[x] = Nil
        /\ node[x] # Nil =>
             /\ Elem(node', x) = Elem(node, x)
             /\ node'[x].next = IF p > 0 /\ x = s[p] THEN i ELSE node[x].next
             /\ node'[x].prev = IF p < n /\ x = s[p + 1] THEN i ELSE node[x].prev
  <2> TAKE x \in Nodes \ {i}
  <2>1. CASE p > 0 /\ x = s[p]
    <3>1. node[x] \in Node /\ node'[x] = [node[x] EXCEPT !.next = i]
      <4>1. p \in 1 .. n
        BY <2>1
      <4> QED
        BY <1>1, <2>1, <4>1
    <3>2. node'[x] \in Node
      BY <3>1 DEF Node, Link
    <3> QED
      BY <1>2, <1>6, <2>1, <3>1, <3>2 DEF Node, Elem
  <2>2. CASE ~(p > 0 /\ x = s[p]) /\ p < n /\ x = s[p + 1]
    <3>1. node[x] \in Node /\ node'[x] = [node[x] EXCEPT !.prev = i]
      <4>1. p + 1 \in 1 .. n
        BY <2>2
      <4> QED
        BY <1>1, <2>2, <4>1
    <3>2. node'[x] \in Node
      BY <3>1 DEF Node, Link
    <3> QED
      BY <1>2, <2>2, <3>1, <3>2 DEF Node, Elem
  <2>3. CASE ~(p > 0 /\ x = s[p]) /\ ~(p < n /\ x = s[p + 1])
    BY <2>3 DEF Elem
  <2> QED
    BY <2>1, <2>2, <2>3
<1>8. /\ t \in [1 .. n + 1 -> Nodes] /\ Linked(node', n + 1, t)
      /\ Elems(node', n + 1, t) = With(Elements, n, p, e)
  <2>1. /\ node'[i].next = IF p < n THEN s[p + 1] ELSE Nil
        /\ p > 0 => node'[i].prev = s[p]
    BY DEF New
  <2>2. PutIn(node, node', n, s, i, p)
    BY <1>1, <1>3, <1>4, <1>7, <2>1 DEF PutIn, Memory
  <2>3. /\ t \in [1 .. n + 1 -> Nodes] /\ Linked(node', n + 1, t)
        /\ Elems(node', n + 1, t)
             = With(Elems(node, n, s), n, p, Elem(node', i))
    BY <2>2, LinkedIn
  <2> QED
    BY <1>1, <1>3, <2>3, Zenon
<1>9. size = n /\ Left' = n + 1 /\ ~Dropping'
  BY DEF Is, Left, Dropping
<1>10. t[1] = head' /\ t[n + 1] = tail' /\ node'[t[1]].prev = Nil
  <2>1. CASE p = 0
    <3>1. t[1] = i
      BY <2>1 DEF With
    <3>2. node'[i].prev = Nil
      BY <2>1 DEF New
    <3>3. t[n + 1] = IF n = 0 THEN i ELSE s[n]
      BY <2>1 DEF With
    <3> QED
      BY <1>1, <2>1, <3>1, <3>2, <3>3
  <2>2. CASE p > 0
    <3>1. t[1] = s[1] /\ n > 0 /\ t[n + 1] = IF p = n THEN i ELSE s[n]
      BY <2>2 DEF With
    <3>2. s[1] \in Nodes \ {i} /\ node[s[1]] # Nil
      BY <1>1, <1>2, <3>1
    <3>3. node'[s[1]].prev = node[s[1]].prev
      <4>1. p < n => s[1] # s[p + 1]
        BY <1>1, <2>2 DEF Linked
      <4> QED
        BY <1>7, <3>2, <4>1
    <3> QED
      BY <1>1, <2>2, <3>1, <3>3
  <2> QED
    BY <2>1, <2>2
<1> HIDE DEF t, e
<1>11. Rep(t)' /\ Tried(t)'
  <2>1. /\ \A j, k \in 1 .. Left' : t[j] = t[k] => j = k
        /\ {j \in Nodes : node'[j] # Nil} = {t[k] : k \in 1 .. Left'}
    BY <1>8, <1>9 DEF Linked
  <2>2. \A k \in 1 .. Left' :
          /\ node'[t[k]].next = IF k < Left' THEN t[k + 1] ELSE Nil
          /\ IF k > 1 THEN node'[t[k]].prev = t[k - 1] ELSE node'[t[k]].prev = Nil
    <3> TAKE k \in 1 .. Left'
    <3>1. k \in 1 .. n + 1 /\ (k > 1 => k \in 2 .. n + 1) /\ (~(k > 1) => k = 1)
      BY <1>9
    <3> QED
      BY <1>8, <1>9, <1>10, <3>1 DEF Linked
  <2> QED
    BY <1>9, <1>10, <2>1, <2>2 DEF Rep, Tried, Live, First
<1>12. n + 1 \in Nat /\ Is(n + 1, t)'
  BY <1>9, <1>11 DEF Is
<1>13. Elements' = With(Elements, n, p, e)
  BY <1>8, <1>9, <1>11, <1>12, RepresentsNext DEF RepFact
<1>14. With(Elements, n, p, e) = Seq0!InsertAt(Elements, p + 1, e)
  BY <1>1, <1>3, WithIsInsertAt DEF e
<1> QED
  BY <1>8, <1>12, <1>13, <1>14 DEF ListInv, e

\* The step takes out the p-th node.
Removing(n, s, p) ==
  /\ Is(n, s)
  /\ Dropping => p = 1
  /\ (Dropping <=> Dropping') /\ phase' \notin {"seek", "find"}
  /\ Left' = n - 1
  /\ First' = IF p > 1 THEN First ELSE IF n > 1 THEN s[2] ELSE Nil
  /\ ~Dropping \/ n > 1 =>
       tail' = IF p < n THEN tail ELSE IF p > 1 THEN s[p - 1] ELSE Nil
  /\ node'[s[p]] = Nil
  /\ \A x \in Nodes \ {s[p]} :
       node'[x] = IF p > 1 /\ x = s[p - 1]
                  THEN [node[x] EXCEPT !.next = IF p < n THEN s[p + 1] ELSE Nil]
                  ELSE IF p < n /\ x = s[p + 1] /\ ~Dropping
                  THEN [node[x] EXCEPT !.prev = IF p > 1 THEN s[p - 1] ELSE Nil]
                  ELSE node[x]

LEMMA Removed ==
  ASSUME ListInv, ListTypeOK', WalkInv',
         NEW n \in Nat, NEW s \in [1 .. n -> Nodes], NEW p \in 1 .. n, Removing(n, s, p)
  PROVE  /\ ListInv'
         /\ Elements' = Seq0!RemoveAt(Elements, p)
         /\ p = 1 => /\ Elements' = Tail(Elements) /\ Elements # << >>
                     /\ Head(Elements) = Elem(node, s[1])
         /\ Elements[p] = Elem(node, s[p]) /\ p \in DOMAIN Elements
<1> USE DEF Removing
<1> DEFINE t == Without(s, n, p)
<1>1. /\ ListTypeOK /\ Linked(node, n, s)
      /\ Elements = Elems(node, n, s) /\ Elements \in [1 .. n -> Seq0!Element]
      /\ \A k \in 1 .. n : node[s[k]] \in Node
      /\ First = s[1] /\ tail = s[n] /\ (~Dropping => node[s[1]].prev = Nil)
  BY ListFacts DEF ListInv
<1>2. Nil \notin Nodes /\ Nil \notin Node
  BY ListAssumption
<1>3. node \in Memory /\ node' \in Memory
  BY <1>1 DEF ListTypeOK, Memory
<1>4. \A j, k \in 1 .. n : s[j] = s[k] => j = k
  BY <1>1 DEF Linked
<1>5. \A x \in Nodes : node[x] # Nil => \E k \in 1 .. n : x = s[k]
  BY <1>1 DEF Linked
<1>6. \A x \in Nodes \ {s[p]} :
        /\ node'[x] = Nil <=> node[x] = Nil
        /\ node[x] # Nil =>
             /\ Elem(node', x) = Elem(node, x)
             /\ node'[x].next = IF p > 1 /\ x = s[p - 1]
                                THEN IF p < n THEN s[p + 1] ELSE Nil
                                ELSE node[x].next
             /\ node'[x].prev = IF p < n /\ x = s[p + 1] /\ ~Dropping
                                THEN IF p > 1 THEN s[p - 1] ELSE Nil
                                ELSE node[x].prev
  <2> TAKE x \in Nodes \ {s[p]}
  <2>1. CASE p > 1 /\ x = s[p - 1]
    <3>1. p - 1 \in 1 .. n /\ (p < n => p + 1 \in 1 .. n /\ s[p + 1] # s[p - 1])
      BY <1>4, <2>1
    <3>2. /\ node[x] \in Node
          /\ node'[x] = [node[x] EXCEPT !.next = IF p < n THEN s[p + 1] ELSE Nil]
      BY <1>1, <2>1, <3>1
    <3>3. node'[x] \in Node
      BY <3>1, <3>2 DEF Node, Link
    <3> QED
      BY <1>2, <2>1, <3>1, <3>2, <3>3 DEF Node, Elem
  <2>2. CASE ~(p > 1 /\ x = s[p - 1]) /\ p < n /\ x = s[p + 1] /\ ~Dropping
    <3>1. p + 1 \in 1 .. n /\ (p > 1 => p - 1 \in 1 .. n)
      BY <2>2
    <3>2. /\ node[x] \in Node
          /\ node'[x] = [node[x] EXCEPT !.prev = IF p > 1 THEN s[p - 1] ELSE Nil]
      BY <1>1, <2>2, <3>1
    <3>3. node'[x] \in Node
      BY <3>1, <3>2 DEF Node, Link
    <3> QED
      BY <1>2, <2>2, <3>2, <3>3 DEF Node, Elem
  <2>3. CASE /\ ~(p > 1 /\ x = s[p - 1])
             /\ ~(p < n /\ x = s[p + 1] /\ ~Dropping)
    <3>1. node'[x] = node[x]
      BY <2>3
    <3> QED
      BY <2>3, <3>1 DEF Elem
  <2> QED
    BY <2>1, <2>2, <2>3
<1>7. TakenOut(node, node', n, s, p)
  BY <1>1, <1>3, <1>6 DEF TakenOut
<1>8. /\ t \in [1 .. n - 1 -> Nodes] /\ Linked(node', n - 1, t)
      /\ Elems(node', n - 1, t) = Without(Elements, n, p)
  <2>1. Elems(node', n - 1, t) = Without(Elems(node, n, s), n, p)
    BY <1>7, LinkedOut
  <2> QED
    BY <1>1, <1>7, <2>1, LinkedOut
<1>9. /\ n > 1 => t[1] = First' /\ t[n - 1] = tail'
      /\ n > 1 /\ ~Dropping => node'[t[1]].prev = Nil
  <2>1. CASE n > 1 /\ p = 1
    <3>1. t[1] = s[2] /\ t[n - 1] = s[n]
      BY <2>1 DEF Without
    <3>2. s[2] \in Nodes \ {s[p]} /\ node[s[2]] # Nil
      BY <1>1, <1>2, <1>4, <2>1
    <3>3. ~Dropping => node'[s[2]].prev = Nil
      BY <1>6, <2>1, <3>2
    <3> QED
      BY <1>1, <2>1, <3>1, <3>3
  <2>2. CASE p > 1
    <3>1. t[1] = s[1] /\ t[n - 1] = IF p < n THEN s[n] ELSE s[p - 1]
      BY <2>2 DEF Without
    <3>2. /\ s[1] \in Nodes \ {s[p]} /\ node[s[1]] # Nil
          /\ p < n => s[1] # s[p + 1]
      BY <1>1, <1>2, <1>4, <2>2
    <3>3. node'[s[1]].prev = node[s[1]].prev
      BY <1>6, <3>2
    <3> QED
      BY <1>1, <2>2, <3>1, <3>3
  <2> QED
    BY <2>1, <2>2
<1> HIDE DEF t
<1>10. Rep(t)' /\ Tried(t)'
  <2>1. /\ \A j, k \in 1 .. Left' : t[j] = t[k] => j = k
        /\ {j \in Nodes : node'[j] # Nil} = {t[k] : k \in 1 .. Left'}
    BY <1>8 DEF Linked
  <2>2. \A k \in 1 .. Left' :
          /\ node'[t[k]].next = IF k < Left' THEN t[k + 1] ELSE Nil
          /\ IF k > 1 THEN node'[t[k]].prev = t[k - 1]
                      ELSE Dropping' \/ node'[t[k]].prev = Nil
    <3> TAKE k \in 1 .. Left'
    <3>1. k \in 1 .. n - 1 /\ (k > 1 => k \in 2 .. n - 1) /\ (~(k > 1) => k = 1)
          /\ n > 1
      OBVIOUS
    <3> QED
      BY <1>8, <1>9, <3>1 DEF Linked
  <2>3. IF Left' = 0 THEN First' = Nil /\ (Dropping' \/ tail' = Nil)
                     ELSE First' = t[1] /\ tail' = t[Left']
    BY <1>9
  <2> QED
    BY <2>1, <2>2, <2>3 DEF Rep, Tried, Live
<1>11. n - 1 \in Nat /\ Is(n - 1, t)'
  BY <1>10 DEF Is
<1>12. Elements' = Without(Elements, n, p)
  BY <1>8, <1>10, <1>11, RepresentsNext DEF RepFact
<1>13. Elements[p] = Elem(node, s[p]) /\ DOMAIN Elements = 1 .. n
  BY <1>1 DEF Elems
<1> QED
  BY <1>1, <1>8, <1>11, <1>12, <1>13, WithoutIsRemoveAt DEF ListInv

-----------------------------------------------------------------------------
\* The operations, one by one.

\* A node is added at once, before all others or after them.
LEMMA AddStep ==
  ASSUME ListInv, NEW i \in Nodes, NEW d \in Data, NEW o \in BOOLEAN,
         AddFirst(i, d, o) \/ AddHead(i, d, o) \/ AddTail(i, d, o)
  PROVE  ListInv' /\ Seq0!Next
<1> DEFINE e == [data |-> d, own |-> o]
<1>1. PICK n \in Nat : \E s \in [1 .. n -> Nodes] : Is(n, s)
  BY DEF ListInv
<1>2. PICK s \in [1 .. n -> Nodes] : Is(n, s)
  BY <1>1
<1>3. /\ ListTypeOK /\ WalkInv /\ phase = "idle" /\ ~Dropping /\ n = size
      /\ node[i] = Nil /\ Fresh(d)
  BY <1>2 DEF ListInv, AddFirst, AddHead, AddTail, Dropping, Is, Left
<1>4. /\ \A k \in 1 .. n : node[s[k]] \in Node
      /\ n > 0 => head = s[1] /\ tail = s[n]
      /\ Len(Elements) = n /\ Seq0!Fresh(d) /\ e \in Seq0!Element
  BY <1>2, <1>3, ListFacts DEF First, Seq0!Element
<1>5. /\ phase' = "idle" /\ size' = size + 1 /\ req' = req /\ cur' = cur /\ at' = at
      /\ result' = result /\ destroyed' = destroyed
  BY <1>3 DEF AddFirst, AddHead, AddTail, call, ListTypeOK
<1>6. PICK p \in {0, n} :
        /\ head' = IF p = 0 THEN i ELSE head
        /\ tail' = IF p = n THEN i ELSE tail
        /\ node'[i] = New(IF p < n THEN s[p + 1] ELSE Nil,
                          IF p > 0 THEN s[p] ELSE Nil, d, o)
        /\ \A x \in Nodes \ {i} :
             node'[x] = IF p > 0 /\ x = s[p] THEN [node[x] EXCEPT !.next = i]
                        ELSE IF p < n /\ x = s[p + 1]
                        THEN [node[x] EXCEPT !.prev = i] ELSE node[x]
        /\ node' \in [Nodes -> Node \cup {Nil}]
  <2>1. CASE AddFirst(i, d, o)
    <3>1. n = 0 /\ node' = [node EXCEPT ![i] = New(Nil, Nil, d, o)]
          /\ head' = i /\ tail' = i
      BY <1>3, <2>1 DEF AddFirst
    <3>2. New(Nil, Nil, d, o) \in Node
      BY DEF New, Node, Link
    <3> QED
      BY <1>3, <3>1, <3>2 DEF ListTypeOK
  <2>2. CASE AddHead(i, d, o)
    <3>1. n > 0 /\ head' = i /\ tail' = tail /\ head = s[1] /\ s[1] \in Nodes \ {i}
          /\ node' = [node EXCEPT ![i] = New(head, Nil, d, o), ![head].prev = i]
      BY <1>3, <1>4, <2>2, ListAssumption DEF AddHead
    <3>2. New(head, Nil, d, o) \in Node /\ [node[s[1]] EXCEPT !.prev = i] \in Node
      BY <1>4, <3>1 DEF New, Node, Link
    <3> QED
      BY <1>3, <3>1, <3>2 DEF ListTypeOK
  <2>3. CASE AddTail(i, d, o)
    <3>1. n > 0 /\ head' = head /\ tail' = i /\ tail = s[n] /\ s[n] \in Nodes \ {i}
          /\ node' = [node EXCEPT ![i] = New(Nil, tail, d, o), ![tail].next = i]
      BY <1>3, <1>4, <2>3, ListAssumption DEF AddTail
    <3>2. New(Nil, tail, d, o) \in Node /\ [node[s[n]] EXCEPT !.next = i] \in Node
      BY <1>4, <3>1 DEF New, Node, Link
    <3> QED
      BY <1>3, <3>1, <3>2 DEF ListTypeOK
  <2> QED
    BY <2>1, <2>2, <2>3
<1>7. ListTypeOK' /\ WalkInv'
  BY <1>3, <1>5, <1>6 DEF ListTypeOK, WalkInv, Left, Dropping, Link
<1>8. ListInv' /\ Elements' = Seq0!InsertAt(Elements, p + 1, e)
  <2>1. Inserting(n, s, i, p, d, o) /\ p \in 0 .. n
    BY <1>2, <1>3, <1>5, <1>6 DEF Inserting
  <2> QED
    BY <1>7, <2>1, Inserted
<1>9. req = Nil
  BY <1>3 DEF WalkInv
<1>10. Seq0!Add(p, e)
  BY <1>4, <1>5, <1>8, <1>9 DEF Seq0!Add
<1> QED
  BY <1>4, <1>8, <1>10 DEF Seq0!Next

\* A node is linked in where the walk has ended.
LEMMA InsertStep ==
  ASSUME ListInv, NEW i \in Nodes, InsertBefore(i)
  PROVE  ListInv' /\ Seq0!Next
<1>1. PICK n \in Nat : \E s \in [1 .. n -> Nodes] : Is(n, s)
  BY DEF ListInv
<1>2. PICK s \in [1 .. n -> Nodes] : Is(n, s)
  BY <1>1
<1>3. /\ ListTypeOK /\ WalkInv /\ phase = "seek" /\ ~Dropping /\ n = size
      /\ node[i] = Nil /\ req.op = "add" /\ at = req.pos
  BY <1>2 DEF ListInv, InsertBefore, Arrived, Dropping, Is, Left
<1>4. /\ req # Nil /\ req.pos \in 1 .. n - 1 /\ Fresh(req.data)
      /\ req.data \in Data /\ req.own \in BOOLEAN
  BY <1>3 DEF ListTypeOK, WalkInv, Request
<1>5. PICK p \in 1 .. n - 1, d \in Data, o \in BOOLEAN :
        p = req.pos /\ d = req.data /\ o = req.own
  BY <1>4
<1> DEFINE e == [data |-> d, own |-> o]
<1>6. /\ \A k \in 1 .. n : node[s[k]] \in Node
      /\ Linked(node, n, s)
      /\ Len(Elements) = n /\ Seq0!Fresh(d) /\ e \in Seq0!Element
  BY <1>2, <1>3, <1>4, <1>5, ListFacts DEF Seq0!Element
<1>7. /\ phase' = "idle" /\ size' = size + 1 /\ req' = Nil /\ cur' = Nil /\ at' = 0
      /\ result' = result /\ destroyed' = destroyed
      /\ head' = head /\ tail' = tail
  BY DEF InsertBefore, Return
<1>8. /\ cur = s[p + 1] /\ p + 1 \in 2 .. n /\ p \in 1 .. n /\ p + 1 \in 1 .. n
      /\ p > 0 /\ p < n /\ p # n /\ p # 0 /\ p \in 0 .. n
  BY <1>2, <1>3, <1>5 DEF Is, Rep
<1>9. node[cur].prev = s[p] /\ s[p] # s[p + 1] /\ s[p] # i /\ s[p + 1] # i
  BY <1>3, <1>6, <1>8, ListAssumption DEF Linked
<1>10. node' = [node EXCEPT ![i] = New(s[p + 1], s[p], d, o),
                            ![s[p]].next = i, ![s[p + 1]].prev = i]
  BY <1>5, <1>8, <1>9 DEF InsertBefore
<1>11. /\ head' = IF p = 0 THEN i ELSE head
       /\ tail' = IF p = n THEN i ELSE tail
       /\ node'[i] = New(IF p < n THEN s[p + 1] ELSE Nil,
                         IF p > 0 THEN s[p] ELSE Nil, d, o)
       /\ \A x \in Nodes \ {i} :
            node'[x] = IF p > 0 /\ x = s[p] THEN [node[x] EXCEPT !.next = i]
                       ELSE IF p < n /\ x = s[p + 1]
                       THEN [node[x] EXCEPT !.prev = i] ELSE node[x]
       /\ node' \in [Nodes -> Node \cup {Nil}]
  <2>1. /\ New(s[p + 1], s[p], d, o) \in Node
        /\ [node[s[p]] EXCEPT !.next = i] \in Node
        /\ [node[s[p + 1]] EXCEPT !.prev = i] \in Node
    BY <1>6, <1>8 DEF New, Node, Link
  <2> QED
    BY <1>3, <1>7, <1>8, <1>9, <1>10, <2>1 DEF ListTypeOK
<1>12. ListTypeOK' /\ WalkInv'
  BY <1>3, <1>7, <1>11 DEF ListTypeOK, WalkInv, Left, Dropping, Link
<1>13. ListInv' /\ Elements' = Seq0!InsertAt(Elements, p + 1, e)
  <2>1. Inserting(n, s, i, p, d, o)
    BY <1>2, <1>3, <1>7, <1>11 DEF Inserting
  <2> QED
    BY <1>8, <1>12, <2>1, Inserted
<1>14. Seq0!Add(p, e)
  BY <1>3, <1>4, <1>5, <1>6, <1>7, <1>13 DEF Seq0!Add, Seq0!Asked
<1> QED
  BY <1>6, <1>8, <1>13, <1>14 DEF Seq0!Next

\* A call that walks to a position begins.
LEMMA StartStep ==
  ASSUME ListInv, phase = "idle", NEW r \in Request, Start(r), r # Nil,
         r.op \in {"add", "del", "get"}, r.pos \in Nat, r.pos < size,
         r.op # "get" => r.pos > 0, r.op = "add" => Fresh(r.data)
  PROVE  ListInv' /\ Seq0!Next
<1>1. PICK n \in Nat : \E s \in [1 .. n -> Nodes] : Is(n, s)
  BY DEF ListInv
<1>2. PICK s \in [1 .. n -> Nodes] : Is(n, s)
  BY <1>1
<1>3. /\ ListTypeOK /\ WalkInv /\ ~Dropping /\ n = size /\ req = Nil /\ n > 0
      /\ r \in Seq0!Request
  BY <1>2 DEF ListInv, WalkInv, Dropping, Is, Left, Request, Seq0!Request, ListTypeOK
<1>4. head = s[1]
  BY <1>2, <1>3, ListFacts DEF First
<1>5. /\ phase' = "seek" /\ req' = r /\ cur' = head /\ at' = 0
      /\ head' = head /\ tail' = tail /\ size' = size /\ node' = node
      /\ result' = result /\ destroyed' = destroyed
  BY DEF Start, list
<1>6. ListTypeOK' /\ WalkInv'
  <2>1. Fresh(r.data)' <=> Fresh(r.data)
    BY <1>5 DEF Fresh, Live
  <2> QED
    BY <1>3, <1>5, <2>1 DEF ListTypeOK, WalkInv, Left, Dropping, Fresh, Live
<1>7. Is(n, s)'
  BY <1>2, <1>3, <1>4, <1>5 DEF Is, Rep, Tried, Left, First, Dropping, Live
<1>8. ListInv' /\ Elements' = Elements
  BY <1>2, <1>5, <1>6, <1>7, Kept
<1> QED
  BY <1>3, <1>5, <1>8 DEF Seq0!Next, Seq0!Call

\* A search begins.
LEMMA FindStep ==
  ASSUME ListInv, NEW W \in SUBSET Data, FindStart(W)
  PROVE  ListInv' /\ Seq0!Next
<1> DEFINE r == [op |-> "find", want |-> W]
<1>1. PICK n \in Nat : \E s \in [1 .. n -> Nodes] : Is(n, s)
  BY DEF ListInv
<1>2. PICK s \in [1 .. n -> Nodes] : Is(n, s)
  BY <1>1
<1>3. /\ ListTypeOK /\ WalkInv /\ ~Dropping /\ n = size /\ req = Nil /\ n > 0
  BY <1>2 DEF ListInv, WalkInv, Dropping, Is, Left, FindStart
<1>4. r \in Request /\ r \in Seq0!Request /\ r # Nil /\ r.op = "find"
  BY ListAssumption DEF Request, Seq0!Request
<1>5. head = s[1]
  BY <1>2, <1>3, ListFacts DEF First
<1>6. /\ phase' = "find" /\ req' = r /\ cur' = head /\ at' = 0
      /\ head' = head /\ tail' = tail /\ size' = size /\ node' = node
      /\ result' = result /\ destroyed' = destroyed
  BY DEF FindStart, list
<1> HIDE DEF r
<1>7. ListTypeOK' /\ WalkInv'
  BY <1>3, <1>4, <1>6 DEF ListTypeOK, WalkInv, Left, Dropping
<1>8. Is(n, s)'
  BY <1>2, <1>3, <1>5, <1>6 DEF Is, Rep, Tried, Left, First, Dropping, Live
<1>9. ListInv' /\ Elements' = Elements
  BY <1>2, <1>6, <1>7, <1>8, Kept
<1> QED
  BY <1>3, <1>4, <1>6, <1>9 DEF Seq0!Next, Seq0!Call

\* A walk goes one node further, to a position or in a search.
LEMMA WalkOn ==
  ASSUME ListInv, Seek \/ FindOn
  PROVE  ListInv' /\ UNCHANGED Seq0!vars
<1>1. PICK n \in Nat : \E s \in [1 .. n -> Nodes] : Is(n, s)
  BY DEF ListInv
<1>2. PICK s \in [1 .. n -> Nodes] : Is(n, s)
  BY <1>1
<1>3. /\ ListTypeOK /\ WalkInv /\ ~Dropping /\ n = size /\ at \in Nat /\ at < n
      /\ phase \in {"seek", "find"}
      /\ phase = "seek" => req.pos \in Nat /\ at # req.pos
  BY <1>2 DEF ListInv, WalkInv, Dropping, Is, Left, ListTypeOK, Request, Seek, FindOn
<1>4. cur = s[at + 1] /\ at + 1 \in 1 .. n
  BY <1>2, <1>3 DEF Is, Rep
<1>5. /\ cur' = node[cur].next /\ at' = at + 1 /\ phase' = phase /\ req' = req
      /\ head' = head /\ tail' = tail /\ size' = size /\ node' = node
      /\ result' = result /\ destroyed' = destroyed
      /\ phase = "find" => node[cur].data \notin req.want
  BY DEF Seek, FindOn, list
<1>6. cur' = IF at' < n THEN s[at' + 1] ELSE Nil
  <2>1. node[s[at + 1]].next = IF at + 1 < n THEN s[(at + 1) + 1] ELSE Nil
    <3>1. Linked(node, n, s)
      BY <1>2, <1>3, ListFacts
    <3> QED
      BY <1>4, <3>1 DEF Linked
  <2> QED
    BY <1>4, <1>5, <2>1
<1>7. cur' \in Link
  BY <1>3, <1>5, <1>6 DEF Link
<1>8. ListTypeOK' /\ WalkInv'
  BY <1>3, <1>5, <1>7 DEF ListTypeOK, WalkInv, Left, Dropping, Fresh, Live
<1>9. Rep(s)'
  BY <1>2, <1>3, <1>5, <1>6 DEF Is, Rep, Left, First, Dropping, Live
<1>10. Tried(s)'
  BY <1>2, <1>3, <1>4, <1>5 DEF Is, Tried
<1>11. Is(n, s)'
  BY <1>2, <1>3, <1>5, <1>9, <1>10 DEF Is, Left, Dropping
<1>12. ListInv' /\ Elements' = Elements
  BY <1>2, <1>5, <1>8, <1>11, Kept
<1> QED
  BY <1>5, <1>12 DEF Seq0!vars

\* A call returns without having changed the list.
LEMMA ReturnStep ==
  ASSUME ListInv, InsertFail \/ GetDone \/ Found \/ NotFound
  PROVE  ListInv' /\ Seq0!Next
<1>1. PICK n \in Nat : \E s \in [1 .. n -> Nodes] : Is(n, s)
  BY DEF ListInv
<1>2. PICK s \in [1 .. n -> Nodes] : Is(n, s)
  BY <1>1
<1>3. /\ ListTypeOK /\ WalkInv /\ ~Dropping /\ n = size /\ at \in Nat /\ at <= n
      /\ phase \in {"seek", "find"} /\ req # Nil
  BY <1>2 DEF ListInv, WalkInv, Dropping, Is, Left, ListTypeOK, Request,
              InsertFail, GetDone, Found, NotFound, Arrived
<1>4. cur = IF at < n THEN s[at + 1] ELSE Nil
  BY <1>2, <1>3 DEF Is, Rep
<1>5. /\ cur' = Nil /\ at' = 0 /\ phase' = "idle" /\ req' = Nil
      /\ head' = head /\ tail' = tail /\ size' = size /\ node' = node
      /\ destroyed' = destroyed
  BY DEF InsertFail, GetDone, Found, NotFound, Return, list
<1>6. /\ Elements = Elems(node, n, s) /\ DOMAIN Elements = 1 .. n
      /\ \A k \in 1 .. n : node[s[k]] \in Node
      /\ \A k \in 1 .. n : Elements[k].data = node[s[k]].data
  BY <1>2, <1>3, ListFacts DEF Elems, Elem
<1>7. at < n => cur \in Nodes /\ node[cur] \in Node /\ node[cur].data \in Data
               /\ at + 1 \in 1 .. n /\ Elements[at + 1].data = node[cur].data
  BY <1>3, <1>4, <1>6 DEF Node
<1>8. /\ InsertFail => result' = result /\ req.op = "add"
      /\ GetDone => result' = node[cur].data /\ at < n /\ req.op = "get" /\ at = req.pos
      /\ Found => /\ result' = node[cur].data /\ at < n /\ req.op = "find"
                  /\ phase = "find" /\ node[cur].data \in req.want
      /\ NotFound => result' = Nil /\ at = n /\ req.op = "find" /\ phase = "find"
  <2>1. InsertFail => result' = result /\ req.op = "add"
    BY DEF InsertFail, Return, Arrived
  <2>2. GetDone => result' = node[cur].data /\ at < n /\ req.op = "get" /\ at = req.pos
    BY <1>3 DEF GetDone, Return, Arrived, WalkInv
  <2>3. Found => /\ result' = node[cur].data /\ at < n /\ req.op = "find"
                 /\ phase = "find" /\ node[cur].data \in req.want
    BY <1>3 DEF Found, Return, WalkInv
  <2>4. NotFound => result' = Nil /\ at = n /\ req.op = "find" /\ phase = "find"
    <3>1. cur = Nil => at = n
      BY <1>3, <1>4, <1>7, ListAssumption
    <3> QED
      BY <1>3, <3>1 DEF NotFound, Return, WalkInv
  <2> QED
    BY <2>1, <2>2, <2>3, <2>4
<1>9. result' \in Data \cup {Nil}
  BY <1>3, <1>7, <1>8 DEF ListTypeOK
<1>10. ListTypeOK' /\ WalkInv'
  BY <1>3, <1>5, <1>9 DEF ListTypeOK, WalkInv, Left, Dropping, Link
<1>11. Is(n, s)'
  BY <1>2, <1>3, <1>5 DEF Is, Rep, Tried, Left, First, Dropping, Live
<1>12. ListInv' /\ Elements' = Elements
  BY <1>2, <1>5, <1>10, <1>11, Kept
<1>13. CASE InsertFail
  BY <1>3, <1>5, <1>8, <1>12, <1>13 DEF Seq0!Next, Seq0!Fail, Seq0!Asked
<1>14. CASE GetDone
  BY <1>3, <1>5, <1>7, <1>8, <1>12, <1>14 DEF Seq0!Next, Seq0!Get, Seq0!Asked
<1>15. Found \/ NotFound => \A k \in 1 .. at : Elements[k].data \notin req.want
  <2>1. Found \/ NotFound => \A k \in 1 .. at : node[s[k]].data \notin req.want
    BY <1>2, <1>8 DEF Is, Tried
  <2> QED
    BY <1>3, <1>6, <2>1
<1>16. CASE Found
  <2>1. /\ at + 1 \in DOMAIN Elements /\ Elements[at + 1].data \in req.want
        /\ result' = Elements[at + 1].data
        /\ \A j \in 1 .. (at + 1) - 1 : Elements[j].data \notin req.want
    BY <1>3, <1>6, <1>7, <1>8, <1>15, <1>16
  <2>2. Seq0!Find
    BY <1>3, <1>5, <1>8, <1>12, <1>16, <2>1 DEF Seq0!Find, Seq0!Asked
  <2> QED
    BY <1>12, <2>2 DEF Seq0!Next
<1>17. CASE NotFound
  <2>1. Seq0!Find
    BY <1>3, <1>5, <1>6, <1>8, <1>12, <1>15, <1>17 DEF Seq0!Find, Seq0!Asked
  <2> QED
    BY <1>12, <2>1 DEF Seq0!Next
<1> QED
  BY <1>13, <1>14, <1>16, <1>17

\* The node where a walk has ended is taken out.
LEMMA UnlinkStep ==
  ASSUME ListInv, Unlink
  PROVE  ListInv' /\ Seq0!Next
<1>1. PICK n \in Nat : \E s \in [1 .. n -> Nodes] : Is(n, s)
  BY DEF ListInv
<1>2. PICK s \in [1 .. n -> Nodes] : Is(n, s)
  BY <1>1
<1>3. /\ ListTypeOK /\ WalkInv /\ phase = "seek" /\ ~Dropping /\ n = size
      /\ req.op = "del" /\ at = req.pos /\ req # Nil
      /\ req.pos \in Nat /\ req.pos > 0 /\ req.pos < n
  BY <1>2 DEF ListInv, WalkInv, Unlink, Arrived, Dropping, Is, Left, ListTypeOK, Request
<1>4. PICK p \in 2 .. n : p = req.pos + 1
  BY <1>3
<1>5. /\ Linked(node, n, s) /\ head = s[1] /\ tail = s[n]
      /\ Len(Elements) = n /\ DOMAIN Elements = 1 .. n
      /\ \A k \in 1 .. n : node[s[k]] \in Node
  BY <1>2, <1>3, <1>4, ListFacts DEF First
<1>6. /\ p \in 1 .. n /\ p - 1 \in 1 .. n /\ p > 1
      /\ p < n => p + 1 \in 1 .. n
  OBVIOUS
<1>8. /\ node[s[p]].prev = s[p - 1]
      /\ p < n => node[s[p]].next = s[p + 1]
      /\ s[p - 1] # s[p] /\ (p < n => s[p + 1] # s[p] /\ s[p + 1] # s[p - 1])
  BY <1>5, <1>6 DEF Linked
<1>9. cur = s[p] /\ (cur = tail <=> p = n) /\ s[p] \in Nodes /\ s[p - 1] \in Nodes
  <2>1. cur = s[p]
    BY <1>2, <1>3, <1>4 DEF Is, Rep
  <2>2. s[p] = s[n] <=> p = n
    BY <1>5, <1>6 DEF Linked
  <2> QED
    BY <1>5, <1>6, <2>1, <2>2
<1>10. /\ phase' = "idle" /\ size' = size - 1 /\ req' = Nil /\ cur' = Nil /\ at' = 0
       /\ result' = IF node[s[p]].own THEN Nil ELSE node[s[p]].data
       /\ destroyed' = destroyed \cup Destroyed(s[p]) /\ head' = head
  BY <1>9 DEF Unlink, Return
<1>11. /\ tail' = IF p < n THEN tail ELSE s[p - 1]
       /\ node' \in [Nodes -> Node \cup {Nil}]
       /\ node'[s[p]] = Nil
       /\ \A x \in Nodes \ {s[p]} :
            node'[x] = IF p > 1 /\ x = s[p - 1]
                       THEN [node[x] EXCEPT !.next = IF p < n THEN s[p + 1] ELSE Nil]
                       ELSE IF p < n /\ x = s[p + 1] /\ ~Dropping
                       THEN [node[x] EXCEPT !.prev = IF p > 1 THEN s[p - 1] ELSE Nil]
                       ELSE node[x]
  <2>1. node \in [Nodes -> Node \cup {Nil}]
    BY <1>3 DEF ListTypeOK
  <2>2. CASE p = n
    <3>1. node' = [node EXCEPT ![s[p - 1]].next = Nil, ![s[p]] = Nil] /\ tail' = s[p - 1]
      BY <1>8, <1>9, <2>2 DEF Unlink
    <3>2. [node[s[p - 1]] EXCEPT !.next = Nil] \in Node
      BY <1>5, <1>6 DEF Node, Link
    <3> QED
      BY <1>3, <1>6, <1>8, <1>9, <2>1, <2>2, <3>1, <3>2
  <2>3. CASE p < n
    <3>1. /\ node' = [node EXCEPT ![s[p - 1]].next = s[p + 1],
                                  ![s[p + 1]].prev = s[p - 1], ![s[p]] = Nil]
          /\ tail' = tail
      BY <1>8, <1>9, <2>3 DEF Unlink
    <3>2. /\ [node[s[p - 1]] EXCEPT !.next = s[p + 1]] \in Node
          /\ [node[s[p + 1]] EXCEPT !.prev = s[p - 1]] \in Node
      BY <1>5, <1>6, <2>3 DEF Node, Link
    <3> QED
      BY <1>3, <1>6, <1>8, <1>9, <2>1, <2>3, <3>1, <3>2
  <2>4. p = n \/ p < n
    OBVIOUS
  <2> QED
    BY <2>2, <2>3, <2>4, Zenon
<1>12. /\ head' \in Link /\ tail' \in Link /\ size' \in Nat
       /\ result' \in Data \cup {Nil} /\ destroyed' \subseteq Data
  BY <1>3, <1>5, <1>6, <1>10, <1>11 DEF ListTypeOK, Link, Node, Destroyed
<1>13. ListTypeOK' /\ WalkInv'
  BY <1>3, <1>10, <1>11, <1>12 DEF ListTypeOK, WalkInv, Left, Dropping, Link
<1>14. Removing(n, s, p)
  <2>1. Left' = n - 1 /\ ~Dropping' /\ First' = First
    BY <1>3, <1>10 DEF Left, First, Dropping
  <2> QED
    BY <1>2, <1>3, <1>6, <1>10, <1>11, <2>1 DEF Removing
<1>15. ListInv' /\ Elements' = Seq0!RemoveAt(Elements, p)
       /\ Elements[p] = Elem(node, s[p]) /\ p \in DOMAIN Elements
  BY <1>6, <1>13, <1>14, Removed
<1>16. Seq0!Delete(p)
  <2>1. Seq0!Destroyed(Elements[p]) = Destroyed(s[p])
    BY <1>15 DEF Seq0!Destroyed, Destroyed, Elem
  <2>2. /\ Elements[p].own = node[s[p]].own /\ Elements[p].data = node[s[p]].data
    BY <1>15 DEF Elem
  <2> QED
    BY <1>3, <1>4, <1>10, <1>15, <2>1, <2>2 DEF Seq0!Delete, Seq0!Asked
<1> QED
  BY <1>15, <1>16 DEF Seq0!Next

\* The head is taken out.
LEMMA CutStep ==
  ASSUME ListInv, DeleteHead \/ PopHead
  PROVE  ListInv' /\ Seq0!Next
<1>1. PICK n \in Nat : \E s \in [1 .. n -> Nodes] : Is(n, s)
  BY DEF ListInv
<1>2. PICK s \in [1 .. n -> Nodes] : Is(n, s)
  BY <1>1
<1>3. /\ ListTypeOK /\ WalkInv /\ phase = "idle" /\ ~Dropping /\ n = size
      /\ req = Nil /\ at = 0 /\ n > 0 /\ 1 \in 1 .. n /\ CutHead
  BY <1>2 DEF ListInv, WalkInv, CutHead, DeleteHead, PopHead, Dropping, Is, Left
<1>4. /\ Linked(node, n, s) /\ head = s[1] /\ tail = s[n]
      /\ Len(Elements) = n /\ DOMAIN Elements = 1 .. n
      /\ \A k \in 1 .. n : node[s[k]] \in Node
  BY <1>2, <1>3, ListFacts DEF First
<1>5. /\ node[s[1]].next = IF n > 1 THEN s[2] ELSE Nil
      /\ n > 1 => 2 \in 1 .. n /\ s[2] # s[1] /\ s[2] \in Nodes
      /\ s[1] \in Nodes /\ Nil \notin Nodes
  <2>1. n > 1 => 2 \in 1 .. n
    OBVIOUS
  <2>2. 1 + 1 = 2
    OBVIOUS
  <2> QED
    BY <1>3, <1>4, <2>1, <2>2, ListAssumption DEF Linked
<1>6. /\ phase' = phase /\ size' = size - 1 /\ req' = req /\ cur' = cur /\ at' = at
      /\ head' = node[s[1]].next /\ tail' = IF n = 1 THEN Nil ELSE tail
  BY <1>3, <1>4 DEF CutHead, call
<1>7. /\ node' \in [Nodes -> Node \cup {Nil}]
      /\ node'[s[1]] = Nil
      /\ \A x \in Nodes \ {s[1]} :
           node'[x] = IF 1 < n /\ x = s[1 + 1] /\ ~Dropping
                      THEN [node[x] EXCEPT !.prev = Nil] ELSE node[x]
  <2>1. node \in [Nodes -> Node \cup {Nil}]
    BY <1>3 DEF ListTypeOK
  <2>2. CASE n = 1
    <3>1. node' = [node EXCEPT ![s[1]] = Nil]
      BY <1>3, <1>4, <1>5, <2>2 DEF CutHead
    <3> QED
      BY <1>5, <2>1, <2>2, <3>1
  <2>3. CASE n > 1
    <3>1. node' = [node EXCEPT ![s[1]] = Nil, ![s[2]].prev = Nil]
      BY <1>3, <1>4, <1>5, <2>3 DEF CutHead
    <3>2. [node[s[2]] EXCEPT !.prev = Nil] \in Node
      BY <1>4, <1>5, <2>3 DEF Node, Link
    <3> QED
      BY <1>3, <1>5, <2>1, <2>3, <3>1, <3>2
  <2> QED
    BY <1>3, <2>2, <2>3
<1>8. /\ DeleteHead => /\ destroyed' = destroyed \cup Destroyed(s[1])
                       /\ result' = IF node[s[1]].own THEN Nil ELSE node[s[1]].data
      /\ PopHead => destroyed' = destroyed /\ result' = node[s[1]].data
  BY <1>4 DEF DeleteHead, PopHead
<1>9. /\ head' \in Link /\ tail' \in Link /\ size' \in Nat
      /\ result' \in Data \cup {Nil} /\ destroyed' \subseteq Data
  <2>1. node[s[1]].data \in Data
    BY <1>3, <1>4 DEF Node
  <2>2. result' \in Data \cup {Nil} /\ destroyed' \subseteq Data
    BY <1>3, <1>8, <2>1 DEF ListTypeOK, Destroyed
  <2>3. head' \in Link /\ tail' \in Link
    BY <1>3, <1>5, <1>6 DEF ListTypeOK, Link
  <2> QED
    BY <1>3, <1>6, <2>2, <2>3
<1>10. ListTypeOK' /\ WalkInv'
  BY <1>3, <1>6, <1>7, <1>9 DEF ListTypeOK, WalkInv, Left, Dropping, Link
<1>11. Removing(n, s, 1)
  <2>1. Left' = n - 1 /\ ~Dropping' /\ First' = head'
    BY <1>3, <1>6 DEF Left, First, Dropping
  <2> QED
    BY <1>2, <1>3, <1>5, <1>6, <1>7, <2>1 DEF Removing
<1>12. /\ ListInv' /\ Elements' = Seq0!RemoveAt(Elements, 1)
       /\ Elements' = Tail(Elements) /\ Elements # << >>
       /\ Head(Elements) = Elem(node, s[1]) /\ Elements[1] = Elem(node, s[1])
       /\ 1 \in DOMAIN Elements
  BY <1>3, <1>10, <1>11, Removed
<1>13. /\ Elements[1].own = node[s[1]].own /\ Elements[1].data = node[s[1]].data
       /\ Head(Elements).data = node[s[1]].data
       /\ Seq0!Destroyed(Elements[1]) = Destroyed(s[1])
  BY <1>12 DEF Elem, Seq0!Destroyed, Destroyed
<1>14. CASE DeleteHead
  BY <1>3, <1>6, <1>8, <1>12, <1>13, <1>14 DEF Seq0!Next, Seq0!Delete
<1>15. CASE PopHead
  BY <1>3, <1>6, <1>8, <1>12, <1>13, <1>15 DEF Seq0!Next, Seq0!Pop
<1> QED
  BY <1>14, <1>15

\* Clear and the destructor: they begin, free one node after the other, and end.
LEMMA DropStartStep ==
  ASSUME ListInv, NEW p \in {"clear", "destroy"}, DropStart(p)
  PROVE  ListInv' /\ UNCHANGED Seq0!vars
<1>1. PICK n \in Nat : \E s \in [1 .. n -> Nodes] : Is(n, s)
  BY DEF ListInv
<1>2. PICK s \in [1 .. n -> Nodes] : Is(n, s)
  BY <1>1
<1>3. /\ ListTypeOK /\ WalkInv /\ ~Dropping /\ n = size /\ req = Nil /\ at = 0
  BY <1>2 DEF ListInv, WalkInv, DropStart, Dropping, Is, Left
<1>4. /\ phase' = p /\ cur' = head /\ at' = at /\ req' = req
      /\ head' = head /\ tail' = tail /\ size' = size /\ node' = node
      /\ result' = result /\ destroyed' = destroyed
  BY DEF DropStart, list
<1>5. /\ Dropping' /\ Left' = n /\ First' = head /\ phase' \notin {"seek", "find"}
      /\ phase' \in {"clear", "destroy"} /\ First = head
  BY <1>3, <1>4 DEF Dropping, Left, First, ListTypeOK
<1>6. ListTypeOK' /\ WalkInv'
  BY <1>3, <1>4, <1>5 DEF ListTypeOK, WalkInv
<1>7. Is(n, s)'
  BY <1>2, <1>3, <1>4, <1>5 DEF Is, Rep, Tried, Live
<1>8. ListInv' /\ Elements' = Elements
  BY <1>2, <1>4, <1>6, <1>7, Kept
<1> QED
  BY <1>4, <1>8 DEF Seq0!vars

LEMMA DropStep ==
  ASSUME ListInv, Drop
  PROVE  ListInv' /\ Seq0!Next
<1>1. PICK n \in Nat : \E s \in [1 .. n -> Nodes] : Is(n, s)
  BY DEF ListInv
<1>2. PICK s \in [1 .. n -> Nodes] : Is(n, s)
  BY <1>1
<1>3. /\ ListTypeOK /\ WalkInv /\ Dropping /\ n = size - at /\ First = cur /\ cur # Nil
      /\ size \in Nat /\ at \in Nat /\ phase \in {"clear", "destroy"}
  BY <1>2 DEF ListInv, ListTypeOK, Drop, Dropping, First, Is, Left
<1>4. n > 0 /\ 1 \in 1 .. n
  BY <1>2, <1>3, ListFacts
<1>5. /\ Linked(node, n, s) /\ cur = s[1]
      /\ \A k \in 1 .. n : node[s[k]] \in Node
  BY <1>2, <1>3, <1>4, ListFacts
<1>6. /\ node[s[1]].next = IF n > 1 THEN s[2] ELSE Nil
      /\ n > 1 => s[2] \in Nodes
      /\ s[1] \in Nodes
  <2>1. (n > 1 => 2 \in 1 .. n) /\ 1 + 1 = 2
    OBVIOUS
  <2> QED
    BY <1>4, <1>5, <2>1 DEF Linked
<1>7. /\ phase' = phase /\ at' = at + 1 /\ req' = req /\ cur' = node[s[1]].next
      /\ head' = head /\ tail' = tail /\ size' = size
      /\ node' = [node EXCEPT ![s[1]] = Nil]
      /\ result' = result /\ destroyed' = destroyed \cup Destroyed(s[1])
  BY <1>5 DEF Drop, list
<1>8. /\ node' \in [Nodes -> Node \cup {Nil}] /\ node'[s[1]] = Nil
      /\ \A x \in Nodes \ {s[1]} : node'[x] = node[x]
  BY <1>3, <1>6, <1>7 DEF ListTypeOK
<1>9. Dropping' /\ Left' = n - 1 /\ First' = IF n > 1 THEN s[2] ELSE Nil
  BY <1>3, <1>6, <1>7 DEF Dropping, Left, First
<1>10. ListTypeOK' /\ WalkInv'
  <2>1. destroyed' \subseteq Data
    BY <1>3, <1>4, <1>5, <1>7 DEF ListTypeOK, Destroyed, Node
  <2>2. cur' \in Link
    BY <1>6, <1>7 DEF Link
  <2> QED
    BY <1>3, <1>4, <1>7, <1>8, <1>9, <2>1, <2>2 DEF ListTypeOK, WalkInv
<1>11. Removing(n, s, 1)
  BY <1>2, <1>3, <1>4, <1>7, <1>8, <1>9 DEF Removing
<1>12. /\ ListInv' /\ Elements' = Tail(Elements) /\ Elements # << >>
       /\ Head(Elements) = Elem(node, s[1])
  BY <1>4, <1>10, <1>11, Removed
<1>13. Seq0!Destroyed(Head(Elements)) = Destroyed(s[1])
  <2>1. /\ Head(Elements).own = node[s[1]].own
        /\ Head(Elements).data = node[s[1]].data
    BY <1>12 DEF Elem
  <2> QED
    BY <2>1 DEF Seq0!Destroyed, Destroyed
<1> QED
  BY <1>7, <1>12, <1>13 DEF Seq0!Next, Seq0!DropHead

LEMMA DropEndStep ==
  ASSUME ListInv, DropEnd
  PROVE  ListInv' /\ UNCHANGED Seq0!vars
<1>1. PICK n \in Nat : \E s \in [1 .. n -> Nodes] : Is(n, s)
  BY DEF ListInv
<1>2. PICK s \in [1 .. n -> Nodes] : Is(n, s)
  BY <1>1
<1>3. /\ ListTypeOK /\ WalkInv /\ Dropping /\ First = Nil /\ phase \in {"clear", "destroy"}
  BY <1>2 DEF ListInv, DropEnd, Dropping, First
<1>4. n = 0
  <2>1. n > 0 => 1 \in 1 .. n /\ First = s[1]
    BY <1>2, <1>3, ListFacts
  <2> QED
    BY <1>3, <2>1, ListAssumption
<1>5. /\ head' = Nil /\ tail' = Nil /\ size' = 0 /\ node' = node /\ cur' = cur
      /\ phase' \in {"idle", "gone"} /\ at' = 0 /\ req' = req
      /\ result' = result /\ destroyed' = destroyed
  BY DEF DropEnd
<1>6. ~Dropping' /\ Left' = 0 /\ First' = Nil /\ phase' \notin {"seek", "find"}
  BY <1>5 DEF Dropping, Left, First
<1>7. req = Nil
  BY <1>3 DEF WalkInv
<1>8. ListTypeOK' /\ WalkInv'
  BY <1>3, <1>5, <1>6, <1>7 DEF ListTypeOK, WalkInv, Link
<1>9. Is(n, s)'
  <2>1. Live' = {s[k] : k \in 1 .. 0}
    BY <1>2, <1>4, <1>5 DEF Is, Rep, Live
  <2> QED
    BY <1>4, <1>5, <1>6, <2>1 DEF Is, Rep, Tried
<1>10. ListInv' /\ Elements' = Elements
  BY <1>2, <1>5, <1>8, <1>9, Kept
<1> QED
  BY <1>5, <1>10 DEF Seq0!vars

\* The list starts empty.
LEMMA ListStarts ==
  ASSUME ListInit
  PROVE  ListInv /\ Seq0!Init
<1>1. ListTypeOK /\ WalkInv /\ Left = 0 /\ ~Dropping /\ First = Nil
  BY DEF ListInit, ListTypeOK, WalkInv, Left, Dropping, First, Link
<1>2. PICK s \in [1 .. 0 -> Nodes] : TRUE
  <2>1. [k \in 1 .. 0 |-> Nil] \in [1 .. 0 -> Nodes]
    OBVIOUS
  <2> QED
    BY <2>1
<1>3. Is(0, s)
  BY <1>1 DEF Is, Rep, Tried, ListInit, Live
<1>4. Elements = << >>
  <2>1. Elements \in Seq(Seq0!Element) /\ Len(Elements) = 0
    BY <1>1, <1>2, <1>3, ListFacts
  <2> QED
    BY <2>1
<1> QED
  BY <1>1, <1>3, <1>4 DEF ListInv, ListInit, Seq0!Init

\* Every step is a step of the sequence, or does not change it.
LEMMA ListStep ==
  ASSUME ListInv, ListNext
  PROVE  ListInv' /\ [Seq0!Next]_(Seq0!vars)
<1>1. size \in Nat
  BY DEF ListInv, ListTypeOK
<1>2. ASSUME NEW p \in 1 .. size, DeleteAt(p) PROVE ListInv' /\ Seq0!Next
  <2> DEFINE r == [op |-> "del", pos |-> p]
  <2>1. r \in Request /\ r # Nil /\ r.op = "del" /\ r.pos = p
    BY <1>1, ListAssumption DEF Request
  <2>2. phase = "idle" /\ p > 0 /\ p < size /\ p \in Nat /\ Start(r)
    BY <1>1, <1>2 DEF DeleteAt
  <2> HIDE DEF r
  <2> QED
    BY <2>1, <2>2, StartStep
<1>3. ASSUME NEW p \in 1 .. size, GetAt(p - 1) PROVE ListInv' /\ Seq0!Next
  <2> DEFINE r == [op |-> "get", pos |-> p - 1]
  <2>1. r \in Request /\ r # Nil /\ r.op = "get" /\ r.pos = p - 1
    BY <1>1, ListAssumption DEF Request
  <2>2. phase = "idle" /\ p - 1 < size /\ p - 1 \in Nat /\ Start(r)
    BY <1>1, <1>3 DEF GetAt
  <2> HIDE DEF r
  <2> QED
    BY <2>1, <2>2, StartStep
<1>4. ASSUME NEW p \in 1 .. size, NEW d \in Data, NEW o \in BOOLEAN, AddAt(p, d, o)
      PROVE  ListInv' /\ Seq0!Next
  <2> DEFINE r == [op |-> "add", pos |-> p, data |-> d, own |-> o]
  <2>1. r \in Request /\ r # Nil /\ r.op = "add" /\ r.pos = p /\ r.data = d
    BY <1>1, ListAssumption DEF Request
  <2>2. phase = "idle" /\ p > 0 /\ p < size /\ p \in Nat /\ Start(r) /\ Fresh(d)
    BY <1>1, <1>4 DEF AddAt
  <2> HIDE DEF r
  <2> QED
    BY <2>1, <2>2, StartStep
<1>5. ASSUME NEW W \in SUBSET Data, FindStart(W) PROVE ListInv' /\ Seq0!Next
  BY <1>5, FindStep
<1> QED
  BY <1>2, <1>3, <1>4, <1>5, AddStep, InsertStep, WalkOn, ReturnStep, UnlinkStep,
     CutStep, DropStartStep, DropStep, DropEndStep DEF ListNext, Walk

LEMMA ListSteps ==
  ListInv /\ [ListNext]_listVars => ListInv' /\ [Seq0!Next]_(Seq0!vars)
<1> SUFFICES ASSUME ListInv, UNCHANGED listVars
             PROVE  ListInv' /\ UNCHANGED Seq0!vars
  BY ListStep
<1>1. ListInv'
  <2>1. ListTypeOK' /\ WalkInv'
    BY DEF listVars, ListInv, ListTypeOK, WalkInv, Left, Dropping, Live, Fresh
  <2>2. \A n \in Nat : \A s \in [1 .. n -> Nodes] : Is(n, s) => Is(n, s)'
    BY DEF listVars, Is, Rep, Tried, Left, First, Dropping, Live
  <2> QED
    BY <2>1, <2>2 DEF ListInv
<1>2. Elements' = Elements
  BY DEF listVars, Elements, Order, Rep, Left, First, Dropping, Live
<1> QED
  BY <1>1, <1>2 DEF listVars, Seq0!vars

-----------------------------------------------------------------------------
\* The list implements the sequence: whatever is added, taken out, searched for
\* and cleared, and where, the pointers lead through the elements in their order,
\* and of the data the list destroys those it owns, and only those.
THEOREM ListImplementsSequence == ListSpec => SeqSpec
<1>1. ListInit => ListInv /\ Seq0!Init
  BY ListStarts
<1>2. ListInv /\ [ListNext]_listVars => ListInv' /\ [Seq0!Next]_(Seq0!vars)
  BY ListSteps
<1> QED
  BY <1>1, <1>2, PTL DEF ListSpec, SeqSpec, Seq0!Spec

\* The pointers of the list, its size and the call under way are always of their
\* types, whatever is called.
THEOREM ListTypeCorrect == ListSpec => []ListTypeOK
<1>1. ListInv /\ [ListNext]_listVars => ListInv'
  BY ListSteps
<1>2. ListInit => ListInv
  BY ListStarts
<1>3. ListInv => ListTypeOK
  BY DEF ListInv
<1> QED
  BY <1>1, <1>2, <1>3, PTL DEF ListSpec
=============================================================================
