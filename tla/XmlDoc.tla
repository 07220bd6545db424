-------------------------------- MODULE XmlDoc --------------------------------
(***************************************************************************)
(* What the tag functions of ezxml promise (include/ezxml.h): a tag has     *)
(* its subtags in the order of their offsets in its character content, and *)
(* a tag that is put at the offset of others comes after them.  A tag that  *)
(* was cut belongs to its caller, with its subtags, until it is put back or *)
(* freed.  XmlTree implements this with four lists of pointers.             *)
(***************************************************************************)
EXTENDS Naturals, SequencesExt

CONSTANTS Tags, Root, Hosts, Names, MaxOff, NoName

Parents == Tags \cup {Root}

VARIABLES kids, name, off

vars == <<kids, name, off>>

Init ==
    /\ kids = [d \in Parents |-> <<>>]
    /\ name = [t \in Tags |-> NoName]
    /\ off = [t \in Tags |-> 0]

Live(t) == name[t] # NoName
Open == {d \in Hosts : d = Root \/ Live(d)}
Placed(t) == \E d \in Parents : Contains(kids[d], t)

\* The tag t and the tags in it, at any depth: the least set that has the
\* subtags of its tags.
Closed(S) == \A u \in S : ToSet(kids[u]) \subseteq S
Below(t) == {u \in Tags : \A S \in SUBSET Tags : t \in S /\ Closed(S) => u \in S}

Put(t, d, o) ==
    LET at == Cardinality({i \in DOMAIN kids[d] : off[kids[d][i]] <= o}) + 1
    IN  kids' = [kids EXCEPT ![d] = InsertAt(@, at, t)]

Add(t, n, d, o) ==
    /\ ~Live(t)
    /\ name' = [name EXCEPT ![t] = n]
    /\ off' = [off EXCEPT ![t] = o]
    /\ Put(t, d, o)

Replace(t, d, o) ==
    /\ Live(t)
    /\ name' = name
    /\ off' = [off EXCEPT ![t] = o]
    /\ ~Placed(t) /\ d \notin Below(t)
    /\ Put(t, d, o)

Cut(t) ==
    /\ Live(t)
    /\ UNCHANGED <<name, off>>
    /\ Placed(t)
    /\ \E d \in Parents : \E i \in DOMAIN kids[d] :
          kids[d][i] = t /\ kids' = [kids EXCEPT ![d] = RemoveAt(@, i)]

Free(t) ==
    /\ Live(t) /\ ~Placed(t)
    /\ LET gone == Below(t) IN
       /\ name' = [u \in Tags |-> IF u \in gone THEN NoName ELSE name[u]]
       /\ off' = [u \in Tags |-> IF u \in gone THEN 0 ELSE off[u]]
       /\ kids' = [u \in Parents |-> IF u \in gone THEN <<>> ELSE kids[u]]

Next ==
    \E t \in Tags :
        \/ \E d \in Open, o \in 0 .. MaxOff :
              (\E n \in Names : Add(t, n, d, o)) \/ Replace(t, d, o)
        \/ Cut(t)
        \/ Free(t)

Spec == Init /\ [][Next]_vars
=============================================================================
