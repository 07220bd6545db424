------------------------------- MODULE XmlTree -------------------------------
(***************************************************************************)
(* The tags of an XML document as ezxml keeps them (ezxml.c): a tag points  *)
(* to the first of its subtags, and a subtag to the next one (ordered), to  *)
(* the next of its name (next) and, the first of a name only, to the first  *)
(* of another name (sibling).  ezxml_child walks the sibling list.          *)
(*                                                                         *)
(* A tag that is cut keeps its parent pointer and its subtags; "loose"      *)
(* holds the tags that their callers have cut and not yet put back.  Of the *)
(* functions only ezxml_add_child has a caller in the program: the parser   *)
(* (XmlParser), which adds each tag at the end.                             *)
(***************************************************************************)
EXTENDS Naturals, FiniteSets, SequencesExt

CONSTANTS
    Tags,       \* the tags, apart from the document itself
    Root,       \* the tag of the document
    Names,
    Hosts,      \* bound of the model: the tags that take subtags
    MaxOff,     \* bound of the model: the largest offset
    Careful,    \* callers avoid the two cases that break the sibling list
    Nil         \* NULL

Parents == Tags \cup {Root}

\* NULL is no tag and no name, and the document's tag is not one of its tags.
ASSUME TreeAssumption ==
    /\ IsFiniteSet(Tags) /\ Root \notin Tags \cup {Nil}
    /\ Nil \notin Tags \cup Names /\ Hosts \subseteq Parents /\ MaxOff \in Nat
    /\ Careful \in BOOLEAN

Links == [Tags -> Tags \cup {Nil}]

VARIABLES name, off, parent, child, ordered, next, sibling, loose

lists == <<child, ordered, next, sibling>>
treeVars == <<name, off, parent, lists, loose>>

TreeInit ==
    /\ name = [t \in Tags |-> Nil]
    /\ off = [t \in Tags |-> 0]
    /\ parent = [t \in Tags |-> Nil]
    /\ child = [d \in Parents |-> Nil]
    /\ ordered = [t \in Tags |-> Nil]
    /\ next = [t \in Tags |-> Nil]
    /\ sibling = [t \in Tags |-> Nil]
    /\ loose = {}

Live(t) == name[t] # Nil
Placed(t) == Live(t) /\ t \notin loose

\* The tags that can take a subtag.
Open == {d \in Hosts : d = Root \/ Live(d)}

\* The tags met on the way along a link from t, t first.  A way longer than
\* there are tags has met one of them twice.
Way(link, t) ==
    LET at[i \in 0 .. Cardinality(Tags)] ==
          IF i = 0 THEN t ELSE IF at[i - 1] = Nil THEN Nil ELSE link[at[i - 1]]
        n == Cardinality({i \in DOMAIN at : at[i] # Nil})
    IN  [i \in 1 .. n |-> at[i - 1]]

Ends(link, t) == Len(Way(link, t)) <= Cardinality(Tags)

\* The place of the first tag of a way past the offset o, or one past its end.
PastOff(way, o) ==
    LET i == SelectInSeq(way, LAMBDA u : off[u] > o)
    IN  IF i = 0 THEN Len(way) + 1 ELSE i

OrNil(way, i) == IF i \in DOMAIN way THEN way[i] ELSE Nil

\* ezxml_child, ezxml_idx
Child(d, n) ==
    LET way == Way(sibling, child[d])
    IN  OrNil(way, SelectInSeq(way, LAMBDA u : name[u] = n))
Idx(t, i) == OrNil(Way(next, t), i + 1)

-----------------------------------------------------------------------------
\* Faulty variant: the tag that was first of its name stays in the list.
LinkNamedTwice(t, n, d, o) ==
    LET way == Way(sibling, child[d])
        first == OrNil(way, SelectInSeq(way, LAMBDA u : name[u] = n))
        named == Way(next, first)
        k == PastOff(named, o)
        i == PastOff(way, o)
    IN  IF k > 1
        THEN /\ next' = [next EXCEPT ![t] = OrNil(named, k), ![named[k - 1]] = t]
             /\ sibling' = [sibling EXCEPT ![t] = Nil]
        ELSE /\ next' = [next EXCEPT ![t] = first]
             /\ sibling' = IF i = 1 THEN [sibling EXCEPT ![t] = OrNil(way, 1)]
                           ELSE [sibling EXCEPT ![t] = OrNil(way, i), ![way[i - 1]] = t]

\* ezxml_insert.  The first tag of its name takes the place of the one that was
\* first before, except where that one heads the subtags.
LinkOrdered(t, d, o) ==
    LET way == Way(ordered, child[d])
        i == PastOff(way, o)
    IN  IF i = 1
        THEN /\ child' = [child EXCEPT ![d] = t]
             /\ ordered' = [ordered EXCEPT ![t] = OrNil(way, 1)]
        ELSE /\ ordered' = [ordered EXCEPT ![t] = OrNil(way, i), ![way[i - 1]] = t]
             /\ UNCHANGED child

LinkNamed(t, n, d, o) ==
    LET way == Way(sibling, child[d])
        j == SelectInSeq(way, LAMBDA u : name[u] = n)
        first == OrNil(way, j)
        named == Way(next, first)
        k == PastOff(named, o)
        without == IF j > 1 THEN [sibling EXCEPT ![way[j - 1]] = sibling[first]] ELSE sibling
        rest == Way(without, child[d])
        i == PastOff(rest, o)
    IN  IF k > 1
        THEN /\ next' = [next EXCEPT ![t] = OrNil(named, k), ![named[k - 1]] = t]
             /\ sibling' = [sibling EXCEPT ![t] = Nil]
        ELSE /\ next' = [next EXCEPT ![t] = first]
             /\ sibling' = IF i = 1 THEN [without EXCEPT ![t] = OrNil(rest, 1)]
                           ELSE [without EXCEPT ![t] = OrNil(rest, i), ![rest[i - 1]] = t]

\* The second case that breaks the sibling list: a tag that comes before the
\* first one and has its name.
BeforeItsName(n, d, o) == child[d] # Nil /\ name[child[d]] = n /\ off[child[d]] > o

Put(t, n, d, o) ==
    /\ Careful => ~BeforeItsName(n, d, o)
    /\ LinkOrdered(t, d, o)
    /\ LinkNamed(t, n, d, o)
    /\ off' = [off EXCEPT ![t] = o]
    /\ parent' = [parent EXCEPT ![t] = d]

\* ezxml_add_child.
AddChild(t, n, d, o) ==
    /\ ~Live(t) /\ d \in Open
    /\ Put(t, n, d, o)
    /\ name' = [name EXCEPT ![t] = n]
    /\ UNCHANGED loose

\* Faulty variant: of the subtags only the first is reached.
BelowFirst(t) ==
    {u \in Tags : \A S \in SUBSET Tags :
        t \in S /\ (\A v \in S : child[v] \in S \cup {Nil}) => u \in S}

\* The tags that ezxml_free reaches from the tag t: the least set with t that it
\* does not leave.
Closed(S) == \A v \in S : child[v] \in S \cup {Nil} /\ ordered[v] \in S \cup {Nil}
Below(t) == {u \in Tags : \A S \in SUBSET Tags : t \in S /\ Closed(S) => u \in S}

\* ezxml_insert of a tag that was cut.
Insert(t, d, o) ==
    /\ t \in loose /\ d \in Open /\ d \notin Below(t)
    /\ Put(t, name[t], d, o)
    /\ loose' = loose \ {t}
    /\ UNCHANGED name

-----------------------------------------------------------------------------
\* The first case that breaks the sibling list: a tag is cut, the next of its
\* name becomes the first, and tags of other names stand in between.
LeavesLater(t) == next[t] # Nil /\ next[t] # ordered[t]

CutOrdered(t, d) ==
    LET way == Way(ordered, child[d])
        i == SelectInSeq(way, LAMBDA u : u = t)
    IN  IF i = 1
        THEN /\ child' = [child EXCEPT ![d] = ordered[t]]
             /\ ordered' = [ordered EXCEPT ![t] = Nil]
        ELSE /\ ordered' = [ordered EXCEPT ![way[i - 1]] = ordered[t], ![t] = Nil]
             /\ UNCHANGED child

\* Faulty variant: the next tag of the name does not become the first.
CutNamedShort(t, d) ==
    LET way == Way(sibling, child[d])
        i == SelectInSeq(way, LAMBDA u : sibling[u] = t)
        before == {u \in Tags : next[u] = t}
    IN  /\ sibling' = IF i > 0 THEN [sibling EXCEPT ![way[i]] = sibling[t], ![t] = Nil]
                      ELSE [sibling EXCEPT ![t] = Nil]
        /\ next' = [u \in Tags |-> IF u = t THEN Nil ELSE IF u \in before THEN next[t] ELSE next[u]]

\* "patched" is the sibling list after the first statement of ezxml_cut.
CutNamed(t, d) ==
    LET patched == IF next[t] = Nil THEN sibling ELSE [sibling EXCEPT ![next[t]] = sibling[t]]
        way == Way(patched, child[d])
        j == SelectInSeq(way, LAMBDA u : name[u] = name[t])
        named == Way(next, way[j])
        k == SelectInSeq(named, LAMBDA u : u = t)
        after == IF next[t] # Nil THEN next[t] ELSE patched[t]
    IN  IF child[d] = t
        THEN /\ sibling' = [patched EXCEPT ![t] = Nil]
             /\ next' = [next EXCEPT ![t] = Nil]
        ELSE /\ sibling' = IF way[j] = t THEN [patched EXCEPT ![way[j - 1]] = after, ![t] = Nil]
                           ELSE [patched EXCEPT ![t] = Nil]
             /\ next' = IF k > 1 THEN [next EXCEPT ![named[k - 1]] = next[t], ![t] = Nil]
                        ELSE [next EXCEPT ![t] = Nil]

Cut(t) ==
    /\ Placed(t)
    /\ Careful => ~LeavesLater(t)
    /\ CutOrdered(t, parent[t])
    /\ CutNamed(t, parent[t])
    /\ loose' = loose \cup {t}
    /\ UNCHANGED <<name, off, parent>>

\* ezxml_free of a tag that was cut (the macro ezxml_remove).
Free(t) ==
    LET gone == Below(t)
        Clear(f) == [u \in Tags |-> IF u \in gone THEN Nil ELSE f[u]]
    IN  /\ t \in loose
        /\ name' = Clear(name) /\ parent' = Clear(parent) /\ ordered' = Clear(ordered)
        /\ next' = Clear(next) /\ sibling' = Clear(sibling)
        /\ off' = [u \in Tags |-> IF u \in gone THEN 0 ELSE off[u]]
        /\ child' = [u \in Parents |-> IF u \in gone THEN Nil ELSE child[u]]
        /\ loose' = loose \ gone

TreeNext ==
    \E t \in Tags :
        \/ \E n \in Names, d \in Hosts, o \in 0 .. MaxOff : AddChild(t, n, d, o)
        \/ \E d \in Hosts, o \in 0 .. MaxOff : Insert(t, d, o)
        \/ Cut(t)
        \/ Free(t)

TreeSpec == TreeInit /\ [][TreeNext]_treeVars

-----------------------------------------------------------------------------
TreeTypeOK ==
    /\ name \in [Tags -> Names \cup {Nil}]
    /\ off \in [Tags -> 0 .. MaxOff]
    /\ parent \in [Tags -> Parents \cup {Nil}]
    /\ child \in [Parents -> Tags \cup {Nil}]
    /\ ordered \in Links /\ next \in Links /\ sibling \in Links
    /\ loose \subseteq {t \in Tags : Live(t)}

Kids(d) == Way(ordered, child[d])
SameName(d, n, i) == {h \in 1 .. i : name[Kids(d)[h]] = n}

\* "returns the first child tag with the given name or NULL if not found": of
\* the subtags with a name, ezxml_child finds the first in the document, and
\* ezxml_idx leads from it to each of the others, by the number of those before
\* it, and to none when there are no more.
ChildFinds ==
    \A d \in Parents, n \in Names :
        /\ \A i \in DOMAIN Kids(d) : name[Kids(d)[i]] = n =>
              Idx(Child(d, n), Cardinality(SameName(d, n, i - 1))) = Kids(d)[i]
        /\ Idx(Child(d, n), Cardinality(SameName(d, n, Len(Kids(d))))) = Nil

\* "next tag with different name in same section and depth": no tag meets its
\* own name again along the sibling list, which is why the walk ends.
SiblingDiffers ==
    \A d \in Parents :
        LET way == Way(sibling, child[d]) IN
        /\ Ends(sibling, child[d])
        /\ \A i, j \in DOMAIN way : i # j => name[way[i]] # name[way[j]]

\* In whatever order tags were put in, cut and put back: ezxml_child finds the
\* first of a name, the next pointers lead through the others, and the walk along
\* the siblings ends.
TagsFound == TreeTypeOK /\ ChildFinds /\ SiblingDiffers

\* The lists implement the tags of the header: subtags in the order of their
\* offsets, and a cut or freed tag takes its own subtags with it and no other.
Doc == INSTANCE XmlDoc WITH
    kids <- [d \in Parents |-> Kids(d)], NoName <- Nil
DocSpec == Doc!Spec
=============================================================================
