-------------------------------- MODULE XmlDtd --------------------------------
(***************************************************************************)
(* The internal subset of a document's DTD (ezxml_internal_dtd): it         *)
(* declares entities, whose values may refer to others, and default values  *)
(* of attributes, which ezxml_attr finds when a tag does not give them.     *)
(* One action reads one declaration.  "ent" is the list of general entities *)
(* without the predefined ones, "pe" that of parameter entities, which      *)
(* lives as long as the subset; attr is the list of tags with defaults.     *)
(***************************************************************************)
EXTENDS XmlChars

CONSTANTS
    Entities, Tags,
    Attrs,
    Values,         \* the values that entities are given
    Lists,          \* the lists of attributes: [name, cdata, value] each
    MaxDecl,        \* bound of the model: declarations of a subset
    Nil

VARIABLES
    ent, pe, attr,
    standalone,     \* the document says that it needs no other file
    err,
    reading,        \* the subset is being read
    hung,           \* the decoding of a value does not end
    count,
    asked           \* the lists of attributes as they were declared

vars == <<ent, pe, attr, standalone, err, reading, hung, count, asked>>

Init ==
    /\ ent = <<>> /\ pe = <<>> /\ attr = <<>>
    /\ standalone \in BOOLEAN
    /\ err = "" /\ reading = TRUE /\ hung = FALSE /\ count = 0 /\ asked = <<>>

Read == reading /\ ~hung /\ count < MaxDecl /\ count' = count + 1

RefsOf(s, kind) == {s[i][kind] : i \in {i \in DOMAIN s : kind \in DOMAIN s[i]}}

\* The names that a value leads to through a list, where the first entry of a
\* name counts.
Reach(s, list, kind) ==
    LET into[k \in 0 .. Len(list)] ==
          IF k = 0 THEN RefsOf(s, kind)
          ELSE into[k - 1] \cup UNION {RefsOf(list[Find(list, n)].value, kind) :
                                          n \in {n \in into[k - 1] : Find(list, n) > 0}}
    IN  into[Len(list)]
Circular(list, n, kind) == Find(list, n) > 0 /\ n \in Reach(list[Find(list, n)].value, list, kind)

\* Faulty variant: only the value itself is looked at.
ent_ok_near(name, s, list) == \A i \in DOMAIN s : "ent" \in DOMAIN s[i] => s[i].ent # name

\* ezxml_ent_ok: the name is not met on the way through the value's references.
RECURSIVE ent_ok(_, _, _)
ent_ok(name, s, list) ==
    \A i \in DOMAIN s : "ent" \in DOMAIN s[i] =>
        /\ s[i].ent # name
        /\ LET k == Find(list, s[i].ent) IN k > 0 => ent_ok(name, list[k].value, list)

Loops(v) == \E n \in Reach(v, pe, "par") : Circular(pe, n, "par")

\* Faulty variant: a declaration is kept before it is tried.
EntityKept(par, n, v) ==
    LET list == IF par THEN pe ELSE ent
        value == decode(v, pe, "%")
        more == Append(list, [name |-> n, value |-> value])
    IN  /\ Read /\ ~Loops(v)
        /\ IF ent_ok(n, value, list) THEN UNCHANGED <<err, reading>>
           ELSE err' = "circular entity declaration" /\ reading' = FALSE
        /\ pe' = IF par THEN more ELSE pe
        /\ ent' = IF par THEN ent ELSE more
        /\ UNCHANGED <<attr, standalone, hung, asked>>

\* <!ENTITY n "v">, and with "%" before the name.  The name goes into the list
\* when the value has been found in order; the list ends there until then.
Entity(par, n, v) ==
    LET list == IF par THEN pe ELSE ent
        value == decode(v, pe, "%")
        more == Append(list, [name |-> n, value |-> value])
    IN  /\ Read /\ ~Loops(v)
        /\ IF ent_ok(n, value, list)
           THEN /\ pe' = IF par THEN more ELSE pe
                /\ ent' = IF par THEN ent ELSE more
                /\ UNCHANGED <<err, reading>>
           ELSE /\ err' = "circular entity declaration" /\ reading' = FALSE
                /\ UNCHANGED <<ent, pe>>
        /\ UNCHANGED <<attr, standalone, hung, asked>>

Hang(v) ==
    /\ Read /\ Loops(v)
    /\ hung' = TRUE
    /\ UNCHANGED <<ent, pe, attr, standalone, err, reading, asked>>

\* An entity of another file, a comment, a declaration of another kind.
Passed == Read /\ UNCHANGED <<ent, pe, attr, standalone, err, reading, hung, asked>>

\* <!ATTLIST tag a type value>.  The tag is compared with what the last
\* declaration left in "n": the end of a list, or the name of an entity or an
\* attribute, which no tag has here.  So every list is a new entry.
\* Of an attribute without a default nothing is kept if it is CDATA.
decoded(list) == [i \in DOMAIN list |->
    [list[i] EXCEPT !.value = IF @ = Nil THEN Nil ELSE decode(@, ent, " ")]]

\* Faulty variant: an attribute without a default ends the list.
keptUntil(list) ==
    LET end == SelectInSeq(list, LAMBDA d : d.value = Nil)
    IN  IF end = 0 THEN decoded(list) ELSE SubSeq(decoded(list), 1, end - 1)

kept(list) == SelectSeq(decoded(list), LAMBDA d : d.value # Nil \/ ~d.cdata)

Attlist(tag, list) ==
    /\ Read
    /\ attr' = IF kept(list) = <<>> THEN attr
               ELSE Append(attr, [tag |-> tag, list |-> kept(list)])
    /\ asked' = Append(asked, [tag |-> tag, list |-> decoded(list)])
    /\ UNCHANGED <<ent, pe, standalone, err, reading, hung>>

\* What is wrong in a list ends the list, and the declarations after it are read.
MalformedList ==
    /\ Read
    /\ err' = "malformed <!ATTLIST"
    /\ UNCHANGED <<ent, pe, attr, standalone, reading, hung, asked>>

\* A reference between the declarations may stand for any of them.
Reference ==
    /\ Read
    /\ reading' = standalone
    /\ UNCHANGED <<ent, pe, attr, standalone, err, hung, asked>>

Finish ==
    /\ reading /\ ~hung
    /\ reading' = FALSE
    /\ UNCHANGED <<ent, pe, attr, standalone, err, hung, count, asked>>

Next ==
    \/ \E v \in Values :
        \/ \E par \in BOOLEAN, n \in Entities : Entity(par, n, v)
        \/ Hang(v)
    \/ \E tag \in Tags, list \in Lists : Attlist(tag, list)
    \/ Passed \/ MalformedList \/ Reference \/ Finish

Spec == Init /\ [][Next]_vars

-----------------------------------------------------------------------------
\* ezxml_attr of a tag that does not give the attribute itself.  Of the lists
\* of a tag the first one is searched.
Default(tag, a) ==
    LET i == SelectInSeq(attr, LAMBDA r : r.tag = tag)
        j == IF i = 0 THEN 0 ELSE SelectInSeq(attr[i].list, LAMBDA d : d.name = a)
    IN  IF j = 0 THEN Nil ELSE attr[i].list[j].value

TypeOK ==
    /\ count \in 0 .. MaxDecl /\ Len(ent) + Len(pe) + Len(attr) <= count
    /\ standalone \in BOOLEAN /\ reading \in BOOLEAN /\ hung \in BOOLEAN
    /\ err \in {"", "circular entity declaration", "malformed <!ATTLIST"}
    /\ err = "circular entity declaration" => ~reading

\* No text of the document makes its decoding run for ever: whatever was declared,
\* in whatever order and how often, no entity leads back to itself.
NoCircle == \A n \in Entities : ~Circular(ent, n, "ent")

\* "checks for circular entity references, returns non-zero if no circular
\* references are found, zero otherwise": a declaration is refused only if the
\* name can be reached from its value.
CircleIsFound ==
    \A n \in Entities, v \in Values : ent_ok(n, v, ent) <=> n \notin Reach(v, ent, "ent")

\* A default of the first list that says anything of a tag is found, the first
\* one of its attribute, with the entities it refers to as declared before it.
Says(list) == \E i \in DOMAIN list : list[i].value # Nil \/ ~list[i].cdata
FirstOf(list, a) ==
    LET i == SelectInSeq(list, LAMBDA d : d.name = a /\ (d.value # Nil \/ ~d.cdata))
    IN  IF i = 0 THEN Nil ELSE list[i].value
FirstListFound ==
    \A tag \in Tags, a \in Attrs :
        LET i == SelectInSeq(asked, LAMBDA r : r.tag = tag /\ Says(r.list))
        IN  Default(tag, a) = IF i = 0 THEN Nil ELSE FirstOf(asked[i].list, a)
=============================================================================
