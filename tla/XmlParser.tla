------------------------------ MODULE XmlParser ------------------------------
(***************************************************************************)
(* ezxml_parse_str, which builds the tags of an XML document, and           *)
(* ezxml_toxml, which writes them out again.  The program parses its        *)
(* configuration file with the first.  A document is read one token at a    *)
(* time: a tag, a piece of text, a comment, an instruction; the characters  *)
(* of a token, its attributes and its entities are left out (XmlDtd has     *)
(* them).  The parser keeps the tag it is in (cur); a tag is put at the      *)
(* offset that the text of its parent has reached.                          *)
(*                                                                         *)
(* "doc" is the document read so far: it is there to compare with.          *)
(***************************************************************************)
EXTENDS XmlTree

CONSTANTS
    Text, Cdata,    \* a piece of text, and one in a CDATA section
    MaxDoc,         \* bound of the model: tokens of a document
    MaxAside        \* bound of the model: its comments and instructions

VARIABLES
    rootName,       \* the name of the document's tag, Nil before it is read
    txt,            \* the character content of each tag
    cur,            \* the insertion point, Nil after the end of the document's tag
    pi,             \* for each instruction, whether it came after the root tag's start
    err,            \* the error message, "" if none
    done,           \* the parser has returned
    doc

vars == <<treeVars, rootName, txt, cur, pi, err, done, doc>>

token(k, v) == [kind |-> k, val |-> v]

ParserInit ==
    /\ TreeInit
    /\ rootName = Nil /\ cur = Root
    /\ txt = [d \in Parents |-> <<>>]
    /\ pi = <<>> /\ err = "" /\ done = FALSE /\ doc = <<>>

Read(k, v) == ~done /\ Len(doc) < MaxDoc /\ doc' = Append(doc, token(k, v))

\* ezxml_err: the message is kept in the root tag, which is what is returned.
Fail(message) ==
    /\ err' = message /\ done' = TRUE
    /\ UNCHANGED <<treeVars, rootName, txt, cur, pi>>

NameOf(d) == IF d = Root THEN rootName ELSE name[d]
ParentOf(d) == IF d = Root THEN Nil ELSE parent[d]

-----------------------------------------------------------------------------
\* ezxml_open_tag.  The first tag is the document itself.
NameRoot(n) ==
    /\ cur = Root /\ rootName = Nil
    /\ rootName' = n
    /\ UNCHANGED treeVars

\* Faulty variant: a tag goes to the offset of its own empty text.
NewTagAtZero(t, n) ==
    /\ cur # Nil /\ NameOf(cur) # Nil
    /\ AddChild(t, n, cur, 0)
    /\ UNCHANGED rootName

NewTag(t, n) ==
    /\ cur # Nil /\ NameOf(cur) # Nil
    /\ AddChild(t, n, cur, Len(txt[cur]))
    /\ UNCHANGED rootName

OpenTag(t, n) ==
    /\ Read("open", n)
    /\ \/ NameRoot(n) /\ UNCHANGED cur
       \/ NewTag(t, n) /\ cur' = t
    /\ UNCHANGED <<txt, pi, err, done>>

\* A self-closing tag is opened and closed at once.
SelfClosing(t, n) ==
    /\ Read("self", n)
    /\ \/ NameRoot(n) /\ cur' = Nil
       \/ NewTag(t, n) /\ UNCHANGED cur
    /\ UNCHANGED <<txt, pi, err, done>>

Outside(k, n) ==
    /\ Read(k, n)
    /\ cur = Nil
    /\ Fail("markup outside of root element")

\* ezxml_close_tag
Closes(n) == cur # Nil /\ NameOf(cur) = n

CloseTag(n) ==
    /\ Read("close", n)
    /\ Closes(n)
    /\ cur' = ParentOf(cur)
    /\ UNCHANGED <<treeVars, rootName, txt, pi, err, done>>

WrongClose(n) ==
    /\ Read("close", n)
    /\ ~Closes(n)
    /\ Fail("unexpected closing tag")

\* ezxml_char_content.  Text outside the root tag is dropped, and so is text
\* that the end of the document follows and not another tag.
Content(c) ==
    /\ Read("text", c)
    /\ txt' = IF cur = Nil \/ rootName = Nil THEN txt
              ELSE [txt EXCEPT ![cur] = Append(@, c)]
    /\ UNCHANGED <<treeVars, rootName, cur, pi, err, done>>

Aside == {i \in DOMAIN doc : doc[i].kind \in {"comment", "pi"}}

Comment ==
    /\ Cardinality(Aside) < MaxAside
    /\ Read("comment", Nil)
    /\ UNCHANGED <<treeVars, rootName, txt, cur, pi, err, done>>

\* ezxml_proc_inst, for the instructions of one target.
Instruction ==
    /\ Cardinality(Aside) < MaxAside
    /\ Read("pi", Nil)
    /\ pi' = Append(pi, rootName # Nil)
    /\ UNCHANGED <<treeVars, rootName, txt, cur, err, done>>

\* A tag, comment, section, instruction or doctype that the end of the document
\* cuts off, or a "<" that starts none of them.
Broken ==
    /\ Read("broken", Nil)
    /\ Fail("unclosed or unexpected markup")

EndsInText == doc # <<>> /\ Last(doc) = token("text", Text)

\* Faulty variant: what is still open at the end is not asked.
EndLax ==
    /\ ~done /\ ~EndsInText
    /\ doc' = doc
    /\ IF rootName = Nil THEN Fail("root tag missing")
       ELSE /\ done' = TRUE
            /\ UNCHANGED <<treeVars, rootName, txt, cur, pi, err>>

End ==
    /\ ~done /\ ~EndsInText
    /\ doc' = doc
    /\ IF rootName = Nil THEN Fail("root tag missing")
       ELSE IF cur # Nil THEN Fail("unclosed tag")
       ELSE /\ done' = TRUE
            /\ UNCHANGED <<treeVars, rootName, txt, cur, pi, err>>

ParserNext ==
    \/ \E n \in Names :
        \/ \E t \in Tags : OpenTag(t, n) \/ SelfClosing(t, n)
        \/ Outside("open", n) \/ Outside("self", n)
        \/ CloseTag(n) \/ WrongClose(n)
    \/ \E c \in {Text, Cdata} : Content(c)
    \/ Comment \/ Instruction \/ Broken \/ End

ParserSpec == ParserInit /\ [][ParserNext]_vars

-----------------------------------------------------------------------------
\* ezxml_toxml_r, from the tag t on: the text of the parent from the offset
\* "start" to the tag, the tag, and the tags after it.
RECURSIVE toxml_r(_, _)
toxml_r(t, start) ==
    LET above == txt[parent[t]]
        reached == IF off[t] < Len(above) THEN off[t] ELSE Len(above)
    IN  [i \in 1 .. off[t] - start |-> token("text", above[start + i])]
        \o <<token("open", name[t])>>
        \o (IF child[t] = Nil
            THEN [i \in DOMAIN txt[t] |-> token("text", txt[t][i])]
            ELSE toxml_r(child[t], 0))
        \o <<token("close", name[t])>>
        \o (IF ordered[t] = Nil
            THEN [i \in 1 .. Len(above) - reached |-> token("text", above[reached + i])]
            ELSE toxml_r(ordered[t], reached))

\* ezxml_toxml: the instructions before the root tag, the tags, the others.
instructions(after) == [i \in DOMAIN SelectSeq(pi, LAMBDA p : p = after) |-> token("pi", Nil)]

toxml ==
    IF rootName = Nil THEN <<>>
    ELSE instructions(FALSE)
         \o <<token("open", rootName)>>
         \o (IF child[Root] = Nil
             THEN [i \in DOMAIN txt[Root] |-> token("text", txt[Root][i])]
             ELSE toxml_r(child[Root], 0))
         \o <<token("close", rootName)>>
         \o instructions(TRUE)

-----------------------------------------------------------------------------
\* What a document is, told without a parser: pairs of a tag's start and its end
\* next to each other are taken away until none is left.
Whole(d) == FlattenSeq([i \in DOMAIN d |->
    IF d[i].kind = "self" THEN <<token("open", d[i].val), token("close", d[i].val)>> ELSE <<d[i]>>])
Tagged(d) == SelectSeq(d, LAMBDA x : x.kind \in {"open", "close"})

RECURSIVE Unpaired(_)
Unpaired(d) ==
    LET pair == {i \in 1 .. Len(d) - 1 : d[i].kind = "open" /\ d[i + 1] = token("close", d[i].val)}
    IN  IF pair = {} THEN d
        ELSE LET i == CHOOSE i \in pair : TRUE
             IN  Unpaired(SubSeq(d, 1, i - 1) \o SubSeq(d, i + 2, Len(d)))

Balanced(d) == Unpaired(Tagged(Whole(d))) = <<>>
HasTag(d) == \E i \in DOMAIN d : d[i].kind \in {"open", "close", "self"}
OneRoot(d) ==
    \E i \in 1 .. Len(d) :
        /\ d[i].kind \in {"close", "self"} /\ Balanced(SubSeq(d, 1, i))
        /\ \A j \in 1 .. i - 1 : Balanced(SubSeq(d, 1, j)) => ~HasTag(SubSeq(d, 1, j))
        /\ ~HasTag(SubSeq(d, i + 1, Len(d)))
WellFormed(d) == OneRoot(d) /\ \A i \in DOMAIN d : d[i].kind # "broken"

\* The document with the tags still open closed, without the token that failed,
\* without comments and text outside the root tag, and the instructions in
\* front of the root tag or after it.
Accepted == IF err \in {"", "unclosed tag", "root tag missing"} THEN doc ELSE Front(doc)
Canonical(d) ==
    LET whole == Whole(d)
        tagAt == {i \in DOMAIN whole : whole[i].kind = "open"}
        first == CHOOSE i \in tagAt : \A j \in tagAt : i <= j
        end == {i \in DOMAIN whole : i > first /\ Balanced(SubSeq(whole, 1, i))}
        last == IF end = {} THEN Len(whole) ELSE CHOOSE i \in end : \A j \in end : i <= j
        open == Reverse(Unpaired(Tagged(whole)))
        Asides(i, j) == SelectSeq(SubSeq(whole, i, j), LAMBDA x : x.kind = "pi")
    IN  IF tagAt = {} THEN <<>>
        ELSE Asides(1, first)
             \o SelectSeq(SubSeq(whole, first, last), LAMBDA x : x.kind \in {"open", "close", "text"})
             \o [i \in DOMAIN open |-> token("close", open[i].val)]
             \o Asides(first, Len(whole))

ParserTypeOK ==
    /\ TreeTypeOK
    /\ rootName \in Names \cup {Nil}
    /\ cur \in Parents \cup {Nil}
    /\ \A d \in Parents : \A i \in DOMAIN txt[d] : txt[d][i] \in {Text, Cdata}
    /\ done \in BOOLEAN /\ (err # "" => done)

\* The parser reports an error exactly for the documents that are not well
\* formed.  A document that breaks off has one as well.
ErrorIffMalformed == done => (err = "" <=> WellFormed(doc))

\* What is written out of the tags is what was read, at any moment and also
\* after an error: no tag or text is lost, moved or doubled, whatever the order
\* in which the pieces of text and the tags of each level came.
WrittenAsRead == toxml = Canonical(Accepted)
=============================================================================
