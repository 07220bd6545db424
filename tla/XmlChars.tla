------------------------------- MODULE XmlChars ------------------------------
(***************************************************************************)
(* Characters in ezxml: the references of a text or an attribute are        *)
(* decoded when it is read (ezxml_decode) and put in when it is written     *)
(* (ezxml_ampencode), a reference by number becomes UTF-8, and a document   *)
(* in UTF-16 is turned into UTF-8 first (ezxml_str2utf8).                   *)
(*                                                                         *)
(* A text is a sequence of characters and references.  A character is a     *)
(* member of Chars; [ent |-> n] stands for "&n;", [par |-> n] for "%n;" and *)
(* [code |-> c] for the reference by number to the character c.  A list of  *)
(* entities is a sequence of names and values, searched from its start.     *)
(* The last loop of ezxml_decode, for attributes declared as other than      *)
(* CDATA, reads on behind the end of the value and is left out.             *)
(***************************************************************************)
EXTENDS Naturals, SequencesExt

Chars == {"x", "&", "<", ">", "quot", "\n", "\t", "\r", " "}
Spaces == {"\n", "\t", "\r", " "}

Char(c) == [char |-> c]
Ent(n) == [ent |-> n]
Code(c) == [code |-> c]
IsChar(x, cs) == "char" \in DOMAIN x /\ x.char \in cs

\* The entities every document has.
predefined == <<
    [name |-> "lt", value |-> <<Code("<")>>], [name |-> "gt", value |-> <<Code(">")>>],
    [name |-> "quot", value |-> <<Code("quot")>>], [name |-> "amp", value |-> <<Code("&")>>] >>

Find(list, n) == SelectInSeq(list, LAMBDA e : e.name = n)

\* ezxml_decode, first loop: a line ends with \n, and not with \r or \r\n.
Lines(s) ==
    LET dropped(i) == i > 1 /\ IsChar(s[i], {"\n"}) /\ IsChar(s[i - 1], {"\r"})
        kept == SelectSeq([i \in DOMAIN s |-> i], LAMBDA i : ~dropped(i))
    IN  [k \in DOMAIN kept |-> IF IsChar(s[kept[k]], {"\r"}) THEN Char("\n") ELSE s[kept[k]]]

\* The reference at the start of s, as the entity list knows it: "&" in text and
\* attributes, "%" in the values of a DTD.
Known(s, list, t) ==
    IF t \in {"&", " "} /\ "ent" \in DOMAIN s[1] THEN Find(list, s[1].ent)
    ELSE IF t = "%" /\ "par" \in DOMAIN s[1] THEN Find(list, s[1].par)
    ELSE 0

\* The second loop: what a reference stands for is read again, a reference by
\* number is not.
RECURSIVE Expand(_, _, _)
Expand(s, list, t) ==
    IF s = <<>> THEN <<>>
    ELSE LET k == Known(s, list, t) IN
         IF k > 0 THEN Expand(list[k].value \o Tail(s), list, t)
         ELSE IF t # "c" /\ "code" \in DOMAIN s[1]
         THEN <<Char(s[1].code)>> \o Expand(Tail(s), list, t)
         ELSE IF t = " " /\ IsChar(s[1], Spaces)
         THEN <<Char(" ")>> \o Expand(Tail(s), list, t)
         ELSE <<s[1]>> \o Expand(Tail(s), list, t)

decode(s, list, t) == Expand(Lines(s), list, t)

-----------------------------------------------------------------------------
\* Faulty variant: the end of a line is not put in as a reference.
escapeLines(c, a) ==
    IF c = "&" THEN Ent("amp")
    ELSE IF c = "<" THEN Ent("lt")
    ELSE IF c = ">" THEN Ent("gt")
    ELSE IF c = "quot" /\ a THEN Ent("quot")
    ELSE Char(c)

\* ezxml_ampencode, for an attribute (a) or not.
escape(c, a) ==
    IF c = "&" THEN Ent("amp")
    ELSE IF c = "<" THEN Ent("lt")
    ELSE IF c = ">" THEN Ent("gt")
    ELSE IF c = "quot" /\ a THEN Ent("quot")
    ELSE IF c = "\r" \/ (c \in {"\n", "\t"} /\ a) THEN Code(c)
    ELSE Char(c)

ampencode(s, a) == [i \in DOMAIN s |-> escape(s[i].char, a)]

-----------------------------------------------------------------------------
\* Arithmetic on bits.
Pow2(n) == 2 ^ n
Bits(c) == CHOOSE b \in 1 .. 21 : c < Pow2(b) /\ (b = 1 \/ c >= Pow2(b - 1))
Low6(c, k) == (c \div Pow2(6 * k)) % 64

\* The first byte of a character of more than one: (0xFF << (7 - b)) | (c >> 6 b),
\* of which a char keeps eight bits.
head(c, b) ==
    LET ones == (255 * Pow2(7 - b)) % 256
        top == c \div Pow2(6 * b)
    IN  ones + (top % Pow2(7 - b))

payload(c) == (Bits(c) - 2) \div 5

utf8(c) ==
    IF c < 128 THEN <<c>>
    ELSE LET b == payload(c)
         IN  <<head(c, b)>> \o [i \in 1 .. b |-> 128 + Low6(c, b - i)]

\* Faulty variant: a pair of units is put together without its offset.
pairFlat(c, d) == (c % 1024) * 1024 + (d % 1024)

pair(c, d) == (c % 1024) * 1024 + (d % 1024) + 65536

Surrogate(c) == c \in 55296 .. 57343

\* ezxml_str2utf8, over the units of 16 bits.
RECURSIVE str2utf8(_)
str2utf8(u) ==
    IF u = <<>> THEN <<>>
    ELSE IF Surrogate(u[1])
    THEN IF Len(u) > 1 THEN utf8(pair(u[1], u[2])) \o str2utf8(SubSeq(u, 3, Len(u)))
         ELSE utf8(u[1])
    ELSE utf8(u[1]) \o str2utf8(Tail(u))
=============================================================================
