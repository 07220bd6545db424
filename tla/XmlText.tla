------------------------------- MODULE XmlText -------------------------------
(* Texts written and read again, and documents in UTF-16, with the functions  *)
(* of XmlChars. *)
EXTENDS XmlChars

CONSTANTS
    MaxText,    \* bound of the model: the characters of a text
    Points      \* the characters of a document in UTF-16

VARIABLES text, mode, file, units

vars == <<text, mode, file, units>>

Texts == UNION {[1 .. n -> {Char(c) : c \in Chars}] : n \in 0 .. MaxText}

Init ==
    /\ text \in Texts /\ mode \in {"&", " "}
    /\ file = <<>> /\ units = <<>>

\* The text is written, to be read again.
Write ==
    /\ file = <<>>
    /\ file' = ampencode(text, mode = " ")
    /\ UNCHANGED <<text, mode, units>>

\* A character of a document in UTF-16 arrives.
Unit(c) ==
    /\ text = <<>> /\ Len(units) < 2
    /\ units' = Append(units, c)
    /\ UNCHANGED <<text, mode, file>>

Next == Write \/ \E c \in Points : Unit(c)
Spec == Init /\ [][Next]_vars

TypeOK ==
    /\ \A i \in DOMAIN file : IsChar(file[i], Chars \ {"&", "<", ">"}) \/ ~IsChar(file[i], Chars)
    /\ \A i \in DOMAIN units : \A k \in DOMAIN utf8(units[i]) : utf8(units[i])[k] \in 0 .. 255

\* What was written is read again as it was, in text and in attributes: no
\* character is taken for markup, and none changes on the way.
ReadAsWritten == (file # <<>> \/ text = <<>>) => decode(file, predefined, mode) = text

\* The standard's forms of a character, told from the ranges of its number.
Utf8(c) ==
    IF c < 128 THEN <<c>>
    ELSE IF c < 2048 THEN <<192 + c \div 64, 128 + (c % 64)>>
    ELSE IF c < 65536 THEN <<224 + c \div 4096, 128 + ((c \div 64) % 64), 128 + (c % 64)>>
    ELSE <<240 + c \div 262144, 128 + ((c \div 4096) % 64), 128 + ((c \div 64) % 64), 128 + (c % 64)>>
Utf16(c) ==
    IF c < 65536 THEN <<c>>
    ELSE <<55296 + (c - 65536) \div 1024, 56320 + ((c - 65536) % 1024)>>

\* A document in UTF-16 becomes the same document in UTF-8.
SameInUtf8 ==
    str2utf8(FlattenSeq([i \in DOMAIN units |-> Utf16(units[i])]))
        = FlattenSeq([i \in DOMAIN units |-> Utf8(units[i])])
=============================================================================
