---------------------------- MODULE Substitution ----------------------------
(***************************************************************************)
(* empbx_perform_substitution: the data of a dialplan rule, with $n and    *)
(* ${n} replaced by what group n of its expression has matched.  One step  *)
(* is one turn of the loop.  Characters are their codes.                   *)
(***************************************************************************)
EXTENDS Integers, SequencesExt, Functions

CONSTANTS
  Templates,  \* the data of rules
  Matches,    \* what the groups of an expression may have matched, from 0 on
  IndexSize,  \* sizeof index
  Cap,        \* len - 1
  Outside     \* what may be read in front of data

\* Characters and what groups match are strings.
ASSUME SubstitutionAssumption ==
  /\ Templates \subseteq Seq(Nat) /\ Matches \subseteq Seq(Seq(Nat))
  /\ IndexSize \in Nat \ {0} /\ Cap \in Nat
  /\ Outside \subseteq Nat /\ Outside # {}

VARIABLES
  data, match,   \* the arguments
  x,             \* the position in data, from 0
  index,         \* the digits of a reference; its length is z
  substituted,   \* the result so far; its length is y
  done

loopVars == <<data, match, x, index, substituted, done>>

Dollar == 36
Open == 123
Close == 125
IsDigit(c) == c > 47 /\ c < 58

atoi(ds) == FoldLeft(LAMBDA n, c : 10 * n + (c - 48), 0, ds)

\* A reference in a template, from i to j: $ and all the digits that follow, or
\* $ and digits in braces.
DigitsIn(t, i, j) == i <= j /\ \A k \in i .. j : IsDigit(t[k])
Bare(t, i, j) ==
  t[i] = Dollar /\ DigitsIn(t, i + 1, j) /\ (j = Len(t) \/ ~IsDigit(t[j + 1]))
Braced(t, i, j) ==
  /\ t[i] = Dollar /\ i + 1 < j
  /\ t[i + 1] = Open /\ DigitsIn(t, i + 2, j - 1) /\ t[j] = Close
Ref(t, i, j) == Bare(t, i, j) \/ Braced(t, i, j)
RefDigits(t, i, j) ==
  IF t[i + 1] = Open THEN SubSeq(t, i + 2, j - 1) ELSE SubSeq(t, i + 1, j)

\* A brace that is opened after $ and before a digit is closed after digits, and
\* the digits of every reference have room in index.
WellFormed(t) ==
  /\ \A i \in 1 .. Len(t) - 2 :
       t[i] = Dollar /\ t[i + 1] = Open /\ IsDigit(t[i + 2]) =>
         \E j \in i .. Len(t) : Braced(t, i, j)
  /\ \A i \in 1 .. Len(t) : \A j \in i .. Len(t) :
       Ref(t, i, j) => Len(RefDigits(t, i, j)) < IndexSize

LoopTypeOK ==
  /\ data \in Templates /\ match \in Matches
  /\ x \in Int /\ (WellFormed(data) => x \in 0 .. Len(data))
  /\ Len(index) < IndexSize
  /\ Len(substituted) <= Cap
  /\ done \in BOOLEAN

LoopInit ==
  /\ data \in Templates /\ match \in Matches
  /\ x = 0 /\ index = << >> /\ substituted = << >> /\ done = FALSE

-----------------------------------------------------------------------------
\* The string ends with a zero.
At(i) == IF i < Len(data) THEN data[i + 1] ELSE 0
More == ~done /\ Len(substituted) < Cap /\ x \in 0 .. Len(data) - 1
AtDollar == More /\ At(x) = Dollar

brace == IF At(x + 1) = Open THEN 1 ELSE 0
From == x + 1 + brace

\* The digits that are taken: all that come, as far as index has room.
Run ==
  CHOOSE k \in 0 .. Len(data) :
    /\ \A i \in From .. From + k - 1 : IsDigit(At(i))
    /\ Len(index) + k < IndexSize
    /\ ~IsDigit(At(From + k)) \/ Len(index) + k + 1 = IndexSize
Digits == index \o SubSeq(data, From + 1, From + Run)
To == From + Run

\* What the group has matched; nothing for a group there is not.
Group(m, n) == IF n <= 256 /\ n + 1 \in DOMAIN m THEN m[n + 1] ELSE << >>

Cut(s) == SubSeq(s, 1, IF Len(s) < Cap THEN Len(s) ELSE Cap)
Put(s) == substituted' = Cut(substituted \o s)

Ordinary ==
  /\ More /\ At(x) # Dollar
  /\ Put(<<At(x)>>) /\ x' = x + 1
  /\ UNCHANGED <<data, match, index, done>>

NoReference ==
  /\ AtDollar /\ ~IsDigit(At(From))
  /\ Put(<<Dollar>>) /\ x' = x + 1
  /\ UNCHANGED <<data, match, index, done>>

\* Back by the length of index, which then stays: to the first of the digits, or
\* further when there were digits in index before, even out of data.
Unclosed ==
  /\ AtDollar /\ IsDigit(At(From)) /\ brace = 1 /\ At(To) # Close
  /\ x' = To - (Len(Digits) - 1)
  /\ index' = Digits
  /\ \E c \in Outside : Put(<<IF x' > 0 THEN At(x' - 1) ELSE c>>)
  /\ UNCHANGED <<data, match, done>>

\* Faulty variant: index keeps the digits of the reference before.
ReferenceKeepsIndex ==
  /\ AtDollar /\ IsDigit(At(From)) /\ (brace = 1 => At(To) = Close)
  /\ x' = To + brace
  /\ Put(Group(match, atoi(Digits)))
  /\ index' = Digits
  /\ UNCHANGED <<data, match, done>>

Reference ==
  /\ AtDollar /\ IsDigit(At(From)) /\ (brace = 1 => At(To) = Close)
  /\ x' = To + brace
  /\ Put(Group(match, atoi(Digits)))
  /\ index' = << >>
  /\ UNCHANGED <<data, match, done>>

End ==
  /\ ~done /\ ~More /\ done' = TRUE
  /\ UNCHANGED <<data, match, x, index, substituted>>

LoopNext == Ordinary \/ NoReference \/ Unclosed \/ Reference \/ End
LoopSpec == LoopInit /\ [][LoopNext]_loopVars

-----------------------------------------------------------------------------
\* Properties.

\* Each character stands for itself, the first one of a reference for what the
\* group has matched, the others of it for nothing.
Piece(t, m, i) ==
  CASE \E j \in i .. Len(t) : Ref(t, i, j) ->
         Group(m, atoi(RefDigits(t, i, CHOOSE j \in i .. Len(t) : Ref(t, i, j))))
    [] \E h \in 1 .. i - 1 : \E j \in i .. Len(t) : Ref(t, h, j) -> << >>
    [] OTHER -> <<t[i]>>
Expanded(t, m) == FlattenSeq([i \in 1 .. Len(t) |-> Piece(t, m, i)])

\* The number that is dialled in the end is the data of the rule with every
\* reference replaced, and only cut where the buffer ends.
ResultRight ==
  LoopTypeOK /\ (done /\ WellFormed(data) => substituted = Cut(Expanded(data, match)))
=============================================================================
