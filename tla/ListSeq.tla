------------------------------ MODULE ListSeq ------------------------------
(***************************************************************************)
(* What a user of a list relies on: a sequence of elements, each of which  *)
(* the list owns or only holds, and which data the list has destroyed.     *)
(***************************************************************************)
EXTENDS Naturals, SequencesExt

CONSTANTS
  Data,
  Null     \* no element

VARIABLES
  seq,     \* the elements, from head to tail
  req,     \* the call under way, if it needs more than a step
  out,     \* what the last call returned
  freed    \* the data that have been destroyed

vars == <<seq, req, out, freed>>

Element == [data : Data, own : BOOLEAN]
Request == [op : {"add"}, pos : Nat, data : Data, own : BOOLEAN]
             \cup [op : {"del", "get"}, pos : Nat]
             \cup [op : {"find"}, want : SUBSET Data]

Init == seq = << >> /\ req = Null /\ out = Null /\ freed = {}

Destroyed(e) == IF e.own THEN {e.data} ELSE {}
Fresh(d) == d \notin freed \cup {seq[k].data : k \in DOMAIN seq}
Asked(op) == req # Null /\ req.op = op /\ req' = Null

Call ==
  /\ req = Null /\ req' # Null /\ req' \in Request
  /\ UNCHANGED <<seq, out, freed>>

\* The call fails: there is no memory for the element.
Fail == Asked("add") /\ UNCHANGED <<seq, out, freed>>

\* p elements come before the new one: all, none, or as many as asked for.
Add(p, e) ==
  /\ \/ req = Null /\ p \in {0, Len(seq)} /\ UNCHANGED req
     \/ Asked("add") /\ p = req.pos /\ e = [data |-> req.data, own |-> req.own]
  /\ Fresh(e.data)
  /\ seq' = InsertAt(seq, p + 1, e)
  /\ UNCHANGED <<out, freed>>

\* An element that the list owns is destroyed, any other is returned.
Delete(k) ==
  /\ \/ req = Null /\ k = 1 /\ UNCHANGED req
     \/ Asked("del") /\ k = req.pos + 1
  /\ seq' = RemoveAt(seq, k)
  /\ freed' = freed \cup Destroyed(seq[k])
  /\ out' = IF seq[k].own THEN Null ELSE seq[k].data

\* The caller takes over what the list owned.
Pop ==
  /\ req = Null /\ seq # << >>
  /\ seq' = Tail(seq) /\ out' = Head(seq).data
  /\ UNCHANGED <<req, freed>>

Get == Asked("get") /\ out' = seq[req.pos + 1].data /\ UNCHANGED <<seq, freed>>

\* The first element that is wanted, if there is one.
Find ==
  /\ Asked("find")
  /\ \/ out' = Null /\ \A k \in DOMAIN seq : seq[k].data \notin req.want
     \/ \E k \in DOMAIN seq :
          /\ seq[k].data \in req.want /\ out' = seq[k].data
          /\ \A j \in 1 .. k - 1 : seq[j].data \notin req.want
  /\ UNCHANGED <<seq, freed>>

\* One element of a list that is cleared or destroyed, from the head on.
DropHead ==
  /\ seq # << >>
  /\ seq' = Tail(seq) /\ freed' = freed \cup Destroyed(Head(seq))
  /\ UNCHANGED <<req, out>>

Next ==
  \/ \E p \in 0 .. Len(seq), e \in Element : Add(p, e)
  \/ \E k \in DOMAIN seq : Delete(k)
  \/ Call \/ Fail \/ Get \/ Find \/ Pop \/ DropHead

Spec == Init /\ [][Next]_vars
=============================================================================
