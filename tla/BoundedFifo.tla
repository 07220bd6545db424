----------------------------- MODULE BoundedFifo -----------------------------
(***************************************************************************)
(* What empbx_queue_t promises its callers: a queue of at most Size items, *)
(* first in first out.  The answers are weak in three places.  A push may  *)
(* be refused although there is room, but never when the queue is empty.   *)
(* "Full" may be answered in the same states, and "not empty" at any time. *)
(***************************************************************************)
EXTENDS Naturals, Sequences

CONSTANTS
  Size,   \* capacity, at least one item
  Items,  \* what is queued
  Null    \* the answer of a pop that found nothing

VARIABLES
  items,   \* the queue
  answer   \* what the last operation returned

vars == <<items, answer>>

Init == items = <<>> /\ answer = <<"none">>

Push(d) ==
  /\ Len(items) < Size
  /\ items' = Append(items, d)
  /\ answer' = <<"push", TRUE>>

Refuse ==
  /\ items # <<>>
  /\ answer' = <<"push", FALSE>>
  /\ UNCHANGED items

Pop ==
  /\ items # <<>>
  /\ items' = Tail(items)
  /\ answer' = <<"pop", Head(items)>>

PopNothing ==
  /\ items = <<>>
  /\ answer' = <<"pop", Null>>
  /\ UNCHANGED items

IsEmpty ==
  /\ \E b \in BOOLEAN : /\ b => items = <<>>
                        /\ answer' = <<"empty", b>>
  /\ UNCHANGED items

IsFull ==
  /\ \E b \in BOOLEAN : /\ b => items # <<>>
                        /\ Len(items) = Size => b
                        /\ answer' = <<"full", b>>
  /\ UNCHANGED items

Next ==
  \/ \E d \in Items : Push(d)
  \/ Refuse \/ Pop \/ PopNothing \/ IsEmpty \/ IsFull

Spec == Init /\ [][Next]_vars
=============================================================================
