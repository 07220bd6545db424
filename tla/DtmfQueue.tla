------------------------------ MODULE DtmfQueue ------------------------------
(***************************************************************************)
(* empbx_queue_t, the array queue in which a session keeps the DTMF digits *)
(* of its call.  Every operation runs under the queue's mutex, so each is  *)
(* one step.  Positions only move forward; they go back to the start when  *)
(* a pop runs past the last filled position or past the last slot.         *)
(***************************************************************************)
EXTENDS Naturals, Sequences

CONSTANTS
  Size,   \* the capacity given to empbx_queue_create
  Items,  \* the digits
  Null    \* an empty slot

ASSUME DtmfQueueAssumption ==
  /\ Size \in Nat \ {0}
  /\ Null \notin Items

VARIABLES
  data,    \* the slots, one more than the capacity
  in,      \* next slot to fill
  out,     \* next slot to empty
  answer,  \* what the last operation returned
  alive,   \* the destructor has not run
  freed    \* the slots whose items the destructor has freed

vars == <<data, in, out, answer, alive, freed>>

Slots == 0 .. Size

TypeOK ==
  /\ data \in [Slots -> Items \cup {Null}]
  /\ in \in 0 .. Size
  /\ out \in 0 .. Size
  /\ alive \in BOOLEAN
  /\ freed \subseteq Slots

\* empbx_queue_create
Init ==
  /\ data = [i \in Slots |-> Null]
  /\ in = 0 /\ out = 0
  /\ answer = <<"none">>
  /\ alive = TRUE /\ freed = {}

Push(d) ==
  /\ alive
  /\ in < Size
  /\ data' = [data EXCEPT ![in] = d]
  /\ in' = in + 1
  /\ answer' = <<"push", TRUE>>
  /\ UNCHANGED <<out, alive, freed>>

\* EMPBX_STATUS_QUEUE_FULL.  The DTMF handler asks for fullness first and
\* drops the digit.
Refuse ==
  /\ alive
  /\ in >= Size
  /\ answer' = <<"push", FALSE>>
  /\ UNCHANGED <<data, in, out, alive, freed>>

\* Faulty variant: the positions are reset as soon as one item is left.
PopResetsEarly ==
  /\ alive
  /\ in > 0
  /\ answer' = <<"pop", data[out]>>
  /\ data' = [data EXCEPT ![out] = Null]
  /\ IF out + 1 >= in \/ out + 2 >= Size
     THEN in' = 0 /\ out' = 0
     ELSE out' = out + 1 /\ in' = in
  /\ UNCHANGED <<alive, freed>>

Pop ==
  /\ alive
  /\ in > 0
  /\ answer' = <<"pop", data[out]>>
  /\ data' = [data EXCEPT ![out] = Null]
  /\ IF out + 1 > in \/ out + 1 >= Size
     THEN in' = 0 /\ out' = 0
     ELSE out' = out + 1 /\ in' = in
  /\ UNCHANGED <<alive, freed>>

PopNothing ==
  /\ alive
  /\ in = 0
  /\ answer' = <<"pop", Null>>
  /\ UNCHANGED <<data, in, out, alive, freed>>

IsEmpty ==
  /\ alive
  /\ answer' = <<"empty", in = 0>>
  /\ UNCHANGED <<data, in, out, alive, freed>>

IsFull ==
  /\ alive
  /\ answer' = <<"full", in >= Size>>
  /\ UNCHANGED <<data, in, out, alive, freed>>

\* Faulty variant: the loop over the slots starts behind the oldest item.
DestroySkipsFirst ==
  /\ alive
  /\ freed' = {i \in Slots : in > 0 /\ out < i /\ i <= in /\ data[i] # Null}
  /\ alive' = FALSE
  /\ UNCHANGED <<data, in, out, answer>>

\* The destructor frees what it finds in slots 0 .. in.
Destroy ==
  /\ alive
  /\ freed' = {i \in Slots : in > 0 /\ i <= in /\ data[i] # Null}
  /\ alive' = FALSE
  /\ UNCHANGED <<data, in, out, answer>>

Next ==
  \/ \E d \in Items : Push(d)
  \/ Refuse \/ Pop \/ PopNothing \/ IsEmpty \/ IsFull \/ Destroy

Spec == Init /\ [][Next]_vars

-----------------------------------------------------------------------------
\* The items lie in the slots out .. in - 1 and nowhere else: a popped item
\* is never reached again, whatever resets of the positions happened.
SlotInv ==
  /\ out <= in
  /\ out < Size
  /\ \A i \in Slots : data[i] # Null <=> out <= i /\ i < in

\* When the session is destroyed every digit still queued is freed: the
\* loop bound of the destructor covers all of them.
NothingLeaked ==
  ~alive => \A i \in Slots : data[i] # Null => i \in freed

-----------------------------------------------------------------------------
\* The queue the slots stand for.
QueueItems == [i \in 1 .. (in - out) |-> data[out + i - 1]]

Fifo == INSTANCE BoundedFifo WITH items <- QueueItems

\* The array implements BoundedFifo: digits come out once and in order, none
\* is overwritten, and a digit is refused only while others wait.
FifoSpec == Fifo!Spec
=============================================================================
