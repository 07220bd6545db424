----------------------------- MODULE LinkedList -----------------------------
(***************************************************************************)
(* The doubly linked list, pointer by pointer: the dialplan rules, and the *)
(* registrations that the maintenance thread is about to delete.  A walk   *)
(* along the pointers is one step per node.  Each list has one user.       *)
(***************************************************************************)
EXTENDS Naturals, SequencesExt

CONSTANTS
  Nodes,   \* addresses of nodes, used again after they have been freed
  Data,
  Nil      \* NULL, also for the fields of a node that is not allocated

VARIABLES
  head, tail, size,
  node,    \* the fields of an allocated node
  phase,   \* what the call under way does next
  req,     \* its arguments
  cur, at, \* the node it is at, and how far it has come
  result,    \* what the last call returned
  destroyed  \* history: the data that dh has destroyed

list == <<head, tail, size>>
call == <<phase, req, cur, at>>
listVars == <<head, tail, size, node, phase, req, cur, at, result, destroyed>>

Link == Nodes \cup {Nil}
Node == [next : Link, prev : Link, data : Data, own : BOOLEAN]
Request == [op : {"add"}, pos : Nat, data : Data, own : BOOLEAN]
             \cup [op : {"del", "get"}, pos : Nat]
             \cup [op : {"find"}, want : SUBSET Data]

ASSUME ListAssumption == Nil \notin Nodes \cup Node \cup Request

Dropping == phase \in {"clear", "destroy"}

ListTypeOK ==
  /\ head \in Link /\ tail \in Link /\ size \in Nat
  /\ node \in [Nodes -> Node \cup {Nil}]
  /\ phase \in {"idle", "seek", "find", "clear", "destroy", "gone"}
  /\ req \in Request \cup {Nil}
  /\ cur \in Link /\ at \in Nat
  /\ result \in Data \cup {Nil} /\ destroyed \subseteq Data

ListInit ==
  /\ head = Nil /\ tail = Nil /\ size = 0
  /\ node = [i \in Nodes |-> Nil]
  /\ phase = "idle" /\ req = Nil /\ cur = Nil /\ at = 0
  /\ result = Nil /\ destroyed = {}

-----------------------------------------------------------------------------
Live == {i \in Nodes : node[i] # Nil}
Fresh(d) == d \notin destroyed /\ \A i \in Live : node[i].data # d
New(n, p, d, o) == [next |-> n, prev |-> p, data |-> d, own |-> o]

\* The destructor of a node: dh, if there is one, destroys the data.
Destroyed(i) == IF node[i].own THEN {node[i].data} ELSE {}

AddFirst(i, d, o) ==
  /\ phase = "idle" /\ size = 0 /\ node[i] = Nil /\ Fresh(d)
  /\ node' = [node EXCEPT ![i] = New(Nil, Nil, d, o)]
  /\ head' = i /\ tail' = i /\ size' = 1
  /\ UNCHANGED <<call, result, destroyed>>

AddHead(i, d, o) ==
  /\ phase = "idle" /\ size > 0 /\ node[i] = Nil /\ Fresh(d)
  /\ node' = [node EXCEPT ![i] = New(head, Nil, d, o), ![head].prev = i]
  /\ head' = i /\ size' = size + 1
  /\ UNCHANGED <<tail, call, result, destroyed>>

AddTail(i, d, o) ==
  /\ phase = "idle" /\ size > 0 /\ node[i] = Nil /\ Fresh(d)
  /\ node' = [node EXCEPT ![i] = New(Nil, tail, d, o), ![tail].next = i]
  /\ tail' = i /\ size' = size + 1
  /\ UNCHANGED <<head, call, result, destroyed>>

\* Calls that walk to a position: from the head, pos times to the next node.
Start(r) ==
  /\ phase' = "seek" /\ req' = r /\ cur' = head /\ at' = 0
  /\ UNCHANGED <<list, node, result, destroyed>>

AddAt(p, d, o) ==
  /\ phase = "idle" /\ p \in 1 .. size - 1 /\ Fresh(d)
  /\ Start([op |-> "add", pos |-> p, data |-> d, own |-> o])

DeleteAt(p) ==
  phase = "idle" /\ p \in 1 .. size - 1 /\ Start([op |-> "del", pos |-> p])

GetAt(p) ==
  phase = "idle" /\ p \in 0 .. size - 1 /\ Start([op |-> "get", pos |-> p])

Seek ==
  /\ phase = "seek" /\ at # req.pos
  /\ cur' = node[cur].next /\ at' = at + 1
  /\ UNCHANGED <<list, node, phase, req, result, destroyed>>

Arrived(op) == phase = "seek" /\ at = req.pos /\ req.op = op

Return(value) ==
  result' = value /\ phase' = "idle" /\ req' = Nil /\ cur' = Nil /\ at' = 0

\* Faulty variant: the new node comes after the target.
InsertAfter(i) ==
  /\ Arrived("add") /\ node[i] = Nil
  /\ LET n == node[cur].next
         linked == [node EXCEPT ![cur].next = i,
                                ![i] = New(n, cur, req.data, req.own)] IN
       node' = IF n = Nil THEN linked ELSE [linked EXCEPT ![n].prev = i]
  /\ tail' = IF cur = tail THEN i ELSE tail
  /\ size' = size + 1
  /\ Return(result)
  /\ UNCHANGED <<head, destroyed>>

InsertBefore(i) ==
  /\ Arrived("add") /\ node[i] = Nil
  /\ LET p == node[cur].prev IN
       node' = [node EXCEPT ![i] = New(cur, p, req.data, req.own),
                            ![p].next = i, ![cur].prev = i]
  /\ size' = size + 1
  /\ Return(result)
  /\ UNCHANGED <<head, tail, destroyed>>

\* No memory for the node, found out after the walk: the data stay with the
\* caller.  For the other positions such a call changes nothing at all.
InsertFail ==
  /\ Arrived("add")
  /\ Return(result)
  /\ UNCHANGED <<list, node, destroyed>>

GetDone ==
  /\ Arrived("get")
  /\ Return(node[cur].data)
  /\ UNCHANGED <<list, node, destroyed>>

Unlink ==
  /\ Arrived("del")
  /\ LET c == node[cur] IN
       /\ IF cur = tail
          THEN /\ tail' = c.prev
               /\ node' = [node EXCEPT ![c.prev].next = Nil, ![cur] = Nil]
          ELSE /\ node' = [node EXCEPT ![c.prev].next = c.next,
                                       ![c.next].prev = c.prev, ![cur] = Nil]
               /\ UNCHANGED tail
       /\ destroyed' = destroyed \cup Destroyed(cur)
       /\ Return(IF c.own THEN Nil ELSE c.data)
  /\ size' = size - 1
  /\ UNCHANGED head

\* The head is taken out of the list and freed.
CutHead ==
  /\ phase = "idle" /\ size > 0
  /\ LET n == node[head].next IN
       /\ node' = IF n = Nil THEN [node EXCEPT ![head] = Nil]
                  ELSE [node EXCEPT ![head] = Nil, ![n].prev = Nil]
       /\ head' = n
       /\ tail' = IF size = 1 THEN Nil ELSE tail
  /\ size' = size - 1
  /\ UNCHANGED call

DeleteHead ==
  /\ CutHead
  /\ destroyed' = destroyed \cup Destroyed(head)
  /\ result' = IF node[head].own THEN Nil ELSE node[head].data

PopHead == CutHead /\ result' = node[head].data /\ UNCHANGED destroyed

-----------------------------------------------------------------------------
\* The callback of find says yes to the data in W, that of foreach to none.
FindStart(W) ==
  /\ phase = "idle" /\ size > 0
  /\ phase' = "find" /\ req' = [op |-> "find", want |-> W]
  /\ cur' = head /\ at' = 0
  /\ UNCHANGED <<list, node, result, destroyed>>

FindOn ==
  /\ phase = "find" /\ at < size /\ cur # Nil
  /\ node[cur].data \notin req.want
  /\ cur' = node[cur].next /\ at' = at + 1
  /\ UNCHANGED <<list, node, phase, req, result, destroyed>>

Found ==
  /\ phase = "find" /\ at < size /\ cur # Nil
  /\ node[cur].data \in req.want
  /\ Return(node[cur].data)
  /\ UNCHANGED <<list, node, destroyed>>

NotFound ==
  /\ phase = "find" /\ (at = size \/ cur = Nil)
  /\ Return(Nil)
  /\ UNCHANGED <<list, node, destroyed>>

\* Clear, and the destructor of the list.
DropStart(p) ==
  /\ phase = "idle" /\ (p = "clear" => size > 0)
  /\ phase' = p /\ cur' = head
  /\ UNCHANGED <<list, node, req, at, result, destroyed>>

Drop ==
  /\ Dropping /\ cur # Nil
  /\ node' = [node EXCEPT ![cur] = Nil] /\ destroyed' = destroyed \cup Destroyed(cur)
  /\ cur' = node[cur].next /\ at' = at + 1
  /\ UNCHANGED <<list, phase, req, result>>

DropEnd ==
  /\ Dropping /\ cur = Nil
  /\ head' = Nil /\ tail' = Nil /\ size' = 0
  /\ phase' = IF phase = "clear" THEN "idle" ELSE "gone"
  /\ at' = 0
  /\ UNCHANGED <<node, req, cur, result, destroyed>>

-----------------------------------------------------------------------------
Walk ==
  \/ \E p \in 1 .. size : DeleteAt(p) \/ GetAt(p - 1)
  \/ \E p \in 1 .. size, d \in Data, o \in BOOLEAN : AddAt(p, d, o)
  \/ Seek \/ (\E i \in Nodes : InsertBefore(i))
  \/ InsertFail \/ GetDone \/ Unlink

ListNext ==
  \/ \E i \in Nodes, d \in Data, o \in BOOLEAN :
       AddFirst(i, d, o) \/ AddHead(i, d, o) \/ AddTail(i, d, o)
  \/ Walk
  \/ DeleteHead \/ PopHead
  \/ (\E W \in SUBSET Data : FindStart(W)) \/ FindOn \/ Found \/ NotFound
  \/ (\E p \in {"clear", "destroy"} : DropStart(p)) \/ Drop \/ DropEnd

ListSpec == ListInit /\ [][ListNext]_listVars

-----------------------------------------------------------------------------
\* Properties.

First == IF Dropping THEN cur ELSE head
Left == IF Dropping THEN size - at ELSE size

\* s is the list: the nodes from the first to the tail, linked both ways, with
\* nothing allocated beside them, and the walk under way is where it should be.
Rep(s) ==
  /\ \A j, k \in 1 .. Left : s[j] = s[k] => j = k
  /\ Live = {s[k] : k \in 1 .. Left}
  /\ \A k \in 1 .. Left :
       /\ node[s[k]].next = IF k < Left THEN s[k + 1] ELSE Nil
       /\ IF k > 1 THEN node[s[k]].prev = s[k - 1]
                   ELSE Dropping \/ node[s[k]].prev = Nil
  /\ IF Left = 0 THEN First = Nil /\ (Dropping \/ tail = Nil)
                 ELSE First = s[1] /\ tail = s[Left]
  /\ phase \in {"seek", "find"} => cur = IF at < size THEN s[at + 1] ELSE Nil

Order == CHOOSE s \in [1 .. Left -> Nodes] : Rep(s)
Elements ==
  [k \in 1 .. Left |-> [data |-> node[Order[k]].data, own |-> node[Order[k]].own]]

\* The list implements the sequence ListSeq: whatever is added, taken out,
\* searched and cleared, and where, its pointers lead through the elements in
\* their order, and of the data it destroys those it owns, and only those.
Seq0 == INSTANCE ListSeq WITH
          seq <- Elements, out <- result, freed <- destroyed, Null <- Nil
SeqSpec == Seq0!Spec
=============================================================================
