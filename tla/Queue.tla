------------------------------- MODULE Queue -------------------------------
(***************************************************************************)
(* queue.c: a singly linked list with front and rear pointers and a count. *)
(* The heap is a finite pool of nodes; malloc returns any node not in use *)
(* (so a freed node may come back), free returns it to the pool and leaves *)
(* its fields as they were.  Every queue operation runs to completion (the *)
(* callers mask interrupts around it), so each one is a single action.    *)
(* queue_dequeue on an empty queue and queue_delete of an absent item      *)
(* return -1 without a change of state and are left out.                  *)
(***************************************************************************)
EXTENDS Integers, Sequences, SequencesExt, FiniteSets

CONSTANTS
  Nodes,          \* the heap: nodes malloc may return
  Nil,            \* NULL
  Items,          \* the void* items stored
  Prios,          \* priorities passed to queue_insert_sorted
  DeleteAnywhere  \* FALSE: callers only delete the item at the front

ASSUME Nil \notin Nodes /\ 0 \in Prios /\ DeleteAnywhere \in BOOLEAN

VARIABLES front, rear, count, next, data, prio, alloc

vars == <<front, rear, count, next, data, prio, alloc>>

\* The nodes reached from front through next, in order; a cycle is cut one
\* step past the size of the heap.
RECURSIVE ChainFrom(_, _)
ChainFrom(n, k) ==
  IF n = Nil \/ k = 0 THEN <<>> ELSE <<n>> \o ChainFrom(next[n], k - 1)
Chain == ChainFrom(front, Cardinality(Nodes) + 1)

\* Index in Chain of the first node holding item, 0 when there is none:
\* the walk of queue_delete.
FindItem(item) == SelectInSeq(Chain, LAMBDA n : data[n] = item)

\* create_qnode / creat_qnode_priority: a fresh node from the heap.
Malloc(n, item, p) ==
  /\ n \notin alloc
  /\ alloc' = alloc \cup {n}
  /\ data' = [data EXCEPT ![n] = item]
  /\ prio' = [prio EXCEPT ![n] = p]

\* queue_new.
Init ==
  /\ front = Nil /\ rear = Nil /\ count = 0
  /\ next = [n \in Nodes |-> Nil]
  /\ data = [n \in Nodes |-> Nil]
  /\ prio = [n \in Nodes |-> 0]
  /\ alloc = {}

\* queue_prepend.
QueuePrepend(item) ==
  \E n \in Nodes :
    /\ Malloc(n, item, 0)
    /\ IF front = Nil
         THEN /\ next' = [next EXCEPT ![n] = Nil]
              /\ rear' = n
         ELSE /\ next' = [next EXCEPT ![n] = front]
              /\ UNCHANGED rear
    /\ front' = n
    /\ count' = count + 1

\* queue_append.
QueueAppend(item) ==
  \E n \in Nodes :
    /\ Malloc(n, item, 0)
    /\ IF front = Nil
         THEN /\ front' = n
              /\ next' = [next EXCEPT ![n] = Nil]
         ELSE /\ next' = [next EXCEPT ![n] = Nil, ![rear] = n]
              /\ UNCHANGED front
    /\ rear' = n
    /\ count' = count + 1

\* Faulty variant of QueueDequeue: rear is not cleared when the queue
\* becomes empty.
QueueDequeueKeepRear ==
  /\ front # Nil
  /\ front' = next[front]
  /\ alloc' = alloc \ {front}
  /\ count' = count - 1
  /\ UNCHANGED <<rear, next, data, prio>>

\* queue_dequeue of a non-empty queue.
QueueDequeue ==
  /\ front # Nil
  /\ front' = next[front]
  /\ alloc' = alloc \ {front}
  /\ rear' = IF next[front] = Nil THEN Nil ELSE rear
  /\ count' = count - 1
  /\ UNCHANGED <<next, data, prio>>

\* Faulty variant of QueueDelete: count-- also on the not-found path.
QueueDeleteCountsMissing(item) ==
  LET i    == FindItem(item)
      curr == Chain[i]
      prev == IF i = 1 THEN Nil ELSE Chain[i - 1]
  IN  IF i = 0
        THEN /\ count' = count - 1
             /\ UNCHANGED <<front, rear, alloc, next, data, prio>>
        ELSE /\ DeleteAnywhere \/ i = 1
             /\ front' = IF curr = front THEN next[curr] ELSE front
             /\ rear' = IF curr = rear THEN prev ELSE rear
             /\ alloc' = alloc \ {curr}
             /\ count' = count - 1
             /\ UNCHANGED <<next, data, prio>>

\* queue_delete of an item in the queue: the node is unlinked from front
\* and rear, freed and counted out; the next field of the node before it
\* is not changed.
QueueDelete(item) ==
  LET i    == FindItem(item)
      curr == Chain[i]
      prev == IF i = 1 THEN Nil ELSE Chain[i - 1]
  IN  /\ i # 0
      /\ DeleteAnywhere \/ i = 1
      /\ front' = IF curr = front THEN next[curr] ELSE front
      /\ rear' = IF curr = rear THEN prev ELSE rear
      /\ alloc' = alloc \ {curr}
      /\ count' = count - 1
      /\ UNCHANGED <<next, data, prio>>

\* queue_insert_sorted after malloc of node n, when the walk stopped at
\* index i of Chain (0: it ran off the end): an empty queue (by count)
\* gets n as front and rear; otherwise n goes before the node it stopped
\* at, at the front, or after the last node walked, which becomes rear.
LinkSorted(n, i) ==
  IF count = 0
    THEN /\ front' = n /\ rear' = n
         /\ next' = [next EXCEPT ![n] = Nil]
  ELSE IF i = 1
    THEN /\ front' = n /\ UNCHANGED rear
         /\ next' = [next EXCEPT ![n] = Chain[1]]
  ELSE IF i > 1
    THEN /\ UNCHANGED <<front, rear>>
         /\ next' = [next EXCEPT ![Chain[i - 1]] = n, ![n] = Chain[i]]
  ELSE /\ UNCHANGED front /\ rear' = n
       /\ next' = [next EXCEPT ![Chain[Len(Chain)]] = n, ![n] = Nil]

\* Faulty variant of QueueInsertSorted: the walk stops at the first node
\* of greater or equal priority.
QueueInsertSortedBeforeEqual(item, p) ==
  \E n \in Nodes :
    /\ Malloc(n, item, p)
    /\ LinkSorted(n, SelectInSeq(Chain, LAMBDA m : p <= prio[m]))
    /\ count' = count + 1

\* queue_insert_sorted: the walk stops at the first node of strictly
\* greater priority.
QueueInsertSorted(item, p) ==
  \E n \in Nodes :
    /\ Malloc(n, item, p)
    /\ LinkSorted(n, SelectInSeq(Chain, LAMBDA m : p < prio[m]))
    /\ count' = count + 1

Next ==
  \/ QueueDequeue
  \/ \E d \in Items : QueuePrepend(d) \/ QueueAppend(d) \/ QueueDelete(d)
  \/ \E d \in Items, p \in Prios : QueueInsertSorted(d, p)

Spec == Init /\ [][Next]_vars

-----------------------------------------------------------------------------
TypeOK ==
  /\ front \in Nodes \cup {Nil} /\ rear \in Nodes \cup {Nil}
  /\ count \in 0 .. Cardinality(Nodes)
  /\ next \in [Nodes -> Nodes \cup {Nil}]
  /\ data \in [Nodes -> Items \cup {Nil}]
  /\ prio \in [Nodes -> Prios]
  /\ alloc \subseteq Nodes

(* The list is well formed after every operation: walking next from front *)
(* meets exactly count distinct allocated nodes and then NULL, rear is the *)
(* last of them (NULL when empty), and every allocated node is on the     *)
(* list (no leak).  queue_dequeue must clear rear when it takes the last  *)
(* node and queue_delete must unlink the node it frees.                    *)
WellFormed ==
  /\ Len(Chain) = count
  /\ Range(Chain) = alloc
  /\ Cardinality(alloc) = count
  /\ rear = IF count = 0 THEN Nil ELSE Chain[count]

(* queue.c implements QueueSpec: the items read by walking the list from  *)
(* front change, at each operation, exactly as the sequence operation of  *)
(* the same name says.                                                    *)
Abs == [k \in 1 .. Len(Chain) |-> [data |-> data[Chain[k]], prio |-> prio[Chain[k]]]]
QAbs == INSTANCE QueueSpec WITH q <- Abs
QueueRefinement == QAbs!Spec
=============================================================================
