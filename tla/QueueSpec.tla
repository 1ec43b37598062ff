----------------------------- MODULE QueueSpec -----------------------------
(***************************************************************************)
(* What queue.h promises: a queue is a sequence of (data, priority)       *)
(* entries.  append and prepend add an entry of priority 0 at one end,    *)
(* dequeue removes the first, delete removes the first entry holding the  *)
(* item, and insert_sorted puts an entry before the first one of strictly *)
(* greater priority.                                                      *)
(***************************************************************************)
EXTENDS Integers, Sequences, SequencesExt

CONSTANTS Items, Prios

VARIABLE q

Entry(d, p) == [data |-> d, prio |-> p]

Init == q = <<>>

QAppend(d)  == q' = Append(q, Entry(d, 0))
QPrepend(d) == q' = <<Entry(d, 0)>> \o q
QDequeue    == q # <<>> /\ q' = Tail(q)
QDelete(d)  ==
  LET i == SelectInSeq(q, LAMBDA e : e.data = d)
  IN  i # 0 /\ q' = RemoveAt(q, i)
QInsertSorted(d, p) ==
  LET i == SelectInSeq(q, LAMBDA e : p < e.prio)
  IN  q' = IF i = 0 THEN Append(q, Entry(d, p)) ELSE InsertAt(q, i, Entry(d, p))

Next ==
  \/ QDequeue
  \/ \E d \in Items : QAppend(d) \/ QPrepend(d) \/ QDelete(d)
  \/ \E d \in Items, p \in Prios : QInsertSorted(d, p)

Spec == Init /\ [][Next]_q
=============================================================================
