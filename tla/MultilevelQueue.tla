-------------------------- MODULE MultilevelQueue --------------------------
(***************************************************************************)
(* multilevel_queue.c: NLevels FIFO queues of runnable threads, indexed   *)
(* by level 0 .. NLevels-1 (level 0 is the highest priority).  A queue is *)
(* a function from levels to sequences; the operators are pure and return *)
(* the new queue, so callers in a masked region compose them.             *)
(***************************************************************************)
EXTENDS Integers, Sequences

CONSTANT NLevels
ASSUME NLevels \in Nat \ {0}

Levels == 0 .. (NLevels - 1)

\* multilevel_queue_new: every level empty.
MLQNew == [l \in Levels |-> <<>>]

\* multilevel_queue_enqueue: append item at the given level.
MLQEnqueue(q, level, item) == [q EXCEPT ![level] = Append(@, item)]

\* The level multilevel_queue_dequeue takes from: the circular probe
\* (level + i) % n_levels, i = 0 .. n_levels-1, stops at the first
\* non-empty level; -1 when every level is empty.
MLQProbe(q, level) ==
  LET hits == {i \in 0 .. (NLevels - 1) : q[(level + i) % NLevels] # <<>>}
  IN  IF hits = {} THEN -1
      ELSE (level + (CHOOSE i \in hits : \A j \in hits : i <= j)) % NLevels

\* multilevel_queue_dequeue: the result record holds whether an item was
\* found, the item, and the queue after the dequeue.
MLQDequeue(q, level) ==
  LET l == MLQProbe(q, level)
  IN  IF l = -1 THEN [found |-> FALSE, item |-> "none", queue |-> q]
      ELSE [found |-> TRUE, item |-> Head(q[l]), queue |-> [q EXCEPT ![l] = Tail(@)]]

\* multilevel_queue_is_empty.
MLQIsEmpty(q) == \A l \in Levels : q[l] = <<>>

\* Every item of the queue with its multiplicity, over all levels.
MLQCount(q, item) ==
  LET Cnt[l \in Levels] ==
        Len(SelectSeq(q[l], LAMBDA x : x = item))
          + (IF l = 0 THEN 0 ELSE Cnt[l - 1])
  IN  Cnt[NLevels - 1]
=============================================================================
