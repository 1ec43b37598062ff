------------------------------- MODULE Alarm -------------------------------
(***************************************************************************)
(* alarm.c over the sorted queue of queue.c.  An alarm is a record with   *)
(* its deadline kept relative to the tick counter: left = end-nInterrupts.*)
(* The code only compares end with nInterrupts (==, <=) and orders alarms *)
(* by end, and a tick adds one to nInterrupts, i.e. subtracts one from    *)
(* every left, so the relative form keeps every outcome.  An alarm with   *)
(* end < nInterrupts can never fire again (get_next_alarm tests ==); all  *)
(* such values are kept as Stale, which is below every live value.       *)
(***************************************************************************)
EXTENDS Integers, Sequences, SequencesExt

PERIOD == 100   \* minithread.h: milliseconds per clock tick
Stale  == -1

\* register_alarm: del = delay / PERIOD, plus one when not a multiple.
DelayTicks(delay) == delay \div PERIOD + (IF delay % PERIOD # 0 THEN 1 ELSE 0)

\* Faulty variants of the operators below, as plausible slips in alarm.c.
\* queue_append in place of queue_insert_sorted.
InsertSortedAppend(q, a) == Append(q, a)
\* clock_handler firing at most one alarm per tick (if for while).
DueCountOne(q) == IF q # <<>> /\ q[1].left = 0 THEN 1 ELSE 0

\* queue_insert_sorted: the new node goes before the first node of strictly
\* greater priority, so alarms with equal deadlines keep insertion order.
InsertSorted(q, a) ==
  LET i == SelectInSeq(q, LAMBDA b : a.left < b.left)
  IN  IF i = 0 THEN Append(q, a) ELSE InsertAt(q, i, a)

\* register_alarm with the tick counter read at registration time.
RegisterAlarm(q, delay, handler, arg) ==
  InsertSorted(q, [left |-> DelayTicks(delay), handler |-> handler, arg |-> arg])

\* clock_handler: nInterrupts++.
AdvanceClock(q) ==
  [i \in DOMAIN q |-> [q[i] EXCEPT !.left = IF @ > Stale THEN @ - 1 ELSE Stale]]

\* The alarms the clock_handler loop fires after the increment: while
\* get_next_alarm finds a head with end == nInterrupts, call it and
\* deregister it (the head).  These form the longest prefix with left = 0.
DueCount(q) ==
  LET i == SelectInSeq(q, LAMBDA a : a.left # 0)
  IN  IF i = 0 THEN Len(q) ELSE i - 1
Due(q)     == SubSeq(q, 1, DueCount(q))
NotDue(q)  == SubSeq(q, DueCount(q) + 1, Len(q))
=============================================================================
