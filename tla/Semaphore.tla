----------------------------- MODULE Semaphore -----------------------------
(***************************************************************************)
(* synch.c: a counting semaphore that may go negative, with a FIFO        *)
(* wait_list.  P and V each run in one interrupt-masked region; the       *)
(* blocking of the caller (minithread_stop) and the wake-up of a waiter   *)
(* (minithread_start) belong to the scheduler, so these operators return  *)
(* the new semaphore and say whether the caller blocks / who is woken.   *)
(***************************************************************************)
EXTENDS Integers, Sequences

\* semaphore_initialize(sem, cnt).
SemInit(cnt) == [count |-> cnt, wait_list |-> <<>>]

\* Faulty variants of the operators below, as plausible slips in synch.c.
\* P that blocks when the count reaches zero instead of going below it.
SemPBlocksAtZero(s) == s.count - 1 <= 0
\* V that starts the first waiter but leaves it on wait_list.
SemVKeepsWaiter(s) == [count |-> s.count + 1, wait_list |-> s.wait_list]

\* semaphore_P: count--; a negative count appends the caller to wait_list.
SemPBlocks(s) == s.count - 1 < 0
SemP(s, t) ==
  [count     |-> s.count - 1,
   wait_list |-> IF SemPBlocks(s) THEN Append(s.wait_list, t) ELSE s.wait_list]

\* semaphore_V: count++; a count still <= 0 dequeues the first waiter.
SemVWakes(s) == s.count + 1 <= 0
SemV(s) ==
  [count     |-> s.count + 1,
   wait_list |-> IF SemVWakes(s) THEN Tail(s.wait_list) ELSE s.wait_list]
SemWoken(s) == Head(s.wait_list)
=============================================================================
