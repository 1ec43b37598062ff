--------------------------- MODULE AlarmRegister ---------------------------
(***************************************************************************)
(* register_alarm called with interrupts enabled, as minisocket_send,     *)
(* minisocket_close and the handshake loops call it.  The deadline is     *)
(* computed from nInterrupts (alarm.c line 61) before interrupts are       *)
(* masked for the insert (lines 64-66), so the clock may tick in between. *)
(* Each thread registers one alarm whose handler starts it again (the     *)
(* semaphore_V of minisocket) and blocks until it fires; it may instead    *)
(* deregister it first, as the ACK path of minisocket_send does.  The     *)
(* alarm queue uses the relative deadlines of Alarm; a thread between the *)
(* read and the insert holds its deadline relative to the clock too       *)
(* (rel = end - nInterrupts), so a tick lowers it by one.                 *)
(***************************************************************************)
EXTENDS Integers, Sequences, Alarm

CONSTANTS
  Threads,   \* threads that register an alarm
  Masked,    \* the threads whose caller has interrupts masked (sleep)
  Delays     \* the delays, in milliseconds, a caller may pass

VARIABLES
  alarm_queue,   \* the sorted alarm queue
  pc,            \* "start", "insert", "wait", "woken", "cancelled", "null"
  rel            \* newAlarm->end - nInterrupts, once computed

vars == <<alarm_queue, pc, rel>>

Init ==
  /\ alarm_queue = <<>>
  /\ pc = [t \in Threads |-> "start"]
  /\ rel = [t \in Threads |-> 0]

\* register_alarm up to line 61: del from the delay, malloc, and end
\* from the current nInterrupts.  A failed malloc returns NULL.  A caller
\* with interrupts masked goes on to the insert with no tick in between.
RegisterRead(t) ==
  /\ pc[t] = "start"
  /\ \E d \in Delays :
       \/ /\ pc' = [pc EXCEPT ![t] = "insert"]
          /\ rel' = [rel EXCEPT ![t] = DelayTicks(d)]
       \/ /\ pc' = [pc EXCEPT ![t] = "null"]
          /\ UNCHANGED rel
  /\ UNCHANGED alarm_queue

\* Lines 62-67: fill in the handler and argument, mask interrupts and
\* queue_insert_sorted on end.  A deadline the clock already passed is
\* Stale; one equal to nInterrupts (rel = 0) is no longer seen by the tick
\* that made it due.  Then the caller blocks on the semaphore.
RegisterInsert(t) ==
  /\ pc[t] = "insert"
  /\ alarm_queue' = InsertSorted(alarm_queue,
                      [left |-> IF rel[t] < 0 THEN Stale ELSE rel[t],
                       handler |-> "semaphore_V", arg |-> t])
  /\ pc' = [pc EXCEPT ![t] = "wait"]
  /\ UNCHANGED rel

\* deregister_alarm before the alarm fires (the ACK arrived): queue_delete
\* of the alarm and free.  The caller is still blocked in the code only
\* until the ACK's V, which this step stands for.
Deregister(t) ==
  /\ pc[t] = "wait"
  /\ \E i \in DOMAIN alarm_queue :
       /\ alarm_queue[i].arg = t
       /\ alarm_queue' = RemoveAt(alarm_queue, i)
  /\ pc' = [pc EXCEPT ![t] = "cancelled"]
  /\ UNCHANGED rel

\* clock_handler: nInterrupts++, then fire and deregister every alarm at
\* the head whose end equals nInterrupts; each handler starts its thread.
\* A thread between read and insert sees its deadline come one closer.
Tick ==
  LET aq == AdvanceClock(alarm_queue)
      woken == {Due(aq)[i].arg : i \in 1 .. DueCount(aq)}
  IN  /\ alarm_queue' = NotDue(aq)
      /\ pc' = [t \in Threads |-> IF t \in woken THEN "woken" ELSE pc[t]]
      /\ rel' = [t \in Threads |-> IF pc[t] = "insert" /\ rel[t] > Stale
                                      THEN rel[t] - 1 ELSE rel[t]]

\* register_alarm from a caller with interrupts already masked
\* (minithread_sleep_with_timeout): lines 46-67 with no tick in between.
RegisterMasked(t) ==
  /\ pc[t] = "start"
  /\ \E d \in Delays :
       \/ /\ alarm_queue' = InsertSorted(alarm_queue,
                              [left |-> DelayTicks(d), handler |-> "semaphore_V",
                               arg |-> t])
          /\ pc' = [pc EXCEPT ![t] = "wait"]
       \/ /\ pc' = [pc EXCEPT ![t] = "null"]
          /\ UNCHANGED alarm_queue
  /\ UNCHANGED rel

Next ==
  \/ \E t \in Threads \ Masked : RegisterRead(t) \/ RegisterInsert(t)
  \/ \E t \in Masked : RegisterMasked(t)
  \/ \E t \in Threads \ Masked : Deregister(t)
  \/ Tick

(* The hardware timer raises the clock interrupt every PERIOD whatever  *)
(* the threads do, so Tick is weakly fair; nothing else is assumed.       *)
Spec == Init /\ [][Next]_vars /\ WF_vars(Tick)

-----------------------------------------------------------------------------
TypeOK ==
  /\ alarm_queue \in Seq([left : {Stale} \cup Nat, handler : {"semaphore_V"},
                          arg : Threads])
  /\ pc \in [Threads -> {"start", "insert", "wait", "woken", "cancelled", "null"}]
  /\ rel \in [Threads -> {Stale} \cup Nat]

(* A thread that sleeps with interrupts masked (minithread_sleep_with_    *)
(* timeout) is woken by clock_handler once its delay has passed, whatever *)
(* alarms other threads register with interrupts enabled: get_next_alarm *)
(* looks only at the head of the queue, for end == nInterrupts.           *)
SleeperWakes == \A t \in Masked : pc[t] = "wait" ~> pc[t] = "woken"
=============================================================================
