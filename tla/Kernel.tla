------------------------------- MODULE Kernel -------------------------------
(***************************************************************************)
(* minithread.c with synch.c and alarm.c: one CPU, the MLFQ scheduler,    *)
(* the scheduler (idle) thread, the reaper, a semaphore used by the user  *)
(* threads, sleep through the alarm queue, and the clock interrupt.       *)
(*                                                                         *)
(* Every interrupt-masked region of the code is one atomic action.  Only  *)
(* the running thread takes steps; the clock tick (clock_handler) may     *)
(* come between any two of them.  A user thread runs a test program that  *)
(* calls, in any order, fork, P/V on the semaphore (always P before its   *)
(* V), yield, sleep and return from its procedure (final_proc).           *)
(***************************************************************************)
EXTENDS Integers, Sequences, SequencesExt, FiniteSets,
        MultilevelQueue, Semaphore, Alarm

CONSTANTS
  Threads,            \* user threads (model values)
  Main,               \* the thread forked for mainproc
  Sched,              \* scheduler_thread: runs the idle loop
  Reaper,             \* reaper_thread: runs clean_stopped_threads
  LevelMaxQuanta,     \* level_max_quanta[MAX_LEVELS], as a sequence
  LevelQuantumValue,  \* level_quantum_value[MAX_LEVELS], as a sequence
  SemInitCount,       \* initial count of the user semaphore
  Delays              \* delays (ms) the test program passes to sleep

ASSUME /\ Main \in Threads
       /\ Sched \notin Threads /\ Reaper \notin Threads /\ Sched # Reaper
       /\ Len(LevelMaxQuanta) = NLevels /\ Len(LevelQuantumValue) = NLevels
       /\ SemInitCount \in Nat \ {0}
       /\ Delays \subseteq Nat

AllThreads == Threads \cup {Sched, Reaper}

\* level_max_quanta[l] and level_quantum_value[l] with 0-based l.
MaxQuanta(l)    == LevelMaxQuanta[l + 1]
QuantumValue(l) == LevelQuantumValue[l + 1]

\* A thread's quanta counter only grows until it equals the quantum value
\* of the current level; values above every quantum value are never equal
\* to one again, so they are kept as QuantaCap.
QuantaCap == LET vals == {QuantumValue(l) : l \in Levels}
             IN  1 + CHOOSE v \in vals : \A w \in vals : w <= v
QuantaInc(q) == IF q < QuantaCap THEN q + 1 ELSE q

VARIABLES
  running_thread,     \* the thread on the CPU
  runnable_queue,     \* the multilevel queue of runnable threads
  stopped_queue,      \* finished threads waiting for the reaper
  level,              \* minithread->level
  quanta,             \* minithread->quanta
  curr_level,         \* the level the scheduler is serving
  curr_level_quanta,  \* ticks spent serving curr_level
  sem,                \* the user semaphore: [count, wait_list]
  alarm_queue,        \* the alarm priority queue
  pc,                 \* where each thread is in its program
  holds               \* threads between a completed P and their V

vars == <<running_thread, runnable_queue, stopped_queue, level, quanta,
          curr_level, curr_level_quanta, sem, alarm_queue, pc, holds>>

UserPC  == {"unborn", "idle", "P_wait", "sleep_stop", "sleep_wait",
            "zombie", "freed"}
SchedPC == {"check", "yield"}

-----------------------------------------------------------------------------
(* The scheduler state touched by yield_running_thread and                 *)
(* stop_running_thread, as a record, so that the steps of one masked       *)
(* region compose as function application.                                 *)
Sch == [rq |-> runnable_queue, cl |-> curr_level, clq |-> curr_level_quanta,
        run |-> running_thread]

SetSch(s) == /\ runnable_queue' = s.rq
             /\ curr_level' = s.cl
             /\ curr_level_quanta' = s.clq
             /\ running_thread' = s.run

\* Common body of yield_running_thread and stop_running_thread: dequeue
\* the first runnable thread from curr_level on, re-enqueue the running
\* thread at its level when requeue holds (after the dequeue), and switch;
\* a dequeued thread on another level resets curr_level and its quanta.
\* lv is the level function after the caller's demotion.
PickNext(s, lv, requeue) ==
  LET d  == MLQDequeue(s.rq, s.cl)
      rq == IF requeue THEN MLQEnqueue(d.queue, lv[s.run], s.run) ELSE d.queue
  IN  IF d.found
        THEN [rq |-> rq, run |-> d.item, cl |-> lv[d.item],
              clq |-> IF s.cl # lv[d.item] THEN 0 ELSE s.clq]
        ELSE [rq |-> rq, run |-> Sched, cl |-> s.cl, clq |-> s.clq]

\* yield_running_thread: the scheduler thread is never re-enqueued.
YieldRunningThread(s, lv) == PickNext(s, lv, s.run # Sched)
\* stop_running_thread: the caller is not re-enqueued.
StopRunningThread(s, lv)  == PickNext(s, lv, FALSE)

\* Faulty variant of Account: demotion without the MAX_LEVELS cap.
AccountNoCap(t, q, cl) ==
  IF q = QuantumValue(cl)
    THEN [lv |-> [level EXCEPT ![t] = cl + 1],
          qu |-> [quanta EXCEPT ![t] = 0], hit |-> TRUE]
    ELSE [lv |-> level, qu |-> [quanta EXCEPT ![t] = q], hit |-> FALSE]

\* The quantum check of minithread_stop, minithread_yield and
\* implement_scheduler: with quanta counter q, a thread that has used the
\* quantum of the *current* level gets quanta 0 and the level after
\* curr_level (capped at MAX_LEVELS-1).
Account(t, q, cl) ==
  IF q = QuantumValue(cl)
    THEN [lv |-> [level EXCEPT ![t] = IF cl + 1 = NLevels THEN cl ELSE cl + 1],
          qu |-> [quanta EXCEPT ![t] = 0], hit |-> TRUE]
    ELSE [lv |-> level, qu |-> [quanta EXCEPT ![t] = q], hit |-> FALSE]

\* minithread_start(t) for each thread of a sequence, in order.
RECURSIVE StartAll(_, _)
StartAll(rq, ts) ==
  IF ts = <<>> THEN rq
  ELSE StartAll(MLQEnqueue(rq, level[Head(ts)], Head(ts)), Tail(ts))

\* minithread_stop for the running thread t: count the partial quantum,
\* demote on a used-up quantum, switch without re-enqueueing t.
MinithreadStop(t) ==
  LET a == Account(t, QuantaInc(quanta[t]), curr_level)
  IN  /\ level' = a.lv
      /\ quanta' = a.qu
      /\ SetSch(StopRunningThread(Sch, a.lv))

-----------------------------------------------------------------------------
(* minithread_system_initialize, up to its idle loop: the scheduler        *)
(* thread is running, mainproc's thread is forked at level 0, the reaper   *)
(* is created but not started.  scheduler_thread_create never sets the     *)
(* scheduler thread's quanta, so it starts at any value.                   *)
Init ==
  /\ running_thread = Sched
  /\ runnable_queue = MLQEnqueue(MLQNew, 0, Main)
  /\ stopped_queue = <<>>
  /\ level = [t \in AllThreads |-> 0]
  /\ quanta \in {q \in [AllThreads -> 0 .. QuantaCap] :
                   \A t \in AllThreads \ {Sched} : q[t] = 0}
  /\ curr_level = 0
  /\ curr_level_quanta = 0
  /\ sem = SemInit(SemInitCount)
  /\ alarm_queue = <<>>
  /\ pc = [t \in AllThreads |-> IF t = Main THEN "idle"
                                ELSE IF t = Sched THEN "check"
                                ELSE IF t = Reaper THEN "reap"
                                ELSE "unborn"]
  /\ holds = {}

-----------------------------------------------------------------------------
(* Steps of the running user thread t.                                     *)

\* minithread_fork: create u at level 0 with quanta 0 and enqueue it.
Fork(t) ==
  /\ pc[t] = "idle"
  /\ \E u \in Threads :
       /\ pc[u] = "unborn"
       /\ pc' = [pc EXCEPT ![u] = "idle"]
       /\ runnable_queue' = MLQEnqueue(runnable_queue, level[u], u)
  /\ UNCHANGED <<running_thread, stopped_queue, level, quanta, curr_level,
                 curr_level_quanta, sem, alarm_queue, holds>>

\* semaphore_P: one masked region; a caller that must wait is appended
\* to wait_list and stopped (minithread_stop).
SemaphoreP(t) ==
  /\ pc[t] = "idle"
  /\ t \notin holds
  /\ sem' = SemP(sem, t)
  /\ IF SemPBlocks(sem)
       THEN /\ MinithreadStop(t)
            /\ pc' = [pc EXCEPT ![t] = "P_wait"]
            /\ UNCHANGED holds
       ELSE /\ holds' = holds \cup {t}
            /\ UNCHANGED <<running_thread, runnable_queue, level, quanta,
                           curr_level, curr_level_quanta, pc>>
  /\ UNCHANGED <<stopped_queue, alarm_queue>>

\* A thread stopped in semaphore_P runs again: it restores the interrupt
\* level and returns from P.
ReturnFromP(t) ==
  /\ pc[t] = "P_wait"
  /\ pc' = [pc EXCEPT ![t] = "idle"]
  /\ holds' = holds \cup {t}
  /\ UNCHANGED <<running_thread, runnable_queue, stopped_queue, level, quanta,
                 curr_level, curr_level_quanta, sem, alarm_queue>>

\* semaphore_V: one masked region; a count still <= 0 wakes the first
\* waiter with minithread_start (enqueue at its level, no switch).
SemaphoreV(t) ==
  /\ pc[t] = "idle"
  /\ t \in holds
  /\ sem' = SemV(sem)
  /\ runnable_queue' = IF SemVWakes(sem)
                         THEN MLQEnqueue(runnable_queue, level[SemWoken(sem)],
                                         SemWoken(sem))
                         ELSE runnable_queue
  /\ holds' = holds \ {t}
  /\ UNCHANGED <<running_thread, stopped_queue, level, quanta, curr_level,
                 curr_level_quanta, alarm_queue, pc>>

\* minithread_yield: the quantum check without counting a quantum (the
\* increment is inside the comment), then yield_running_thread.
MinithreadYield(t) ==
  /\ pc[t] = "idle"
  /\ LET a == Account(t, quanta[t], curr_level)
     IN  /\ level' = a.lv
         /\ quanta' = a.qu
         /\ SetSch(YieldRunningThread(Sch, a.lv))
  /\ UNCHANGED <<stopped_queue, sem, alarm_queue, pc, holds>>

\* minithread_sleep_with_timeout, first masked region: register an alarm
\* whose handler starts the caller; then interrupts are enabled again.
SleepRegister(t) ==
  /\ pc[t] = "idle"
  /\ \E d \in Delays :
       alarm_queue' = RegisterAlarm(alarm_queue, d, "wake", t)
  /\ pc' = [pc EXCEPT ![t] = "sleep_stop"]
  /\ UNCHANGED <<running_thread, runnable_queue, stopped_queue, level, quanta,
                 curr_level, curr_level_quanta, sem, holds>>

\* minithread_sleep_with_timeout, then: minithread_stop().
SleepStop(t) ==
  /\ pc[t] = "sleep_stop"
  /\ MinithreadStop(t)
  /\ pc' = [pc EXCEPT ![t] = "sleep_wait"]
  /\ UNCHANGED <<stopped_queue, sem, alarm_queue, holds>>

\* The sleeper runs again and returns from minithread_stop.
ReturnFromSleep(t) ==
  /\ pc[t] = "sleep_wait"
  /\ pc' = [pc EXCEPT ![t] = "idle"]
  /\ UNCHANGED <<running_thread, runnable_queue, stopped_queue, level, quanta,
                 curr_level, curr_level_quanta, sem, alarm_queue, holds>>

\* final_proc, when t's procedure returns: t (not the reaper) is appended
\* to stopped_queue, which is then non-empty, so the CPU goes straight to
\* the reaper; curr_level is left as it was.
FinalProc(t) ==
  /\ pc[t] = "idle"
  /\ t \notin holds
  /\ stopped_queue' = Append(stopped_queue, t)
  /\ running_thread' = Reaper
  /\ pc' = [pc EXCEPT ![t] = "zombie"]
  /\ UNCHANGED <<runnable_queue, level, quanta, curr_level, curr_level_quanta,
                 sem, alarm_queue, holds>>

-----------------------------------------------------------------------------
(* Steps of the reaper and of the scheduler thread.                        *)

\* clean_stopped_threads, one pass of its loop (masked): free every
\* thread of stopped_queue, then stop_running_thread.
ReaperPass ==
  /\ running_thread = Reaper
  /\ pc' = [t \in AllThreads |->
              IF \E i \in DOMAIN stopped_queue : stopped_queue[i] = t
                THEN "freed" ELSE pc[t]]
  /\ stopped_queue' = <<>>
  /\ SetSch(StopRunningThread(Sch, level))
  /\ UNCHANGED <<level, quanta, sem, alarm_queue, holds>>

\* The idle loop of minithread_system_initialize, with interrupts
\* enabled: test multilevel_queue_is_empty, then call minithread_yield.
SchedCheck ==
  /\ running_thread = Sched
  /\ pc[Sched] = "check"
  /\ ~MLQIsEmpty(runnable_queue)
  /\ pc' = [pc EXCEPT ![Sched] = "yield"]
  /\ UNCHANGED <<running_thread, runnable_queue, stopped_queue, level, quanta,
                 curr_level, curr_level_quanta, sem, alarm_queue, holds>>

SchedYield ==
  /\ running_thread = Sched
  /\ pc[Sched] = "yield"
  /\ LET a == Account(Sched, quanta[Sched], curr_level)
     IN  /\ level' = a.lv
         /\ quanta' = a.qu
         /\ SetSch(YieldRunningThread(Sch, a.lv))
  /\ pc' = [pc EXCEPT ![Sched] = "check"]
  /\ UNCHANGED <<stopped_queue, sem, alarm_queue, holds>>

-----------------------------------------------------------------------------
\* Faulty variant of ImplementScheduler: the level cursor moves on but
\* the running thread is not preempted (schedule_next left unset).
ImplementSchedulerNoLevelYield(s) ==
  LET clq == s.clq + 1
      a   == Account(s.run, QuantaInc(quanta[s.run]), s.cl)
  IN  [lv |-> a.lv, qu |-> a.qu,
       sch |-> IF clq = MaxQuanta(s.cl)
                 THEN [s EXCEPT !.cl = (@ + 1) % NLevels, !.clq = 0]
                 ELSE IF a.hit
                   THEN YieldRunningThread([s EXCEPT !.clq = clq], a.lv)
                   ELSE [s EXCEPT !.clq = clq]]

\* implement_scheduler on scheduler state s: count the tick for the level
\* and for the running thread; a level that has used level_max_quanta moves
\* the cursor on and yields, else a thread that has used its quantum is
\* demoted and yields.  The result holds the new scheduler state, levels
\* and quanta.
ImplementScheduler(s) ==
  LET clq == s.clq + 1
      a   == Account(s.run, QuantaInc(quanta[s.run]), s.cl)
  IN  [lv |-> a.lv, qu |-> a.qu,
       sch |-> IF clq = MaxQuanta(s.cl)
                 THEN YieldRunningThread(
                        [s EXCEPT !.cl = (@ + 1) % NLevels, !.clq = 0], a.lv)
                 ELSE IF a.hit
                   THEN YieldRunningThread([s EXCEPT !.clq = clq], a.lv)
                   ELSE [s EXCEPT !.clq = clq]]

(* clock_handler: nInterrupts++, fire every due alarm (its handler,       *)
(* alarm_call_back, calls minithread_start), then implement_scheduler.     *)
Tick ==
  LET aq == AdvanceClock(alarm_queue)
      rq == StartAll(runnable_queue, [i \in 1 .. DueCount(aq) |-> Due(aq)[i].arg])
      r  == ImplementScheduler([Sch EXCEPT !.rq = rq])
  IN  /\ alarm_queue' = NotDue(aq)
      /\ level' = r.lv
      /\ quanta' = r.qu
      /\ SetSch(r.sch)
      /\ UNCHANGED <<stopped_queue, sem, pc, holds>>

-----------------------------------------------------------------------------
UserStep(t) ==
  \/ Fork(t)
  \/ SemaphoreP(t)
  \/ ReturnFromP(t)
  \/ SemaphoreV(t)
  \/ MinithreadYield(t)
  \/ SleepRegister(t)
  \/ SleepStop(t)
  \/ ReturnFromSleep(t)
  \/ FinalProc(t)

Next ==
  \/ \E t \in Threads : running_thread = t /\ UserStep(t)
  \/ ReaperPass
  \/ SchedCheck
  \/ SchedYield
  \/ Tick

(* The clock interrupt keeps coming: the hardware timer raises it every   *)
(* PERIOD whatever the CPU does.  Tick is always enabled, and it always    *)
(* changes curr_level_quanta when every level_max_quanta is at least 2,    *)
(* so this is WF_vars(Tick), stated without the ENABLED test.  A sleeper   *)
(* that has been started returns from minithread_stop whenever it gets the *)
(* CPU again and again (strong fairness: a tick may preempt it first).     *)
(* Nothing else is assumed: the idle loop, the reaper and the test         *)
(* program's calls need not make progress, the clock alone switches.       *)
Fairness ==
  /\ []<><<Tick>>_vars
  /\ \A t \in Threads : SF_vars(running_thread = t /\ ReturnFromSleep(t))

Spec == Init /\ [][Next]_vars /\ Fairness

-----------------------------------------------------------------------------
(* Properties.                                                              *)

TypeOK ==
  /\ running_thread \in AllThreads
  /\ runnable_queue \in [Levels -> Seq(AllThreads)]
  /\ stopped_queue \in Seq(Threads)
  /\ level \in [AllThreads -> Levels]
  /\ quanta \in [AllThreads -> 0 .. QuantaCap]
  /\ curr_level \in Levels
  /\ curr_level_quanta \in 0 .. MaxQuanta(curr_level)
  /\ sem \in [count : Int, wait_list : Seq(Threads)]
  /\ alarm_queue \in Seq([left : Int, handler : {"wake"}, arg : Threads])
  /\ pc \in [AllThreads -> UserPC \cup SchedPC \cup {"reap"}]
  /\ holds \subseteq Threads

\* Number of places that refer to user thread t: the CPU, the multilevel
\* queue, the semaphore's wait_list, stopped_queue and the wake-up alarms.
SeqCount(s, t) == Len(SelectSeq(s, LAMBDA x : x = t))
Places(t) ==
  (IF running_thread = t THEN 1 ELSE 0)
    + MLQCount(runnable_queue, t)
    + SeqCount(sem.wait_list, t)
    + SeqCount(stopped_queue, t)
    + Len(SelectSeq(alarm_queue, LAMBDA a : a.arg = t))

(* Thread presence (spec section 8): a live thread is in exactly one of    *)
(* running, a level queue, the semaphore's wait_list, stopped_queue, or    *)
(* the alarm queue while it sleeps.  Between sleep's alarm registration    *)
(* and its minithread_stop the thread is both running and owed one wake-up *)
(* (the alarm, or the start the alarm already did), so it counts twice.    *)
(* A thread enqueued twice would be resumed from a stale entry: it could   *)
(* run while still queued on the semaphore, or after the reaper freed it.  *)
ThreadPresence ==
  \A t \in Threads :
    pc[t] \notin {"unborn", "freed"} =>
      Places(t) = (IF pc[t] = "sleep_stop" THEN 2 ELSE 1)

(* No alarm misses its tick (spec section 8 asks for a sorted queue for   *)
(* this): every alarm still queued has its deadline ahead of nInterrupts. *)
(* clock_handler looks only at the head and fires only on equality, so    *)
(* this needs register_alarm's sorted insert, sleep's masked registration *)
(* and the firing loop to take every due alarm of a tick.                  *)
AlarmsLive == \A i \in DOMAIN alarm_queue : alarm_queue[i].left > 0

(* synch.c implements the FIFO semaphore of SemaphoreSpec: a thread holds  *)
(* the semaphore once its P completes, or once a V has dequeued it from    *)
(* wait_list even if it has not run since; waiters are the wait_list.      *)
SemAbs == INSTANCE SemaphoreSpec
            WITH Procs <- Threads, Permits <- SemInitCount,
                 granted <- holds \cup
                   {t \in Threads : pc[t] = "P_wait"
                                    /\ SeqCount(sem.wait_list, t) = 0},
                 waiting <- sem.wait_list
SemaphoreRefinement == SemAbs!Spec

(* No starvation (spec section 8): the level cursor moves on after         *)
(* level_max_quanta ticks and the dequeue probes every level, so a thread  *)
(* in the runnable queue eventually gets the CPU.                          *)
NoStarvation ==
  \A t \in Threads : (MLQCount(runnable_queue, t) > 0) ~> (running_thread = t)

(* A thread sleeping in minithread_sleep_with_timeout is eventually woken  *)
(* by its alarm and returns.                                               *)
SleepersWake ==
  \A t \in Threads : (pc[t] = "sleep_wait") ~> (pc[t] = "idle")
=============================================================================
