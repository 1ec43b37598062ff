--------------------------- MODULE SemaphoreSpec ---------------------------
(***************************************************************************)
(* What a semaphore of synch.c promises its callers (spec 4.2), stated    *)
(* without counters or a scheduler: at most Permits callers hold it, a    *)
(* caller that finds no permit waits, and a V hands the permit to the     *)
(* waiter that has waited longest (FIFO).  A caller holds the semaphore   *)
(* from the moment it is granted, whether or not it has resumed yet.      *)
(***************************************************************************)
EXTENDS Naturals, Sequences, FiniteSets

CONSTANTS Procs, Permits

VARIABLES granted, waiting
vars == <<granted, waiting>>

Init == granted = {} /\ waiting = <<>>

Acquire(p) ==
  /\ p \notin granted
  /\ \A i \in DOMAIN waiting : waiting[i] # p
  /\ IF Cardinality(granted) < Permits
       THEN granted' = granted \cup {p} /\ UNCHANGED waiting
       ELSE waiting' = Append(waiting, p) /\ UNCHANGED granted

Release(p) ==
  /\ p \in granted
  /\ IF waiting # <<>>
       THEN /\ granted' = (granted \ {p}) \cup {Head(waiting)}
            /\ waiting' = Tail(waiting)
       ELSE /\ granted' = granted \ {p}
            /\ UNCHANGED waiting

Next == \E p \in Procs : Acquire(p) \/ Release(p)

Spec == Init /\ [][Next]_vars
=============================================================================
