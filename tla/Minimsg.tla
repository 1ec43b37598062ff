------------------------------ MODULE Minimsg ------------------------------
(***************************************************************************)
(* minimsg.c: one unbound (listening) port with its datagram queue and    *)
(* data-ready semaphore, the ingress handler that fills it, receivers     *)
(* that drain it, and the allocator of bound port numbers (nPorts, the    *)
(* free map and its mutex) used by receive and by senders.                *)
(*                                                                         *)
(* The ingress handler runs in the network interrupt with interrupts      *)
(* masked, so it is one action that may come between any two steps of    *)
(* the threads.  Threads are preempted by the clock anywhere outside a    *)
(* masked region, so any thread that is not blocked may take the next     *)
(* step.  queue_dequeue, called by minimsg_receive with interrupts         *)
(* enabled, is split into its statements; queue->count-- may compile to  *)
(* a load and a store, and is split too.  The port's queue is the linked  *)
(* list of Queue; a datagram is its arrival number.                       *)
(***************************************************************************)
EXTENDS Integers, Sequences, SequencesExt, FiniteSets, Semaphore

CONSTANTS
  Receivers,    \* threads that call minimsg_receive on the port
  Senders,      \* threads that create and destroy bound ports to send
  Nodes,        \* heap nodes for the port's queue
  Nil,          \* NULL
  MaxArrivals,  \* datagrams the network delivers to the port
  MaxPorts,     \* MAX_PORTS: bound port numbers 0 .. MaxPorts-1
  CreateFirst   \* TRUE: a thread creates the port while datagrams arrive

Threads == Receivers \cup Senders
PortNums == 0 .. (MaxPorts - 1)

VARIABLES
  front, rear, count, next, data, alloc,   \* the port's data queue
  usem,           \* the port's data_ready semaphore
  uport,          \* unbound_ports[n]: "null", "published", "queued", "ready"
  nPorts,         \* bound ports handed out by the cursor
  bfree,          \* bound_ports_free
  mutex,          \* the semaphore guarding nPorts and bound_ports_free
  pc,             \* where each thread is
  first, tmp,     \* locals of queue_dequeue: first, the loaded count
  newnum,         \* newport->p_number in create_bound, port in destroy
  live,           \* ghost: number of live bound ports with each number
  owned,          \* the bound ports each thread holds
  delivered,      \* ghost: datagrams appended to the port's queue
  dequeued,       \* ghost: datagrams taken out by queue_dequeue
  narr,           \* datagrams delivered by the network so far
  fault           \* "none", or the undefined behaviour that happened

qvars == <<front, rear, count, next, data, alloc>>
vars  == <<qvars, usem, uport, nPorts, bfree, mutex, pc, first, tmp, newnum,
           live, owned, delivered, dequeued, narr, fault>>

Q == INSTANCE Queue WITH Items <- 1 .. MaxArrivals, Prios <- {0},
                          DeleteAnywhere <- FALSE, prio <- [n \in Nodes |-> 0]

\* The program counters of a thread inside queue_dequeue.
DequeuePC == {"d0", "d1", "d2", "d3", "d4", "d5", "d6", "d7a", "d7b"}

-----------------------------------------------------------------------------
\* Faulty variants of AllocatePort, as plausible slips in create_bound.
\* The scan runs one past the end of bound_ports_free.
AllocatePortScanPastEnd(np, bf) ==
  LET frees == {i \in 0 .. MaxPorts : i = MaxPorts \/ bf[i]}
  IN  IF np < MaxPorts - 1
        THEN [num |-> np, np |-> np + 1, bf |-> [bf EXCEPT ![np] = FALSE]]
        ELSE [num |-> IF frees = {} THEN -1 ELSE Max(frees), np |-> np,
              bf |-> [i \in PortNums |-> FALSE]]
\* The scan takes a free number without marking it used.
AllocatePortNoMark(np, bf) ==
  LET frees == {i \in PortNums : bf[i]}
  IN  IF np < MaxPorts - 1
        THEN [num |-> np, np |-> np + 1, bf |-> [bf EXCEPT ![np] = FALSE]]
        ELSE [num |-> IF frees = {} THEN -1 ELSE Max(frees), np |-> np, bf |-> bf]

\* The port-number choice of miniport_create_bound, under the mutex: below
\* MAX_PORTS-1 the cursor nPorts is taken; otherwise the loop over the free
\* map marks every free number used and keeps the last one (-1: none).
AllocatePort(np, bf) ==
  LET frees == {i \in PortNums : bf[i]}
  IN  IF np < MaxPorts - 1
        THEN [num |-> np, np |-> np + 1, bf |-> [bf EXCEPT ![np] = FALSE]]
        ELSE [num |-> IF frees = {} THEN -1 ELSE Max(frees), np |-> np,
              bf |-> [i \in PortNums |-> FALSE]]

\* The pc a thread blocked on the mutex resumes at once started by V.
ResumeAt(t) == IF pc[t] = "b_wait" THEN "b2" ELSE "x2"

\* semaphore_V on the mutex by thread t, which continues at pc there.
MutexV(t, there) ==
  /\ mutex' = SemV(mutex)
  /\ pc' = IF SemVWakes(mutex)
             THEN [pc EXCEPT ![t] = there, ![SemWoken(mutex)] = ResumeAt(SemWoken(mutex))]
             ELSE [pc EXCEPT ![t] = there]

-----------------------------------------------------------------------------
Init ==
  /\ front = Nil /\ rear = Nil /\ count = 0
  /\ next = [n \in Nodes |-> Nil] /\ data = [n \in Nodes |-> Nil]
  /\ alloc = {}
  /\ usem = SemInit(0)
  /\ uport = IF CreateFirst THEN "null" ELSE "ready"
  /\ nPorts = 0
  /\ bfree = [i \in PortNums |-> TRUE]
  /\ mutex = SemInit(1)
  /\ pc = [t \in Threads |-> "idle"]
  /\ first = [t \in Threads |-> Nil]
  /\ tmp = [t \in Threads |-> 0]
  /\ newnum = [t \in Threads |-> -1]
  /\ live = [i \in PortNums |-> 0]
  /\ owned = [t \in Threads |-> {}]
  /\ delivered = <<>> /\ dequeued = <<>>
  /\ narr = 0
  /\ fault = "none"

\* Thread t moves from pc from to pc to.
Step(t, from, to) == pc[t] = from /\ pc' = [pc EXCEPT ![t] = to]

-----------------------------------------------------------------------------
(* miniport_create_unbound by t when unbound_ports[n] is NULL: the masked  *)
(* region publishes the new port and enables interrupts; the data queue    *)
(* and the semaphore are set up after.  (When the port exists the call     *)
(* returns it and changes nothing the model records.)                      *)
CreatePublish(t) ==
  /\ Step(t, "idle", "c2") /\ uport = "null"
  /\ uport' = "published"
  /\ UNCHANGED <<qvars, usem, nPorts, bfree, mutex, first, tmp, newnum, live, owned,
                 delivered, dequeued, narr, fault>>

CreateQueue(t) ==
  /\ Step(t, "c2", "c3")
  /\ uport' = "queued"
  /\ front' = Nil /\ rear' = Nil /\ count' = 0
  /\ UNCHANGED <<next, data, alloc, usem, nPorts, bfree, mutex, first, tmp, newnum, live, owned,
                 delivered, dequeued, narr, fault>>

CreateSemaphore(t) ==
  /\ Step(t, "c3", "idle")
  /\ uport' = "ready"
  /\ usem' = SemInit(0)
  /\ UNCHANGED <<qvars, nPorts, bfree, mutex, first, tmp, newnum, live, owned,
                 delivered, dequeued, narr, fault>>

\* Faulty variant of Ingress: the datagram is put at the front of the
\* queue (queue_prepend for queue_append).
IngressPrepend ==
  /\ narr < MaxArrivals
  /\ alloc # Nodes
  /\ narr' = narr + 1
  /\ CASE uport = "null" ->
            UNCHANGED <<qvars, usem, pc, delivered, fault>>
       [] uport \in {"published", "queued"} ->
            /\ fault' = "uninit"
            /\ UNCHANGED <<qvars, usem, pc, delivered>>
       [] OTHER ->
            /\ Q!QueuePrepend(narr + 1)
            /\ delivered' = Append(delivered, narr + 1)
            /\ usem' = SemV(usem)
            /\ pc' = IF SemVWakes(usem) THEN [pc EXCEPT ![SemWoken(usem)] = "d0"] ELSE pc
            /\ UNCHANGED fault
  /\ UNCHANGED <<uport, nPorts, bfree, mutex, first, tmp, newnum, live, owned, dequeued>>

\* Faulty variant of Ingress: semaphore_V takes the waiter off data_ready's
\* wait list but never calls minithread_start on it.
IngressNoWake ==
  /\ narr < MaxArrivals
  /\ alloc # Nodes
  /\ narr' = narr + 1
  /\ CASE uport = "null" ->
            UNCHANGED <<qvars, usem, delivered, fault>>
       [] uport \in {"published", "queued"} ->
            /\ fault' = "uninit"
            /\ UNCHANGED <<qvars, usem, delivered>>
       [] front # Nil /\ rear = Nil ->
            /\ fault' = "null_deref"
            /\ UNCHANGED <<qvars, usem, delivered>>
       [] OTHER ->
            /\ Q!QueueAppend(narr + 1)
            /\ delivered' = Append(delivered, narr + 1)
            /\ usem' = SemV(usem)
            /\ UNCHANGED fault
  /\ UNCHANGED <<uport, pc, nPorts, bfree, mutex, first, tmp, newnum, live, owned, dequeued>>

(* network_handler and handle_udp_packet, masked: a datagram for a port    *)
(* that is NULL is dropped; otherwise it is appended to the port's queue   *)
(* and data_ready is V'd.  A port whose queue or semaphore is not set up  *)
(* yet is dereferenced uninitialized; a NULL rear with a non-NULL front   *)
(* makes queue_append dereference NULL.  The heap bounds the datagrams    *)
(* queued at once.                                                        *)
Ingress ==
  /\ narr < MaxArrivals
  /\ alloc # Nodes
  /\ narr' = narr + 1
  /\ CASE uport = "null" ->
            UNCHANGED <<qvars, usem, pc, delivered, fault>>
       [] uport \in {"published", "queued"} ->
            /\ fault' = "uninit"
            /\ UNCHANGED <<qvars, usem, pc, delivered>>
       [] front # Nil /\ rear = Nil ->
            /\ fault' = "null_deref"
            /\ UNCHANGED <<qvars, usem, pc, delivered>>
       [] OTHER ->
            /\ Q!QueueAppend(narr + 1)
            /\ delivered' = Append(delivered, narr + 1)
            /\ usem' = SemV(usem)
            /\ pc' = IF SemVWakes(usem) THEN [pc EXCEPT ![SemWoken(usem)] = "d0"] ELSE pc
            /\ UNCHANGED fault
  /\ UNCHANGED <<uport, nPorts, bfree, mutex, first, tmp, newnum, live, owned, dequeued>>

(* network_handler, masked, for a packet that never reaches the port: one  *)
(* shorter than the header, or of neither protocol, is freed; a stream    *)
(* packet goes to minisocket_handle_tcp_packet, which touches nothing of  *)
(* this port; handle_udp_packet frees a datagram with no payload or one   *)
(* longer than MAX_NETWORK_PKT_SIZE.                                      *)
Discard ==
  /\ narr < MaxArrivals
  /\ narr' = narr + 1
  /\ UNCHANGED <<qvars, usem, uport, nPorts, bfree, mutex, pc, first, tmp, newnum,
                 live, owned, delivered, dequeued, fault>>

-----------------------------------------------------------------------------
\* Faulty variant of RecvP: the receiver goes to the queue without
\* waiting on data_ready.
RecvPNoWait(t) ==
  /\ t \in Receivers /\ pc[t] = "idle" /\ uport # "null"
  /\ IF uport # "ready"
       THEN fault' = "uninit" /\ UNCHANGED <<usem, pc>>
       ELSE /\ usem' = SemP(usem, t)
            /\ pc' = [pc EXCEPT ![t] = "d0"]
            /\ UNCHANGED fault
  /\ UNCHANGED <<qvars, uport, nPorts, bfree, mutex, first, tmp, newnum, live,
                 owned, delivered, dequeued, narr>>

(* minimsg_receive by t: semaphore_P on data_ready (masked), then           *)
(* queue_dequeue with interrupts enabled, statement by statement.          *)
RecvP(t) ==
  /\ t \in Receivers /\ pc[t] = "idle" /\ uport # "null"
  /\ IF uport # "ready"
       THEN fault' = "uninit" /\ UNCHANGED <<usem, pc>>
       ELSE /\ usem' = SemP(usem, t)
            /\ pc' = [pc EXCEPT ![t] = IF SemPBlocks(usem) THEN "r_wait" ELSE "d0"]
            /\ UNCHANGED fault
  /\ UNCHANGED <<qvars, uport, nPorts, bfree, mutex, first, tmp, newnum, live, owned,
                 delivered, dequeued, narr>>

\* if (!queue->front) { *item = NULL; return -1; }, then assert(arg).
DequeueTest(t) ==
  /\ pc[t] = "d0"
  /\ IF front = Nil
       THEN fault' = "assert_arg" /\ UNCHANGED pc
       ELSE pc' = [pc EXCEPT ![t] = "d1"] /\ UNCHANGED fault
  /\ UNCHANGED <<qvars, usem, uport, nPorts, bfree, mutex, first, tmp, newnum,
                 live, owned, delivered, dequeued, narr>>

\* qnode *first = queue->front;
DequeueFirst(t) ==
  /\ Step(t, "d1", "d2")
  /\ first' = [first EXCEPT ![t] = front]
  /\ UNCHANGED <<qvars, usem, uport, nPorts, bfree, mutex, tmp, newnum, live, owned,
                 delivered, dequeued, narr, fault>>

\* queue->front = first->next;
DequeueAdvance(t) ==
  /\ pc[t] = "d2"
  /\ IF first[t] = Nil
       THEN fault' = "null_deref" /\ UNCHANGED <<front, pc>>
       ELSE /\ front' = next[first[t]]
            /\ pc' = [pc EXCEPT ![t] = "d3"]
            /\ UNCHANGED fault
  /\ UNCHANGED <<rear, count, next, data, alloc, usem, uport, nPorts, bfree,
                 mutex, first, tmp, newnum, live, owned, delivered, dequeued, narr>>

\* *item = first->data; free(first);  (a node freed twice is a fault)
DequeueTake(t) ==
  /\ pc[t] = "d3"
  /\ dequeued' = Append(dequeued, data[first[t]])
  /\ IF first[t] \in alloc
       THEN /\ alloc' = alloc \ {first[t]}
            /\ pc' = [pc EXCEPT ![t] = "d5"]
            /\ UNCHANGED fault
       ELSE fault' = "double_free" /\ UNCHANGED <<alloc, pc>>
  /\ UNCHANGED <<front, rear, count, next, data, usem, uport, nPorts, bfree,
                 mutex, first, tmp, newnum, live, owned, delivered, narr>>

\* if (!queue->front) queue->rear = NULL;
DequeueTestEmpty(t) ==
  /\ pc[t] = "d5"
  /\ pc' = [pc EXCEPT ![t] = IF front = Nil THEN "d6" ELSE "d7a"]
  /\ UNCHANGED <<qvars, usem, uport, nPorts, bfree, mutex, first, tmp, newnum,
                 live, owned, delivered, dequeued, narr, fault>>

DequeueClearRear(t) ==
  /\ Step(t, "d6", "d7a")
  /\ rear' = Nil
  /\ UNCHANGED <<front, count, next, data, alloc, usem, uport, nPorts, bfree,
                 mutex, first, tmp, newnum, live, owned, delivered, dequeued, narr, fault>>

\* queue->count--, as a load and a store.
DequeueLoadCount(t) ==
  /\ Step(t, "d7a", "d7b")
  /\ tmp' = [tmp EXCEPT ![t] = count]
  /\ UNCHANGED <<qvars, usem, uport, nPorts, bfree, mutex, first, newnum, live, owned,
                 delivered, dequeued, narr, fault>>

DequeueStoreCount(t) ==
  /\ Step(t, "d7b", "b1")
  /\ count' = tmp[t] - 1
  /\ UNCHANGED <<front, rear, next, data, alloc, usem, uport, nPorts, bfree,
                 mutex, first, tmp, newnum, live, owned, delivered, dequeued, narr, fault>>

-----------------------------------------------------------------------------
(* miniport_create_bound, from minimsg_receive after the dequeue or from a *)
(* sender: semaphore_P(mutex), the number choice, semaphore_V(mutex); the *)
(* port is returned (NULL when no number was found).                      *)
BoundP(t) ==
  /\ \/ pc[t] = "b1"
     \/ t \in Senders /\ pc[t] = "idle"
  /\ mutex' = SemP(mutex, t)
  /\ pc' = [pc EXCEPT ![t] = IF SemPBlocks(mutex) THEN "b_wait" ELSE "b2"]
  /\ UNCHANGED <<qvars, usem, uport, nPorts, bfree, first, tmp, newnum, live,
                 owned, delivered, dequeued, narr, fault>>

BoundAllocate(t) ==
  LET r == AllocatePort(nPorts, bfree)
  IN  /\ Step(t, "b2", "b3")
      /\ nPorts' = r.np
      /\ bfree' = r.bf
      /\ newnum' = [newnum EXCEPT ![t] = r.num]
      /\ live' = IF r.num = -1 THEN live ELSE [live EXCEPT ![r.num] = @ + 1]
      /\ UNCHANGED <<qvars, usem, uport, mutex, first, tmp, owned, delivered,
                     dequeued, narr, fault>>

BoundV(t) ==
  /\ pc[t] = "b3"
  /\ MutexV(t, "idle")
  /\ owned' = IF newnum[t] = -1 THEN owned
               ELSE [owned EXCEPT ![t] = @ \cup {newnum[t]}]
  /\ newnum' = [newnum EXCEPT ![t] = -1]
  /\ UNCHANGED <<qvars, usem, uport, nPorts, bfree, first, tmp, live,
                 delivered, dequeued, narr, fault>>

(* miniport_destroy of a bound port: semaphore_P(mutex), mark the number  *)
(* free, semaphore_V(mutex), free the port.                                *)
DestroyP(t) ==
  /\ pc[t] = "idle"
  /\ \E p \in owned[t] :
       /\ newnum' = [newnum EXCEPT ![t] = p]
       /\ owned' = [owned EXCEPT ![t] = @ \ {p}]
  /\ mutex' = SemP(mutex, t)
  /\ pc' = [pc EXCEPT ![t] = IF SemPBlocks(mutex) THEN "x_wait" ELSE "x2"]
  /\ UNCHANGED <<qvars, usem, uport, nPorts, bfree, first, tmp, live,
                 delivered, dequeued, narr, fault>>

DestroyFree(t) ==
  /\ Step(t, "x2", "x3")
  /\ bfree' = [bfree EXCEPT ![newnum[t]] = TRUE]
  /\ live' = [live EXCEPT ![newnum[t]] = @ - 1]
  /\ UNCHANGED <<qvars, usem, uport, nPorts, mutex, first, tmp, newnum, owned,
                 delivered, dequeued, narr, fault>>

DestroyV(t) ==
  /\ pc[t] = "x3"
  /\ MutexV(t, "idle")
  /\ newnum' = [newnum EXCEPT ![t] = -1]
  /\ UNCHANGED <<qvars, usem, uport, nPorts, bfree, first, tmp, live, owned,
                 delivered, dequeued, narr, fault>>

(* miniport_destroy of the unbound port: the masked region sets          *)
(* unbound_ports[n] to NULL, so the ingress handler drops what comes      *)
(* next; then, with interrupts enabled, the drain loop calls              *)
(* queue_dequeue(data, item) with item == NULL, and queue_dequeue stores  *)
(* through item on both its paths: "*item = NULL" and "*item = data".   *)
DestroyUnbound(t) ==
  /\ t \in Receivers /\ Step(t, "idle", "u2") /\ uport = "ready"
  /\ uport' = "null"
  /\ UNCHANGED <<qvars, usem, nPorts, bfree, mutex, first, tmp, newnum, live, owned,
                 delivered, dequeued, narr, fault>>

DestroyDrain(t) ==
  /\ pc[t] = "u2"
  /\ fault' = "null_item"
  /\ UNCHANGED <<qvars, usem, uport, nPorts, bfree, mutex, pc, first, tmp, newnum,
                 live, owned, delivered, dequeued, narr>>

-----------------------------------------------------------------------------
ThreadStep(t) ==
  \/ CreatePublish(t) \/ CreateQueue(t) \/ CreateSemaphore(t)
  \/ RecvP(t) \/ DequeueTest(t) \/ DequeueFirst(t) \/ DequeueAdvance(t)
  \/ DequeueTake(t) \/ DequeueTestEmpty(t) \/ DequeueClearRear(t)
  \/ DequeueLoadCount(t) \/ DequeueStoreCount(t)
  \/ BoundP(t) \/ BoundAllocate(t) \/ BoundV(t)
  \/ DestroyP(t) \/ DestroyFree(t) \/ DestroyV(t)
  \/ DestroyUnbound(t) \/ DestroyDrain(t)

\* After undefined behaviour the model stops: the process has crashed or
\* its state is no longer that of the code.
Next ==
  /\ fault = "none"
  /\ \/ Ingress
     \/ Discard
     \/ \E t \in Threads : ThreadStep(t)

Spec == Init /\ [][Next]_vars

(* The clock preempts a running thread and the multilevel scheduler runs   *)
(* every runnable thread eventually (Kernel's NoStarvation), so a thread   *)
(* that can take a step takes one: each thread is weakly fair.  A thread   *)
(* blocked on data_ready or the mutex has no step until a V starts it.     *)
(* The network is not fair: it may deliver nothing more.                   *)
FairSpec == Spec /\ \A t \in Threads : WF_vars(ThreadStep(t))

-----------------------------------------------------------------------------
TypeOK ==
  /\ front \in Nodes \cup {Nil} /\ rear \in Nodes \cup {Nil}
  /\ count \in Int
  /\ next \in [Nodes -> Nodes \cup {Nil}]
  /\ data \in [Nodes -> (1 .. MaxArrivals) \cup {Nil}]
  /\ alloc \subseteq Nodes
  /\ uport \in {"null", "published", "queued", "ready"}
  /\ nPorts \in 0 .. MaxPorts
  /\ bfree \in [PortNums -> BOOLEAN]
  /\ pc \in [Threads -> {"idle", "c2", "c3", "r_wait", "b1", "b_wait", "b2",
                         "b3", "x_wait", "x2", "x3", "u2"} \cup DequeuePC]
  /\ first \in [Threads -> Nodes \cup {Nil}]
  /\ newnum \in [Threads -> -1 .. (MaxPorts - 1)]
  /\ live \in [PortNums -> Nat]
  /\ owned \in [Threads -> SUBSET PortNums]
  /\ dequeued \in Seq(1 .. MaxArrivals)
  /\ fault \in {"none", "uninit", "null_deref", "double_free", "assert_arg",
                "null_item"}

(* Datagrams are received once each and in arrival order: the datagrams  *)
(* queue_dequeue takes out of the port's queue are a prefix of those the   *)
(* ingress handler put in, while one receiver drains it.                   *)
DequeueInOrder == IsPrefix(dequeued, delivered)

(* With several receivers on a port, each datagram is still taken out at  *)
(* most once: queue_dequeue must not hand the same node to two callers.   *)
DequeueOnce ==
  /\ IsInjective(dequeued)
  /\ Range(dequeued) \subseteq Range(delivered)

(* assert(arg) in minimsg_receive holds: a receiver that got past         *)
(* semaphore_P on data_ready always finds a datagram in the queue.        *)
NoAssertFail == fault # "assert_arg"

(* When no receiver is inside queue_dequeue, the port's list is well      *)
(* formed (Queue!WellFormed): count nodes from front to rear.  The         *)
(* ingress interrupt may come between the statements of the dequeue.     *)
QueueConsistent == (\A t \in Threads : pc[t] \notin DequeuePC) => Q!WellFormed

(* No thread and no interrupt uses the port's queue or semaphore before   *)
(* miniport_create_unbound has set them up.                               *)
NoUninitAccess == fault # "uninit"

(* Destroying the unbound port completes: its drain loop never stores    *)
(* through the NULL item pointer it passes to queue_dequeue.              *)
NoNullItem == fault # "null_item"

(* A datagram handle_udp_packet appended to the port's queue is taken out *)
(* by a receiver, unless the program crashed first: the V of data_ready    *)
(* that follows every append starts a blocked receiver, and one that       *)
(* calls minimsg_receive again finds the count positive.                   *)
DatagramReceived ==
  \A i \in 1 .. MaxArrivals :
    (i \in Range(delivered)) ~> (i \in Range(dequeued) \/ fault # "none")

(* No bound port number is held by two live ports at once.                *)
PortsUnique == \A i \in PortNums : live[i] <= 1

(* A bound port number is marked free exactly when no live port holds it: *)
(* no number leaks out of the free map and none is handed out twice.      *)
PortsConserved == \A i \in PortNums : bfree[i] <=> live[i] = 0
=============================================================================
