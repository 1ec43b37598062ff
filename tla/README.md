# TLA+ models of the minithreads kernel (OS-Work)

This directory holds TLA+ specifications of the code under `src/`. The
specifications are checked with TLC. Every definition that models code is
listed in `PROJECT.json` ("map") with the source lines it translates.

## The system

`src/P1-P4` is a user-level thread package for one CPU, with networking on top:

| Part | Source | What it does |
|---|---|---|
| Scheduler | `minithread.c` | A multilevel feedback queue with 4 levels and per-level quanta. It has a scheduler (idle) thread, a reaper thread that frees finished threads, and `clock_handler`, which runs on every tick with interrupts masked. |
| Multilevel queue | `multilevel_queue.c` | One FIFO queue per level. Dequeue probes the levels circularly from a start level. |
| Generic queue | `queue.c` | A singly linked list with front, rear and count. It is used for every queue, including the alarm queue, which is kept sorted by `queue_insert_sorted`. |
| Semaphores | `synch.c` | A counting semaphore whose count may go negative, with a FIFO wait list. P and V are each one masked region. |
| Alarms | `alarm.c` | A queue sorted by deadline (in ticks). `clock_handler` fires the head alarm while its deadline equals the tick count. |
| Datagrams | `minimsg.c` | Unbound (listening) and bound (addressed) ports, a per-port data queue and semaphore, and the ingress handler. |
| Streams | `minisocket.c` | SYN/SYNACK/ACK/FIN handshakes, and send with retransmission alarms (100 ms doubling to 12800 ms). |
| Utilities | `common.c` | Packing of integers and addresses. |

`src/P5/connect.c` is one node of a gossip-based router: a single-threaded poll loop over a list of `file_info` entries (standard input, the server socket, and one entry per TCP connection), which connects to peers on a `C` command, accepts peers, identifies each connection by a `H`(ello) line, keeps one connection per peer, and reconnects broken outgoing connections from a timer. On top of that it gossips link state and forwards with a TTL along Dijkstra next hops; `gossip_received`, `set_dist`, `dijkstra` and the `nl_*` node list it calls are not in the repository. `src/P6/ufsdisk.c` is a UFS-like block store with a free-block bitmap.

How the parts interact:

- Every primitive masks interrupts around its shared state. Masking is the only mutual exclusion on the one CPU, so the clock tick can come between any two masked regions.
- Blocking (P, sleep, stop) places the thread on a wait list or the alarm queue, then calls `minithread_stop`.
- Waking (V, an alarm's handler) calls `minithread_start`. That only enqueues the thread; it never switches.
- The network layers use semaphores and alarms for waiting and for timeouts.

## Modules

| Module | Models | State and actions |
|---|---|---|
| `MultilevelQueue` | `multilevel_queue.c` | Pure operators on a function from levels to sequences. `MLQDequeue` is the circular probe. |
| `Semaphore` | `synch.c` | Pure operators on `[count, wait_list]`. They say whether P blocks and whom V wakes. |
| `Alarm` | `alarm.c` and the firing loop of `clock_handler` | An alarm is a record with `left = end - nInterrupts`. A tick lowers every `left`. The alarms that fire are the prefix with `left = 0`. Any value below 0 can never fire again and is kept as `Stale`. |
| `AlarmRegister` | `register_alarm` called with interrupts enabled, `deregister_alarm`, and `clock_handler` | `alarm_queue` as in `Alarm`, `pc` per thread, and `rel`, the deadline a thread has computed but not yet inserted, kept relative to the clock like the queue's. Unmasked callers (minisocket) read and insert in two steps, with `RegisterRead` at line 61 and `RegisterInsert` at lines 64-66. Masked callers (sleep) do both in one step, `RegisterMasked`. `Deregister` is the ACK path, and `Tick` is `clock_handler`. |
| `Kernel` | `minithread.c` with the three modules above | Variables: `running_thread`, `runnable_queue`, `stopped_queue`, `level`, `quanta`, `curr_level`, `curr_level_quanta`, the user semaphore, `alarm_queue`, a program counter per thread, and the holders of the semaphore. Each masked region of the code is one action. |
| `SemaphoreSpec` | the promise of spec 4.2 | An abstract FIFO semaphore: granted callers and waiting callers. |
| `Queue` | `queue.c` | The list on a finite heap of nodes: `front`, `rear`, `count`, and `next`/`data`/`prio` per node, plus the set of allocated nodes. malloc may return any node not in use, so freed nodes come back. |
| `QueueSpec` | the promise of `queue.h` | The queue as a sequence of (data, priority) entries. |
| `Minimsg` | `minimsg.c` with the UDP path of `network_handler` | One unbound port (its list from `Queue`, its `data_ready` semaphore, and `unbound_ports[n]` as `uport`), the bound-port allocator (`nPorts`, `bound_ports_free` as `bfree`, and the `mutex`), a program counter per thread, and the ghosts `live`, `owned`, `delivered` and `dequeued`. |
| `Minisocket` | `minisocket.c` after the handshake, with the TCP path of `network_handler` | Per socket (`client`, `server`): `state`, `seq`, `ack`, `ackflag`, the `data` queue, the semaphores `dready`, `wfa` and `mutex`, and the pending `linger` alarm. The network is a set of packets `net`. Per thread: `pc`, the send state (`calls`, `sent`, `tl`, `hdr`, `att`) and counts of pending send and close alarms (`npend`, `cpend`). The ghosts `stream` and `rcvd` record the bytes put on the wire and returned by receive. |
| `MinisocketHandshake` | `minisocket_server_create`, `minisocket_client_create`, `minisocket_free` and the handshake paths of the handler | Per socket (the server `"server"` and one per client thread): `state`, `lport`, `rport`, `ackflag`, the `data` queue of raw packets and `dready`. Shared: `ports` (the `ports[]` table), `ncp` (`n_client_ports`) and the network `net`. Per thread: `pc`, `pval` (`port_val`), `att` (doublings of `wait_val`), and the alarms it registered: `cur` (the last one is pending) and `stale` (older ones still pending). `rounds` counts the server's restarts. |
| `Ufsdisk` | `P6/ufsdisk.c` | Variables: `inode` (per opened inode, `nblocks` and `refs`), `bitmap` (one bit per data block), `disk` (each data block null, a value, or an indirect block's refs) and `fault`. Actions: `ufsdisk_write` and `ufsdisk_setsize`. `Read` and `NBlocksOf` are `ufsdisk_read` and `ufsdisk_nblocks`, which change nothing. |
| `UfsSpec` | the promise of the block interface | Per inode, a size and the blocks below it; a write stores its block, setsize(n) drops the blocks from n on. |
| `Connect` | `P5/connect.c`, the connection table | Variables: `fi` (per node, its `file_info` entries in creation order, index = uid: `type`, `status`, `fd`, `addr`, `ostatus` = `u.fi_outgoing.status`, `handler`, and `out`, the hellos in its output buffer), `conn` (the TCP connections: client node, target address, `syn`/`est`/`dead`, `accepted`, the ends `closed`, and `wire`, the hellos on the wire towards each end), `timers` (per node, the uids with a pending `timer_reconnect`), `issued` (the `C` commands typed), `failures`, and the ghosts `dropped` and `advertised` (the addresses each node's gossip has listed). |
| `MCKernel`, `MCConnect` | | The instances for TLC: the constants a config cannot write (tuples). `Queue`, `Minimsg`, `Minisocket`, `MinisocketHandshake`, `Ufsdisk` and `AlarmRegister` are checked directly, as their configs give every constant. |

### Kernel actions

Only the running thread takes program steps:

| Action | Code |
|---|---|
| `Fork` | `minithread_fork` |
| `SemaphoreP` | `semaphore_P`, including the `minithread_stop` of a caller that blocks |
| `ReturnFromP` | a blocked P thread resumes |
| `SemaphoreV` | `semaphore_V`, including the `minithread_start` of the woken thread |
| `MinithreadYield` | `minithread_yield` |
| `SleepRegister` | the first masked region of `minithread_sleep_with_timeout` |
| `SleepStop` | its `minithread_stop` |
| `ReturnFromSleep` | a sleeper resumes |
| `FinalProc` | a thread's procedure returns |
| `ReaperPass` | one iteration of `clean_stopped_threads` |
| `SchedCheck` | the idle loop's unmasked emptiness test |
| `SchedYield` | the idle loop's yield |
| `Tick` | `clock_handler`, with `implement_scheduler` as the operator `ImplementScheduler` |

`PickNext` is the common body of `yield_running_thread` and `stop_running_thread`. It dequeues first, then re-enqueues the caller (yield only, and never the scheduler thread), then switches. If the dequeued thread is on another level, it resets `curr_level` and its quanta.

Data is abstracted away:

- Stacks, thread ids and the context switch itself are not modelled.
- The user threads run an arbitrary test program. In any order, it may fork, P then V the semaphore, yield, sleep, or return.
- `scheduler_thread_create` never sets the scheduler thread's `quanta`. `Init` therefore lets it start at any value in `0 .. QuantaCap`.
- Quanta counters are capped at `QuantaCap`, one above the largest quantum value. The code only compares them with `==` against a quantum value, so larger values behave alike.

### Minimsg actions

`Ingress` is the network interrupt: `network_handler` masks interrupts and calls `handle_udp_packet`, which drops a datagram for a NULL port and otherwise appends it to the port's queue and V's `data_ready`. The threads take the other steps in any order, because the clock may preempt them anywhere outside a masked region:

| Action | Code |
|---|---|
| `CreatePublish`, `CreateQueue`, `CreateSemaphore` | `miniport_create_unbound`: the masked region that stores the port, then the two unmasked initialisations |
| `RecvP` | `semaphore_P(data_ready)` in `minimsg_receive` |
| `DequeueTest` ... `DequeueStoreCount` | the statements of `queue_dequeue`, which `minimsg_receive` calls with interrupts enabled; `count--` is a load and a store |
| `BoundP`, `BoundAllocate`, `BoundV` | `miniport_create_bound` (from `minimsg_receive`, or a sender): P, the number choice `AllocatePort`, V |
| `DestroyP`, `DestroyFree`, `DestroyV` | `miniport_destroy` of a bound port |
| `Discard` | `network_handler` for a packet that never reaches the port: shorter than the header, of another protocol (a stream packet goes to `minisocket_handle_tcp_packet`), or a datagram `handle_udp_packet` frees for its size |
| `DestroyUnbound`, `DestroyDrain` | `miniport_destroy` of the unbound port by a receiver: the masked region that sets `unbound_ports[n]` to NULL, then the drain loop's first `queue_dequeue(data, NULL)` |

Undefined behaviour ends the run in a `fault` state. The faults are: use of an uninitialized queue (`uninit`), a NULL dereference, a store through the NULL `item` of the destroy loop (`null_item`), a double free, and a failed `assert(arg)`. `CreateQueue` gives the port a fresh empty list, because `queue_new` does, so a port created again after a destroy starts empty. The model stops there, so the Minimsg configs say `CHECK_DEADLOCK FALSE`. A run also stops when the network has delivered `MaxArrivals` datagrams and the receivers wait on `data_ready`, and in the code such a receiver does wait forever.

The datagram's payload is its arrival number. `handle_udp_packet` drops datagrams whose size is at most the header, so a received datagram always has a payload, and `minimsg_receive` always goes on to `miniport_create_bound`.

### Minisocket actions

The model starts from the state both `create` functions leave at return: an OPEN pair, client at seq 2 / ack 1 and server at seq 1 / ack 2, with empty queues and `data_ready` reset to 0. `server_create` sets `ack_flag = 0`; `client_create` never sets it, so the client's `ack_flag` starts at 0, 1 or "other" (2). A byte is `<<thread, call, index>>`, and a packet carries the bytes of one chunk.

| Action | Code |
|---|---|
| `SendStart` | the state checks and `semaphore_P(send_receive_mutex)` of `minisocket_send` |
| `ChunkStart` | the top of the `do` loop: `wait = 100`, the header, `transfer_length` |
| `SendPkt` | `ack_flag = 0` and `network_send_pkt`; on failure (`SendFails`) also `seq_number +=`, V and return |
| `IncSeq` | `seq_number += transfer_length` |
| `ArmAndWait` | `register_alarm(wait, semaphore_V, data_ready)` and `semaphore_P(wait_for_ack)` |
| `SendWoke` | the CLOSING return and the masked `ack_flag` test: a timeout (0) or an ACK (1) |
| `SendLoop`, `SendExhausted` | `while (sent_byte != len)` with the final V, and the `wait > 12800` return |
| `RecvStart`, `RecvData`, `RecvGot` | `minisocket_receive`: P on the mutex, P on `data_ready`, then the dequeue, copy and V |
| `Deliver` | `minisocket_handle_tcp_packet`: drop, queue raw (not OPEN), FIN (`HandleFin`) or ACK/data (`HandleAck`), and the reply it sends |
| `Lose` | the network drops a packet (`Loss`) |
| `Timer`, `CloseTimer` | `clock_handler` fires a send alarm (V on `data_ready`) or a FIN alarm (V on `wait_for_ack`) |
| `Linger` | the 15 s alarm registered on FIN, which calls `minisocket_close` from the interrupt |
| `CloseStart` ... `CloseExhausted` | `minisocket_close`: the CLOSING/CLOSED exits, then the FIN loop (send FIN, `seq_number += 1`, alarm and P, the `ack_flag` test, free), and the final V |

Undefined behaviour ends a run in a `fault` state. The faults are a deregister of a fired alarm (`double_free`, `close_double_free`), a dequeue from an empty queue (`uninit_arg`), a failed `assert(msg_len > 0)`, an alarm that touches a freed socket (`use_after_free`), a call on a socket that another thread's close has freed (`call_after_free`), and a linger close that must block in the interrupt (`close_in_interrupt`). The code never assigns `CLOSED`, so the model's `CLOSED` branches, which mirror the code, are unreachable.

### MinisocketHandshake actions

One thread runs `server_create` on `SrvPort`; each client thread runs `client_create` to it. A packet is its type, source and destination port, and ack number; all hosts share one address, so a peer is told apart by its port. `queue_dequeue` is one step here (its race with the handler is shown in `Minimsg`).

| Action | Code |
|---|---|
| `ServerRound` | top of the outer `while (1)`: no remote, `WAITING_SYN` |
| `ServerWaitSyn`, `ServerGotSyn` | the SYN loop: P on `data_ready`, then dequeue; a SYN sets the remote and `WAITING_ACK`, anything else is freed; an empty queue is a NULL `arg` (`null_deref`) |
| `ServerSynack` | SYNACK to the remote, `register_alarm` and P; past the budget, back to `ServerRound` |
| `ServerCheck`, `ClientCheck` | the masked `if (queue_length) deregister_alarm(a)` |
| `ServerTest` | the unmasked test: timeout (doubling), duplicate SYN (`continue`), SYN from another port (FIN), ACK from the remote (drain, reset `data_ready`, OPEN) |
| `ClientPort`, `ClientCursor` | the port choice (`n_client_ports` if free, else the first free client port) and the cursor update, with no lock between them |
| `ClientPublish`, `ClientInit` | `ports[port_val] = socket` while INITIAL, then the ports, queue, semaphores and `WAITING_SYNACK` |
| `ClientSyn` | SYN, `register_alarm` and P; past the budget, `minisocket_free` |
| `ClientTest` | the unmasked test: timeout (doubling), SYNACK from the server (ACK, drain, OPEN), FIN (free), anything else (freed, SYN resent) |
| `Deliver` | `minisocket_handle_tcp_packet`: drop (no socket, INITIAL), queue raw with V (not OPEN), and on an OPEN socket the FIN to a stray SYN, the bare ACK to a SYNACK, FIN to CLOSING and the `ack_flag` of an ACK |
| `Timer` | `clock_handler` fires an alarm: V on `data_ready`; on a freed socket, `use_after_free`. Stale alarms go off first, as they were registered earlier with shorter waits |
| `Lose` | the network drops a packet |

### Ufsdisk actions

The P6 code is sequential: each call of the block interface runs to
completion, so each is one action. Its loops, and the recursion of
`recurse_helper`, are RECURSIVE operators. They thread a record of the store
(`disk`, `bitmap`, the inode's `refs`, the loop variables) through every
block write, in the order the code makes them. So a block freed, or
allocated, earlier in a call is seen as such later in the same call.

| Definition | Code |
|---|---|
| `Init` | `ufsdisk_create` on an unused store: `NInodeBlocks`, `Start`, `NFreeBitmapBlocks` (`setup_freebitmapblocks`' `K / (1 + BLOCK_SIZE * 8)`) and `End` give the layout |
| `Route` | the offset ranges shared by `ufsdisk_read` and `ufsdisk_write`: direct, single, double and triple indirect, with the code's triple index |
| `Alloc` | `write_next_free_block`: the first clear bit, most significant first, is set, and the block is written |
| `WriteLoop` | the `while (nlevels)` loop of `ufsdisk_write`, allocating missing indirect blocks |
| `ufsdisk_write` | the top indirect block, the loop, and the data block (new: linked and `nblocks` grown; old: overwritten) |
| `Release` | `set_block_free`: nulls the block and flips its bit with `^=` |
| `FreeTree`, `FreeSlots` | `recurse_helper`, with its `*n_blocks == 0` early return |
| `FreeRefs`, `ufsdisk_setsize` | the loop of `ufsdisk_setsize` over the inode's refs, then `nblocks = 0`; the refs stay |
| `ReadWalk`, `Read` | `ufsdisk_read`'s `offset > nblocks` check and its traversal; a hole reads as zeroes |

Three things end a behaviour in `fault`, because the code goes on with
undefined behaviour and the model does not follow it:

- `no_free_block`: `write_next_free_block` finds no clear bit and leaves its block number unset;
- `data_as_indirect`: a data block is read as an indirect block;
- `ref_out_of_bounds`: an index goes past an indirect block's refs.

### Connect actions

Each node runs one poll loop, so each handler call is one action. A node's
address is the node itself, and the address `accept` reports is `Eph`, the
peer's ephemeral port, on which nobody listens. The hello is the only message
that changes an entry. Of a gossip, the model keeps only the neighbour list
`send_gossip` builds. It records the list in the history `advertised`, per
node, when the error path of `message_handler` (line 663) or the end of
`hello_received` (line 562) calls it. `GossipList` is its filter: every
`FI_INCOMING` entry, and every `FI_OUTGOING` one that is `FI_KNOWN` and
`FI_CONNECTED`.

| Action | Code |
|---|---|
| `connect_command` | `connect_command`: a new `FI_OUTGOING` entry for the target, then `try_connect` |
| `TryConnect` | `try_connect`: a failure of `socket()` or of `connect()` that returns at once (nothing is retried), `EINPROGRESS` (wait in `connect_handler`), or an immediate connect (`message_handler`, `FI_CONNECTED`, no hello) |
| `timer_reconnect` | `timer_reconnect`: `try_connect` on the non-free entry with the uid, else "entry not found" |
| `server_handler` | `accept`, a new `FI_INCOMING` entry and `send_hello`; a failed `accept` still adds an entry, with fd -1 |
| `connect_handler` | POLLOUT: `message_handler`, `FI_CONNECTED`, `send_hello`; an error: reconnect timer, `close`, fd -1 |
| `PeerError` | `message_handler` on POLLERR/POLLHUP: `close`; an outgoing entry gets a timer and fd -1, any other is freed |
| `SendOut` | `message_handler` on POLLOUT: the output buffer goes onto the wire |
| `RecvHello` | `message_handler` on POLLIN: `add_input` reads a line and `handle_line` calls `hello_received` |
| `hello_received`, `HelloLoop` | a known entry or a hello from self is ignored; the search over known entries to the same peer: a defunct one (fd -1) is freed and the call returns (`DropDefunct`), otherwise `get_id` decides keep mine (`KeepMine`: close and free the other, go on) or keep other (`KeepOther`: close and free this one, return); a surviving entry becomes `FI_KNOWN` |
| `Establish`, `Refuse`, `LinkFail` | the kernel completes the handshake, a connect to `Eph` is refused, a link breaks (`MaxLinkFailures`) |

`get_id` fills `that` twice and never writes `this`, so the comparison reads
an uninitialised `sockaddr_in`. The model makes its outcome a free choice per
duplicate (`keep` in `RecvHello`).

## Runs

| Run | Config | Expect | What it checks |
|---|---|---|---|
| `kernel_safety` | `MCKernelSafety.cfg` | pass | `TypeOK`; `ThreadPresence`; `AlarmsLive`; `SemaphoreRefinement` |
| `kernel_liveness` | `MCKernelLiveness.cfg` | pass | `NoStarvation`; `SleepersWake` |
| `queue_safety` | `MCQueue.cfg` | pass | `TypeOK`; `WellFormed`; `QueueRefinement`, with deletes only at the front |
| `minimsg_safety` | `MCMinimsg.cfg` | pass | `TypeOK`; `DequeueInOrder`; `NoAssertFail`; `PortsUnique` |
| `minimsg_liveness` | `MCMinimsgLiveness.cfg` | pass | `DatagramReceived`, under `FairSpec` |
| `minisocket_stream` | `MCMinisocket.cfg` | pass | `TypeOK`; `StreamOrder`; `OneChunkInFlight`; `SeqAckAgree` |
| `minisocket_close` | `MCMinisocketClose.cfg` | pass | `TypeOK`, with data both ways, both ends closing and a failing transport: the only run that reaches close's FIN loop with `ack_flag` 0 |
| `minisocket_lost` | `MCMinisocketLost.cfg` | violation | `Retransmits`, under fairness |
| `handshake` | `MCMinisocketHandshake.cfg` | pass | `TypeOK`; `ServerPeerOpen`; `ClientReturns` (under fairness), two clients and a lossy network |
| `handshake_stale_alarm` | `MCMinisocketHandshakeStale.cfg` | violation | `NoNullArg` |
| `ufs_write` | `MCUfsdisk.cfg` | pass | `TypeOK`; `BitmapExact`; `UfsRefinement`, on a store that is never truncated (`WriteSpec`) |
| `connect_table` | `MCConnect.cfg` | pass | `TypeOK`; `KnownUnique`; `NoFdLeak`; `NoTimerOnLiveSocket`, two nodes connecting to each other at once |

The runs above are the ones `PROJECT.json` lists. Each config below also shows a disagreement with the spec, a comment or the code's own intent. `tlc -config <cfg> <module>` finds its property violated, where the module is the component's MC module (`MCKernel`, `MCConnect`) or the specification itself (`Queue`, `Minimsg`, `Minisocket`, `MinisocketHandshake`, `Ufsdisk`, `AlarmRegister`); the findings below explain each one.

| Reproduction | Config | Expect | What it checks |
|---|---|---|---|
| `queue_delete_middle` | `MCQueueDelete.cfg` | violation | `QueueRefinement` with deletes anywhere |
| `minimsg_two_receivers` | `MCMinimsgTwoReceivers.cfg` | violation | `DequeueOnce` with two receivers |
| `minimsg_create_race` | `MCMinimsgCreateRace.cfg` | violation | `NoUninitAccess` |
| `minimsg_port_leak` | `MCMinimsgPortLeak.cfg` | violation | `PortsConserved` |
| `minisocket_dup` | `MCMinisocketDup.cfg` | violation | `StreamOrder` with duplication |
| `minisocket_trunc` | `MCMinisocketTrunc.cfg` | violation | `StreamOrder` with chunks longer than `max_len` |
| `minisocket_double_free` | `MCMinisocketDoubleFree.cfg` | violation | `NoDoubleFree` |
| `minisocket_mutex` | `MCMinisocketMutex.cfg` | violation | `MutexBinary` |
| `minisocket_seq_race` | `MCMinisocketSeqRace.cfg` | violation | `SendReturns`, under fairness |
| `minisocket_close_after_send` | `MCMinisocketCloseAfterSend.cfg` | violation | `NoCloseDoubleFree` |
| `minisocket_send_fail` | `MCMinisocketSendFail.cfg` | violation | `SeqAckAgree` with a failing transport |
| `minisocket_uninit_arg` | `MCMinisocketUninitArg.cfg` | violation | `NoUninitArg` |
| `minisocket_use_after_free` | `MCMinisocketUseAfterFree.cfg` | violation | `NoUseAfterFree` |
| `minisocket_close_in_interrupt` | `MCMinisocketCloseInInterrupt.cfg` | violation | `NoCloseInInterrupt` |
| `handshake_port_race` | `MCMinisocketHandshakePorts.cfg` | violation | `OpenBound` |
| `handshake_port_wrap` | `MCMinisocketHandshakeWrap.cfg` | violation | `ClientPortsInRange` |
| `kernel_sleep_zero` | `MCKernelSleepZero.cfg` | violation | `SleepersWake` with a 0 ms sleep allowed |
| `ufs_truncate` | `MCUfsdiskTruncate.cfg` | violation | `UfsRefinement` with `setsize(0)` |
| `minisocket_two_way` | `MCMinisocketTwoWay.cfg` | violation | `OneChunkInFlight` with a sender on each end |
| `ufs_setsize_arg` | `MCUfsdiskSetsizeArg.cfg` | violation | `UfsRefinement` with `setsize(1)` |
| `ufs_bitmap` | `MCUfsdiskBitmap.cfg` | violation | `BitmapExact` with `setsize(0)` |
| `ufs_full` | `MCUfsdiskFull.cfg` | violation | `NoUndefinedBehaviour` until the store is full |
| `ufs_triple` | `MCUfsdiskTriple.cfg` | violation | `NoUndefinedBehaviour` at offset 13 |
| `minimsg_dequeue_race` | `MCMinimsgDequeueRace.cfg` | violation | `QueueConsistent` |
| `minimsg_destroy_unbound` | `MCMinimsgDestroy.cfg` | violation | `NoNullItem` |
| `connect_dup_agree` | `MCConnectDupAgree.cfg` | violation | `DupAgree` |
| `connect_abandoned` | `MCConnectNeverAbandoned.cfg` | violation | `NeverAbandoned` |
| `connect_defunct` | `MCConnectLiveOutgoingConnected.cfg` | violation | `LiveOutgoingConnected` |
| `alarm_unmasked_register` | `MCAlarmRegister.cfg` | violation | `SleeperWakes`, with one caller registering unmasked |
| `connect_gossip_ephemeral` | `MCConnectGossip.cfg` | violation | `GossipListsListeners` |

What the kernel properties say:

- **`ThreadPresence`** (spec section 8): every live user thread is in exactly one place. The places are the CPU, a level queue, the semaphore's wait list, the stopped queue, or the alarm queue. There is one exception, between sleep's registration and its stop, where the thread is owed a wake-up while still running and counts twice.
- **`SemaphoreRefinement`**: Kernel implements `SemaphoreSpec` under a refinement mapping. A thread holds the semaphore from the V that dequeues it, even before it runs.
- **`AlarmsLive`**: every alarm in the queue still has its deadline ahead, so none has missed the one tick that can fire it. This is why spec section 8 asks for a sorted queue: `clock_handler` looks only at the head.
- **`NoStarvation`**: a runnable thread eventually runs.
- **`SleepersWake`**: a sleeper eventually returns from sleep.

What the queue properties say:

- **`WellFormed`**: walking from front meets exactly `count` allocated nodes, ends at `rear`, and leaks no node.
- **`QueueRefinement`**: the list implements `QueueSpec`.

Findings:

- **`kernel_sleep_zero`**: `register_alarm(0)` sets the deadline to the current tick. `clock_handler` increments the tick before testing `end == nInterrupts`, so the alarm never fires. The sleeper never wakes, and every later alarm stays behind the dead head. TLC shows this in 9 steps.
- **`queue_delete_middle`**: deleting a node behind the front leaves the previous node's `next` pointing at it. When malloc reuses the node, the list becomes a cycle; TLC shows this in 5 steps. `deregister_alarm` calls `queue_delete` for minisocket's retransmission alarms, which need not be at the head.

What the minimsg properties say:

- **`DequeueInOrder`**: with one receiver, the datagrams taken out are a prefix of those put in.
- **`NoAssertFail`**: a receiver past `semaphore_P` finds a datagram, so `assert(arg)` holds.
- **`PortsUnique`**: no bound port number is held twice.
- **`DatagramReceived`**: every datagram queued on the port is eventually taken out by a receiver, unless the program crashed first. It fails if a V of `data_ready` does not start the receiver blocked on it.
- **`DequeueOnce`**: no datagram is taken out twice.
- **`QueueConsistent`**: when no receiver is inside `queue_dequeue`, the list is well formed.
- **`NoUninitAccess`**: nothing touches the port's queue before it is created.
- **`PortsConserved`**: a number is free in the map exactly when no live port holds it.
- **`NoNullItem`**: destroying the unbound port never stores through the NULL `item` it passes to `queue_dequeue`.

Findings in `minimsg.c`:

- **`minimsg_two_receivers`**: two receivers preempted inside the unmasked `queue_dequeue` both read the same `front`. They return the same datagram and free its node twice (13 steps).
- **`minimsg_dequeue_race`**: the ingress interrupt between the load and the store of `count--` is lost from `count` (12 steps). An append between the dequeue's emptiness test and its `rear = NULL` leaves a non-empty list with a NULL `rear`, and the next append dereferences it.
- **`minimsg_create_race`**: a datagram that arrives after `create_unbound` publishes the port, but before it creates the queue, is appended to an uninitialized queue (3 steps).
- **`minimsg_destroy_unbound`**: `miniport_destroy` drains the unbound port with `queue_dequeue(data, item)` and `item == NULL` (line 178). `queue_dequeue` stores through `item` on both of its paths (`queue.c` lines 119 and 126), so every destroy of an unbound port writes through NULL (2 steps). `queue_free`, `semaphore_destroy` and `free` are never reached.
- **`minimsg_port_leak`**: once the cursor reaches `MAX_PORTS-1`, the scan marks every free number used and returns only the last, so the rest leak (13 steps).

One difference from the spec is not a run: `handle_udp_packet` drops datagrams with an empty payload (`size <= sizeof(mini_header_t)`), although `minimsg_receive` has a branch for them.

What the minisocket properties say:

- **`StreamOrder`** (spec section 8): the bytes receive returns at one end are a prefix of the bytes send put on the wire at the other.
- **`OneChunkInFlight`** (spec section 8): all data packets of one socket on the wire carry the same chunk.
- **`SeqAckAgree`**: a sender between chunks, with nothing on the wire, has `seq_number` equal to the other end's `ack_number`.
- **`SendReturns`**, **`Retransmits`**: a started send returns, and a lost chunk that still has attempts left is sent again (spec 4.5). A send that gives up after its last attempt does not violate `Retransmits`.
- **`NoDoubleFree`**, **`NoCloseDoubleFree`**, **`MutexBinary`**, **`NoUninitArg`**, **`NoUseAfterFree`**, **`NoCloseInInterrupt`**: the faults above do not happen, and the mutex count stays at most 1.

Findings in `minisocket.c` (one run each):

- **`minisocket_lost`**: the retransmission alarm V's `data_ready`, but send waits on `wait_for_ack` (line 373). A lost chunk is never resent, and send blocks. The config makes one one-chunk send, so no stale retransmission of an earlier chunk can stand in for the lost one. With the alarm V'ing `wait_for_ack`, the same config passes (23,427 states).
- **`minisocket_seq_race`**: the ACK can be handled before `seq_number += transfer_length` (line 367). It then fails the `ack_no == seq_number` test, is dropped, and send never returns.
- **`minisocket_dup`**: data is accepted whenever its ack number matches (line 593). A duplicate is queued and returned twice.
- **`minisocket_trunc`**: the re-queue of the rest of a packet is guarded by `copy_len > max_len` (line 444), which never holds. The rest is lost; the comment says it is re-queued.
- **`minisocket_double_free`**: send deregisters an alarm that has already fired and been freed (line 391).
- **`minisocket_mutex`**: a successful send V's the mutex after each ACK and again before it returns (lines 393, 404).
- **`minisocket_close_after_send`**: close never resets `ack_flag`. After a send the FIN's ACK does not V `wait_for_ack`; the FIN alarm does, and close deregisters that fired alarm (line 519).
- **`minisocket_send_fail`**: when `network_send_pkt` fails, `seq_number` keeps the unsent chunk (line 367), and later ACKs no longer match.
- **`minisocket_two_way`**: the other end's data packet is taken for the ACK of our chunk (line 600), and the next chunk goes out while the first is still on the wire.
- **`minisocket_uninit_arg`**: a receiver woken by the FIN runs after the socket has left CLOSING. It dequeues from an empty queue (line 433).
- **`minisocket_use_after_free`**: the linger alarm registered on FIN (line 580) fires after close freed the socket.
- **`minisocket_close_in_interrupt`**: an application close of a CLOSING socket sets WAITING_SYN (line 491). The linger alarm's close then runs the blocking FIN loop in the clock interrupt.

What the handshake properties say:

- **`ServerPeerOpen`**: a server that returns OPEN is connected to a client that is OPEN (or CLOSING on a FIN), across the restarts of its outer loop.
- **`ClientReturns`**: every `client_create` returns, whatever the network loses (spec 4.2, NOSERVER).
- **`NoNullArg`**: the server's SYN loop, woken from P on `data_ready`, always finds a packet, so it never takes `arg->buffer` of an empty dequeue (line 141).
- **`OpenBound`**: `ports[]` maps an OPEN socket's port to it.
- **`ClientPortsInRange`**: `client_create` hands out client ports only.

Finding in `alarm.c` (module `AlarmRegister`):

- **`SleeperWakes`**: a thread that sleeps with interrupts masked is eventually woken by `clock_handler`.
- **`alarm_unmasked_register`**: `register_alarm` reads `nInterrupts` at line 61 before it masks interrupts for the insert, and minisocket calls it unmasked with 100 ms, which is one tick. In TLC's trace (8 states), the sleeper registers a 2-tick alarm. The minisocket caller reads its 1-tick deadline, a tick comes, and it inserts. Its alarm now has `end == nInterrupts`, after that tick's check, and sorts ahead of the sleeper's. On the next tick `get_next_alarm` sees a head with `end < nInterrupts` and fires nothing. The sleeper's deadline passes behind it, so the sleeper never wakes, even after the caller deregisters its own alarm.

Findings in the handshake:

- **`handshake_stale_alarm`**: after P, the queue is tested masked (line 172, deregister) and again unmasked (line 176). A packet that arrives between the two tests is dequeued, but the V that P consumed was the alarm's. `data_ready` stays one ahead, so the next P returns at once with an empty queue, and that iteration's alarm is never deregistered. In TLC's trace (28 states), another client's SYN comes in that window. The server then exhausts its SYNACK budget with that alarm pending and starts its SYN loop again. The leftover alarm fires, and the woken loop dequeues from an empty queue and dereferences a NULL `arg` (line 141).
- **`handshake_port_race`**: two `client_create` calls read `n_client_ports` before either moves it (lines 224 and 235), so both bind the same port. The second overwrites the first, which is already OPEN, in `ports[]` (line 252).
- **`handshake_port_wrap`**: past `MAX_CLIENT_PORT` the cursor becomes 0 (line 237), a server port, and the next client takes it.

What the UFS properties say:

- **`BitmapExact`**: the free bitmap marks exactly the data blocks on the paths of the files' offsets below their sizes, and no block is on the paths of two files.
- **`UfsRefinement`**: Ufsdisk implements `UfsSpec` under the mapping size = `nblocks`, and block o = the value `ufsdisk_read` returns for o below the size. Each write and setsize is then a step of its own file only, and a read returns the last value written or zeroes.
- **`NoUndefinedBehaviour`**: no call reaches one of the three faults above.

The write path is right: `ufs_write` shows that without `setsize`, allocation, linking and
reading agree, with two files at direct, single and double indirect offsets, up to a full store.
`setsize` breaks both properties.

Findings in `ufsdisk.c`:

- **`ufs_truncate`**: `ufsdisk_setsize` frees the blocks but never clears `inode->refs` (line 211). In 3 steps: write offset 0, truncate, write offset 1. The write finds no single-indirect block and allocates one, and the allocator hands out offset 0's freed block. Offset 0's direct reference still names that block, so offset 0 (live again, as the size is 2) reads the indirect block instead of zeroes.
- **`ufs_setsize_arg`**: the comment says setsize sets the size to its argument (line 172). The code frees everything and sets 0 whatever the argument, so `setsize(1)` of a one-block file loses the block.
- **`ufs_bitmap`**: through the stale references, a file reuses a freed indirect block without allocating it, so its bit stays clear, and two offsets share one block. `set_block_free` toggles bits (line 590), so freeing such blocks again marks them in use.
- **`ufs_full`**: on a full store `write_next_free_block` returns -1 without setting `free_block_no`, and `ufsdisk_write` uses it anyway (lines 353, 369, 401).
- **`ufs_triple`**: the triple-indirect index subtracts `REFS_PER_INODE - 3 + REFS_PER_BLOCK^2` (line 265), missing `REFS_PER_BLOCK`. The last offsets run past the top indirect block's refs.

What the connection-table properties say:

- **`KnownUnique`**: a node never has two live entries that both know the same peer: `hello_received` resolves every duplicate, whatever the order of the two hellos, errors, reconnects and a link failure.
- **`NoFdLeak`**: every socket end a node has open is the fd of one of its live entries; duplicate resolution, errors and takeovers close what they free.
- **`NoTimerOnLiveSocket`**: a pending reconnect timer names an entry without a socket, so `timer_reconnect` never overwrites a live fd.
- **`DupAgree`**: of two connections between the same nodes, the two nodes never each drop the one the other kept (the comment's "we keep the lowest one").
- **`NeverAbandoned`**: every outgoing entry has a socket or a pending reconnect timer.
- **`LiveOutgoingConnected`**: an outgoing entry talking on a connected socket is `FI_CONNECTED`, so `file_broadcast` reaches it.
- **`GossipListsListeners`**: every address a node's gossip lists as a neighbour is a node's listening address, one that a peer could connect to.

Findings in `connect.c`:

- **`connect_dup_agree`**: `get_id` never writes `this` (line 435), so the connection ids compare garbage. Two nodes that connect to each other at once may each drop the connection the other kept; both duplicates are closed (16 steps).
- **`connect_abandoned`**: `try_connect` returns without a timer when `socket()` or `connect()` fails at once (lines 759, 773), and the entry is never retried (1 step).
- **`connect_defunct`**: when our outgoing connection broke and the peer's reconnection arrives first, `hello_received` copies the `FI_CONNECTING` state to the new entry, frees the old one and returns (line 511) before setting `FI_KNOWN`. The new entry is never known, `file_broadcast` skips it, and its address is the peer's ephemeral port, so its later reconnects go nowhere (12 steps).
- **`connect_gossip_ephemeral`**: `send_gossip` lists an `FI_INCOMING` entry whatever its status (line 155). Until the peer's hello arrives, the entry's address is the ephemeral one `accept` reported. When n2's outgoing connection to n1 breaks while n1's connection to n2 is accepted but its hello is unread, the error path gossips n1's ephemeral port as a neighbour (5 steps).

Two more behaviours are recorded as hazards, not as runs:

- When `ack_flag` is neither 0 nor 1, close's FIN loop never ends; `MaxSeq` cuts it.
- The FIN handler wakes only `data_ready` waiters, so a sender blocked on `wait_for_ack` is not woken (spec scenario 6).

Every property of a passing run has a mutant in `PROJECT.json`: a variant of a mapped operator, modelling a plausible slip in the code, under which TLC finds that property violated.

### Bounds

- **Threads.** Two user threads (the first is `mainproc`'s) plus the scheduler and reaper threads. Two threads are enough to contend for the semaphore and to make one wait behind another on a level. They can also have two alarms in the queue at once.
- **Semaphore.** The semaphore starts at 1, a mutex as the network code uses it.
- **Sleeps.** `kernel_safety` uses sleeps of 100 and 200 ms (1 and 2 ticks), so alarms with different deadlines get out of registration order.
- **Levels in `kernel_safety`.** The code's 4 levels, with `level_max_quanta` = `<<3,2,2,2>>` and `level_quantum_value` = `<<1,2,2,2>>`. The code's `{80,40,24,16}` and `{1,2,4,8}` are scaled down. The scaling keeps what the code's behaviour depends on: level 0 has the shortest quantum; a thread can use up a quantum within a level's visit; and the level cursor can move while a thread is mid-quantum.
- **Levels in `kernel_liveness`.** Two levels, `<<2,2>>` and `<<1,2>>`, which keep the same features. With 4 levels the liveness check took 8 minutes (1.2M states).
- **Queue.** `MCQueue.cfg` has a heap of 3 nodes, 2 items and priorities {0,1}. That allows equal and unequal priorities, deleting either end, and reuse of a freed node.

- **Minimsg.** One receiver and one sender, a heap of 2 nodes, 4 datagrams, and 3 bound port numbers. `MaxPorts` = 3 lets the cursor hand out 0 and 1, after which the scan is used. Two nodes let an append come while the receiver is mid-dequeue of a non-empty queue. `minimsg_safety` starts with the port not yet created, so creation and every later step are covered. The receiver keeps the bound port it gets and may later destroy it, as a caller would. `minimsg_liveness` has 3 datagrams and 2 port numbers. Fairness makes the state graph costly, and three arrivals already bring an arrival while the receiver is blocked, one while it is inside the dequeue, and one while it is creating its reply port.

- **Minisocket.** `minisocket_stream` has one sender on the client and one receiver on the server. It sends two messages of two one-byte chunks, so the next-chunk loop and a second call are both reached, with two attempts per chunk, and the sender closes after it. `minisocket_close` has a sender on each end and a receiver on the server, one one-byte message each, one attempt per chunk and per FIN, a lossy network and a failing transport. This is the smallest setting where timeouts, exhaustion, FIN, linger and the not-OPEN queueing all happen, at 1.1M states. `MaxQueue` bounds the packets a socket queues. `MaxSeq` (8 and 4) lies above every `seq_number` the sends and FIN retries reach, and cuts only the endless loop above.

- **AlarmRegister.** One unmasked caller and one sleeper, with delays of 100 and 200 ms (1 and 2 ticks). This is the least that puts a late deadline ahead of a sound one. Deadlines are relative to the clock, so no counter needs a bound.

- **Connect.** Two nodes, each typing a `C` command to the other, so that two connections race; up to 3 entries per node, 3 TCP connections and 1 link failure. The third connection and the failure are what let a broken outgoing connection be retried and meet the peer's own reconnection (the defunct branch); entries are never reused, so 3 per node holds one outgoing, one incoming and one more. 1.24M states, about 80 seconds. The config's `VIEW ConnectView` leaves out the history `advertised`. Only `TypeOK` reads it, and that conjunct holds by construction, since no guard reads `advertised` and every update adds addresses.

- **UFS.** Eleven blocks: the superblock, one inode block for two inodes, one bitmap block of one byte (`BLOCK_SIZE` = 1, so 8 bits), and 8 data blocks. The formula `K / (1 + 8 * BLOCK_SIZE)` gives exactly one bitmap block. With one direct reference and two references per indirect block:
  - offset 0 is direct, 1 is single indirect and 3 double indirect;
  - writing the three offsets in two files needs 12 blocks, so the store fills up;
  - a write can need one, two or three new blocks, so allocation within one call is reached;
  - two files can share a freed block.

  The headers that fix `REFS_PER_INODE`, `REFS_PER_BLOCK` and `INODES_PER_BLOCK` are not in the repository, so these are constants.

- **Handshake.** `handshake` has two clients and the server on port 0, with client ports 1..2 and two server rounds. It allows one attempt per loop, over a lossy network. Two clients are the least that can meet a wrong-peer SYN, a FIN, a restart with a new peer and a port race. With two attempts each, the state space passes 2.6M states and does not finish. The violations also appear at these bounds.

### Fairness

The only fairness assumed is `[]<><<Tick>>_vars`: the timer interrupt keeps coming, whatever the CPU does. Tick is always enabled, and it changes `curr_level_quanta` whenever every `level_max_quanta` is at least 2, so this is weak fairness of Tick.

A sleeper that has been started also resumes if it gets the CPU infinitely often. This is strong fairness, because a tick may preempt it before it executes the return.

The idle loop, the reaper and the user program are assumed to do nothing in the Kernel runs.

The two minisocket liveness runs use `FairSpec`. It gives weak fairness to each thread's steps, as the Kernel's `NoStarvation` shows the scheduler provides. It also gives weak fairness to alarm firing, since the clock keeps ticking, and to a packet on the wire being delivered or lost. Loss is fair only jointly with delivery, so the network may keep dropping packets. The clock alone must keep runnable threads moving, and it does.

`AlarmRegister`'s `Spec` assumes only weak fairness of `Tick`, for the same reason.

`minimsg_liveness` uses Minimsg's `FairSpec`, which gives weak fairness to each thread's steps, on the same ground. A thread blocked on `data_ready` or on the mutex has no step until a V starts it, so weak fairness is enough. The network, `Ingress`, is not fair: it may deliver nothing more.

The Connect run checks safety only, and assumes no fairness.

The handshake run's `FairSpec` is the same: weak fairness to each thread, to each socket's alarms and to delivery-or-loss.

## Not modelled (yet)

Planned for later work, in this order:

1. **`minisocket.c`**: the out-of-memory exits, the parameter and PORTINUSE checks, and one model that runs the handshake into the data phase (the two modules meet at the OPEN state).
2. **`minimsg.c`**: `minimsg_send`, which only checks its arguments, packs a header and hands it to `network_send_pkt`, which is not in the repository. A send changes no state that `minimsg.c` keeps, and arrivals at the port are already any datagram at any time (`Ingress`).
3. **`P5/connect.c`**: the byte-level buffers. `file_info_send` and the partial-send path (whose `memmove` has its arguments swapped, line 679), and `add_input`'s line splitting (`index` on a buffer that is not NUL-terminated, line 606), are abstracted to whole hellos. Routing (`file_broadcast`'s buffers, `updateGraph`, `send_handler`, and what a received gossip does) depends on `gossip_received`, `set_dist`, `dijkstra` and the `nl_*` list, which are not in the repository, so it is not planned. Of `send_gossip`, only its neighbour list is modelled.
4. **`P6/ufsdisk.c`**: a store below that was used before. `setup_freebitmapblocks` zeroes blocks `next_free .. n_freebitmapblocks` (line 475), which is usually none of the bitmap blocks, so the bitmap would start with stale bits. `ufsdisk_destroy` only frees the handle.

Not planned:

- `common.c` is pure byte packing.
- The interrupt and network layers that `src/` calls are not in the repository.
