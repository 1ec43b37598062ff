----------------------------- MODULE Minisocket -----------------------------
(***************************************************************************)
(* minisocket.c after the handshake: one OPEN connection between a client *)
(* and a server socket, minisocket_send (stop and wait, one chunk per ACK  *)
(* packet, a retransmission alarm per attempt), minisocket_receive, and   *)
(* the ingress handler minisocket_handle_tcp_packet, over a network that  *)
(* may lose or duplicate packets.                                          *)
(*                                                                         *)
(* The handler runs in the network interrupt with interrupts masked, and  *)
(* an alarm's handler runs in clock_handler, masked too; both may come     *)
(* between any two steps of the threads.  A masked region or a semaphore  *)
(* operation is one step; the unmasked statements of send are steps of    *)
(* their own.  A byte is <<thread, call, index>>; a packet carries the     *)
(* bytes of one chunk.                                                    *)
(***************************************************************************)
EXTENDS Integers, Sequences, SequencesExt, FiniteSets, Semaphore

CONSTANTS
  Senders,      \* threads that call minisocket_send
  Receivers,    \* threads that call minisocket_receive
  Closers,      \* threads that call minisocket_close (a sender after its sends)
  ServerSide,   \* the threads that use the server's socket; the others the client's
  MsgLen,       \* len passed to each minisocket_send
  Frag,         \* fragment_length: payload bytes per packet
  MaxLen,       \* max_len passed to minisocket_receive
  MaxSends,     \* send calls per sender
  MaxAttempts,  \* attempts per chunk: wait = 100, 200, ... while <= 12800
  MaxQueue,     \* packets a socket's data queue may hold (duplicates)
  Loss,         \* the network may drop a packet
  Dup,          \* the network may deliver a packet more than once
  SendFails,    \* network_send_pkt may return -1
  MaxSeq        \* bound on seq_number: close's FIN loop need not end

Threads   == Senders \cup Receivers
Endpoints == {"client", "server"}
Peer(e)   == IF e = "client" THEN "server" ELSE "client"

\* The endpoint (client or server) each thread uses.
Home == [t \in Threads |-> IF t \in ServerSide THEN "server" ELSE "client"]

ASSUME /\ Senders \cap Receivers = {} /\ Closers \subseteq Threads
       /\ ServerSide \subseteq Threads
       /\ {MsgLen, Frag, MaxLen, MaxSends, MaxAttempts, MaxQueue, MaxSeq} \subseteq Nat \ {0}
       /\ Loss \in BOOLEAN /\ Dup \in BOOLEAN /\ SendFails \in BOOLEAN

VARIABLES
  state,          \* socket_state of each socket; "FREED" once freed
  linger,         \* the 15 s alarm that calls minisocket_close is pending
  seq, ack,       \* seq_number and ack_number of each socket
  ackflag,        \* ack_flag of each socket
  data,           \* each socket's data queue: the payloads queued
  dready, wfa,    \* data_ready and wait_for_ack of each socket
  mutex,          \* send_receive_mutex of each socket
  net,            \* packets in flight: [type, dst, seq, ack, pay]
  pc,             \* where each thread is
  calls,          \* send calls a sender has made
  sent,           \* sent_byte of the current send
  tl,             \* transfer_length of the current chunk
  hdr,            \* the header built for the current chunk: [seq, ack]
  att,            \* attempts made for the current chunk
  npend,          \* send alarms (V data_ready) of a thread not yet fired
  cpend,          \* close alarms (V wait_for_ack) of a thread not yet fired
  stream,         \* ghost: bytes each socket put on the wire, first time
  rcvd,           \* ghost: bytes minisocket_receive returned at each socket
  fault           \* "none", or the undefined behaviour that happened

sock == <<state, linger, seq, ack, ackflag, data, dready, wfa, mutex>>
thr  == <<calls, sent, tl, hdr, att, npend, cpend>>
vars == <<sock, net, pc, thr, stream, rcvd, fault>>

\* The bytes of chunk [from + 1 .. from + n] of call k of sender t.
Bytes(t, k, from, n) == [i \in 1 .. n |-> <<t, k, from + i>>]

\* The packet of thread t's current chunk.
ChunkPkt(t) ==
  [type |-> "ACK", dst |-> Peer(Home[t]), seq |-> hdr[t].seq, ack |-> hdr[t].ack,
   pay |-> Bytes(t, calls[t], sent[t], tl[t])]

\* The pc a thread blocked on semaphore sem resumes at once V'd.
ResumeAt(t, sem) ==
  CASE sem = "mutex"  -> IF pc[t] = "s_mwait" THEN "chunk" ELSE "r_data"
    [] sem = "wfa"    -> IF pc[t] = "c_wait" THEN "c_woke" ELSE "woke"
    [] sem = "dready" -> "r_got"

\* pc after V on semaphore s (named sem) wakes its first waiter, if any.
Wake(pcf, s, sem) ==
  IF SemVWakes(s) THEN [pcf EXCEPT ![SemWoken(s)] = ResumeAt(SemWoken(s), sem)]
  ELSE pcf

\* Thread t goes to there, and V on its socket's mutex wakes a waiter.
MutexV(t, there) ==
  /\ mutex' = [mutex EXCEPT ![Home[t]] = SemV(@)]
  /\ pc' = Wake([pc EXCEPT ![t] = there], mutex[Home[t]], "mutex")

-----------------------------------------------------------------------------
(* The sockets as the handshake leaves them: minisocket_client_create     *)
(* returns with seq 2, ack 1 and minisocket_server_create with seq 1, ack *)
(* 2; both drain their queue and reset data_ready to 0.  The client never *)
(* sets ack_flag (malloc'd memory): 2 stands for any value but 0 and 1.   *)
Init ==
  /\ state = [e \in Endpoints |-> "OPEN"]
  /\ linger = [e \in Endpoints |-> FALSE]
  /\ seq = [e \in Endpoints |-> IF e = "client" THEN 2 ELSE 1]
  /\ ack = [e \in Endpoints |-> IF e = "client" THEN 1 ELSE 2]
  /\ ackflag \in {f \in [Endpoints -> {0, 1, 2}] : f["server"] = 0}
  /\ data = [e \in Endpoints |-> <<>>]
  /\ dready = [e \in Endpoints |-> SemInit(0)]
  /\ wfa = [e \in Endpoints |-> SemInit(0)]
  /\ mutex = [e \in Endpoints |-> SemInit(1)]
  /\ net = {}
  /\ pc = [t \in Threads |-> "idle"]
  /\ calls = [t \in Threads |-> 0]
  /\ sent = [t \in Threads |-> 0]
  /\ tl = [t \in Threads |-> 0]
  /\ hdr = [t \in Threads |-> [seq |-> 0, ack |-> 0]]
  /\ att = [t \in Threads |-> 0]
  /\ npend = [t \in Threads |-> 0]
  /\ cpend = [t \in Threads |-> 0]
  /\ stream = [e \in Endpoints |-> <<>>]
  /\ rcvd = [e \in Endpoints |-> <<>>]
  /\ fault = "none"

\* Thread t moves from pc from to pc to.
Step(t, from, to) == pc[t] = from /\ pc' = [pc EXCEPT ![t] = to]

-----------------------------------------------------------------------------
(* minisocket_send by t: a socket that is CLOSED or CLOSING, or not OPEN, *)
(* fails at once; otherwise P on send_receive_mutex for the whole send.   *)
(* A call on a socket another thread's close has freed reads freed memory *)
(* (call_after_free).                                                     *)
SendStart(t) ==
  LET e == Home[t] IN
  /\ t \in Senders /\ pc[t] = "idle" /\ calls[t] < MaxSends
  /\ calls' = [calls EXCEPT ![t] = @ + 1]
  /\ CASE state[e] = "FREED" ->
            fault' = "call_after_free" /\ UNCHANGED <<mutex, pc, sent>>
       [] state[e] # "OPEN" ->
            UNCHANGED <<mutex, pc, sent, fault>>
       [] OTHER ->
            /\ mutex' = [mutex EXCEPT ![e] = SemP(@, t)]
            /\ pc' = [pc EXCEPT ![t] = IF SemPBlocks(mutex[e]) THEN "s_mwait" ELSE "chunk"]
            /\ sent' = [sent EXCEPT ![t] = 0]
            /\ UNCHANGED fault
  /\ UNCHANGED <<state, linger, seq, ack, ackflag, data, dready, wfa, net, tl, hdr, att,
                 npend, stream, rcvd, cpend>>

\* Faulty variant of ChunkStart: transfer_length is not capped at
\* fragment_length.
ChunkStartNoFrag(t) ==
  LET e == Home[t] IN
  /\ Step(t, "chunk", "send")
  /\ hdr' = [hdr EXCEPT ![t] = [seq |-> seq[e], ack |-> ack[e]]]
  /\ tl' = [tl EXCEPT ![t] = MsgLen - sent[t]]
  /\ att' = [att EXCEPT ![t] = 0]
  /\ UNCHANGED <<sock, net, calls, sent, npend, stream, rcvd, fault, cpend>>

\* Top of the do loop: wait = 100, the header with the current seq_number
\* and ack_number, and transfer_length.
ChunkStart(t) ==
  LET e == Home[t] IN
  /\ Step(t, "chunk", "send")
  /\ hdr' = [hdr EXCEPT ![t] = [seq |-> seq[e], ack |-> ack[e]]]
  /\ tl' = [tl EXCEPT ![t] = IF MsgLen - sent[t] > Frag THEN Frag ELSE MsgLen - sent[t]]
  /\ att' = [att EXCEPT ![t] = 0]
  /\ UNCHANGED <<sock, net, calls, sent, npend, stream, rcvd, fault, cpend>>

\* ack_flag = 0 and network_send_pkt of the chunk.  The chunk goes on the
\* wire, or the transport fails: seq_number still grows by the chunk, send
\* V's the mutex and returns.
SendPkt(t) ==
  LET e == Home[t] IN
  /\ pc[t] = "send"
  /\ ackflag' = [ackflag EXCEPT ![e] = 0]
  /\ \/ /\ net' = net \cup {ChunkPkt(t)}
        /\ stream' = IF att[t] = 0
                       THEN [stream EXCEPT ![e] = @ \o ChunkPkt(t).pay] ELSE stream
        /\ pc' = [pc EXCEPT ![t] = "inc"]
        /\ UNCHANGED mutex
        /\ UNCHANGED seq
     \/ /\ SendFails
        /\ seq' = [seq EXCEPT ![e] = @ + tl[t]]
        /\ MutexV(t, "idle")
        /\ UNCHANGED <<net, stream>>
  /\ UNCHANGED <<state, linger, ack, data, dready, wfa, thr, rcvd, fault>>

\* socket->seq_number += transfer_length, after the packet is out.
IncSeq(t) ==
  /\ Step(t, "inc", "arm")
  /\ seq' = [seq EXCEPT ![Home[t]] = @ + tl[t]]
  /\ UNCHANGED <<state, linger, ack, ackflag, data, dready, wfa, mutex, net, thr, stream,
                 rcvd, fault>>

\* Faulty variant of ArmAndWait: the chunk is counted as sent without
\* waiting for its ACK.
ArmAndWaitNoAck(t) ==
  /\ pc[t] = "arm"
  /\ sent' = [sent EXCEPT ![t] = @ + tl[t]]
  /\ pc' = [pc EXCEPT ![t] = "loop"]
  /\ UNCHANGED <<sock, net, calls, tl, hdr, att, npend, stream, rcvd, fault, cpend>>

\* register_alarm(wait, semaphore_V, data_ready), then P on wait_for_ack.
ArmAndWait(t) ==
  LET e == Home[t] IN
  /\ pc[t] = "arm"
  /\ npend' = [npend EXCEPT ![t] = @ + 1]
  /\ wfa' = [wfa EXCEPT ![e] = SemP(@, t)]
  /\ pc' = [pc EXCEPT ![t] = IF SemPBlocks(wfa[e]) THEN "w_wait" ELSE "woke"]
  /\ UNCHANGED <<state, linger, seq, ack, ackflag, data, dready, mutex, net, calls, sent,
                 tl, hdr, att, stream, rcvd, fault, cpend>>

(* After P on wait_for_ack: on CLOSED or CLOSING, return 0 (the mutex is   *)
(* kept).  Otherwise, masked: ack_flag 0 is taken for a timeout: wait     *)
(* doubles, seq_number goes back, the mutex is V'd, and the chunk is sent *)
(* again while wait <= 12800.  ack_flag 1: deregister_alarm of the alarm  *)
(* (already freed by clock_handler if it fired), sent_byte advances, the  *)
(* mutex is V'd.  No other value is possible: send set ack_flag to 0 and *)
(* only the handler changes it, to 1.                                     *)
SendWoke(t) ==
  LET e == Home[t] IN
  /\ pc[t] = "woke"
  /\ CASE state[e] \in {"CLOSED", "CLOSING"} ->
            /\ pc' = [pc EXCEPT ![t] = "idle"]
            /\ UNCHANGED <<seq, mutex, sent, att, npend, fault>>
       [] ackflag[e] = 0 ->
            /\ seq' = [seq EXCEPT ![e] = @ - tl[t]]
            /\ att' = [att EXCEPT ![t] = @ + 1]
            /\ MutexV(t, IF att[t] + 1 < MaxAttempts THEN "send" ELSE "exhausted")
            /\ UNCHANGED <<sent, npend, fault>>
       [] ackflag[e] = 1 ->
            /\ IF npend[t] > 0
                 THEN npend' = [npend EXCEPT ![t] = @ - 1] /\ UNCHANGED fault
                 ELSE fault' = "double_free" /\ UNCHANGED npend
            /\ sent' = [sent EXCEPT ![t] = @ + tl[t]]
            /\ MutexV(t, "loop")
            /\ UNCHANGED <<seq, att>>
  /\ UNCHANGED <<state, linger, ack, ackflag, data, dready, wfa, net, calls, tl, hdr,
                 stream, rcvd, cpend>>

\* while (sent_byte != len): the next chunk, or V on the mutex and return.
SendLoop(t) ==
  /\ pc[t] = "loop"
  /\ IF sent[t] # MsgLen
       THEN pc' = [pc EXCEPT ![t] = "chunk"] /\ UNCHANGED mutex
       ELSE MutexV(t, "idle")
  /\ UNCHANGED <<state, linger, seq, ack, ackflag, data, dready, wfa, net, thr, stream,
                 rcvd, fault>>

\* wait > 12800: V on the mutex and return the bytes sent (or -1).
SendExhausted(t) ==
  /\ pc[t] = "exhausted"
  /\ MutexV(t, "idle")
  /\ UNCHANGED <<state, linger, seq, ack, ackflag, data, dready, wfa, net, thr, stream,
                 rcvd, fault>>

-----------------------------------------------------------------------------
(* minisocket_receive by t on an OPEN socket: P on the mutex, then P on   *)
(* data_ready.                                                            *)
RecvStart(t) ==
  LET e == Home[t] IN
  /\ t \in Receivers /\ pc[t] = "idle" /\ state[e] \in {"OPEN", "FREED"}
  /\ IF state[e] = "FREED"
       THEN fault' = "call_after_free" /\ UNCHANGED <<mutex, pc>>
       ELSE /\ mutex' = [mutex EXCEPT ![e] = SemP(@, t)]
            /\ pc' = [pc EXCEPT ![t] = IF SemPBlocks(mutex[e]) THEN "r_mwait" ELSE "r_data"]
            /\ UNCHANGED fault
  /\ UNCHANGED <<state, linger, seq, ack, ackflag, data, dready, wfa, net, thr, stream,
                 rcvd>>

RecvData(t) ==
  LET e == Home[t] IN
  /\ pc[t] = "r_data"
  /\ dready' = [dready EXCEPT ![e] = SemP(@, t)]
  /\ pc' = [pc EXCEPT ![t] = IF SemPBlocks(dready[e]) THEN "r_dwait" ELSE "r_got"]
  /\ UNCHANGED <<state, linger, seq, ack, ackflag, data, wfa, mutex, net, thr, stream,
                 rcvd, fault>>

\* Faulty variant of RecvGot: the packet is copied but left on the queue.
RecvGotNoDequeue(t) ==
  LET e == Home[t] IN
  /\ pc[t] = "r_got"
  /\ CASE state[e] \in {"CLOSED", "CLOSING"} ->
            /\ pc' = [pc EXCEPT ![t] = "idle"]
            /\ UNCHANGED <<mutex, rcvd, fault>>
       [] data[e] = <<>> ->
            /\ fault' = "uninit_arg"
            /\ UNCHANGED <<mutex, pc, rcvd>>
       [] Head(data[e]) = <<>> ->
            /\ fault' = "assert_fail"
            /\ UNCHANGED <<mutex, pc, rcvd>>
       [] OTHER ->
            LET pay == Head(data[e])
                n   == IF Len(pay) > MaxLen THEN MaxLen ELSE Len(pay)
            IN  /\ rcvd' = [rcvd EXCEPT ![e] = @ \o SubSeq(pay, 1, n)]
                /\ MutexV(t, "idle")
                /\ UNCHANGED fault
  /\ UNCHANGED <<state, linger, seq, ack, ackflag, data, dready, wfa, net, thr, stream>>

(* After P on data_ready: on CLOSED or CLOSING, return 0 (the mutex is    *)
(* kept).  Otherwise queue_dequeue; an empty queue leaves arg unset and   *)
(* arg->size reads garbage; a packet with no payload (queued raw while   *)
(* the socket was not OPEN) fails assert(msg_len > 0).  min(msg_len,     *)
(* max_len) bytes are copied; the remainder is re-queued only if         *)
(* copy_len > max_len, which never holds.                                 *)
(* V on the mutex.                                                        *)
RecvGot(t) ==
  LET e == Home[t] IN
  /\ pc[t] = "r_got"
  /\ CASE state[e] \in {"CLOSED", "CLOSING"} ->
            /\ pc' = [pc EXCEPT ![t] = "idle"]
            /\ UNCHANGED <<data, mutex, rcvd, fault>>
       [] data[e] = <<>> ->
            /\ fault' = "uninit_arg"
            /\ UNCHANGED <<data, mutex, pc, rcvd>>
       [] Head(data[e]) = <<>> ->
            /\ fault' = "assert_fail"
            /\ UNCHANGED <<data, mutex, pc, rcvd>>
       [] OTHER ->
            LET pay == Head(data[e])
                n   == IF Len(pay) > MaxLen THEN MaxLen ELSE Len(pay)
            IN  /\ data' = [data EXCEPT ![e] = Tail(@)]
                /\ rcvd' = [rcvd EXCEPT ![e] = @ \o SubSeq(pay, 1, n)]
                /\ MutexV(t, "idle")
                /\ UNCHANGED fault
  /\ UNCHANGED <<state, linger, seq, ack, ackflag, dready, wfa, net, thr, stream>>

-----------------------------------------------------------------------------
\* Faulty variant of HandleAck: ack_number also counts one byte of header.
HandleAckCountsHeader(p, e) ==
  LET has   == p.pay # <<>>
      flag0 == ackflag[e] = 0
      pc1   == IF has THEN Wake(pc, dready[e], "dready") ELSE pc
  IN  IF p.ack # seq[e]
        THEN UNCHANGED <<sock, pc>>
        ELSE /\ data' = IF has THEN [data EXCEPT ![e] = Append(@, p.pay)] ELSE data
             /\ dready' = IF has THEN [dready EXCEPT ![e] = SemV(@)] ELSE dready
             /\ ack' = IF has THEN [ack EXCEPT ![e] = @ + Len(p.pay) + 1] ELSE ack
             /\ ackflag' = IF flag0 THEN [ackflag EXCEPT ![e] = 1] ELSE ackflag
             /\ wfa' = IF flag0 THEN [wfa EXCEPT ![e] = SemV(@)] ELSE wfa
             /\ pc' = IF flag0 THEN Wake(pc1, wfa[e], "wfa") ELSE pc1
             /\ UNCHANGED <<state, linger, seq, mutex>>

(* minisocket_handle_tcp_packet for an ACK-typed packet p on an OPEN       *)
(* socket e: it is taken when its ack number equals seq_number.  Payload *)
(* is appended to the data queue with V on data_ready, ack_number grows   *)
(* by its size and a bare ACK is sent back; then, if ack_flag is 0, it is *)
(* set to 1 with V on wait_for_ack.  The result is the set of replies.    *)
HandleAck(p, e) ==
  LET has   == p.pay # <<>>
      flag0 == ackflag[e] = 0
      pc1   == IF has THEN Wake(pc, dready[e], "dready") ELSE pc
  IN  IF p.ack # seq[e]
        THEN UNCHANGED <<sock, pc>>
        ELSE /\ data' = IF has THEN [data EXCEPT ![e] = Append(@, p.pay)] ELSE data
             /\ dready' = IF has THEN [dready EXCEPT ![e] = SemV(@)] ELSE dready
             /\ ack' = IF has THEN [ack EXCEPT ![e] = @ + Len(p.pay)] ELSE ack
             /\ ackflag' = IF flag0 THEN [ackflag EXCEPT ![e] = 1] ELSE ackflag
             /\ wfa' = IF flag0 THEN [wfa EXCEPT ![e] = SemV(@)] ELSE wfa
             /\ pc' = IF flag0 THEN Wake(pc1, wfa[e], "wfa") ELSE pc1
             /\ UNCHANGED <<state, linger, seq, mutex>>

\* The bare ACK that HandleAck sends back for p, if any.
AckReply(p, e) ==
  IF p.ack = seq[e] /\ p.pay # <<>>
    THEN {[type |-> "ACK", dst |-> Peer(e), seq |-> seq[e],
           ack |-> ack[e] + Len(p.pay), pay |-> <<>>]}
    ELSE {}

(* minisocket_handle_tcp_packet for a FIN on an OPEN socket e: ack_number *)
(* + 1, an ACK back, CLOSING, V on data_ready while its count is negative *)
(* (every waiting receiver is started), and a 15 s alarm that will call  *)
(* minisocket_close on the socket.                                       *)
HandleFin(p, e) ==
  /\ ack' = [ack EXCEPT ![e] = @ + 1]
  /\ state' = [state EXCEPT ![e] = "CLOSING"]
  /\ dready' = [dready EXCEPT ![e] = IF @.count < 0 THEN SemInit(0) ELSE @]
  /\ pc' = [t \in Threads |-> IF t \in Range(dready[e].wait_list) THEN "r_got" ELSE pc[t]]
  /\ linger' = [linger EXCEPT ![e] = TRUE]
  /\ UNCHANGED <<seq, ackflag, data, wfa, mutex>>

\* The ACK that HandleFin sends back for p.
FinReply(p, e) ==
  {[type |-> "ACK", dst |-> Peer(e), seq |-> seq[e], ack |-> ack[e] + 1, pay |-> <<>>]}

(* network_handler passes packet p to minisocket_handle_tcp_packet: a    *)
(* socket that is INITIAL or CLOSED, or freed (ports[] is NULL), drops it; one that is not OPEN (in a  *)
(* handshake) queues it raw with V on data_ready.  The network keeps a    *)
(* copy when it may duplicate.                                           *)
Deliver(p) ==
  LET e == p.dst IN
  /\ Len(data[e]) < MaxQueue
  /\ CASE state[e] \in {"INITIAL", "CLOSED", "FREED"} ->
            /\ net' = IF Dup THEN net ELSE net \ {p}
            /\ UNCHANGED <<sock, pc>>
       [] state[e] # "OPEN" ->
            /\ net' = IF Dup THEN net ELSE net \ {p}
            /\ data' = [data EXCEPT ![e] = Append(@, p.pay)]
            /\ dready' = [dready EXCEPT ![e] = SemV(@)]
            /\ pc' = Wake(pc, dready[e], "dready")
            /\ UNCHANGED <<state, linger, seq, ack, ackflag, wfa, mutex>>
       [] p.type = "FIN" ->
            /\ net' = (IF Dup THEN net ELSE net \ {p}) \cup FinReply(p, e)
            /\ HandleFin(p, e)
       [] OTHER ->
            /\ net' = (IF Dup THEN net ELSE net \ {p}) \cup AckReply(p, e)
            /\ HandleAck(p, e)
  /\ UNCHANGED <<thr, stream, rcvd, fault>>

\* The network drops packet p.
Lose(p) ==
  /\ Loss
  /\ net' = net \ {p}
  /\ UNCHANGED <<sock, pc, thr, stream, rcvd, fault>>

\* clock_handler fires the oldest pending send alarm of t: semaphore_V on
\* data_ready of t's socket (and frees the alarm).  The socket may have
\* been freed by close.
Timer(t) ==
  LET e == Home[t] IN
  /\ npend[t] > 0
  /\ npend' = [npend EXCEPT ![t] = @ - 1]
  /\ IF state[e] = "FREED"
       THEN fault' = "use_after_free" /\ UNCHANGED <<dready, pc>>
       ELSE /\ dready' = [dready EXCEPT ![e] = SemV(@)]
            /\ pc' = Wake(pc, dready[e], "dready")
            /\ UNCHANGED fault
  /\ UNCHANGED <<state, linger, seq, ack, ackflag, data, wfa, mutex, net, calls, sent, tl,
                 hdr, att, stream, rcvd, cpend>>

\* clock_handler fires a pending close alarm of t: semaphore_V on
\* wait_for_ack of t's socket.
CloseTimer(t) ==
  LET e == Home[t] IN
  /\ cpend[t] > 0
  /\ cpend' = [cpend EXCEPT ![t] = @ - 1]
  /\ IF state[e] = "FREED"
       THEN fault' = "use_after_free" /\ UNCHANGED <<wfa, pc>>
       ELSE /\ wfa' = [wfa EXCEPT ![e] = SemV(@)]
            /\ pc' = Wake(pc, wfa[e], "wfa")
            /\ UNCHANGED fault
  /\ UNCHANGED <<state, linger, seq, ack, ackflag, data, dready, mutex, net, calls, sent,
                 tl, hdr, att, npend, stream, rcvd>>

(* The linger alarm calls minisocket_close(socket) from clock_handler:   *)
(* a CLOSING socket goes to WAITING_SYN, a CLOSED one is freed.  Any     *)
(* other socket would run the FIN loop, which blocks on wait_for_ack,    *)
(* inside the clock interrupt.                                            *)
Linger(e) ==
  /\ linger[e]
  /\ linger' = [linger EXCEPT ![e] = FALSE]
  /\ CASE state[e] = "CLOSING" ->
            state' = [state EXCEPT ![e] = "WAITING_SYN"] /\ UNCHANGED fault
       [] state[e] = "CLOSED" ->
            state' = [state EXCEPT ![e] = "FREED"] /\ UNCHANGED fault
       [] state[e] = "FREED" ->
            fault' = "use_after_free" /\ UNCHANGED state
       [] OTHER ->
            fault' = "close_in_interrupt" /\ UNCHANGED state
  /\ UNCHANGED <<seq, ack, ackflag, data, dready, wfa, mutex, net, pc, thr, stream,
                 rcvd>>

-----------------------------------------------------------------------------
(* minisocket_close by t: CLOSING becomes WAITING_SYN and CLOSED is freed *)
(* at once; otherwise the FIN loop starts with wait = 100.  A sender     *)
(* closes after its last send.                                           *)
CloseStart(t) ==
  LET e == Home[t] IN
  /\ t \in Closers /\ pc[t] = "idle"
  /\ t \in Senders => calls[t] = MaxSends
  /\ att' = [att EXCEPT ![t] = 0]
  /\ CASE state[e] = "FREED" ->
            fault' = "call_after_free" /\ UNCHANGED <<state, pc>>
       [] state[e] = "CLOSING" ->
            /\ state' = [state EXCEPT ![e] = "WAITING_SYN"]
            /\ pc' = [pc EXCEPT ![t] = "done"]
            /\ UNCHANGED fault
       [] state[e] = "CLOSED" ->
            /\ state' = [state EXCEPT ![e] = "FREED"]
            /\ pc' = [pc EXCEPT ![t] = "done"]
            /\ UNCHANGED fault
       [] OTHER ->
            pc' = [pc EXCEPT ![t] = "c_send"] /\ UNCHANGED <<state, fault>>
  /\ UNCHANGED <<linger, seq, ack, ackflag, data, dready, wfa, mutex, net, calls, sent,
                 tl, hdr, npend, cpend, stream, rcvd>>

\* send_control_message(MSG_FIN, ..., seq_number, ack_number).  With an
\* ack_flag neither 0 nor 1 the loop never ends; MaxSeq stops it.
CloseFin(t) ==
  LET e == Home[t] IN
  /\ seq[e] < MaxSeq
  /\ Step(t, "c_send", "c_inc")
  /\ net' = net \cup {[type |-> "FIN", dst |-> Peer(e), seq |-> seq[e], ack |-> ack[e],
                        pay |-> <<>>]}
  /\ UNCHANGED <<sock, thr, stream, rcvd, fault>>

\* socket->seq_number += 1.
CloseInc(t) ==
  /\ Step(t, "c_inc", "c_arm")
  /\ seq' = [seq EXCEPT ![Home[t]] = @ + 1]
  /\ UNCHANGED <<state, linger, ack, ackflag, data, dready, wfa, mutex, net, thr,
                 stream, rcvd, fault>>

\* register_alarm(wait_val, semaphore_V, wait_for_ack), P on wait_for_ack.
CloseArm(t) ==
  LET e == Home[t] IN
  /\ pc[t] = "c_arm"
  /\ cpend' = [cpend EXCEPT ![t] = @ + 1]
  /\ wfa' = [wfa EXCEPT ![e] = SemP(@, t)]
  /\ pc' = [pc EXCEPT ![t] = IF SemPBlocks(wfa[e]) THEN "c_wait" ELSE "c_woke"]
  /\ UNCHANGED <<state, linger, seq, ack, ackflag, data, dready, mutex, net, calls,
                 sent, tl, hdr, att, npend, stream, rcvd, fault>>

\* Faulty variant of CloseWoke: the FIN is resent with no bound on wait.
CloseWokeNoLimit(t) ==
  LET e == Home[t] IN
  /\ pc[t] = "c_woke"
  /\ CASE ackflag[e] = 0 ->
            /\ seq' = [seq EXCEPT ![e] = @ - 1]
            /\ att' = [att EXCEPT ![t] = @ + 1]
            /\ pc' = [pc EXCEPT ![t] = "c_send"]
            /\ UNCHANGED <<state, cpend, fault>>
       [] ackflag[e] = 1 ->
            /\ IF cpend[t] > 0
                 THEN cpend' = [cpend EXCEPT ![t] = @ - 1] /\ UNCHANGED fault
                 ELSE fault' = "close_double_free" /\ UNCHANGED cpend
            /\ state' = [state EXCEPT ![e] = "FREED"]
            /\ pc' = [pc EXCEPT ![t] = "done"]
            /\ UNCHANGED <<seq, att>>
       [] OTHER ->
            pc' = [pc EXCEPT ![t] = "c_send"] /\ UNCHANGED <<seq, state, att, cpend, fault>>
  /\ UNCHANGED <<linger, ack, ackflag, data, dready, wfa, mutex, net, calls, sent, tl,
                 hdr, npend, stream, rcvd>>

(* Masked, after P on wait_for_ack: ack_flag 0 is a timeout: wait doubles *)
(* and seq_number goes back.  ack_flag 1 (which close never resets):      *)
(* deregister_alarm of the alarm, then minisocket_free of the socket.    *)
CloseWoke(t) ==
  LET e == Home[t] IN
  /\ pc[t] = "c_woke"
  /\ CASE ackflag[e] = 0 ->
            /\ seq' = [seq EXCEPT ![e] = @ - 1]
            /\ att' = [att EXCEPT ![t] = @ + 1]
            /\ pc' = [pc EXCEPT ![t] = IF att[t] + 1 < MaxAttempts THEN "c_send" ELSE "c_exh"]
            /\ UNCHANGED <<state, cpend, fault>>
       [] ackflag[e] = 1 ->
            /\ IF cpend[t] > 0
                 THEN cpend' = [cpend EXCEPT ![t] = @ - 1] /\ UNCHANGED fault
                 ELSE fault' = "close_double_free" /\ UNCHANGED cpend
            /\ state' = [state EXCEPT ![e] = "FREED"]
            /\ pc' = [pc EXCEPT ![t] = "done"]
            /\ UNCHANGED <<seq, att>>
       [] OTHER ->
            pc' = [pc EXCEPT ![t] = "c_send"] /\ UNCHANGED <<seq, state, att, cpend, fault>>
  /\ UNCHANGED <<linger, ack, ackflag, data, dready, wfa, mutex, net, calls, sent, tl,
                 hdr, npend, stream, rcvd>>

\* The FIN budget is spent: semaphore_V on send_receive_mutex, return.
CloseExhausted(t) ==
  /\ pc[t] = "c_exh"
  /\ MutexV(t, "done")
  /\ UNCHANGED <<state, linger, seq, ack, ackflag, data, dready, wfa, net, thr, stream,
                 rcvd, fault>>

-----------------------------------------------------------------------------
ThreadStep(t) ==
  \/ SendStart(t) \/ ChunkStart(t) \/ SendPkt(t) \/ IncSeq(t) \/ ArmAndWait(t)
  \/ SendWoke(t) \/ SendLoop(t) \/ SendExhausted(t)
  \/ RecvStart(t) \/ RecvData(t) \/ RecvGot(t)
  \/ CloseStart(t) \/ CloseFin(t) \/ CloseInc(t) \/ CloseArm(t) \/ CloseWoke(t)
  \/ CloseExhausted(t)

\* After undefined behaviour the model stops.
Next ==
  /\ fault = "none"
  /\ \/ \E t \in Threads : ThreadStep(t) \/ Timer(t) \/ CloseTimer(t)
     \/ \E e \in Endpoints : Linger(e)
     \/ \E p \in net : Deliver(p) \/ Lose(p)

Spec == Init /\ [][Next]_vars

(* Every runnable thread gets the CPU (Kernel's NoStarvation), a packet on *)
(* the wire is eventually delivered or lost, and a pending alarm fires     *)
(* once its deadline's tick comes.                                         *)
Fairness ==
  /\ \A t \in Threads : WF_vars(ThreadStep(t)) /\ WF_vars(Timer(t)) /\ WF_vars(CloseTimer(t))
  /\ \A e \in Endpoints : WF_vars(Linger(e))
  /\ WF_vars(\E p \in net : Deliver(p) \/ Lose(p))

FairSpec == Spec /\ Fairness

-----------------------------------------------------------------------------
Packets ==
  [type : {"ACK", "FIN"}, dst : Endpoints, seq : Nat, ack : Nat,
   pay : Seq(Threads \X Nat \X Nat)]

TypeOK ==
  /\ state \in [Endpoints -> {"OPEN", "CLOSING", "WAITING_SYN", "CLOSED", "FREED"}]
  /\ linger \in [Endpoints -> BOOLEAN]
  /\ seq \in [Endpoints -> Nat] /\ ack \in [Endpoints -> Nat]
  /\ ackflag \in [Endpoints -> {0, 1, 2}]
  /\ net \subseteq Packets
  /\ pc \in [Threads -> {"idle", "s_mwait", "chunk", "send", "inc", "arm", "w_wait",
                         "woke", "loop", "exhausted", "r_mwait", "r_data",
                         "r_dwait", "r_got", "c_send", "c_inc", "c_arm", "c_wait",
                         "c_woke", "c_exh", "done"}]
  /\ sent \in [Threads -> 0 .. MsgLen] /\ tl \in [Threads -> 0 .. Frag]
  /\ att \in [Threads -> 0 .. MaxAttempts]
  /\ npend \in [Threads -> 0 .. MaxSends * MsgLen * MaxAttempts]
  /\ cpend \in [Threads -> 0 .. MaxAttempts]
  /\ fault \in {"none", "double_free", "close_double_free", "uninit_arg",
                "use_after_free", "call_after_free", "close_in_interrupt", "assert_fail"}

\* The data packets from socket e in flight.
DataInFlight(e) == {p \in net : p.dst = Peer(e) /\ p.pay # <<>>}

(* Bytestream order (spec section 8): the bytes minisocket_receive returns *)
(* at one end are a prefix of the bytes minisocket_send put on the wire at *)
(* the other, with nothing lost, repeated or reordered.                   *)
StreamOrder == \A e \in Endpoints : IsPrefix(rcvd[Peer(e)], stream[e])

(* At most one chunk in flight (spec section 8): the data packets of a     *)
(* socket on the wire all carry the same chunk; send waits for the ACK of *)
(* one chunk before it transmits the next.                                 *)
OneChunkInFlight == \A e \in Endpoints : Cardinality({p.pay : p \in DataInFlight(e)}) <= 1

(* The sequence numbers of the two ends agree: whenever a sender is        *)
(* between chunks and none of its data is on the wire, its seq_number is  *)
(* the ack_number of the other end.  The handler must advance ack_number  *)
(* by exactly what it queued, and send must undo its own increment when it *)
(* retransmits.                                                           *)
SeqAckAgree ==
  \A t \in Senders :
    (pc[t] \in {"idle", "chunk"} /\ DataInFlight(Home[t]) = {})
      => seq[Home[t]] = ack[Peer(Home[t])]

(* minisocket_send returns: a call that has started eventually comes back *)
(* to its caller, with the data acknowledged or an error.                 *)
SendReturns == \A t \in Senders : pc[t] # "idle" ~> pc[t] = "idle"

\* Thread t waits for the ACK of a chunk that is no longer on the wire and
\* that the other end has not taken.
ChunkLost(t) ==
  /\ pc[t] = "w_wait"
  /\ ChunkPkt(t) \notin net
  /\ ack[Peer(Home[t])] = hdr[t].seq
  /\ att[t] + 1 < MaxAttempts

(* Retransmission (spec 4.5, send): a chunk lost on the wire, while its    *)
(* attempt budget is not spent, is sent again when the retransmission     *)
(* alarm registered for it fires.  A send that gives up after the last    *)
(* attempt (lines 398-402) does not violate it.                           *)
Retransmits == \A t \in Senders : ChunkLost(t) ~> ChunkPkt(t) \in net

(* deregister_alarm is never called on an alarm that clock_handler has    *)
(* already fired and freed.                                               *)
NoDoubleFree == fault # "double_free"

(* minisocket_close frees the socket only through an alarm it still owns: *)
(* it never deregisters a FIN alarm that clock_handler has fired and     *)
(* freed.                                                                 *)
NoCloseDoubleFree == fault # "close_double_free"

(* send_receive_mutex stays a mutex: its count never goes above 1, so at  *)
(* most one send or receive runs on a socket at a time.                   *)
MutexBinary == \A e \in Endpoints : mutex[e].count <= 1

(* minisocket_receive dequeues a packet only after data_ready was V'd for *)
(* one: it never finds the data queue empty and reads an unset arg.       *)
NoUninitArg == fault # "uninit_arg"

(* No alarm outlives its socket: clock_handler never V's a semaphore of a *)
(* socket minisocket_free has destroyed, and the linger alarm never closes *)
(* a freed socket.                                                         *)
NoUseAfterFree == fault # "use_after_free"

(* The linger alarm's minisocket_close only moves a CLOSING socket on: it *)
(* never has to run the FIN loop, which blocks on wait_for_ack, inside     *)
(* the clock interrupt.                                                    *)
NoCloseInInterrupt == fault # "close_in_interrupt"
=============================================================================
