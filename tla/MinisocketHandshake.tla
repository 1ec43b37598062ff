------------------------ MODULE MinisocketHandshake ------------------------
(***************************************************************************)
(* minisocket.c up to OPEN: minisocket_server_create (wait for a SYN, then *)
(* resend SYNACK with a doubling alarm until the peer's ACK comes, or      *)
(* start over), minisocket_client_create (pick a client port, resend SYN  *)
(* until SYNACK or FIN), minisocket_free, and the part of                  *)
(* minisocket_handle_tcp_packet the handshake meets, over a network that  *)
(* may lose packets.                                                       *)
(*                                                                         *)
(* One thread runs server_create on port SrvPort; each client thread      *)
(* creates one socket, named after the thread.  The handler and the alarm *)
(* handler run masked between any two steps of the threads; a masked      *)
(* region, a semaphore operation or a run of unmasked statements that    *)
(* touch nothing the handler touches is one step.  queue_dequeue is taken *)
(* as atomic (its race with queue_append is Minimsg's).  A packet is its  *)
(* type, ports and ack number; the hosts are one address, so a peer is    *)
(* told apart by its port.                                                 *)
(***************************************************************************)
EXTENDS Integers, Sequences, FiniteSets, FiniteSetsExt, Semaphore

CONSTANTS
  Clients,      \* threads that call minisocket_client_create
  SrvPort,      \* port of minisocket_server_create and of client_create
  MinClient,    \* MIN_CLIENT_PORT: ports below it are server ports
  MaxClient,    \* MAX_CLIENT_PORT
  MaxAttempts,  \* wait_val = 100, 200, ... while <= 12800
  MaxRounds,    \* starts of server_create's outer while (1)
  MaxQueue,     \* packets a socket's data queue may hold
  Loss          \* the network may drop a packet

Srv     == "server"
Sockets == Clients \cup {Srv}
Ports   == 0 .. MaxClient
NoPort  == -1
NoSock  == "none"

ASSUME /\ Srv \notin Clients
       /\ {SrvPort, MinClient, MaxClient} \subseteq Nat /\ SrvPort < MinClient
       /\ MinClient <= MaxClient
       /\ {MaxAttempts, MaxRounds, MaxQueue} \subseteq Nat \ {0} /\ Loss \in BOOLEAN

VARIABLES
  state,    \* socket_state; "NONE" before client_create mallocs, "FREED" after free
  lport,    \* local_port
  rport,    \* remote_port
  ackflag,  \* ack_flag: set to 0 by server_create, never by client_create (2)
  ports,    \* ports[]: the socket bound to each port
  ncp,      \* n_client_ports, the cursor of client port allocation
  pval,     \* port_val chosen by each client thread
  data,     \* each socket's data queue: packets queued raw
  dready,   \* data_ready of each socket
  net,      \* packets in flight
  pc,       \* where each thread (server: Srv) is
  att,      \* doublings of wait_val in the current retransmission loop
  cur,      \* the alarm registered last by the thread has neither fired nor
            \* been deregistered
  stale,    \* earlier alarms of the thread that are still pending
  rounds,   \* starts of the server's outer loop
  fault     \* "none", or the undefined behaviour that happened

vars == <<state, lport, rport, ackflag, ports, ncp, pval, data, dready, net, pc, att,
          cur, stale, rounds, fault>>

\* A packet as create_control_header builds it.
Pkt(type, sport, dport, ack) == [type |-> type, sport |-> sport, dport |-> dport, ack |-> ack]

\* seq_number each side has once OPEN.
OpenSeq(s) == IF s = Srv THEN 1 ELSE 2
OpenAck(s) == IF s = Srv THEN 2 ELSE 1

\* The pc a thread blocked on data_ready resumes at.
ResumeAt(at) ==
  CASE at = "s_w1" -> "s_deq1" [] at = "s_w2" -> "s_check" [] OTHER -> "c_check"

\* V on data_ready of socket s: the count grows and the first waiter runs.
DreadyV(s) ==
  /\ dready' = [dready EXCEPT ![s] = SemV(@)]
  /\ pc' = IF SemVWakes(dready[s])
             THEN [pc EXCEPT ![SemWoken(dready[s])] = ResumeAt(@)] ELSE pc

Init ==
  /\ state = [s \in Sockets |-> IF s = Srv THEN "INITIAL" ELSE "NONE"]
  /\ lport = [s \in Sockets |-> IF s = Srv THEN SrvPort ELSE NoPort]
  /\ rport = [s \in Sockets |-> NoPort]
  /\ ackflag = [s \in Sockets |-> IF s = Srv THEN 0 ELSE 2]
  /\ ports = [p \in Ports |-> IF p = SrvPort THEN Srv ELSE NoSock]
  /\ ncp = MinClient
  /\ pval = [c \in Clients |-> NoPort]
  /\ data = [s \in Sockets |-> <<>>]
  /\ dready = [s \in Sockets |-> SemInit(0)]
  /\ net = {}
  /\ pc = [s \in Sockets |-> IF s = Srv THEN "s_round" ELSE "c_port"]
  /\ att = [s \in Sockets |-> 0]
  /\ cur = [s \in Sockets |-> FALSE]
  /\ stale = [s \in Sockets |-> 0]
  /\ rounds = 0
  /\ fault = "none"

\* Thread s moves from pc from to pc to.
Step(s, from, to) == pc[s] = from /\ pc' = [pc EXCEPT ![s] = to]

\* register_alarm(wait_val, semaphore_V, data_ready), then P on data_ready;
\* the alarm registered before it, if still pending, becomes stale.
ArmAndP(s, go, wait) ==
  /\ stale' = [stale EXCEPT ![s] = @ + (IF cur[s] THEN 1 ELSE 0)]
  /\ cur' = [cur EXCEPT ![s] = TRUE]
  /\ dready' = [dready EXCEPT ![s] = SemP(@, s)]
  /\ pc' = [pc EXCEPT ![s] = IF SemPBlocks(dready[s]) THEN wait ELSE go]

\* Masked, after P: deregister_alarm(a) if the queue holds a packet.  An
\* alarm that went off was freed by clock_handler already.
CheckQueue(s, next) ==
  /\ Step(s, IF s = Srv THEN "s_check" ELSE "c_check", next)
  /\ IF data[s] = <<>>
       THEN UNCHANGED <<cur, fault>>
     ELSE IF cur[s]
       THEN cur' = [cur EXCEPT ![s] = FALSE] /\ UNCHANGED fault
       ELSE fault' = "double_free" /\ UNCHANGED cur
  /\ UNCHANGED <<state, lport, rport, ackflag, ports, ncp, pval, data, dready, net, att,
                 stale, rounds>>

\* Drain the queue and semaphore_initialize(data_ready, 0), then OPEN.
Open(s) ==
  /\ data' = [data EXCEPT ![s] = <<>>]
  /\ dready' = [dready EXCEPT ![s] = SemInit(0)]
  /\ state' = [state EXCEPT ![s] = "OPEN"]

\* minisocket_free: drain and free the queue, destroy the semaphores,
\* ports[local_port] = NULL, free the socket.
Free(s) ==
  /\ data' = [data EXCEPT ![s] = <<>>]
  /\ ports' = [ports EXCEPT ![lport[s]] = NoSock]
  /\ state' = [state EXCEPT ![s] = "FREED"]

-----------------------------------------------------------------------------
(* minisocket_server_create, top of while (1): seq and ack 0, no remote, *)
(* WAITING_SYN.                                                           *)
ServerRound ==
  /\ rounds < MaxRounds
  /\ Step(Srv, "s_round", "s_p1")
  /\ rounds' = rounds + 1
  /\ rport' = [rport EXCEPT ![Srv] = NoPort]
  /\ state' = [state EXCEPT ![Srv] = "WAITING_SYN"]
  /\ UNCHANGED <<lport, ackflag, ports, ncp, pval, data, dready, net, att, cur, stale,
                 fault>>

\* semaphore_P(data_ready) in the SYN loop.
ServerWaitSyn ==
  /\ pc[Srv] = "s_p1"
  /\ dready' = [dready EXCEPT ![Srv] = SemP(@, Srv)]
  /\ pc' = [pc EXCEPT ![Srv] = IF SemPBlocks(dready[Srv]) THEN "s_w1" ELSE "s_deq1"]
  /\ UNCHANGED <<state, lport, rport, ackflag, ports, ncp, pval, data, net, att, cur,
                 stale, rounds, fault>>

(* queue_dequeue and arg->buffer: an empty queue leaves arg NULL, which   *)
(* is dereferenced.  A SYN sets the remote port and WAITING_ACK and the   *)
(* SYNACK loop starts with wait_val 100; anything else is freed.          *)
ServerGotSyn ==
  /\ pc[Srv] = "s_deq1"
  /\ IF data[Srv] = <<>>
       THEN fault' = "null_deref" /\ UNCHANGED <<state, rport, data, pc, att>>
       ELSE LET p == Head(data[Srv]) IN
            /\ data' = [data EXCEPT ![Srv] = Tail(@)]
            /\ IF p.type = "SYN"
                 THEN /\ rport' = [rport EXCEPT ![Srv] = p.sport]
                      /\ state' = [state EXCEPT ![Srv] = "WAITING_ACK"]
                      /\ att' = [att EXCEPT ![Srv] = 0]
                      /\ pc' = [pc EXCEPT ![Srv] = "s_synack"]
                 ELSE /\ pc' = [pc EXCEPT ![Srv] = "s_p1"]
                      /\ UNCHANGED <<state, rport, att>>
            /\ UNCHANGED fault
  /\ UNCHANGED <<lport, ackflag, ports, ncp, pval, dready, net, cur, stale, rounds>>

(* while (wait_val <= 12800): SYNACK (seq 0, ack 1) to the remote, the    *)
(* alarm and P on data_ready; past the budget, start over.                *)
ServerSynack ==
  /\ pc[Srv] = "s_synack"
  /\ IF att[Srv] < MaxAttempts
       THEN /\ net' = net \cup {Pkt("SYNACK", SrvPort, rport[Srv], 1)}
            /\ ArmAndP(Srv, "s_check", "s_w2")
       ELSE /\ pc' = [pc EXCEPT ![Srv] = "s_round"]
            /\ UNCHANGED <<net, dready, cur, stale>>
  /\ UNCHANGED <<state, lport, rport, ackflag, ports, ncp, pval, data, att, rounds, fault>>

ServerCheck == CheckQueue(Srv, "s_test")

\* Faulty variant of ServerTest: an ACK from any port completes the
\* handshake.
ServerTestAnyPeer ==
  /\ pc[Srv] = "s_test"
  /\ IF data[Srv] = <<>>
       THEN /\ att' = [att EXCEPT ![Srv] = @ + 1]
            /\ pc' = [pc EXCEPT ![Srv] = "s_synack"]
            /\ UNCHANGED <<state, data, dready, net>>
       ELSE LET p    == Head(data[Srv])
                peer == p.sport = rport[Srv]
            IN  IF p.type = "ACK"
                  THEN /\ Open(Srv)
                       /\ pc' = [pc EXCEPT ![Srv] = "done"]
                       /\ UNCHANGED <<net, att>>
                  ELSE /\ data' = [data EXCEPT ![Srv] = Tail(@)]
                       /\ net' = IF p.type = "SYN" /\ ~peer
                                   THEN net \cup {Pkt("FIN", SrvPort, p.sport, 0)} ELSE net
                       /\ pc' = [pc EXCEPT ![Srv] = "s_synack"]
                       /\ UNCHANGED <<state, dready, att>>
  /\ UNCHANGED <<lport, rport, ackflag, ports, ncp, pval, cur, stale, rounds, fault>>

(* Unmasked: an empty queue is a timeout (wait_val doubles).  Otherwise  *)
(* dequeue: a SYN from the remote is a duplicate (continue, no doubling); *)
(* a SYN from another port gets a FIN; an ACK from the remote drains the  *)
(* queue and returns the socket OPEN; anything else is freed.            *)
ServerTest ==
  /\ pc[Srv] = "s_test"
  /\ IF data[Srv] = <<>>
       THEN /\ att' = [att EXCEPT ![Srv] = @ + 1]
            /\ pc' = [pc EXCEPT ![Srv] = "s_synack"]
            /\ UNCHANGED <<state, data, dready, net>>
       ELSE LET p    == Head(data[Srv])
                peer == p.sport = rport[Srv]
            IN  IF p.type = "ACK" /\ peer
                  THEN /\ Open(Srv)
                       /\ pc' = [pc EXCEPT ![Srv] = "done"]
                       /\ UNCHANGED <<net, att>>
                  ELSE /\ data' = [data EXCEPT ![Srv] = Tail(@)]
                       /\ net' = IF p.type = "SYN" /\ ~peer
                                   THEN net \cup {Pkt("FIN", SrvPort, p.sport, 0)} ELSE net
                       /\ pc' = [pc EXCEPT ![Srv] = "s_synack"]
                       /\ UNCHANGED <<state, dready, att>>
  /\ UNCHANGED <<lport, rport, ackflag, ports, ncp, pval, cur, stale, rounds, fault>>

-----------------------------------------------------------------------------
(* minisocket_client_create, unmasked and without ports_mutex: port_val   *)
(* is n_client_ports if that port is free, else the first free client    *)
(* port, else -1.                                                         *)
ClientPort(c) ==
  LET free == {i \in MinClient .. MaxClient : ports[i] = NoSock}
      pv   == IF ports[ncp] = NoSock THEN ncp
              ELSE IF free = {} THEN NoPort ELSE Min(free)
  IN  /\ Step(c, "c_port", "c_cursor")
      /\ pval' = [pval EXCEPT ![c] = pv]
      /\ UNCHANGED <<state, lport, rport, ackflag, ports, ncp, data, dready, net, att,
                     cur, stale, rounds, fault>>

\* Faulty variant of ClientCursor: the cursor is not wrapped.
ClientCursorNoWrap(c) ==
  /\ pc[c] = "c_cursor"
  /\ ncp' = pval[c] + 1
  /\ pc' = [pc EXCEPT ![c] = IF pval[c] = NoPort THEN "done" ELSE "c_publish"]
  /\ UNCHANGED <<state, lport, rport, ackflag, ports, pval, data, dready, net, att, cur,
                 stale, rounds, fault>>

(* n_client_ports = port_val + 1, and 0 past MAX_CLIENT_PORT; port_val   *)
(* -1 returns NULL (NOMOREPORTS).                                        *)
ClientCursor(c) ==
  /\ pc[c] = "c_cursor"
  /\ ncp' = IF pval[c] + 1 > MaxClient THEN 0 ELSE pval[c] + 1
  /\ pc' = [pc EXCEPT ![c] = IF pval[c] = NoPort THEN "done" ELSE "c_publish"]
  /\ UNCHANGED <<state, lport, rport, ackflag, ports, pval, data, dready, net, att, cur,
                 stale, rounds, fault>>

\* malloc, socket_state = INITIAL, ports[port_val] = socket under ports_mutex.
ClientPublish(c) ==
  /\ Step(c, "c_publish", "c_init")
  /\ state' = [state EXCEPT ![c] = "INITIAL"]
  /\ ports' = [ports EXCEPT ![pval[c]] = c]
  /\ UNCHANGED <<lport, rport, ackflag, ncp, pval, data, dready, net, att, cur, stale,
                 rounds, fault>>

\* local and remote port, a new queue and data_ready 0, WAITING_SYNACK.
ClientInit(c) ==
  /\ Step(c, "c_init", "c_syn")
  /\ lport' = [lport EXCEPT ![c] = pval[c]]
  /\ rport' = [rport EXCEPT ![c] = SrvPort]
  /\ data' = [data EXCEPT ![c] = <<>>]
  /\ dready' = [dready EXCEPT ![c] = SemInit(0)]
  /\ state' = [state EXCEPT ![c] = "WAITING_SYNACK"]
  /\ att' = [att EXCEPT ![c] = 0]
  /\ UNCHANGED <<ackflag, ports, ncp, pval, net, cur, stale, rounds, fault>>

(* while (wait_val <= 12800): SYN (seq 0, ack 0), the alarm and P on      *)
(* data_ready; past the budget, minisocket_free and NULL (NOSERVER).      *)
ClientSyn(c) ==
  /\ pc[c] = "c_syn"
  /\ IF att[c] < MaxAttempts
       THEN /\ net' = net \cup {Pkt("SYN", lport[c], rport[c], 0)}
            /\ ArmAndP(c, "c_check", "c_w")
            /\ UNCHANGED <<state, ports, data>>
       ELSE /\ Free(c)
            /\ pc' = [pc EXCEPT ![c] = "done"]
            /\ UNCHANGED <<net, dready, cur, stale>>
  /\ UNCHANGED <<lport, rport, ackflag, ncp, pval, att, rounds, fault>>

ClientCheck(c) == CheckQueue(c, "c_test")

\* Faulty variant of ClientTest: a timeout does not double wait_val.
ClientTestNoDouble(c) ==
  /\ pc[c] = "c_test"
  /\ IF data[c] = <<>>
       THEN /\ pc' = [pc EXCEPT ![c] = "c_syn"]
            /\ UNCHANGED <<state, ports, data, dready, net, att>>
       ELSE LET p    == Head(data[c])
                peer == p.sport = rport[c]
            IN  CASE peer /\ p.type = "SYNACK" ->
                       /\ net' = net \cup {Pkt("ACK", lport[c], rport[c], 1)}
                       /\ Open(c)
                       /\ pc' = [pc EXCEPT ![c] = "done"]
                       /\ UNCHANGED <<ports, att>>
                  [] peer /\ p.type = "FIN" ->
                       /\ Free(c)
                       /\ pc' = [pc EXCEPT ![c] = "done"]
                       /\ UNCHANGED <<dready, net, att>>
                  [] OTHER ->
                       /\ data' = [data EXCEPT ![c] = Tail(@)]
                       /\ pc' = [pc EXCEPT ![c] = "c_syn"]
                       /\ UNCHANGED <<state, ports, dready, net, att>>
  /\ UNCHANGED <<lport, rport, ackflag, ncp, pval, cur, stale, rounds, fault>>

(* Unmasked: an empty queue is a timeout (wait_val doubles).  Otherwise  *)
(* dequeue: from the remote, a SYNACK gets the ACK (seq 1, ack 1), the    *)
(* queue is drained and the socket returned OPEN; a FIN frees the socket; *)
(* anything else is freed and the SYN resent.                             *)
ClientTest(c) ==
  /\ pc[c] = "c_test"
  /\ IF data[c] = <<>>
       THEN /\ att' = [att EXCEPT ![c] = @ + 1]
            /\ pc' = [pc EXCEPT ![c] = "c_syn"]
            /\ UNCHANGED <<state, ports, data, dready, net>>
       ELSE LET p    == Head(data[c])
                peer == p.sport = rport[c]
            IN  CASE peer /\ p.type = "SYNACK" ->
                       /\ net' = net \cup {Pkt("ACK", lport[c], rport[c], 1)}
                       /\ Open(c)
                       /\ pc' = [pc EXCEPT ![c] = "done"]
                       /\ UNCHANGED <<ports, att>>
                  [] peer /\ p.type = "FIN" ->
                       /\ Free(c)
                       /\ pc' = [pc EXCEPT ![c] = "done"]
                       /\ UNCHANGED <<dready, net, att>>
                  [] OTHER ->
                       /\ data' = [data EXCEPT ![c] = Tail(@)]
                       /\ pc' = [pc EXCEPT ![c] = "c_syn"]
                       /\ UNCHANGED <<state, ports, dready, net, att>>
  /\ UNCHANGED <<lport, rport, ackflag, ncp, pval, cur, stale, rounds, fault>>

-----------------------------------------------------------------------------
(* minisocket_handle_tcp_packet for packet p: no socket on the port, or   *)
(* one INITIAL or CLOSED, drops it; a socket not OPEN queues it raw with  *)
(* V on data_ready.  On an OPEN socket: from another port a SYN gets a   *)
(* FIN and the rest is dropped; a SYNACK gets a bare ACK (seq 0, ack 0);  *)
(* a FIN makes it CLOSING with an ACK back; an ACK whose ack number is    *)
(* seq_number sets ack_flag 0 to 1.  The FIN's 15 s close alarm and the  *)
(* V on wait_for_ack are Minisocket's.                                    *)
Deliver(p) ==
  LET s   == ports[p.dport]
      rest == net \ {p}
  IN  /\ CASE s = NoSock \/ state[s] \in {"INITIAL", "CLOSED"} ->
                /\ net' = rest
                /\ UNCHANGED <<state, ackflag, data, dready, pc>>
           [] state[s] # "OPEN" ->
                /\ Len(data[s]) < MaxQueue
                /\ net' = rest
                /\ data' = [data EXCEPT ![s] = Append(@, p)]
                /\ DreadyV(s)
                /\ UNCHANGED <<state, ackflag>>
           [] p.sport # rport[s] ->
                /\ net' = IF p.type = "SYN"
                            THEN rest \cup {Pkt("FIN", p.dport, p.sport, 0)} ELSE rest
                /\ UNCHANGED <<state, ackflag, data, dready, pc>>
           [] p.type = "SYNACK" ->
                /\ net' = rest \cup {Pkt("ACK", p.dport, p.sport, 0)}
                /\ UNCHANGED <<state, ackflag, data, dready, pc>>
           [] p.type = "FIN" ->
                /\ net' = rest \cup {Pkt("ACK", p.dport, p.sport, OpenAck(s) + 1)}
                /\ state' = [state EXCEPT ![s] = "CLOSING"]
                /\ UNCHANGED <<ackflag, data, dready, pc>>
           [] OTHER ->
                /\ net' = rest
                /\ ackflag' = IF p.type = "ACK" /\ p.ack = OpenSeq(s) /\ ackflag[s] = 0
                                THEN [ackflag EXCEPT ![s] = 1] ELSE ackflag
                /\ UNCHANGED <<state, data, dready, pc>>
      /\ UNCHANGED <<lport, rport, ports, ncp, pval, att, cur, stale, rounds, fault>>

\* The network drops packet p.
Lose(p) ==
  /\ Loss
  /\ net' = net \ {p}
  /\ UNCHANGED <<state, lport, rport, ackflag, ports, ncp, pval, data, dready, pc, att,
                 cur, stale, rounds, fault>>

(* clock_handler fires an alarm of thread s: semaphore_V on data_ready.  *)
(* A stale alarm was registered earlier with a shorter wait, so it goes  *)
(* off before the current one.  The socket may have been freed.          *)
Timer(s) ==
  /\ \/ stale[s] > 0 /\ stale' = [stale EXCEPT ![s] = @ - 1] /\ UNCHANGED cur
     \/ stale[s] = 0 /\ cur[s] /\ cur' = [cur EXCEPT ![s] = FALSE] /\ UNCHANGED stale
  /\ IF state[s] = "FREED"
       THEN fault' = "use_after_free" /\ UNCHANGED <<dready, pc>>
       ELSE DreadyV(s) /\ UNCHANGED fault
  /\ UNCHANGED <<state, lport, rport, ackflag, ports, ncp, pval, data, net, att, rounds>>

-----------------------------------------------------------------------------
ServerStep ==
  \/ ServerRound \/ ServerWaitSyn \/ ServerGotSyn \/ ServerSynack \/ ServerCheck
  \/ ServerTest

ClientStep(c) ==
  \/ ClientPort(c) \/ ClientCursor(c) \/ ClientPublish(c) \/ ClientInit(c) \/ ClientSyn(c)
  \/ ClientCheck(c) \/ ClientTest(c)

\* After undefined behaviour the model stops.
Next ==
  /\ fault = "none"
  /\ \/ ServerStep
     \/ \E c \in Clients : ClientStep(c)
     \/ \E s \in Sockets : Timer(s)
     \/ \E p \in net : Deliver(p) \/ Lose(p)

Spec == Init /\ [][Next]_vars

(* Every runnable thread gets the CPU (Kernel's NoStarvation), a pending *)
(* alarm fires once its tick comes, and a packet on the wire is          *)
(* eventually delivered or lost.                                         *)
Fairness ==
  /\ WF_vars(ServerStep)
  /\ \A c \in Clients : WF_vars(ClientStep(c))
  /\ \A s \in Sockets : WF_vars(Timer(s))
  /\ WF_vars(\E p \in net : Deliver(p) \/ Lose(p))

FairSpec == Spec /\ Fairness

-----------------------------------------------------------------------------
Packets ==
  [type : {"SYN", "SYNACK", "ACK", "FIN"}, sport : Ports, dport : Ports, ack : 0 .. 3]

TypeOK ==
  /\ state \in [Sockets -> {"NONE", "INITIAL", "WAITING_SYN", "WAITING_ACK",
                            "WAITING_SYNACK", "OPEN", "CLOSING", "FREED"}]
  /\ lport \in [Sockets -> Ports \cup {NoPort}] /\ rport \in [Sockets -> Ports \cup {NoPort}]
  /\ ackflag \in [Sockets -> {0, 1, 2}]
  /\ ports \in [Ports -> Sockets \cup {NoSock}]
  /\ ncp \in Ports /\ pval \in [Clients -> Ports \cup {NoPort}]
  /\ \A s \in Sockets : data[s] \in Seq(Packets) /\ Len(data[s]) <= MaxQueue
  /\ net \subseteq Packets
  /\ pc \in [Sockets -> {"s_round", "s_p1", "s_w1", "s_deq1", "s_synack", "s_w2",
                         "s_check", "s_test", "c_port", "c_cursor", "c_publish",
                         "c_init", "c_syn", "c_w", "c_check", "c_test", "done"}]
  /\ att \in [Sockets -> 0 .. MaxAttempts]
  /\ cur \in [Sockets -> BOOLEAN] /\ stale \in [Sockets -> Nat]
  /\ rounds \in 0 .. MaxRounds
  /\ fault \in {"none", "null_deref", "double_free", "use_after_free"}

(* A server that returns OPEN is connected to a client that got its      *)
(* SYNACK: the socket on the server's remote port is OPEN (or CLOSING on  *)
(* a FIN).  server_create must take the ACK only from the port its SYN    *)
(* came from, across the restarts of its outer loop.                      *)
ServerPeerOpen ==
  state[Srv] = "OPEN" =>
    \E c \in Clients : lport[c] = rport[Srv] /\ state[c] \in {"OPEN", "CLOSING"}

(* client_create returns (spec 4.2: NOSERVER once the retransmit budget  *)
(* is spent): the SYN loop ends whatever the network and the server do.  *)
ClientReturns == \A c \in Clients : <>(pc[c] = "done" \/ fault # "none")

(* The server's SYN loop, woken from semaphore_P on data_ready, finds a  *)
(* packet in the queue: it never takes arg->buffer of an empty dequeue    *)
(* (line 141).  Every V of data_ready must stand for a queued packet, so  *)
(* the masked deregister_alarm after each P must account for every alarm *)
(* of an earlier round.                                                   *)
NoNullArg == fault # "null_deref"

(* An OPEN socket is reachable: ports[] maps its local port to it, so    *)
(* the handler can hand it its packets.  Two client_create calls must    *)
(* not bind the same port, and minisocket_free must not unbind another   *)
(* socket's port.                                                         *)
OpenBound == \A s \in Sockets : state[s] = "OPEN" => ports[lport[s]] = s

(* client_create hands out client ports only (spec 4.2: the rotating     *)
(* cursor runs over MIN_CLIENT_PORT .. MAX_CLIENT_PORT).                  *)
ClientPortsInRange == \A c \in Clients : pval[c] \in {NoPort} \cup (MinClient .. MaxClient)
=============================================================================
