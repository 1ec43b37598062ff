------------------------------ MODULE Connect ------------------------------
(***************************************************************************)
(* The connection table of the gossip node (src/P5/connect.c): every     *)
(* node keeps a list of file_info entries, one per TCP connection it      *)
(* knows of, and runs a single-threaded poll loop whose handlers are the  *)
(* actions below.  A node connects to a peer on a C command, accepts      *)
(* peers on its server socket, sends a H(ello) naming its own address on  *)
(* every new connection, reconnects broken outgoing connections from a    *)
(* timer, and when two connections to the same peer exist it keeps one    *)
(* of them (hello_received).                                              *)
(*                                                                         *)
(* Abstractions.  A node's address is the node itself; the address a      *)
(* server learns from accept() is the peer's ephemeral port, Eph, on      *)
(* which nobody listens.  A hello is the only message: gossip, the node   *)
(* list and the routing graph (gossip_received, nl_*, set_dist, dijkstra) *)
(* are not part of this repository and do not change the table; of a     *)
(* gossip only the neighbours send_gossip lists are recorded.  A          *)
(* hello queued in a node's output buffer is counted in the entry's out  *)
(* field; one on the wire towards an end is counted in the connection's   *)
(* wire field.  An end learns that its peer has closed, or that the link  *)
(* has failed, by an error event (POLLERR | POLLHUP) on its socket.       *)
(* get_id compares an uninitialised sockaddr (it fills "that" twice), so  *)
(* which of two duplicate connections a node keeps is a free choice.      *)
(***************************************************************************)
EXTENDS Naturals, Sequences, FiniteSets

CONSTANTS
  Nodes,            \* the nodes (each one's server address)
  Eph,              \* a peer's ephemeral address, as accept() reports it
  None,             \* fd == -1
  Commands,         \* the C<addr>:<port> commands typed: <<node, target>>
  MaxEntries,       \* bound on a node's file_info list (entries are never reused)
  MaxConns,         \* bound on the TCP connections created
  MaxLinkFailures   \* bound on spontaneous link failures

Sides == {"cli", "srv"}
Addr == Nodes \cup {Eph}
Uids == 1..MaxEntries

VARIABLES
  fi,        \* fi[n]: node n's file_info entries, index = uid (newest last)
  conn,      \* the TCP connections, in order of creation
  timers,    \* timers[n]: uids with a pending timer_reconnect
  issued,    \* the commands already typed
  failures,  \* link failures so far
  dropped,   \* history: <<node, dropped conn, kept conn>> per duplicate resolved
  advertised \* history: advertised[n], the addresses n's gossips have listed

vars == <<fi, conn, timers, issued, failures, dropped, advertised>>

Other(s) == IF s = "cli" THEN "srv" ELSE "cli"

\* The node at end s of connection cn (the peer address its hello carries).
NodeAt(cn, s) == IF s = "cli" THEN cn.cli ELSE cn.srv

\* file_info_add: a zeroed entry (FI_UNKNOWN, FI_CONNECTING, no output).
NewEntry(type, fd, handler, addr) ==
  [type |-> type, status |-> "UNKNOWN", fd |-> fd, addr |-> addr,
   ostatus |-> "CONNECTING", handler |-> handler, out |-> 0]

\* send_hello: H<my address> appended to the output buffer.
SendHello(e) == [e EXCEPT !.out = @ + 1]

\* An error event is pending on end s of connection c.
ErrorAt(c, s) == conn[c].state = "dead" \/ Other(s) \in conn[c].closed

\* The entry of node n with uid k is polled: not free and with a socket.
Polled(n, k) == fi[n][k].type # "FREE" /\ fi[n][k].fd # None

\* close() of the ends fds.
CloseFds(cs, fds) ==
  [c \in DOMAIN cs |->
     [cs[c] EXCEPT !.closed = @ \cup {fd[2] : fd \in {x \in fds : x[1] = c}}]]

\* The neighbours send_gossip lists from list f: every incoming entry, and
\* the outgoing entries that are known and connected.
GossipList(f) ==
  {f[j].addr : j \in {i \in DOMAIN f :
                      \/ f[i].type = "INCOMING"
                      \/ /\ f[i].type = "OUTGOING" /\ f[i].status = "KNOWN"
                         /\ f[i].ostatus = "CONNECTED"}}

\* send_gossip by node n once its list is f.
Gossip(n, f) == advertised' = [advertised EXCEPT ![n] = @ \cup GossipList(f)]

NewConn(n, a, state) ==
  [cli |-> n, srv |-> a, state |-> state, accepted |-> FALSE,
   closed |-> {}, wire |-> [s \in Sides |-> 0]]

NextFdReused == <<Len(conn), "cli">>

\* The client end of the connection socket() and connect() create.
NextFd == <<Len(conn) + 1, "cli">>

\* try_connect on entry k of f, the caller's updated list of node n.
TryConnect(n, k, f) ==
  \/ \* socket() fails, or connect() fails at once: nothing is retried
     /\ fi' = [fi EXCEPT ![n] = f]
     /\ UNCHANGED conn
  \/ \* connect() returns EINPROGRESS: wait for POLLOUT in connect_handler
     /\ Len(conn) < MaxConns
     /\ conn' = Append(conn, NewConn(n, f[k].addr, "syn"))
     /\ fi' = [fi EXCEPT ![n] = [f EXCEPT ![k].fd = NextFd,
                                          ![k].handler = "connect"]]
  \/ \* connect() succeeds at once: connected, but no hello is sent
     /\ Len(conn) < MaxConns
     /\ f[k].addr \in Nodes
     /\ conn' = Append(conn, NewConn(n, f[k].addr, "est"))
     /\ fi' = [fi EXCEPT ![n] = [f EXCEPT ![k].fd = NextFd,
                                          ![k].handler = "message",
                                          ![k].ostatus = "CONNECTED"]]

\* connect_command: a new outgoing entry for the target, then try_connect.
connect_command(n, t) ==
  /\ <<n, t>> \in Commands \ issued
  /\ Len(fi[n]) < MaxEntries
  /\ issued' = issued \cup {<<n, t>>}
  /\ TryConnect(n, Len(fi[n]) + 1, Append(fi[n], NewEntry("OUTGOING", None, "none", t)))
  /\ UNCHANGED <<timers, failures, dropped, advertised>>

\* timer_reconnect: try_connect on the entry with this uid, if not free.
timer_reconnect(n, u) ==
  /\ u \in timers[n]
  /\ timers' = [timers EXCEPT ![n] = @ \ {u}]
  /\ IF fi[n][u].type # "FREE"
       THEN TryConnect(n, u, fi[n])
       ELSE UNCHANGED <<fi, conn>>
  /\ UNCHANGED <<issued, failures, dropped, advertised>>

\* The kernel completes the three-way handshake, or the target refuses.
Establish(c) ==
  /\ conn[c].state = "syn"
  /\ conn[c].srv \in Nodes
  /\ conn' = [conn EXCEPT ![c].state = "est"]
  /\ UNCHANGED <<fi, timers, issued, failures, dropped, advertised>>

Refuse(c) ==
  /\ conn[c].state = "syn"
  /\ conn[c].srv = Eph
  /\ conn' = [conn EXCEPT ![c].state = "dead"]
  /\ UNCHANGED <<fi, timers, issued, failures, dropped, advertised>>

\* The link breaks (a timeout, a reset): both ends see an error.
LinkFail(c) ==
  /\ failures < MaxLinkFailures
  /\ conn[c].state # "dead"
  /\ conn' = [conn EXCEPT ![c].state = "dead", ![c].wire = [s \in Sides |-> 0]]
  /\ failures' = failures + 1
  /\ UNCHANGED <<fi, timers, issued, dropped, advertised>>

\* server_handler: accept() a pending connection, track it, say hello.
\* If accept() fails the code goes on with skt == -1.
server_handler(n, c) ==
  /\ conn[c].srv = n
  /\ conn[c].state = "est"
  /\ ~conn[c].accepted
  /\ Len(fi[n]) < MaxEntries
  /\ \/ /\ conn' = [conn EXCEPT ![c].accepted = TRUE]
        /\ fi' = [fi EXCEPT ![n] =
                    Append(@, SendHello(NewEntry("INCOMING", <<c, "srv">>, "message", Eph)))]
     \/ /\ fi' = [fi EXCEPT ![n] =
                    Append(@, SendHello(NewEntry("INCOMING", None, "message", Eph)))]
        /\ UNCHANGED conn
  /\ UNCHANGED <<timers, issued, failures, dropped, advertised>>

DefunctKeepFd(e) == [e EXCEPT !.ostatus = "CONNECTING"]

\* The socket of an outgoing entry stops being connected: arm the timer.
Defunct(e) == [e EXCEPT !.fd = None, !.ostatus = "CONNECTING"]

\* connect_handler: POLLOUT once connected, or an error.
connect_handler(n, k) ==
  LET e == fi[n][k]
      c == e.fd[1]
  IN /\ Polled(n, k)
     /\ e.handler = "connect"
     /\ \/ /\ ErrorAt(c, "cli")
           /\ timers' = [timers EXCEPT ![n] = @ \cup {k}]
           /\ conn' = CloseFds(conn, {e.fd})
           /\ fi' = [fi EXCEPT ![n][k] = Defunct(e)]
        \/ /\ ~ErrorAt(c, "cli")
           /\ conn[c].state = "est"
           /\ fi' = [fi EXCEPT ![n][k] = SendHello([e EXCEPT !.handler = "message",
                                                       !.ostatus = "CONNECTED"])]
           /\ UNCHANGED <<conn, timers>>
     /\ UNCHANGED <<issued, failures, dropped, advertised>>

\* message_handler on POLLERR | POLLHUP: close; retry outgoing, free the rest.
PeerError(n, k) ==
  LET e == fi[n][k] IN
  /\ Polled(n, k)
  /\ e.handler = "message"
  /\ ErrorAt(e.fd[1], e.fd[2])
  /\ conn' = CloseFds(conn, {e.fd})
  /\ IF e.type = "OUTGOING"
       THEN /\ timers' = [timers EXCEPT ![n] = @ \cup {k}]
            /\ fi' = [fi EXCEPT ![n][k] = Defunct(e)]
       ELSE /\ fi' = [fi EXCEPT ![n][k].type = "FREE"]
            /\ UNCHANGED timers
  /\ Gossip(n, fi'[n])
  /\ UNCHANGED <<issued, failures, dropped>>

\* message_handler on POLLOUT: the output buffer goes onto the wire.
SendOut(n, k) ==
  LET e == fi[n][k] IN
  /\ Polled(n, k)
  /\ e.handler = "message"
  /\ e.out > 0
  /\ ~ErrorAt(e.fd[1], e.fd[2])
  /\ conn' = [conn EXCEPT ![e.fd[1]].wire[Other(e.fd[2])] = @ + e.out]
  /\ fi' = [fi EXCEPT ![n][k].out = 0]
  /\ UNCHANGED <<timers, issued, failures, dropped, advertised>>

\* The duplicate-connection search of hello_received: entry j of the list
\* is another connection to the peer a that hello came from.
Matches(e, a) == e.type # "FREE" /\ e.status = "KNOWN" /\ e.addr = a

\* The live duplicates of a connection to a, on which get_id is called.
Live(f, a) == {j \in DOMAIN f : Matches(f[j], a) /\ f[j].fd # None}

\* The one kept takes over the outgoing role (type and u.fi_outgoing).
TakeOver(e, from) ==
  IF from.type = "OUTGOING"
    THEN [e EXCEPT !.type = "OUTGOING", !.ostatus = from.ostatus]
    ELSE e

\* fi2->fd == -1: drop the defunct one and return.
DropDefunct(st, k, j) ==
  [st EXCEPT !.f = [@ EXCEPT ![k] = TakeOver(@, st.f[j]), ![j].type = "FREE"],
             !.ret = TRUE]

\* "keep mine": close fi2, free it, and go on searching.
KeepMineNoFree(st, k, j) ==
  [st EXCEPT !.f = [@ EXCEPT ![k] = TakeOver(@, st.f[j])],
             !.closed = @ \cup {st.f[j].fd},
             !.drop = @ \cup {<<st.f[j].fd[1], st.f[k].fd[1]>>}]

KeepMine(st, k, j) ==
  [st EXCEPT !.f = [@ EXCEPT ![k] = TakeOver(@, st.f[j]), ![j].type = "FREE"],
             !.closed = @ \cup {st.f[j].fd},
             !.drop = @ \cup {<<st.f[j].fd[1], st.f[k].fd[1]>>}]

\* "keep other": fi2 takes over, close fi, free it, and return.
KeepOtherNoClose(st, k, j) ==
  [st EXCEPT !.f = [@ EXCEPT ![j] = TakeOver(@, st.f[k]), ![k].type = "FREE"],
             !.drop = @ \cup {<<st.f[k].fd[1], st.f[j].fd[1]>>},
             !.ret = TRUE]

KeepOther(st, k, j) ==
  [st EXCEPT !.f = [@ EXCEPT ![j] = TakeOver(@, st.f[k]), ![k].type = "FREE"],
             !.closed = @ \cup {st.f[k].fd},
             !.drop = @ \cup {<<st.f[k].fd[1], st.f[j].fd[1]>>},
             !.ret = TRUE]

\* The loop, from the head of the list (the newest entry) down; keep[j] is
\* what get_id's comparison of fi with entry j decides.
RECURSIVE HelloLoop(_, _, _, _, _)
HelloLoop(st, k, a, keep, j) ==
  IF j = 0 \/ st.ret THEN st
  ELSE IF ~Matches(st.f[j], a) THEN HelloLoop(st, k, a, keep, j - 1)
  ELSE IF st.f[j].fd = None THEN DropDefunct(st, k, j)
  ELSE IF keep[j] THEN HelloLoop(KeepMine(st, k, j), k, a, keep, j - 1)
  ELSE KeepOther(st, k, j)

\* hello_received(fi = entry k of node n, H<a>), applied to the list f.
\* A known entry, or a hello from the node itself, is ignored; otherwise
\* duplicates are resolved and, if fi survives, the peer becomes known.
hello_received(n, k, a, f, keep) ==
  LET st == HelloLoop([f |-> f, closed |-> {}, drop |-> {}, ret |-> FALSE],
                      k, a, keep, Len(f))
      kept == IF st.ret THEN st.f
              ELSE [st.f EXCEPT ![k].addr = a, ![k].status = "KNOWN"]
  IN IF f[k].status = "KNOWN" \/ a = n
       THEN [f |-> f, closed |-> {}, drop |-> {}, gossip |-> FALSE]
       ELSE [f |-> kept, closed |-> st.closed, drop |-> st.drop, gossip |-> ~st.ret]

\* message_handler on POLLIN: add_input reads a hello line and handle_line
\* passes it to hello_received.
RecvHello(n, k) ==
  LET e == fi[n][k]
      c == e.fd[1]
      s == e.fd[2]
  IN /\ Polled(n, k)
     /\ e.handler = "message"
     /\ conn[c].state # "dead"
     /\ conn[c].wire[s] > 0
     /\ \E keep \in [Live(fi[n], NodeAt(conn[c], Other(s))) -> BOOLEAN] :
          LET h == hello_received(n, k, NodeAt(conn[c], Other(s)), fi[n], keep)
              rc == [conn EXCEPT ![c].wire[s] = @ - 1]
          IN /\ fi' = [fi EXCEPT ![n] = h.f]
             /\ conn' = CloseFds(rc, h.closed)
             /\ dropped' = dropped \cup {<<n, d[1], d[2]>> : d \in h.drop}
             /\ IF h.gossip THEN Gossip(n, h.f) ELSE UNCHANGED advertised
     /\ UNCHANGED <<timers, issued, failures>>

Init ==
  /\ fi = [n \in Nodes |-> <<>>]
  /\ conn = <<>>
  /\ timers = [n \in Nodes |-> {}]
  /\ issued = {}
  /\ failures = 0
  /\ dropped = {}
  /\ advertised = [n \in Nodes |-> {}]

Next ==
  \/ \E n \in Nodes, t \in Addr : connect_command(n, t)
  \/ \E n \in Nodes, u \in Uids : timer_reconnect(n, u)
  \/ \E c \in DOMAIN conn : Establish(c) \/ Refuse(c) \/ LinkFail(c)
  \/ \E n \in Nodes, c \in DOMAIN conn : server_handler(n, c)
  \/ \E n \in Nodes : \E k \in DOMAIN fi[n] :
       connect_handler(n, k) \/ PeerError(n, k) \/ SendOut(n, k) \/ RecvHello(n, k)

Spec == Init /\ [][Next]_vars

\* The state without the history variable advertised, which no guard reads:
\* a run whose properties say nothing about it beyond its type may explore
\* by this view.
ConnectView == <<fi, conn, timers, issued, failures, dropped>>

-----------------------------------------------------------------------------
Fds == (1..MaxConns) \X Sides

Entry == [type : {"FREE", "INCOMING", "OUTGOING"}, status : {"UNKNOWN", "KNOWN"},
          fd : Fds \cup {None}, addr : Addr, ostatus : {"CONNECTING", "CONNECTED"},
          handler : {"none", "connect", "message"}, out : Nat]

TypeOK ==
  /\ \A n \in Nodes : fi[n] \in Seq(Entry) /\ Len(fi[n]) <= MaxEntries
  /\ Len(conn) <= MaxConns
  /\ \A c \in DOMAIN conn :
       /\ conn[c].cli \in Nodes /\ conn[c].srv \in Addr
       /\ conn[c].state \in {"syn", "est", "dead"}
       /\ conn[c].accepted \in BOOLEAN /\ conn[c].closed \subseteq Sides
       /\ conn[c].wire \in [Sides -> Nat]
  /\ timers \in [Nodes -> SUBSET Uids]
  /\ issued \subseteq Commands
  /\ failures \in 0..MaxLinkFailures
  /\ advertised \in [Nodes -> SUBSET Addr]


\* hello_received keeps one connection per peer: a node never has two
\* entries that both know the same peer address, however the hellos of two
\* racing connections, a reconnect and a link failure interleave.
KnownUnique ==
  \A n \in Nodes, a \in Addr :
    Cardinality({k \in DOMAIN fi[n] : Matches(fi[n][k], a)}) <= 1

\* No socket is leaked: every end a node has open (a connected client end,
\* or an accepted server end that nobody closed) is the fd of one of that
\* node's live entries, through duplicate resolution, errors and retries.
NoFdLeak ==
  \A c \in DOMAIN conn, s \in Sides :
    (s = "cli" \/ conn[c].accepted) /\ s \notin conn[c].closed =>
      \E k \in DOMAIN fi[NodeAt(conn[c], s)] :
        /\ fi[NodeAt(conn[c], s)][k].type # "FREE"
        /\ fi[NodeAt(conn[c], s)][k].fd = <<c, s>>

\* A pending timer_reconnect names an entry without a socket: the timer
\* never runs try_connect over a live connection (which would drop its fd
\* and open a second connection to the peer).
NoTimerOnLiveSocket ==
  \A n \in Nodes : \A u \in timers[n] :
    fi[n][u].type = "FREE" \/ fi[n][u].fd = None

\* The comment on hello_received: of two connections between the same two
\* nodes "we keep the lowest one", so both nodes keep the same one; it is
\* never the case that each node drops the connection the other one kept.
DupAgree ==
  \A m, n \in Nodes : \A c1, c2 \in DOMAIN conn :
    ~(<<m, c1, c2>> \in dropped /\ <<n, c2, c1>> \in dropped)

\* An outgoing connection is never given up (connect.c, struct file_info:
\* only incoming connections are not re-established): every outgoing entry
\* has a socket or a pending reconnect timer.
NeverAbandoned ==
  \A n \in Nodes : \A k \in DOMAIN fi[n] :
    fi[n][k].type = "OUTGOING" => fi[n][k].fd # None \/ k \in timers[n]

\* An outgoing entry that talks on a connected socket is FI_CONNECTED, so
\* file_broadcast, which skips connecting outgoing entries, reaches it.
LiveOutgoingConnected ==
  \A n \in Nodes : \A k \in DOMAIN fi[n] :
    /\ fi[n][k].type = "OUTGOING"
    /\ fi[n][k].fd # None
    /\ fi[n][k].handler = "message"
    => fi[n][k].ostatus = "CONNECTED"

\* send_gossip advertises the node's neighbours for routing ("Send the
\* gossip to connected peers"): every address a gossip lists is a node's
\* listening address, one a peer could connect to.
GossipListsListeners == \A n \in Nodes : advertised[n] \subseteq Nodes

=============================================================================
