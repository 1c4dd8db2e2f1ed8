----------------------------- MODULE FakeTCPBind -----------------------------
(***************************************************************************)
(* The FakeTCP bind (src/conn/bind_faketcp.go) over its stack: Send's      *)
(* connect-on-first-send under b.mu, acceptLoop, one handleSocket          *)
(* goroutine per accepted socket, the receive functions draining recvQueue *)
(* and Close.  The socket layer is abstracted to what module FakeTCP       *)
(* shows a handshake can do: the stack's tuple map (Stack.sockets), a SYN  *)
(* creating the acceptor when the tuple is free, and Connect/Accept ending *)
(* established or failed.  b.mu is a Go sync.RWMutex: a waiting Lock      *)
(* blocks new RLocks.                                                      *)
(***************************************************************************)
EXTENDS Integers, Sequences, SequencesExt, FiniteSets, TLC

CONSTANTS
  Nodes,          \* two hosts, each with one bind and its stack
  SendNodes,      \* nodes whose WireGuard calls Bind.Send
  Senders,        \* goroutines of a node that may call Send concurrently
  Closers,        \* nodes whose Bind.Close is called
  Msgs,           \* datagrams (each sent at most once)
  SockQueueSize,  \* Socket.incoming capacity (512)
  RecvQueueSize,  \* b.recvQueue capacity (1024)
  MaxSockets,     \* bound: sockets ever created
  MaxDup,         \* bound: datagrams the network duplicates
  None            \* model value: no socket / no lock holder

SockId == 1..MaxSockets
Peer(n) == CHOOSE r \in Nodes : r # n

VARIABLES
  sk,       \* [allocated SockId -> socket record]
  reg,      \* reg[n][r]: Stack.sockets of node n for the tuple towards r
  acceptQ,  \* acceptQ[n]: Stack.acceptQueue
  bs,       \* bs[n]: b.sockets[remote] of node n (one remote: the peer)
  rq,       \* rq[n]: b.recvQueue
  rw,       \* rw[n]: b.mu as [r: readers, w: writer, wq: waiting writers]
  closed,   \* closed[n]: b.closed
  stop,     \* stop[n]: b.stopChan is closed
  spc,      \* spc[n][t]: sender goroutine t: [pc, sock, msg]
  apc,      \* apc[n]: acceptLoop: [pc, sock]
  cpc,      \* cpc[n]: the goroutine in Bind.Close
  sstop,    \* sstop[n]: the stack's stopChan is closed
  sent,     \* history: datagrams sock.Send wrote, per node
  dlv,      \* history: datagrams the receive functions returned, per node
  rfx,      \* rfx[n]: a receive function of n returned net.ErrClosed
  dups      \* datagrams duplicated so far

vars == <<sk, reg, acceptQ, bs, rq, rw, closed, stop, spc, apc, cpc, sstop, sent, dlv, rfx, dups>>

-----------------------------------------------------------------------------
(* b.mu                                                                    *)

CanRLock(n) == rw[n].w = None /\ rw[n].wq = {}
CanLock(n, who) == rw[n].w = None /\ rw[n].r = {} /\ who \in rw[n].wq
WithRLock(l, who) == [l EXCEPT !.r = @ \cup {who}]
WithoutRLock(l, who) == [l EXCEPT !.r = @ \ {who}]
WaitLock(l, who) == [l EXCEPT !.wq = @ \cup {who}]

-----------------------------------------------------------------------------
(* The socket layer                                                        *)

NewSock(n, kind, st, partner) ==
  [node |-> n, peer |-> Peer(n), kind |-> kind, st |-> st, closed |-> FALSE,
   partner |-> partner, inq |-> <<>>, h |-> "none", hbuf |-> None]

NextId == Cardinality(DOMAIN sk) + 1

\* Socket.Send then the peer stack's handlePacket: the datagram goes to
\* whatever socket the peer maps the tuple to.  An acceptor still in
\* Accept's loop takes the packet (it has the ACK bit) as the handshake's
\* ACK: it goes Established, is pushed to the accept queue, and the
\* payload is lost.  Otherwise the datagram reaches the incoming queue
\* once or, duplicated by the network, twice, each copy dropped when that
\* socket is closed or its queue is full.  sock.Send fails unless
\* Established.
SockSend(x, m) ==
  LET s == sk[x]
      z == reg[s.peer][s.node]
      room == IF z # None /\ ~sk[z].closed THEN SockQueueSize - Len(sk[z].inq) ELSE 0
  IN
  IF s.st = "Established" /\ ~s.closed
    THEN /\ sent' = [sent EXCEPT ![s.node] = @ \cup {m}]
         /\ IF z # None /\ sk[z].kind = "accepted" /\ sk[z].st = "SynReceived"
              THEN /\ sk' = [sk EXCEPT ![z].st = "Established"]
                   /\ acceptQ' = [acceptQ EXCEPT ![s.peer] = Append(@, z)]
                   /\ UNCHANGED dups
              ELSE /\ \E k \in IF dups < MaxDup THEN {1, 2} ELSE {1} :
                        /\ sk' = IF room > 0
                                  THEN [sk EXCEPT ![z].inq = @ \o [i \in 1..Min({k, room}) |-> m]]
                                  ELSE sk
                        /\ dups' = dups + k - 1
                   /\ UNCHANGED acceptQ
    ELSE UNCHANGED <<sk, sent, dups, acceptQ>>

\* Socket.Close: closed flag, state Closed, unregisterSocket by tuple.
CloseSock(x) ==
  /\ sk' = [sk EXCEPT ![x].closed = TRUE, ![x].st = "Closed"]
  /\ reg' = [reg EXCEPT ![sk[x].node][sk[x].peer] = None]

\* The peer's handlePacket takes dialer x's SYN: a free tuple gets a new
\* Idle socket, registered, whose Accept goroutine starts.
HandleSyn(x) ==
  LET s == sk[x] IN
  /\ s.kind = "dialed" /\ s.st = "SynSent"
  /\ IF s.partner = None THEN TRUE ELSE sk[s.partner].st = "Closed"
  /\ reg[s.peer][s.node] = None /\ ~sstop[s.peer]
  /\ NextId <= MaxSockets
  /\ sk' = [sk EXCEPT ![x].partner = NextId] @@ (NextId :> NewSock(s.peer, "accepted", "SynReceived", x))
  /\ reg' = [reg EXCEPT ![s.peer][s.node] = NextId]
  /\ UNCHANGED <<acceptQ, bs, rq, rw, closed, stop, spc, apc, cpc, sstop, sent, dlv, rfx, dups>>

\* An Accept goroutine gives up (no ACK within RetryCount): sock.Close().
AcceptFail(y) ==
  /\ sk[y].kind = "accepted" /\ sk[y].st = "SynReceived"
  /\ CloseSock(y)
  /\ UNCHANGED <<acceptQ, bs, rq, rw, closed, stop, spc, apc, cpc, sstop, sent, dlv, rfx, dups>>

-----------------------------------------------------------------------------
(* Bind.Send, by sender goroutine t of node n                              *)

Who(t) == <<"send", t>>
InUse == UNION {sent[k] : k \in Nodes} \cup {spc[k][t].msg : k \in Nodes, t \in Senders}

\* Under RLock (the closed check returns ErrClosed and changes nothing): a
\* socket in b.sockets gets the datagram; otherwise Stack.Connect creates
\* a dialing socket, registers it over whatever holds the tuple, and the
\* goroutine blocks in Socket.Connect still holding the RLock.
SendStart(n, t) ==
  LET x == NextId IN
  /\ n \in SendNodes /\ spc[n][t].pc = "idle"
  /\ CanRLock(n) /\ ~closed[n]
  /\ \E m \in Msgs \ InUse :
       IF bs[n] # None
         THEN /\ SockSend(bs[n], m)
              /\ UNCHANGED <<reg, rw, spc>>
         ELSE /\ x <= MaxSockets
              /\ sk' = sk @@ (x :> NewSock(n, "dialed", "SynSent", None))
              /\ reg' = [reg EXCEPT ![n][Peer(n)] = x]
              /\ rw' = [rw EXCEPT ![n] = WithRLock(@, Who(t))]
              /\ spc' = [spc EXCEPT ![n][t] = [pc |-> "dial", sock |-> x, msg |-> m]]
              /\ UNCHANGED <<sent, dups, acceptQ>>
  /\ UNCHANGED <<bs, rq, closed, stop, apc, cpc, sstop, dlv, rfx>>

\* The handshake completes for dialer x with the acceptor y the peer maps
\* the tuple to: its SYN|ACK reaches x (x is still registered), x goes
\* Established and sends the final ACK.  y may be the acceptor of an
\* earlier dialer that failed: Connect takes any SYN|ACK and Accept any
\* packet with the ACK bit.  When the final ACK arrives y is Established
\* and pushed to the peer's accept queue; when it is lost y stays in
\* SynReceived and later fails (the half-open outcome).  The sender drops
\* its RLock and waits for Lock.
ConnectOk(n, t) ==
  LET x == spc[n][t].sock
      y == reg[Peer(n)][n]
  IN
  /\ spc[n][t].pc = "dial"
  /\ y # None /\ sk[y].kind = "accepted" /\ sk[y].st = "SynReceived"
  /\ reg[n][Peer(n)] = x
  /\ \/ /\ sk' = [sk EXCEPT ![x].st = "Established", ![y].st = "Established"]
        /\ acceptQ' = [acceptQ EXCEPT ![Peer(n)] = Append(@, y)]
     \/ /\ sk' = [sk EXCEPT ![x].st = "Established"]
        /\ UNCHANGED acceptQ
  /\ rw' = [rw EXCEPT ![n] = WaitLock(WithoutRLock(@, Who(t)), Who(t))]
  /\ spc' = [spc EXCEPT ![n][t].pc = "store"]
  /\ UNCHANGED <<reg, bs, rq, closed, stop, apc, cpc, sstop, sent, dlv, rfx, dups>>

\* Connect fails (RetryCount without SYN|ACK): state Closed, Stack.Connect
\* unregisters the tuple, whichever socket it maps to now; Send returns.
ConnectFail(n, t) ==
  LET x == spc[n][t].sock IN
  /\ spc[n][t].pc = "dial"
  /\ sk' = [sk EXCEPT ![x].st = "Closed"]
  /\ reg' = [reg EXCEPT ![n][Peer(n)] = None]
  /\ rw' = [rw EXCEPT ![n] = WithoutRLock(@, Who(t))]
  /\ spc' = [spc EXCEPT ![n][t] = [pc |-> "idle", sock |-> None, msg |-> None]]
  /\ UNCHANGED <<acceptQ, bs, rq, closed, stop, apc, cpc, sstop, sent, dlv, rfx, dups>>

\* Lock, b.sockets[remote] = sock (over any socket stored there), Unlock.
SendStore(n, t) ==
  /\ spc[n][t].pc = "store"
  /\ CanLock(n, Who(t))
  /\ bs' = [bs EXCEPT ![n] = spc[n][t].sock]
  /\ rw' = [rw EXCEPT ![n].wq = @ \ {Who(t)}]
  /\ spc' = [spc EXCEPT ![n][t].pc = "resend"]
  /\ UNCHANGED <<sk, reg, acceptQ, rq, closed, stop, apc, cpc, sstop, sent, dlv, rfx, dups>>

\* RLock again, then sock.Send on the new socket.
SendResend(n, t) ==
  /\ spc[n][t].pc = "resend"
  /\ CanRLock(n)
  /\ SockSend(spc[n][t].sock, spc[n][t].msg)
  /\ spc' = [spc EXCEPT ![n][t] = [pc |-> "idle", sock |-> None, msg |-> None]]
  /\ UNCHANGED <<reg, bs, rq, rw, closed, stop, apc, cpc, sstop, dlv, rfx>>

-----------------------------------------------------------------------------
(* acceptLoop, handleSocket and the receive functions                      *)

\* Stack.Accept returns the next socket; acceptLoop then calls b.mu.Lock.
AcceptTake(n) ==
  /\ apc[n].pc = "accept"
  /\ acceptQ[n] # <<>>
  /\ acceptQ' = [acceptQ EXCEPT ![n] = Tail(@)]
  /\ apc' = [apc EXCEPT ![n] = [pc |-> "store", sock |-> Head(acceptQ[n])]]
  /\ rw' = [rw EXCEPT ![n] = WaitLock(@, <<"accept", 0>>)]
  /\ UNCHANGED <<sk, reg, bs, rq, closed, stop, spc, cpc, sstop, sent, dlv, rfx, dups>>

\* b.sockets[remote] = sock under Lock (over any socket stored there), and
\* go b.handleSocket(sock).
AcceptStore(n) ==
  /\ apc[n].pc = "store"
  /\ CanLock(n, <<"accept", 0>>)
  /\ bs' = [bs EXCEPT ![n] = apc[n].sock]
  /\ sk' = [sk EXCEPT ![apc[n].sock].h = "recv"]
  /\ rw' = [rw EXCEPT ![n].wq = @ \ {<<"accept", 0>>}]
  /\ apc' = [apc EXCEPT ![n] = [pc |-> "accept", sock |-> None]]
  /\ UNCHANGED <<reg, acceptQ, rq, closed, stop, spc, cpc, sstop, sent, dlv, rfx, dups>>

\* Stack.Accept fails only once the stack's stopChan is closed; acceptLoop
\* then returns if b.stopChan is closed (acceptWg.Done) and loops if not.
AcceptExit(n) ==
  /\ apc[n].pc = "accept" /\ sstop[n] /\ stop[n]
  /\ apc' = [apc EXCEPT ![n].pc = "exit"]
  /\ UNCHANGED <<sk, reg, acceptQ, bs, rq, rw, closed, stop, spc, cpc, sstop, sent, dlv, rfx, dups>>

\* sock.Recv returns the next datagram of the incoming queue.
HsRecvData(y) ==
  /\ sk[y].h = "recv" /\ sk[y].st = "Established"
  /\ sk[y].inq # <<>>
  /\ sk' = [sk EXCEPT ![y].hbuf = Head(sk[y].inq), ![y].inq = Tail(sk[y].inq), ![y].h = "push"]
  /\ UNCHANGED <<reg, acceptQ, bs, rq, rw, closed, stop, spc, apc, cpc, sstop, sent, dlv, rfx, dups>>

\* sock.Recv fails (not Established, or closeChan closed): sock.Close()
\* (a no-op when already closed), then Lock to delete b.sockets[remote].
HsRecvErr(y) ==
  LET n == sk[y].node IN
  /\ sk[y].h = "recv"
  /\ sk[y].st # "Established" \/ sk[y].closed
  /\ sk' = [sk EXCEPT ![y].closed = TRUE, ![y].st = "Closed", ![y].h = "lock"]
  /\ reg' = IF sk[y].closed THEN reg ELSE [reg EXCEPT ![n][sk[y].peer] = None]
  /\ rw' = [rw EXCEPT ![n] = WaitLock(@, <<"handle", y>>)]
  /\ UNCHANGED <<acceptQ, bs, rq, closed, stop, spc, apc, cpc, sstop, sent, dlv, rfx, dups>>

\* Under Lock: delete(b.sockets, remote), whichever socket is stored there.
HsForget(y) ==
  LET n == sk[y].node IN
  /\ sk[y].h = "lock"
  /\ CanLock(n, <<"handle", y>>)
  /\ bs' = [bs EXCEPT ![n] = None]
  /\ rw' = [rw EXCEPT ![n].wq = @ \ {<<"handle", y>>}]
  /\ sk' = [sk EXCEPT ![y].h = "exit"]
  /\ UNCHANGED <<reg, acceptQ, rq, closed, stop, spc, apc, cpc, sstop, sent, dlv, rfx, dups>>

\* select: recvQueue <- pkt (when it has room) ...
HsPush(y) ==
  LET n == sk[y].node IN
  /\ sk[y].h = "push"
  /\ Len(rq[n]) < RecvQueueSize
  /\ rq' = [rq EXCEPT ![n] = Append(@, sk[y].hbuf)]
  /\ sk' = [sk EXCEPT ![y].h = "recv", ![y].hbuf = None]
  /\ UNCHANGED <<reg, acceptQ, bs, rw, closed, stop, spc, apc, cpc, sstop, sent, dlv, rfx, dups>>

\* ... or <-b.stopChan: the goroutine returns, dropping the datagram.
HsStop(y) ==
  /\ sk[y].h = "push" /\ stop[sk[y].node]
  /\ sk' = [sk EXCEPT ![y].h = "exit", ![y].hbuf = None]
  /\ UNCHANGED <<reg, acceptQ, bs, rq, rw, closed, stop, spc, apc, cpc, sstop, sent, dlv, rfx, dups>>

\* A ReceiveFunc returns the head of recvQueue to WireGuard ...
ReceiveFunc(n) ==
  /\ ~rfx[n]
  /\ rq[n] # <<>>
  /\ dlv' = [dlv EXCEPT ![n] = Append(@, Head(rq[n]))]
  /\ rq' = [rq EXCEPT ![n] = Tail(@)]
  /\ UNCHANGED <<sk, reg, acceptQ, bs, rw, closed, stop, spc, apc, cpc, sstop, sent, rfx, dups>>

\* ... or, once b.stopChan is closed, net.ErrClosed, on which WireGuard's
\* receive goroutines stop calling it.
ReceiveClosed(n) ==
  /\ ~rfx[n] /\ stop[n]
  /\ rfx' = [rfx EXCEPT ![n] = TRUE]
  /\ UNCHANGED <<sk, reg, acceptQ, bs, rq, rw, closed, stop, spc, apc, cpc, sstop, sent, dlv, dups>>

-----------------------------------------------------------------------------
(* Bind.Close                                                              *)

CloseBegin(n) ==
  /\ n \in Closers /\ cpc[n] = "idle"
  /\ rw' = [rw EXCEPT ![n] = WaitLock(@, <<"close", 0>>)]
  /\ cpc' = [cpc EXCEPT ![n] = "lock"]
  /\ UNCHANGED <<sk, reg, acceptQ, bs, rq, closed, stop, spc, apc, sstop, sent, dlv, rfx, dups>>

\* Lock, closed = true, Unlock (the closed check before it never finds
\* the flag set: only this goroutine sets it).
CloseMark(n) ==
  /\ cpc[n] = "lock" /\ CanLock(n, <<"close", 0>>)
  /\ closed' = [closed EXCEPT ![n] = TRUE]
  /\ rw' = [rw EXCEPT ![n].wq = @ \ {<<"close", 0>>}]
  /\ cpc' = [cpc EXCEPT ![n] = "stop"]
  /\ UNCHANGED <<sk, reg, acceptQ, bs, rq, stop, spc, apc, sstop, sent, dlv, rfx, dups>>

\* close(b.stopChan); then acceptWg.Wait().
CloseStop(n) ==
  /\ cpc[n] = "stop"
  /\ stop' = [stop EXCEPT ![n] = TRUE]
  /\ cpc' = [cpc EXCEPT ![n] = "wait"]
  /\ UNCHANGED <<sk, reg, acceptQ, bs, rq, rw, closed, spc, apc, sstop, sent, dlv, rfx, dups>>

\* acceptLoop has returned: under Lock close the socket in b.sockets and
\* clear the map, then Stack.Close closes its stopChan and every socket
\* it still maps.
CloseFinish(n) ==
  LET mine == {x \in DOMAIN sk : sk[x].node = n /\ (x = bs[n] \/ x \in Range(reg[n]))} IN
  /\ cpc[n] = "wait" /\ apc[n].pc = "exit"
  /\ rw[n].w = None /\ rw[n].r = {}
  /\ sk' = [x \in DOMAIN sk |-> IF x \in mine THEN [sk[x] EXCEPT !.closed = TRUE, !.st = "Closed"]
                                              ELSE sk[x]]
  /\ reg' = [reg EXCEPT ![n] = [r \in Nodes |-> None]]
  /\ bs' = [bs EXCEPT ![n] = None]
  /\ sstop' = [sstop EXCEPT ![n] = TRUE]
  /\ cpc' = [cpc EXCEPT ![n] = "done"]
  /\ UNCHANGED <<acceptQ, rq, rw, closed, stop, spc, apc, sent, dlv, rfx, dups>>

-----------------------------------------------------------------------------

Init ==
  /\ sk = <<>>
  /\ reg = [n \in Nodes |-> [r \in Nodes |-> None]]
  /\ acceptQ = [n \in Nodes |-> <<>>]
  /\ bs = [n \in Nodes |-> None]
  /\ rq = [n \in Nodes |-> <<>>]
  /\ rw = [n \in Nodes |-> [r |-> {}, w |-> None, wq |-> {}]]
  /\ closed = [n \in Nodes |-> FALSE]
  /\ stop = [n \in Nodes |-> FALSE]
  /\ spc = [n \in Nodes |-> [t \in Senders |-> [pc |-> "idle", sock |-> None, msg |-> None]]]
  /\ apc = [n \in Nodes |-> [pc |-> "accept", sock |-> None]]
  /\ cpc = [n \in Nodes |-> "idle"]
  /\ sstop = [n \in Nodes |-> FALSE]
  /\ sent = [n \in Nodes |-> {}]
  /\ dlv = [n \in Nodes |-> <<>>]
  /\ rfx = [n \in Nodes |-> FALSE]
  /\ dups = 0

\* The steps a goroutine of a node takes once running; SendStart and
\* CloseBegin are WireGuard's calls.
SenderStep(n, t) == ConnectOk(n, t) \/ ConnectFail(n, t) \/ SendStore(n, t) \/ SendResend(n, t)
HandlerStep(y) == HsRecvData(y) \/ HsRecvErr(y) \/ HsForget(y) \/ HsPush(y) \/ HsStop(y)

\* AcceptExit and CloseFinish are left out of Next: AcceptExit needs the
\* stack's stopChan closed, which only CloseFinish does, and CloseFinish
\* needs AcceptExit, so neither step can ever be taken.  handleSocket's
\* error path (HsRecvErr, HsForget) is left out with them: Recv fails only
\* on a socket that is closed or not Established, a socket is handed to
\* handleSocket Established, and only CloseFinish closes it (Recv's parse
\* check cannot fail: handlePacket parsed the same bytes).  NextClose keeps
\* all four, for the run that checks Close.
Next ==
  \/ \E n \in Nodes, t \in Senders : SendStart(n, t)
  \/ \E n \in Nodes, t \in Senders : ConnectOk(n, t)
  \/ \E n \in Nodes, t \in Senders : ConnectFail(n, t)
  \/ \E n \in Nodes, t \in Senders : SendStore(n, t)
  \/ \E n \in Nodes, t \in Senders : SendResend(n, t)
  \/ \E x \in DOMAIN sk : HandleSyn(x)
  \/ \E y \in DOMAIN sk : AcceptFail(y)
  \/ \E n \in Nodes : AcceptTake(n)
  \/ \E n \in Nodes : AcceptStore(n)
  \/ \E y \in DOMAIN sk : HsRecvData(y)
  \/ \E y \in DOMAIN sk : HsPush(y)
  \/ \E y \in DOMAIN sk : HsStop(y)
  \/ \E n \in Nodes : ReceiveFunc(n)
  \/ \E n \in Nodes : ReceiveClosed(n)
  \/ \E n \in Nodes : CloseBegin(n)
  \/ \E n \in Nodes : CloseMark(n)
  \/ \E n \in Nodes : CloseStop(n)

NextClose ==
  \/ Next
  \/ \E n \in Nodes : AcceptExit(n) \/ CloseFinish(n)
  \/ \E y \in DOMAIN sk : HsRecvErr(y) \/ HsForget(y)

\* Goroutines that are running make progress: the senders inside Send
\* (Connect ends within RetryCount * ConnTimeout), the stack's readers
\* taking SYNs, the Accept goroutines (they give up within RetryCount
\* timeouts), acceptLoop, handleSocket, WireGuard's receive goroutines
\* (they call the ReceiveFuncs in a loop) and the goroutine in Close.
Fairness ==
  /\ \A n \in Nodes, t \in Senders : WF_vars(SenderStep(n, t))
  /\ \A x \in SockId : WF_vars(x \in DOMAIN sk /\ HandleSyn(x))
  /\ \A y \in SockId : WF_vars(y \in DOMAIN sk /\ AcceptFail(y))
  /\ \A y \in SockId : WF_vars(y \in DOMAIN sk /\ HandlerStep(y))
  /\ \A n \in Nodes : WF_vars(AcceptTake(n) \/ AcceptStore(n) \/ AcceptExit(n))
  /\ \A n \in Nodes : WF_vars(ReceiveFunc(n) \/ ReceiveClosed(n))
  /\ \A n \in Nodes : WF_vars(CloseMark(n) \/ CloseStop(n) \/ CloseFinish(n))

Spec == Init /\ [][Next]_vars /\ Fairness
SpecClose == Init /\ [][NextClose]_vars /\ Fairness

-----------------------------------------------------------------------------
(* Properties                                                              *)

SockRec == [node : Nodes, peer : Nodes, kind : {"dialed", "accepted"},
            st : {"SynSent", "SynReceived", "Established", "Closed"}, closed : BOOLEAN,
            partner : SockId \cup {None}, inq : Seq(Msgs),
            h : {"none", "recv", "push", "lock", "exit"}, hbuf : Msgs \cup {None}]

TypeOK ==
  /\ DOMAIN sk \subseteq SockId
  /\ \A x \in DOMAIN sk : sk[x] \in SockRec /\ Len(sk[x].inq) <= SockQueueSize
  /\ reg \in [Nodes -> [Nodes -> SockId \cup {None}]]
  /\ bs \in [Nodes -> SockId \cup {None}]
  /\ \A n \in Nodes : rq[n] \in Seq(Msgs) /\ Len(rq[n]) <= RecvQueueSize
  /\ spc \in [Nodes -> [Senders -> [pc : {"idle", "dial", "store", "resend"},
                                    sock : SockId \cup {None}, msg : Msgs \cup {None}]]]
  /\ cpc \in [Nodes -> {"idle", "lock", "stop", "wait", "done"}]

(* The socket the bind sends on is the one its stack delivers the tuple's  *)
(* packets to: an open socket in b.sockets is the socket Stack.sockets     *)
(* maps its tuple to.  Broken when a second Connect's registration, or its *)
(* unregisterSocket by tuple on failure, hits the tuple of the socket that *)
(* Send stored.                                                            *)
HeldSocketRegistered ==
  \A n \in Nodes : (bs[n] # None /\ ~sk[bs[n]].closed) => reg[n][Peer(n)] = bs[n]

(* A datagram that reached the incoming queue of an open socket is         *)
(* eventually returned by the node's receive functions, unless the bind    *)
(* is closed or the socket is: every socket that carries traffic is read.  *)
EnqueuedDelivered ==
  \A x \in SockId, m \in Msgs :
    (x \in DOMAIN sk /\ ~sk[x].closed /\ m \in ToSet(sk[x].inq))
      ~> (x \in DOMAIN sk /\ (m \in ToSet(dlv[sk[x].node]) \/ sk[x].closed \/ stop[sk[x].node]))

(* Bind.Close returns.                                                     *)
CloseReturns ==
  \A n \in Nodes : cpc[n] \in {"lock", "stop", "wait"} ~> cpc[n] = "done"

=============================================================================
