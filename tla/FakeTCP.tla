------------------------------- MODULE FakeTCP -------------------------------
(***************************************************************************)
(* The pseudo-TCP carrier: the per-connection Socket state machine         *)
(* (faketcp/socket.go, src/unnamed/part_000) and the Stack that owns the   *)
(* TUN device, demultiplexes arriving packets by address tuple, listens    *)
(* and accepts (src/faketcp/stack.go).                                     *)
(*                                                                         *)
(* Every node runs one Stack on one port (the bind listens and dials on    *)
(* the same port), so a connection tuple (local, remote) is identified by  *)
(* the pair of nodes.  Packets travel through a network that may lose,     *)
(* duplicate and reorder them.  A Socket's Connect and Accept loops run in *)
(* their own goroutines: each loop iteration is a step, the timer of       *)
(* time.After(ConnTimeout) is a step that may fire at any point of a wait, *)
(* so a late answer can race the timeout.  seq/ack are uint32 counters;    *)
(* the model keeps their wraparound with a modulus of 2^SeqBits.           *)
(***************************************************************************)
EXTENDS Integers, Sequences, FiniteSets, TLC

CONSTANTS
  Nodes,             \* the hosts; each has one Stack listening on the port
  Dialers,           \* the nodes whose user calls Stack.Connect
  Closers,           \* the nodes whose user may Close a socket it holds
  ISN,               \* values rand.Uint32() may give a new socket's seq
  PayloadLen,        \* payload sizes of a user Send
  RetryCount,        \* RetryCount = 6 in socket.go
  IncomingQueueSize, \* capacity of Socket.incoming (512 in socket.go)
  SeqBits,           \* width of seq/ack (32 in the code)
  MaxSockets,        \* bound: sockets ever created, over all nodes
  MaxLoss,           \* bound: packets lost by the network or by a failed TUN write
  MaxDup,            \* bound: packets the network duplicates
  MaxSends,          \* bound: user Sends
  NoSock             \* model value: no socket registered

ASSUME
  /\ Dialers \subseteq Nodes /\ Closers \subseteq Nodes
  /\ RetryCount \in Nat \ {0} /\ IncomingQueueSize \in Nat \ {0}
  /\ SeqBits \in 6..30

Modulus == 2 ^ SeqBits
\* MaxUnackedLen = 128 MiB = 2^32 / 32; kept at the same share of the width.
MaxUnackedLen == Modulus \div 32

ASSUME ISN \subseteq 0..(Modulus - 1) /\ PayloadLen \subseteq 1..(Modulus - 1)

\* The flags of the packets the code builds, as sets of flag names.
SYN    == {"SYN"}
ACK    == {"ACK"}
SYNACK == {"SYN", "ACK"}

States == {"Idle", "SynSent", "SynReceived", "Established", "Closed"}

(* Where the goroutine that owns a socket is:                              *)
(*   "syn"     Connect, at the top of its retry loop (about to send SYN)   *)
(*   "synWait" Connect, in the select waiting for SYN|ACK                  *)
(*   "accept"  the goroutine handlePacket spawned, before Accept runs      *)
(*   "ackWait" Accept, in the select waiting for an ACK                    *)
(*   "queued"  Accept succeeded; the socket waits in Stack.acceptQueue     *)
(*   "user"    the handshake returned the socket to its user               *)
(*   "unregC"  Connect returned its error; Stack.Connect will unregister   *)
(*   "unreg"   sock.Close flipped closed; it will unregister the tuple     *)
(*   "done"    the handshake failed, or the user closed the socket         *)
PCs == {"syn", "synWait", "accept", "ackWait", "queued", "user", "unregC", "unreg", "done"}

SockId == 1..MaxSockets

Packet == [src : Nodes, dst : Nodes, seq : 0..(Modulus - 1),
           ack : 0..(Modulus - 1), flags : {SYN, ACK, SYNACK},
           len : {0} \cup PayloadLen]

VARIABLES
  sock,     \* [allocated SockId -> socket record]
  reg,      \* reg[n][r]: the socket Stack n maps tuple (n, r) to (Stack.sockets)
  acceptQ,  \* acceptQ[n]: Stack.acceptQueue of node n
  caller,   \* caller[n]: "busy" while n's user is inside Stack.Connect
  rdr,      \* rdr[n]: {p} while n's reader holds SYN p it found no socket for
  net,      \* packets in flight between the TUN devices
  lost,     \* packets lost and TUN writes failed so far
  dups,     \* packets duplicated so far
  sends     \* user Sends so far

vars == <<sock, reg, acceptQ, caller, rdr, net, lost, dups, sends>>

Peer(n) == CHOOSE r \in Nodes : r # n

-----------------------------------------------------------------------------
(* Helpers                                                                 *)

\* sendPacket: build a packet from the socket's current seq and ack.
PacketOf(s, flags, len) ==
  [src |-> s.node, dst |-> s.peer, seq |-> s.seq, ack |-> s.ack,
   flags |-> flags, len |-> len]

\* A live socket: one whose goroutine or user can still use it.
Live(id) == sock[id].state \in {"SynSent", "SynReceived", "Established"}
              /\ ~sock[id].closed

\* The user of node n holds an open socket to r (the bind's check of
\* b.sockets[remoteAddr] before it calls Stack.Connect).
Holds(n, r) ==
  \E id \in DOMAIN sock : /\ sock[id].node = n /\ sock[id].peer = r
                          /\ sock[id].pc = "user" /\ ~sock[id].closed

NewSocket(n, r, st, pc, isn, synSeq) ==
  [node |-> n, peer |-> r, state |-> st, seq |-> isn, ack |-> 0,
   lastAck |-> 0, closed |-> FALSE, inq |-> <<>>, pc |-> pc, tries |-> 0,
   peerIsn |-> synSeq, dialed |-> (pc = "syn"), wasEst |-> FALSE]

\* unregisterSocket: delete the tuple, whichever socket it maps to now.
Unregister(n, r) == reg' = [reg EXCEPT ![n][r] = NoSock]

-----------------------------------------------------------------------------
(* Stack.Connect and Socket.Connect (active open)                          *)

\* Stack.Connect: create a socket, register it under its tuple (replacing
\* any socket registered there), and enter Socket.Connect: Idle -> SynSent.
StackConnect(n) ==
  /\ n \in Dialers
  /\ caller[n] = "idle"
  /\ Cardinality(DOMAIN sock) < MaxSockets
  /\ ~Holds(n, Peer(n))
  /\ \E isn \in ISN :
       LET id == Cardinality(DOMAIN sock) + 1 IN
       /\ sock' = sock @@ (id :> NewSocket(n, Peer(n), "SynSent", "syn", isn, 0))
       /\ reg' = [reg EXCEPT ![n][Peer(n)] = id]
  /\ caller' = [caller EXCEPT ![n] = "busy"]
  /\ UNCHANGED <<acceptQ, rdr, net, lost, dups, sends>>

\* Mutant: the retry loop runs one iteration too many (i <= RetryCount).
ConnectSendSynLe(id) ==
  /\ sock[id].pc = "syn"
  /\ sock[id].tries <= RetryCount
  /\ net' = net \cup {PacketOf(sock[id], SYN, 0)}
  /\ sock' = [sock EXCEPT ![id].pc = "synWait"]
  /\ UNCHANGED <<reg, acceptQ, caller, rdr, lost, dups, sends>>

\* One iteration of the retry loop: send SYN, then wait.  When the TUN
\* write fails the goroutine sleeps ConnTimeout and the iteration is used
\* up without a SYN sent.
ConnectSendSyn(id) ==
  /\ sock[id].pc = "syn"
  /\ sock[id].tries < RetryCount
  /\ \/ /\ net' = net \cup {PacketOf(sock[id], SYN, 0)}
        /\ sock' = [sock EXCEPT ![id].pc = "synWait"]
        /\ UNCHANGED lost
     \/ /\ lost < MaxLoss
        /\ lost' = lost + 1
        /\ sock' = [sock EXCEPT ![id].tries = @ + 1]
        /\ UNCHANGED net
  /\ UNCHANGED <<reg, acceptQ, caller, rdr, dups, sends>>

\* A packet from the incoming queue: SYN|ACK sets seq+1 and ack = its
\* seq+1, then sends ACK and goes Established; a failed ACK write
\* continues the loop with seq and ack already advanced.  Any other
\* packet ends the iteration.
ConnectRecv(id) ==
  LET s == sock[id]
      p == Head(s.inq)
      adv == [s EXCEPT !.seq = (s.seq + 1) % Modulus,
                       !.ack = (p.seq + 1) % Modulus,
                       !.lastAck = (p.seq + 1) % Modulus,
                       !.inq = Tail(s.inq)]
      est == [adv EXCEPT !.state = "Established", !.pc = "user", !.wasEst = TRUE]
  IN
  /\ s.pc = "synWait"
  /\ s.inq # <<>>
  /\ IF p.flags = SYNACK
       THEN \/ /\ sock' = [sock EXCEPT ![id] = est]
               /\ net' = net \cup {PacketOf(est, ACK, 0)}
               /\ caller' = [caller EXCEPT ![s.node] = "idle"]
               /\ UNCHANGED lost
            \/ /\ lost < MaxLoss
               /\ lost' = lost + 1
               /\ sock' = [sock EXCEPT ![id] = [adv EXCEPT !.pc = "syn", !.tries = s.tries + 1]]
               /\ UNCHANGED <<net, caller>>
       ELSE /\ sock' = [sock EXCEPT ![id].inq = Tail(s.inq), ![id].pc = "syn",
                                    ![id].tries = s.tries + 1]
            /\ UNCHANGED <<net, caller, lost>>
  /\ UNCHANGED <<reg, acceptQ, rdr, dups, sends>>

\* Mutant: a timeout that does not use up an iteration of the retry loop.
ConnectTimeoutNoCount(id) ==
  /\ sock[id].pc = "synWait"
  /\ sock' = [sock EXCEPT ![id].pc = "syn"]
  /\ UNCHANGED <<reg, acceptQ, caller, rdr, net, lost, dups, sends>>

\* time.After(ConnTimeout) fires: the next iteration resends SYN.
ConnectTimeout(id) ==
  /\ sock[id].pc = "synWait"
  /\ sock' = [sock EXCEPT ![id].pc = "syn", ![id].tries = sock[id].tries + 1]
  /\ UNCHANGED <<reg, acceptQ, caller, rdr, net, lost, dups, sends>>

\* RetryCount iterations without SYN|ACK: Socket.Connect sets Closed and
\* returns its error (the closed flag stays false).
ConnectGiveUp(id) ==
  /\ sock[id].pc = "syn"
  /\ sock[id].tries = RetryCount
  /\ sock' = [sock EXCEPT ![id].state = "Closed", ![id].pc = "unregC"]
  /\ UNCHANGED <<reg, acceptQ, caller, rdr, net, lost, dups, sends>>

\* unregisterSocket, called by Stack.Connect after the failed Connect
\* (which then returns to its user) or by sock.Close after it flipped
\* closed: delete the tuple, whichever socket it maps to now.
SockUnregister(id) ==
  LET s == sock[id] IN
  /\ s.pc \in {"unregC", "unreg"}
  /\ Unregister(s.node, s.peer)
  /\ sock' = [sock EXCEPT ![id].pc = "done"]
  /\ caller' = IF s.pc = "unregC" THEN [caller EXCEPT ![s.node] = "idle"] ELSE caller
  /\ UNCHANGED <<acceptQ, rdr, net, lost, dups, sends>>

-----------------------------------------------------------------------------
(* Stack.packetReader / handlePacket and Socket.handleIncoming             *)

\* The reader of node n takes a packet from the TUN (the network may keep
\* a copy: a duplicate) and looks its tuple up under RLock.  A registered
\* socket gets it through handleIncoming: appended to the incoming queue,
\* or dropped when the socket is closed or the queue is full.  A pure SYN
\* to the listening port (the bind always listens on it) is kept for
\* registration after the RUnlock; anything else is dropped.
HandleLookup(n) ==
  /\ rdr[n] = {}
  /\ \E p \in net :
    /\ p.dst = n
    /\ \E keep \in IF dups < MaxDup THEN BOOLEAN ELSE {FALSE} :
         /\ net' = IF keep THEN net ELSE net \ {p}
         /\ dups' = IF keep THEN dups + 1 ELSE dups
    /\ LET id == reg[n][p.src] IN
       IF id # NoSock
         THEN /\ sock' = IF sock[id].closed \/ Len(sock[id].inq) = IncomingQueueSize
                           THEN sock
                           ELSE [sock EXCEPT ![id].inq = Append(@, p)]
              /\ UNCHANGED rdr
         ELSE /\ rdr' = [rdr EXCEPT ![n] = IF p.flags = SYN THEN {p} ELSE {}]
              /\ UNCHANGED sock
  /\ UNCHANGED <<reg, acceptQ, caller, lost, sends>>

\* Under Lock, s.sockets[tuple] = a new Idle socket (over whatever was
\* registered since the lookup), and its Accept goroutine starts.  The
\* model's socket bound drops the SYN instead once MaxSockets exist.
HandleRegister(n) ==
  /\ rdr[n] # {}
  /\ LET p == CHOOSE q \in rdr[n] : TRUE
         new == Cardinality(DOMAIN sock) + 1
     IN IF new <= MaxSockets
          THEN /\ \E isn \in ISN :
                    sock' = sock @@ (new :> NewSocket(n, p.src, "Idle", "accept", isn, p.seq))
               /\ reg' = [reg EXCEPT ![n][p.src] = new]
          ELSE UNCHANGED <<sock, reg>>
  /\ rdr' = [rdr EXCEPT ![n] = {}]
  /\ UNCHANGED <<acceptQ, caller, net, lost, dups, sends>>

-----------------------------------------------------------------------------
(* Socket.Accept (passive open), run by the goroutine handlePacket spawns  *)

\* Idle -> SynReceived, ack = SYN's seq + 1, send SYN|ACK.  A failed
\* write sets Closed and returns the error, and the goroutine calls
\* sock.Close().
AcceptBegin(id) ==
  LET s == sock[id]
      sr == [s EXCEPT !.state = "SynReceived", !.ack = (s.peerIsn + 1) % Modulus,
                      !.lastAck = (s.peerIsn + 1) % Modulus, !.pc = "ackWait"]
  IN
  /\ s.pc = "accept"
  /\ s.state = "Idle"
  /\ \/ /\ sock' = [sock EXCEPT ![id] = sr]
        /\ net' = net \cup {PacketOf(sr, SYNACK, 0)}
        /\ UNCHANGED lost
     \/ /\ lost < MaxLoss /\ lost' = lost + 1
        /\ sock' = [sock EXCEPT ![id] = [sr EXCEPT !.state = "Closed", !.closed = TRUE,
                                                   !.pc = "unreg"]]
        /\ UNCHANGED net
  /\ UNCHANGED <<reg, acceptQ, caller, rdr, dups, sends>>

\* Mutant of AcceptRecv: a loop that takes any packet as the handshake's ACK.
AcceptRecvWith(id, isAck(_)) ==
  LET s == sock[id]
      p == Head(s.inq)
  IN
  /\ s.pc = "ackWait"
  /\ s.tries < RetryCount
  /\ s.inq # <<>>
  /\ IF isAck(p)
       THEN /\ sock' = [sock EXCEPT ![id].inq = Tail(s.inq), ![id].state = "Established",
                                    ![id].seq = (s.seq + 1) % Modulus, ![id].pc = "queued",
                                    ![id].wasEst = TRUE]
            /\ acceptQ' = [acceptQ EXCEPT ![s.node] = Append(@, id)]
       ELSE /\ sock' = [sock EXCEPT ![id].inq = Tail(s.inq), ![id].tries = s.tries + 1]
            /\ UNCHANGED acceptQ
  /\ UNCHANGED <<reg, caller, rdr, net, lost, dups, sends>>

AcceptRecvAnyFlags(id) == AcceptRecvWith(id, LAMBDA p : TRUE)

\* A packet with the ACK bit establishes the connection (seq+1) and the
\* goroutine pushes the socket to the accept queue (128 slots, more than
\* MaxSockets, so the push never waits; the stack is never closed here);
\* any other packet only uses up an iteration.
AcceptRecv(id) == AcceptRecvWith(id, LAMBDA p : "ACK" \in p.flags)

\* The timer fires: resend SYN|ACK (a failed write is only logged).
AcceptTimeout(id) ==
  /\ sock[id].pc = "ackWait"
  /\ sock[id].tries < RetryCount
  /\ \/ net' = net \cup {PacketOf(sock[id], SYNACK, 0)} /\ UNCHANGED lost
     \/ lost < MaxLoss /\ lost' = lost + 1 /\ UNCHANGED net
  /\ sock' = [sock EXCEPT ![id].tries = sock[id].tries + 1]
  /\ UNCHANGED <<reg, acceptQ, caller, rdr, dups, sends>>

\* RetryCount iterations without ACK: Accept sets Closed and returns its
\* error; the goroutine calls sock.Close(), which flips closed before it
\* unregisters the tuple (SockUnregister).
AcceptGiveUp(id) ==
  /\ sock[id].pc = "ackWait"
  /\ sock[id].tries = RetryCount
  /\ sock' = [sock EXCEPT ![id].state = "Closed", ![id].closed = TRUE, ![id].pc = "unreg"]
  /\ UNCHANGED <<reg, acceptQ, caller, rdr, net, lost, dups, sends>>

-----------------------------------------------------------------------------
(* The user of an established socket                                       *)

\* Stack.Accept: take the next socket from the accept queue.
StackAccept(n) ==
  /\ acceptQ[n] # <<>>
  /\ acceptQ' = [acceptQ EXCEPT ![n] = Tail(@)]
  /\ sock' = [sock EXCEPT ![Head(acceptQ[n])].pc = "user"]
  /\ UNCHANGED <<reg, caller, rdr, net, lost, dups, sends>>

\* Socket.Send: an ACK packet carrying the payload, then seq += len; a
\* failed TUN write returns the error and leaves seq alone.
Send(id) ==
  LET s == sock[id] IN
  /\ s.pc = "user"
  /\ s.state = "Established"
  /\ ~s.closed
  /\ sends < MaxSends
  /\ \E len \in PayloadLen :
       \/ /\ net' = net \cup {PacketOf(s, ACK, len)}
          /\ sock' = [sock EXCEPT ![id].seq = (s.seq + len) % Modulus]
          /\ UNCHANGED lost
       \/ /\ lost < MaxLoss /\ lost' = lost + 1
          /\ UNCHANGED <<net, sock>>
  /\ sends' = sends + 1
  /\ UNCHANGED <<reg, acceptQ, caller, rdr, dups>>

\* Socket.Recv takes one packet: an empty one is dropped and Recv polls
\* again; otherwise ack = seq + len, and when more than MaxUnackedLen is
\* unacknowledged a bare ACK is sent and lastAck advances.
Recv(id) ==
  LET s == sock[id]
      p == Head(s.inq)
      newAck == (p.seq + p.len) % Modulus
      bare == (newAck - s.lastAck) % Modulus > MaxUnackedLen
      upd == [s EXCEPT !.inq = Tail(s.inq), !.ack = newAck,
                       !.lastAck = IF bare THEN newAck ELSE s.lastAck]
  IN
  /\ s.pc = "user"
  /\ s.state = "Established"
  /\ s.inq # <<>>
  /\ IF p.len = 0
       THEN /\ sock' = [sock EXCEPT ![id].inq = Tail(s.inq)]
            /\ UNCHANGED net
       ELSE /\ sock' = [sock EXCEPT ![id] = upd]
            /\ net' = IF bare THEN net \cup {PacketOf(upd, ACK, 0)} ELSE net
  /\ UNCHANGED <<reg, acceptQ, caller, rdr, lost, dups, sends>>

\* Socket.Close, first call only: closed.Swap(true), Closed, closeChan
\* closed; the unregister follows (SockUnregister).  No FIN or RST.
Close(id) ==
  LET s == sock[id] IN
  /\ s.node \in Closers
  /\ s.pc = "user"
  /\ ~s.closed
  /\ sock' = [sock EXCEPT ![id].closed = TRUE, ![id].state = "Closed", ![id].pc = "unreg"]
  /\ UNCHANGED <<reg, acceptQ, caller, rdr, net, lost, dups, sends>>

-----------------------------------------------------------------------------
(* The network between the TUN devices                                     *)

Lose ==
  /\ lost < MaxLoss
  /\ \E p \in net : net' = net \ {p}
  /\ lost' = lost + 1
  /\ UNCHANGED <<sock, reg, acceptQ, caller, rdr, dups, sends>>

-----------------------------------------------------------------------------

Init ==
  /\ sock = <<>>
  /\ reg = [n \in Nodes |-> [r \in Nodes |-> NoSock]]
  /\ acceptQ = [n \in Nodes |-> <<>>]
  /\ caller = [n \in Nodes |-> "idle"]
  /\ rdr = [n \in Nodes |-> {}]
  /\ net = {}
  /\ lost = 0
  /\ dups = 0
  /\ sends = 0

SocketStep(id) ==
  \/ ConnectSendSyn(id) \/ ConnectRecv(id) \/ ConnectTimeout(id) \/ ConnectGiveUp(id)
  \/ AcceptBegin(id) \/ AcceptRecv(id) \/ AcceptTimeout(id) \/ AcceptGiveUp(id)
  \/ SockUnregister(id)

Next ==
  \/ \E n \in Nodes : StackConnect(n)
  \/ \E n \in Nodes : HandleLookup(n)
  \/ \E n \in Nodes : HandleRegister(n)
  \/ \E n \in Nodes : StackAccept(n)
  \/ \E id \in DOMAIN sock : ConnectSendSyn(id)
  \/ \E id \in DOMAIN sock : ConnectRecv(id)
  \/ \E id \in DOMAIN sock : ConnectTimeout(id)
  \/ \E id \in DOMAIN sock : ConnectGiveUp(id)
  \/ \E id \in DOMAIN sock : AcceptBegin(id)
  \/ \E id \in DOMAIN sock : AcceptRecv(id)
  \/ \E id \in DOMAIN sock : AcceptTimeout(id)
  \/ \E id \in DOMAIN sock : AcceptGiveUp(id)
  \/ \E id \in DOMAIN sock : SockUnregister(id)
  \/ \E id \in DOMAIN sock : Send(id)
  \/ \E id \in DOMAIN sock : Recv(id)
  \/ \E id \in DOMAIN sock : Close(id)
  \/ Lose

(* The goroutines of the handshake loops, the TUN readers and the timers   *)
(* make progress; the users (Connect, Accept, Send, Recv, Close callers)   *)
(* and the network's faults are not assumed to.                            *)
Fairness ==
  /\ \A id \in SockId : WF_vars(id \in DOMAIN sock /\ SocketStep(id))
  /\ \A n \in Nodes : WF_vars(HandleLookup(n) \/ HandleRegister(n))

Spec == Init /\ [][Next]_vars /\ Fairness

-----------------------------------------------------------------------------
(* Properties                                                              *)

SockRec == [node : Nodes, peer : Nodes, state : States, seq : 0..(Modulus - 1),
            ack : 0..(Modulus - 1), lastAck : 0..(Modulus - 1), closed : BOOLEAN,
            inq : Seq(Packet), pc : PCs, tries : 0..RetryCount,
            peerIsn : 0..(Modulus - 1), dialed : BOOLEAN, wasEst : BOOLEAN]

\* Types, with each socket's retry counter within the RetryCount
\* iterations of its loop.
TypeOK ==
  /\ DOMAIN sock \subseteq SockId
  /\ \A id \in DOMAIN sock : sock[id] \in SockRec
                             /\ Len(sock[id].inq) <= IncomingQueueSize
  /\ reg \in [Nodes -> [Nodes -> SockId \cup {NoSock}]]
  /\ acceptQ \in [Nodes -> Seq(SockId)]
  /\ caller \in [Nodes -> {"idle", "busy"}]
  /\ rdr \in [Nodes -> SUBSET Packet]
  /\ net \subseteq Packet

(* Stack.sockets is the only way a packet reaches a socket: every socket   *)
(* that is still in its handshake or established and not closed must be    *)
(* the one its stack maps its tuple to, and the map holds a Closed socket  *)
(* only until that socket's own unregisterSocket runs.  Broken when a      *)
(* registration replaces a live socket (Stack.Connect's or handlePacket's  *)
(* after its lookup) or an unregisterSocket by tuple removes another       *)
(* socket's entry.  Checked by no run: it fails once both nodes dial.      *)
LiveSocketsReachable ==
  /\ \A id \in DOMAIN sock : Live(id) => reg[sock[id].node][sock[id].peer] = id
  /\ \A n, r \in Nodes : reg[n][r] # NoSock =>
        /\ sock[reg[n][r]].node = n /\ sock[reg[n][r]].peer = r
        /\ (sock[reg[n][r]].state = "Closed" => sock[reg[n][r]].pc \in {"unregC", "unreg"})

(* The accepting side becomes Established (socket.go Accept, on any packet *)
(* with the ACK bit) only after some dialing socket of the other node has  *)
(* completed its handshake: Accept is never completed by the SYN or its    *)
(* retransmissions alone.                                                  *)
ServerEstablishedOnlyAfterClient ==
  \A a \in DOMAIN sock :
    (~sock[a].dialed /\ sock[a].wasEst) =>
      \E c \in DOMAIN sock : /\ sock[c].dialed /\ sock[c].wasEst
                            /\ sock[c].node = sock[a].peer /\ sock[c].peer = sock[a].node

(* Connect and Accept always return: every handshake goroutine ends with   *)
(* the socket handed to its user or with an error, so Stack.Connect never  *)
(* blocks its caller forever and no Accept goroutine leaks.                *)
HandshakeTerminates ==
  \A id \in SockId :
    (id \in DOMAIN sock /\ sock[id].pc \in {"syn", "synWait", "accept", "ackWait"})
      ~> (id \in DOMAIN sock /\ sock[id].pc \in {"queued", "user", "done"})

=============================================================================
