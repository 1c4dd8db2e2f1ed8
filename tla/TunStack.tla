------------------------------- MODULE TunStack -------------------------------
(***************************************************************************)
(* The life of a FakeTCP stack and its TUN queues: FakeTCPBind.Open         *)
(* (src/conn/bind_faketcp.go) creating the queues with faketcp.NewTun and   *)
(* the stack with NewStack and Listen; one packetReader per queue; sockets  *)
(* writing through Tun.Write and closing themselves; and Stack.Close        *)
(* (src/faketcp/stack.go).  Each Tun has its own sync.RWMutex: Read and     *)
(* Write hold the read lock across the system call, Close takes the write   *)
(* lock.  A read on a TUN fd blocks until the kernel has a packet.          *)
(***************************************************************************)
EXTENDS Integers, FiniteSets, TLC

CONSTANTS
  Queues,      \* TunConfig.Queues (runtime.NumCPU() when 0)
  Socks,       \* the sockets the stack may register
  MaxPkts,     \* bound: packets through the TUN queues, read or written
  MaxOpens,    \* bound: calls of FakeTCPBind.Open
  None

Q == 0..(Queues - 1)

VARIABLES
  fd,       \* fd[i]: the i-th /dev/net/tun descriptor: "none", "open", "closed"
  tun,      \* tun[i]: Tun i: [made, closed, r (its reader holds RLock), wq (Close waits)]
  opc,      \* Open's progress: [pc, i, n (calls)]
  stack,    \* b.stack != nil
  rd,       \* rd[i]: packetReader of queue i
  pk,       \* pk[i]: packets the kernel holds for queue i
  npk,      \* packets that have arrived or been written so far
  socks,    \* Stack.sockets: the registered sockets, each with the queue it writes to
  sclosed,  \* the sockets whose Close has run
  smu,      \* holder of Stack.mu's write lock (None, "close")
  cpc,      \* Stack.Close: [pc, k]
  stopped,  \* stopChan closed
  ioBad     \* a file read or write reached a closed descriptor

vars == <<fd, tun, opc, stack, rd, pk, npk, socks, sclosed, smu, cpc, stopped, ioBad>>

NoTun == [made |-> FALSE, closed |-> FALSE, r |-> FALSE, wq |-> FALSE]

\* Tun.Close on the Tuns in S (no reader exists yet: the lock is free):
\* closed = true and file.Close().
CloseTuns(S) == [i \in Q |-> IF i \in S THEN [tun[i] EXCEPT !.closed = TRUE] ELSE tun[i]]
CloseFds(S) == [i \in Q |-> IF i \in S /\ fd[i] = "open" THEN "closed" ELSE fd[i]]

-----------------------------------------------------------------------------
(* FakeTCPBind.Open and faketcp.NewTun (all under b.mu; no reader runs yet) *)

\* Open with b.stack == nil: the parsing of the local addresses, then NewTun.
OpenBegin ==
  /\ opc.pc = "idle" /\ ~stack /\ opc.n < MaxOpens
  /\ opc' = [pc |-> "open", i |-> 0, n |-> opc.n + 1]
  /\ tun' = [i \in Q |-> NoTun]
  /\ UNCHANGED <<fd, stack, rd, pk, npk, socks, sclosed, smu, cpc, stopped, ioBad>>

\* unix.Open of the clone device for queue i.  On failure the Tuns made so
\* far (j < i) are closed and NewTun, then Open, returns the error.
NtOpen ==
  /\ opc.pc = "open"
  /\ \/ /\ fd' = [fd EXCEPT ![opc.i] = "open"]
        /\ opc' = [opc EXCEPT !.pc = "ioctl"]
        /\ UNCHANGED tun
     \/ /\ fd' = CloseFds(0..(opc.i - 1))
        /\ tun' = CloseTuns(0..(opc.i - 1))
        /\ opc' = [opc EXCEPT !.pc = "idle"]
  /\ UNCHANGED <<stack, rd, pk, npk, socks, sclosed, smu, cpc, stopped, ioBad>>

\* NtIoctl with the unix.Close(nfd) of the failure path left out.
NtIoctlKeepFd ==
  LET i == opc.i IN
  /\ opc.pc = "ioctl"
  /\ \/ /\ tun' = [tun EXCEPT ![i].made = TRUE]
        /\ opc' = [opc EXCEPT !.pc = IF i + 1 = Queues THEN "setup" ELSE "open", !.i = i + 1]
        /\ UNCHANGED fd
     \/ /\ fd' = CloseFds(0..(i - 1))
        /\ tun' = CloseTuns(0..(i - 1))
        /\ opc' = [opc EXCEPT !.pc = "idle"]
  /\ UNCHANGED <<stack, rd, pk, npk, socks, sclosed, smu, cpc, stopped, ioBad>>

\* TUNSETIFF, then os.NewFile and the Tun value.  On an errno the new fd is
\* closed with unix.Close and the earlier Tuns with Tun.Close.  os.NewFile
\* returns nil only for a negative fd, which a successful unix.Open never
\* returns; its cleanup is the errno one anyway.
NtIoctl ==
  LET i == opc.i IN
  /\ opc.pc = "ioctl"
  /\ \/ /\ tun' = [tun EXCEPT ![i].made = TRUE]
        /\ opc' = [opc EXCEPT !.pc = IF i + 1 = Queues THEN "setup" ELSE "open", !.i = i + 1]
        /\ UNCHANGED fd
     \/ /\ fd' = CloseFds(0..i)
        /\ tun' = CloseTuns(0..(i - 1))
        /\ opc' = [opc EXCEPT !.pc = "idle"]
  /\ UNCHANGED <<stack, rd, pk, npk, socks, sclosed, smu, cpc, stopped, ioBad>>

\* setUp, setMTU and the address commands on tuns[0]: any failing closes
\* every Tun and NewTun returns the error; otherwise NewTun returns the Tuns.
NtSetup ==
  /\ opc.pc = "setup"
  /\ \/ /\ opc' = [opc EXCEPT !.pc = "stack"]
        /\ UNCHANGED <<fd, tun>>
     \/ /\ fd' = CloseFds(Q)
        /\ tun' = CloseTuns(Q)
        /\ opc' = [opc EXCEPT !.pc = "idle"]
  /\ UNCHANGED <<stack, rd, pk, npk, socks, sclosed, smu, cpc, stopped, ioBad>>

\* The rest of Open: NewStack starts one packetReader per Tun, and
\* Listen(port) marks the port.  Listen fails only on a port already
\* listened on, which a stack made a moment ago has none of, so the
\* b.stack.Close() on its error path is unreachable.  acceptLoop and the
\* min(len(tuns), 4) receive functions belong to FakeTCPBind.
OpenStack ==
  /\ opc.pc = "stack"
  /\ stack' = TRUE
  /\ rd' = [j \in Q |-> "top"]
  /\ opc' = [opc EXCEPT !.pc = "done"]
  /\ UNCHANGED <<fd, tun, pk, npk, socks, sclosed, smu, cpc, stopped, ioBad>>

-----------------------------------------------------------------------------
(* packetReader                                                            *)

\* The kernel queues a packet for TUN queue i.
Arrive(i) ==
  /\ npk < MaxPkts
  /\ pk' = [pk EXCEPT ![i] = @ + 1]
  /\ npk' = npk + 1
  /\ UNCHANGED <<fd, tun, opc, stack, rd, socks, sclosed, smu, cpc, stopped, ioBad>>

\* Top of the loop: return if stopChan is closed, else call tun.Read.
RdTop(i) ==
  /\ rd[i] = "top"
  /\ rd' = [rd EXCEPT ![i] = IF stopped THEN "exited" ELSE "lock"]
  /\ UNCHANGED <<fd, tun, opc, stack, pk, npk, socks, sclosed, smu, cpc, stopped, ioBad>>

\* Tun.Read takes the read lock (not granted while Close waits for the
\* write lock) and checks closed: a closed Tun returns ErrClosed, and the
\* reader returns if stopChan is closed, else logs and loops; an open one
\* goes on into file.Read holding the read lock.
RdLock(i) ==
  /\ rd[i] = "lock" /\ ~tun[i].wq
  /\ IF tun[i].closed
       THEN rd' = [rd EXCEPT ![i] = IF stopped THEN "exited" ELSE "top"] /\ UNCHANGED tun
       ELSE rd' = [rd EXCEPT ![i] = "read"] /\ tun' = [tun EXCEPT ![i].r = TRUE]
  /\ UNCHANGED <<fd, opc, stack, pk, npk, socks, sclosed, smu, cpc, stopped, ioBad>>

\* RdData with the deferred RUnlock of Tun.Read left out.
RdDataKeepLock(i) ==
  /\ rd[i] = "read" /\ (pk[i] > 0 \/ fd[i] # "open")
  /\ pk' = [pk EXCEPT ![i] = IF @ > 0 THEN @ - 1 ELSE 0]
  /\ ioBad' = (ioBad \/ fd[i] # "open")
  /\ rd' = [rd EXCEPT ![i] = "handle"]
  /\ UNCHANGED <<fd, tun, opc, stack, npk, socks, sclosed, smu, cpc, stopped>>

\* file.Read returns once the kernel has a packet (or the descriptor is
\* gone); the read lock is released on return.
RdData(i) ==
  /\ rd[i] = "read" /\ (pk[i] > 0 \/ fd[i] # "open")
  /\ pk' = [pk EXCEPT ![i] = IF @ > 0 THEN @ - 1 ELSE 0]
  /\ ioBad' = (ioBad \/ fd[i] # "open")
  /\ tun' = [tun EXCEPT ![i].r = FALSE]
  /\ rd' = [rd EXCEPT ![i] = "handle"]
  /\ UNCHANGED <<fd, opc, stack, npk, socks, sclosed, smu, cpc, stopped>>

\* handlePacket's lookup under the read lock: a packet for a registered
\* tuple goes to its socket, anything but a SYN to the listening port is
\* dropped; a SYN that found no socket goes on to the registration.
RdHandle(i) ==
  /\ rd[i] = "handle"
  /\ \/ rd' = [rd EXCEPT ![i] = "top"]
     \/ rd' = [rd EXCEPT ![i] = "reg"]
  /\ UNCHANGED <<fd, tun, opc, stack, pk, npk, socks, sclosed, smu, cpc, stopped, ioBad>>

\* The registration under Stack.mu, a step after the lookup: the new socket
\* writes on this queue and s.sockets[tuple] = sock overwrites whatever was
\* registered for the tuple since.
RdReg(i) ==
  /\ rd[i] = "reg" /\ smu = None
  /\ \E x \in Socks \ sclosed : socks' = (x :> i) @@ socks
  /\ rd' = [rd EXCEPT ![i] = "top"]
  /\ UNCHANGED <<fd, tun, opc, stack, pk, npk, sclosed, smu, cpc, stopped, ioBad>>

-----------------------------------------------------------------------------
(* Sockets                                                                 *)

\* Stack.Connect registers a socket on tuns[0].
Connect(x) ==
  /\ stack /\ smu = None /\ x \notin DOMAIN socks /\ x \notin sclosed
  /\ socks' = socks @@ (x :> 0)
  /\ UNCHANGED <<fd, tun, opc, stack, rd, pk, npk, sclosed, smu, cpc, stopped, ioBad>>

\* A socket's send: Tun.Write takes the read lock (not granted while Close
\* waits for the write lock), returns ErrClosed on a closed Tun, else
\* writes the packet to the descriptor.
Write(x) ==
  LET i == socks[x] IN
  /\ x \in DOMAIN socks /\ x \notin sclosed
  /\ ~tun[i].wq /\ npk < MaxPkts
  /\ IF tun[i].closed
       THEN UNCHANGED <<npk, ioBad>>
       ELSE /\ npk' = npk + 1
            /\ ioBad' = (ioBad \/ fd[i] # "open")
  /\ UNCHANGED <<fd, tun, opc, stack, rd, pk, socks, sclosed, smu, cpc, stopped>>

\* Socket.Close by its user: closed.Swap(true) and state = StateClosed;
\* a second Close returns at the Swap.
SockClose(x) ==
  /\ x \in DOMAIN socks /\ x \notin sclosed
  /\ sclosed' = sclosed \cup {x}
  /\ UNCHANGED <<fd, tun, opc, stack, rd, pk, npk, socks, smu, cpc, stopped, ioBad>>

\* Its unregisterSocket, a step later: delete(s.sockets, tuple) under Stack.mu.
SockUnreg(x) ==
  /\ x \in DOMAIN socks /\ x \in sclosed /\ smu = None
  /\ socks' = [y \in DOMAIN socks \ {x} |-> socks[y]]
  /\ UNCHANGED <<fd, tun, opc, stack, rd, pk, npk, sclosed, smu, cpc, stopped, ioBad>>

-----------------------------------------------------------------------------
(* Stack.Close                                                             *)

\* close(s.stopChan).
ScStop ==
  /\ cpc.pc = "idle" /\ stack
  /\ stopped' = TRUE
  /\ cpc' = [cpc EXCEPT !.pc = "tuns", !.k = 0]
  /\ UNCHANGED <<fd, tun, opc, stack, rd, pk, npk, socks, sclosed, smu, ioBad>>

\* tun.Close() on queue k: Lock waits for the reader's read lock.
ScTunWait ==
  /\ cpc.pc = "tuns" /\ cpc.k < Queues
  /\ tun' = [tun EXCEPT ![cpc.k].wq = TRUE]
  /\ cpc' = [cpc EXCEPT !.pc = "tunLock"]
  /\ UNCHANGED <<fd, opc, stack, rd, pk, npk, socks, sclosed, smu, stopped, ioBad>>

\* ScTunClose without waiting for the write lock.
ScTunCloseNoLock ==
  LET k == cpc.k IN
  /\ cpc.pc = "tunLock"
  /\ tun' = [tun EXCEPT ![k].closed = TRUE, ![k].wq = FALSE]
  /\ fd' = [fd EXCEPT ![k] = IF tun[k].closed THEN @ ELSE "closed"]
  /\ cpc' = [cpc EXCEPT !.pc = IF k + 1 = Queues THEN "wait" ELSE "tuns", !.k = k + 1]
  /\ UNCHANGED <<opc, stack, rd, pk, npk, socks, sclosed, smu, stopped, ioBad>>

\* With the write lock: closed = true, file.Close(), Unlock.
ScTunClose ==
  LET k == cpc.k IN
  /\ cpc.pc = "tunLock" /\ ~tun[k].r
  /\ tun' = [tun EXCEPT ![k].closed = TRUE, ![k].wq = FALSE]
  /\ fd' = [fd EXCEPT ![k] = IF tun[k].closed THEN @ ELSE "closed"]
  /\ cpc' = [cpc EXCEPT !.pc = IF k + 1 = Queues THEN "wait" ELSE "tuns", !.k = k + 1]
  /\ UNCHANGED <<opc, stack, rd, pk, npk, socks, sclosed, smu, stopped, ioBad>>

\* s.wg.Wait(): every packetReader has returned; then s.mu.Lock().
ScLock ==
  /\ cpc.pc = "wait"
  /\ \A i \in Q : rd[i] = "exited"
  /\ smu = None
  /\ smu' = "close"
  /\ cpc' = [cpc EXCEPT !.pc = "socks"]
  /\ UNCHANGED <<fd, tun, opc, stack, rd, pk, npk, socks, sclosed, stopped, ioBad>>

\* The loop over s.sockets visits each entry once (cpc.seen): with none left
\* it resets the map and unlocks; a socket already closed returns at its
\* Swap; otherwise sock.Close() marks it closed and calls unregisterSocket,
\* whose s.mu.Lock() this goroutine already holds.
ScSocks ==
  LET left == DOMAIN socks \ cpc.seen IN
  /\ cpc.pc = "socks"
  /\ IF left = {}
       THEN /\ socks' = [y \in {} |-> 0]
            /\ smu' = None /\ cpc' = [cpc EXCEPT !.pc = "done"]
            /\ UNCHANGED sclosed
       ELSE \E x \in left :
              /\ sclosed' = sclosed \cup {x}
              /\ cpc' = [cpc EXCEPT !.pc = IF x \in sclosed THEN "socks" ELSE "unreg",
                                     !.k = x, !.seen = @ \cup {x}]
              /\ UNCHANGED <<socks, smu>>
  /\ UNCHANGED <<fd, tun, opc, stack, rd, pk, npk, stopped, ioBad>>

\* unregisterSocket's Lock; it can never be granted to the holder.
ScUnreg ==
  /\ cpc.pc = "unreg" /\ smu = None
  /\ socks' = [y \in DOMAIN socks \ {cpc.k} |-> socks[y]]
  /\ cpc' = [cpc EXCEPT !.pc = "socks"]
  /\ UNCHANGED <<fd, tun, opc, stack, rd, pk, npk, sclosed, smu, stopped, ioBad>>

-----------------------------------------------------------------------------

Init ==
  /\ fd = [i \in Q |-> "none"]
  /\ tun = [i \in Q |-> NoTun]
  /\ opc = [pc |-> "idle", i |-> 0, n |-> 0]
  /\ stack = FALSE
  /\ rd = [i \in Q |-> "none"]
  /\ pk = [i \in Q |-> 0]
  /\ npk = 0
  /\ socks = <<>>
  /\ sclosed = {}
  /\ smu = None
  /\ cpc = [pc |-> "idle", k |-> 0, seen |-> {}]
  /\ stopped = FALSE
  /\ ioBad = FALSE

\* ScUnreg is left out of Next: its guard needs the lock ScSocks keeps.
Next ==
  \/ OpenBegin \/ NtOpen \/ NtIoctl \/ NtSetup \/ OpenStack
  \/ \E i \in Q : Arrive(i)
  \/ \E i \in Q : RdTop(i)
  \/ \E i \in Q : RdLock(i)
  \/ \E i \in Q : RdData(i)
  \/ \E i \in Q : RdHandle(i)
  \/ \E i \in Q : RdReg(i)
  \/ \E x \in Socks : Connect(x)
  \/ \E x \in Socks : Write(x)
  \/ \E x \in Socks : SockClose(x)
  \/ \E x \in Socks : SockUnreg(x)
  \/ ScStop \/ ScTunWait \/ ScTunClose \/ ScLock \/ ScSocks

Spec == Init /\ [][Next]_vars

-----------------------------------------------------------------------------

TypeOK ==
  /\ fd \in [Q -> {"none", "open", "closed"}]
  /\ tun \in [Q -> [made : BOOLEAN, closed : BOOLEAN, r : BOOLEAN, wq : BOOLEAN]]
  /\ rd \in [Q -> {"none", "top", "lock", "read", "handle", "reg", "exited"}]
  /\ pk \in [Q -> 0..MaxPkts] /\ npk \in 0..MaxPkts
  /\ DOMAIN socks \subseteq Socks /\ sclosed \subseteq Socks
  /\ \A i \in Q : tun[i].r <=> rd[i] = "read"

\* NewTun's cleanup on every failure path (open, ioctl, or one of the ip
\* commands) closes every descriptor it opened: once Open has returned an
\* error, no /dev/net/tun descriptor is left open.
NoFdLeak == (opc.pc = "idle" /\ ~stack) => \A i \in Q : fd[i] # "open"

\* A packetReader's file.Read and a socket's Tun.Write never reach a
\* descriptor that Tun.Close has closed, however Close interleaves with them
\* (Tun.closed is checked under the read lock, Close holds the write lock).
NoIOAfterClose == ~ioBad

=============================================================================
