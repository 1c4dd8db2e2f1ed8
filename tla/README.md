# TLA+ models of EtherGuard-VPN's dataplane

This directory holds TLA+ models of the concurrent and arithmetic core of
EtherGuard-VPN, the TLC configurations that check them, and `PROJECT.json`.
`PROJECT.json` is the machine-readable index of this project:

* the components;
* the runs;
* the mutants;
* the map from each definition to its source lines;
* the findings;
* the hazards.

## The system and its parts

| Part | Source | State | Interacts with |
|------|--------|-------|----------------|
| Pseudo-TCP socket | `src/unnamed/part_000` (faketcp/socket.go) | state, seq/ack/lastAck (uint32), incoming queue (512), closed flag | its stack (register/unregister), the TUN (sendPacket) |
| Pseudo-TCP stack | `src/faketcp/stack.go` | tuple → socket map, listening ports, accept queue (128), stopChan | TUN readers (handlePacket), Accept goroutines, the bind |
| TUN device | `src/faketcp/tun.go` | fd and RWMutex | the stack's readers |
| FakeTCP bind | `src/conn/bind_faketcp.go` | remote → socket map, recvQueue (1024), stopChan | the stack (Connect, Accept); WireGuard's receive functions |
| Packet codec | `src/unnamed/part_001` (faketcp/packet.go) | none: pure functions | socket.sendPacket, stack.packetReader |
| Zero-overhead obfuscation | `src/unnamed/part_002` | none: pure functions of key and length | the device's send/receive path; modelled by `ZeroOverhead` |
| Critical logger | `src/mtypes/critical_logger.go` | last activity, stop channel | every goroutine calling UpdateActivity |
| Peer and SendBuffer | `src/QUICK_REFERENCE.md` (device/peer.go) | four endpoints, failed flags, active family, peer RWMutex | the bind (Send), the try list |
| Try list | `src/QUICK_REFERENCE.md` (device/peer.go) | four maps of try items (the p2p v4/v6 maps are never written) | the connect loop (GetNextTry), supernode updates (UpdateSuper), gossip (UpdateP2P) |

A node's FakeTCP bind owns one stack. The stack listens on the bind's port and
dials from the same port. Every connection is therefore identified by the
pair of nodes.

The stack's reader goroutines take packets from the TUN and demultiplex them
by tuple. A pure SYN to the listening port creates a socket, and a goroutine
runs that socket's passive handshake. A connection on which the handshake
succeeded is placed in the accept queue, where the bind's acceptLoop picks it
up. A bind Send to a remote that has no socket dials one with Stack.Connect,
which blocks for the whole active handshake.

## Modules

### FakeTCP (`FakeTCP.tla`, `MCFakeTCP.tla`)

FakeTCP models the socket state machine and the stack's demultiplexing over a
network that may lose, duplicate and reorder packets. The network is a set of
packets in flight.

State:

* `sock`: every socket ever created, as a record of its fields and of where
  its owning goroutine is (`pc`).
* `reg`: `Stack.sockets`.
* `acceptQ`: `Stack.acceptQueue`.
* `rdr`: a SYN that a stack's reader found no socket for and is about to
  register an acceptor for.
* `caller`: whether a user is blocked inside `Stack.Connect`.
* Counters bounding loss (lost packets and failed TUN writes), duplication
  and user Sends.

Actions:

* `StackConnect`, together with `ConnectSendSyn`, `ConnectRecv`,
  `ConnectTimeout` and `ConnectGiveUp`, models one iteration or exit of the
  retry loop of `Socket.Connect`. A failed `sendPacket` of the SYN or of the
  final ACK is a disjunct of its own: it uses up the iteration.
* `HandleLookup` is `Stack.handlePacket`'s lookup under the read lock, with
  `Socket.handleIncoming` for a registered tuple. `HandleRegister` is its
  registration under the write lock, a separate step: it overwrites whatever
  was registered for the tuple in between.
* `AcceptBegin`, `AcceptRecv`, `AcceptTimeout` and `AcceptGiveUp` model the
  Accept goroutine. A failed write of the SYN|ACK ends it as the code does,
  with `sock.Close()`.
* `SockUnregister` is the `unregisterSocket` that `Stack.Connect` (after a
  failed Connect) and `Socket.Close` call, a step after the state change.
* `StackAccept`, `Send`, `Recv` and `Close` model the user-facing calls.

Each `select` on `incoming` or `time.After` is two actions, so a timer may
fire while an answer is already queued. The accept queue holds 128 sockets,
more than a run ever creates, so the Accept goroutine's select on `stopChan`
never matters; FakeTCP has no Stack.Close (TunStack models it).

The user of each node is abstracted:

* A node in `Dialers` dials the peer whenever it does not hold an open socket
  to it and is not already inside Connect.
* A node in `Closers` may close a socket it holds.

Sequence numbers are kept modulo `2^SeqBits`. `MaxUnackedLen` is kept at the
code's share of the range (2^32/32).

Fairness:

* Weak fairness is assumed for each socket's handshake goroutine and for each
  stack's reader (its lookup and its registration). These are goroutines that
  only block on the select, and the select always has a timer case.
* Users and the network's faults are not fair.

### Runs

| Run | Expect | Checks |
|-----|--------|--------|
| `faketcp_handshake` | pass | `TypeOK` (with: the retry counters stay within RetryCount); `ServerEstablishedOnlyAfterClient`; `HandshakeTerminates` (every Connect and Accept goroutine returns) |
| `faketcp_crossed_dial` | violation | `LiveSocketsReachable` (every live socket is the one its stack maps its tuple to) with both nodes dialing |

`faketcp_crossed_dial` shows the lookup-then-register window of
`handlePacket`. Node c's SYN reaches s, whose reader finds no socket. Then s's
own `Stack.Connect` registers a dialer for the same tuple, and the reader's
registration overwrites it (stack.go:199-201). The dialer is live but
unreachable: its SYN|ACK and data go to the acceptor.

Bounds, and why they are enough:

* Two nodes.
* At most 3 sockets: enough for a failed dial, a redial, and the acceptor of
  each.
* `RetryCount = 2` instead of 6. Every retry path (timeout, non-matching
  packet, failed write, exhaustion) occurs within two iterations; six only
  lengthens the same paths.
* One lost packet or failed write, and one duplicated packet.
* An incoming queue of 1, so that overflow happens.
* One Send of 3 bytes with 6-bit sequence numbers. The ISN of 63 wraps on the
  handshake's +1, and 3 > MaxUnackedLen = 2 makes Recv's bare-ACK branch fire.

Deadlock checking is off in these runs. Once the bounded users stop, the real
process idles with its readers blocked on the TUN, and a stop in that state is
not a deadlock.

Each property of the passing run has a mutant in `PROJECT.json`, and TLC finds
each mutant's violation:

* a retry loop that runs once too often (`tries <= RetryCount`);
* Accept taking any packet as the ACK;
* a timeout that does not use up a retry.

### FakeTCPBind (`FakeTCPBind.tla`, `MCFakeTCPBind.tla`)

FakeTCPBind composes the bind (`src/conn/bind_faketcp.go`) with an
abstraction of each node's stack. The stack part keeps the tuple map, the
accept queue, and each socket's incoming queue and state. The handshake is
abstracted to its outcomes. A Connect succeeds with both sides Established,
or half-open (the final ACK lost: the acceptor stays in SynReceived until it
gives up, or until a data packet, which carries the ACK bit, completes its
Accept). Or it fails and unregisters the tuple.

State:

* `bs`: `b.sockets`.
* `rq`: `recvQueue`.
* `rw`: `b.mu`, as a Go RWMutex with readers, a writer and waiting writers.
* `stop` and `closed`: the bind's flags.
* A pc per goroutine: each Send caller, acceptLoop, each handleSocket, and
  Close. `rfx` records a receive function that got `net.ErrClosed`.
* `sent`, `dlv` and `dups`: what each node sent, what its receive functions
  delivered, and how many datagrams the network duplicated.

Actions:

* Send: its check under RLock, Connect, the store under Lock, and the send.
  `SockSend` may duplicate the datagram.
* acceptLoop: take from the queue, store, start handleSocket.
* handleSocket: Recv, then push to `recvQueue` or stop.
* `ReceiveFunc` (a datagram from `recvQueue`) and `ReceiveClosed` (the
  `stopChan` case).
* Close, in four steps: mark closed under Lock, close `stopChan`, wait for
  acceptLoop, close the sockets and the stack.

Two parts of the code can never run, and are left out of `Next`:

* handleSocket's error path, because no socket of the bind is ever closed;
* the end of `Close`, because the wait on acceptWg never returns.

Both are kept in `NextClose` and `SpecClose`. Under them, TLC finds
`CloseReturns` violated: Close waits for acceptLoop, which waits in
Stack.Accept for a stop that comes after the wait. The hazard at
bind_faketcp.go:220 records the hang, and any unit test that opens and closes
a bind without a peer reaches it.

Fairness is weak fairness for every goroutine once it has started, and for an
acceptor's give-up (its Accept loop always ends). Users (which Send calls are
made) are not fair.

| Run | Expect | Checks |
|-----|--------|--------|
| `bind_send_race` | violation | `HeldSocketRegistered` (a socket in `b.sockets` is the one its stack maps the tuple to), with two senders: both dial, and the loser's unregister removes the winner's tuple |
| `bind_reply_unread` | violation | `EnqueuedDelivered` (every datagram queued at a socket of the bind reaches a receive function), with both nodes sending |

In `bind_reply_unread`, a dials b and b's acceptLoop stores the accepted
socket. b's reply then goes out on that socket into a's dialed socket. Send
started no handleSocket for the dialed socket (bind_faketcp.go:266-278), so
the reply is never read.

Bounds:

* Two nodes and two datagrams.
* Socket and receive queues of 1, so that both fill.
* At most 4 sockets, which allows a failed dial and redials.
* One duplicated datagram.

### PeerSend (`PeerSend.tla`, `MCPeerSend.tla`)

PeerSend models a peer's send path and its endpoint updates (device/peer.go,
quoted in `src/QUICK_REFERENCE.md`).

State:

* `ep`: the six endpoint fields (legacy UDP and FakeTCP, and per family UDP
  and FakeTCP).
* `failed`: `ipv4Failed`, `ipv6Failed` and `udpFailed`.
* `activeAF`.
* `rw`: the peer's RWMutex.
* `up`: whether a send over each leg (transport × family) succeeds. The
  network flips legs, up to `MaxFlaps` times.
* A pc per SendBuffer goroutine and one for SetEndpointFromConnURL.

Actions:

* `SendStart`: RLock, the no-endpoint check, and the choice of the
  dual-stack or legacy path and its order.
* One action per try: `TryV6`, `TryV4`, `TryFakeTCP`, `LegacyUDP` and
  `LegacyTCP`. The legacy UDP try is two steps: the `udpFailed` check and
  the Send (`LegacyUDP`), then the re-check and clear, or the set, of
  `udpFailed` (`LegacyUDPResult`).
* `Lock6`: the failover's `peer.Lock()`.
* `Finish`: RUnlock.
* `CuStart`, `CuSection`, `CuCheck` and `CuLegacy`: SetEndpointFromConnURL.
  The lookup's result is an input drawn from `Lookups`. `CuSection` is one
  of the four `peer.Lock()` sections that store the IPv4 UDP, IPv4 FakeTCP,
  IPv6 UDP and IPv6 FakeTCP endpoints; a SendBuffer may run between any two.
* `Roam` and `RoamReject`: SetEndpointFromPacket. For the supernode peer
  (`SuperPeer`), the `net.Dial` to the source may fail, and the call then
  returns with nothing stored. The `DstIP() == nil` skip of the private-IP
  check is never taken: the endpoint of a received packet always has its
  source IP.

Addresses are model values: public and private IPv4, and public IPv6.

`Lock6` and the dual-stack FakeTCP try can never run, because every failed
IPv6 send in dual-stack mode blocks first. They are kept only in `NextFull`.

Fairness is weak fairness for a goroutine inside SendBuffer or
SetEndpointFromConnURL, which only computes or waits on the mutex. Users and
the network are not fair.

| Run | Expect | Checks |
|-----|--------|--------|
| `peer_dualstack` | pass | `TypeOK`; `EndpointAdmitted` (unless AllowPrivateIP, no UDP or FakeTCP endpoint is ever a private address, through lookups, failover or roaming) |
| `peer_failover_deadlock` | violation | `SendBufferReturns` (spec scenario 4): the first failed IPv6 send blocks SendBuffer on peer.Lock while it holds peer.RLock, and SetEndpointFromConnURL then waits for good too |

`SendErrOnlyWhenDown` (still defined in PeerSend) fails in legacy mode.
After one UDP failure the legacy path never tries UDP again: the code that
clears `udpFailed` runs only after a successful UDP send, which the flag
itself prevents, unless another sender set the flag in the meantime.
SendBuffer then fails whenever FakeTCP is down. The run was retired, since a unit test reaches
this short sequential path. The hazard at QUICK_REFERENCE.md:1061 records it.

Bounds:

* Two SendBuffer calls, one or two ConnURL calls, and one roaming packet.
* Up to two leg flips (one in the deadlock run): enough for a leg to fail
  and recover, or for two legs to fail.
* One sender, because the deadlock is a goroutine blocking on itself. With
  one sender `udpFailed` is never set between a check and a successful
  send, so `LegacyUDPResult` always finds it clear.
* The peer is the supernode (`SuperPeer`), so roaming's `net.Dial` may fail.

The pass run fires every action of `Next`. In it, legacy mode is taken
whenever a lookup returns one family.

`ConnURLSetsOwnEndpoint` is still defined, but no run checks it. TLC found it
violated when it was checked: a URL whose only address is private returns nil
and leaves an earlier call's endpoint in place. The hazard at
QUICK_REFERENCE.md:1361 records this. The run gave way to the modules below.

### TunStack (`TunStack.tla`, `MCTunStack.tla`)

TunStack models the life of one stack and its TUN queues:

* FakeTCPBind.Open calling faketcp.NewTun. Each queue is a `unix.Open` and
  then a TUNSETIFF, and each can fail. The setup commands then run on queue 0.
* NewStack starting one packetReader per queue (`OpenStack`, the end of a
  successful Open). Open's `b.stack.Close()` branch, taken when Listen
  fails, is unreachable: Listen on a fresh stack only adds the port to the
  listening set.
* Sockets registering (Stack.Connect, handlePacket's SYN branch), writing
  through Tun.Write, and unregistering.
* Stack.Close, step by step: `close(stopChan)`, each Tun.Close, `wg.Wait`,
  and the socket loop under `s.mu`.

State and how it corresponds to the code:

* `fd[i]` is the descriptor of queue i.
* `tun[i]` holds `closed` and the Tun's RWMutex. The mutex is the reader
  holding the read lock (`r`) and Close waiting for the write lock (`wq`). A
  waiting writer blocks new read locks, as in Go.
* `rd[i]` is the reader's place in its loop: the stopChan check, Tun.Read's
  lock and closed check, blocked in `file.Read`, or handling.
* `socks` is `s.sockets`, and `smu` is the holder of `s.mu`.
* `cpc` is the progress of Stack.Close.

A read on a TUN descriptor blocks until the kernel queues a packet (`Arrive`).
So a reader holds its Tun's read lock for as long as no packet comes.

A socket's Close is two steps, as in `Socket.Close`: `SockClose` is the
`closed.Swap(true)`, and `SockUnreg` is its `unregisterSocket` under `s.mu`.
A packetReader's `handlePacket` is two steps too: `RdHandle` is the lookup
under the read lock, and `RdReg` registers a new socket under the write lock,
overwriting whatever was registered for the tuple since.

Stack.Close's loop (`ScSocks`) visits each registered socket once. A socket
whose user already closed it returns at the Swap, and the loop goes on.
Otherwise `sock.Close()` calls `unregisterSocket`. `ScUnreg` is that
unregisterSocket's Lock. The loop already holds `s.mu` and Go's mutex is not
reentrant, so `ScUnreg` can never run and is left out of `Next`. Stack.Close
therefore never returns once a live socket is registered. This is a hazard.
It is not a run, because FakeTCPBind.Close hangs before it calls Stack.Close
(the hazard at bind_faketcp.go:220).

| Run | Expect | Checks |
|-----|--------|--------|
| `tunstack_lifecycle` | pass | `TypeOK` (with: a reader holds the read lock exactly while inside `file.Read`); `NoFdLeak` (after a failed Open no descriptor is open, whichever of open, ioctl or setup failed on whichever queue); `NoIOAfterClose` (no read or write reaches a closed descriptor, however Close interleaves with readers and writers) |

Bounds:

* Two queues. This is the smallest number with earlier Tuns to clean up and
  more than one reader.
* Two sockets.
* Three packets in all, read or written: enough for a reader to be released
  from `file.Read` while Close waits.
* Two Open attempts, so that a failed Open is retried.

Deadlock checking is off, because Close waits for packets that may not come.

The mutants are:

* Tun.Read without its RUnlock;
* the failed TUNSETIFF without `unix.Close(nfd)`;
* Tun.Close without the write lock.

### CriticalLogger (`CriticalLogger.tla`, `MCCriticalLogger.tla`)

CriticalLogger models `mtypes.CriticalLogger` on a discrete clock:

* `now` is the clock and `last` is `lastActivity`.
* `tick` is the ticker's one-slot channel, filled every `Timeout / 2` ticks.
  A tick that finds the slot full is dropped, as `time.Ticker` drops it.
* `mu` is the holder of `cl.mu`.
* `mon` is the monitor's place: select, Lock, the 3 s sleep before
  `os.Exit`, or returned.
* `wk[w]` marks a worker sleeping before `os.Exit` in LogFatal or
  RecoverPanic.

Each operation is one action: UpdateActivity, LogFatal (with LogCritical),
RecoverPanic, Stop, and the monitor's select (on `ctx.Done` or a tick), its
check under the lock, and its exit. When both select cases are ready, either
may be taken, as Go picks at random.

Time advances whatever the goroutines do. Go's scheduler gives no latency
bound, and without one no detection latency can be stated. So the model
names one: a runnable monitor (`MonReady`: a tick waiting in its select, or
`cl.mu` free for its Lock) runs within `MaxLag` ticks. `lag` counts the
ticks it has waited since its last check, and the bound grows by `MaxLag`.

| Run | Expect | Checks |
|-----|--------|--------|
| `logger_watchdog` | pass | `TypeOK` (with: `stopped` and the context's cancellation agree); `DetectionBound` (while the logger runs, inactivity never lasts more than `deadlockTimeout` plus one ticker period plus `MaxLag`) |

Bounds:

* Two workers.
* `Timeout = 4`, so the ticker period is 2.
* 12 ticks: several ticker periods, with and without activity.
* `MaxLag = 1`. TLC confirms the bound is tight: with `MaxLag = 2`, a bound
  one tick smaller fails.

The mutants are Stop without `cancel()`, and a ticker of period
`deadlockTimeout` (for which TLC finds a gap of 2·Timeout).

The monitor can exit the process after Stop has returned, because it
unlocks, sleeps and exits without looking at the context again. This is a
hazard at critical_logger.go:98. It has no run, because the run budget is
full.

### TryList (`TryList.tla`, `MCTryList.tla`)

TryList models `device.endpoint_trylist` (QUICK_REFERENCE.md lines
345-586). Every method runs under the RWMutex and is one action:

* `UpdateSuper` takes a subset of the supernode URLs, and for each URL one
  lookup outcome:
  * a successful `LookupIPDualStack` with the families it found (possibly
    neither: its body is not in the repository), when the dual path is
    enabled;
  * `LookupIP`'s network (`udp`, `udp4`, `udp6`);
  * an error.

  It rebuilds `trymap_super` and the v4/v6 key sets. An item is carried
  forward when the old map has it. Otherwise it is fresh, with lastTry at
  `AfPerferVal + it`, shifted down by `AfPerferVal` for the preferred family.
* `UpdateP2P` adds a gossiped URL with `lastTry = now`.
* `Delete` removes a URL from both maps.
* `GetNextTry` scans trymap_super and keeps any item with its smallest
  lastTry (Go's map order is random). The p2p scan replaces it only by a
  strictly smaller lastTry, so a tie goes to the supernode item (`Picks`).
  It deletes aged p2p items during the scan, refreshes the chosen item, and
  returns FastTry. The `time.Now()` calls after the scan read the clock or
  one tick later (the clock may advance during the call). A firstTry set in
  the same call can never be a timeout before them, so one reading stands
  for them all.
* `Tick` advances the clock.

Abstractions:

* Times are small integers. 0 stands for `time.Time{}`. `Bias` and `Prio` are
  scaled so that every fresh item is older than the clock, as year 1 plus
  10000 s is. An `ASSUME` states this.
* A resolved address is named by its URL. The v4/v6 maps are kept as key sets
  because nothing reads their items.
* `tried` is a history variable for the property: it records when a URL was
  first handed out since it last entered `trymap_super`.

| Run | Expect | Checks |
|-----|--------|--------|
| `trylist_schedule` | pass | `TypeOK`; `UntriedSuperFirst` (while an untried supernode item exists, GetNextTry returns one, ahead of p2p URLs and tried items); `SlowRetryAfterTimeout` (a supernode URL continuously listed since it was first handed out more than `timeout` ago comes back with FastTry false, however many UpdateSuper calls came between) |
| `trylist_dualstack` | violation | `AllMapsScanned` (spec 4.6: GetNextTry scans all four maps): with dual stack on, UpdateSuper files a resolved URL only under trymap_super_v4/v6, and GetNextTry, which reads trymap_super and trymap_p2p, returns nothing. TLC's trace is one UpdateSuper and one GetNextTry |

Bounds:

* Two supernode URLs with priorities 0 and 1, and one p2p URL.
* IPv6 is preferred, so preferred, unpreferred and unadjusted (`udp`) items
  all occur.
* `Timeout = 2` on a clock from 7 to 11. The timeout can pass after a first
  try, with UpdateSuper calls before the next try.

The mutants:

* UpdateSuper that always makes fresh items, which resets backoff;
* UpdateP2P stamping lastTry with the zero time, which makes p2p items
  overtake untried supernode items;
* a fresh lastTry without the `AfPerferVal` base, which goes negative.

Also found while modelling, with no run spent on it: GetNextTry can return
an aged p2p item that it deleted in the same scan (line 563), against spec
invariant 7. The model's GetNextTry does exactly that.

GetNextTry writes the maps under the read lock. Its caller, the connect
loop, is not in src and is one goroutine per peer, so the model has one
caller at a time.

### Checksum (`Checksum.tla`, `ChecksumSpec.tla`, `MCChecksum.tla`)

`ChecksumSpec` is the abstract promise of spec 4.2: the RFC 1071 Internet
checksum. A RECURSIVE one's-complement sum with an end-around carry after
every word is computed in one step.

`Checksum` is `calculateChecksum` (part_001 lines 229-253) step by step:

* the pseudo-header word loop;
* the segment word loop;
* the odd byte shifted `<< 8`;
* the `for sum > 0xffff` fold;
* the complement.

With an empty pseudo-header, this is `calculateChecksumSimple`.

`Checksum` instantiates the abstract spec with `Ref == INSTANCE ChecksumSpec
WITH out <- res`. The property `ChecksumRefinesReference == Ref!Spec` says:

* every behaviour of the loop is a behaviour of the reference;
* every loop step other than the last is a stutter of it;
* the last step produces the reference checksum.

The accumulator is a uint32. It is modelled unbounded because it cannot wrap
below 65537 words.

| Run | Expect | Checks |
|-----|--------|--------|
| `checksum_fold` | pass | `TypeOK`; `ChecksumRefinesReference` |

Bounds: every pseudo-header of 0 or 2 bytes and every segment of up to 5
bytes over {0x00, 0x01, 0xFF}. This covers:

* odd and even lengths;
* an empty segment;
* sums that need two folds (FF FF + FF FF 00 01 = 0x1FFFF). A single `if`
  fold leaves a result out of range there; TLC confirms this on a copy of
  the model with that fold.

The mutants:

* the odd byte added without its shift;
* the return taken before the fold.

### ZeroOverhead (`ZeroOverhead.tla`, `MCZeroOverhead.tla`)

ZeroOverhead models `NewZeroOverheadHandler`, `Encrypt` and `Decrypt`
(part_002) as operators, with every check and early return in the code's
order. It follows one packet through three steps:

* `Send` calls Encrypt, with the padding length drawn from the two ends of
  `1 + rand.Intn(headroom)`.
* The network delivers the result, cuts its last byte (`Truncate`), or
  alters a byte of the first AES block (`CorruptBlock`) or after it
  (`CorruptRest`).
* `Receive` calls Decrypt at a peer with the same handler.

A packet is its first byte (the type), its length, and a token for its
first block and for its remainder. The ciphers are ideal:

* AES is a bijection, so a corrupted first block decrypts to any type.
* AEAD Open succeeds exactly on an unaltered sealed remainder with its
  nonce.

Lengths are the code's, in bytes. The length field keeps its width
(`% 65536`).

| Run | Expect | Checks |
|-----|--------|--------|
| `zerooverhead_roundtrip` | pass | `TypeOK` (with: Decrypt returns a packet or an error, never a panic, whatever the network did); `RoundTrip` (an untouched packet comes back exactly, data or control, from 0 bytes to the u16 limit); `SizeBound` (an enabled handler never outputs more than maxPacketSize for an input no longer than it); `RemainderAuthentic` (a control packet Decrypt accepts has the sent length and bytes after its first block) |

Bounds:

* maxPacketSize is 50, 1452 (the tests' value) or 65600. The last is large
  enough that the 65535 check, and not the headroom, rejects packets.
* Handlers are enabled or disabled.
* Types 0, 3 and 7: data, control, and data above the control range.
* Lengths 0, 15, 16, 17, 57 and 58 cover the block and the minimum sealed
  size. maxControlPacketSize - 1, itself and + 1 cover the headroom.
  65551 and 65552 cover the length field.

Deadlock checking is off, because the model is one packet's trip, which ends.

The mutants are:

* the minimum-length check dropped, so Decrypt panics on a short packet;
* the 65535 check dropped, so the length field wraps;
* padding drawn from one past the headroom;
* Open accepting an altered ciphertext.

Two observations are recorded as hazards, not runs:

* Spec scenario 2 bounds the output by maxControlPacketSize + 16 + 24. That
  bound is 2 bytes short: it forgets the length field. The code's bound,
  maxPacketSize, holds (`SizeBound`).
* The first block is not authenticated. A corrupted block that decrypts to
  a control type is accepted behind an authentic remainder.
  `RemainderAuthentic` states exactly what the AEAD covers.

## Runs kept

The project keeps at most twelve runs, and all twelve are in use: six pass
runs and six violation runs. The violations that TLC found for
`CloseReturns` (FakeTCPBind), `SendErrOnlyWhenDown` and
`ConnURLSetsOwnEndpoint` (PeerSend) have no run of their own. Their causes
are recorded as hazards, at the lines where they bite.

## Not modelled

* The TUN's ioctls and ip commands are abstracted to success or failure.
  Logging and packet formatting are not modelled.
  FakeTCP abstracts a packet to its source, destination, seq, ack, flags and
  payload length, which is everything handlePacket, Connect, Accept and Recv
  read.
* The Noise handshake, routing, the HTTP API and config loading. They are
  outside the spec and have no source here.
* Prose files. They are used only as statements of intent.
* Zero-overhead obfuscation: PSK-length validation (an error return before
  any state exists), and the ciphers themselves, which are taken as ideal.
* BuildTCPPacket/ParseTCPPacket header layout: straight-line formatting with
  no state. Only the checksum they call is modelled.
* The try list's filterwindow (a latency median filter): a pure numeric
  helper that does not affect which endpoint is tried.
