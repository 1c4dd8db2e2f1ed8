------------------------------- MODULE PeerSend -------------------------------
(***************************************************************************)
(* A peer's send path and its endpoint updates (device/peer.go, quoted in  *)
(* src/QUICK_REFERENCE.md): SendBuffer with the dual-stack failover        *)
(* (tryIPv6Send, tryIPv4Send, tryFakeTCPSend) and the legacy UDP-then-     *)
(* FakeTCP path, SetEndpointFromConnURL and SetEndpointFromPacket, all     *)
(* sharing the peer's sync.RWMutex.  A bind's Send succeeds exactly when   *)
(* the leg (transport and address family) of its endpoint is up; the legs  *)
(* go up and down.  An address is a model value with a family and a       *)
(* private flag (conn.IsPrivateIP).                                        *)
(***************************************************************************)
EXTENDS Integers, Sequences, FiniteSets

CONSTANTS
  Senders,       \* goroutines calling SendBuffer
  Addrs4,        \* IPv4 addresses a lookup or a packet may give
  Addrs6,        \* IPv6 addresses
  Private,       \* the addresses conn.IsPrivateIP accepts
  DualStack,     \* EdgeConfig.DualStack.Enabled (an edge, not a supernode)
  AllowPrivate,  \* EdgeConfig.AllowPrivateIP
  FakeTCPOn,     \* device.net.faketcpBind != nil
  SuperPeer,     \* peer.ID == mtypes.NodeID_SuperNode
  MaxSends,      \* bound: SendBuffer calls
  MaxFlaps,      \* bound: legs going down or up
  MaxCalls,      \* bound: SetEndpointFromConnURL calls
  MaxRoams,      \* bound: SetEndpointFromPacket calls
  None           \* model value: a nil endpoint / no lock holder

Addrs == Addrs4 \cup Addrs6
Fam(a) == IF a \in Addrs4 THEN 4 ELSE 6
Admitted(a) == AllowPrivate \/ a \notin Private
Legs == {"udp", "tcp"} \X {4, 6}
Slots == {"endpoint", "faketcp", "v4", "v6", "tcp4", "tcp6"}

VARIABLES
  ep,        \* ep[s]: peer.endpoint, faketcpEndpoint, endpointIPv4/IPv6, faketcpEndpointIPv4/IPv6
  failed,    \* failed["v4"/"v6"/"udp"]: ipv4Failed, ipv6Failed, udpFailed
  activeAF,  \* peer.activeAF: 0 while nil, else 4 or 6
  rw,        \* the peer's RWMutex: [r: readers, w: writer, wq: waiting writers]
  up,        \* up[leg]: whether bind.Send over that leg succeeds
  spc,       \* spc[s]: SendBuffer goroutine: [pc, mode, plan, sent, skipUp, errUp]
  cu,        \* the goroutine in SetEndpointFromConnURL: [pc, given, paf, staleOk]
  count      \* [sends, flaps, calls, roams]

vars == <<ep, failed, activeAF, rw, up, spc, cu, count>>

Leg(kind, a) == <<kind, Fam(a)>>
CanRLock == rw.w = None /\ rw.wq = {}
Free == rw.w = None /\ rw.r = {}

-----------------------------------------------------------------------------
(* SendBuffer                                                              *)

\* peer.RLock (held until SendBuffer returns); no endpoint at all returns an
\* error.  Dual-stack mode (both UDP endpoints set) sets activeAF to 6 when
\* nil and plans IPv6, IPv4, FakeTCP (or IPv4, IPv6, FakeTCP when the active
\* family is 4); legacy mode plans peer.endpoint's UDP, then FakeTCP.
SendStart(s) ==
  LET dual == DualStack /\ ep["v4"] # None /\ ep["v6"] # None
      af == IF activeAF = 0 THEN 6 ELSE activeAF
      none == \A k \in {"endpoint", "faketcp", "v4", "v6"} : ep[k] = None
  IN
  /\ spc[s].pc = "idle" /\ count.sends < MaxSends
  /\ CanRLock
  /\ count' = [count EXCEPT !.sends = @ + 1]
  /\ rw' = [rw EXCEPT !.r = @ \cup {s}]
  /\ activeAF' = IF dual THEN af ELSE activeAF
  /\ spc' = [spc EXCEPT ![s] = [@ EXCEPT !.pc = "try", !.sent = FALSE, !.skipUp = FALSE,
               !.mode = CASE none -> "none" [] dual -> "dual" [] OTHER -> "legacy",
               !.plan = CASE none -> <<>>
                          [] dual /\ af = 6 -> <<"v6", "v4", "ftcp">>
                          [] dual -> <<"v4", "v6", "ftcp">>
                          [] OTHER -> <<"udp", "legacyTcp">>]]
  /\ UNCHANGED <<ep, failed, up, cu>>

Next1(s) == [spc EXCEPT ![s].plan = Tail(@)]
\* A leg skipped for its failed flag; skipUp notes whether it was up.
Skip(s, kind, e) ==
  [spc EXCEPT ![s].plan = Tail(@), ![s].skipUp = @ \/ up[Leg(kind, e)]]
Sent(s) == [spc EXCEPT ![s].plan = <<>>, ![s].sent = TRUE]

\* tryIPv6Send.  On failure with an IPv4 endpoint it stores activeAF = 4
\* and calls peer.Lock() while this goroutine still holds the RLock.
TryV6(s) ==
  LET e == ep["v6"] IN
  /\ spc[s].pc = "try" /\ spc[s].plan # <<>> /\ Head(spc[s].plan) = "v6"
  /\ CASE e = None ->
            spc' = Next1(s) /\ UNCHANGED <<failed, activeAF, rw>>
       [] failed["v6"] ->
            spc' = Skip(s, "udp", e) /\ UNCHANGED <<failed, activeAF, rw>>
       [] up[Leg("udp", e)] ->
            spc' = Sent(s) /\ failed' = [failed EXCEPT !["v6"] = FALSE]
            /\ UNCHANGED <<activeAF, rw>>
       [] ep["v4"] # None ->
            /\ failed' = [failed EXCEPT !["v6"] = TRUE]
            /\ activeAF' = 4
            /\ rw' = [rw EXCEPT !.wq = @ \cup {s}]
            /\ spc' = [spc EXCEPT ![s].pc = "lock6"]
       [] OTHER ->
            spc' = Next1(s) /\ failed' = [failed EXCEPT !["v6"] = TRUE]
            /\ UNCHANGED <<activeAF, rw>>
  /\ UNCHANGED <<ep, up, cu, count>>

\* The rest of the failover: once Lock is held, the legacy fields follow
\* IPv4.  Lock waits for every reader to leave, this goroutine included.
Lock6(s) ==
  /\ spc[s].pc = "lock6"
  /\ rw.w = None /\ rw.r = {}
  /\ ep' = [ep EXCEPT !["endpoint"] = ep["v4"], !["faketcp"] = ep["tcp4"]]
  /\ rw' = [rw EXCEPT !.wq = @ \ {s}]
  /\ spc' = [spc EXCEPT ![s].pc = "try", ![s].plan = Tail(@)]
  /\ UNCHANGED <<failed, activeAF, up, cu, count>>

\* tryIPv4Send.
TryV4(s) ==
  LET e == ep["v4"] IN
  /\ spc[s].pc = "try" /\ spc[s].plan # <<>> /\ Head(spc[s].plan) = "v4"
  /\ CASE e = None -> spc' = Next1(s) /\ UNCHANGED failed
       [] failed["v4"] -> spc' = Skip(s, "udp", e) /\ UNCHANGED failed
       [] up[Leg("udp", e)] -> spc' = Sent(s) /\ failed' = [failed EXCEPT !["v4"] = FALSE]
       [] OTHER -> spc' = Next1(s) /\ failed' = [failed EXCEPT !["v4"] = TRUE]
  /\ UNCHANGED <<ep, activeAF, rw, up, cu, count>>

\* tryFakeTCPSend: the FakeTCP endpoint of the active family, else IPv4's,
\* else IPv6's.
TryFakeTCP(s) ==
  LET e == CASE activeAF = 6 /\ ep["tcp6"] # None -> ep["tcp6"]
             [] activeAF = 4 /\ ep["tcp4"] # None -> ep["tcp4"]
             [] ep["tcp4"] # None -> ep["tcp4"]
             [] OTHER -> ep["tcp6"]
  IN
  /\ spc[s].pc = "try" /\ spc[s].plan # <<>> /\ Head(spc[s].plan) = "ftcp"
  /\ spc' = IF FakeTCPOn /\ activeAF # 0 /\ e # None /\ up[Leg("tcp", e)]
              THEN Sent(s) ELSE Next1(s)
  /\ UNCHANGED <<ep, failed, activeAF, rw, up, cu, count>>

\* Legacy path, UDP: peer.endpoint unless udpFailed, then bind.Send; sent
\* holds its outcome until LegacyUDPResult.
LegacyUDP(s) ==
  LET e == ep["endpoint"] IN
  /\ spc[s].pc = "try" /\ spc[s].plan # <<>> /\ Head(spc[s].plan) = "udp"
  /\ CASE e = None -> spc' = Next1(s)
       [] failed["udp"] -> spc' = Skip(s, "udp", e)
       [] OTHER -> spc' = [spc EXCEPT ![s].pc = "udpRes", ![s].sent = up[Leg("udp", e)]]
  /\ UNCHANGED <<ep, failed, activeAF, rw, up, cu, count>>

\* After the Send: on success "if udpFailed.Get() { udpFailed.Set(false) }"
\* (true only if another sender set it since this one's check), which
\* leaves udpFailed false either way; on an error udpFailed.Set(true) and
\* the FakeTCP leg.
LegacyUDPResult(s) ==
  /\ spc[s].pc = "udpRes"
  /\ IF spc[s].sent
       THEN /\ spc' = [Sent(s) EXCEPT ![s].pc = "try"]
            /\ failed' = [failed EXCEPT !["udp"] = FALSE]
       ELSE /\ spc' = [Next1(s) EXCEPT ![s].pc = "try"]
            /\ failed' = [failed EXCEPT !["udp"] = TRUE]
  /\ UNCHANGED <<ep, activeAF, rw, up, cu, count>>

\* Legacy path, FakeTCP: peer.faketcpEndpoint through the FakeTCP bind.
LegacyTCP(s) ==
  LET e == ep["faketcp"] IN
  /\ spc[s].pc = "try" /\ spc[s].plan # <<>> /\ Head(spc[s].plan) = "legacyTcp"
  /\ spc' = IF FakeTCPOn /\ e # None /\ up[Leg("tcp", e)] THEN Sent(s) ELSE Next1(s)
  /\ UNCHANGED <<ep, failed, activeAF, rw, up, cu, count>>

\* Mutant: an error return that skips the RUnlock.
FinishErrKeepsRLock(s) ==
  /\ spc[s].pc = "try" /\ spc[s].plan = <<>>
  /\ rw' = IF spc[s].sent THEN [rw EXCEPT !.r = @ \ {s}] ELSE rw
  /\ spc' = [spc EXCEPT ![s].pc = "idle"]
  /\ UNCHANGED <<ep, failed, activeAF, up, cu, count>>

\* SendBuffer returns (deferred peer.RUnlock).  errUp records a returned
\* error after a leg was skipped for its failed flag while it was up.
Finish(s) ==
  /\ spc[s].pc = "try" /\ spc[s].plan = <<>>
  /\ rw' = [rw EXCEPT !.r = @ \ {s}]
  /\ spc' = [spc EXCEPT ![s].pc = "idle",
               ![s].errUp = @ \/ (~spc[s].sent /\ spc[s].skipUp)]
  /\ UNCHANGED <<ep, failed, activeAF, up, cu, count>>

-----------------------------------------------------------------------------
(* SetEndpointFromConnURL and SetEndpointFromPacket                        *)

\* What the lookups may return: LookupIPDualStack when dual-stack is on
\* (either family may be missing), else (or when it fails) LookupIP's one
\* address, stored as the "IPv4" one whatever its family, or as the IPv6
\* one with primaryAF 6 when only IPv6 is enabled.
Lookups ==
  {[v4 |-> a, v6 |-> None, paf |-> 4] : a \in Addrs}
  \cup {[v4 |-> None, v6 |-> a, paf |-> 6] : a \in Addrs}
  \cup (IF DualStack
         THEN {[v4 |-> a, v6 |-> b, paf |-> p] :
                 a \in Addrs4 \cup {None}, b \in Addrs6 \cup {None}, p \in {4, 6}}
         ELSE {})

\* The lookups (no lock held): the call records the addresses it got.
CuStart(l) ==
  /\ cu.pc = "idle" /\ count.calls < MaxCalls
  /\ count' = [count EXCEPT !.calls = @ + 1]
  /\ cu' = [cu EXCEPT !.pc = "v4", !.l = l, !.paf = l.paf, !.given = {l.v4, l.v6} \ {None}]
  /\ UNCHANGED <<ep, failed, activeAF, rw, up, spc>>

\* The address a section stores and the section after it: IPv4 UDP, IPv4
\* FakeTCP, IPv6 UDP, IPv6 FakeTCP, then the check.
CuAddr(k) == IF k \in {"v4", "tcp4"} THEN cu.l.v4 ELSE cu.l.v6
CuAfter(k) == CASE k = "v4" -> "tcp4" [] k = "tcp4" -> "v6" [] k = "v6" -> "tcp6"
                [] OTHER -> "check"

\* Mutant: the FakeTCP endpoints set outside the private-IP check.
CuWritesTcpUnchecked(k) ==
  /\ CuAddr(k) # None
  /\ k \in {"v4", "v6"} => Admitted(CuAddr(k))
  /\ k \in {"tcp4", "tcp6"} => FakeTCPOn

\* Whether section k stores: an address, admitted by the private-IP check,
\* and for a FakeTCP endpoint a FakeTCP bind.
CuWrites(k) ==
  /\ CuAddr(k) # None /\ Admitted(CuAddr(k))
  /\ k \in {"tcp4", "tcp6"} => FakeTCPOn

\* One of the four peer.Lock()..Unlock() sections: the endpoint of slot k
\* (and for a UDP one, Set(false) of its failed flag); a section that does
\* not store takes no lock.
CuSection ==
  LET k == cu.pc IN
  /\ k \in {"v4", "tcp4", "v6", "tcp6"}
  /\ \/ /\ CuWrites(k) /\ Free
        /\ ep' = [ep EXCEPT ![k] = CuAddr(k)]
        /\ failed' = IF k \in {"v4", "v6"} THEN [failed EXCEPT ![k] = FALSE] ELSE failed
     \/ /\ ~CuWrites(k)
        /\ UNCHANGED <<ep, failed>>
  /\ cu' = [cu EXCEPT !.pc = CuAfter(k)]
  /\ UNCHANGED <<activeAF, rw, up, spc, count>>

\* "Ensure at least one endpoint was set": reads the peer's fields, not
\* what this call stored.  Then activeAF is stored outside the lock.
CuCheck ==
  /\ cu.pc = "check"
  /\ IF ep["v4"] = None /\ ep["v6"] = None
       THEN cu' = [cu EXCEPT !.pc = "idle"] /\ UNCHANGED activeAF
       ELSE cu' = [cu EXCEPT !.pc = "legacy"] /\ activeAF' = cu.paf
  /\ UNCHANGED <<ep, failed, rw, up, spc, count>>

\* Under Lock, the legacy fields follow the primary family, else IPv4,
\* else IPv6 (then activeAF becomes 6); the call returns nil.  staleOk
\* records a success whose peer.endpoint is none of this call's addresses.
CuLegacy ==
  LET from == CASE cu.paf = 6 /\ ep["v6"] # None -> "6"
               [] ep["v4"] # None -> "4"
               [] OTHER -> "6"
      e == IF from = "4" THEN ep["v4"] ELSE ep["v6"]
  IN
  /\ cu.pc = "legacy"
  /\ Free
  /\ ep' = [ep EXCEPT !["endpoint"] = e,
                      !["faketcp"] = IF from = "4" THEN ep["tcp4"] ELSE ep["tcp6"]]
  /\ activeAF' = IF cu.paf # 6 /\ ep["v4"] = None THEN 6 ELSE activeAF
  /\ cu' = [cu EXCEPT !.pc = "idle", !.staleOk = @ \/ e \notin cu.given]
  /\ UNCHANGED <<failed, rw, up, spc, count>>

\* SetEndpointFromPacket: a private source is rejected unless allowed;
\* otherwise, under Lock, SaveToConfig and peer.endpoint := the source.
\* For the supernode peer a net.Dial to the source comes first, and its
\* error returns with nothing stored (the local address it learns on
\* success is device state this module leaves out).  The endpoint of a
\* received packet always has a source IP, so the DstIP() == nil skip of
\* the check is never taken.  Only the legacy field changes, so in
\* dual-stack mode roaming does not redirect SendBuffer.
Roam(a) ==
  /\ count.roams < MaxRoams
  /\ Admitted(a)
  /\ Free
  /\ count' = [count EXCEPT !.roams = @ + 1]
  /\ \/ ep' = [ep EXCEPT !["endpoint"] = a]
     \/ SuperPeer /\ UNCHANGED ep
  /\ UNCHANGED <<failed, activeAF, rw, up, spc, cu>>

RoamReject(a) ==
  /\ count.roams < MaxRoams
  /\ ~Admitted(a)
  /\ count' = [count EXCEPT !.roams = @ + 1]
  /\ UNCHANGED <<ep, failed, activeAF, rw, up, spc, cu>>

\* The network: a leg goes down or comes back.
Flap(l) ==
  /\ count.flaps < MaxFlaps
  /\ up' = [up EXCEPT ![l] = ~@]
  /\ count' = [count EXCEPT !.flaps = @ + 1]
  /\ UNCHANGED <<ep, failed, activeAF, rw, spc, cu>>

-----------------------------------------------------------------------------

Init ==
  /\ ep = [k \in Slots |-> None]
  /\ failed = [k \in {"v4", "v6", "udp"} |-> FALSE]
  /\ activeAF = 0
  /\ rw = [r |-> {}, w |-> None, wq |-> {}]
  /\ up = [l \in Legs |-> TRUE]
  /\ spc = [s \in Senders |-> [pc |-> "idle", mode |-> "none", plan |-> <<>>,
                                sent |-> FALSE, skipUp |-> FALSE, errUp |-> FALSE]]
  /\ cu = [pc |-> "idle", l |-> [v4 |-> None, v6 |-> None, paf |-> 4], given |-> {},
          paf |-> 4, staleOk |-> FALSE]
  /\ count = [sends |-> 0, flaps |-> 0, calls |-> 0, roams |-> 0]

SenderStep(s) ==
  TryV6(s) \/ Lock6(s) \/ TryV4(s) \/ TryFakeTCP(s)
  \/ LegacyUDP(s) \/ LegacyUDPResult(s) \/ LegacyTCP(s) \/ Finish(s)

\* Lock6 and TryFakeTCP can never be taken: every failed IPv6 send in
\* dual-stack mode has an IPv4 endpoint (dual-stack needs both) and so
\* blocks in Lock6 for ever, and the FakeTCP leg is only reached after an
\* IPv6 send that did not block.  Next leaves them out; NextFull keeps them.
Next ==
  \/ \E s \in Senders : SendStart(s)
  \/ \E s \in Senders : TryV6(s)
  \/ \E s \in Senders : TryV4(s)
  \/ \E s \in Senders : LegacyUDP(s)
  \/ \E s \in Senders : LegacyUDPResult(s)
  \/ \E s \in Senders : LegacyTCP(s)
  \/ \E s \in Senders : Finish(s)
  \/ \E l \in Lookups : CuStart(l)
  \/ CuSection
  \/ CuCheck
  \/ CuLegacy
  \/ \E a \in Addrs : Roam(a)
  \/ \E a \in Addrs : RoamReject(a)
  \/ \E l \in Legs : Flap(l)

NextFull == Next \/ \E s \in Senders : Lock6(s) \/ TryFakeTCP(s)

\* A goroutine inside SendBuffer or SetEndpointFromConnURL runs on; users,
\* packets and the network are not fair.
Fairness ==
  /\ \A s \in Senders : WF_vars(SenderStep(s))
  /\ WF_vars(CuSection) /\ WF_vars(CuCheck) /\ WF_vars(CuLegacy)

Spec == Init /\ [][Next]_vars /\ Fairness
SpecFull == Init /\ [][NextFull]_vars /\ Fairness

-----------------------------------------------------------------------------

TypeOK ==
  /\ ep \in [Slots -> Addrs \cup {None}]
  /\ failed \in [{"v4", "v6", "udp"} -> BOOLEAN]
  /\ activeAF \in {0, 4, 6}
  /\ rw.r \subseteq Senders /\ rw.wq \subseteq Senders /\ rw.w = None
  /\ up \in [Legs -> BOOLEAN]
  /\ \A s \in Senders :
       /\ spc[s].pc \in {"idle", "try", "udpRes", "lock6"}
       /\ spc[s].mode \in {"none", "dual", "legacy"}
       /\ {spc[s].sent, spc[s].skipUp, spc[s].errUp} \subseteq BOOLEAN
       /\ (spc[s].pc # "idle") = (s \in rw.r)
  /\ cu.pc \in {"idle", "v4", "tcp4", "v6", "tcp6", "check", "legacy"} /\ cu.given \subseteq Addrs

\* Admission (SetEndpointFromConnURL's and SetEndpointFromPacket's private
\* IP checks): unless AllowPrivateIP, no endpoint the peer sends to, UDP or
\* FakeTCP, is ever a private address, whatever order lookups and roaming
\* packets arrive in.
EndpointAdmitted == \A k \in Slots : ep[k] = None \/ Admitted(ep[k])

\* Every SendBuffer call returns (spec scenario 4: after an IPv6 failure
\* the next sends go out over IPv4).
SendBufferReturns ==
  \A s \in Senders : spc[s].pc # "idle" ~> spc[s].pc = "idle"

\* SendBuffer never returns an error after passing over a leg that was up
\* because an earlier failure marked it: a failed leg is tried again once
\* it recovers (the legacy path's "UDP communication recovered" branch,
\* the "Try IPv6 to check if it has recovered" retry, spec 4.4).
SendErrOnlyWhenDown == \A s \in Senders : ~spc[s].errUp

\* A SetEndpointFromConnURL that returns nil has set the peer's endpoint to
\* an address of this URL ("Ensure at least one endpoint was set").
ConnURLSetsOwnEndpoint == ~cu.staleOk

=============================================================================
