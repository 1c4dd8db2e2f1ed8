------------------------------ MODULE TryList ------------------------------
(***************************************************************************)
(* device.endpoint_trylist (src/QUICK_REFERENCE.md, device/peer.go): the   *)
(* per-peer ranking of candidate endpoint URLs.  UpdateSuper rebuilds the  *)
(* supernode maps from a supernode's URL list, UpdateP2P adds a URL        *)
(* gossiped by a peer, Delete drops one, and GetNextTry hands the connect  *)
(* loop the item tried longest ago.  Each method runs under the RWMutex,   *)
(* so each is one atomic step.                                             *)
(*                                                                         *)
(* Times are small integers: 0 is time.Time{}, the clock starts at         *)
(* StartTime.  AfPerferVal (10000 s) is Bias and a URL's priority `it` is  *)
(* Prio[u], both scaled down so that Bias + Prio stays far below the       *)
(* clock, as 10000 s after year 1 is.  A resolved address is named by its  *)
(* URL and family; the v4/v6 maps are only ever written, so the model      *)
(* keeps their key sets.                                                   *)
(***************************************************************************)
EXTENDS Integers, TLC

CONSTANTS
  SuperURLs,  \* URLs a supernode may list
  P2PURLs,    \* URLs peers may gossip
  Prio,       \* Prio[u]: the `it` urls.GetList gives u
  Bias,       \* AfPerferVal
  AfPrefer,   \* the AfPerfer argument of UpdateSuper: 0, 4 or 6
  DualPath,   \* dualStackEnabled && enabledAf.IPv4 && enabledAf.IPv6
  Timeout,    \* et.timeout
  StartTime,  \* the clock when the peer is created
  MaxTime,    \* bound: the last tick explored
  None

ASSUME StartTime > 2 * Bias + Prio[CHOOSE u \in SuperURLs : TRUE] + Timeout

VARIABLES
  super,    \* trymap_super: URL -> [last |-> lastTry, first |-> firstTry]
  superV4,  \* the keys of trymap_super_v4
  superV6,  \* the keys of trymap_super_v6
  p2p,      \* trymap_p2p
  now,      \* time.Now()
  ret,      \* what the last GetNextTry returned, None before the first
  tried     \* history: when GetNextTry first returned super URL u since u
            \* last entered trymap_super, 0 if it has not

vars == <<super, superV4, superV6, p2p, now, ret, tried>>

(* What resolving a URL yields: a successful LookupIPDualStack with the     *)
(* families found ("d4", "d6", "d46", or "d0": neither, which adds nothing  *)
(* and still skips the legacy lookup; conn.LookupIPDualStack is not in the  *)
(* repository, so nothing rules it out), or LookupIP's network, or its     *)
(* error.                                                                  *)
DualOut == {"d0", "d4", "d6", "d46"}
LegacyOut == {"udp", "udp4", "udp6", "err"}
Outcomes == IF DualPath THEN DualOut \cup LegacyOut ELSE LegacyOut

\* The outcome puts an address of family fam (4 or 6) in trymap_super_<fam>.
InFam(o, fam) ==
  o \in IF fam = 4 THEN {"udp", "udp4", "d4", "d46"} ELSE {"udp6", "d6", "d46"}

\* The item for family fam is shifted by AfPerferVal: v4It/v6It on the dual
\* path, adjustedIt on the legacy one ("udp" is never adjusted).
PrefFam(o, fam) == AfPrefer = fam /\ InFam(o, fam) /\ o # "udp"

\* A fresh item whose lastTry lacks the AfPerferVal base.
FreshNoBase(u, pref) == [last |-> Prio[u] - (IF pref THEN Bias ELSE 0), first |-> 0]

\* A fresh item: lastTry = time.Time{} + AfPerferVal + it, it reduced by
\* AfPerferVal for the preferred family; firstTry = time.Time{}.
Fresh(u, pref) == [last |-> Bias + Prio[u] - (IF pref THEN Bias ELSE 0), first |-> 0]

\* The old item when the old map has the key, else a fresh one.
Carry(m, u, pref) == IF u \in DOMAIN m THEN m[u] ELSE Fresh(u, pref)

\* NewEndpoint_trylist: every map empty.
Init ==
  /\ super = <<>> /\ superV4 = {} /\ superV6 = {} /\ p2p = <<>>
  /\ now = StartTime /\ ret = None
  /\ tried = [u \in SuperURLs |-> 0]

\* UpdateSuper with a fresh item even for a URL the old map has.
UpdateSuperFresh ==
  \E U \in SUBSET SuperURLs : \E lk \in [U -> Outcomes] :
    LET S == {u \in U : lk[u] \in {"udp", "udp4", "udp6"}} IN
    /\ super' = [u \in S |-> Fresh(u, PrefFam(lk[u], 4) \/ PrefFam(lk[u], 6))]
    /\ superV4' = {u \in U : InFam(lk[u], 4)}
    /\ superV6' = {u \in U : InFam(lk[u], 6)}
    /\ tried' = [u \in SuperURLs |->
                   IF u \in S /\ u \in DOMAIN super THEN tried[u] ELSE 0]
    /\ UNCHANGED <<p2p, now, ret>>

\* UpdateSuper(urls, ...): for each listed URL, a successful dual-stack
\* lookup goes to the v4/v6 maps only and continues; otherwise LookupIP's
\* error skips the URL, and its network puts the URL in trymap_super and
\* the address in the v4 or v6 map, each item carried from the old map or
\* fresh.  The three maps are then replaced whole.
UpdateSuper ==
  \E U \in SUBSET SuperURLs : \E lk \in [U -> Outcomes] :
    LET S == {u \in U : lk[u] \in {"udp", "udp4", "udp6"}} IN
    /\ super' = [u \in S |-> Carry(super, u, PrefFam(lk[u], 4) \/ PrefFam(lk[u], 6))]
    /\ superV4' = {u \in U : InFam(lk[u], 4)}
    /\ superV6' = {u \in U : InFam(lk[u], 6)}
    /\ tried' = [u \in SuperURLs |->
                   IF u \in S /\ u \in DOMAIN super THEN tried[u] ELSE 0]
    /\ UNCHANGED <<p2p, now, ret>>

\* UpdateP2P with firstTry's zero time written into lastTry as well.
UpdateP2PEpoch(u) ==
  /\ u \notin DOMAIN p2p
  /\ p2p' = p2p @@ (u :> [last |-> 0, first |-> 0])
  /\ UNCHANGED <<super, superV4, superV6, now, ret, tried>>

\* UpdateP2P(url): once LookupIP succeeds, a URL not yet in trymap_p2p is
\* added with lastTry = now, firstTry = time.Time{}.  A failed lookup or a
\* URL already there changes nothing.
UpdateP2P(u) ==
  /\ u \notin DOMAIN p2p
  /\ p2p' = p2p @@ (u :> [last |-> now, first |-> 0])
  /\ UNCHANGED <<super, superV4, superV6, now, ret, tried>>

\* Delete(url): removes url from trymap_super and trymap_p2p.
Delete(u) ==
  /\ u \in DOMAIN super \cup DOMAIN p2p
  /\ super' = [v \in DOMAIN super \ {u} |-> super[v]]
  /\ p2p' = [v \in DOMAIN p2p \ {u} |-> p2p[v]]
  /\ tried' = [v \in SuperURLs |-> IF v = u THEN 0 ELSE tried[v]]
  /\ UNCHANGED <<superV4, superV6, now, ret>>

Cands == {<<"super", u>> : u \in DOMAIN super} \cup {<<"p2p", u>> : u \in DOMAIN p2p}
ItemOf(c) == IF c[1] = "super" THEN super[c[2]] ELSE p2p[c[2]]

\* A p2p item tried first more than et.timeout ago.
Aged(u) == p2p[u].first > 0 /\ p2p[u].first + Timeout < now

\* The scan's pick: the loop over trymap_super keeps a smallest lastTry (map
\* order is random, so any of the minima), and the loop over trymap_p2p
\* replaces it only by a strictly smaller one (smallest.lastTry.After).
Picks ==
  LET SC == {c \in Cands : c[1] = "super"}
      PC == {c \in Cands : c[1] = "p2p"}
      MinOf(C) == {c \in C : \A d \in C : ItemOf(c).last <= ItemOf(d).last}
  IN IF SC # {} /\ \A c \in MinOf(SC), d \in PC : ItemOf(c).last <= ItemOf(d).last
       THEN MinOf(SC) ELSE MinOf(PC)

\* GetNextTry: the scan deletes aged p2p items as it passes them but still
\* considers them.  The chosen item gets lastTry = time.Now(), and firstTry
\* the same if it was zero; FastTry is false once firstTry + timeout is
\* before time.Now().  Those time.Now() calls follow the scan's, so they
\* read t, the clock or one tick later; a firstTry set in this call is
\* never a timeout before them.  An item chosen after its deletion is
\* returned, and its refresh is lost with it.
GetNextTry ==
  \/ /\ Cands = {}
     /\ ret' = [fast |-> FALSE, from |-> "none", url |-> None]
     /\ UNCHANGED <<super, superV4, superV6, p2p, now, tried>>
  \/ \E c \in Picks, t \in now..(IF now < MaxTime THEN now + 1 ELSE now) :
       LET it == [last |-> t, first |-> IF ItemOf(c).first > 0 THEN ItemOf(c).first ELSE t]
       IN /\ super' = IF c[1] = "super" THEN [super EXCEPT ![c[2]] = it] ELSE super
          /\ p2p' = [u \in {v \in DOMAIN p2p : ~Aged(v)} |->
                       IF c = <<"p2p", u>> THEN it ELSE p2p[u]]
          /\ ret' = [fast |-> ~(it.first + Timeout < t), from |-> c[1], url |-> c[2]]
          /\ tried' = IF c[1] = "super" /\ tried[c[2]] = 0
                        THEN [tried EXCEPT ![c[2]] = t] ELSE tried
          /\ now' = t
          /\ UNCHANGED <<superV4, superV6>>

\* Time passes.
Tick ==
  /\ now < MaxTime
  /\ now' = now + 1
  /\ UNCHANGED <<super, superV4, superV6, p2p, ret, tried>>

Next ==
  \/ UpdateSuper \/ GetNextTry \/ Tick
  \/ \E u \in P2PURLs : UpdateP2P(u)
  \/ \E u \in SuperURLs \cup P2PURLs : Delete(u)

Spec == Init /\ [][Next]_vars

-----------------------------------------------------------------------------

Item == [last : 0..MaxTime, first : {0} \cup (StartTime..MaxTime)]

TypeOK ==
  /\ DOMAIN super \subseteq SuperURLs /\ \A u \in DOMAIN super : super[u] \in Item
  /\ DOMAIN p2p \subseteq P2PURLs /\ \A u \in DOMAIN p2p : p2p[u] \in Item
  /\ superV4 \subseteq SuperURLs /\ superV6 \subseteq SuperURLs
  /\ now \in StartTime..MaxTime
  /\ tried \in [SuperURLs -> {0} \cup (StartTime..MaxTime)]

\* Supernodes first: while trymap_super holds an item never tried, GetNextTry
\* returns such an item, ahead of every p2p URL and every endpoint already
\* tried.  This rests on fresh items dating from year 1 plus AfPerferVal and
\* on p2p items starting at time.Now().
UntriedSuperFirst ==
  [][GetNextTry /\ (\E u \in DOMAIN super : super[u].first = 0)
       => ret'.from = "super" /\ super[ret'.url].first = 0]_vars

\* Backoff survives refresh: a supernode URL that has stayed in the list
\* since GetNextTry first returned it more than et.timeout ago comes back
\* with FastTry false, however often UpdateSuper re-materialised the maps
\* in between (spec 4.6: carrying items forward preserves backoff).
SlowRetryAfterTimeout ==
  [][GetNextTry /\ ret'.from = "super" /\ tried[ret'.url] > 0
       /\ tried[ret'.url] + Timeout < now
       => ~ret'.fast]_vars

\* Spec 4.6: GetNextTry picks the smallest lastTry across all four maps,
\* so it comes back empty-handed only when no map holds a supernode
\* endpoint (the p2p v4/v6 maps are never written).
AllMapsScanned ==
  [][GetNextTry /\ ret'.from = "none" => superV4 = {} /\ superV6 = {}]_vars

=============================================================================
