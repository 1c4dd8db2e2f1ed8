---------------------------- MODULE ZeroOverhead ----------------------------
(***************************************************************************)
(* obfuscation.ZeroOverheadHandler (src/unnamed/part_002): one packet      *)
(* through Encrypt, a network that may cut or corrupt it, and Decrypt at   *)
(* a peer holding the same PSK and maxPacketSize.                          *)
(*                                                                         *)
(* Bytes are abstracted to what the two functions tell apart: a packet is  *)
(* its first byte (the message type), its length, and a token for the      *)
(* contents of its first block and of the rest.  The ciphers are ideal:    *)
(* AES is a bijection on the first block, so a corrupted block decrypts to *)
(* an arbitrary type and garbled contents; XChaCha20-Poly1305 Open         *)
(* succeeds exactly on the ciphertext and nonce Seal produced.  Lengths    *)
(* are the code's, in bytes, with the real block, tag and nonce sizes.     *)
(***************************************************************************)
EXTENDS Integers

CONSTANTS
  MaxPacketSizes,  \* the maxPacketSize values a handler may be built with
  Kinds,           \* first bytes: some of the control types 1..6, some not
  None,
  Err,             \* an error return
  Panic            \* a runtime panic (slice out of range)

VARIABLES
  h,      \* the handler both ends hold
  pc,     \* "encrypt", "wire", "decrypt", "done"
  sent,   \* the plaintext handed to Encrypt
  wire,   \* what Encrypt returned, as the network delivers it
  fault,  \* what the network did: "none", "cut", "block", "rest"
  got     \* what Decrypt returned

vars == <<h, pc, sent, wire, fault, got>>

BlockSize == 16   \* aes.BlockSize
Overhead == 16    \* chacha20poly1305.Overhead
NonceSizeX == 24  \* chacha20poly1305.NonceSizeX

\* MessageTypeRegister .. MessageTypeBroadcastPeer.
IsControl(k) == k \in 1..6

\* NewZeroOverheadHandler(psk, maxPacketSize, enabled) with a 32-byte PSK;
\* a disabled handler is the zero struct but for enabled.
NewZeroOverheadHandler(m, e) ==
  IF e THEN [enabled |-> TRUE, maxPacket |-> m, maxCtl |-> m - 2 - Overhead - NonceSizeX]
       ELSE [enabled |-> FALSE, maxPacket |-> 0, maxCtl |-> 0]

\* The lengths tried: around the AES block, the shortest sealed packet,
\* the control headroom and the u16 length field.
Lens(hd) ==
  {n \in {0, 15, 16, 17, 57, 58, hd.maxCtl - 1, hd.maxCtl, hd.maxCtl + 1,
          65551, 65552} : n >= 0}

Packet(k, n) == [kind |-> k, len |-> n, head |-> "orig", rest |-> "orig"]

\* PadChoicesPlusOne: 1 + rand.Intn(paddingHeadroom + 1).
\* paddingLen: 1 + rand.Intn(paddingHeadroom), 0 without headroom.  Only
\* the two ends of the range are explored; each property is monotone in it.
PadChoicesPlusOne(p) ==
  LET hr == h.maxCtl - p.len IN IF hr > 0 THEN {1, hr + 1} ELSE {0}

PadChoices(p) ==
  LET hr == h.maxCtl - p.len IN IF hr > 0 THEN {1, hr} ELSE {0}

\* The code's checks, each an operator of its own.
\* Encrypt's: paddingHeadroom < 0 || len(remainingPayload) > 65535.
TooLargeNo65535(p) == h.maxCtl - p.len < 0
TooLarge(p) == h.maxCtl - p.len < 0 \/ p.len - BlockSize > 65535

\* Decrypt's len(packet) >= minControlPacketLen (16 + 2 + 16 + 24).
MinLenOkNone(w) == TRUE
MinLenOk(w) == w.len >= BlockSize + 2 + Overhead + NonceSizeX

\* Decrypt's aead.Open succeeds.
OpenOkNoAuth(w) == w.ct # None
OpenOk(w) == w.ct # None /\ w.ct.intact

\* Encrypt(packet): identity when disabled or shorter than a block; else
\* the first block AES-encrypted, and for a data type the rest as is.  A
\* control type fails without headroom or with more than 65535 bytes after
\* the block; otherwise rest ++ padding ++ u16(len(rest)) is sealed in
\* place and the nonce appended.
Encrypt(p, pad) ==
  LET rem == p.len - BlockSize IN
  CASE ~h.enabled \/ p.len < BlockSize ->
         [len |-> p.len, enc |-> FALSE, kind |-> p.kind, head |-> p.head,
          rest |-> p.rest, ct |-> None]
    [] ~IsControl(p.kind) ->
         [len |-> p.len, enc |-> TRUE, kind |-> p.kind, head |-> p.head,
          rest |-> p.rest, ct |-> None]
    [] TooLarge(p) -> Err
    [] OTHER ->
         [len |-> p.len + pad + 2 + Overhead + NonceSizeX,
          enc |-> TRUE, kind |-> p.kind, head |-> p.head, rest |-> "sealed",
          ct |-> [rem |-> rem, pad |-> pad, lenField |-> rem % 65536,
                  data |-> p.rest, intact |-> TRUE]]

\* Decrypt(packet): identity when disabled or shorter than a block; else
\* the first block AES-decrypted, and for a data type the rest appended.
\* A control type needs 16+2+16+24 bytes, an Open that succeeds, and a
\* length field with 16 + len <= paddingEnd; it returns the first
\* 16 + len bytes of the plaintext.  packet[16:nonceStart] panics when
\* the nonce would start inside the first block.  (len(plaintext) < 2
\* cannot happen: the plaintext starts with the 16 decrypted bytes.)
Decrypt(w) ==
  CASE ~h.enabled \/ w.len < BlockSize ->
         [kind |-> w.kind, len |-> w.len,
          head |-> IF w.enc THEN "garbled" ELSE w.head, rest |-> w.rest]
    [] ~IsControl(w.kind) ->
         [kind |-> w.kind, len |-> w.len, head |-> w.head,
          rest |-> IF w.ct = None THEN w.rest ELSE "garbled"]
    [] ~MinLenOk(w) -> Err
    [] w.len < BlockSize + NonceSizeX -> Panic
    [] ~OpenOk(w) -> Err
    [] w.ct.lenField > w.ct.rem + w.ct.pad -> Err
    [] OTHER ->
         [kind |-> w.kind, len |-> BlockSize + w.ct.lenField, head |-> w.head,
          rest |-> IF w.ct.intact /\ w.ct.lenField = w.ct.rem
                     THEN w.ct.data ELSE "garbled"]

-----------------------------------------------------------------------------

Init ==
  /\ \E m \in MaxPacketSizes, e \in BOOLEAN : h = NewZeroOverheadHandler(m, e)
  /\ \E k \in Kinds, n \in Lens(h) : sent = Packet(k, n)
  /\ pc = "encrypt" /\ wire = None /\ fault = "none" /\ got = None

\* The sender's Encrypt; an error ends the packet's trip.
Send ==
  /\ pc = "encrypt"
  /\ \E pad \in PadChoices(sent) : wire' = Encrypt(sent, pad)
  /\ pc' = IF wire' = Err THEN "done" ELSE "wire"
  /\ UNCHANGED <<h, sent, fault, got>>

\* The network delivers the datagram as sent.
Deliver ==
  /\ pc = "wire"
  /\ pc' = "decrypt"
  /\ UNCHANGED <<h, sent, wire, fault, got>>

\* The network delivers the datagram one byte short (the last nonce byte
\* of a sealed packet, so Open sees a different nonce and ciphertext).
Truncate ==
  /\ pc = "wire" /\ wire.len > 0
  /\ wire' = [wire EXCEPT !.len = @ - 1,
                          !.ct = IF @ = None THEN None ELSE [@ EXCEPT !.intact = FALSE]]
  /\ fault' = "cut" /\ pc' = "decrypt"
  /\ UNCHANGED <<h, sent, got>>

\* A byte of the first block is altered: it decrypts to any type.
CorruptBlock ==
  /\ pc = "wire" /\ wire.len >= BlockSize
  /\ \E k \in Kinds : wire' = [wire EXCEPT !.kind = k, !.head = "garbled"]
  /\ fault' = "block" /\ pc' = "decrypt"
  /\ UNCHANGED <<h, sent, got>>

\* A byte after the first block is altered.
CorruptRest ==
  /\ pc = "wire" /\ wire.len > BlockSize
  /\ wire' = IF wire.ct = None THEN [wire EXCEPT !.rest = "garbled"]
                               ELSE [wire EXCEPT !.ct.intact = FALSE]
  /\ fault' = "rest" /\ pc' = "decrypt"
  /\ UNCHANGED <<h, sent, got>>

\* The receiver's Decrypt.
Receive ==
  /\ pc = "decrypt"
  /\ got' = Decrypt(wire)
  /\ pc' = "done"
  /\ UNCHANGED <<h, sent, wire, fault>>

Next == Send \/ Deliver \/ Truncate \/ CorruptBlock \/ CorruptRest \/ Receive

Spec == Init /\ [][Next]_vars

-----------------------------------------------------------------------------

Plain == [kind : Kinds, len : Nat, head : {"orig", "garbled"},
          rest : {"orig", "garbled"}]

\* Types; Decrypt never panics, whatever the network did to the packet
\* (spec boundary test: a truncated control packet fails with an error).
TypeOK ==
  /\ pc \in {"encrypt", "wire", "decrypt", "done"}
  /\ sent \in Plain
  /\ wire = None \/ wire = Err \/ wire.len \in Nat
  /\ got \in Plain \cup {None, Err}

\* Round trip: a packet Encrypt accepted and the network left alone is
\* returned by Decrypt exactly, data or control, at every length from the
\* empty packet to the u16 limit of the length field.
RoundTrip ==
  pc = "done" /\ wire # Err /\ fault = "none" => got = sent

\* Size bound: an enabled handler never puts on the wire a packet longer
\* than maxPacketSize when given one no longer: the padding is drawn from
\* the headroom maxControlPacketSize leaves for length, tag and nonce.
SizeBound ==
  wire \notin {None, Err} /\ h.enabled /\ sent.len <= h.maxPacket
    => wire.len <= h.maxPacket

\* Control integrity: whatever the network did, a control-type packet of a
\* block or more that Decrypt returns carries the sent length and the sent
\* bytes after its first block (the AEAD covers all of them).
RemainderAuthentic ==
  (pc = "done" /\ got \notin {None, Err} /\ h.enabled
     /\ got.len >= BlockSize /\ IsControl(got.kind))
    => got.len = sent.len /\ got.rest = sent.rest

=============================================================================
