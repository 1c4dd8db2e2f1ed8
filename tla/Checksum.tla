------------------------------ MODULE Checksum ------------------------------
(***************************************************************************)
(* faketcp.calculateChecksum (src/unnamed/part_001, packet.go) step by     *)
(* step: a uint32 accumulator over the pseudo-header's 16-bit words, then  *)
(* the segment's, an odd last byte shifted into the high half, the fold    *)
(* loop while the sum exceeds 0xFFFF, and the complement.  With an empty   *)
(* pseudo-header it is calculateChecksumSimple, the IPv4 header checksum.  *)
(***************************************************************************)
EXTENDS Integers, Sequences

CONSTANTS Bytes, PseudoLens, MaxSegLen, None

VARIABLES
  pseudo,  \* the pseudo-header bytes
  seg,     \* the TCP segment bytes (checksum field zero)
  pc,      \* "pseudo", "seg", "fold", "done"
  i,       \* the loop index, a byte offset
  sum,     \* sum := uint32(0); it cannot wrap: that takes 65537 words,
           \* a 128 KiB segment, far past any MTU the codec sees
  res      \* the uint16 returned, None before

vars == <<pseudo, seg, pc, i, sum, res>>

Ref == INSTANCE ChecksumSpec WITH out <- res

\* binary.BigEndian.Uint16(b[i : i+2]), i a zero-based offset.
Word(b, k) == b[k + 1] * 256 + b[k + 2]

Init ==
  /\ pseudo \in Ref!Pseudos /\ seg \in Ref!Segments
  /\ pc = "pseudo" /\ i = 0 /\ sum = 0 /\ res = None

\* for i := 0; i < len(pseudoHeader); i += 2 { sum += ... }
AddPseudo ==
  /\ pc = "pseudo" /\ i < Len(pseudo)
  /\ sum' = (sum + Word(pseudo, i))
  /\ i' = i + 2
  /\ UNCHANGED <<pseudo, seg, pc, res>>

EndPseudo ==
  /\ pc = "pseudo" /\ i >= Len(pseudo)
  /\ pc' = "seg" /\ i' = 0
  /\ UNCHANGED <<pseudo, seg, sum, res>>

\* for i := 0; i < len(tcpSegment)-1; i += 2 { sum += ... }
AddSeg ==
  /\ pc = "seg" /\ i < Len(seg) - 1
  /\ sum' = (sum + Word(seg, i))
  /\ i' = i + 2
  /\ UNCHANGED <<pseudo, seg, pc, res>>

\* EndSeg with the odd byte added as the low half of its word.
EndSegLowByte ==
  /\ pc = "seg" /\ i >= Len(seg) - 1
  /\ sum' = IF Len(seg) % 2 = 1 THEN (sum + seg[Len(seg)]) ELSE sum
  /\ pc' = "fold"
  /\ UNCHANGED <<pseudo, seg, i, res>>

\* Loop exit, then: if len(tcpSegment)%2 == 1, sum += uint32(last) << 8.
EndSeg ==
  /\ pc = "seg" /\ i >= Len(seg) - 1
  /\ sum' = IF Len(seg) % 2 = 1 THEN (sum + seg[Len(seg)] * 256) ELSE sum
  /\ pc' = "fold"
  /\ UNCHANGED <<pseudo, seg, i, res>>

\* for sum > 0xffff { sum = (sum & 0xffff) + (sum >> 16) }
Fold ==
  /\ pc = "fold" /\ sum > 65535
  /\ sum' = (sum % 65536) + (sum \div 65536)
  /\ UNCHANGED <<pseudo, seg, pc, i, res>>

\* Done taken before the fold loop has brought the sum under 0x10000.
DoneNoFold ==
  /\ pc = "fold"
  /\ res' = 65535 - sum
  /\ pc' = "done"
  /\ UNCHANGED <<pseudo, seg, i, sum>>

\* return ^uint16(sum)
Done ==
  /\ pc = "fold" /\ sum <= 65535
  /\ res' = 65535 - sum
  /\ pc' = "done"
  /\ UNCHANGED <<pseudo, seg, i, sum>>

Next == AddPseudo \/ EndPseudo \/ AddSeg \/ EndSeg \/ Fold \/ Done

Spec == Init /\ [][Next]_vars

-----------------------------------------------------------------------------

TypeOK ==
  /\ pc \in {"pseudo", "seg", "fold", "done"}
  /\ sum \in Nat
  /\ res \in 0..65535 \cup {None}

\* The code's deferred fold computes the one's-complement Internet
\* checksum: every run of calculateChecksum implements the reference,
\* which adds with an end-around carry at each word and pads an odd last
\* byte on the right; the result appears once and never changes.
ChecksumRefinesReference == Ref!Spec

=============================================================================
