---------------------------- MODULE ChecksumSpec ----------------------------
(***************************************************************************)
(* What the packet codec promises of its checksums (spec 4.2): the         *)
(* one's-complement Internet checksum of the pseudo-header followed by the *)
(* segment, an odd last byte padded with a zero byte on the right.  The    *)
(* reference adds 16-bit words with an end-around carry after every        *)
(* addition (RFC 1071), a different algorithm from the code's deferred     *)
(* fold.  A computation starts from its input and, in one step, yields     *)
(* the checksum.                                                           *)
(***************************************************************************)
EXTENDS Integers, Sequences

CONSTANTS
  Bytes,       \* the byte values the inputs are drawn from
  PseudoLens,  \* lengths of the pseudo-header (0: the IP header checksum)
  MaxSegLen,   \* bound: the longest segment
  None

BytesOf(lens) == UNION {[1..n -> Bytes] : n \in lens}
Pseudos == BytesOf(PseudoLens)
Segments == BytesOf(0..MaxSegLen)

\* The 16-bit words of a byte sequence, big-endian, an odd last byte
\* padded on the right.
Words(b) ==
  [k \in 1..((Len(b) + 1) \div 2) |->
     b[2 * k - 1] * 256 + (IF 2 * k <= Len(b) THEN b[2 * k] ELSE 0)]

\* One's-complement addition of two 16-bit values.
OnesAdd(a, w) == IF a + w > 65535 THEN a + w - 65535 ELSE a + w

RECURSIVE OnesSum(_)
OnesSum(ws) == IF ws = <<>> THEN 0 ELSE OnesAdd(OnesSum(Tail(ws)), Head(ws))

RefChecksum(p, s) == 65535 - OnesSum(Words(p) \o Words(s))

VARIABLES pseudo, seg, out

Init == pseudo \in Pseudos /\ seg \in Segments /\ out = None

Compute ==
  /\ out = None
  /\ out' = RefChecksum(pseudo, seg)
  /\ UNCHANGED <<pseudo, seg>>

Spec == Init /\ [][Compute]_<<pseudo, seg, out>>

=============================================================================
