------------------------------- MODULE Checksum -------------------------------
(***************************************************************************)
(* The Internet checksum of layers/network_layer.py,                       *)
(* layers/transport_layer.py and utils/packet_utils.py, on the total of    *)
(* the 16-bit words of a header or of a segment with its pseudo-header.    *)
(* The total with a checksum in place is the one before plus the checksum. *)
(***************************************************************************)
EXTENDS Integers

W == 65536

\* Folding the carries once.
Fold(total) == (total \div W) + (total % W)

\* The second fold adds the carry of the first, and the result is complemented.
Checksum(total) ==
  LET s == Fold(total)
  IN  (W - 1) - ((s + (s \div W)) % W)

\* What the parsers ask of a packet.
Verifies(total) == Checksum(total) = 0

\* No packet has more: 65535 bytes and a pseudo-header make less than 65536 words.
Total == {n \in Nat : n < W * (W - 1)}
=============================================================================
