------------------------------- MODULE Layers -------------------------------
(***************************************************************************)
(* What the parsers of layers/ make of the bytes of a frame, as much of it *)
(* as was captured.  A byte of an IP payload is its position there, any    *)
(* other byte is 0.  Header fields are in a record of their own: a parser  *)
(* reads them once it has found the header's bytes.                        *)
(*                                                                         *)
(* error stands for is_truncated and parse_error: analyze records either.  *)
(* Left out: fields that only describe the packet (addresses, ports,       *)
(* sequence numbers, options, times), a version other than 4, and double   *)
(* VLAN tags.                                                              *)
(***************************************************************************)
EXTENDS IPBuffer

\* What fills the frame before and behind the payload.
Filler(n) == [i \in 1..n |-> 0]

\* The IP header's fields; when they could not be read they are those of an empty IPHeader.
Header(ihl_bytes, total_length, fragment_offset, mf_flag, protocol) ==
  [ ihl_bytes |-> ihl_bytes, total_length |-> total_length,
    fragment_offset |-> fragment_offset, mf_flag |-> mf_flag, protocol |-> protocol ]

EmptyHeader == Header(20, 0, 0, FALSE, "none")

IsFragmented(h) == h.fragment_offset > 0 \/ h.mf_flag

EthernetHeader(tagged) == IF tagged THEN 18 ELSE 14

BuildEthernet(tagged, packet) == Filler(EthernetHeader(tagged)) \o packet

\* Without the whole header there is neither a type nor a payload.
ParseEthernet(bytes, tagged) ==
  LET offset == EthernetHeader(tagged)
  IN  IF Len(bytes) < offset
      THEN [ethertype |-> "none", payload |-> <<>>, error |-> TRUE]
      ELSE [ethertype |-> "IPv4", payload |-> SubSeq(bytes, offset + 1, Len(bytes)), error |-> FALSE]

\* Mutant: the payload goes on to the end of the frame.
ParseIPv4Unbounded(bytes, h) ==
  IF Len(bytes) < 20 \/ h.ihl_bytes < 20 \/ Len(bytes) < h.ihl_bytes
  THEN [header |-> EmptyHeader, payload |-> <<>>, error |-> TRUE]
  ELSE [header |-> h, payload |-> SubSeq(bytes, h.ihl_bytes + 1, Len(bytes)),
        error |-> Len(bytes) < h.total_length]

\* Mutant: a frame that is not as long as its packet is an error.
ParseIPv4Exact(bytes, h) ==
  LET end == IF h.total_length > 0 THEN Min({h.total_length, Len(bytes)}) ELSE Len(bytes)
  IN  IF Len(bytes) < 20 \/ h.ihl_bytes < 20 \/ Len(bytes) < h.ihl_bytes
      THEN [header |-> EmptyHeader, payload |-> <<>>, error |-> TRUE]
      ELSE [header |-> h, payload |-> SubSeq(bytes, h.ihl_bytes + 1, end),
            error |-> h.total_length > 0 /\ Len(bytes) # h.total_length]

\* The payload ends where the header says, so that padding is left out, or where the capture
\* ends; total_length 0, which offloading leaves, is no bound.
ParseIPv4(bytes, h) ==
  LET end == IF h.total_length > 0 THEN Min({h.total_length, Len(bytes)}) ELSE Len(bytes)
  IN  IF Len(bytes) < 20 \/ h.ihl_bytes < 20 \/ Len(bytes) < h.ihl_bytes
      THEN [header |-> EmptyHeader, payload |-> <<>>, error |-> TRUE]
      ELSE [header |-> h, payload |-> SubSeq(bytes, h.ihl_bytes + 1, end),
            error |-> Len(bytes) < h.total_length]

-----------------------------------------------------------------------------
(* Transport: t is [header_len, checksummed, length], whose length is that *)
(* of the whole datagram as sent.  A checksum is taken to tell whether all *)
(* of that is there; module Checksum says how far it can.                  *)

Segment(payload, error, checksum) == [payload |-> payload, error |-> error, checksum |-> checksum]

Verified(bytes, t) ==
  CASE ~t.checksummed -> "unchecked"
    [] t.checksummed /\ Len(bytes) = t.length -> "valid"
    [] OTHER -> "invalid"

\* TCP has no length of its own: what the IP payload holds is the segment.
ParseTCP(bytes, t) ==
  IF Len(bytes) < 20 \/ t.header_len < 20 \/ Len(bytes) < t.header_len
  THEN Segment(<<>>, TRUE, "unchecked")
  ELSE Segment(SubSeq(bytes, t.header_len + 1, Len(bytes)), FALSE, Verified(bytes, t))

\* Mutant: the length field only bounds the payload.
ParseUDPUnmarked(bytes, t) ==
  IF Len(bytes) < 8
  THEN Segment(<<>>, TRUE, "unchecked")
  ELSE Segment(SubSeq(bytes, 9, Min({t.length, Len(bytes)})), FALSE, Verified(bytes, t))

ParseUDP(bytes, t) ==
  IF Len(bytes) < 8
  THEN Segment(<<>>, TRUE, "unchecked")
  ELSE Segment(SubSeq(bytes, 9, Min({t.length, Len(bytes)})), Len(bytes) < t.length, Verified(bytes, t))
=============================================================================
