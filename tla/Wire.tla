--------------------------------- MODULE Wire ---------------------------------
(***************************************************************************)
(* From a packet to what analyze reports of it: the packet is cut by       *)
(* fragment_ip_packet when the MTU asks for it, framed, captured in any    *)
(* order, repeatedly, and not always to its end; every captured frame goes *)
(* through _parse_layer2 to _parse_layer4 of analyzer.py, which put the    *)
(* fragments together again.                                               *)
(*                                                                         *)
(* Composes Fragmenter, IPBuffer and Layers for one datagram; IPReassembler *)
(* has several datagrams, threads and time.  Fragments of packets with IP  *)
(* options, which come out wrong, are not captured here.                   *)
(***************************************************************************)
EXTENDS Fragmenter, Layers

CONSTANTS Transports,    \* what the packets carry: [protocol, header_len, checksummed]
          Snaps,         \* how many bytes of a frame a capture keeps
          MaxCaptures    \* bound: frames captured

\* A TCP segment always has a checksum; without one, a segment that was sent by an offloading
\* host and cut short would be taken for whole.
ASSUME WireAssumption ==
  /\ \A t \in Transports :
       /\ t.protocol \in {"tcp", "udp", "other"} /\ t.header_len \in Nat
       /\ t.checksummed \in BOOLEAN
       /\ t.protocol = "tcp" => t.checksummed
       /\ t.protocol = "udp" => t.header_len = 8
  /\ Snaps \subseteq Nat /\ MaxCaptures \in Nat

VARIABLES transport,     \* what the packet carries
          buffer,        \* the fragments that analyze holds
          parsed,        \* what the last call of analyze reported
          captures,
          whole, damaged,   \* fragments captured to their end, and not so
          longest        \* the longest payload reported, -1 before the first

wireVars == <<transport, buffer, parsed, captures, whole, damaged, longest>>

allVars == <<vars, wireVars>>

-----------------------------------------------------------------------------
(* Capture                                                                 *)

\* Fragment i as a packet, and padded to the 46 bytes that Ethernet asks for.
Packet(i) == Filler(header_len) \o [n \in 1..fragments[i].size |-> fragments[i].start + n]

Padded(packet) == packet \o Filler(IF Len(packet) < 46 THEN 46 - Len(packet) ELSE 0)

HeaderOf(i, total_length) ==
  Header(header_len, total_length, fragments[i].block, ~fragments[i].is_last, transport.protocol)

TotalLength(i) == header_len + fragments[i].size

IsCut == Len(fragments) > 1

-----------------------------------------------------------------------------
(* analyze                                                                 *)

Report(errors, layer, segment) ==
  [errors |-> errors, layer |-> layer, payload |-> segment.payload, checksum |-> segment.checksum]

NoSegment == Segment(<<>>, FALSE, "unchecked")

\* _parse_layer4
ParseLayer4(errors, data) ==
  LET t == [header_len |-> transport.header_len, checksummed |-> transport.checksummed,
            length |-> length]
      segment == IF transport.protocol = "tcp" THEN ParseTCP(data, t) ELSE ParseUDP(data, t)
  IN  IF transport.protocol = "other" THEN Report(errors, "network", NoSegment)
      ELSE Report(errors \cup (IF segment.error THEN {"transport"} ELSE {}), "transport", segment)

\* A frame without an IP packet that can be read stops at its layer.
ParseLayer2(ether) ==
  /\ ether.ethertype # "IPv4"
  /\ parsed' = Report({"link"}, "link", NoSegment)
  /\ UNCHANGED buffer

Unfragmented(ip, errors) ==
  /\ ~IsFragmented(ip.header)
  /\ parsed' = IF ip.header.protocol = "none" THEN Report(errors, "network", NoSegment)
               ELSE ParseLayer4(errors, ip.payload)
  /\ UNCHANGED buffer

\* A fragment is kept however short it was captured; the one that completes the datagram
\* reports it, with the errors of its own frame.
Fragmented(ip, errors) ==
  LET h     == ip.header
      added == AddFragment(buffer, Fragment(8 * h.fragment_offset, ip.payload, ~h.mf_flag), 0)
  IN  /\ IsFragmented(h)
      /\ IF added.complete
         THEN /\ parsed' = ParseLayer4(errors, AssembleData(added.fragments))
              /\ buffer' = NewBuffer(0)
         ELSE /\ parsed' = Report(errors, "fragment", NoSegment)
              /\ buffer' = added

Analyze(bytes, tagged, header) ==
  LET ether  == ParseEthernet(bytes, tagged)
      ip     == ParseIPv4(ether.payload, header)
      errors == IF ip.error THEN {"network"} ELSE {}
  IN  \/ ParseLayer2(ether)
      \/ ether.ethertype = "IPv4" /\ (Unfragmented(ip, errors) \/ Fragmented(ip, errors))

\* One frame is captured and analyzed.  A frame is padded or not, by where it is captured,
\* and offloading leaves the length of a packet that is not cut to the hardware.
Capture ==
  /\ done /\ captures < MaxCaptures
  /\ IsCut => header_len = 20
  /\ \E i \in DOMAIN fragments, tagged, padded \in BOOLEAN, snap \in Snaps, offloaded \in BOOLEAN :
       LET frame == BuildEthernet(tagged, IF padded THEN Padded(Packet(i)) ELSE Packet(i))
           intact == snap >= EthernetHeader(tagged) + TotalLength(i)
       IN  /\ offloaded => ~IsCut /\ ~padded
           /\ Analyze(SubSeq(frame, 1, Min({snap, Len(frame)})), tagged,
                      HeaderOf(i, IF offloaded THEN 0 ELSE TotalLength(i)))
           /\ whole' = IF intact THEN whole \cup {i} ELSE whole
           /\ damaged' = IF intact THEN damaged ELSE damaged \cup {i}
  /\ captures' = captures + 1
  /\ longest' = IF parsed'.layer = "transport" THEN Max({longest, Len(parsed'.payload)}) ELSE longest
  /\ UNCHANGED <<vars, transport>>

WireInit ==
  /\ Init
  /\ transport \in { t \in Transports : t.header_len <= length }
  /\ buffer = NewBuffer(0)
  /\ parsed = Report({}, "none", NoSegment)
  /\ captures = 0
  /\ whole = {} /\ damaged = {}
  /\ longest = -1

Send == Next /\ UNCHANGED wireVars

WireNext == Send \/ Capture

WireSpec == WireInit /\ [][WireNext]_allVars /\ WF_allVars(Send)

-----------------------------------------------------------------------------
\* A header that says it is shorter than a TCP header can be; its packet has no payload.
Malformed == transport.protocol = "tcp" /\ transport.header_len < 20

\* The data that was sent.
Data == [i \in 1..(length - transport.header_len) |-> transport.header_len + i]

\* What is reported as the payload of a segment or datagram is the beginning of what was
\* sent: no padding, no header and no byte of another place gets in, however short the
\* frames were captured and in whatever order (layers/*.py, analyzer.py:222-296).
PayloadFaithful == IsPrefix(parsed.payload, Data)

\* Lost bytes do not go unnoticed: when a segment or datagram is reported with less than was
\* sent, the report has an error or a wrong checksum (analyzer.py:20-24).  A fragment cut
\* short is what makes this hard: it stays in the buffer without its error, and the frame
\* that completes the datagram may be flawless.
DamageShows ==
  parsed.layer \in {"link", "network", "transport"} /\ transport.protocol # "other" /\ parsed.payload # Data =>
    parsed.errors # {} \/ parsed.checksum = "invalid"

\* As long as all frames are captured to the end of their packets, whatever the padding,
\* nothing is reported as damaged, and what is reported has all its bytes.
WholeIsClean ==
  damaged = {} /\ ~Malformed =>
    /\ parsed.errors = {} /\ parsed.checksum # "invalid"
    /\ parsed.layer = "transport" => parsed.payload = Data

\* Once every fragment has been captured to its end, the data has been reported whole, in
\* whatever order and although short copies of other fragments came in between.  A short
\* copy of the last fragment is the exception: it ends the datagram early
\* (ip_reassembly.py:104-151).
DeliveredWhole ==
  /\ done /\ whole = DOMAIN fragments /\ Len(fragments) \notin damaged
  /\ transport.protocol # "other" /\ ~Malformed
  => longest = Len(Data)
=============================================================================
