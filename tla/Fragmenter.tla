------------------------------ MODULE Fragmenter ------------------------------
(***************************************************************************)
(* Cutting a packet into fragments: fragment_ip_packet of                  *)
(* stream/ip_reassembly.py, one turn of its loop per step.  Lengths and    *)
(* offsets are in bytes, except block, which the header carries in units   *)
(* of 8 bytes.  Of a fragment's header only its length matters here.       *)
(***************************************************************************)
EXTENDS Integers, Sequences

CONSTANTS PayloadLens,   \* payload lengths of the packet
          HeaderLens,    \* header lengths
          Mtus

\* An MTU that leaves less than 8 bytes for data makes the loop of the code run
\* forever on a payload that does not fit, and is not considered.
ASSUME FragmenterAssumption ==
  /\ PayloadLens \subseteq Nat /\ \A n \in PayloadLens : n <= 65515
  /\ HeaderLens \subseteq Nat /\ \A h \in HeaderLens : 20 <= h /\ h <= 60
  /\ Mtus \subseteq Nat
  /\ \A m \in Mtus, h \in HeaderLens : m >= h + 8

VARIABLES length,        \* len(payload)
          header_len,
          mtu,
          offset,        \* bytes of the payload already cut
          frag_offset_blocks,
          fragments,     \* [block, start, size, is_last]: payload[start:start + size]
          done           \* returned

vars == <<length, header_len, mtu, offset, frag_offset_blocks, fragments, done>>

MaxPayload == ((mtu - header_len) \div 8) * 8

Cut(block, start, size, is_last) ==
  [block |-> block, start |-> start, size |-> size, is_last |-> is_last]

\* A payload that fits is returned in one packet, uncut.
Init ==
  /\ length \in PayloadLens
  /\ header_len \in HeaderLens
  /\ mtu \in Mtus
  /\ offset = 0
  /\ frag_offset_blocks = 0
  /\ done = (length <= MaxPayload)
  /\ fragments = IF done THEN <<Cut(0, 0, length, TRUE)>> ELSE <<>>

\* Mutant: the last fragment is not recognised when it ends exactly at the end.
CutFragmentUnmarked ==
  LET rest    == length - offset
      chunk   == IF MaxPayload < rest THEN MaxPayload ELSE rest
  IN  /\ ~done
      /\ offset < length
      /\ fragments' = Append(fragments, Cut(frag_offset_blocks, offset, chunk, offset + chunk > length))
      /\ offset' = offset + chunk
      /\ frag_offset_blocks' = frag_offset_blocks + chunk \div 8
      /\ UNCHANGED <<length, header_len, mtu, done>>

CutFragment ==
  LET rest    == length - offset
      chunk   == IF MaxPayload < rest THEN MaxPayload ELSE rest
      is_last == offset + chunk >= length
      size    == IF is_last THEN chunk ELSE (chunk \div 8) * 8
  IN  /\ ~done
      /\ offset < length
      /\ fragments' = Append(fragments, Cut(frag_offset_blocks, offset, size, is_last))
      /\ offset' = offset + size
      /\ frag_offset_blocks' = frag_offset_blocks + size \div 8
      /\ UNCHANGED <<length, header_len, mtu, done>>

\* Mutant: the loop is left only past the end.
ReturnPastEnd ==
  /\ ~done
  /\ offset > length
  /\ done' = TRUE
  /\ UNCHANGED <<length, header_len, mtu, offset, frag_offset_blocks, fragments>>

Return ==
  /\ ~done
  /\ offset >= length
  /\ done' = TRUE
  /\ UNCHANGED <<length, header_len, mtu, offset, frag_offset_blocks, fragments>>

Next == CutFragment \/ Return

Spec == Init /\ [][Next]_vars /\ WF_vars(Next)

-----------------------------------------------------------------------------
\* The offset that goes into the header is the one the data was taken from, every
\* fragment fits the MTU, and a block number fits its 13 bits.
OffsetsAgree ==
  \A i \in 1..Len(fragments) :
    /\ fragments[i].start = 8 * fragments[i].block
    /\ fragments[i].block < 8192
    /\ header_len + fragments[i].size <= mtu

\* Fragments follow one another without hole or overlap from the first byte, and the
\* last-fragment mark is on the one that reaches the end and on no other.
Tiles ==
  /\ OffsetsAgree
  /\ \A i \in 1..Len(fragments) :
       /\ fragments[i].start = IF i = 1 THEN 0 ELSE fragments[i - 1].start + fragments[i - 1].size
       /\ fragments[i].is_last <=> fragments[i].start + fragments[i].size = length
  /\ done => fragments # <<>> /\ fragments[Len(fragments)].is_last

\* fragment_ip_packet returns.
Returns == <>done
=============================================================================
