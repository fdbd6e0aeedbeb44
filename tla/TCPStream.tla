------------------------------ MODULE TCPStream ------------------------------
(***************************************************************************)
(* One direction of a TCP connection under capture: the bytes 1..StreamLen *)
(* of a stream, carried by overlapping, reordered, lost or repeated        *)
(* segments, fed to a TCPStreamHalf.  Byte p travels with sequence number  *)
(* (ISN + p) % SeqSpace: the SYN takes ISN, the FIN follows the last byte. *)
(* The SYN is captured before anything else, but may be captured again.    *)
(***************************************************************************)
EXTENDS TCPHalf

CONSTANTS StreamLen,     \* bytes in the stream
          Segments,      \* the <<a, b>> on the wire: the bytes from a up to b, exclusive
          ISN,           \* initial sequence number
          SeqSpace,      \* size of the wire's sequence space (2^32 in TCP)
          MaxArrivals    \* bound: segments captured

ASSUME TCPStreamAssumption ==
  /\ StreamLen \in Nat \ {0} /\ MaxArrivals \in Nat
  /\ SeqSpace \in Nat \ {0} /\ ISN \in 0..(SeqSpace - 1)
  /\ Segments \subseteq {s \in (1..StreamLen) \X (2..(StreamLen + 1)) : s[1] < s[2]}

VARIABLES half,          \* the TCPStreamHalf
          out,           \* everything delivered so far
          arrived,       \* positions captured at least once
          arrivals       \* segments captured

vars == <<half, out, arrived, arrivals>>

Wire(p) == (ISN + p) % SeqSpace

Bytes(a, b) == a..(b - 1)

TCP(p, syn, fin, payload) ==
  [seq |-> Wire(p), syn |-> syn, fin |-> fin, payload |-> payload]

Init ==
  /\ half = NewHalf
  /\ out = <<>>
  /\ arrived = {}
  /\ arrivals = 0

Receive(tcp) ==
  LET result == ReceiveSegment(half, tcp)
  IN  /\ arrivals < MaxArrivals
      /\ arrivals' = arrivals + 1
      /\ arrived' = arrived \cup ToSet(tcp.payload)
      /\ half' = result.half
      /\ out' = out \o result.delivered

ArriveSyn == Receive(TCP(0, TRUE, FALSE, <<>>))

\* The last segment of the stream may carry the FIN.
ArriveData(a, b, fin) ==
  /\ half.has_syn
  /\ fin => b = StreamLen + 1
  /\ Receive(TCP(a, FALSE, fin, [i \in 1..(b - a) |-> a + i - 1]))

ArriveFin ==
  /\ half.has_syn
  /\ Receive(TCP(StreamLen + 1, FALSE, TRUE, <<>>))

Next ==
  \/ ArriveSyn
  \/ \E s \in Segments, fin \in BOOLEAN : ArriveData(s[1], s[2], fin)
  \/ ArriveFin

Spec == Init /\ [][Next]_vars

-----------------------------------------------------------------------------
Positions == 1..StreamLen

\* Positions in the buffer, with multiplicity in BufferedCount.
Held == UNION {ToSet(seg.data) : seg \in ToSet(half.segments)}
BufferedCount == FoldLeft(LAMBDA n, seg : n + Len(seg.data), 0, half.segments)

\* The buffer is sorted, its segments neither overlap nor touch, and each byte sits
\* at its own sequence number: what insertion in the middle of the list followed by
\* _merge_segments' single pass must restore whatever the segments overlap.
BufferCanonical ==
  /\ \A i \in 1..(Len(half.segments) - 1) :
       End(half.segments[i]) < half.segments[i + 1].seq
  /\ \A seg \in ToSet(half.segments) :
       /\ seg.data # <<>>
       /\ \A i \in DOMAIN seg.data : Wire(seg.data[i]) = seg.seq + i - 1

\* bytes_received covers what was delivered, what is buffered and what was counted
\* as duplicate: no byte of a segment is accounted for twice, although overlaps are
\* cut off on arrival, on merging and (contained segments) not at all.
AccountingHolds ==
  half.bytes_delivered + BufferedCount + half.duplicate_bytes <= half.bytes_received

\* Only bytes that had been captured before are counted as duplicates and dropped
\* (tcp_reassembly.py:11).
OnlyRetransmissionsIgnored ==
  half.duplicate_bytes <= half.bytes_received - Cardinality(arrived)

\* All the data that is contiguous from the start of the stream has been delivered
\* (tcp_reassembly.py:10): the first captured gap, if any, is at the next byte.  It holds
\* for a sender that repeats its segments as they are, and fails for one that cuts them anew.
ContiguousDelivered ==
  \A p \in Positions : Bytes(1, p + 1) \subseteq arrived => Len(out) >= p

\* The code's list of merged segments behaves as a set of positions, and what it
\* delivers is a prefix of the stream: every step is a step of StreamReassembly.
Reassembly == INSTANCE StreamReassembly WITH
  next <- IF half.next_seq = SEQ_UNSET THEN 1 ELSE half.next_seq - ISN,
  held <- Held
RefinesStreamReassembly == Reassembly!Spec
=============================================================================
