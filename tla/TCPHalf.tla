------------------------------- MODULE TCPHalf -------------------------------
(***************************************************************************)
(* One direction of a TCP connection: class TCPStreamHalf of               *)
(* stream/tcp_reassembly.py, as operators on a record.  A payload is a     *)
(* sequence of labels; what the labels are is up to the module that uses   *)
(* this one.  Sequence numbers are plain integers, as in the code, which   *)
(* never reduces them modulo 2^32.                                         *)
(*                                                                         *)
(* Left out because no code reads them: isn, fin_seq, max_seq,             *)
(* segment_count, the half's own "state", and its ip and port.             *)
(***************************************************************************)
EXTENDS Integers, Sequences, SequencesExt

SEQ_UNSET == -1

Segment(seq, data) == [seq |-> seq, data |-> data]

End(seg) == seg.seq + Len(seg.data)

NewHalf ==
  [ next_seq           |-> SEQ_UNSET,
    segments           |-> <<>>,
    bytes_received     |-> 0,
    bytes_delivered    |-> 0,
    duplicate_bytes    |-> 0,
    out_of_order_count |-> 0,
    has_syn            |-> FALSE,
    has_fin            |-> FALSE ]

\* Python's data[n:].
Drop(data, n) == SubSeq(data, n + 1, Len(data))

-----------------------------------------------------------------------------
(* The out-of-order buffer.                                                *)

\* Mutant: the overlap is counted but not cut off.
MergeStepUncut(acc, seg) ==
  LET last == Last(acc.merged)
  IN  CASE End(last) < seg.seq -> [acc EXCEPT !.merged = Append(@, seg)]
        [] End(last) >= seg.seq /\ End(seg) <= End(last) -> acc
        [] OTHER ->
             [ merged     |-> Append(Front(acc.merged),
                                     Segment(last.seq, last.data \o seg.data)),
               duplicates |-> acc.duplicates + End(last) - seg.seq ]

\* Mutant: segments that touch are not merged.
MergeStepTouching(acc, seg) ==
  LET last    == Last(acc.merged)
      overlap == End(last) - seg.seq
  IN  CASE overlap <= 0 -> [acc EXCEPT !.merged = Append(@, seg)]
        [] overlap > 0 /\ End(seg) <= End(last) -> acc
        [] OTHER ->
             [ merged |-> Append(Front(acc.merged),
                            Segment(last.seq, last.data \o Drop(seg.data, overlap))),
               duplicates |-> acc.duplicates + overlap ]

\* One turn of the loop of _merge_segments: seg touches or overlaps the last
\* merged segment and extends it, is contained in it, or starts a new one.
\* Only the extending case counts its overlap as duplicate.
MergeStep(acc, seg) ==
  LET last    == Last(acc.merged)
      overlap == End(last) - seg.seq
  IN  CASE overlap < 0 -> [acc EXCEPT !.merged = Append(@, seg)]
        [] overlap >= 0 /\ End(seg) <= End(last) -> acc
        [] OTHER ->
             [ merged |-> Append(Front(acc.merged),
                            Segment(last.seq, last.data \o Drop(seg.data, overlap))),
               duplicates |-> acc.duplicates + overlap ]

MergeSegments(segments) ==
  FoldLeft(MergeStep, [merged |-> <<Head(segments)>>, duplicates |-> 0], Tail(segments))

\* The new segment goes before the first one that starts after it.  Into an
\* empty buffer it goes unmerged, which merging a single segment amounts to.
InsertOutOfOrder(half, seg) ==
  LET after  == {i \in DOMAIN half.segments : half.segments[i].seq > seg.seq}
      index  == Min(after \cup {Len(half.segments) + 1})
      result == MergeSegments(InsertAt(half.segments, index, seg))
  IN  [half EXCEPT !.segments = result.merged, !.duplicate_bytes = @ + result.duplicates]

\* Mutant: a segment that starts before next_seq is popped too, whole.
ReadyCountLoose(half) ==
  LET expected(i) == IF i = 1 THEN half.next_seq ELSE End(half.segments[i - 1])
  IN  Max({n \in 0..Len(half.segments) :
             \A i \in 1..n : half.segments[i].seq <= expected(i)})

\* How many buffered segments the loop of _flush_ordered_segments pops: the
\* longest run at the head in which each starts exactly where next_seq is by then.
ReadyCount(half) ==
  LET expected(i) == IF i = 1 THEN half.next_seq ELSE End(half.segments[i - 1])
  IN  Max({n \in 0..Len(half.segments) :
             \A i \in 1..n : half.segments[i].seq = expected(i)})

FlushOrderedSegments(half) ==
  LET n    == ReadyCount(half)
      data == FlattenSeq([i \in 1..n |-> half.segments[i].data])
  IN  [ half      |-> [half EXCEPT !.segments        = Drop(@, n),
                                   !.next_seq        = @ + Len(data),
                                   !.bytes_delivered = @ + Len(data)],
        delivered |-> data ]

-----------------------------------------------------------------------------
(* A segment arrives.  Every operator returns the half and the data that   *)
(* process hands to the application.                                       *)

Undelivered(half) == [half |-> half, delivered |-> <<>>]

\* Data that starts exactly at next_seq, then whatever it makes contiguous.
Deliver(half, data) ==
  LET flushed == FlushOrderedSegments(
                   [half EXCEPT !.next_seq        = @ + Len(data),
                                !.bytes_delivered = @ + Len(data)])
  IN  [flushed EXCEPT !.delivered = data \o @]

AddSegment(half, seq, data) ==
  LET next == IF half.next_seq = SEQ_UNSET THEN seq ELSE half.next_seq
      h    == [half EXCEPT !.next_seq = next, !.bytes_received = @ + Len(data)]
      late == next - seq             \* how many bytes lie before next_seq
  IN  CASE data = <<>> -> Undelivered(half)
        [] data # <<>> /\ Len(data) <= late ->
             Undelivered([h EXCEPT !.duplicate_bytes = @ + Len(data)])
        [] late >= 0 /\ Len(data) > late ->
             Deliver([h EXCEPT !.duplicate_bytes = @ + late], Drop(data, late))
        [] OTHER ->
             Undelivered(InsertOutOfOrder([h EXCEPT !.out_of_order_count = @ + 1],
                                          Segment(seq, data)))

\* Mutant: the SYN's sequence number is skipped twice.
NoteSynTwice(half, tcp) ==
  IF tcp.syn /\ ~half.has_syn
  THEN [half EXCEPT !.has_syn = TRUE, !.next_seq = tcp.seq + 2]
  ELSE half

\* The first SYN of a direction (re)positions it, whatever came before.
NoteSyn(half, tcp) ==
  IF tcp.syn /\ ~half.has_syn
  THEN [half EXCEPT !.has_syn = TRUE, !.next_seq = tcp.seq + 1]
  ELSE half

\* The first FIN of a direction; one that is the first thing seen positions it.
NoteFin(half, tcp) ==
  IF tcp.fin /\ ~half.has_fin
  THEN [half EXCEPT !.has_fin  = TRUE,
                    !.next_seq = IF @ = SEQ_UNSET THEN tcp.seq + 1 ELSE @]
  ELSE half

\* What TCPConnection.process_segment does to the sender's half.
ReceiveSegment(half, tcp) ==
  AddSegment(NoteFin(NoteSyn(half, tcp), tcp),
             IF tcp.syn THEN tcp.seq + 1 ELSE tcp.seq,
             tcp.payload)
=============================================================================
