--------------------------- MODULE StreamReassembly ---------------------------
(***************************************************************************)
(* What one direction of a reassembled connection does, on positions       *)
(* instead of sequence numbers: the stream is bytes 1..StreamLen, a        *)
(* segment <<a, b>> carries the bytes from a up to b (exclusive), and the  *)
(* out-of-order buffer is the set of positions held.  TCPStream, which     *)
(* keeps the code's list of merged segments, is shown to implement it.     *)
(***************************************************************************)
EXTENDS Integers, FiniteSets, Sequences

CONSTANTS StreamLen,    \* bytes in the stream
          Segments      \* the segments the sender may put on the wire

ASSUME StreamAssumption ==
  /\ StreamLen \in Nat \ {0}
  /\ Segments \subseteq {s \in (1..StreamLen) \X (2..(StreamLen + 1)) : s[1] < s[2]}

VARIABLES next,         \* position of the next byte to deliver
          held,         \* positions in the out-of-order buffer
          out,          \* what has been delivered, in order
          arrived       \* positions that arrived at least once

vars == <<next, held, out, arrived>>

Positions == 1..StreamLen

\* Mutant: the end is included.
BytesInclusive(a, b) == a..b

Bytes(a, b) == a..(b - 1)

Init ==
  /\ next = 1
  /\ held = {}
  /\ out = <<>>
  /\ arrived = {}

\* Deliver positions next..m-1.
DeliverUpTo(m) ==
  /\ next' = m
  /\ out' = out \o [i \in 1..(m - next) |-> next + i - 1]

\* Mutant: a retransmission is delivered again.
RedeliverOld(a, b) ==
  /\ b <= next
  /\ arrived' = arrived \cup Bytes(a, b)
  /\ out' = out \o [i \in 1..(b - a) |-> a + i - 1]
  /\ UNCHANGED <<next, held>>

\* A retransmission of delivered bytes is dropped.
Old(a, b) ==
  /\ b <= next
  /\ arrived' = arrived \cup Bytes(a, b)
  /\ UNCHANGED <<next, held, out>>

\* Mutant: nothing is flushed behind a segment.
FlushedNever(b, m) == m = b

\* The buffer is flushed only when its first run starts exactly where the
\* segment ends; held bytes the segment reaches past stay where they are.
Flushed(b, m) ==
  IF b \in held /\ \A p \in held : p >= b
  THEN /\ m \in (b + 1)..(StreamLen + 1)
       /\ Bytes(b, m) \subseteq held
       /\ m \notin held
  ELSE m = b

\* Mutant: the part of the segment before the next byte is not cut off.
InOrderUntrimmed(a, b) ==
  /\ a <= next /\ next < b
  /\ arrived' = arrived \cup Bytes(a, b)
  /\ \E m \in b..(StreamLen + 1) :
       /\ Flushed(b, m)
       /\ next' = m
       /\ out' = out \o [i \in 1..(m - a) |-> a + i - 1]
       /\ held' = held \ Bytes(b, m)

\* A segment that reaches the next byte is delivered from there.
InOrder(a, b) ==
  /\ a <= next /\ next < b
  /\ arrived' = arrived \cup Bytes(a, b)
  /\ \E m \in b..(StreamLen + 1) :
       /\ Flushed(b, m)
       /\ DeliverUpTo(m)
       /\ held' = held \ Bytes(b, m)

\* Mutant: the buffer keeps one segment.
OutOfOrderReplaces(a, b) ==
  /\ next < a
  /\ arrived' = arrived \cup Bytes(a, b)
  /\ held' = Bytes(a, b)
  /\ UNCHANGED <<next, out>>

\* A segment beyond the next byte is held.
OutOfOrder(a, b) ==
  /\ next < a
  /\ arrived' = arrived \cup Bytes(a, b)
  /\ held' = held \cup Bytes(a, b)
  /\ UNCHANGED <<next, out>>

Arrive(s) ==
  \/ Old(s[1], s[2])
  \/ InOrder(s[1], s[2])
  \/ OutOfOrder(s[1], s[2])

Next == \E s \in Segments : Arrive(s)

Spec == Init /\ [][Next]_vars

-----------------------------------------------------------------------------
\* Positions and sets of positions stay within the stream.
TypeOK ==
  /\ next \in 1..(StreamLen + 1)
  /\ held \in SUBSET Positions
  /\ out \in Seq(Positions)
  /\ arrived \in SUBSET Positions

\* The application reads a prefix of the stream: no byte is skipped, repeated
\* or out of place, however segments overlap and whenever they come.
PrefixDelivered ==
  /\ Len(out) = next - 1
  /\ \A i \in 1..Len(out) : out[i] = i

\* Every byte that arrived was delivered or is still held, and nothing else is.
NothingForgotten == arrived = Bytes(1, next) \cup held

\* The buffer never sits on the next byte, unless an older held byte that was
\* delivered from another segment blocks the flush.
HeadNotReady == next \in held => \E p \in held : p < next

\* A sender that repeats its segments without cutting them anew.
Uncut == \A s, t \in Segments : s = t \/ s[2] <= t[1] \/ t[2] <= s[1]

\* Whatever is contiguous from the start of the stream has been delivered, nothing of it
\* waits in the buffer (tcp_reassembly.py:10): so it is if the sender is Uncut.
ContiguousDelivered ==
  \A p \in Positions : Bytes(1, p + 1) \subseteq arrived => Len(out) >= p

\* What the code keeps of that for any sender: contiguous data waits in the buffer only
\* behind a held byte that was delivered from another segment, one cut anew.
OnlyOverlapStrands == ContiguousDelivered \/ \E p \in held : p < next

-----------------------------------------------------------------------------
\* The promise to the application, without the buffer: PrefixDelivered as a
\* specification of its own.
Promise == INSTANCE ByteStream
ImplementsByteStream == Promise!Spec
=============================================================================
