------------------------ MODULE StreamReassembly_proofs ------------------------
(***************************************************************************)
(* The safety of StreamReassembly for every stream length and every set of *)
(* segments, and that it implements ByteStream.                            *)
(***************************************************************************)
EXTENDS StreamReassembly, TLAPS

\* A delivered prefix stays a prefix when the positions from next on are appended.
LEMMA DeliveryExtendsPrefix ==
  ASSUME TypeOK, PrefixDelivered, NEW m \in next..(StreamLen + 1), DeliverUpTo(m)
  PROVE  /\ out' \in Seq(Positions)
         /\ Len(out') = m - 1
         /\ \A i \in 1..Len(out') : out'[i] = i
<1> DEFINE run == [i \in 1..(m - next) |-> next + i - 1]
<1>1. next \in Nat \ {0} /\ m \in Nat /\ StreamLen \in Nat /\ out \in Seq(Positions)
  BY StreamAssumption DEF TypeOK, Positions
<1>2. \A i \in 1..(m - next) : next + i - 1 \in Positions
  BY <1>1 DEF Positions
<1>3. run \in Seq(Positions) /\ Len(run) = m - next
  BY <1>1, <1>2
<1>4. out' = out \o run
  BY DEF DeliverUpTo
<1>5. out' \in Seq(Positions) /\ Len(out') = m - 1
  BY <1>1, <1>3, <1>4 DEF PrefixDelivered
<1>6. ASSUME NEW i \in 1..(m - 1) PROVE out'[i] = i
  <2>1. CASE i <= Len(out)
    BY <1>1, <1>3, <1>4, <2>1 DEF PrefixDelivered
  <2>2. CASE i > Len(out)
    <3>1. i - Len(out) \in 1..(m - next) /\ i \in 1..(Len(out) + Len(run))
      BY <1>1, <1>3, <2>2 DEF PrefixDelivered
    <3>2. out'[i] = run[i - Len(out)]
      <4> HIDE DEF run
      <4> QED BY <1>1, <1>3, <1>4, <2>2, <3>1
    <3> QED BY <1>1, <2>2, <3>1, <3>2 DEF PrefixDelivered
  <2> QED BY <1>1, <2>1, <2>2 DEF PrefixDelivered
<1> QED BY <1>5, <1>6

\* The facts an in-order segment's flush target satisfies.
LEMMA FlushTarget ==
  ASSUME TypeOK, NEW b \in 1..(StreamLen + 1), NEW m \in b..(StreamLen + 1), Flushed(b, m)
  PROVE  /\ Bytes(b, m) \subseteq held
         /\ m \in held => m = b /\ \E p \in held : p < b
<1>1. StreamLen \in Nat
  BY StreamAssumption
<1>2. CASE b \in held /\ \A p \in held : p >= b
  BY <1>2 DEF Flushed
<1>3. CASE ~(b \in held /\ \A p \in held : p >= b)
  <2>1. m = b
    BY <1>3 DEF Flushed
  <2>2. Bytes(b, m) = {}
    BY <1>1, <2>1 DEF Bytes
  <2>3. ASSUME m \in held PROVE \E p \in held : p < b
    <3>1. PICK p \in held : ~(p >= b)
      BY <1>3, <2>1, <2>3
    <3>2. p \in Nat
      BY <1>1, <3>1 DEF TypeOK, Positions
    <3> QED BY <1>1, <3>1, <3>2
  <2> QED BY <2>1, <2>2, <2>3
<1> QED BY <1>2, <1>3

SafeDelivery == TypeOK /\ PrefixDelivered /\ NothingForgotten /\ HeadNotReady

\* Before the first segment nothing is delivered or held.
LEMMA InitSafe == Init => SafeDelivery
<1> SUFFICES ASSUME Init PROVE SafeDelivery
  OBVIOUS
<1>1. StreamLen \in Nat \ {0}
  BY StreamAssumption
<1> QED
  BY <1>1 DEF Init, SafeDelivery, TypeOK, PrefixDelivered, NothingForgotten, HeadNotReady,
              Bytes, Positions

\* Every arrival preserves the four invariants together: the prefix and the byte
\* balance need each other's facts, so they are proved as one.
LEMMA ArrivalSafe ==
  ASSUME SafeDelivery, NEW s \in Segments, Arrive(s)
  PROVE  SafeDelivery'
<1> DEFINE a == s[1]
           b == s[2]
<1>1. /\ StreamLen \in Nat \ {0}
      /\ a \in 1..StreamLen /\ b \in 2..(StreamLen + 1) /\ a < b
  BY StreamAssumption
<1>2. /\ TypeOK /\ PrefixDelivered /\ NothingForgotten /\ HeadNotReady
      /\ next \in 1..(StreamLen + 1) /\ held \subseteq Positions /\ arrived \subseteq Positions
  BY DEF SafeDelivery, TypeOK
<1>3. Bytes(a, b) \subseteq Positions
  BY <1>1 DEF Bytes, Positions
<1>4. CASE Old(a, b)
  <2>1. UNCHANGED <<next, held, out>> /\ arrived' = arrived \cup Bytes(a, b) /\ b <= next
    BY <1>4 DEF Old
  <2>2. Bytes(a, b) \subseteq Bytes(1, next)
    BY <1>1, <1>2, <2>1 DEF Bytes
  <2>3. TypeOK' /\ PrefixDelivered' /\ HeadNotReady'
    BY <1>2, <1>3, <2>1 DEF TypeOK, PrefixDelivered, HeadNotReady
  <2>4. NothingForgotten'
    BY <1>2, <2>1, <2>2 DEF NothingForgotten
  <2> QED BY <2>3, <2>4 DEF SafeDelivery
<1>5. CASE InOrder(a, b)
  <2>1. PICK m \in b..(StreamLen + 1) :
          Flushed(b, m) /\ DeliverUpTo(m) /\ held' = held \ Bytes(b, m)
    BY <1>5 DEF InOrder
  <2>2. /\ a <= next /\ next < b /\ arrived' = arrived \cup Bytes(a, b)
        /\ next' = m
    BY <1>5, <2>1 DEF InOrder, DeliverUpTo
  <2>3. Bytes(b, m) \subseteq held /\ (m \in held => m = b /\ \E p \in held : p < b)
    BY <1>1, <1>2, <2>1, FlushTarget
  <2>4. m \in next..(StreamLen + 1) /\ m \in 1..(StreamLen + 1)
    BY <1>1, <1>2, <2>1, <2>2
  <2>5. TypeOK' /\ PrefixDelivered'
    BY <1>2, <1>3, <2>1, <2>2, <2>4, DeliveryExtendsPrefix DEF TypeOK, PrefixDelivered
  <2>6. NothingForgotten'
    <3>1. Bytes(1, m) = Bytes(1, next) \cup Bytes(next, b) \cup Bytes(b, m)
      BY <1>1, <1>2, <2>1, <2>2 DEF Bytes
    <3>2. Bytes(next, b) \subseteq Bytes(a, b) /\ Bytes(a, b) \subseteq Bytes(1, m)
      BY <1>1, <1>2, <2>1, <2>2 DEF Bytes
    <3> QED BY <1>2, <2>1, <2>2, <2>3, <3>1, <3>2 DEF NothingForgotten
  <2>7. HeadNotReady'
    <3> SUFFICES ASSUME m \in held' PROVE \E p \in held' : p < m
      BY <2>2 DEF HeadNotReady
    <3>1. m = b /\ \E p \in held : p < b
      BY <2>1, <2>3
    <3>2. Bytes(b, m) = {}
      BY <1>1, <3>1 DEF Bytes
    <3> QED BY <2>1, <3>1, <3>2
  <2> QED BY <2>5, <2>6, <2>7 DEF SafeDelivery
<1>6. CASE OutOfOrder(a, b)
  <2>1. /\ next < a /\ UNCHANGED <<next, out>>
        /\ arrived' = arrived \cup Bytes(a, b) /\ held' = held \cup Bytes(a, b)
    BY <1>6 DEF OutOfOrder
  <2>2. TypeOK' /\ PrefixDelivered'
    BY <1>2, <1>3, <2>1 DEF TypeOK, PrefixDelivered
  <2>3. NothingForgotten'
    BY <1>2, <2>1 DEF NothingForgotten
  <2>4. next \notin Bytes(a, b)
    BY <1>1, <1>2, <2>1 DEF Bytes
  <2>5. HeadNotReady'
    BY <1>2, <2>1, <2>4 DEF HeadNotReady
  <2> QED BY <2>2, <2>3, <2>5 DEF SafeDelivery
<1> QED BY <1>4, <1>5, <1>6 DEF Arrive

\* Every arrival keeps the invariant.
LEMMA StepSafe == SafeDelivery /\ [Next]_vars => SafeDelivery'
<1> SUFFICES ASSUME SafeDelivery, [Next]_vars PROVE SafeDelivery'
  OBVIOUS
<1>1. CASE Next
  BY <1>1, ArrivalSafe DEF Next
<1>2. CASE UNCHANGED vars
  BY <1>2 DEF vars, SafeDelivery, TypeOK, PrefixDelivered, NothingForgotten, HeadNotReady
<1> QED BY <1>1, <1>2

\* The buffer, the delivered data and the capture stay within the stream.
THEOREM TypeCorrect == Spec => []TypeOK
<1>1. SafeDelivery => TypeOK
  BY DEF SafeDelivery
<1> QED BY InitSafe, StepSafe, <1>1, PTL DEF Spec

\* Whatever segments arrive in whatever order, the application reads a prefix of
\* the stream: add_segment never skips, repeats or reorders a byte once the SYN
\* has positioned the half.
THEOREM DeliversPrefix == Spec => []PrefixDelivered
<1>1. SafeDelivery => PrefixDelivered
  BY DEF SafeDelivery
<1> QED BY InitSafe, StepSafe, <1>1, PTL DEF Spec

\* No captured byte disappears between delivery and the out-of-order buffer.
THEOREM ForgetsNothing == Spec => []NothingForgotten
<1>1. SafeDelivery => NothingForgotten
  BY DEF SafeDelivery
<1> QED BY InitSafe, StepSafe, <1>1, PTL DEF Spec

\* If the buffer does not hold the next byte, what is contiguous has been delivered: the
\* next byte is missing.
LEMMA MissingNextByte ==
  ASSUME SafeDelivery, next \notin held
  PROVE  ContiguousDelivered
<1> SUFFICES ASSUME NEW p \in Positions, Bytes(1, p + 1) \subseteq arrived
             PROVE  Len(out) >= p
  BY DEF ContiguousDelivered
<1>1. /\ next \in Nat \ {0} /\ p \in Nat \ {0} /\ Len(out) = next - 1
      /\ arrived = Bytes(1, next) \cup held
  BY StreamAssumption DEF SafeDelivery, TypeOK, PrefixDelivered, NothingForgotten, Positions
<1>2. next \notin Bytes(1, p + 1)
  BY <1>1 DEF Bytes
<1> QED BY <1>1, <1>2 DEF Bytes

\* Whatever segments arrive, the flush leaves contiguous data in the buffer only behind a
\* byte that a segment of another cut delivered.
THEOREM OnlyOverlapsStrand == Spec => []OnlyOverlapStrands
<1>1. SafeDelivery => OnlyOverlapStrands
  BY MissingNextByte DEF SafeDelivery, HeadNotReady, OnlyOverlapStrands
<1> QED BY InitSafe, StepSafe, <1>1, PTL DEF Spec

-----------------------------------------------------------------------------
(* A sender that does not cut its segments anew.                           *)

\* Everything held is behind the next byte, and the reassembly never stands in the middle
\* of a segment: not in what it has delivered, and not in what it holds.
Aligned ==
  /\ \A p \in held : next < p
  /\ \A t \in Segments : t[2] <= next \/ next <= t[1]
  /\ \A t \in Segments : Bytes(t[1], t[2]) \subseteq held \/ Bytes(t[1], t[2]) \cap held = {}

\* A segment that continues the stream starts at the next byte, so none of its bytes is
\* held, and the flush takes whole segments off the buffer.
LEMMA InOrderAligned ==
  ASSUME Uncut, TypeOK, Aligned, NEW s \in Segments, InOrder(s[1], s[2])
  PROVE  Aligned'
<1> DEFINE a == s[1]
           b == s[2]
<1>1. StreamLen \in Nat /\ \A t \in Segments : t[1] \in Nat /\ t[2] \in Nat /\ t[1] < t[2]
  BY StreamAssumption
<1>2. next \in Nat /\ held \subseteq Nat
  BY <1>1 DEF TypeOK, Positions
<1>3. PICK m \in b..(StreamLen + 1) :
        Flushed(b, m) /\ DeliverUpTo(m) /\ held' = held \ Bytes(b, m)
  BY DEF InOrder
<1>4. a <= next /\ next < b /\ next' = m /\ m \in Nat /\ b <= m
  BY <1>1, <1>3 DEF InOrder, DeliverUpTo
<1>5. a = next
  BY <1>1, <1>2, <1>4 DEF Aligned
<1>6. Bytes(a, b) \cap held = {}
  <2>1. next \in Bytes(a, b) /\ next \notin held
    BY <1>1, <1>2, <1>4, <1>5 DEF Aligned, Bytes
  <2> QED BY <2>1 DEF Aligned
<1>7. \A p \in held : b <= p
  BY <1>1, <1>2, <1>5, <1>6 DEF Aligned, Bytes
<1>8. Bytes(b, m) \subseteq held /\ m \notin held
  <2>1. CASE b \in held
    BY <1>2, <1>3, <1>4, <1>7, <2>1 DEF Flushed
  <2>2. CASE b \notin held
    BY <1>1, <1>3, <1>4, <2>2 DEF Flushed, Bytes
  <2> QED BY <2>1, <2>2
<1>9. \A p \in held' : m < p
  BY <1>1, <1>2, <1>3, <1>4, <1>7, <1>8 DEF Bytes
<1>10. \A t \in Segments : t[2] <= b \/ b <= t[1]
  BY <1>1 DEF Uncut
<1>11. ASSUME NEW t \in Segments
       PROVE  t[2] <= m \/ m <= t[1]
  <2> SUFFICES ASSUME t[1] < m, m < t[2] PROVE FALSE
    BY <1>1, <1>4
  <2>1. b <= t[1]
    BY <1>1, <1>4, <1>10
  <2>2. t[1] \in Bytes(b, m) /\ t[1] \in Bytes(t[1], t[2]) /\ m \in Bytes(t[1], t[2])
    BY <1>1, <1>4, <2>1 DEF Bytes
  <2> QED BY <1>8, <2>2 DEF Aligned
<1>12. ASSUME NEW t \in Segments
       PROVE  Bytes(t[1], t[2]) \subseteq held' \/ Bytes(t[1], t[2]) \cap held' = {}
  <2>1. Bytes(t[1], t[2]) \subseteq Bytes(1, m) \/ Bytes(t[1], t[2]) \cap Bytes(b, m) = {}
    BY <1>1, <1>4, <1>11, StreamAssumption DEF Bytes
  <2>2. CASE Bytes(t[1], t[2]) \subseteq Bytes(1, m)
    BY <1>2, <1>4, <1>9, <2>2 DEF Bytes
  <2>3. CASE Bytes(t[1], t[2]) \cap Bytes(b, m) = {}
    BY <1>3, <2>3 DEF Aligned
  <2> QED BY <2>1, <2>2, <2>3
<1> QED BY <1>4, <1>9, <1>11, <1>12 DEF Aligned

\* Every arrival keeps the alignment.
LEMMA StepAligned ==
  ASSUME Uncut, TypeOK, Aligned, [Next]_vars
  PROVE  Aligned'
<1>1. StreamLen \in Nat /\ \A t \in Segments : t[1] \in Nat /\ t[2] \in Nat /\ t[1] < t[2]
  BY StreamAssumption
<1>2. next \in Nat /\ held \subseteq Nat
  BY <1>1 DEF TypeOK, Positions
<1>3. ASSUME NEW s \in Segments, Old(s[1], s[2]) PROVE Aligned'
  BY <1>3 DEF Old, Aligned
<1>4. ASSUME NEW s \in Segments, InOrder(s[1], s[2]) PROVE Aligned'
  BY <1>4, InOrderAligned
<1>5. ASSUME NEW s \in Segments, OutOfOrder(s[1], s[2]) PROVE Aligned'
  <2>1. next' = next /\ next < s[1] /\ held' = held \cup Bytes(s[1], s[2])
    BY <1>5 DEF OutOfOrder
  <2>2. \A p \in held' : next < p
    BY <1>1, <1>2, <2>1 DEF Aligned, Bytes
  <2>3. \A t \in Segments : t = s \/ Bytes(t[1], t[2]) \cap Bytes(s[1], s[2]) = {}
    BY <1>1 DEF Uncut, Bytes
  <2> QED BY <2>1, <2>2, <2>3 DEF Aligned
<1>6. CASE UNCHANGED vars
  BY <1>6 DEF vars, Aligned
<1> QED BY <1>3, <1>4, <1>5, <1>6 DEF Next, Arrive

\* If the sender repeats its segments as they are, the flush leaves nothing behind: all that
\* is contiguous from the start of the stream has been delivered, in whatever order and
\* however often the segments were captured.
THEOREM UncutIsDelivered ==
  ASSUME Uncut
  PROVE  Spec => []ContiguousDelivered
<1>1. Init => Aligned
  BY StreamAssumption DEF Init, Aligned
<1>2. SafeDelivery => TypeOK
  BY DEF SafeDelivery
<1>3. TypeOK /\ Aligned /\ [Next]_vars => Aligned'
  BY StepAligned
<1>4. SafeDelivery /\ Aligned => ContiguousDelivered
  <2> SUFFICES ASSUME SafeDelivery, Aligned PROVE ContiguousDelivered
    OBVIOUS
  <2>1. next \in Nat
    BY StreamAssumption DEF SafeDelivery, TypeOK
  <2>2. next \notin held
    BY <2>1 DEF Aligned
  <2> QED BY <2>2, MissingNextByte
<1> QED BY InitSafe, StepSafe, <1>1, <1>2, <1>3, <1>4, PTL DEF Spec

-----------------------------------------------------------------------------
\* A prefix of known length is the promised one.
LEMMA PrefixIsPromised ==
  ASSUME TypeOK, PrefixDelivered
  PROVE  out = Promise!Prefix(next - 1)
<1>1. out \in Seq(Positions) /\ Len(out) = next - 1 /\ next \in Nat
  BY StreamAssumption DEF TypeOK, PrefixDelivered
<1>2. out = [i \in 1..Len(out) |-> out[i]]
  BY <1>1
<1>3. [i \in 1..Len(out) |-> out[i]] = [i \in 1..Len(out) |-> i]
  BY <1>1 DEF PrefixDelivered
<1> QED BY <1>1, <1>2, <1>3 DEF Promise!Prefix

\* Every step delivers a prefix that is made of captured bytes only.
LEMMA StepKeepsPromise ==
  ASSUME SafeDelivery, SafeDelivery', NEW s \in Segments, Arrive(s)
  PROVE  Promise!Capture
<1>1. /\ StreamLen \in Nat \ {0}
      /\ next \in 1..(StreamLen + 1) /\ next' \in 1..(StreamLen + 1)
      /\ s[2] \in 2..(StreamLen + 1)
  BY StreamAssumption DEF SafeDelivery, TypeOK
<1>2. arrived \subseteq arrived' /\ next <= next'
  BY <1>1 DEF Arrive, Old, InOrder, OutOfOrder, DeliverUpTo
<1>3. arrived' \in SUBSET (1..StreamLen)
  BY DEF SafeDelivery, TypeOK, Positions
<1>4. Len(out) = next - 1 /\ next' - 1 \in Len(out)..StreamLen
  <2>1. Len(out) = next - 1
    BY DEF SafeDelivery, PrefixDelivered
  <2>2. next' - 1 \in (next - 1)..StreamLen
    <3>1. PICK m \in Int : m = next'
      BY <1>1
    <3>2. next <= m /\ m <= StreamLen + 1 /\ next \in Int /\ StreamLen \in Int
      BY <1>1, <1>2, <3>1
    <3>3. m - 1 \in (next - 1)..StreamLen
      BY <3>2
    <3> QED BY <3>1, <3>3
  <2> QED BY <2>1, <2>2
<1>5. 1..(next' - 1) \subseteq arrived'
  BY DEF SafeDelivery, NothingForgotten, Bytes
<1>6. out' = Promise!Prefix(next' - 1)
  <2>1. TypeOK' /\ PrefixDelivered'
    BY DEF SafeDelivery
  <2>2. out' \in Seq(Positions) /\ Len(out') = next' - 1
    BY <2>1 DEF TypeOK, PrefixDelivered
  <2>3. out' = [i \in 1..Len(out') |-> out'[i]]
    BY <2>2
  <2>4. [i \in 1..Len(out') |-> out'[i]] = [i \in 1..Len(out') |-> i]
    BY <2>1 DEF PrefixDelivered
  <2> QED BY <2>2, <2>3, <2>4 DEF Promise!Prefix
<1> QED BY <1>2, <1>3, <1>4, <1>5, <1>6 DEF Promise!Capture

\* The reassembler of one direction implements the byte stream the application is
\* promised: every delivery extends a prefix of the stream by captured bytes.
THEOREM KeepsPromise == Spec => ImplementsByteStream
<1>1. Init => Promise!Init
  BY DEF Init, Promise!Init
<1>2. SafeDelivery /\ SafeDelivery' /\ [Next]_vars => [Promise!Capture]_(Promise!vars)
  <2> SUFFICES ASSUME SafeDelivery, SafeDelivery', [Next]_vars
               PROVE  [Promise!Capture]_(Promise!vars)
    OBVIOUS
  <2>1. CASE Next
    BY <2>1, StepKeepsPromise DEF Next
  <2>2. CASE UNCHANGED vars
    BY <2>2 DEF vars, Promise!vars
  <2> QED BY <2>1, <2>2
<1> QED BY InitSafe, StepSafe, <1>1, <1>2, PTL DEF Spec, ImplementsByteStream, Promise!Spec
=============================================================================
