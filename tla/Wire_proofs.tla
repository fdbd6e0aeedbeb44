------------------------------ MODULE Wire_proofs ------------------------------
(***************************************************************************)
(* The fragments of fragment_ip_packet tile the payload; what analyze      *)
(* reports of them, captured in any order, repeatedly and cut short, is    *)
(* what was sent, or shows that it is not; and the checksum of what is     *)
(* built verifies.  For every length, header length and MTU that           *)
(* FragmenterAssumption allows, and any number of captures.                *)
(***************************************************************************)
EXTENDS Wire, Checksum, SequenceTheorems, WellFoundedInduction, TLAPS

Cuts == [block : Nat, start : Nat, size : Nat, is_last : BOOLEAN]

\* What the loop works on; a call's arguments do not change.
Arguments ==
  /\ length \in Nat /\ length <= 65515
  /\ header_len \in Nat /\ header_len >= 20 /\ mtu \in Nat
  /\ mtu >= header_len + 8

\* A payload that fits was returned as it is.
Uncut ==
  /\ done
  /\ fragments = <<Cut(0, 0, length, TRUE)>>
  /\ length <= MaxPayload

\* What the cut i contains.
InCut(i, p) == fragments[i].start <= p /\ p < fragments[i].start + fragments[i].size

\* Where one cut of the loop lies.
CutOK(i) ==
  /\ fragments[i].start = 8 * fragments[i].block
  /\ fragments[i].block < 8192
  /\ fragments[i].size <= MaxPayload
  /\ fragments[i].start = IF i = 1 THEN 0 ELSE fragments[i - 1].start + fragments[i - 1].size
  /\ fragments[i].is_last <=> fragments[i].start + fragments[i].size = length

\* Every cut moves on, and what lies before the offset is in one of them.
Reached ==
  /\ \A i \in 1..Len(fragments) :
       /\ fragments[i].size >= 1
       /\ fragments[i].start + fragments[i].size <= offset
       /\ i < Len(fragments) => fragments[i].start + fragments[i].size < offset
  /\ \A p \in 0..(offset - 1) : \E i \in 1..Len(fragments) : InCut(i, p)

\* The loop: all cuts so far are in place, and the next one starts where they end, on a
\* multiple of 8 as long as there is something left.
Loop ==
  /\ MaxPayload < length
  /\ offset \in 0..length /\ frag_offset_blocks \in Nat
  /\ offset < length => offset = 8 * frag_offset_blocks
  /\ \A i \in 1..Len(fragments) : CutOK(i)
  /\ offset = IF Len(fragments) = 0 THEN 0
              ELSE fragments[Len(fragments)].start + fragments[Len(fragments)].size
  /\ Reached
  /\ done => offset = length

Tiling ==
  /\ Arguments
  /\ fragments \in Seq(Cuts)
  /\ done \in BOOLEAN
  /\ Uncut \/ Loop

-----------------------------------------------------------------------------
\* The room for data is a positive multiple of 8 that fits the MTU.
LEMMA RoomForData ==
  ASSUME Arguments
  PROVE  /\ MaxPayload \in Nat /\ MaxPayload >= 8
         /\ header_len + MaxPayload <= mtu
         /\ (MaxPayload \div 8) * 8 = MaxPayload
<1> DEFINE room == mtu - header_len
           q    == room \div 8
<1>1. room \in Nat /\ room >= 8
  BY DEF Arguments
<1>2. q \in Nat /\ q >= 1 /\ 8 * q <= room
  BY <1>1
<1>3. MaxPayload = q * 8
  BY DEF MaxPayload
<1>4. (q * 8) \div 8 = q
  BY <1>2
<1>5. header_len \in Nat /\ mtu \in Nat /\ room = mtu - header_len
  BY DEF Arguments
<1> HIDE DEF q, room
<1>6. MaxPayload \in Nat /\ MaxPayload >= 8 /\ MaxPayload <= room
  BY <1>1, <1>2, <1>3
<1>7. header_len + MaxPayload <= mtu
  BY <1>1, <1>5, <1>6
<1>8. MaxPayload \div 8 = q
  BY <1>3, <1>4
<1> QED
  BY <1>3, <1>6, <1>7, <1>8

\* The loop starts at the first byte, or there is nothing to cut.
LEMMA InitTiling == Init => Tiling
<1> SUFFICES ASSUME Init PROVE Tiling
  OBVIOUS
<1>1. Arguments
  <2>1. length \in PayloadLens /\ header_len \in HeaderLens /\ mtu \in Mtus
    BY DEF Init
  <2> QED
    BY <2>1, FragmenterAssumption DEF Arguments
<1>2. MaxPayload \in Nat
  BY <1>1, RoomForData
<1>5. done \in BOOLEAN /\ (done <=> length <= MaxPayload)
  <2>1. done = (length <= MaxPayload)
    BY DEF Init
  <2>2. (length <= MaxPayload) \in BOOLEAN
    BY SMT
  <2> QED
    BY <2>1, <2>2, Zenon
<1>3. CASE done
  <2>1. fragments = <<Cut(0, 0, length, TRUE)>> /\ length <= MaxPayload
    BY <1>3 DEF Init
  <2>2. Cut(0, 0, length, TRUE) \in Cuts
    BY <1>1 DEF Cut, Cuts, Arguments
  <2> QED
    <3>1. fragments \in Seq(Cuts)
      <4>1. \A c \in Cuts : <<c>> \in Seq(Cuts)
        OBVIOUS
      <4> QED
        BY <2>1, <2>2, <4>1, Zenon
    <3>2. Uncut
      BY <1>3, <2>1 DEF Uncut
    <3> QED
      BY <1>1, <1>5, <3>1, <3>2 DEF Tiling
<1>4. CASE ~done
  <2>1. fragments = <<>> /\ offset = 0 /\ frag_offset_blocks = 0
    BY <1>4 DEF Init
  <2>4. MaxPayload < length
    BY <1>1, <1>2, <1>4, <1>5 DEF Arguments
  <2>2. fragments \in Seq(Cuts) /\ Len(fragments) = 0
    BY <2>1
  <2>3. Loop
    <3>1. Reached
      BY <2>1, <2>2 DEF Reached
    <3> QED
      BY <1>1, <1>4, <2>1, <2>2, <2>4, <3>1 DEF Loop, Arguments
  <2> QED
    BY <1>1, <1>5, <2>2, <2>3 DEF Tiling
<1> QED
  BY <1>3, <1>4

\* A turn of the loop puts one more cut in place.
LEMMA CutTiling ==
  ASSUME Tiling, CutFragment
  PROVE  Tiling'
<1> DEFINE rest    == length - offset
           chunk   == IF MaxPayload < rest THEN MaxPayload ELSE rest
           is_last == offset + chunk >= length
           size    == IF is_last THEN chunk ELSE (chunk \div 8) * 8
           new     == Cut(frag_offset_blocks, offset, size, is_last)
           n       == Len(fragments)
<1>1. /\ Loop /\ Arguments /\ ~done /\ offset < length
      /\ fragments \in Seq(Cuts) /\ n \in Nat
  <2>1. ~done /\ offset < length
    BY DEF CutFragment
  <2>2. Loop /\ Arguments /\ fragments \in Seq(Cuts)
    BY <2>1 DEF Tiling, Uncut
  <2> QED
    BY <2>1, <2>2
<1>2. /\ fragments' = Append(fragments, new)
      /\ offset' = offset + size
      /\ frag_offset_blocks' = frag_offset_blocks + size \div 8
      /\ UNCHANGED <<length, header_len, mtu, done>>
  BY DEF CutFragment
<1>3. /\ MaxPayload \in Nat /\ MaxPayload >= 8
      /\ (MaxPayload \div 8) * 8 = MaxPayload
  BY <1>1, RoomForData
<1>4. /\ length \in Nat /\ offset \in Nat /\ length <= 65515
      /\ frag_offset_blocks \in Nat /\ offset = 8 * frag_offset_blocks
  BY <1>1 DEF Loop, Arguments
<1> DEFINE Placed ==
             /\ size \in Nat /\ size >= 1 /\ size <= MaxPayload /\ is_last \in BOOLEAN
             /\ offset + size <= length /\ (is_last <=> offset + size = length)
             /\ frag_offset_blocks' \in Nat
             /\ offset + size < length => offset + size = 8 * frag_offset_blocks'
<1>5. ASSUME MaxPayload < rest PROVE Placed
  <2>1. chunk = MaxPayload /\ is_last = FALSE /\ size = MaxPayload
    BY <1>3, <1>4, <1>5
  <2>2. offset' = 8 * frag_offset_blocks' /\ frag_offset_blocks' \in Nat
    BY <1>2, <1>3, <1>4, <2>1
  <2> QED
    BY <1>2, <1>3, <1>4, <1>5, <2>1, <2>2
<1>6. ASSUME ~(MaxPayload < rest) PROVE Placed
  <2>1. chunk = rest /\ is_last = TRUE /\ size = rest
    BY <1>3, <1>4, <1>6
  <2>2. rest \in Nat /\ rest >= 1 /\ rest <= MaxPayload /\ offset + rest = length
    BY <1>1, <1>3, <1>4, <1>6
  <2>3. frag_offset_blocks' \in Nat
    BY <1>2, <1>4, <2>1, <2>2
  <2> HIDE DEF rest, chunk, is_last, size
  <2> QED
    <3>1. is_last \in BOOLEAN /\ (is_last <=> offset + size = length)
      BY <2>1, <2>2
    <3>2. /\ size \in Nat /\ size >= 1 /\ size <= MaxPayload
          /\ offset + size <= length /\ ~(offset + size < length)
      BY <1>4, <2>1, <2>2
    <3> QED
      BY <2>3, <3>1, <3>2
<1>7. Placed
  BY <1>5, <1>6
<1>8. new \in Cuts /\ new = [block |-> frag_offset_blocks, start |-> offset,
                             size |-> size, is_last |-> is_last]
  BY <1>4, <1>7 DEF Cut, Cuts
<1> HIDE DEF rest, chunk, is_last, size, new
<1>9. /\ fragments' \in Seq(Cuts) /\ Len(fragments') = n + 1
      /\ fragments'[n + 1] = new
      /\ \A i \in 1..n : fragments'[i] = fragments[i]
  BY <1>1, <1>2, <1>8
<1>10. ASSUME NEW i \in 1..n PROVE CutOK(i)'
  <2>1. CutOK(i)
    BY <1>1 DEF Loop
  <2>2. fragments'[i] = fragments[i] /\ (i # 1 => fragments'[i - 1] = fragments[i - 1])
    BY <1>1, <1>9
  <2>3. MaxPayload' = MaxPayload /\ length' = length
    BY <1>2 DEF MaxPayload
  <2> QED
    BY <2>1, <2>2, <2>3 DEF CutOK
<1>11. ASSUME NEW k \in Nat, k = n + 1 PROVE CutOK(k)'
  <2>1. /\ new.start = offset /\ new.block = frag_offset_blocks
        /\ new.size = size /\ new.is_last = is_last
    BY <1>8
  <2>2. MaxPayload' = MaxPayload /\ length' = length
    BY <1>2 DEF MaxPayload
  <2>3. offset = IF k = 1 THEN 0 ELSE fragments'[k - 1].start + fragments'[k - 1].size
    <3>1. CASE n = 0
      BY <1>1, <1>11, <3>1 DEF Loop
    <3>2. CASE n # 0
      <4>1. k # 1 /\ k - 1 = n /\ n \in 1..n
        BY <1>1, <1>11, <3>2
      <4> QED
        BY <1>1, <1>9, <3>2, <4>1 DEF Loop
    <3> QED
      BY <3>1, <3>2
  <2>4. frag_offset_blocks < 8192
    BY <1>1, <1>4
  <2>5. fragments'[k] = new
    BY <1>9, <1>11
  <2> QED
    BY <1>4, <1>7, <2>1, <2>2, <2>3, <2>4, <2>5 DEF CutOK
<1>12. Reached'
  <2>1. /\ new.start = offset /\ new.size = size /\ Reached
        /\ offset \in Nat /\ size \in Nat /\ size >= 1 /\ n \in Nat
    BY <1>1, <1>4, <1>7, <1>8 DEF Loop
  <2>2. ASSUME NEW i \in 1..(n + 1)
        PROVE  /\ fragments'[i].size >= 1
               /\ fragments'[i].start + fragments'[i].size <= offset'
               /\ i < n + 1 => fragments'[i].start + fragments'[i].size < offset'
    <3>1. CASE i = n + 1
      <4>1. fragments'[i] = new
        BY <1>9, <3>1
      <4> QED BY <1>2, <2>1, <3>1, <4>1
    <3>2. CASE i # n + 1
      <4>1. i \in 1..n /\ fragments'[i] = fragments[i] /\ fragments[i] \in Cuts
        BY <1>1, <1>9, <2>1, <3>2
      <4>2. /\ fragments[i].size >= 1 /\ fragments[i].start + fragments[i].size <= offset
            /\ fragments[i].start \in Nat /\ fragments[i].size \in Nat
        BY <2>1, <4>1 DEF Reached, Cuts
      <4> QED BY <1>2, <2>1, <4>1, <4>2
    <3> QED BY <3>1, <3>2
  <2>3. ASSUME NEW p \in 0..(offset' - 1)
        PROVE  \E i \in 1..(n + 1) : /\ fragments'[i].start <= p
                                     /\ p < fragments'[i].start + fragments'[i].size
    <3>1. CASE p < offset
      <4>1. p \in 0..(offset - 1)
        BY <1>2, <2>1, <3>1
      <4>2. PICK i \in 1..n : InCut(i, p)
        BY <2>1, <4>1 DEF Reached
      <4>3. i \in 1..(n + 1) /\ fragments'[i] = fragments[i]
        BY <1>9, <2>1
      <4> QED BY <4>2, <4>3 DEF InCut
    <3>2. CASE ~(p < offset)
      <4>1. n + 1 \in 1..(n + 1) /\ fragments'[n + 1] = new
        BY <1>9, <2>1
      <4>2. offset <= p /\ p < offset + size
        BY <1>2, <2>1, <3>2
      <4> QED BY <2>1, <4>1, <4>2
    <3> QED BY <3>1, <3>2
  <2> QED BY <1>9, <2>2, <2>3 DEF Reached, InCut
<1>13. Loop'
  <2>1. MaxPayload' = MaxPayload /\ length' = length /\ ~done'
    BY <1>1, <1>2 DEF MaxPayload
  <2>2. \A i \in 1..Len(fragments') : CutOK(i)'
    <3>1. \A i \in 1..(n + 1) : i \in 1..n \/ i = n + 1
      BY <1>1
    <3>2. n + 1 \in Nat
      BY <1>1
    <3> QED
      BY <1>9, <1>10, <1>11, <3>1, <3>2
  <2>3. offset' = fragments'[n + 1].start + fragments'[n + 1].size /\ Len(fragments') # 0
    BY <1>1, <1>2, <1>8, <1>9
  <2>4. MaxPayload < length
    BY <1>1 DEF Loop
  <2>5. /\ offset' \in 0..length /\ frag_offset_blocks' \in Nat
        /\ offset' < length => offset' = 8 * frag_offset_blocks'
    BY <1>2, <1>4, <1>7
  <2> QED
    BY <1>9, <1>12, <2>1, <2>2, <2>3, <2>4, <2>5 DEF Loop
<1>14. Arguments' /\ done' \in BOOLEAN
  BY <1>1, <1>2 DEF Arguments, Tiling
<1> QED
  BY <1>9, <1>13, <1>14 DEF Tiling

\* Returning changes nothing, and the loop is left at the end.
LEMMA ReturnTiling ==
  ASSUME Tiling, Return
  PROVE  Tiling'
<1>1. /\ done' = TRUE
      /\ UNCHANGED <<length, header_len, mtu, offset, frag_offset_blocks, fragments>>
      /\ Loop /\ Arguments /\ offset >= length
  BY DEF Return, Tiling, Uncut
<1>2. offset = length
  BY <1>1 DEF Loop, Arguments
<1>3. MaxPayload' = MaxPayload
  BY <1>1 DEF MaxPayload
<1>4. \A i \in 1..Len(fragments) : CutOK(i)'
  BY <1>1, <1>3 DEF Loop, CutOK
<1>5. Reached'
  BY <1>1 DEF Loop, Reached, InCut
<1>6. Loop'
  BY <1>1, <1>2, <1>3, <1>4, <1>5 DEF Loop
<1> QED
  BY <1>1, <1>6 DEF Tiling, Arguments

\* A turn of the loop and its end keep the invariant.
LEMMA StepTiling == Tiling /\ [Next]_vars => Tiling'
<1> SUFFICES ASSUME Tiling, [Next]_vars PROVE Tiling'
  OBVIOUS
<1>1. CASE CutFragment
  BY <1>1, CutTiling
<1>2. CASE Return
  BY <1>2, ReturnTiling
<1>3. CASE UNCHANGED vars
  <2>1. /\ UNCHANGED <<length, header_len, mtu, offset, frag_offset_blocks, fragments, done>>
        /\ MaxPayload' = MaxPayload
    BY <1>3 DEF vars, MaxPayload
  <2>2. Arguments' /\ fragments' \in Seq(Cuts) /\ done' \in BOOLEAN
    BY <2>1 DEF Tiling, Arguments
  <2>3. CASE Uncut
    BY <2>1, <2>2, <2>3 DEF Tiling, Uncut
  <2>4. CASE Loop
    <3>1. \A i \in 1..Len(fragments) : CutOK(i)'
      BY <2>1, <2>4 DEF Loop, CutOK
    <3>2. Reached'
      BY <2>1, <2>4 DEF Loop, Reached, InCut
    <3>3. Loop'
      BY <2>1, <2>4, <3>1, <3>2 DEF Loop
    <3> QED
      BY <2>2, <3>3 DEF Tiling
  <2> QED
    BY <2>3, <2>4 DEF Tiling
<1> QED
  BY <1>1, <1>2, <1>3 DEF Next

-----------------------------------------------------------------------------
\* What the loop keeps is what Tiles says.
LEMMA TilingTiles == Tiling => Tiles
<1> SUFFICES ASSUME Tiling PROVE Tiles
  OBVIOUS
<1>1. /\ MaxPayload \in Nat /\ header_len + MaxPayload <= mtu
      /\ length \in Nat /\ header_len \in Nat /\ mtu \in Nat
  BY RoomForData DEF Tiling, Arguments
<1>2. CASE Uncut
  <2>1. /\ Len(fragments) = 1
        /\ fragments[1] = [block |-> 0, start |-> 0, size |-> length, is_last |-> TRUE]
    BY <1>2 DEF Uncut, Cut
  <2>2. \A i \in 1..Len(fragments) : i = 1
    BY <2>1
  <2>3. header_len + length <= mtu
    BY <1>1, <1>2 DEF Uncut
  <2>4. OffsetsAgree
    BY <1>1, <2>1, <2>2, <2>3 DEF OffsetsAgree
  <2>5. fragments # <<>> /\ fragments[Len(fragments)].is_last
    <3>1. fragments # <<>>
      BY <2>1
    <3>2. fragments[Len(fragments)].is_last
      <4>1. fragments[1].is_last = TRUE
        BY <2>1, SMT
      <4> QED
        BY <2>1, <4>1, Zenon
    <3> QED
      BY <3>1, <3>2
  <2>6. ASSUME NEW i \in 1..Len(fragments)
        PROVE  /\ fragments[i].start = IF i = 1 THEN 0
                                       ELSE fragments[i - 1].start + fragments[i - 1].size
               /\ fragments[i].is_last <=> fragments[i].start + fragments[i].size = length
    BY <1>1, <2>1, <2>2
  <2> QED
    BY <2>4, <2>5, <2>6 DEF Tiles
<1>3. CASE Loop
  <2>1. \A i \in 1..Len(fragments) : fragments[i] \in Cuts /\ CutOK(i)
    BY <1>3 DEF Loop, Tiling
  <2>2. OffsetsAgree
    BY <1>1, <2>1 DEF OffsetsAgree, CutOK, Cuts
  <2>3. ASSUME done PROVE fragments # <<>> /\ fragments[Len(fragments)].is_last
    <3>1. offset = length /\ length > 0
      BY <1>1, <1>3, <2>3 DEF Loop
    <3>2. Len(fragments) \in Nat /\ Len(fragments) # 0
      BY <1>3, <3>1 DEF Loop, Tiling
    <3>3. Len(fragments) \in 1..Len(fragments)
      BY <3>2
    <3>4. fragments[Len(fragments)].start + fragments[Len(fragments)].size = length
      BY <1>3, <3>1, <3>2 DEF Loop
    <3> QED
      BY <2>1, <3>2, <3>3, <3>4 DEF CutOK
  <2> QED
    BY <2>1, <2>2, <2>3 DEF Tiles, CutOK
<1> QED
  BY <1>2, <1>3 DEF Tiling

\* The fragments that fragment_ip_packet cuts fit the MTU and the offset field, follow one
\* another without hole or overlap, and mark the last one and no other, whatever the
\* lengths.
THEOREM FragmentsTile == Spec => []Tiles
<1> QED BY InitTiling, StepTiling, TilingTiles, PTL DEF Spec

\* The loop of fragment_ip_packet gets ahead with every turn and not past the end, so it ends
\* when the MTU leaves room for 8 bytes, as it need not otherwise: this is the part of Returns
\* that does not depend on scheduling (ip_reassembly.py:343-381).
THEOREM EveryTurnCuts == Spec => [][done' \/ (offset < offset' /\ offset' <= length')]_vars
<1>1. ASSUME Tiling, Tiling', CutFragment PROVE offset < offset' /\ offset' <= length'
  <2> DEFINE rest  == length - offset
             chunk == IF MaxPayload < rest THEN MaxPayload ELSE rest
  <2>1. Loop /\ Loop' /\ Arguments /\ length \in Nat
    <3>1. ~done /\ ~done'
      BY <1>1 DEF CutFragment
    <3>2. Loop /\ Loop'
      BY <1>1, <3>1 DEF Tiling, Uncut
    <3> QED BY <1>1, <3>2 DEF Tiling, Arguments
  <2>2. /\ MaxPayload \in Nat /\ MaxPayload >= 8
        /\ (MaxPayload \div 8) * 8 = MaxPayload
    BY <2>1, RoomForData
  <2>3. /\ offset \in 0..length /\ offset < length
        /\ offset' = offset + IF offset + chunk >= length THEN chunk ELSE (chunk \div 8) * 8
    BY <1>1, <2>1 DEF Loop, CutFragment
  <2>4. rest \in Nat /\ rest >= 1
    BY <2>1, <2>3
  <2>5. CASE MaxPayload < rest
    <3>1. chunk = MaxPayload /\ ~(offset + chunk >= length)
      BY <2>1, <2>2, <2>3, <2>5
    <3>2. offset' = offset + MaxPayload
      BY <2>2, <2>3, <3>1
    <3>3. offset < offset'
      BY <2>1, <2>2, <2>3, <3>2
    <3> QED BY <2>1, <3>3 DEF Loop
  <2>6. CASE ~(MaxPayload < rest)
    <3>1. chunk = rest /\ offset + chunk >= length
      BY <2>1, <2>2, <2>3, <2>6
    <3>2. offset' = offset + rest
      BY <2>3, <3>1
    <3>3. offset < offset'
      BY <2>1, <2>3, <2>4, <3>2
    <3> QED BY <2>1, <3>3 DEF Loop
  <2> QED BY <2>5, <2>6
<1>2. Tiling /\ Tiling' /\ [Next]_vars => [done' \/ (offset < offset' /\ offset' <= length')]_vars
  <2>1. Return => done'
    BY DEF Return
  <2> QED BY <1>1, <2>1 DEF Next
<1> QED BY InitTiling, StepTiling, <1>2, PTL DEF Spec

-----------------------------------------------------------------------------
(* Lists and folds, as in IPReassembler_proofs.                            *)

\* Every set of naturals that has an element has a least one.
LEMMA LeastNumber ==
  ASSUME NEW S \in SUBSET Nat, S # {}
  PROVE  \E m \in S : \A n \in S : m <= n
<1> DEFINE R == OpToRel(<, Nat)
<1>1. IsWellFoundedOn(R, Nat)
  BY NatLessThanWellFounded DEF OpToRel
<1>2. R = {ss \in Nat \X Nat : ss[1] < ss[2]}
  BY DEF OpToRel
<1> HIDE DEF R
<1>3. PICK m \in S : \A n \in S : ~ (<<n, m>> \in R)
  BY <1>1, WFMin
<1>4. \A n \in S : m <= n
  <2> TAKE n \in S
  <2>1. <<n, m>> \in Nat \X Nat
    OBVIOUS
  <2>2. ~ (n < m)
    BY <1>2, <1>3, <2>1
  <2> QED BY <2>2
<1> QED BY <1>3, <1>4

\* The largest number of a set is the one that is.
LEMMA MaxIs ==
  ASSUME NEW S \in SUBSET Int, NEW m \in S, \A n \in S : n <= m
  PROVE  Max(S) = m
<1>1. Max(S) \in S /\ \A n \in S : Max(S) >= n
  <2>1. \E x \in S : \A n \in S : x >= n
    OBVIOUS
  <2> QED BY <2>1 DEF Max
<1> DEFINE x == Max(S)
<1>2. x \in Int /\ m \in Int /\ x >= m /\ x <= m
  BY <1>1
<1> HIDE DEF x
<1>3. x = m
  BY <1>2
<1> QED BY <1>3 DEF x

\* The least number of a set is one of its members, below all the others.
LEMMA MinIs ==
  ASSUME NEW S \in SUBSET Nat, S # {}
  PROVE  Min(S) \in S /\ \A n \in S : Min(S) <= n
<1>1. \E m \in S : \A n \in S : m <= n
  BY LeastNumber
<1> QED BY <1>1 DEF Min

\* Python's list.insert.
LEMMA Inserted ==
  ASSUME NEW T, NEW list \in Seq(T), NEW e \in T, NEW k \in 1..(Len(list) + 1)
  PROVE  /\ InsertAt(list, k, e) \in Seq(T)
         /\ Len(InsertAt(list, k, e)) = Len(list) + 1
         /\ \A i \in 1..(Len(list) + 1) :
              InsertAt(list, k, e)[i] = IF i < k THEN list[i]
                                        ELSE IF i = k THEN e ELSE list[i - 1]
<1> DEFINE n     == Len(list)
           left  == SubSeq(list, 1, k - 1)
           mid   == left \o <<e>>
           right == SubSeq(list, k, n)
<1>1. n \in Nat /\ k \in 1..(n + 1) /\ \A i \in 1..n : list[i] \in T
  OBVIOUS
<1>2. left \in Seq(T) /\ Len(left) = k - 1 /\ \A i \in 1..(k - 1) : left[i] = list[i]
  <2>1. 1 \in Int /\ k - 1 \in Int /\ \A i \in 1..(k - 1) : list[i] \in T
    BY <1>1
  <2>2. /\ left \in Seq(T)
        /\ Len(left) = IF 1 <= k - 1 THEN (k - 1) - 1 + 1 ELSE 0
        /\ \A i \in 1..((k - 1) - 1 + 1) : left[i] = list[1 + i - 1]
    BY <2>1, SubSeqProperties
  <2> HIDE DEF left
  <2>3. (k - 1) - 1 + 1 = k - 1
    BY <1>1
  <2>4. Len(left) = k - 1
    BY <1>1, <2>2
  <2>5. ASSUME NEW i \in 1..(k - 1) PROVE left[i] = list[i]
    <3>1. left[i] = list[1 + i - 1] /\ 1 + i - 1 = i
      BY <2>2, <2>3
    <3> QED BY <3>1
  <2> QED BY <2>2, <2>4, <2>5
<1>3. right \in Seq(T) /\ Len(right) = n - k + 1 /\ \A i \in 1..(n - k + 1) : right[i] = list[k + i - 1]
  <2>1. k \in Int /\ n \in Int /\ \A i \in k..n : list[i] \in T
    BY <1>1
  <2> HIDE DEF n
  <2>2. /\ right \in Seq(T)
        /\ Len(right) = IF k <= n THEN n - k + 1 ELSE 0
        /\ \A i \in 1..(n - k + 1) : right[i] = list[k + i - 1]
    BY <2>1, SubSeqProperties
  <2> HIDE DEF right
  <2>3. Len(right) = n - k + 1
    BY <1>1, <2>2
  <2> QED BY <2>2, <2>3
<1> HIDE DEF left, right, n
<1>4. /\ mid \in Seq(T) /\ Len(mid) = k
      /\ \A i \in 1..k : mid[i] = IF i <= k - 1 THEN left[i] ELSE e
  <2>1. <<e>> \in Seq(T) /\ Len(<<e>>) = 1 /\ <<e>>[1] = e
    OBVIOUS
  <2> DEFINE one == <<e>>
  <2> HIDE DEF one
  <2>2. one \in Seq(T) /\ Len(one) = 1 /\ one[1] = e
    BY <2>1 DEF one
  <2>3. /\ left \o one \in Seq(T) /\ Len(left \o one) = (k - 1) + 1
        /\ \A i \in 1..((k - 1) + 1) : (left \o one)[i] = IF i <= k - 1 THEN left[i] ELSE one[i - (k - 1)]
    <3>1. /\ left \o one \in Seq(T) /\ Len(left \o one) = Len(left) + Len(one)
          /\ \A i \in 1..(Len(left) + Len(one)) :
               (left \o one)[i] = IF i <= Len(left) THEN left[i] ELSE one[i - Len(left)]
      BY <1>2, <2>2, ConcatProperties
    <3>2. Len(left) = k - 1 /\ Len(one) = 1
      BY <1>2, <2>2
    <3> QED BY <3>1, <3>2
  <2>4. (k - 1) + 1 = k /\ mid = left \o one
    BY <1>1 DEF one
  <2>5. ASSUME NEW i \in 1..k PROVE mid[i] = IF i <= k - 1 THEN left[i] ELSE e
    <3>1. mid[i] = IF i <= k - 1 THEN left[i] ELSE one[i - (k - 1)]
      BY <2>3, <2>4
    <3>2. i <= k - 1 \/ i - (k - 1) = 1
      BY <1>1
    <3> HIDE DEF mid
    <3> QED BY <2>2, <3>1, <3>2
  <2> QED BY <2>3, <2>4, <2>5
<1> HIDE DEF mid
<1>5. /\ mid \o right \in Seq(T) /\ Len(mid \o right) = k + (n - k + 1)
      /\ \A i \in 1..(k + (n - k + 1)) :
           (mid \o right)[i] = IF i <= k THEN mid[i] ELSE right[i - k]
  <2>1. mid \in Seq(T) /\ right \in Seq(T)
    BY <1>3, <1>4
  <2>2. /\ mid \o right \in Seq(T) /\ Len(mid \o right) = Len(mid) + Len(right)
        /\ \A i \in 1..(Len(mid) + Len(right)) :
             (mid \o right)[i] = IF i <= Len(mid) THEN mid[i] ELSE right[i - Len(mid)]
    BY <2>1, ConcatProperties
  <2> QED BY <1>3, <1>4, <2>2
<1>6. k + (n - k + 1) = n + 1
  BY <1>1
<1>7. InsertAt(list, k, e) = mid \o right
  BY DEF InsertAt, mid, left, right, n
<1> DEFINE all == mid \o right
<1> HIDE DEF all
<1>8. ASSUME NEW i \in 1..(n + 1)
      PROVE  all[i] = IF i < k THEN list[i] ELSE IF i = k THEN e ELSE list[i - 1]
  <2>1. all[i] = IF i <= k THEN mid[i] ELSE right[i - k]
    BY <1>5, <1>6 DEF all
  <2>2. CASE i < k
    <3>1. i \in 1..k /\ i \in 1..(k - 1) /\ i <= k /\ i <= k - 1
      BY <1>1, <2>2
    <3> QED BY <1>2, <1>4, <2>1, <2>2, <3>1
  <2>3. CASE i = k
    <3>1. i \in 1..k /\ i <= k /\ ~(i <= k - 1) /\ ~(i < k)
      BY <1>1, <2>3
    <3> QED BY <1>4, <2>1, <2>3, <3>1
  <2>4. CASE i > k
    <3>1. i - k \in 1..(n - k + 1) /\ ~(i <= k) /\ ~(i < k) /\ i # k /\ k + (i - k) - 1 = i - 1
      BY <1>1, <2>4
    <3> QED BY <1>3, <2>1, <3>1
  <2> QED BY <1>1, <2>2, <2>3, <2>4
<1> QED BY <1>5, <1>6, <1>7, <1>8 DEF all, n

\* The loop of _merge_fragments.
MergeFrom(base, list) == FoldLeft(MergeFragment, base, list)

\* acc[k] is what the loop has merged after k fragments.
MergeSteps(acc, base, list, n) ==
  /\ acc[0] = base
  /\ \A k \in 1..n : acc[k] = MergeFragment(acc[k - 1], list[k])
  /\ acc[n] = MergeFrom(base, list)

\* The fold of the model is that loop.
LEMMA MergeUnrolled ==
  ASSUME NEW base, NEW list, NEW n \in Nat, DOMAIN list = 1..n
  PROVE  \E acc : MergeSteps(acc, base, list, n)
<1> DEFINE Unroll(m, g) ==
             [s \in SUBSET (1..m) |-> IF s = {} THEN base
                                      ELSE MergeFragment(g[s \ {Max(s)}], list[Max(s)])]
           Exists(m) == \E g : g = Unroll(m, g)
           bad == {m \in Nat : ~Exists(m)}
<1>1. ASSUME NEW m \in Nat, NEW s \in SUBSET (1..m), m \in s PROVE Max(s) = m
  <2>1. s \in SUBSET Int /\ \A k \in s : k <= m
    OBVIOUS
  <2> QED BY <1>1, <2>1, MaxIs
<1>2. \A m \in Nat : Exists(m)
  <2>1. CASE bad = {}
    BY <2>1
  <2>2. CASE bad # {}
    <3>1. PICK m \in bad : \A k \in bad : m <= k
      <4>1. bad \in SUBSET Nat
        OBVIOUS
      <4> HIDE DEF bad
      <4> QED BY <2>2, <4>1, LeastNumber
    <3>2. m # 0
      <4> DEFINE g == [s \in SUBSET (1..0) |-> base]
      <4>1. \A s \in SUBSET (1..0) : s = {}
        OBVIOUS
      <4>2. Unroll(0, g) = [s \in SUBSET (1..0) |-> base]
        BY <4>1
      <4>3. Exists(0)
        BY <4>2
      <4> QED BY <4>3
    <3>3. m - 1 \in Nat /\ Exists(m - 1)
      <4>1. m \in Nat /\ m # 0
        BY <3>2
      <4>2. m - 1 \in Nat /\ m - 1 < m
        BY <4>1
      <4>3. m - 1 \notin bad
        <5> HIDE DEF bad
        <5> QED BY <3>1, <4>1, <4>2
      <4> QED BY <4>2, <4>3
    <3>4. PICK g : g = Unroll(m - 1, g)
      BY <3>3
    <3> DEFINE h == [s \in SUBSET (1..m) |-> IF m \in s THEN MergeFragment(g[s \ {m}], list[m])
                                             ELSE g[s]]
    <3>5. ASSUME NEW s \in SUBSET (1..m)
          PROVE  h[s] = IF s = {} THEN base ELSE MergeFragment(h[s \ {Max(s)}], list[Max(s)])
      <4>1. CASE m \in s
        <5>1. Max(s) = m /\ s \ {m} \in SUBSET (1..m)
          BY <1>1, <4>1
        <5> QED BY <4>1, <5>1
      <4>2. CASE m \notin s
        <5>1. s \in SUBSET (1..(m - 1))
          BY <3>3, <4>2
        <5>2. h[s] = g[s]
          BY <4>2
        <5>3. g[s] = IF s = {} THEN base ELSE MergeFragment(g[s \ {Max(s)}], list[Max(s)])
          BY <3>4, <5>1
        <5>4. s \ {Max(s)} \in SUBSET (1..m) /\ m \notin s \ {Max(s)}
          BY <4>2
        <5>5. h[s \ {Max(s)}] = g[s \ {Max(s)}]
          BY <5>4
        <5> QED BY <5>2, <5>3, <5>5
      <4> QED BY <4>1, <4>2
    <3>6. h = Unroll(m, h)
      <4>1. h = [s \in SUBSET (1..m) |-> h[s]]
        OBVIOUS
      <4> HIDE DEF h
      <4> QED BY <3>5, <4>1
    <3> QED BY <3>1, <3>6
  <2> QED BY <2>1, <2>2
<1> DEFINE iter == CHOOSE iter : iter = Unroll(n, iter)
<1>3. iter = Unroll(n, iter)
  BY <1>2
<1>4. MergeFrom(base, list) = iter[1..n]
  BY Zenon DEF MergeFrom, FoldLeft, MapThenFoldSet
<1> DEFINE acc == [k \in 0..n |-> iter[1..k]]
<1> HIDE DEF iter
<1>5. acc[0] = base
  BY <1>3
<1>6. ASSUME NEW k \in 1..n PROVE acc[k] = MergeFragment(acc[k - 1], list[k])
  <2>1. /\ 1..k \in SUBSET (1..n) /\ 1..k # {} /\ k \in 1..k /\ k \in Nat
        /\ (1..k) \ {k} = 1..(k - 1) /\ k - 1 \in 0..n
    <3>1. k \in Nat /\ k >= 1 /\ k <= n /\ k - 1 \in 0..n
      OBVIOUS
    <3>2. k \in 1..k /\ 1..k \in SUBSET (1..n)
      BY <3>1
    <3>3. \A j : j \in (1..k) \ {k} <=> j \in 1..(k - 1)
      BY <3>1
    <3>4. (1..k) \ {k} = 1..(k - 1)
      BY <3>3, Zenon
    <3> QED BY <3>1, <3>2, <3>4, Zenon
  <2>2. Max(1..k) = k
    BY <1>1, <2>1
  <2>3. iter[1..k] = MergeFragment(iter[1..(k - 1)], list[k])
    BY <1>3, <2>1, <2>2
  <2> QED BY <2>1, <2>3
<1>7. acc[n] = iter[1..n]
  OBVIOUS
<1> HIDE DEF acc
<1> QED BY <1>4, <1>5, <1>6, <1>7 DEF MergeSteps

\* The flattening of one list is that list.
LEMMA FlattenOne ==
  ASSUME NEW data
  PROVE  FlattenSeq([i \in 1..1 |-> data]) = data
<1> DEFINE seqs == [i \in 1..1 |-> data]
           Flat(f) == f = [i \in 1..Len(seqs) |-> IF i = 1 THEN seqs[i] ELSE f[i - 1] \o seqs[i]]
           flatten == CHOOSE f : Flat(f)
<1>1. Len(seqs) = 1 /\ seqs[1] = data
  OBVIOUS
<1> HIDE DEF seqs
<1>2. \E f : Flat(f)
  <2> DEFINE g == [i \in 1..1 |-> data]
  <2>1. Flat(g)
    BY <1>1
  <2> QED BY <2>1
<1>3. Flat(flatten)
  BY <1>2
<1>4. FlattenSeq(seqs) = flatten[Len(seqs)]
  BY <1>1 DEF FlattenSeq
<1> HIDE DEF flatten
<1>5. flatten[1] = data
  BY <1>1, <1>3
<1> QED BY <1>1, <1>4, <1>5 DEF seqs
-----------------------------------------------------------------------------
(* Fragments, and the lists a buffer keeps.                                *)

Frags == [offset : Nat, data : Seq(Nat), is_last : BOOLEAN]

\* Both fragments as one, when the second goes on where the first ends, or before.
Extended(last, frag) ==
  Fragment(last.offset,
           last.data \o SubSeq(frag.data, (FragmentEnd(last) - frag.offset) + 1, Len(frag.data)),
           frag.is_last)

Marked(last) == [last EXCEPT !.is_last = TRUE]

GoesOn(last, frag) ==
  /\ last.offset <= frag.offset /\ frag.offset <= FragmentEnd(last)
  /\ FragmentEnd(last) < FragmentEnd(frag)

\* A byte at p of the payload, in a fragment and in a list.
InFrag(f, p) == f.offset <= p /\ p < FragmentEnd(f)

Holds(list, p) == \E i \in 1..Len(list) : InFrag(list[i], p)

\* A kind of fragments that merging does not leave.
Closed(F) ==
  /\ F \in SUBSET Frags
  /\ \A last, frag \in F :
       /\ GoesOn(last, frag) => Extended(last, frag) \in F
       /\ FragmentEnd(frag) = FragmentEnd(last) /\ frag.is_last => Marked(last) \in F

\* The lists a buffer keeps: sorted, with a gap between any two of their fragments.
Canonical(F, list) ==
  /\ list \in Seq(F)
  /\ \A i, j \in 1..Len(list) : i < j => FragmentEnd(list[i]) < list[j].offset

\* The numbers of a fragment.
LEMMA FragFacts ==
  ASSUME NEW f \in Frags
  PROVE  /\ f.offset \in Nat /\ f.data \in Seq(Nat) /\ f.is_last \in BOOLEAN
         /\ Len(f.data) \in Nat /\ FragmentEnd(f) \in Nat
         /\ FragmentEnd(f) = f.offset + Len(f.data) /\ f.offset <= FragmentEnd(f)
<1>1. f.offset \in Nat /\ f.data \in Seq(Nat) /\ f.is_last \in BOOLEAN
  BY DEF Frags
<1>2. Len(f.data) \in Nat
  BY <1>1
<1> QED BY <1>1, <1>2 DEF FragmentEnd

\* What is in a fragment that was extended.
LEMMA ExtendedIs ==
  ASSUME NEW last \in Frags, NEW frag \in Frags, GoesOn(last, frag)
  PROVE  /\ Extended(last, frag) \in Frags
         /\ Extended(last, frag).offset = last.offset
         /\ Extended(last, frag).is_last = frag.is_last
         /\ FragmentEnd(Extended(last, frag)) = FragmentEnd(frag)
         /\ \A i \in 1..Len(Extended(last, frag).data) :
              Extended(last, frag).data[i] =
                IF i <= Len(last.data) THEN last.data[i]
                ELSE frag.data[i + last.offset - frag.offset]
<1> DEFINE a == last.offset
           c == frag.offset
           m == Len(last.data)
           n == Len(frag.data)
           over == (FragmentEnd(last) - c) + 1
           rest == SubSeq(frag.data, over, n)
           data == last.data \o rest
<1>1. /\ a \in Nat /\ c \in Nat /\ m \in Nat /\ n \in Nat /\ a <= c /\ c <= a + m /\ a + m < c + n
      /\ last.data \in Seq(Nat) /\ frag.data \in Seq(Nat) /\ frag.is_last \in BOOLEAN
      /\ FragmentEnd(last) = a + m /\ FragmentEnd(frag) = c + n
  BY FragFacts DEF GoesOn
<1>2. over = a + m - c + 1
  BY <1>1
<1>3. Extended(last, frag) = [offset |-> a, data |-> data, is_last |-> frag.is_last]
  BY DEF Extended, Fragment
<1> HIDE DEF a, c, m, n, over
<1>4. over \in Int /\ n \in Int /\ over <= n /\ 1 <= over /\ n - over + 1 = c + n - a - m
  BY <1>1, <1>2
<1>5. \A i \in over..n : frag.data[i] \in Nat
  <2>1. \A i \in 1..n : frag.data[i] \in Nat
    BY <1>1 DEF n
  <2> QED BY <1>4, <2>1
<1>6. /\ rest \in Seq(Nat) /\ Len(rest) = n - over + 1
      /\ \A i \in 1..(n - over + 1) : rest[i] = frag.data[over + i - 1]
  BY <1>4, <1>5, SubSeqProperties
<1> HIDE DEF rest
<1>7. /\ data \in Seq(Nat) /\ Len(data) = Len(last.data) + Len(rest)
      /\ \A i \in 1..(Len(last.data) + Len(rest)) :
           data[i] = IF i <= Len(last.data) THEN last.data[i] ELSE rest[i - Len(last.data)]
  BY <1>1, <1>6, ConcatProperties
<1> HIDE DEF data
<1>8. Len(last.data) = m
  BY DEF m
<1>9. Len(data) = c + n - a /\ m + Len(rest) = c + n - a
  BY <1>1, <1>4, <1>6, <1>7, <1>8
<1>10. ASSUME NEW i \in 1..(c + n - a)
       PROVE  data[i] = IF i <= m THEN last.data[i] ELSE frag.data[i + a - c]
  <2>1. data[i] = IF i <= m THEN last.data[i] ELSE rest[i - m]
    BY <1>7, <1>8, <1>9
  <2>2. CASE i > m
    <3>1. i - m \in 1..(n - over + 1) /\ over + (i - m) - 1 = i + a - c
      BY <1>1, <1>2, <1>4, <2>2
    <3>2. rest[i - m] = frag.data[i + a - c]
      BY <1>6, <3>1
    <3> QED BY <2>1, <2>2, <3>2
  <2>3. CASE i <= m
    BY <2>1, <2>3
  <2> QED BY <1>1, <2>2, <2>3
<1>11. FragmentEnd(Extended(last, frag)) = c + n
  <2>1. a + (c + n - a) = c + n
    BY <1>1
  <2> QED BY <1>3, <1>9, <2>1 DEF FragmentEnd
<1>12. Extended(last, frag) \in Frags
  BY <1>1, <1>3, <1>7 DEF Frags
<1>13. /\ Extended(last, frag).offset = a /\ Extended(last, frag).data = data
       /\ Extended(last, frag).is_last = frag.is_last
  BY <1>3
<1>14. \A i \in 1..Len(Extended(last, frag).data) :
         Extended(last, frag).data[i] = IF i <= m THEN last.data[i] ELSE frag.data[i + a - c]
  BY <1>9, <1>10, <1>13, Zenon
<1>15. FragmentEnd(Extended(last, frag)) = FragmentEnd(frag)
  BY <1>1, <1>11
<1> QED BY <1>12, <1>13, <1>14, <1>15, Zenon DEF a, c, m

-----------------------------------------------------------------------------
(* Merging a sorted list, as in IPReassembler_proofs; and no byte is lost. *)

\* A list that ends with another fragment at the same place.
LEMMA LastReplaced ==
  ASSUME NEW F, Closed(F), NEW list, Canonical(F, list), Len(list) >= 1, NEW frag \in F,
         frag.offset = list[Len(list)].offset
  PROVE  LET after == Append(Front(list), frag)
         IN  /\ Canonical(F, after) /\ Len(after) = Len(list) /\ after[Len(after)] = frag
             /\ \A i \in 1..(Len(list) - 1) : after[i] = list[i]
<1> DEFINE n     == Len(list)
           front == SubSeq(list, 1, n - 1)
           after == Append(front, frag)
<1>1. list \in Seq(F) /\ n \in Nat /\ n >= 1
  BY DEF Canonical
<1>2. front \in Seq(F) /\ Len(front) = n - 1 /\ \A i \in 1..(n - 1) : front[i] = list[i]
  <2>1. 1 \in Int /\ n - 1 \in Int /\ \A i \in 1..(n - 1) : list[i] \in F
    BY <1>1
  <2>2. /\ front \in Seq(F)
        /\ Len(front) = IF 1 <= n - 1 THEN (n - 1) - 1 + 1 ELSE 0
        /\ \A i \in 1..((n - 1) - 1 + 1) : front[i] = list[1 + i - 1]
    BY <2>1, SubSeqProperties
  <2>3. (n - 1) - 1 + 1 = n - 1 /\ \A i \in 1..(n - 1) : 1 + i - 1 = i
    BY <1>1
  <2> HIDE DEF front
  <2>4. Len(front) = n - 1
    <3> HIDE DEF n
    <3>1. CASE n = 1
      BY <2>2, <3>1
    <3>2. CASE n # 1
      BY <1>1, <2>2, <3>2
    <3> QED BY <3>1, <3>2
  <2>5. ASSUME NEW i \in 1..(n - 1) PROVE front[i] = list[i]
    <3>1. front[i] = list[1 + i - 1] /\ 1 + i - 1 = i
      BY <2>2, <2>3
    <3> QED BY <3>1
  <2> QED BY <2>2, <2>4, <2>5
<1> HIDE DEF front
<1>3. after \in Seq(F) /\ Len(after) = n
  BY <1>1, <1>2
<1>4. (\A i \in 1..(n - 1) : after[i] = list[i]) /\ after[n] = frag
  BY <1>1, <1>2
<1>5. Front(list) = front
  BY DEF Front, front
<1> HIDE DEF after
<1>6. ASSUME NEW i \in 1..n, NEW j \in 1..n, i < j PROVE FragmentEnd(after[i]) < after[j].offset
  <2>1. i \in 1..(n - 1) /\ FragmentEnd(list[i]) < list[j].offset
    BY <1>1, <1>6 DEF Canonical
  <2>2. CASE j = n
    BY <1>4, <2>1, <2>2
  <2>3. CASE j # n
    <3>1. j \in 1..(n - 1)
      BY <1>1, <2>3
    <3> QED BY <1>4, <2>1, <3>1
  <2> QED BY <2>2, <2>3
<1>7. Canonical(F, after)
  BY <1>3, <1>6 DEF Canonical
<1>8. \A i \in 1..(n - 1) : after[i] = list[i]
  BY <1>4
<1> HIDE DEF n
<1> QED BY <1>3, <1>4, <1>5, <1>7, <1>8 DEF after, n

\* A list with a fragment beyond its last one.
LEMMA FragAppended ==
  ASSUME NEW F, Closed(F), NEW list, Canonical(F, list), Len(list) >= 1, NEW frag \in F,
         FragmentEnd(list[Len(list)]) < frag.offset
  PROVE  LET after == Append(list, frag)
         IN  /\ Canonical(F, after) /\ Len(after) = Len(list) + 1 /\ after[Len(after)] = frag
             /\ \A i \in 1..Len(list) : after[i] = list[i]
<1> DEFINE n     == Len(list)
           after == Append(list, frag)
<1>1. list \in Seq(F) /\ n \in Nat /\ n >= 1
  BY DEF Canonical
<1>2. after \in Seq(F) /\ Len(after) = n + 1
  BY <1>1
<1>3. (\A i \in 1..n : after[i] = list[i]) /\ after[n + 1] = frag
  BY <1>1
<1> HIDE DEF after
<1>4. ASSUME NEW i \in 1..(n + 1), NEW j \in 1..(n + 1), i < j
      PROVE  FragmentEnd(after[i]) < after[j].offset
  <2>1. i \in 1..n
    BY <1>1, <1>4
  <2>2. CASE j = n + 1
    <3>1. CASE i = n
      BY <1>3, <2>1, <2>2, <3>1
    <3>2. CASE i # n
      <4>1. n \in 1..n /\ i < n
        BY <1>1, <2>1, <3>2
      <4>2. FragmentEnd(list[i]) < list[n].offset
        BY <2>1, <4>1 DEF Canonical
      <4>3. list[n] \in Frags /\ list[i] \in Frags /\ frag \in Frags
        BY <1>1, <2>1, <4>1 DEF Closed
      <4>4. /\ list[n].offset <= FragmentEnd(list[n]) /\ list[n].offset \in Nat
            /\ FragmentEnd(list[n]) \in Nat /\ FragmentEnd(list[i]) \in Nat /\ frag.offset \in Nat
        BY <4>3, FragFacts
      <4> QED BY <1>3, <2>1, <2>2, <4>2, <4>4
    <3> QED BY <3>1, <3>2
  <2>3. CASE j # n + 1
    <3>1. j \in 1..n
      BY <1>1, <2>3
    <3> QED BY <1>3, <1>4, <2>1, <3>1 DEF Canonical
  <2> QED BY <2>2, <2>3
<1>5. Canonical(F, after)
  BY <1>2, <1>4 DEF Canonical
<1> QED BY <1>2, <1>3, <1>5 DEF after

\* A list whose elements before the last one are those of a list, and whose last holds p.
LEMMA LastOrBefore ==
  ASSUME NEW list, NEW after, NEW p, Len(list) \in Nat, Len(list) >= 1, Len(after) = Len(list),
         \A i \in 1..(Len(list) - 1) : after[i] = list[i],
         InFrag(after[Len(after)], p) \/ \E i \in 1..(Len(list) - 1) : InFrag(list[i], p)
  PROVE  Holds(after, p)
<1>1. Len(after) \in 1..Len(after) /\ \A i \in 1..(Len(list) - 1) : i \in 1..Len(after)
  OBVIOUS
<1> QED BY <1>1 DEF Holds

\* One turn of the loop keeps the list canonical, and all bytes.
LEMMA MergeOne ==
  ASSUME NEW F, Closed(F), NEW merged, Canonical(F, merged), Len(merged) >= 1,
         NEW frag \in F, merged[Len(merged)].offset <= frag.offset
  PROVE  LET after == MergeFragment(merged, frag)
         IN  /\ Canonical(F, after) /\ Len(after) >= 1
             /\ after[Len(after)].offset <= frag.offset
             /\ \A p \in Nat : Holds(merged, p) \/ InFrag(frag, p) => Holds(after, p)
<1> DEFINE last    == merged[Len(merged)]
           overlap == FragmentEnd(last) - frag.offset
           after   == MergeFragment(merged, frag)
<1>1. last \in F /\ Len(merged) \in Nat
  <2>1. merged \in Seq(F) /\ Len(merged) \in 1..Len(merged)
    BY DEF Canonical
  <2> QED BY <2>1
<1>2. last \in Frags /\ frag \in Frags
  BY <1>1 DEF Closed
<1>3. /\ last.offset \in Nat /\ frag.offset \in Nat /\ last.offset <= frag.offset
      /\ FragmentEnd(last) \in Nat /\ FragmentEnd(frag) \in Nat
  BY <1>2, FragFacts
<1>4. Last(merged) = last
  BY DEF Last
<1> HIDE DEF last
<1>12. ASSUME NEW p \in Nat, Holds(merged, p)
       PROVE  InFrag(last, p) \/ \E i \in 1..(Len(merged) - 1) : InFrag(merged[i], p)
  <2>1. PICK i \in 1..Len(merged) : InFrag(merged[i], p)
    BY <1>12 DEF Holds
  <2>2. CASE i = Len(merged)
    BY <2>1, <2>2 DEF last
  <2>3. CASE i # Len(merged)
    <3>1. i \in 1..(Len(merged) - 1)
      BY <1>1, <2>3
    <3> QED BY <2>1, <3>1
  <2> QED BY <2>2, <2>3
<1>5. overlap \in Int /\ (overlap < 0 <=> FragmentEnd(last) < frag.offset)
  BY <1>3
<1>6. after = CASE overlap < 0 -> Append(merged, frag)
                [] overlap >= 0 /\ FragmentEnd(frag) > FragmentEnd(last) ->
                     Append(Front(merged), Extended(last, frag))
                [] overlap >= 0 /\ FragmentEnd(frag) = FragmentEnd(last) /\ frag.is_last ->
                     Append(Front(merged), Marked(last))
                [] OTHER -> merged
  BY <1>4, Zenon DEF MergeFragment, Extended, Marked
<1> HIDE DEF after, overlap
<1>7. CASE overlap < 0
  <2>1. after = Append(merged, frag)
    BY <1>5, <1>6, <1>7
  <2>2. FragmentEnd(merged[Len(merged)]) < frag.offset
    BY <1>5, <1>7 DEF last
  <2>3. /\ Canonical(F, after) /\ Len(after) = Len(merged) + 1 /\ after[Len(after)] = frag
        /\ \A i \in 1..Len(merged) : after[i] = merged[i]
    BY <2>1, <2>2, FragAppended
  <2>4. \A i \in 1..Len(merged) : i \in 1..Len(after)
    BY <1>1, <2>3
  <2>5. Len(after) \in 1..Len(after)
    BY <1>1, <2>3
  <2>6. \A p \in Nat : Holds(merged, p) \/ InFrag(frag, p) => Holds(after, p)
    BY <2>3, <2>4, <2>5 DEF Holds
  <2> QED BY <1>1, <1>3, <2>3, <2>6 DEF after
<1>8. CASE overlap >= 0 /\ FragmentEnd(frag) > FragmentEnd(last)
  <2>1. after = Append(Front(merged), Extended(last, frag))
    BY <1>3, <1>5, <1>6, <1>8
  <2>2. GoesOn(last, frag)
    BY <1>3, <1>5, <1>8 DEF GoesOn
  <2>3. Extended(last, frag) \in F /\ Extended(last, frag).offset = last.offset
    BY <1>1, <1>2, <2>2, ExtendedIs DEF Closed
  <2> DEFINE e == Extended(last, frag)
  <2> HIDE DEF e
  <2>4. e \in F /\ e.offset = merged[Len(merged)].offset /\ after = Append(Front(merged), e)
    BY <2>1, <2>3 DEF e, last
  <2>5. /\ Canonical(F, after) /\ Len(after) = Len(merged) /\ after[Len(after)] = e
        /\ \A i \in 1..(Len(merged) - 1) : after[i] = merged[i]
    BY <2>4, LastReplaced
  <2>6. ASSUME NEW p \in Nat, InFrag(last, p) \/ InFrag(frag, p) PROVE InFrag(e, p)
    <3>1. FragmentEnd(e) = FragmentEnd(frag) /\ e.offset = last.offset
      BY <1>2, <2>2, <2>3, ExtendedIs DEF e
    <3> QED BY <1>3, <1>8, <2>6, <3>1 DEF InFrag
  <2>7. ASSUME NEW p \in Nat, Holds(merged, p) \/ InFrag(frag, p) PROVE Holds(after, p)
    BY <1>1, <1>12, <2>5, <2>6, <2>7, LastOrBefore
  <2> QED BY <1>3, <2>4, <2>5, <2>7 DEF last, after
<1>9. CASE overlap >= 0 /\ FragmentEnd(frag) = FragmentEnd(last) /\ frag.is_last
  <2>1. after = Append(Front(merged), Marked(last))
    BY <1>3, <1>5, <1>6, <1>9
  <2>2. Marked(last) \in F /\ Marked(last).offset = last.offset
    BY <1>1, <1>2, <1>9 DEF Closed, Marked, Frags
  <2> DEFINE e == Marked(last)
  <2> HIDE DEF e
  <2>3. e \in F /\ e.offset = merged[Len(merged)].offset /\ after = Append(Front(merged), e)
    BY <2>1, <2>2 DEF e, last
  <2>4. /\ Canonical(F, after) /\ Len(after) = Len(merged) /\ after[Len(after)] = e
        /\ \A i \in 1..(Len(merged) - 1) : after[i] = merged[i]
    BY <2>3, LastReplaced
  <2>6. ASSUME NEW p \in Nat, InFrag(last, p) \/ InFrag(frag, p) PROVE InFrag(e, p)
    <3>1. FragmentEnd(e) = FragmentEnd(last) /\ e.offset = last.offset
      BY <1>2 DEF e, Marked, Frags, FragmentEnd
    <3> QED BY <1>3, <1>9, <2>6, <3>1 DEF InFrag
  <2>7. ASSUME NEW p \in Nat, Holds(merged, p) \/ InFrag(frag, p) PROVE Holds(after, p)
    BY <1>1, <1>12, <2>4, <2>6, <2>7, LastOrBefore
  <2> QED BY <1>3, <2>3, <2>4, <2>7 DEF last, after
<1>10. CASE /\ overlap >= 0 /\ ~(FragmentEnd(frag) > FragmentEnd(last))
            /\ ~(FragmentEnd(frag) = FragmentEnd(last) /\ frag.is_last)
  <2>1. after = merged
    BY <1>5, <1>6, <1>10
  <2>2. ASSUME NEW p \in Nat, InFrag(frag, p) PROVE InFrag(last, p)
    BY <1>3, <1>5, <1>10, <2>2 DEF InFrag
  <2>3. Len(merged) \in 1..Len(merged)
    BY <1>1
  <2>4. \A p \in Nat : Holds(merged, p) \/ InFrag(frag, p) => Holds(after, p)
    BY <2>1, <2>2, <2>3 DEF Holds, last
  <2> QED BY <1>3, <2>1, <2>4 DEF last, after
<1>11. overlap < 0 \/ overlap >= 0
  BY <1>5
<1> QED BY <1>7, <1>8, <1>9, <1>10, <1>11 DEF after

\* _merge_fragments on a sorted list.
LEMMA MergeAll ==
  ASSUME NEW F, Closed(F), NEW list \in Seq(F), Len(list) >= 1,
         \A i, j \in 1..Len(list) : i < j => list[i].offset <= list[j].offset
  PROVE  /\ Canonical(F, MergeFragments(list)) /\ Len(MergeFragments(list)) >= 1
         /\ \A p \in Nat, i \in 1..Len(list) : InFrag(list[i], p) => Holds(MergeFragments(list), p)
<1> DEFINE n    == Len(list)
           base == <<Head(list)>>
           rest == Tail(list)
<1>1. n \in Nat /\ n >= 1 /\ \A i \in 1..n : list[i] \in F /\ list[i] \in Frags
  BY DEF Closed
<1>2. /\ Head(list) = list[1] /\ rest \in Seq(F) /\ Len(rest) = n - 1
      /\ \A i \in 1..(n - 1) : rest[i] = list[i + 1]
  <2>1. list # <<>>
    BY <1>1
  <2> QED BY <1>1, <2>1, HeadTailProperties
<1>3. MergeFragments(list) = MergeFrom(base, rest)
  BY Zenon DEF MergeFragments, MergeFrom
<1>4. base \in Seq(F) /\ Len(base) = 1 /\ base[1] = list[1]
  <2>1. list[1] \in F
    BY <1>1
  <2> QED BY <1>2, <2>1
<1> HIDE DEF base, rest
<1>5. n - 1 \in Nat /\ DOMAIN rest = 1..(n - 1)
  BY <1>1, <1>2
<1>6. PICK acc : MergeSteps(acc, base, rest, n - 1)
  BY <1>5, MergeUnrolled
<1> DEFINE Good(k) ==
             /\ Canonical(F, acc[k]) /\ Len(acc[k]) >= 1
             /\ acc[k][Len(acc[k])].offset <= list[k + 1].offset
             /\ \A p \in Nat, i \in 1..(k + 1) : InFrag(list[i], p) => Holds(acc[k], p)
           bad == {k \in 0..(n - 1) : ~Good(k)}
<1>7. Good(0)
  <2>1. acc[0] = base
    BY <1>6 DEF MergeSteps
  <2>2. Canonical(F, base)
    BY <1>4 DEF Canonical
  <2>3. list[1].offset \in Nat /\ list[0 + 1] = list[1]
    BY <1>1, FragFacts
  <2>4. Len(base) >= 1 /\ base[Len(base)].offset <= list[0 + 1].offset
    BY <1>4, <2>3
  <2>5. ASSUME NEW p \in Nat, NEW i \in 1..(0 + 1), InFrag(list[i], p) PROVE Holds(base, p)
    <3>1. i = 1 /\ base[1] = list[i] /\ 1 \in 1..Len(base)
      BY <1>4
    <3> QED BY <2>5, <3>1 DEF Holds
  <2> QED BY <2>1, <2>2, <2>4, <2>5
<1>8. ASSUME NEW k \in 1..(n - 1), Good(k - 1) PROVE Good(k)
  <2> DEFINE merged == acc[k - 1]
             frag   == list[k + 1]
             after  == MergeFragment(merged, frag)
  <2>1. acc[k] = after
    BY <1>2, <1>6 DEF MergeSteps
  <2>2. k \in 1..n /\ k + 1 \in 1..n /\ k < k + 1 /\ (k - 1) + 1 = k
    BY <1>1
  <2>3. frag \in F /\ frag \in Frags /\ list[k] \in Frags
    BY <1>1, <2>2
  <2>4. /\ Canonical(F, merged) /\ Len(merged) >= 1 /\ merged[Len(merged)].offset <= list[k].offset
        /\ \A p \in Nat, i \in 1..k : InFrag(list[i], p) => Holds(merged, p)
    BY <1>8, <2>2
  <2> HIDE DEF merged
  <2>5. merged[Len(merged)].offset <= frag.offset
    <3>1. list[k].offset <= frag.offset
      BY <2>2
    <3>2. merged[Len(merged)] \in Frags
      <4>1. merged \in Seq(F) /\ Len(merged) \in 1..Len(merged)
        BY <2>4 DEF Canonical
      <4> QED BY <4>1 DEF Closed
    <3>3. merged[Len(merged)].offset \in Nat /\ list[k].offset \in Nat /\ frag.offset \in Nat
      BY <2>3, <3>2, FragFacts
    <3> HIDE DEF frag
    <3> QED BY <2>4, <3>1, <3>3
  <2>7. \A i \in 1..(k + 1) : i \in 1..k \/ list[i] = frag
    BY <1>1
  <2> HIDE DEF frag
  <2>6. /\ Canonical(F, after) /\ Len(after) >= 1
        /\ after[Len(after)].offset <= frag.offset
        /\ \A p \in Nat : Holds(merged, p) \/ InFrag(frag, p) => Holds(after, p)
    BY <2>3, <2>4, <2>5, MergeOne
  <2> HIDE DEF after
  <2>8. ASSUME NEW p \in Nat, NEW i \in 1..(k + 1), InFrag(list[i], p) PROVE Holds(after, p)
    BY <2>4, <2>6, <2>7, <2>8
  <2> QED BY <2>1, <2>6, <2>8 DEF frag
<1> HIDE DEF Good
<1>9. Good(n - 1)
  <2>1. CASE bad = {}
    BY <1>5, <2>1
  <2>2. CASE bad # {}
    <3>1. PICK k \in bad : \A j \in bad : k <= j
      <4>1. bad \in SUBSET Nat
        BY <1>5
      <4> HIDE DEF bad
      <4> QED BY <2>2, <4>1, LeastNumber
    <3>2. k \in 0..(n - 1) /\ ~Good(k)
      OBVIOUS
    <3>3. k # 0
      BY <1>7, <3>2
    <3>4. k \in 1..(n - 1) /\ k - 1 \in 0..(n - 1) /\ ~(k <= k - 1)
      BY <1>5, <3>2, <3>3
    <3>5. k - 1 \notin bad
      <4> HIDE DEF bad
      <4> QED BY <3>1, <3>4
    <3>6. Good(k - 1)
      BY <3>4, <3>5
    <3> QED BY <1>8, <3>2, <3>4, <3>6
  <2> QED BY <2>1, <2>2
<1>10. MergeFragments(list) = acc[n - 1]
  BY <1>3, <1>6 DEF MergeSteps
<1>11. \A i \in 1..Len(list) : i \in 1..((n - 1) + 1)
  BY <1>1
<1> QED BY <1>9, <1>10, <1>11 DEF Good

\* The list add_fragment sorts.
LEMMA InsertedSorted ==
  ASSUME NEW F, Closed(F), NEW list, Canonical(F, list), NEW frag \in F
  PROVE  LET after == SortIn(list, frag)
         IN  /\ after \in Seq(F) /\ Len(after) >= 1
             /\ \A i, j \in 1..Len(after) : i < j => after[i].offset <= after[j].offset
             /\ \A p \in Nat : Holds(list, p) \/ InFrag(frag, p) => Holds(after, p)
<1> DEFINE n     == Len(list)
           later == {i \in DOMAIN list : list[i].offset > frag.offset}
           k     == Min(later \cup {n + 1})
           after == InsertAt(list, k, frag)
<1>1. list \in Seq(F) /\ n \in Nat /\ DOMAIN list = 1..n
  BY DEF Canonical
<1>2. frag \in Frags /\ \A i \in 1..n : list[i] \in Frags
  BY <1>1 DEF Closed
<1>3. \A i \in 1..n : /\ list[i].offset \in Nat /\ FragmentEnd(list[i]) \in Nat
                      /\ list[i].offset <= FragmentEnd(list[i])
  BY <1>2, FragFacts
<1>4. frag.offset \in Nat
  BY <1>2, FragFacts
<1>5. later = {i \in 1..n : list[i].offset > frag.offset}
  BY <1>1
<1>6. \A i, j \in 1..n : i < j => FragmentEnd(list[i]) < list[j].offset
  BY DEF Canonical
<1>7. SortIn(list, frag) = after
  BY Zenon DEF SortIn
<1> HIDE DEF n, later
<1>8. k \in later \cup {n + 1} /\ \A i \in later \cup {n + 1} : k <= i
  <2>1. later \cup {n + 1} \in SUBSET Nat /\ later \cup {n + 1} # {}
    BY <1>1, <1>5
  <2> QED BY <2>1, MinIs
<1> HIDE DEF k
<1>9. k \in 1..(n + 1)
  BY <1>1, <1>5, <1>8
<1>10. /\ after \in Seq(F) /\ Len(after) = n + 1
       /\ \A i \in 1..(n + 1) :
            after[i] = IF i < k THEN list[i] ELSE IF i = k THEN frag ELSE list[i - 1]
  <2>1. k \in 1..(Len(list) + 1)
    BY <1>9 DEF n
  <2> QED BY <1>1, <2>1, Inserted DEF n
<1> HIDE DEF after
<1>11. ASSUME NEW i \in 1..n, i < k PROVE list[i].offset <= frag.offset
  <2>1. i \notin later
    BY <1>8, <1>9, <1>11
  <2> QED BY <1>3, <1>4, <1>5, <2>1
<1>12. ASSUME NEW i \in 1..n, k <= i PROVE frag.offset < list[i].offset
  <2>1. k \in 1..n /\ k \in later
    BY <1>1, <1>8, <1>9, <1>12
  <2>2. frag.offset < list[k].offset
    BY <1>3, <1>4, <1>5, <2>1
  <2>3. CASE i = k
    BY <2>2, <2>3
  <2>4. CASE i # k
    <3>1. k < i /\ FragmentEnd(list[k]) < list[i].offset
      BY <1>6, <1>12, <2>1, <2>4
    <3> QED BY <1>3, <1>4, <2>1, <2>2, <3>1
  <2> QED BY <2>3, <2>4
<1>13. ASSUME NEW i \in 1..(n + 1), NEW j \in 1..(n + 1), i < j
       PROVE  after[i].offset <= after[j].offset
  <2>1. CASE j < k
    <3>1. i \in 1..n /\ j \in 1..n /\ i < k
      BY <1>1, <1>9, <1>13, <2>1
    <3>2. after[i] = list[i] /\ after[j] = list[j] /\ FragmentEnd(list[i]) < list[j].offset
      BY <1>6, <1>10, <1>13, <2>1, <3>1
    <3> QED BY <1>3, <3>1, <3>2
  <2>2. CASE j = k
    <3>1. i \in 1..n /\ i < k /\ ~(j < k)
      BY <1>1, <1>9, <1>13, <2>2
    <3>2. after[i] = list[i] /\ after[j] = frag
      BY <1>10, <2>2, <3>1
    <3> QED BY <1>11, <3>1, <3>2
  <2>3. CASE j > k
    <3>1. j - 1 \in 1..n /\ k <= j - 1 /\ ~(j < k) /\ j # k
      BY <1>1, <1>9, <2>3
    <3>2. after[j] = list[j - 1] /\ frag.offset < list[j - 1].offset
      BY <1>10, <1>12, <3>1
    <3>3. CASE i < k
      <4>1. i \in 1..n
        BY <1>1, <1>9, <3>3
      <4>2. after[i] = list[i] /\ list[i].offset <= frag.offset
        BY <1>10, <1>11, <3>3, <4>1
      <4> QED BY <1>3, <1>4, <3>1, <3>2, <4>1, <4>2
    <3>4. CASE i = k
      <4>1. after[i] = frag
        BY <1>9, <1>10, <3>4
      <4> QED BY <1>3, <1>4, <3>1, <3>2, <4>1
    <3>5. CASE i > k
      <4>1. i - 1 \in 1..n /\ i - 1 < j - 1 /\ ~(i < k) /\ i # k
        BY <1>1, <1>9, <1>13, <3>1, <3>5
      <4>2. after[i] = list[i - 1] /\ FragmentEnd(list[i - 1]) < list[j - 1].offset
        BY <1>6, <1>10, <3>1, <4>1
      <4> QED BY <1>3, <3>1, <3>2, <4>1, <4>2
    <3> QED BY <1>9, <3>3, <3>4, <3>5
  <2> QED BY <1>9, <2>1, <2>2, <2>3
<1>14. /\ after \in Seq(F) /\ Len(after) >= 1
       /\ \A i, j \in 1..Len(after) : i < j => after[i].offset <= after[j].offset
  BY <1>1, <1>10, <1>13
<1>15. ASSUME NEW p \in Nat, Holds(list, p) \/ InFrag(frag, p) PROVE Holds(after, p)
  <2>1. \A i \in 1..(n + 1) : i \in 1..Len(after)
    BY <1>1, <1>10
  <2>2. CASE InFrag(frag, p)
    <3>1. after[k] = frag /\ k \in 1..Len(after)
      BY <1>9, <1>10, <2>1
    <3> QED BY <2>2, <3>1 DEF Holds
  <2>3. CASE Holds(list, p)
    <3>1. PICK i \in 1..n : InFrag(list[i], p)
      BY <2>3 DEF Holds, n
    <3>2. CASE i < k
      <4>1. after[i] = list[i] /\ i \in 1..Len(after)
        BY <1>1, <1>10, <2>1, <3>2
      <4> QED BY <3>1, <4>1 DEF Holds
    <3>3. CASE ~(i < k)
      <4>1. i + 1 \in 1..(n + 1) /\ ~(i + 1 < k) /\ i + 1 # k /\ (i + 1) - 1 = i
        BY <1>1, <1>9, <3>3
      <4>2. after[i + 1] = list[i] /\ i + 1 \in 1..Len(after)
        BY <1>10, <2>1, <4>1
      <4> QED BY <3>1, <4>2 DEF Holds
    <3> QED BY <3>2, <3>3
  <2> QED BY <1>15, <2>2, <2>3
<1> QED BY <1>7, <1>14, <1>15 DEF after

\* The list after add_fragment, which is not empty.
LEMMA AddedCanonical ==
  ASSUME NEW F, Closed(F), NEW list, Canonical(F, list), NEW frag \in F
  PROVE  LET after == MergeFragments(SortIn(list, frag))
         IN  /\ Canonical(F, after) /\ Len(after) >= 1
             /\ \A p \in Nat : Holds(list, p) \/ InFrag(frag, p) => Holds(after, p)
<1> DEFINE sorted == SortIn(list, frag)
<1>1. /\ sorted \in Seq(F) /\ Len(sorted) >= 1
      /\ \A i, j \in 1..Len(sorted) : i < j => sorted[i].offset <= sorted[j].offset
      /\ \A p \in Nat : Holds(list, p) \/ InFrag(frag, p) => Holds(sorted, p)
  BY InsertedSorted
<1> HIDE DEF sorted
<1> DEFINE merged == MergeFragments(sorted)
<1>2. /\ Canonical(F, merged) /\ Len(merged) >= 1
      /\ \A p \in Nat, i \in 1..Len(sorted) : InFrag(sorted[i], p) => Holds(merged, p)
  BY <1>1, MergeAll
<1> HIDE DEF merged
<1>3. ASSUME NEW p \in Nat, Holds(list, p) \/ InFrag(frag, p) PROVE Holds(merged, p)
  <2>1. PICK i \in 1..Len(sorted) : InFrag(sorted[i], p)
    BY <1>1, <1>3 DEF Holds
  <2> QED BY <1>2, <2>1
<1> QED BY <1>2, <1>3 DEF merged, sorted

-----------------------------------------------------------------------------
(* Runs: what the buffer holds of the payload, whose bytes are their       *)
(* positions.                                                              *)

\* The bytes from..from + n of the payload.
Run(from, n) == [i \in 1..n |-> from + i]

\* Fragments of a payload of len bytes; and those whose mark tells where the payload ends,
\* which a last fragment that was cut short does not.
Runs(len) == {f \in Frags : f.data = Run(f.offset, Len(f.data)) /\ FragmentEnd(f) <= len}

MarkedRuns(len) == {f \in Runs(len) : f.is_last <=> FragmentEnd(f) = len}

\* What a run holds.
LEMMA RunFacts ==
  ASSUME NEW from \in Nat, NEW n \in Nat
  PROVE  /\ Run(from, n) \in Seq(Nat) /\ Len(Run(from, n)) = n
         /\ \A i \in 1..n : Run(from, n)[i] = from + i
<1>1. \A i \in 1..n : from + i \in Nat
  OBVIOUS
<1>2. [i \in 1..n |-> from + i] \in Seq(Nat) /\ Len([i \in 1..n |-> from + i]) = n
  BY <1>1
<1> QED BY <1>2 DEF Run

\* A list of positions that follow one another is a run.
LEMMA RunIs ==
  ASSUME NEW from \in Nat, NEW s \in Seq(Nat), \A i \in 1..Len(s) : s[i] = from + i
  PROVE  s = Run(from, Len(s))
<1>1. s = [i \in 1..Len(s) |-> s[i]]
  OBVIOUS
<1>2. [i \in 1..Len(s) |-> s[i]] = [i \in 1..Len(s) |-> from + i]
  OBVIOUS
<1> QED BY <1>1, <1>2, Zenon DEF Run

\* The bytes lo..hi of a run of n bytes are m bytes behind start.
Lies(from, n, lo, hi, start, m) ==
  /\ from \in Nat /\ n \in Nat /\ lo \in Nat /\ hi \in Nat /\ start \in Nat /\ m \in Nat
  /\ lo >= 1 /\ hi <= n
  /\ start = from + lo - 1 /\ m = hi - lo + 1

\* A part of a run is a run.
LEMMA RunPart ==
  ASSUME NEW from, NEW n, NEW lo, NEW hi, NEW start, NEW m, Lies(from, n, lo, hi, start, m)
  PROVE  SubSeq(Run(from, n), lo, hi) = Run(start, m)
<1> USE DEF Lies
<1> DEFINE run  == Run(from, n)
           part == SubSeq(run, lo, hi)
<1>1. run \in Seq(Nat) /\ Len(run) = n /\ \A i \in 1..n : run[i] = from + i
  BY RunFacts
<1> HIDE DEF run
<1>2. \A i \in lo..hi : run[i] \in Nat
  <2>1. \A i \in lo..hi : i \in 1..n /\ from + i \in Nat
    OBVIOUS
  <2> QED BY <1>1, <2>1
<1>3. /\ part \in Seq(Nat) /\ Len(part) = IF lo <= hi THEN hi - lo + 1 ELSE 0
      /\ \A i \in 1..(hi - lo + 1) : part[i] = run[lo + i - 1]
  BY <1>2, SubSeqProperties
<1> HIDE DEF part
<1>4. Len(part) = m
  BY <1>3
<1>5. ASSUME NEW i \in 1..m PROVE part[i] = start + i
  <2>1. i \in 1..(hi - lo + 1) /\ lo + i - 1 \in 1..n
    OBVIOUS
  <2>2. part[i] = run[lo + i - 1] /\ run[lo + i - 1] = from + (lo + i - 1)
    BY <1>1, <1>3, <2>1
  <2>3. from + (lo + i - 1) = start + i
    OBVIOUS
  <2> QED BY <2>2, <2>3
<1>6. part = Run(start, Len(part))
  BY <1>3, <1>4, <1>5, RunIs
<1> QED BY <1>4, <1>6 DEF part, run

\* Fragments that go on in one another make one run.
LEMMA RunsExtended ==
  ASSUME NEW len \in Nat, NEW last \in Runs(len), NEW frag \in Runs(len), GoesOn(last, frag)
  PROVE  /\ Extended(last, frag) \in Runs(len)
         /\ Extended(last, frag).is_last = frag.is_last
         /\ FragmentEnd(Extended(last, frag)) = FragmentEnd(frag)
<1> DEFINE e == Extended(last, frag)
<1>1. last \in Frags /\ frag \in Frags
  BY DEF Runs
<1>2. /\ e \in Frags /\ e.offset = last.offset /\ e.is_last = frag.is_last
      /\ FragmentEnd(e) = FragmentEnd(frag)
      /\ \A i \in 1..Len(e.data) : e.data[i] = IF i <= Len(last.data) THEN last.data[i]
                                               ELSE frag.data[i + last.offset - frag.offset]
  BY <1>1, ExtendedIs
<1> HIDE DEF e
<1>3. /\ last.offset \in Nat /\ frag.offset \in Nat
      /\ Len(last.data) \in Nat /\ Len(frag.data) \in Nat /\ Len(e.data) \in Nat
      /\ e.data \in Seq(Nat) /\ e.offset \in Nat
      /\ e.offset + Len(e.data) = frag.offset + Len(frag.data)
      /\ last.offset <= frag.offset /\ frag.offset <= last.offset + Len(last.data)
  BY <1>1, <1>2, FragFacts DEF GoesOn
<1>4. /\ \A i \in 1..Len(last.data) : last.data[i] = last.offset + i
      /\ \A i \in 1..Len(frag.data) : frag.data[i] = frag.offset + i
  <2>1. ASSUME NEW f \in Runs(len) PROVE \A i \in 1..Len(f.data) : f.data[i] = f.offset + i
    <3>1. f.data = Run(f.offset, Len(f.data))
      BY DEF Runs
    <3>2. ASSUME NEW n, NEW from, NEW s, s = [i \in 1..n |-> from + i]
          PROVE  \A i \in 1..n : s[i] = from + i
      BY <3>2
    <3>3. f.data = [i \in 1..Len(f.data) |-> f.offset + i]
      BY <3>1, Zenon DEF Run
    <3> DEFINE n == Len(f.data)
               s == f.data
               from == f.offset
    <3>4. s = [i \in 1..n |-> from + i]
      BY <3>3
    <3> HIDE DEF n, s, from
    <3>5. \A i \in 1..n : s[i] = from + i
      BY <3>2, <3>4, Zenon
    <3> QED BY <3>5 DEF n, s, from
  <2> QED BY <2>1
<1>5. ASSUME NEW i \in 1..Len(e.data) PROVE e.data[i] = e.offset + i
  <2>1. CASE i <= Len(last.data)
    BY <1>2, <1>3, <1>4, <2>1
  <2>2. CASE i > Len(last.data)
    <3>1. /\ i + last.offset - frag.offset \in 1..Len(frag.data)
          /\ frag.offset + (i + last.offset - frag.offset) = last.offset + i
      <4> DEFINE a == last.offset
                 c == frag.offset
                 m == Len(last.data)
                 n == Len(frag.data)
                 k == Len(e.data)
      <4>1. e.offset = a
        BY <1>2
      <4>2. /\ a \in Nat /\ c \in Nat /\ m \in Nat /\ n \in Nat /\ k \in Nat
            /\ a + k = c + n /\ c <= a + m /\ i \in 1..k /\ i > m
        BY <1>3, <2>2, <4>1, Zenon
      <4> HIDE DEF a, c, m, n, k
      <4>3. i + a - c \in 1..n /\ c + (i + a - c) = a + i
        BY <4>2
      <4> QED BY <4>3 DEF a, c, n
    <3>2. e.data[i] = frag.data[i + last.offset - frag.offset]
      <4>1. ~(i <= Len(last.data))
        BY <1>3, <2>2
      <4> QED BY <1>2, <4>1, Zenon
    <3> QED BY <1>2, <1>4, <3>1, <3>2
  <2> QED BY <1>3, <2>1, <2>2
<1>6. e.data = Run(e.offset, Len(e.data))
  BY <1>3, <1>5, RunIs
<1>7. FragmentEnd(e) <= len
  BY <1>2 DEF Runs
<1> QED BY <1>2, <1>6, <1>7 DEF Runs, e

\* Merging does not leave the runs, and the mark stays with the end.
LEMMA RunsClosed ==
  ASSUME NEW len \in Nat
  PROVE  Closed(Runs(len)) /\ Closed(MarkedRuns(len))
<1>1. Runs(len) \in SUBSET Frags /\ MarkedRuns(len) \in SUBSET Runs(len)
  BY DEF Runs, MarkedRuns
<1>2. ASSUME NEW last \in Runs(len) PROVE Marked(last) \in Runs(len) /\ FragmentEnd(Marked(last)) = FragmentEnd(last)
                                          /\ Marked(last).is_last = TRUE
  <2>1. last \in Frags
    BY <1>1
  <2>2. /\ Marked(last).offset = last.offset /\ Marked(last).data = last.data
        /\ Marked(last) \in Frags /\ Marked(last).is_last = TRUE
    BY <2>1 DEF Frags, Marked
  <2>3. FragmentEnd(Marked(last)) = FragmentEnd(last)
    BY <2>2 DEF FragmentEnd
  <2> QED BY <2>2, <2>3 DEF Runs
<1>3. Closed(Runs(len))
  BY <1>1, <1>2, RunsExtended DEF Closed
<1>4. ASSUME NEW last \in MarkedRuns(len), NEW frag \in MarkedRuns(len), GoesOn(last, frag)
      PROVE  Extended(last, frag) \in MarkedRuns(len)
  <2>1. last \in Runs(len) /\ frag \in Runs(len) /\ (frag.is_last <=> FragmentEnd(frag) = len)
    BY DEF MarkedRuns
  <2>2. /\ Extended(last, frag) \in Runs(len)
        /\ Extended(last, frag).is_last = frag.is_last
        /\ FragmentEnd(Extended(last, frag)) = FragmentEnd(frag)
    BY <1>4, <2>1, RunsExtended
  <2> QED BY <2>1, <2>2 DEF MarkedRuns
<1>5. ASSUME NEW last \in MarkedRuns(len), NEW frag \in MarkedRuns(len),
             FragmentEnd(frag) = FragmentEnd(last), frag.is_last
      PROVE  Marked(last) \in MarkedRuns(len)
  <2>1. last \in Runs(len) /\ FragmentEnd(last) = len
    BY <1>5 DEF MarkedRuns
  <2> QED BY <1>2, <2>1 DEF MarkedRuns
<1>6. MarkedRuns(len) \in SUBSET Frags
  BY <1>1
<1>7. Closed(MarkedRuns(len))
  BY <1>4, <1>5, <1>6 DEF Closed
<1> QED BY <1>3, <1>7

\* A canonical list that is complete is one fragment, from the beginning to a last one.
LEMMA CompleteIsOne ==
  ASSUME NEW F, F \in SUBSET Frags, NEW list, Canonical(F, list), IsComplete(list)
  PROVE  /\ Len(list) = 1 /\ list[1] \in F
         /\ list[1].offset = 0 /\ list[1].is_last
         /\ AssembleData(list) = list[1].data
<1>1. list \in Seq(F) /\ Len(list) \in Nat /\ list # <<>>
  BY DEF Canonical, IsComplete
<1>2. Len(list) >= 1
  BY <1>1
<1>3. ~(Len(list) >= 2)
  <2> SUFFICES ASSUME Len(list) >= 2 PROVE FALSE
    OBVIOUS
  <2>1. 1 \in 1..Len(list) /\ 2 \in 1..Len(list) /\ 2 \in 2..Len(list) /\ 1..(2 - 1) = {1}
    BY <1>1
  <2>2. list[2].offset <= FragmentEnd(list[1])
    BY <2>1 DEF IsComplete
  <2>3. FragmentEnd(list[1]) < list[2].offset
    BY <2>1 DEF Canonical
  <2>4. list[1] \in Frags /\ list[2] \in Frags
    BY <1>1, <2>1
  <2>5. FragmentEnd(list[1]) \in Nat /\ list[2].offset \in Nat
    BY <2>4, FragFacts
  <2> QED BY <2>2, <2>3, <2>5
<1>4. Len(list) = 1
  <2> DEFINE n == Len(list)
  <2>1. n \in Nat /\ n >= 1 /\ ~(n >= 2)
    BY <1>1, <1>2, <1>3
  <2> HIDE DEF n
  <2>2. n = 1
    BY <2>1
  <2> QED BY <2>2 DEF n
<1>5. list[1] \in F
  BY <1>1, <1>4
<1>6. list[1].offset = 0 /\ list[1].is_last
  BY <1>1, <1>4 DEF IsComplete, Last
<1>7. DOMAIN list = 1..1
  BY <1>1, <1>4
<1>8. [i \in DOMAIN list |-> list[i].data] = [i \in 1..1 |-> list[1].data]
  BY <1>7
<1>9. AssembleData(list) = FlattenSeq([i \in 1..1 |-> list[1].data])
  BY <1>8, Zenon DEF AssembleData
<1> QED BY <1>4, <1>5, <1>6, <1>9, FlattenOne

\* What a complete list of runs is assembled to: the beginning of the payload, and all of it
\* when the marks are right.
LEMMA Assembled ==
  ASSUME NEW len \in Nat, NEW list, Canonical(Runs(len), list), IsComplete(list)
  PROVE  /\ \E k \in 0..len : AssembleData(list) = Run(0, k)
         /\ Canonical(MarkedRuns(len), list) => AssembleData(list) = Run(0, len)
<1>1. Runs(len) \in SUBSET Frags /\ MarkedRuns(len) \in SUBSET Frags
  BY DEF Runs, MarkedRuns
<1> DEFINE f == list[1]
<1>2. f \in Runs(len) /\ f.offset = 0 /\ AssembleData(list) = f.data
  BY <1>1, CompleteIsOne
<1>3. Canonical(MarkedRuns(len), list) => f \in MarkedRuns(len) /\ f.is_last
  BY <1>1, CompleteIsOne
<1> HIDE DEF f
<1>4. f \in Frags /\ f.data = Run(f.offset, Len(f.data)) /\ FragmentEnd(f) <= len
  BY <1>2 DEF Runs
<1>5. Len(f.data) \in Nat /\ FragmentEnd(f) = Len(f.data)
  BY <1>2, <1>4, FragFacts
<1>6. f.data = Run(0, Len(f.data)) /\ Len(f.data) \in 0..len
  BY <1>2, <1>4, <1>5
<1>7. f \in MarkedRuns(len) /\ f.is_last => Len(f.data) = len
  BY <1>5 DEF MarkedRuns
<1>8. \E k \in 0..len : AssembleData(list) = Run(0, k)
  BY <1>2, <1>6, Zenon
<1>9. Canonical(MarkedRuns(len), list) => AssembleData(list) = Run(0, len)
  BY <1>2, <1>3, <1>6, <1>7, Zenon
<1> QED BY <1>8, <1>9

\* A canonical list of marked runs that holds every byte is complete.
LEMMA AllHeldIsComplete ==
  ASSUME NEW len \in Nat, len >= 1, NEW list, Canonical(MarkedRuns(len), list),
         \A p \in 0..(len - 1) : Holds(list, p)
  PROVE  IsComplete(list)
<1> DEFINE n == Len(list)
<1>1. list \in Seq(MarkedRuns(len)) /\ n \in Nat
  BY DEF Canonical
<1>2. \A i \in 1..n : list[i] \in Frags /\ list[i] \in MarkedRuns(len) /\ FragmentEnd(list[i]) <= len
  BY <1>1 DEF MarkedRuns, Runs
<1>3. \A i \in 1..n : /\ list[i].offset \in Nat /\ FragmentEnd(list[i]) \in Nat
                      /\ list[i].offset <= FragmentEnd(list[i])
                      /\ FragmentEnd(list[i]) <= len
                      /\ (list[i].is_last <=> FragmentEnd(list[i]) = len)
  BY <1>2, FragFacts DEF MarkedRuns
<1>4. \A i, j \in 1..n : i < j => FragmentEnd(list[i]) < list[j].offset
  BY DEF Canonical
<1>5. \A p \in 0..(len - 1) : \E i \in 1..n : list[i].offset <= p /\ p < FragmentEnd(list[i])
  BY DEF Holds, InFrag
<1> HIDE DEF n
<1>6. n >= 1
  <2>1. 0 \in 0..(len - 1)
    OBVIOUS
  <2>2. \E i \in 1..n : TRUE
    BY <1>5, <2>1
  <2> QED BY <1>1, <2>2
<1>7. n = 1
  <2> SUFFICES ASSUME n # 1 PROVE FALSE
    OBVIOUS
  <2>1. 1 \in 1..n /\ 2 \in 1..n
    BY <1>1, <1>6
  <2> DEFINE e == FragmentEnd(list[1])
  <2>2. e \in Nat /\ e < list[2].offset /\ list[2].offset <= len
    <3>1. e \in Nat /\ e < list[2].offset
      BY <1>3, <1>4, <2>1
    <3>2. /\ list[2].offset \in Nat /\ FragmentEnd(list[2]) \in Nat
          /\ list[2].offset <= FragmentEnd(list[2]) /\ FragmentEnd(list[2]) <= len
      BY <1>3, <2>1
    <3> QED BY <1>1, <3>1, <3>2
  <2>3. e \in 0..(len - 1)
    BY <1>1, <1>3, <2>1, <2>2
  <2>4. PICK i \in 1..n : list[i].offset <= e /\ e < FragmentEnd(list[i])
    BY <1>5, <2>3
  <2>5. CASE i = 1
    BY <2>2, <2>4, <2>5
  <2>6. CASE i # 1
    <3>1. 1 < i
      BY <1>1, <2>4, <2>6
    <3>2. e < list[i].offset
      BY <1>4, <2>1, <2>4, <3>1
    <3> QED BY <1>3, <2>2, <2>4, <3>2
  <2> QED BY <2>5, <2>6
<1>8. 1 \in 1..n
  BY <1>7
<1>9. list[1].offset = 0 /\ FragmentEnd(list[1]) = len
  <2>1. 0 \in 0..(len - 1) /\ len - 1 \in 0..(len - 1)
    OBVIOUS
  <2>2. \E i \in 1..n : list[i].offset <= 0 /\ 0 < FragmentEnd(list[i])
    BY <1>5, <2>1
  <2>3. \E i \in 1..n : list[i].offset <= len - 1 /\ len - 1 < FragmentEnd(list[i])
    BY <1>5, <2>1
  <2>4. list[1].offset <= 0 /\ len - 1 < FragmentEnd(list[1])
    BY <1>7, <2>2, <2>3
  <2> QED BY <1>3, <1>8, <2>4
<1>10. list[1].is_last
  BY <1>3, <1>8, <1>9
<1>11. list # <<>> /\ Head(list) = list[1] /\ Last(list) = list[1] /\ 2..Len(list) = {}
  <2>1. Len(list) = 1
    BY <1>7 DEF n
  <2>2. list # <<>> /\ Last(list) = list[1] /\ 2..Len(list) = {}
    <3>1. list # <<>>
      <4>1. Len(<<>>) = 0
        OBVIOUS
      <4> QED BY <2>1, <4>1
    <3>2. Last(list) = list[1]
      BY <2>1 DEF Last
    <3>3. 2..1 = {}
      OBVIOUS
    <3> QED BY <2>1, <3>1, <3>2, <3>3
  <2> QED BY <1>1, <2>2, HeadTailProperties
<1> QED BY <1>9, <1>10, <1>11 DEF IsComplete

\* What is known of the fragments once they are all cut.
CutsAre ==
  /\ length \in Nat /\ header_len \in Nat /\ header_len >= 20
  /\ Len(fragments) \in Nat /\ Len(fragments) >= 1 /\ DOMAIN fragments = 1..Len(fragments)
  /\ \A i \in 1..Len(fragments) :
       /\ fragments[i].start \in Nat /\ fragments[i].size \in Nat
       /\ fragments[i].block \in Nat /\ fragments[i].is_last \in BOOLEAN
       /\ fragments[i].start = 8 * fragments[i].block
       /\ fragments[i].start + fragments[i].size <= length
       /\ fragments[i].is_last <=> fragments[i].start + fragments[i].size = length
       /\ IsCut => /\ fragments[i].size >= 1
                   /\ fragments[i].block > 0 \/ fragments[i].is_last = FALSE
                   /\ i # Len(fragments) => fragments[i].start + fragments[i].size < length
  /\ IsCut => /\ length >= 1
              /\ \A p \in 0..(length - 1) : \E i \in 1..Len(fragments) : InCut(i, p)
  /\ ~IsCut => /\ Len(fragments) = 1
               /\ fragments[1].start = 0 /\ fragments[1].size = length
               /\ fragments[1].block = 0 /\ fragments[1].is_last = TRUE

\* The loop has left them so.
LEMMA CutFacts ==
  ASSUME Tiling, done
  PROVE  CutsAre
<1> USE DEF CutsAre
<1> DEFINE n == Len(fragments)
<1>1. /\ length \in Nat /\ header_len \in Nat /\ header_len >= 20
      /\ fragments \in Seq(Cuts) /\ n \in Nat /\ DOMAIN fragments = 1..n
      /\ \A i \in 1..n : /\ fragments[i].start \in Nat /\ fragments[i].size \in Nat
                         /\ fragments[i].block \in Nat /\ fragments[i].is_last \in BOOLEAN
  <2>1. fragments \in Seq(Cuts)
    BY DEF Tiling
  <2>2. \A i \in 1..n : fragments[i] \in Cuts
    BY <2>1
  <2> QED BY <2>1, <2>2 DEF Tiling, Arguments, Cuts
<1>2. MaxPayload \in Nat
  BY RoomForData DEF Tiling
<1>3. CASE Uncut
  <2>1. n = 1 /\ fragments[1] = [block |-> 0, start |-> 0, size |-> length, is_last |-> TRUE]
    BY <1>3 DEF Uncut, Cut
  <2>2. ~IsCut
    BY <2>1 DEF IsCut
  <2>3. \A i \in 1..n : i = 1
    BY <2>1
  <2> HIDE DEF n
  <2>4. /\ fragments[1].block = 0 /\ fragments[1].start = 0 /\ fragments[1].size = length
        /\ fragments[1].is_last = TRUE
    BY <2>1
  <2>5. /\ 0 = 8 * 0 /\ 0 + length <= length /\ 0 + length = length /\ n >= 1
    BY <1>1, <2>1
  <2>6. \A i \in 1..n : /\ fragments[i].start = 8 * fragments[i].block
                        /\ fragments[i].start + fragments[i].size <= length
                        /\ fragments[i].is_last <=> fragments[i].start + fragments[i].size = length
    BY <2>3, <2>4, <2>5
  <2> QED BY <1>1, <2>1, <2>2, <2>4, <2>5, <2>6 DEF n
<1>4. CASE Loop
  <2>1. /\ MaxPayload < length /\ offset = length /\ Reached
        /\ \A i \in 1..n : CutOK(i)
        /\ offset = IF n = 0 THEN 0 ELSE fragments[n].start + fragments[n].size
    BY <1>4 DEF Loop
  <2>2. n # 0
    BY <1>1, <1>2, <2>1
  <2>3. \A i \in 1..n :
          /\ fragments[i].start = 8 * fragments[i].block
          /\ fragments[i].size <= MaxPayload
          /\ fragments[i].is_last <=> fragments[i].start + fragments[i].size = length
          /\ i = 1 => fragments[i].start = 0
          /\ i # 1 => fragments[i].start = fragments[i - 1].start + fragments[i - 1].size
    BY <2>1 DEF CutOK
  <2>4. /\ \A i \in 1..n : /\ fragments[i].size >= 1
                           /\ fragments[i].start + fragments[i].size <= length
                           /\ i < n => fragments[i].start + fragments[i].size < length
        /\ \A p \in 0..(length - 1) : \E i \in 1..n : InCut(i, p)
    BY <2>1 DEF Reached
  <2> HIDE DEF n
  <2>5. n >= 2
    <3> SUFFICES ASSUME n = 1 PROVE FALSE
      BY <1>1, <2>2
    <3>1. 1 \in 1..n
      BY <1>1
    <3>2. fragments[1].start = 0 /\ fragments[1].size <= MaxPayload /\ fragments[1].size \in Nat
      BY <1>1, <2>3, <3>1
    <3>3. length = fragments[1].start + fragments[1].size
      BY <2>1
    <3> QED BY <1>1, <1>2, <2>1, <3>2, <3>3
  <2>6. IsCut
    BY <2>5 DEF IsCut, n
  <2>7. ASSUME NEW i \in 1..n PROVE fragments[i].block > 0 \/ fragments[i].is_last = FALSE
    <3>1. CASE i = 1
      <4>1. fragments[i].start + fragments[i].size < length
        BY <1>1, <2>4, <2>5, <3>1
      <4>2. ~fragments[i].is_last
        BY <1>1, <2>3, <4>1
      <4> QED BY <1>1, <4>2
    <3>2. CASE i # 1
      <4>1. i - 1 \in 1..n
        BY <1>1, <3>2
      <4>2. /\ fragments[i].start = fragments[i - 1].start + fragments[i - 1].size
            /\ fragments[i - 1].size >= 1 /\ fragments[i - 1].start \in Nat /\ fragments[i - 1].size \in Nat
        BY <1>1, <2>3, <2>4, <3>2, <4>1
      <4>3. fragments[i].start >= 1 /\ fragments[i].block \in Nat /\ fragments[i].start = 8 * fragments[i].block
        <5>1. fragments[i].block \in Nat /\ fragments[i].start = 8 * fragments[i].block
          BY <1>1, <2>3
        <5>2. fragments[i].start >= 1
          BY <4>2
        <5> QED BY <5>1, <5>2
      <4> QED BY <4>3
    <3> QED BY <3>1, <3>2
  <2>8. \A i \in 1..n : i # n => fragments[i].start + fragments[i].size < length
    BY <1>1, <2>4
  <2>9. length >= 1
    BY <1>1, <1>2, <2>1
  <2>10. n >= 1
    BY <1>1, <2>5
  <2>11. \A i \in 1..n :
            /\ fragments[i].start + fragments[i].size <= length
            /\ fragments[i].size >= 1
    BY <2>4
  <2> QED BY <1>1, <2>3, <2>4, <2>6, <2>7, <2>8, <2>9, <2>10, <2>11 DEF n
<1> QED BY <1>3, <1>4 DEF Tiling

-----------------------------------------------------------------------------
(* What analyze reports of the beginning of the payload.                   *)

Sent == transport \in Transports /\ transport.header_len <= length

\* The report r of the first k bytes of what is in the packet, of which errors were seen.
ReportOK(r, errors, k) ==
  /\ IsPrefix(r.payload, Data) /\ Len(r.payload) \in Nat /\ Len(r.payload) <= Len(Data)
  /\ r.layer = IF transport.protocol = "other" THEN "network" ELSE "transport"
  /\ transport.protocol # "other" /\ r.payload # Data => r.errors # {} \/ r.checksum = "invalid"
  /\ k = length /\ ~Malformed => /\ r.errors = errors /\ r.checksum # "invalid"
                                 /\ transport.protocol # "other" => r.payload = Data

\* A shorter run from the same place is a prefix.
LEMMA RunPrefix ==
  ASSUME NEW from \in Nat, NEW n \in Nat, NEW m \in Nat, m <= n
  PROVE  IsPrefix(Run(from, m), Run(from, n))
<1>1. Lies(from, m, 1, m, from, m) /\ Lies(from, n, 1, m, from, m)
  BY DEF Lies
<1>2. SubSeq(Run(from, m), 1, m) = Run(from, m)
  BY <1>1, RunPart
<1>3. SubSeq(Run(from, n), 1, m) = Run(from, m)
  BY <1>1, RunPart
<1>4. Len(Run(from, m)) = m /\ Len(Run(from, n)) = n
  BY RunFacts
<1> QED BY <1>2, <1>3, <1>4 DEF IsPrefix

\* The data that was sent is a run, behind the header.
LEMMA DataIs ==
  ASSUME length \in Nat, Sent
  PROVE  /\ transport.header_len \in Nat /\ length - transport.header_len \in Nat
         /\ Data = Run(transport.header_len, length - transport.header_len)
         /\ Len(Data) = length - transport.header_len
<1>1. transport.header_len \in Nat /\ length - transport.header_len \in Nat
  BY WireAssumption DEF Sent
<1>2. Data = Run(transport.header_len, length - transport.header_len)
  BY Zenon DEF Data, Run
<1> QED BY <1>1, <1>2, RunFacts

\* What the parsers report of a segment or datagram of which k bytes are there.
LEMMA Layer4Reports ==
  ASSUME length \in Nat, Sent, NEW errors, NEW k \in 0..length, NEW data, data = Run(0, k)
  PROVE  ReportOK(ParseLayer4(errors, data), errors, k)
<1> DEFINE h == transport.header_len
           c == transport.checksummed
           t == [header_len |-> h, checksummed |-> c, length |-> length]
           r == ParseLayer4(errors, data)
           segment == IF transport.protocol = "tcp" THEN ParseTCP(data, t) ELSE ParseUDP(data, t)
           EmptyData == <<>>
<1>1. /\ h \in Nat /\ length - h \in Nat /\ Data = Run(h, length - h) /\ Len(Data) = length - h
      /\ h <= length /\ k \in Nat /\ k <= length
  BY DataIs DEF Sent
<1>2. /\ transport.protocol \in {"tcp", "udp", "other"}
      /\ c \in BOOLEAN
      /\ transport.protocol = "tcp" => c = TRUE
      /\ transport.protocol = "udp" => h = 8
  BY WireAssumption DEF Sent
<1>3. Len(data) = k
  BY <1>1, RunFacts
<1>4. EmptyData = Run(h, 0) /\ Len(EmptyData) = 0
  BY DEF Run
<1> HIDE DEF EmptyData
<1>5. IsPrefix(EmptyData, Data)
  BY <1>1, <1>4, RunPrefix
<1>6. t.header_len = h /\ t.checksummed = c /\ t.length = length
  OBVIOUS
<1>7. r = IF transport.protocol = "other" THEN Report(errors, "network", NoSegment)
          ELSE Report(errors \cup (IF segment.error THEN {"transport"} ELSE {}), "transport", segment)
  BY Zenon DEF ParseLayer4
<1> SUFFICES ReportOK(r, errors, k)
  OBVIOUS
<1> HIDE DEF h, c, t, r
<1>8. ASSUME NEW a \in Nat, a <= k, h = a
      PROVE  /\ SubSeq(data, a + 1, k) = Run(a, k - a)
             /\ IsPrefix(Run(a, k - a), Data) /\ Len(Run(a, k - a)) = k - a
             /\ k = length => Run(a, k - a) = Data
  <2> DEFINE lo == a + 1
             m  == k - a
  <2>4. Lies(0, k, lo, k, a, m)
    BY <1>1, <1>8 DEF Lies
  <2> HIDE DEF lo, m
  <2>5. SubSeq(Run(0, k), lo, k) = Run(a, m)
    BY <2>4, RunPart
  <2>1. SubSeq(data, a + 1, k) = Run(a, k - a)
    BY <2>5 DEF lo, m
  <2>2. k - a \in Nat /\ k - a <= length - h
    BY <1>1, <1>8
  <2>3. IsPrefix(Run(h, k - a), Data) /\ Len(Run(h, k - a)) = k - a
    BY <1>1, <2>2, RunPrefix, RunFacts
  <2> QED BY <1>1, <1>8, <2>1, <2>3
<1>9. CASE transport.protocol = "other"
  <2>1. r = Report(errors, "network", NoSegment)
    BY <1>7, <1>9
  <2>2. r.payload = EmptyData /\ r.layer = "network" /\ r.errors = errors /\ r.checksum = "unchecked"
    BY <2>1 DEF Report, NoSegment, Segment, EmptyData
  <2> QED BY <1>1, <1>4, <1>5, <1>9, <2>2 DEF ReportOK
<1>10. CASE transport.protocol # "other"
  <2> HIDE DEF segment
  <2>1. /\ r.layer = "transport" /\ r.payload = segment.payload /\ r.checksum = segment.checksum
        /\ r.errors = errors \cup (IF segment.error THEN {"transport"} ELSE {})
    <3>1. r = Report(errors \cup (IF segment.error THEN {"transport"} ELSE {}), "transport", segment)
      BY <1>7, <1>10
    <3> QED BY <3>1, Zenon DEF Report
  <2>2. CASE transport.protocol = "tcp"
    <3>1. segment = IF k < 20 \/ h < 20 \/ k < h THEN Segment(EmptyData, TRUE, "unchecked")
                    ELSE Segment(SubSeq(data, h + 1, k), FALSE, Verified(data, t))
      BY <1>3, <1>6, <2>2, Zenon DEF segment, ParseTCP, EmptyData
    <3>2. CASE k < 20 \/ h < 20 \/ k < h
      <4>1. segment.payload = EmptyData /\ segment.error = TRUE /\ segment.checksum = "unchecked"
        BY <3>1, <3>2 DEF Segment
      <4>2. r.errors # {} /\ r.payload = EmptyData
        BY <2>1, <4>1
      <4>3. ~(k = length /\ ~Malformed)
        BY <1>1, <2>2, <3>2 DEF Malformed, h
      <4> QED BY <1>1, <1>4, <1>5, <1>10, <2>1, <4>2, <4>3 DEF ReportOK
    <3>3. CASE ~(k < 20 \/ h < 20 \/ k < h)
      <4>1. /\ segment.payload = SubSeq(data, h + 1, k) /\ segment.error = FALSE
            /\ segment.checksum = Verified(data, t)
        BY <3>1, <3>3, Zenon DEF Segment
      <4>2. Verified(data, t) = IF k = length THEN "valid" ELSE "invalid"
        BY <1>2, <1>3, <1>6, <2>2 DEF Verified
      <4>3. /\ r.payload = Run(h, k - h) /\ IsPrefix(r.payload, Data) /\ Len(r.payload) = k - h
            /\ k = length => r.payload = Data
        <5>1. h \in Nat /\ h <= k
          BY <1>1, <3>3
        <5>2. /\ SubSeq(data, h + 1, k) = Run(h, k - h)
              /\ IsPrefix(Run(h, k - h), Data) /\ Len(Run(h, k - h)) = k - h
              /\ k = length => Run(h, k - h) = Data
          BY <1>8, <5>1
        <5>3. r.payload = Run(h, k - h)
          BY <2>1, <4>1, <5>2
        <5> QED BY <5>2, <5>3
      <4>4. r.errors = errors
        BY <2>1, <4>1
      <4>5. r.checksum = IF k = length THEN "valid" ELSE "invalid"
        BY <2>1, <4>1, <4>2
      <4>6. k - h \in Nat /\ k - h <= length - h
        BY <1>1, <3>3
      <4> QED BY <1>1, <1>10, <2>1, <4>3, <4>4, <4>5, <4>6 DEF ReportOK
    <3> QED BY <3>2, <3>3
  <2>3. CASE transport.protocol = "udp"
    <3>1. Min({length, k}) = k
      <4>1. {length, k} \in SUBSET Nat /\ {length, k} # {}
        BY <1>1
      <4> DEFINE m == Min({length, k})
      <4>2. m \in {length, k} /\ m <= length /\ m <= k
        BY <4>1, MinIs
      <4> HIDE DEF m
      <4>3. m = k
        BY <1>1, <4>2
      <4> QED BY <4>3 DEF m
    <3>2. segment = IF k < 8 THEN Segment(EmptyData, TRUE, "unchecked")
                    ELSE Segment(SubSeq(data, 9, k), k < length, Verified(data, t))
      BY <1>3, <1>6, <2>3, <3>1 DEF segment, ParseUDP, EmptyData
    <3>3. CASE k < 8
      <4>1. segment.payload = EmptyData /\ segment.error = TRUE /\ segment.checksum = "unchecked"
        BY <3>2, <3>3 DEF Segment
      <4>2. r.errors # {} /\ r.payload = EmptyData
        BY <2>1, <4>1
      <4>3. k # length
        BY <1>1, <1>2, <2>3, <3>3
      <4> QED BY <1>1, <1>4, <1>5, <1>10, <2>1, <4>2, <4>3 DEF ReportOK
    <3>4. CASE ~(k < 8)
      <4>1. segment = Segment(SubSeq(data, 9, k), k < length, Verified(data, t))
        BY <3>2, <3>4
      <4>2. /\ segment.payload = SubSeq(data, 9, k) /\ segment.checksum = Verified(data, t)
            /\ (segment.error <=> k < length)
        BY <4>1 DEF Segment
      <4>3. k = length => Verified(data, t) # "invalid"
        BY <1>2, <1>3, <1>6 DEF Verified
      <4>4. h = 8 /\ 8 + 1 = 9 /\ 8 <= k /\ 8 \in Nat
        BY <1>1, <1>2, <2>3, <3>4
      <4>5. /\ r.payload = Run(8, k - 8) /\ IsPrefix(r.payload, Data) /\ Len(r.payload) = k - 8
            /\ k = length => r.payload = Data
        BY <1>8, <2>1, <4>2, <4>4
      <4>6. k # length => r.errors # {}
        BY <1>1, <2>1, <4>2
      <4>7. k = length => r.errors = errors
        BY <1>1, <2>1, <4>2
      <4>8. k - 8 \in Nat /\ k - 8 <= length - h
        BY <1>1, <4>4
      <4> QED BY <1>1, <1>10, <2>1, <4>2, <4>3, <4>5, <4>6, <4>7, <4>8 DEF ReportOK
    <3> QED BY <3>3, <3>4
  <2> QED BY <1>2, <1>10, <2>2, <2>3
<1> QED BY <1>9, <1>10

-----------------------------------------------------------------------------
(* What the parsers of the lower layers make of a frame.                   *)

\* The smaller of two numbers.
LEMMA MinOfTwo ==
  ASSUME NEW a \in Nat, NEW b \in Nat
  PROVE  Min({a, b}) = IF a < b THEN a ELSE b
<1>1. {a, b} \in SUBSET Nat /\ {a, b} # {}
  OBVIOUS
<1> DEFINE m == Min({a, b})
<1>2. m \in {a, b} /\ m <= a /\ m <= b
  BY <1>1, MinIs
<1> HIDE DEF m
<1>3. m = IF a < b THEN a ELSE b
  BY <1>2
<1> QED BY <1>3 DEF m

\* Filler is a list of its length.
LEMMA FillerIs == ASSUME NEW n \in Nat PROVE Filler(n) \in Seq(Nat) /\ Len(Filler(n)) = n
  BY DEF Filler

\* The bytes of fragment i are behind the header of the packet p.
Carries(p, i) ==
  /\ p \in Seq(Nat) /\ Len(p) \in Nat /\ header_len + fragments[i].size <= Len(p)
  /\ \A n \in 1..fragments[i].size : p[header_len + n] = fragments[i].start + n

\* A packet carries its fragment, padded or not.
LEMMA PacketCarries ==
  ASSUME CutsAre, NEW i \in DOMAIN fragments
  PROVE  /\ Carries(Packet(i), i) /\ Len(Packet(i)) = TotalLength(i)
         /\ Carries(Padded(Packet(i)), i)
<1> DEFINE head == Filler(header_len)
           z    == fragments[i].size
           run  == Run(fragments[i].start, z)
           p    == head \o run
           pad  == IF Len(p) < 46 THEN 46 - Len(p) ELSE 0
           tail == Filler(pad)
           q    == p \o tail
           h    == header_len
<1>1. /\ h \in Nat /\ z \in Nat /\ fragments[i].start \in Nat
      /\ head \in Seq(Nat) /\ Len(head) = h
      /\ run \in Seq(Nat) /\ Len(run) = z /\ \A n \in 1..z : run[n] = fragments[i].start + n
  <2>1. h \in Nat /\ z \in Nat /\ fragments[i].start \in Nat
    BY DEF CutsAre
  <2>2. head \in Seq(Nat) /\ Len(head) = h
    BY <2>1, FillerIs
  <2> DEFINE from == fragments[i].start
  <2> HIDE DEF z, from
  <2>3. /\ Run(from, z) \in Seq(Nat) /\ Len(Run(from, z)) = z
        /\ \A n \in 1..z : Run(from, z)[n] = from + n
    BY <2>1, RunFacts DEF from
  <2> QED BY <2>1, <2>2, <2>3 DEF from
<1>2. Packet(i) = p
  BY Zenon DEF Packet, Run
<1> HIDE DEF head, run, h, z
<1>3. /\ p \in Seq(Nat) /\ Len(p) = h + z
      /\ \A n \in 1..(h + z) : p[n] = IF n <= h THEN head[n] ELSE run[n - h]
  BY <1>1, ConcatProperties
<1> HIDE DEF p
<1>4. ASSUME NEW n \in 1..z PROVE p[h + n] = fragments[i].start + n
  <2>1. h + n \in 1..(h + z) /\ ~(h + n <= h) /\ (h + n) - h = n
    BY <1>1
  <2> QED BY <1>1, <1>3, <2>1
<1>5. pad \in Nat
  BY <1>1, <1>3
<1> HIDE DEF pad
<1>6. tail \in Seq(Nat) /\ Len(tail) = pad
  BY <1>5, FillerIs
<1> HIDE DEF tail
<1>7. /\ q \in Seq(Nat) /\ Len(q) = (h + z) + pad
      /\ \A n \in 1..((h + z) + pad) : q[n] = IF n <= h + z THEN p[n] ELSE tail[n - (h + z)]
  <2>1. /\ q \in Seq(Nat) /\ Len(q) = Len(p) + Len(tail)
        /\ \A n \in 1..(Len(p) + Len(tail)) : q[n] = IF n <= Len(p) THEN p[n] ELSE tail[n - Len(p)]
    BY <1>3, <1>6, ConcatProperties
  <2> HIDE DEF q
  <2> QED BY <1>3, <1>6, <2>1
<1>8. Padded(Packet(i)) = q
  BY <1>2, Zenon DEF Padded, q, tail, pad
<1> HIDE DEF q
<1>9. ASSUME NEW n \in 1..z PROVE q[h + n] = fragments[i].start + n
  <2>1. h + n \in 1..((h + z) + pad) /\ h + n <= h + z
    BY <1>1, <1>5
  <2> QED BY <1>4, <1>7, <2>1
<1>10. h + z \in Nat /\ h + z <= (h + z) + pad /\ (h + z) + pad \in Nat
  BY <1>1, <1>5
<1>11. Carries(p, i) /\ Carries(q, i) /\ Len(p) = TotalLength(i)
  BY <1>3, <1>4, <1>7, <1>9, <1>10 DEF Carries, TotalLength, h, z
<1> QED BY <1>2, <1>8, <1>11

\* What is captured of a frame when the capture keeps snap bytes.
Captured(tagged, p, snap) ==
  SubSeq(BuildEthernet(tagged, p), 1, Min({snap, Len(BuildEthernet(tagged, p))}))

\* The Ethernet header is found when it is there, and what was captured behind it is the
\* beginning of the packet.
LEMMA EthernetRead ==
  ASSUME NEW tagged \in BOOLEAN, NEW p \in Seq(Nat), NEW snap \in Nat
  PROVE  LET e     == EthernetHeader(tagged)
             ether == ParseEthernet(Captured(tagged, p, snap), tagged)
         IN  /\ snap < e => ether.ethertype # "IPv4"
             /\ snap >= e =>
                  /\ ether.ethertype = "IPv4" /\ ether.payload \in Seq(Nat)
                  /\ Len(ether.payload) = IF snap - e < Len(p) THEN snap - e ELSE Len(p)
                  /\ \A j \in 1..Len(ether.payload) : ether.payload[j] = p[j]
<1> DEFINE e     == EthernetHeader(tagged)
           head  == Filler(e)
           frame == head \o p
           n     == Len(p)
           m     == Min({snap, Len(frame)})
           bytes == SubSeq(frame, 1, m)
           rest  == SubSeq(bytes, e + 1, m)
           ether == ParseEthernet(Captured(tagged, p, snap), tagged)
<1>1. e \in Nat /\ n \in Nat
  BY DEF EthernetHeader
<1>2. head \in Seq(Nat) /\ Len(head) = e
  BY <1>1, FillerIs
<1>3. Captured(tagged, p, snap) = bytes
  BY Zenon DEF Captured, BuildEthernet
<1> HIDE DEF e, head, n
<1>4. /\ frame \in Seq(Nat) /\ Len(frame) = e + n
      /\ \A j \in 1..(e + n) : frame[j] = IF j <= e THEN head[j] ELSE p[j - e]
  BY <1>1, <1>2, ConcatProperties DEF n
<1>5. m = (IF snap < e + n THEN snap ELSE e + n) /\ m \in Nat /\ m <= e + n
  <2>1. e + n \in Nat
    BY <1>1
  <2> QED BY <1>1, <1>4, <2>1, MinOfTwo
<1> HIDE DEF frame, m
<1>6. /\ bytes \in Seq(Nat) /\ Len(bytes) = m
      /\ \A j \in 1..m : bytes[j] = frame[j]
  <2>1. \A j \in 1..m : frame[j] \in Nat
    <3>1. \A j \in 1..m : j \in 1..Len(frame)
      BY <1>1, <1>4, <1>5
    <3> QED BY <1>4, <3>1
  <2>2. /\ bytes \in Seq(Nat) /\ Len(bytes) = IF 1 <= m THEN m - 1 + 1 ELSE 0
        /\ \A j \in 1..(m - 1 + 1) : bytes[j] = frame[1 + j - 1]
    BY <1>5, <2>1, SubSeqProperties
  <2> HIDE DEF bytes
  <2>3. Len(bytes) = m /\ m - 1 + 1 = m /\ \A j \in 1..m : 1 + j - 1 = j
    BY <1>5, <2>2
  <2>4. ASSUME NEW j \in 1..m PROVE bytes[j] = frame[j]
    <3>1. bytes[j] = frame[1 + j - 1] /\ 1 + j - 1 = j
      BY <2>2, <2>3
    <3> QED BY <3>1
  <2> QED BY <2>2, <2>3, <2>4
<1> HIDE DEF bytes
<1>7. ether = IF m < e THEN [ethertype |-> "none", payload |-> <<>>, error |-> TRUE]
              ELSE [ethertype |-> "IPv4", payload |-> rest, error |-> FALSE]
  BY <1>3, <1>6 DEF ParseEthernet, e
<1>8. m < e <=> snap < e
  BY <1>1, <1>5
<1>9. ASSUME snap >= e
      PROVE  /\ rest \in Seq(Nat)
             /\ Len(rest) = IF snap - e < n THEN snap - e ELSE n
             /\ \A j \in 1..Len(rest) : rest[j] = p[j]
  <2> DEFINE lo == e + 1
             k  == m - e
  <2>1. /\ lo \in Int /\ m \in Int /\ k \in Nat /\ m - lo + 1 = k /\ (lo <= m <=> k # 0)
        /\ lo >= 1 /\ k = IF snap - e < n THEN snap - e ELSE n
    BY <1>1, <1>5, <1>8, <1>9
  <2>2. \A j \in lo..m : bytes[j] \in Nat
    <3>1. \A j \in lo..m : j \in 1..Len(bytes)
      BY <1>6, <2>1
    <3> QED BY <1>6, <3>1
  <2> HIDE DEF lo, k
  <2>3. /\ SubSeq(bytes, lo, m) \in Seq(Nat)
        /\ Len(SubSeq(bytes, lo, m)) = IF lo <= m THEN m - lo + 1 ELSE 0
        /\ \A j \in 1..(m - lo + 1) : SubSeq(bytes, lo, m)[j] = bytes[lo + j - 1]
    BY <2>1, <2>2, SubSeqProperties
  <2>4. rest = SubSeq(bytes, lo, m)
    BY DEF lo
  <2> HIDE DEF rest
  <2>5. rest \in Seq(Nat) /\ Len(rest) = k
    BY <2>1, <2>3, <2>4
  <2>6. ASSUME NEW j \in 1..k PROVE rest[j] = p[j]
    <3>1. /\ lo + j - 1 = e + j /\ e + j \in 1..m /\ e + j \in 1..(e + n) /\ ~(e + j <= e)
          /\ (e + j) - e = j
      BY <1>1, <1>5, <2>1 DEF lo, k
    <3>2. rest[j] = bytes[e + j]
      BY <2>1, <2>3, <2>4, <3>1
    <3>3. bytes[e + j] = frame[e + j] /\ frame[e + j] = p[j]
      BY <1>4, <1>6, <3>1
    <3> QED BY <3>2, <3>3
  <2> QED BY <2>1, <2>5, <2>6
<1> HIDE DEF rest
<1>10. /\ snap < e => ether.ethertype # "IPv4"
       /\ snap >= e => ether.ethertype = "IPv4" /\ ether.payload = rest
  <2>1. snap < e => ether.ethertype = "none"
    BY <1>7, <1>8
  <2>2. snap >= e => ~(m < e)
    BY <1>1, <1>8
  <2>3. snap >= e => ether.ethertype = "IPv4" /\ ether.payload = rest
    BY <1>7, <2>2
  <2> QED BY <2>1, <2>3
<1> HIDE DEF ether
<1>11. /\ snap < e => ether.ethertype # "IPv4"
       /\ snap >= e =>
            /\ ether.ethertype = "IPv4" /\ ether.payload \in Seq(Nat)
            /\ Len(ether.payload) = IF snap - e < n THEN snap - e ELSE n
            /\ \A j \in 1..Len(ether.payload) : ether.payload[j] = p[j]
  BY <1>9, <1>10
<1> QED BY <1>11 DEF ether, e, n

\* What an IP header and what was captured behind it say: the fragment, as far as it is there.
LEMMA IPv4Read ==
  ASSUME CutsAre, NEW i \in DOMAIN fragments, NEW s \in Seq(Nat), NEW total \in Nat,
         \A n \in 1..fragments[i].size :
           header_len + n <= Len(s) => s[header_len + n] = fragments[i].start + n,
         total = TotalLength(i) \/ (total = 0 /\ Len(s) <= TotalLength(i))
  PROVE  LET ip == ParseIPv4(s, HeaderOf(i, total))
         IN  /\ Len(s) < header_len => ip.header = EmptyHeader /\ ip.error = TRUE
             /\ Len(s) >= header_len =>
                  /\ ip.header = HeaderOf(i, total)
                  /\ \E k \in 0..fragments[i].size :
                       /\ ip.payload = Run(fragments[i].start, k)
                       /\ k = fragments[i].size <=> Len(s) >= TotalLength(i)
                  /\ Len(s) >= TotalLength(i) => ip.error = FALSE
<1> DEFINE z    == fragments[i].size
           from == fragments[i].start
           h    == header_len
           n    == Len(s)
           hd   == HeaderOf(i, total)
           end  == IF hd.total_length > 0 THEN Min({hd.total_length, n}) ELSE n
           body == SubSeq(s, h + 1, end)
           ip   == ParseIPv4(s, hd)
<1>1. z \in Nat /\ from \in Nat /\ h \in Nat /\ h >= 20 /\ n \in Nat
  <2>1. i \in 1..Len(fragments) /\ header_len \in Nat /\ header_len >= 20
    BY Zenon DEF CutsAre
  <2>2. \A j \in 1..Len(fragments) : fragments[j].start \in Nat /\ fragments[j].size \in Nat
    BY Zenon DEF CutsAre
  <2>3. Len(s) \in Nat
    OBVIOUS
  <2> QED BY <2>1, <2>2, <2>3, Zenon
<1>2. hd.ihl_bytes = h /\ hd.total_length = total
  BY DEF HeaderOf, Header
<1>3. TotalLength(i) = h + z
  BY DEF TotalLength
<1>4. ip = IF n < 20 \/ h < 20 \/ n < h
           THEN [header |-> EmptyHeader, payload |-> <<>>, error |-> TRUE]
           ELSE [header |-> hd, payload |-> body, error |-> n < total]
  BY <1>2, Zenon DEF ParseIPv4
<1>5. \A j \in 1..z : h + j <= n => s[h + j] = from + j
  OBVIOUS
<1>6. total = h + z \/ (total = 0 /\ n <= h + z)
  BY <1>3
<1> HIDE DEF z, from, h, n, hd, ip
<1>7. end = IF n < h + z THEN n ELSE h + z
  <2>1. CASE total = h + z
    <3>1. total > 0 /\ total \in Nat
      BY <1>1, <2>1
    <3>2. Min({total, n}) = IF total < n THEN total ELSE n
      BY <1>1, <3>1, MinOfTwo
    <3>3. end = Min({total, n})
      BY <1>2, <3>1
    <3> QED BY <1>1, <2>1, <3>2, <3>3
  <2>2. CASE total = 0 /\ n <= h + z
    <3>1. end = n
      BY <1>2, <2>2
    <3> QED BY <1>1, <2>2, <3>1
  <2> QED BY <1>6, <2>1, <2>2
<1> HIDE DEF end
<1>8. ASSUME n < h PROVE ip.header = EmptyHeader /\ ip.error = TRUE
  BY <1>4, <1>8
<1>9. ASSUME n >= h
      PROVE  /\ ip.header = hd
             /\ \E k \in 0..z : /\ ip.payload = Run(from, k)
                                /\ k = z <=> n >= h + z
             /\ n >= h + z => ip.error = FALSE
  <2>1. ip.header = hd /\ ip.payload = body /\ (ip.error <=> n < total) /\ ip.error \in BOOLEAN
    <3>1. ip = [header |-> hd, payload |-> body, error |-> n < total]
      BY <1>1, <1>4, <1>9
    <3>2. (n < total) \in BOOLEAN
      BY SMT
    <3> QED BY <3>1, <3>2, Zenon
  <2> DEFINE lo == h + 1
             k  == end - h
  <2>2. /\ lo \in Int /\ end \in Int /\ k \in 0..z /\ end - lo + 1 = k /\ (lo <= end <=> k # 0)
        /\ lo >= 1 /\ end <= n
    BY <1>1, <1>7, <1>9
  <2>3. \A j \in lo..end : s[j] \in Nat
    <3>1. \A j \in lo..end : j \in 1..Len(s)
      BY <1>1, <2>2 DEF n
    <3> QED BY <3>1
  <2>4. k = z <=> n >= h + z
    BY <1>1, <1>7
  <2> HIDE DEF lo, k
  <2>5. /\ SubSeq(s, lo, end) \in Seq(Nat)
        /\ Len(SubSeq(s, lo, end)) = IF lo <= end THEN end - lo + 1 ELSE 0
        /\ \A j \in 1..(end - lo + 1) : SubSeq(s, lo, end)[j] = s[lo + j - 1]
    BY <2>2, <2>3, SubSeqProperties
  <2>6. body = SubSeq(s, lo, end)
    BY DEF lo
  <2> HIDE DEF body
  <2>7. body \in Seq(Nat) /\ Len(body) = k
    BY <2>2, <2>5, <2>6
  <2>8. ASSUME NEW j \in 1..k PROVE body[j] = from + j
    <3>1. lo + j - 1 = h + j /\ j \in 1..z /\ h + j <= n
      BY <1>1, <2>2 DEF lo, k
    <3>2. body[j] = s[h + j]
      BY <2>2, <2>5, <2>6, <3>1
    <3> QED BY <1>5, <3>1, <3>2
  <2>9. body = Run(from, k)
    <3>1. body = Run(from, Len(body))
      BY <1>1, <2>7, <2>8, RunIs
    <3> QED BY <2>7, <3>1
  <2>10. n >= h + z => ip.error = FALSE
    <3>1. n >= h + z => ~(n < total)
      BY <1>1, <1>6
    <3> QED BY <2>1, <3>1
  <2>11. \E kk \in 0..z : ip.payload = Run(from, kk) /\ (kk = z <=> n >= h + z)
    BY <2>1, <2>2, <2>4, <2>9
  <2> QED BY <2>1, <2>10, <2>11
<1> HIDE DEF body
<1>10. /\ n < h => ip.header = EmptyHeader /\ ip.error = TRUE
       /\ n >= h =>
            /\ ip.header = hd
            /\ \E k \in 0..z : /\ ip.payload = Run(from, k)
                               /\ k = z <=> n >= h + z
            /\ n >= h + z => ip.error = FALSE
  BY <1>8, <1>9
<1> QED BY <1>3, <1>10 DEF ip, hd, n, h, z, from

\* What _parse_layer2 and _parse_layer3 read of a capture of fragment i: nothing when it ended
\* in the Ethernet header, an error when it ended in the IP header, and otherwise the fragment
\* as far as it was captured.
Read(i, header, ether, ip, intact) ==
  \/ ~intact /\ ether.ethertype # "IPv4"
  \/ ~intact /\ ether.ethertype = "IPv4" /\ ip.header = EmptyHeader /\ ip.error = TRUE
  \/ /\ ether.ethertype = "IPv4" /\ ip.header = header
     /\ \E k \in 0..fragments[i].size :
          /\ ip.payload = Run(fragments[i].start, k)
          /\ k = fragments[i].size <=> intact
     /\ intact => ip.error = FALSE

\* Every capture is read in one of these ways.
LEMMA FrameRead ==
  ASSUME CutsAre, NEW i \in DOMAIN fragments, NEW tagged \in BOOLEAN, NEW padded \in BOOLEAN,
         NEW offloaded \in BOOLEAN, NEW snap \in Nat, offloaded => ~padded,
         NEW p, p = IF padded THEN Padded(Packet(i)) ELSE Packet(i),
         NEW header, header = HeaderOf(i, IF offloaded THEN 0 ELSE TotalLength(i)),
         NEW ether, ether = ParseEthernet(Captured(tagged, p, snap), tagged)
  PROVE  Read(i, header, ether, ParseIPv4(ether.payload, header),
              snap >= EthernetHeader(tagged) + TotalLength(i))
<1> DEFINE e  == EthernetHeader(tagged)
           tl == TotalLength(i)
           total == IF offloaded THEN 0 ELSE tl
           z  == fragments[i].size
           ip == ParseIPv4(ether.payload, header)
<1>1. e \in Nat /\ z \in Nat /\ header_len \in Nat /\ tl = header_len + z /\ tl \in Nat
  <2>1. z \in Nat /\ header_len \in Nat
    BY DEF CutsAre, Cuts
  <2>2. e \in Nat
    BY DEF EthernetHeader
  <2>3. tl = header_len + z
    BY DEF TotalLength
  <2> QED BY <2>1, <2>2, <2>3
<1>2. Carries(p, i) /\ (offloaded => Len(p) = tl)
  BY PacketCarries
<1>3. p \in Seq(Nat) /\ Len(p) \in Nat /\ tl <= Len(p)
      /\ \A n \in 1..z : p[header_len + n] = fragments[i].start + n
  BY <1>1, <1>2 DEF Carries
<1>4. /\ snap < e => ether.ethertype # "IPv4"
      /\ snap >= e =>
           /\ ether.ethertype = "IPv4" /\ ether.payload \in Seq(Nat)
           /\ Len(ether.payload) = IF snap - e < Len(p) THEN snap - e ELSE Len(p)
           /\ \A j \in 1..Len(ether.payload) : ether.payload[j] = p[j]
  <2>1. LET n  == EthernetHeader(tagged)
            r  == ParseEthernet(Captured(tagged, p, snap), tagged)
        IN  /\ snap < n => r.ethertype # "IPv4"
            /\ snap >= n =>
                 /\ r.ethertype = "IPv4" /\ r.payload \in Seq(Nat)
                 /\ Len(r.payload) = IF snap - n < Len(p) THEN snap - n ELSE Len(p)
                 /\ \A j \in 1..Len(r.payload) : r.payload[j] = p[j]
    BY <1>3, EthernetRead, Zenon
  <2> QED BY <2>1, Zenon
<1>5. header = HeaderOf(i, total) /\ total \in Nat
  BY <1>1
<1> DEFINE intact == snap >= e + tl
           s == ether.payload
<1>6. CASE snap < e
  <2>1. ether.ethertype # "IPv4" /\ ~intact
    BY <1>1, <1>4, <1>6
  <2> QED BY <2>1 DEF Read
<1>7. CASE snap >= e
  <2>1. /\ ether.ethertype = "IPv4" /\ s \in Seq(Nat) /\ Len(s) \in Nat
        /\ Len(s) = IF snap - e < Len(p) THEN snap - e ELSE Len(p)
        /\ \A j \in 1..Len(s) : s[j] = p[j]
    BY <1>4, <1>7
  <2> HIDE DEF s, e, tl, z
  <2>2. Len(s) >= tl <=> intact
    BY <1>1, <1>3, <1>7, <2>1
  <2>3. ASSUME NEW n \in 1..z, header_len + n <= Len(s)
        PROVE  s[header_len + n] = fragments[i].start + n
    <3>1. header_len + n \in 1..Len(s)
      BY <1>1, <2>1, <2>3
    <3> QED BY <1>3, <2>1, <3>1
  <2>4. total = tl \/ (total = 0 /\ Len(s) <= tl)
    <3>1. offloaded => Len(s) <= tl
      BY <1>1, <1>2, <1>3, <1>7, <2>1
    <3> QED BY <3>1
  <2> HIDE DEF total, ip, intact
  <2>5. /\ Len(s) < header_len => ip.header = EmptyHeader /\ ip.error = TRUE
        /\ Len(s) >= header_len =>
             /\ ip.header = header
             /\ \E k \in 0..z : /\ ip.payload = Run(fragments[i].start, k)
                                /\ k = z <=> Len(s) >= tl
             /\ Len(s) >= tl => ip.error = FALSE
    <3>1. \A n \in 1..fragments[i].size :
            header_len + n <= Len(s) => s[header_len + n] = fragments[i].start + n
      BY <2>3 DEF z
    <3>2. total = TotalLength(i) \/ (total = 0 /\ Len(s) <= TotalLength(i))
      BY <2>4 DEF tl
    <3>3. ip = ParseIPv4(s, HeaderOf(i, total))
      BY <1>5 DEF ip, s
    <3>4. LET r == ParseIPv4(s, HeaderOf(i, total))
          IN  /\ Len(s) < header_len => r.header = EmptyHeader /\ r.error = TRUE
              /\ Len(s) >= header_len =>
                   /\ r.header = HeaderOf(i, total)
                   /\ \E k \in 0..fragments[i].size :
                        /\ r.payload = Run(fragments[i].start, k)
                        /\ k = fragments[i].size <=> Len(s) >= TotalLength(i)
                   /\ Len(s) >= TotalLength(i) => r.error = FALSE
      BY <1>5, <2>1, <3>1, <3>2, IPv4Read, Zenon
    <3> QED BY <1>5, <3>3, <3>4, Zenon DEF z, tl
  <2>6. CASE Len(s) < header_len
    <3>1. ~(Len(s) >= tl)
      BY <1>1, <2>1, <2>6
    <3>2. ~intact /\ ether.ethertype = "IPv4" /\ ip.header = EmptyHeader /\ ip.error = TRUE
      BY <2>1, <2>2, <2>5, <2>6, <3>1
    <3> QED BY <3>2 DEF Read, intact, ip, e, tl
  <2>7. CASE Len(s) >= header_len
    <3>1. /\ ether.ethertype = "IPv4" /\ ip.header = header
          /\ \E k \in 0..z : /\ ip.payload = Run(fragments[i].start, k)
                             /\ k = z <=> intact
          /\ intact => ip.error = FALSE
      BY <2>1, <2>2, <2>5, <2>7
    <3> QED BY <3>1 DEF Read, intact, ip, e, tl, z
  <2> QED BY <1>1, <2>1, <2>6, <2>7
<1> QED BY <1>1, <1>6, <1>7

\* What the invariant says of the analyzer.  LastUnharmed: no capture ended in the last fragment.
LastUnharmed == Len(fragments) \notin damaged

Arrived ==
  /\ whole \in SUBSET DOMAIN fragments /\ damaged \in SUBSET DOMAIN fragments
  /\ ~done => whole = {} /\ damaged = {}
  /\ captures \in Nat

\* The buffer holds pieces of the payload and is not complete.
Held ==
  /\ buffer.complete = FALSE
  /\ Canonical(Runs(length), buffer.fragments)
  /\ LastUnharmed => Canonical(MarkedRuns(length), buffer.fragments)
  /\ ~IsComplete(buffer.fragments)

\* The fragments captured to their end are in the buffer, until the data was reported.
Kept ==
  /\ longest \in Int /\ longest <= length - transport.header_len
  /\ LastUnharmed /\ transport.protocol # "other" /\ ~Malformed =>
       \/ longest = length - transport.header_len
       \/ /\ done /\ ~IsCut => whole = {}
          /\ \A i \in whole, p \in Nat : InCut(i, p) => Holds(buffer.fragments, p)

Reported == PayloadFaithful /\ DamageShows /\ WholeIsClean

WireInv == Tiling /\ Sent /\ Arrived /\ Held /\ Kept /\ Reported

-----------------------------------------------------------------------------
(* What a capture adds to the buffer.                                      *)

\* The first k bytes of fragment i as add_fragment gets them.
Piece(i, k) ==
  Fragment(fragments[i].start, Run(fragments[i].start, k), fragments[i].is_last)

\* Whether that fragment says rightly where the payload ends.
Fits(i, k) == k = fragments[i].size \/ i # Len(fragments)

\* It is a fragment of the payload.
LEMMA PieceIsRun ==
  ASSUME CutsAre, IsCut, NEW i \in DOMAIN fragments, NEW k \in 0..fragments[i].size
  PROVE  /\ Piece(i, k) \in Runs(length)
         /\ Fits(i, k) => Piece(i, k) \in MarkedRuns(length)
         /\ \A p \in Nat : k = fragments[i].size /\ InCut(i, p) => InFrag(Piece(i, k), p)
<1> DEFINE from == fragments[i].start
           z    == fragments[i].size
           f    == Piece(i, k)
<1>1. /\ from \in Nat /\ z \in Nat /\ fragments[i].is_last \in BOOLEAN /\ length \in Nat
      /\ from + z <= length
      /\ fragments[i].is_last <=> from + z = length
      /\ i # Len(fragments) => from + z < length
  BY DEF CutsAre
<1>2. k \in Nat /\ k <= z
  BY <1>1
<1>3. Run(from, k) \in Seq(Nat) /\ Len(Run(from, k)) = k
  BY <1>1, <1>2, RunFacts
<1>4. f.offset = from /\ f.data = Run(from, k) /\ f.is_last = fragments[i].is_last
  BY DEF Piece, Fragment
<1>5. f \in Frags
  BY <1>1, <1>3 DEF Piece, Fragment, Frags
<1>6. FragmentEnd(f) = from + k
  BY <1>3, <1>4 DEF FragmentEnd
<1>7. f.data = Run(f.offset, Len(f.data))
  <2>1. Len(f.data) = k
    BY <1>3, <1>4
  <2> QED BY <1>4, <2>1
<1> HIDE DEF f, from, z
<1>8. f \in Runs(length)
  <2>1. FragmentEnd(f) <= length
    BY <1>1, <1>2, <1>6
  <2> QED BY <1>5, <1>7, <2>1 DEF Runs
<1>9. Fits(i, k) => f \in MarkedRuns(length)
  <2>1. Fits(i, k) => (fragments[i].is_last <=> FragmentEnd(f) = length)
    BY <1>1, <1>2, <1>6 DEF Fits, z
  <2>2. Fits(i, k) => (f.is_last <=> FragmentEnd(f) = length)
    BY <1>4, <2>1
  <2> QED BY <1>8, <2>2 DEF MarkedRuns
<1>10. \A p \in Nat : k = z /\ InCut(i, p) => InFrag(f, p)
  BY <1>1, <1>4, <1>6 DEF InCut, InFrag, from, z
<1> QED BY <1>8, <1>9, <1>10 DEF f, z

\* The buffer keeps pieces of the payload, and loses none.
LEMMA PieceAdded ==
  ASSUME CutsAre, IsCut, Held, NEW i \in DOMAIN fragments, NEW k \in 0..fragments[i].size
  PROVE  LET after == MergeFragments(SortIn(buffer.fragments, Piece(i, k)))
         IN  /\ Canonical(Runs(length), after)
             /\ LastUnharmed /\ Fits(i, k) => Canonical(MarkedRuns(length), after)
             /\ \A p \in Nat : Holds(buffer.fragments, p) => Holds(after, p)
             /\ k = fragments[i].size => \A p \in Nat : InCut(i, p) => Holds(after, p)
<1> DEFINE list  == buffer.fragments
           frag  == Piece(i, k)
           after == MergeFragments(SortIn(list, frag))
<1>1. length \in Nat
  BY DEF CutsAre
<1>2. Closed(Runs(length)) /\ Closed(MarkedRuns(length))
  BY <1>1, RunsClosed
<1>3. /\ Canonical(Runs(length), list)
      /\ LastUnharmed => Canonical(MarkedRuns(length), list)
  BY DEF Held
<1>4. /\ frag \in Runs(length)
      /\ Fits(i, k) => frag \in MarkedRuns(length)
      /\ \A p \in Nat : k = fragments[i].size /\ InCut(i, p) => InFrag(frag, p)
  BY PieceIsRun
<1> HIDE DEF list, frag
<1>5. Canonical(Runs(length), after)
      /\ \A p \in Nat : Holds(list, p) \/ InFrag(frag, p) => Holds(after, p)
  BY <1>2, <1>3, <1>4, AddedCanonical
<1>6. ASSUME LastUnharmed, Fits(i, k) PROVE Canonical(MarkedRuns(length), after)
  BY <1>2, <1>3, <1>4, <1>6, AddedCanonical
<1> QED BY <1>4, <1>5, <1>6 DEF list, frag

-----------------------------------------------------------------------------
(* What analyze does with a capture of fragment i.                         *)

\* No IP packet could be read.
Unread(intact, r, b) ==
  /\ ~intact /\ b = buffer
  /\ r.errors # {} /\ r.payload = <<>> /\ r.layer \in {"link", "network"}

\* A packet that was not cut is reported at once.
Single(intact, r, b) ==
  /\ ~IsCut /\ b = buffer
  /\ \E errors, k : /\ ReportOK(r, errors, k)
                    /\ intact => errors = {} /\ k = length

\* A fragment that does not complete the datagram is kept.
Waiting(i, intact, r, b) ==
  /\ IsCut
  /\ r.layer = "fragment" /\ r.payload = <<>> /\ r.checksum = "unchecked"
  /\ intact => r.errors = {}
  /\ b.complete = FALSE /\ ~IsComplete(b.fragments)
  /\ \E k \in 0..fragments[i].size :
       /\ k = fragments[i].size <=> intact
       /\ b.fragments = MergeFragments(SortIn(buffer.fragments, Piece(i, k)))

\* One that completes it reports it, whole when every last fragment was captured to its end.
Finished(i, intact, r, b) ==
  /\ IsCut /\ b = NewBuffer(0)
  /\ \E errors, k : /\ ReportOK(r, errors, k)
                    /\ intact => errors = {}
                    /\ LastUnharmed /\ (intact \/ i # Len(fragments)) => k = length

Outcome(i, intact, r, b) ==
  Unread(intact, r, b) \/ Single(intact, r, b)
    \/ Waiting(i, intact, r, b) \/ Finished(i, intact, r, b)

\* The header of fragment i tells whether the packet was cut, and where its data belongs.
LEMMA HeaderSays ==
  ASSUME CutsAre, Sent, NEW i \in DOMAIN fragments, NEW total
  PROVE  LET h == HeaderOf(i, total)
         IN  /\ IsFragmented(h) <=> IsCut
             /\ 8 * h.fragment_offset = fragments[i].start
             /\ (~h.mf_flag) = fragments[i].is_last
             /\ h.protocol # "none" /\ h.protocol = transport.protocol
<1>1. /\ fragments[i].block \in Nat /\ fragments[i].is_last \in BOOLEAN
      /\ fragments[i].start = 8 * fragments[i].block
      /\ i \in 1..Len(fragments)
      /\ IsCut => fragments[i].block > 0 \/ fragments[i].is_last = FALSE
      /\ ~IsCut => /\ Len(fragments) = 1 /\ fragments[1].block = 0
                   /\ fragments[1].is_last = TRUE
  BY DEF CutsAre
<1>2. ~IsCut => fragments[i].block = 0 /\ fragments[i].is_last = TRUE
  <2>1. ~IsCut => i = 1
    BY <1>1
  <2> QED BY <1>1, <2>1
<1>3. transport.protocol # "none"
  BY WireAssumption DEF Sent
<1> DEFINE h == HeaderOf(i, total)
<1>4. /\ h.fragment_offset = fragments[i].block /\ h.protocol = transport.protocol
  BY DEF HeaderOf, Header
<1>5. h.mf_flag = ~fragments[i].is_last
  BY Zenon DEF HeaderOf, Header
<1>6. (~h.mf_flag) = fragments[i].is_last
  <2>1. CASE fragments[i].is_last = TRUE
    BY <1>5, <2>1, Zenon
  <2>2. CASE fragments[i].is_last = FALSE
    BY <1>5, <2>2, Zenon
  <2> QED BY <1>1, <2>1, <2>2
<1> HIDE DEF h
<1>7. IsFragmented(h) <=> IsCut
  <2>1. h.fragment_offset > 0 <=> fragments[i].block > 0
    BY <1>4
  <2>2. h.mf_flag <=> fragments[i].is_last = FALSE
    BY <1>1, <1>5, <1>6, Zenon
  <2>3. IsCut => IsFragmented(h)
    BY <1>1, <2>1, <2>2 DEF IsFragmented
  <2>4. ~IsCut => ~IsFragmented(h)
    BY <1>2, <2>1, <2>2 DEF IsFragmented
  <2> QED BY <2>3, <2>4
<1> QED BY <1>1, <1>3, <1>4, <1>6, <1>7 DEF h

\* A fragment of which the IP header was there is kept, or completes the datagram.
LEMMA FragmentedIs ==
  ASSUME CutsAre, Sent, Held, IsCut, NEW i \in DOMAIN fragments, NEW intact \in BOOLEAN,
         NEW total, NEW ip, ip.header = HeaderOf(i, total),
         NEW k \in 0..fragments[i].size, ip.payload = Run(fragments[i].start, k),
         k = fragments[i].size <=> intact,
         NEW errors, intact => errors = {}, Fragmented(ip, errors)
  PROVE  Waiting(i, intact, parsed', buffer') \/ Finished(i, intact, parsed', buffer')
<1> DEFINE h     == ip.header
           frag  == Fragment(8 * h.fragment_offset, ip.payload, ~h.mf_flag)
           list  == MergeFragments(SortIn(buffer.fragments, Piece(i, k)))
           added == AddFragment(buffer, frag, 0)
<1>1. frag = Piece(i, k)
  <2>1. 8 * h.fragment_offset = fragments[i].start /\ (~h.mf_flag) = fragments[i].is_last
    BY HeaderSays
  <2> HIDE DEF h
  <2> QED BY <2>1, Zenon DEF Piece
<1>2. added.fragments = list
  <2>1. added.fragments = MergeFragments(SortIn(buffer.fragments, frag))
    BY DEF AddFragment
  <2> QED BY <1>1, <2>1, Zenon
<1>3. added.complete <=> IsComplete(list)
  <2>1. added.complete = (buffer.complete \/ IsComplete(MergeFragments(SortIn(buffer.fragments, frag))))
    BY Zenon DEF AddFragment
  <2>2. buffer.complete = FALSE
    BY DEF Held
  <2> QED BY <1>1, <2>1, <2>2, Zenon
<1>4. /\ added.complete => /\ parsed' = ParseLayer4(errors, AssembleData(added.fragments))
                           /\ buffer' = NewBuffer(0)
      /\ ~added.complete => /\ parsed' = Report(errors, "fragment", NoSegment)
                            /\ buffer' = added
  BY Zenon DEF Fragmented
<1>5. /\ Canonical(Runs(length), list)
      /\ LastUnharmed /\ Fits(i, k) => Canonical(MarkedRuns(length), list)
  BY PieceAdded
<1>6. length \in Nat
  BY DEF CutsAre
<1> HIDE DEF added, list
<1>7. CASE IsComplete(list)
  <2>1. PICK n \in 0..length : AssembleData(list) = Run(0, n)
    BY <1>5, <1>6, <1>7, Assembled
  <2> DEFINE all == LastUnharmed /\ (intact \/ i # Len(fragments))
             m   == IF all THEN length ELSE n
             data == AssembleData(list)
  <2>2. m \in 0..length
    BY <1>6
  <2>3. data = Run(0, m)
    <3>1. ASSUME all PROVE data = Run(0, length)
      <4>1. Fits(i, k)
        BY <3>1 DEF Fits
      <4>2. Canonical(MarkedRuns(length), list)
        BY <1>5, <3>1, <4>1
      <4> QED BY <1>5, <1>6, <1>7, <4>2, Assembled
    <3> QED BY <2>1, <3>1, Zenon
  <2>4. all => m = length
    OBVIOUS
  <2> HIDE DEF m, all
  <2>5. parsed' = ParseLayer4(errors, data) /\ buffer' = NewBuffer(0)
    BY <1>2, <1>3, <1>4, <1>7, Zenon
  <2> HIDE DEF data
  <2>6. ReportOK(parsed', errors, m)
    <3>1. ReportOK(ParseLayer4(errors, data), errors, m)
      BY <1>6, <2>2, <2>3, Layer4Reports
    <3> QED BY <2>5, <3>1, Zenon
  <2>7. Finished(i, intact, parsed', buffer')
    BY <2>4, <2>5, <2>6, Zenon DEF Finished, all
  <2> QED BY <2>7
<1>8. CASE ~IsComplete(list)
  <2>1. parsed' = Report(errors, "fragment", NoSegment) /\ buffer' = added
    BY <1>3, <1>4, <1>8, Zenon
  <2>2. /\ parsed'.layer = "fragment" /\ parsed'.payload = <<>>
        /\ parsed'.checksum = "unchecked" /\ parsed'.errors = errors
    BY <2>1 DEF Report, NoSegment, Segment
  <2>3. buffer'.complete = FALSE
    <3>1. buffer'.complete = (buffer.complete \/ IsComplete(MergeFragments(SortIn(buffer.fragments, frag))))
      BY <2>1, Zenon DEF AddFragment, added
    <3>2. buffer.complete = FALSE
      BY DEF Held
    <3>3. ~IsComplete(MergeFragments(SortIn(buffer.fragments, frag)))
      BY <1>1, <1>8, Zenon DEF list
    <3> QED BY <3>1, <3>2, <3>3, Zenon
  <2>4. buffer'.fragments = list /\ ~IsComplete(buffer'.fragments)
    BY <1>2, <1>8, <2>1, Zenon
  <2>5. \E kk \in 0..fragments[i].size :
          /\ kk = fragments[i].size <=> intact
          /\ buffer'.fragments = MergeFragments(SortIn(buffer.fragments, Piece(i, kk)))
    BY <2>4, Zenon DEF list
  <2>6. Waiting(i, intact, parsed', buffer')
    BY <2>2, <2>3, <2>4, <2>5, Zenon DEF Waiting
  <2> QED BY <2>6
<1> QED BY <1>7, <1>8

\* Every call of analyze ends in one of these ways.
LEMMA Analyzed ==
  ASSUME CutsAre, Sent, Held, NEW i \in DOMAIN fragments, NEW intact \in BOOLEAN, NEW tagged,
         NEW bytes, NEW total, NEW header, header = HeaderOf(i, total),
         NEW ether, ether = ParseEthernet(bytes, tagged),
         NEW ip, ip = ParseIPv4(ether.payload, header),
         Read(i, header, ether, ip, intact), Analyze(bytes, tagged, header)
  PROVE  Outcome(i, intact, parsed', buffer')
<1> DEFINE errors == IF ip.error THEN {"network"} ELSE {}
<1>1. \/ ParseLayer2(ether)
      \/ ether.ethertype = "IPv4" /\ (Unfragmented(ip, errors) \/ Fragmented(ip, errors))
  BY Zenon DEF Analyze
<1>2. /\ IsFragmented(header) <=> IsCut
      /\ header.protocol # "none"
  BY HeaderSays
<1>3. \A e, s : /\ Report(e, s, NoSegment).errors = e /\ Report(e, s, NoSegment).layer = s
                /\ Report(e, s, NoSegment).payload = <<>>
  BY DEF Report, NoSegment, Segment
<1>4. CASE ParseLayer2(ether)
  <2>1. ~intact
    BY <1>4, Zenon DEF Read, ParseLayer2
  <2>2. parsed' = Report({"link"}, "link", NoSegment) /\ buffer' = buffer
    BY <1>4, Zenon DEF ParseLayer2
  <2>3. Unread(intact, parsed', buffer')
    BY <1>3, <2>1, <2>2 DEF Unread
  <2> QED BY <2>3 DEF Outcome
<1>5. CASE ether.ethertype = "IPv4" /\ ip.header = EmptyHeader /\ ip.error = TRUE /\ ~intact
  <2>1. ~IsFragmented(ip.header) /\ ip.header.protocol = "none"
    BY <1>5 DEF EmptyHeader, Header, IsFragmented
  <2>2. ~ParseLayer2(ether)
    BY <1>5 DEF ParseLayer2
  <2>3. errors = {"network"}
    BY <1>5, Zenon
  <2>4. Unfragmented(ip, errors)
    BY <1>1, <1>5, <2>1, <2>2, Zenon DEF Fragmented
  <2>5. parsed' = Report({"network"}, "network", NoSegment) /\ buffer' = buffer
    BY <2>1, <2>3, <2>4, Zenon DEF Unfragmented
  <2>6. /\ parsed'.errors = {"network"} /\ parsed'.layer = "network"
        /\ parsed'.payload = <<>>
    BY <1>3, <2>5
  <2>7. ~intact /\ buffer' = buffer
    BY <1>5, <2>5
  <2>8. Unread(intact, parsed', buffer')
    BY <2>6, <2>7 DEF Unread
  <2> QED BY <2>8 DEF Outcome
<1>6. CASE /\ ether.ethertype = "IPv4" /\ ip.header = header
           /\ \E k \in 0..fragments[i].size :
                /\ ip.payload = Run(fragments[i].start, k)
                /\ k = fragments[i].size <=> intact
           /\ intact => ip.error = FALSE
  <2>1. ~ParseLayer2(ether)
    BY <1>6 DEF ParseLayer2
  <2>2. intact => errors = {}
    BY <1>6, Zenon
  <2>3. PICK k \in 0..fragments[i].size :
               /\ ip.payload = Run(fragments[i].start, k)
               /\ k = fragments[i].size <=> intact
    BY <1>6
  <2> HIDE DEF errors
  <2>4. CASE IsCut
    <3>1. Fragmented(ip, errors)
      BY <1>1, <1>2, <1>6, <2>1, <2>4, Zenon DEF Unfragmented
    <3>2. Waiting(i, intact, parsed', buffer') \/ Finished(i, intact, parsed', buffer')
      <4>1. ip.header = HeaderOf(i, total)
        BY <1>6
      <4> QED BY <2>2, <2>3, <2>4, <3>1, <4>1, FragmentedIs
    <3> QED BY <3>2 DEF Outcome
  <2>5. CASE ~IsCut
    <3>1. Unfragmented(ip, errors)
      BY <1>1, <1>2, <1>6, <2>1, <2>5, Zenon DEF Fragmented
    <3>2. parsed' = ParseLayer4(errors, ip.payload) /\ buffer' = buffer
      BY <1>2, <1>6, <3>1, Zenon DEF Unfragmented
    <3>3. fragments[i].start = 0 /\ fragments[i].size = length /\ length \in Nat
      <4>1. i = 1
        BY <2>5 DEF CutsAre
      <4> QED BY <2>5, <4>1 DEF CutsAre
    <3>4. k \in 0..length /\ ip.payload = Run(0, k) /\ (intact => k = length)
      BY <2>3, <3>3
    <3>5. ReportOK(ParseLayer4(errors, ip.payload), errors, k)
      BY <3>3, <3>4, Layer4Reports
    <3>6. ReportOK(parsed', errors, k) /\ (intact => errors = {} /\ k = length)
      BY <2>2, <3>2, <3>4, <3>5, Zenon
    <3>7. Single(intact, parsed', buffer')
      BY <2>5, <3>2, <3>6, Zenon DEF Single
    <3> QED BY <3>7 DEF Outcome
  <2> QED BY <2>4, <2>5
<1> QED BY <1>1, <1>4, <1>5, <1>6, Zenon DEF Read

-----------------------------------------------------------------------------
(* The steps of the system.                                                *)

\* What a capture of fragment i changes.
CapturedAs(i, intact) ==
  /\ Outcome(i, intact, parsed', buffer')
  /\ whole' = IF intact THEN whole \cup {i} ELSE whole
  /\ damaged' = IF intact THEN damaged ELSE damaged \cup {i}

\* Every capture is one of a fragment.
LEMMA CaptureIs ==
  ASSUME CutsAre, Sent, Held, Capture
  PROVE  \E i \in DOMAIN fragments, intact \in BOOLEAN : CapturedAs(i, intact)
<1>1. PICK i \in DOMAIN fragments, tagged \in BOOLEAN, padded \in BOOLEAN, snap \in Snaps,
           offloaded \in BOOLEAN :
             LET frame  == BuildEthernet(tagged, IF padded THEN Padded(Packet(i)) ELSE Packet(i))
                 intact == snap >= EthernetHeader(tagged) + TotalLength(i)
             IN  /\ offloaded => ~IsCut /\ ~padded
                 /\ Analyze(SubSeq(frame, 1, Min({snap, Len(frame)})), tagged,
                            HeaderOf(i, IF offloaded THEN 0 ELSE TotalLength(i)))
                 /\ whole' = IF intact THEN whole \cup {i} ELSE whole
                 /\ damaged' = IF intact THEN damaged ELSE damaged \cup {i}
  BY Zenon DEF Capture
<1> DEFINE intact == snap >= EthernetHeader(tagged) + TotalLength(i)
           p      == IF padded THEN Padded(Packet(i)) ELSE Packet(i)
           bytes  == Captured(tagged, p, snap)
           total  == IF offloaded THEN 0 ELSE TotalLength(i)
           header == HeaderOf(i, total)
           ether  == ParseEthernet(bytes, tagged)
           ip     == ParseIPv4(ether.payload, header)
<1>2. /\ offloaded => ~padded
      /\ Analyze(bytes, tagged, header)
      /\ whole' = IF intact THEN whole \cup {i} ELSE whole
      /\ damaged' = IF intact THEN damaged ELSE damaged \cup {i}
  BY <1>1, Zenon DEF Captured
<1>3. snap \in Nat /\ intact \in BOOLEAN
  BY WireAssumption
<1>4. Read(i, header, ether, ip, intact)
  BY <1>2, <1>3, FrameRead
<1> HIDE DEF intact, p, bytes, total, header, ether, ip
<1>5. header = HeaderOf(i, total)
  BY Zenon DEF header
<1>6. ether = ParseEthernet(bytes, tagged)
  BY Zenon DEF ether
<1>7. ip = ParseIPv4(ether.payload, header)
  BY Zenon DEF ip
<1>8. Outcome(i, intact, parsed', buffer')
  BY <1>2, <1>3, <1>4, <1>5, <1>6, <1>7, Analyzed
<1>9. CapturedAs(i, intact)
  BY <1>2, <1>8, Zenon DEF CapturedAs
<1> QED BY <1>3, <1>9

\* Nothing is a prefix of the data.
LEMMA NothingReported ==
  ASSUME length \in Nat, Sent
  PROVE  IsPrefix(<<>>, Data) /\ Len(<<>>) <= Len(Data) /\ Len(<<>>) = 0
<1>1. /\ length - transport.header_len \in Nat
      /\ transport.header_len \in Nat
      /\ Data = Run(transport.header_len, length - transport.header_len)
      /\ Len(Data) = length - transport.header_len
  BY DataIs
<1>2. IsPrefix(Run(transport.header_len, 0), Data)
  BY <1>1, RunPrefix
<1>3. Run(transport.header_len, 0) = <<>>
  BY DEF Run
<1> QED BY <1>1, <1>2, <1>3

\* An empty buffer.
LEMMA NothingHeld ==
  ASSUME NEW F
  PROVE  /\ NewBuffer(0).complete = FALSE /\ ~IsComplete(NewBuffer(0).fragments)
         /\ Canonical(F, NewBuffer(0).fragments)
<1>1. NewBuffer(0).complete = FALSE /\ NewBuffer(0).fragments = <<>>
  BY DEF NewBuffer
<1>2. ~IsComplete(<<>>)
  BY DEF IsComplete
<1>3. Canonical(F, <<>>)
  BY DEF Canonical
<1> QED BY <1>1, <1>2, <1>3, Zenon

\* Before the first capture nothing is held and nothing reported.
LEMMA InitWire == WireInit => WireInv
<1> SUFFICES ASSUME WireInit PROVE WireInv
  OBVIOUS
<1>1. Init /\ buffer = NewBuffer(0) /\ parsed = Report({}, "none", NoSegment)
      /\ whole = {} /\ damaged = {} /\ captures = 0 /\ longest = -1
  BY DEF WireInit
<1>2. Sent
  BY DEF WireInit, Sent
<1>3. Tiling
  BY <1>1, InitTiling
<1>4. length \in Nat
  BY <1>3 DEF Tiling, Arguments
<1>5. Arrived
  BY <1>1 DEF Arrived
<1>6. Held
  BY <1>1, NothingHeld DEF Held
<1>7. Kept
  <2>1. transport.header_len \in Nat /\ length - transport.header_len \in Nat
    BY <1>2, <1>4, DataIs
  <2> QED BY <1>1, <2>1 DEF Kept
<1>8. Reported
  <2>1. /\ parsed.errors = {} /\ parsed.layer = "none" /\ parsed.payload = <<>>
        /\ parsed.checksum = "unchecked"
    BY <1>1 DEF Report, NoSegment, Segment
  <2>2. PayloadFaithful
    BY <1>2, <1>4, <2>1, NothingReported DEF PayloadFaithful
  <2> QED BY <2>1, <2>2 DEF Reported, DamageShows, WholeIsClean
<1> QED BY <1>2, <1>3, <1>5, <1>6, <1>7, <1>8 DEF WireInv

\* Cutting the packet happens before the first capture.
LEMMA SendWire == ASSUME WireInv, Send PROVE WireInv'
<1>1. /\ Tiling /\ Sent /\ Arrived /\ Held /\ Kept /\ Reported
      /\ Next /\ transport' = transport /\ buffer' = buffer /\ parsed' = parsed
      /\ captures' = captures /\ whole' = whole /\ damaged' = damaged /\ longest' = longest
  BY DEF WireInv, Send, wireVars
<1>2. ~done /\ length' = length
  BY <1>1 DEF Next, CutFragment, Return
<1>3. Tiling'
  BY <1>1, StepTiling
<1>4. Sent'
  BY <1>1, <1>2 DEF Sent
<1>5. whole = {} /\ damaged = {}
  BY <1>1, <1>2 DEF Arrived
<1>6. Arrived'
  BY <1>1, <1>5 DEF Arrived
<1>7. LastUnharmed
  BY <1>5 DEF LastUnharmed
<1>8. Held'
  BY <1>1, <1>2, <1>7 DEF Held
<1>9. Kept'
  BY <1>1, <1>2, <1>5 DEF Kept
<1>10. Reported'
  <2>1. Data' = Data /\ Malformed' = Malformed
    BY <1>1, <1>2, Zenon DEF Data, Malformed
  <2>2. PayloadFaithful'
    BY <1>1, <2>1, Zenon DEF Reported, PayloadFaithful
  <2>3. DamageShows'
    BY <1>1, <2>1, Zenon DEF Reported, DamageShows
  <2>4. WholeIsClean'
    BY <1>1, <2>1, Zenon DEF Reported, WholeIsClean
  <2> QED BY <2>2, <2>3, <2>4, Zenon DEF Reported
<1> QED BY <1>3, <1>4, <1>6, <1>8, <1>9, <1>10 DEF WireInv

\* A capture changes nothing of what was sent, and only adds to what was damaged.
LEMMA CaptureStays ==
  ASSUME CutsAre, Capture, NEW i \in DOMAIN fragments, NEW intact \in BOOLEAN,
         CapturedAs(i, intact)
  PROVE  /\ length' = length /\ transport' = transport /\ fragments' = fragments
         /\ done = TRUE /\ done' = TRUE
         /\ Data' = Data /\ Malformed' = Malformed /\ IsCut' = IsCut
         /\ LastUnharmed' => LastUnharmed /\ (intact \/ i # Len(fragments))
         /\ damaged' = {} => damaged = {} /\ intact
<1>1. /\ length' = length /\ transport' = transport /\ fragments' = fragments /\ done' = done
      /\ done
  BY DEF Capture, vars
<1>2. damaged' = IF intact THEN damaged ELSE damaged \cup {i}
  BY DEF CapturedAs
<1>3. LastUnharmed' => LastUnharmed /\ (intact \/ i # Len(fragments))
  BY <1>1, <1>2 DEF LastUnharmed
<1>4. damaged' = {} => damaged = {} /\ intact
  BY <1>2
<1>5. Data' = Data /\ Malformed' = Malformed /\ IsCut' = IsCut
  BY <1>1, Zenon DEF Data, Malformed, IsCut
<1> QED BY <1>1, <1>3, <1>4, <1>5

\* The longest payload reported, after the report r.
Longest(r, l) ==
  l = IF r.layer = "transport" THEN Max({longest, Len(r.payload)}) ELSE longest

\* It grows, up to what was sent.
LEMMA LongestIs ==
  ASSUME length \in Nat, Sent, longest \in Int, longest <= length - transport.header_len,
         NEW r, NEW errors, NEW k, ReportOK(r, errors, k), NEW l, Longest(r, l)
  PROVE  /\ l \in Int /\ l <= length - transport.header_len /\ longest <= l
         /\ k = length /\ ~Malformed /\ transport.protocol # "other" =>
              l = length - transport.header_len
<1> DEFINE n == Len(r.payload)
           d == length - transport.header_len
<1>1. d \in Nat /\ Len(Data) = d
  BY DataIs
<1>2. /\ n \in Nat /\ n <= Len(Data)
      /\ r.layer = IF transport.protocol = "other" THEN "network" ELSE "transport"
      /\ k = length /\ ~Malformed /\ transport.protocol # "other" => r.payload = Data
  BY DEF ReportOK
<1>3. k = length /\ ~Malformed /\ transport.protocol # "other" => n = d
  BY <1>1, <1>2
<1> HIDE DEF n, d
<1>4. Max({longest, n}) = IF longest <= n THEN n ELSE longest
  <2>1. CASE longest <= n
    <3>1. {longest, n} \in SUBSET Int /\ n \in {longest, n} /\ \A x \in {longest, n} : x <= n
      BY <1>2, <2>1
    <3>2. Max({longest, n}) = n
      BY <3>1, MaxIs
    <3> QED BY <2>1, <3>2
  <2>2. CASE ~(longest <= n)
    <3>1. {longest, n} \in SUBSET Int /\ longest \in {longest, n}
          /\ \A x \in {longest, n} : x <= longest
      BY <1>2, <2>2
    <3>2. Max({longest, n}) = longest
      BY <3>1, MaxIs
    <3> QED BY <2>2, <3>2
  <2> QED BY <2>1, <2>2
<1>5. longest <= d
  BY DEF d
<1>6. l = IF r.layer = "transport" THEN Max({longest, n}) ELSE longest
  BY DEF n, Longest
<1> QED BY <1>1, <1>2, <1>3, <1>4, <1>5, <1>6 DEF d

\* A report of the parsers keeps what is said of reports.
LEMMA ReportKeeps ==
  ASSUME Data' = Data, Malformed' = Malformed, transport' = transport,
         NEW errors, NEW k, ReportOK(parsed', errors, k),
         damaged' = {} => errors = {} /\ k = length
  PROVE  Reported'
<1>1. /\ IsPrefix(parsed'.payload, Data)
      /\ parsed'.layer = IF transport.protocol = "other" THEN "network" ELSE "transport"
      /\ transport.protocol # "other" /\ parsed'.payload # Data =>
           parsed'.errors # {} \/ parsed'.checksum = "invalid"
      /\ k = length /\ ~Malformed =>
           /\ parsed'.errors = errors /\ parsed'.checksum # "invalid"
           /\ transport.protocol # "other" => parsed'.payload = Data
  BY Zenon DEF ReportOK
<1>2. PayloadFaithful'
  BY <1>1, Zenon DEF PayloadFaithful
<1>3. DamageShows'
  BY <1>1, Zenon DEF DamageShows
<1>4. WholeIsClean'
  <2>1. ASSUME damaged' = {}, ~Malformed
        PROVE  /\ parsed'.errors = {} /\ parsed'.checksum # "invalid"
               /\ parsed'.layer = "transport" => parsed'.payload = Data
    <3>1. /\ parsed'.errors = errors /\ errors = {} /\ parsed'.checksum # "invalid"
          /\ transport.protocol # "other" => parsed'.payload = Data
      BY <1>1, <2>1, Zenon
    <3>2. parsed'.layer = "transport" => transport.protocol # "other"
      BY <1>1
    <3> QED BY <3>1, <3>2
  <2> QED BY <2>1, Zenon DEF WholeIsClean
<1> QED BY <1>2, <1>3, <1>4, Zenon DEF Reported

\* So does a report without a payload, of a frame that could not be read or of a fragment.
LEMMA EmptyReportKeeps ==
  ASSUME Data' = Data, Malformed' = Malformed, length \in Nat, Sent, parsed'.payload = <<>>,
         parsed'.layer \in {"link", "network", "fragment"},
         parsed'.layer # "fragment" => parsed'.errors # {} /\ damaged' # {},
         parsed'.layer = "fragment" =>
           /\ parsed'.checksum = "unchecked"
           /\ damaged' = {} => parsed'.errors = {}
  PROVE  Reported'
<1>1. PayloadFaithful'
  BY NothingReported DEF PayloadFaithful
<1>2. DamageShows'
  BY DEF DamageShows
<1>3. WholeIsClean'
  BY DEF WholeIsClean
<1> QED BY <1>1, <1>2, <1>3 DEF Reported

\* Nothing is held and nothing was reported that was not before.
LEMMA SameHeld ==
  ASSUME length' = length, buffer' = buffer, LastUnharmed' => LastUnharmed, Held
  PROVE  Held'
<1>1. /\ buffer'.complete = FALSE
      /\ Canonical(Runs(length'), buffer'.fragments)
      /\ LastUnharmed' => Canonical(MarkedRuns(length'), buffer'.fragments)
      /\ ~IsComplete(buffer'.fragments)
  BY Zenon DEF Held
<1> QED BY <1>1, Zenon DEF Held

\* A frame that could not be read leaves the buffer alone.
LEMMA UnreadKeeps ==
  ASSUME WireInv, CutsAre, Capture, NEW i \in DOMAIN fragments, NEW intact \in BOOLEAN,
         CapturedAs(i, intact), Unread(intact, parsed', buffer')
  PROVE  Held' /\ Kept' /\ Reported'
<1>1. /\ length' = length /\ transport' = transport /\ fragments' = fragments
      /\ done = TRUE /\ done' = TRUE
      /\ Data' = Data /\ Malformed' = Malformed /\ IsCut' = IsCut
      /\ LastUnharmed' => LastUnharmed
      /\ damaged' = {} => intact
  BY CaptureStays
<1>2. /\ ~intact /\ buffer' = buffer
      /\ parsed'.errors # {} /\ parsed'.payload = <<>>
      /\ parsed'.layer \in {"link", "network"}
  BY DEF Unread
<1>3. whole' = whole /\ longest' = longest
  <2>1. whole' = whole
    BY <1>2 DEF CapturedAs
  <2>2. parsed'.layer # "transport"
    BY <1>2
  <2>3. longest' = longest
    BY <2>2, Zenon DEF Capture
  <2> QED BY <2>1, <2>3
<1>4. /\ Held /\ Kept /\ Sent /\ length \in Nat
  BY DEF WireInv, CutsAre
<1>5. Held'
  BY <1>1, <1>2, <1>4, SameHeld
<1>6. Kept'
  BY <1>1, <1>2, <1>3, <1>4 DEF Kept, InCut
<1>7. Reported'
  BY <1>1, <1>2, <1>4, EmptyReportKeeps
<1> QED BY <1>5, <1>6, <1>7

\* A packet that was not cut is reported at once, all of it when it was captured to its end.
LEMMA SingleKeeps ==
  ASSUME WireInv, CutsAre, Capture, NEW i \in DOMAIN fragments, NEW intact \in BOOLEAN,
         CapturedAs(i, intact), Single(intact, parsed', buffer')
  PROVE  Held' /\ Kept' /\ Reported'
<1>1. /\ length' = length /\ transport' = transport /\ fragments' = fragments
      /\ done = TRUE /\ done' = TRUE
      /\ Data' = Data /\ Malformed' = Malformed /\ IsCut' = IsCut
      /\ LastUnharmed' => LastUnharmed
      /\ damaged' = {} => intact
  BY CaptureStays
<1>2. ~IsCut /\ buffer' = buffer
  BY DEF Single
<1>3. PICK errors, k : ReportOK(parsed', errors, k) /\ (intact => errors = {} /\ k = length)
  BY Zenon DEF Single
<1>4. /\ Held /\ Kept /\ Sent /\ length \in Nat
      /\ longest \in Int /\ longest <= length - transport.header_len
  BY DEF WireInv, CutsAre, Kept
<1>5. Longest(parsed', longest')
  BY Zenon DEF Capture, Longest
<1>6. /\ longest' \in Int /\ longest' <= length - transport.header_len /\ longest <= longest'
      /\ k = length /\ ~Malformed /\ transport.protocol # "other" =>
           longest' = length - transport.header_len
  BY <1>3, <1>4, <1>5, LongestIs
<1>7. Held'
  BY <1>1, <1>2, <1>4, SameHeld
<1>8. Kept'
  <2>1. transport.header_len \in Nat
    BY <1>4, DataIs
  <2>2. CASE intact
    BY <1>1, <1>3, <1>6, <2>2 DEF Kept
  <2>3. CASE ~intact
    <3>1. whole' = whole
      BY <2>3 DEF CapturedAs
    <3>2. LastUnharmed' /\ transport.protocol # "other" /\ ~Malformed =>
            \/ longest = length - transport.header_len
            \/ whole = {}
      BY <1>1, <1>2, <1>4 DEF Kept
    <3>3. longest = length - transport.header_len => longest' = length - transport.header_len
      BY <1>4, <1>6, <2>1
    <3> QED BY <1>1, <1>2, <1>6, <3>1, <3>2, <3>3 DEF Kept
  <2> QED BY <2>2, <2>3
<1>9. Reported'
  BY <1>1, <1>3, ReportKeeps
<1> QED BY <1>7, <1>8, <1>9

\* A fragment that is kept takes nothing away, and one captured to its end is there from then
\* on.
LEMMA WaitingKeeps ==
  ASSUME WireInv, CutsAre, Capture, NEW i \in DOMAIN fragments, NEW intact \in BOOLEAN,
         CapturedAs(i, intact), Waiting(i, intact, parsed', buffer')
  PROVE  Held' /\ Kept' /\ Reported'
<1>1. /\ length' = length /\ transport' = transport /\ fragments' = fragments
      /\ done = TRUE /\ done' = TRUE
      /\ Data' = Data /\ Malformed' = Malformed /\ IsCut' = IsCut
      /\ LastUnharmed' => LastUnharmed /\ (intact \/ i # Len(fragments))
      /\ damaged' = {} => intact
  BY CaptureStays
<1>2. /\ IsCut
      /\ parsed'.layer = "fragment" /\ parsed'.payload = <<>> /\ parsed'.checksum = "unchecked"
      /\ intact => parsed'.errors = {}
      /\ buffer'.complete = FALSE /\ ~IsComplete(buffer'.fragments)
  BY DEF Waiting
<1>3. PICK k \in 0..fragments[i].size :
             /\ k = fragments[i].size <=> intact
             /\ buffer'.fragments = MergeFragments(SortIn(buffer.fragments, Piece(i, k)))
  BY DEF Waiting
<1> DEFINE after == MergeFragments(SortIn(buffer.fragments, Piece(i, k)))
<1>4. /\ Held /\ Kept /\ Sent /\ length \in Nat
  BY DEF WireInv, CutsAre
<1>5. /\ Canonical(Runs(length), after)
      /\ LastUnharmed /\ Fits(i, k) => Canonical(MarkedRuns(length), after)
      /\ \A p \in Nat : Holds(buffer.fragments, p) => Holds(after, p)
      /\ k = fragments[i].size => \A p \in Nat : InCut(i, p) => Holds(after, p)
  BY <1>2, <1>4, PieceAdded
<1>6. buffer'.fragments = after
  BY <1>3
<1>7. intact \/ i # Len(fragments) => Fits(i, k)
  BY <1>3 DEF Fits
<1> HIDE DEF after
<1>8. Held'
  <2>1. /\ Canonical(Runs(length'), buffer'.fragments)
        /\ LastUnharmed' => Canonical(MarkedRuns(length'), buffer'.fragments)
    BY <1>1, <1>5, <1>6, <1>7, Zenon
  <2> QED BY <1>2, <2>1, Zenon DEF Held
<1>9. longest' = longest /\ whole' = IF intact THEN whole \cup {i} ELSE whole
  <2>1. parsed'.layer # "transport"
    BY <1>2
  <2>2. longest' = longest
    BY <2>1, Zenon DEF Capture
  <2> QED BY <2>2 DEF CapturedAs
<1>10. Kept'
  <2>1. longest \in Int /\ longest <= length - transport.header_len
    BY <1>4 DEF Kept
  <2>2. ASSUME LastUnharmed', transport.protocol # "other", ~Malformed,
               longest # length - transport.header_len
        PROVE  \A j \in whole', p \in Nat : InCut(j, p) => Holds(after, p)
    <3>1. \A j \in whole, p \in Nat : InCut(j, p) => Holds(buffer.fragments, p)
      BY <1>1, <1>4, <2>2 DEF Kept
    <3>2. \A j \in whole, p \in Nat : InCut(j, p) => Holds(after, p)
      BY <1>5, <3>1, Zenon
    <3>3. CASE intact
      <4>1. \A p \in Nat : InCut(i, p) => Holds(after, p)
        BY <1>3, <1>5, <3>3, Zenon
      <4>2. whole' = whole \cup {i}
        BY <1>9, <3>3
      <4> QED BY <3>2, <4>1, <4>2
    <3>4. CASE ~intact
      BY <1>9, <3>2, <3>4
    <3> QED BY <3>3, <3>4
  <2>3. \A j, p : InCut(j, p)' = InCut(j, p)
    BY <1>1, Zenon DEF InCut
  <2> QED BY <1>1, <1>2, <1>6, <1>9, <2>1, <2>2, <2>3 DEF Kept, InCut
<1>11. Reported'
  BY <1>1, <1>2, <1>4, EmptyReportKeeps
<1> QED BY <1>8, <1>10, <1>11

\* The fragment that completes the datagram empties the buffer, and what is reported is all
\* of the data when no last fragment was cut short.
LEMMA FinishedKeeps ==
  ASSUME WireInv, CutsAre, Capture, NEW i \in DOMAIN fragments, NEW intact \in BOOLEAN,
         CapturedAs(i, intact), Finished(i, intact, parsed', buffer')
  PROVE  Held' /\ Kept' /\ Reported'
<1>1. /\ length' = length /\ transport' = transport /\ fragments' = fragments
      /\ Data' = Data /\ Malformed' = Malformed
      /\ LastUnharmed' => LastUnharmed /\ (intact \/ i # Len(fragments))
      /\ damaged' = {} => damaged = {} /\ intact
  BY CaptureStays
<1>2. PICK errors, k : /\ ReportOK(parsed', errors, k)
                       /\ intact => errors = {}
                       /\ LastUnharmed /\ (intact \/ i # Len(fragments)) => k = length
  BY Zenon DEF Finished
<1>3. buffer' = NewBuffer(0)
  BY DEF Finished
<1>4. /\ Sent /\ length \in Nat
      /\ longest \in Int /\ longest <= length - transport.header_len
  BY DEF WireInv, CutsAre, Kept
<1>5. Longest(parsed', longest')
  BY Zenon DEF Capture, Longest
<1>6. /\ longest' \in Int /\ longest' <= length - transport.header_len
      /\ k = length /\ ~Malformed /\ transport.protocol # "other" =>
           longest' = length - transport.header_len
  BY <1>2, <1>4, <1>5, LongestIs
<1>7. Held'
  <2>1. /\ buffer'.complete = FALSE /\ ~IsComplete(buffer'.fragments)
        /\ Canonical(Runs(length'), buffer'.fragments)
        /\ Canonical(MarkedRuns(length'), buffer'.fragments)
    BY <1>3, NothingHeld, Zenon
  <2> QED BY <2>1, Zenon DEF Held
<1>8. Kept'
  BY <1>1, <1>2, <1>6 DEF Kept
<1>9. Reported'
  <2>1. damaged' = {} => errors = {} /\ k = length
    <3>1. damaged = {} => LastUnharmed
      BY DEF LastUnharmed
    <3> QED BY <1>1, <1>2, <3>1
  <2> QED BY <1>1, <1>2, <2>1, ReportKeeps
<1> QED BY <1>7, <1>8, <1>9

\* A capture keeps the invariant.
LEMMA CaptureWire == ASSUME WireInv, Capture PROVE WireInv'
<1>1. Tiling /\ Sent /\ Arrived /\ Held
  BY DEF WireInv
<1>2. /\ done /\ UNCHANGED vars /\ transport' = transport /\ length' = length
      /\ fragments' = fragments /\ done' = done /\ captures' = captures + 1
  BY DEF Capture, vars
<1>3. CutsAre
  BY <1>1, <1>2, CutFacts
<1>4. PICK i \in DOMAIN fragments, intact \in BOOLEAN : CapturedAs(i, intact)
  BY <1>1, <1>3, CaptureIs
<1>5. Tiling'
  BY <1>1, <1>2, StepTiling
<1>6. Sent'
  BY <1>1, <1>2 DEF Sent
<1>7. Arrived'
  BY <1>1, <1>2, <1>4 DEF Arrived, CapturedAs
<1>8. Held' /\ Kept' /\ Reported'
  <2>1. \/ Unread(intact, parsed', buffer') \/ Single(intact, parsed', buffer')
        \/ Waiting(i, intact, parsed', buffer') \/ Finished(i, intact, parsed', buffer')
    BY <1>4, Zenon DEF CapturedAs, Outcome
  <2> QED BY <1>3, <1>4, <2>1, UnreadKeeps, SingleKeeps, WaitingKeeps, FinishedKeeps
<1> QED BY <1>5, <1>6, <1>7, <1>8 DEF WireInv

\* Nothing changes when nothing happens.
LEMMA WireStutters == ASSUME WireInv, UNCHANGED allVars PROVE WireInv'
<1>1. /\ length' = length /\ header_len' = header_len /\ mtu' = mtu /\ offset' = offset
      /\ frag_offset_blocks' = frag_offset_blocks /\ fragments' = fragments /\ done' = done
      /\ transport' = transport /\ buffer' = buffer /\ parsed' = parsed
      /\ captures' = captures /\ whole' = whole /\ damaged' = damaged /\ longest' = longest
  BY DEF allVars, vars, wireVars
<1>2. Tiling /\ Sent /\ Arrived /\ Held /\ Kept /\ Reported
  BY DEF WireInv
<1>3. Tiling'
  BY <1>1, <1>2, StepTiling DEF vars
<1>4. Sent' /\ Arrived'
  BY <1>1, <1>2 DEF Sent, Arrived
<1>5. Data' = Data /\ Malformed' = Malformed /\ IsCut' = IsCut /\ LastUnharmed' = LastUnharmed
  BY <1>1, Zenon DEF Data, Malformed, IsCut, LastUnharmed
<1>6. Held'
  BY <1>1, <1>2, <1>5, Zenon DEF Held
<1>7. Kept'
  BY <1>1, <1>2, <1>5, Zenon DEF Kept, InCut
<1>8. Reported'
  BY <1>1, <1>2, <1>5, Zenon DEF Reported, PayloadFaithful, DamageShows, WholeIsClean
<1> QED BY <1>3, <1>4, <1>6, <1>7, <1>8 DEF WireInv

\* Every step keeps the invariant.
LEMMA StepWire == WireInv /\ [WireNext]_allVars => WireInv'
  BY SendWire, CaptureWire, WireStutters DEF WireNext

\* The invariant holds throughout.
LEMMA WireInvariant == WireSpec => []WireInv
<1>1. WireInit => WireInv
  BY InitWire
<1>2. WireInv /\ [WireNext]_allVars => WireInv'
  BY StepWire
<1> QED BY <1>1, <1>2, PTL DEF WireSpec

-----------------------------------------------------------------------------
\* What is in every fragment is in the buffer, and the buffer is complete, or was reported.
LEMMA WireDelivered == WireInv => DeliveredWhole
<1> SUFFICES ASSUME WireInv, done, whole = DOMAIN fragments, LastUnharmed,
                    transport.protocol # "other", ~Malformed
             PROVE  longest = Len(Data)
  BY DEF DeliveredWhole, LastUnharmed
<1>1. Tiling /\ Sent /\ Held /\ Kept
  BY DEF WireInv
<1>2. CutsAre
  BY <1>1, CutFacts
<1>3. /\ length \in Nat /\ DOMAIN fragments = 1..Len(fragments)
      /\ Len(fragments) \in Nat /\ Len(fragments) >= 1
      /\ IsCut => /\ length >= 1
                  /\ \A p \in 0..(length - 1) : \E i \in 1..Len(fragments) : InCut(i, p)
  BY <1>2 DEF CutsAre
<1>4. Len(Data) = length - transport.header_len
  BY <1>1, <1>3, DataIs
<1>5. \/ longest = length - transport.header_len
      \/ /\ done /\ ~IsCut => whole = {}
         /\ \A i \in whole, p \in Nat : InCut(i, p) => Holds(buffer.fragments, p)
  BY <1>1 DEF Kept
<1>6. ASSUME longest # length - transport.header_len PROVE FALSE
  <2>1. whole # {}
    BY <1>3
  <2>2. IsCut
    BY <1>5, <1>6, <2>1
  <2>3. \A p \in 0..(length - 1) : Holds(buffer.fragments, p)
    <3>1. \A p \in 0..(length - 1) : p \in Nat
      BY <1>3
    <3> QED BY <1>3, <1>5, <1>6, <2>2, <3>1
  <2>4. /\ Canonical(MarkedRuns(length), buffer.fragments)
        /\ ~IsComplete(buffer.fragments)
    BY <1>1 DEF Held
  <2>5. IsComplete(buffer.fragments)
    BY <1>3, <2>2, <2>3, <2>4, AllHeldIsComplete
  <2> QED BY <2>4, <2>5
<1> QED BY <1>4, <1>6

\* What is reported as the payload of a segment or datagram is the beginning of what was sent,
\* with no padding, header or byte of another place in it, however often, however short and in
\* whatever order the frames were captured (layers/*.py, analyzer.py:222-296).
THEOREM ReportsAreFaithful == WireSpec => []PayloadFaithful
<1>1. WireInv => PayloadFaithful
  BY DEF WireInv, Reported
<1> QED BY WireInvariant, <1>1, PTL

\* A report with less than was sent has an error or a wrong checksum: a fragment cut short does
\* not get through unnoticed behind the flawless frame that completes the datagram
\* (analyzer.py:222-296, ip_reassembly.py:104-151).
THEOREM LossShows == WireSpec => []DamageShows
<1>1. WireInv => DamageShows
  BY DEF WireInv, Reported
<1> QED BY WireInvariant, <1>1, PTL

\* Nothing is reported as damaged, and all of the data arrives, when every frame was captured to
\* its end, whatever the padding, the tags, the order and the repetitions
\* (layers/*.py, analyzer.py:222-296).
THEOREM WholeFramesAreClean == WireSpec => []WholeIsClean
<1>1. WireInv => WholeIsClean
  BY DEF WireInv, Reported
<1> QED BY WireInvariant, <1>1, PTL

\* The data has been reported whole once every fragment was captured to its end and no last one
\* was cut short, whatever else was captured of them before or in between
\* (ip_reassembly.py:74-151).
THEOREM AllFragmentsDeliver == WireSpec => []DeliveredWhole
<1>1. WireInv => DeliveredWhole
  BY WireDelivered
<1> QED BY WireInvariant, <1>1, PTL

-----------------------------------------------------------------------------
(* Checksums.                                                              *)

\* The carries of a total.
LEMMA Parts ==
  ASSUME NEW n \in Nat, n < W * W
  PROVE  \E a, b \in Nat : /\ a < W /\ b < W /\ n = W * a + b
                           /\ n \div W = a /\ n % W = b
<1>1. n \div W \in Nat /\ n % W \in Nat
  BY DEF W
<1>2. n % W < W
  BY DEF W
<1>3. n = W * (n \div W) + (n % W)
  BY DEF W
<1>4. n \div W < W
  BY <1>1, <1>3 DEF W
<1> QED
  BY <1>1, <1>2, <1>3, <1>4

\* What is left after both folds is the total modulo 65535, and it is zero for the total
\* zero only: a total that two folds have brought to 65535 stays there.
LEMMA Folding ==
  ASSUME NEW n \in Nat, n < W * W
  PROVE  \E r, k \in Nat : /\ r < W /\ n = (W - 1) * k + r
                           /\ r = 0 => n = 0
                           /\ Checksum(n) = W - 1 - r
<1>1. PICK a, b \in Nat : /\ a < W /\ b < W /\ n = W * a + b
                          /\ n \div W = a /\ n % W = b
  BY Parts
<1>2. Fold(n) = a + b
  BY <1>1 DEF Fold
<1>3. CASE a + b < W
  <2>1. (a + b) \div W = 0 /\ (a + b) % W = a + b
    BY <1>1, <1>3 DEF W
  <2>2. Checksum(n) = W - 1 - (a + b)
    BY <1>2, <2>1 DEF Checksum, W
  <2>3. n = (W - 1) * a + (a + b)
    BY <1>1 DEF W
  <2>4. a + b \in Nat /\ (a + b = 0 => n = 0)
    BY <1>1 DEF W
  <2> QED
    BY <1>1, <1>3, <2>2, <2>3, <2>4
<1>4. CASE a + b >= W
  <2>1. (a + b) \div W = 1
    BY <1>1, <1>4 DEF W
  <2>2. (a + b + 1) % W = a + b + 1 - W
    BY <1>1, <1>4 DEF W
  <2>3. Checksum(n) = W - 1 - (a + b + 1 - W)
    BY <1>2, <2>1, <2>2 DEF Checksum, W
  <2>4. n = (W - 1) * (a + 1) + (a + b + 1 - W)
    BY <1>1 DEF W
  <2>5. a + 1 \in Nat /\ a + b + 1 - W \in Nat /\ a + b + 1 - W < W /\ a + b + 1 - W # 0
    BY <1>1, <1>4 DEF W
  <2> QED
    BY <2>3, <2>4, <2>5
<1> QED
  BY <1>1, <1>3, <1>4 DEF W

\* A packet that carries the checksum that was computed for it verifies, whatever its words:
\* two folds take up every carry, and none gets lost in the 16 bits that are kept
\* (build_ipv4, build_tcp and build_udp against the parsers).
THEOREM BuiltVerifies ==
  ASSUME NEW t \in Total
  PROVE  Verifies(t + Checksum(t))
<1>1. t \in Nat /\ t < W * W
  BY DEF Total, W
<1>2. PICK r, k \in Nat : /\ r < W /\ t = (W - 1) * k + r /\ Checksum(t) = W - 1 - r
  BY <1>1, Folding
<1>3. t + Checksum(t) = (W - 1) * (k + 1)
  BY <1>2 DEF W
<1>4. t + Checksum(t) \in Nat /\ t + Checksum(t) < W * W /\ t + Checksum(t) # 0
  BY <1>1, <1>2, <1>3 DEF Total, W
<1>5. PICK q, j \in Nat : /\ q < W /\ t + Checksum(t) = (W - 1) * j + q
                          /\ q = 0 => t + Checksum(t) = 0
                          /\ Checksum(t + Checksum(t)) = W - 1 - q
  BY <1>4, Folding
<1>6. q = W - 1
  BY <1>3, <1>4, <1>5 DEF W
<1> QED
  BY <1>5, <1>6 DEF Verifies, W

\* A packet whose words changed on the way does not verify with the checksum of the original,
\* unless the totals differ by a multiple of 65535.
THEOREM DamageDetected ==
  ASSUME NEW t \in Total, NEW u \in Total, Verifies(u + Checksum(t))
  PROVE  \E d \in Int : u - t = (W - 1) * d
<1>1. t \in Nat /\ t < W * W /\ u \in Nat
  BY DEF Total, W
<1>2. PICK r, k \in Nat : r < W /\ t = (W - 1) * k + r /\ Checksum(t) = W - 1 - r
  BY <1>1, Folding
<1>3. u + Checksum(t) \in Nat /\ u + Checksum(t) < W * W
  BY <1>1, <1>2 DEF Total, W
<1>4. PICK q, j \in Nat : /\ q < W /\ u + Checksum(t) = (W - 1) * j + q
                          /\ Checksum(u + Checksum(t)) = W - 1 - q
  BY <1>3, Folding
<1>5. q = W - 1
  BY <1>4 DEF Verifies, W
<1>6. u - t = (W - 1) * (j - k)
  BY <1>1, <1>2, <1>4, <1>5 DEF W
<1> QED
  BY <1>6
=============================================================================
