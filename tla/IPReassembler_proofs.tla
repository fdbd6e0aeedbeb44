-------------------------- MODULE IPReassembler_proofs --------------------------
(***************************************************************************)
(* The table of partial datagrams, for any number of threads and any       *)
(* fragments: the unlocked counter never invents a fragment, the buffers   *)
(* stay canonical, and what is returned is a datagram that was sent.       *)
(***************************************************************************)
EXTENDS IPReassembler, FiniteSets, SequenceTheorems, WellFoundedInduction, TLAPS

-----------------------------------------------------------------------------
(* Lists and folds.                                                        *)

\* Every set of naturals that has an element has a least one.
LEMMA LeastNumber ==
  ASSUME NEW S \in SUBSET Nat, S # {}
  PROVE  \E m \in S : \A n \in S : m <= n
<1> DEFINE R == OpToRel(<, Nat)
<1>1. IsWellFoundedOn(R, Nat)
  BY NatLessThanWellFounded DEF OpToRel
<1>2. R = {ss \in Nat \X Nat : ss[1] < ss[2]}
  BY DEF OpToRel
<1> HIDE DEF R
<1>3. PICK m \in S : \A n \in S : ~ (<<n, m>> \in R)
  BY <1>1, WFMin
<1>4. \A n \in S : m <= n
  <2> TAKE n \in S
  <2>1. <<n, m>> \in Nat \X Nat
    OBVIOUS
  <2>2. ~ (n < m)
    BY <1>2, <1>3, <2>1
  <2> QED BY <2>2
<1> QED BY <1>3, <1>4

\* The largest number of a set is the one that is.
LEMMA MaxIs ==
  ASSUME NEW S \in SUBSET Int, NEW m \in S, \A n \in S : n <= m
  PROVE  Max(S) = m
<1>1. Max(S) \in S /\ \A n \in S : Max(S) >= n
  <2>1. \E x \in S : \A n \in S : x >= n
    OBVIOUS
  <2> QED BY <2>1 DEF Max
<1> DEFINE x == Max(S)
<1>2. x \in Int /\ m \in Int /\ x >= m /\ x <= m
  BY <1>1
<1> HIDE DEF x
<1>3. x = m
  BY <1>2
<1> QED BY <1>3 DEF x

\* The least number of a set is one of its members, below all the others.
LEMMA MinIs ==
  ASSUME NEW S \in SUBSET Nat, S # {}
  PROVE  Min(S) \in S /\ \A n \in S : Min(S) <= n
<1>1. \E m \in S : \A n \in S : m <= n
  BY LeastNumber
<1> QED BY <1>1 DEF Min

\* Python's list.insert.
LEMMA Inserted ==
  ASSUME NEW T, NEW list \in Seq(T), NEW e \in T, NEW k \in 1..(Len(list) + 1)
  PROVE  /\ InsertAt(list, k, e) \in Seq(T)
         /\ Len(InsertAt(list, k, e)) = Len(list) + 1
         /\ \A i \in 1..(Len(list) + 1) :
              InsertAt(list, k, e)[i] = IF i < k THEN list[i]
                                        ELSE IF i = k THEN e ELSE list[i - 1]
<1> DEFINE n     == Len(list)
           left  == SubSeq(list, 1, k - 1)
           mid   == left \o <<e>>
           right == SubSeq(list, k, n)
<1>1. n \in Nat /\ k \in 1..(n + 1) /\ \A i \in 1..n : list[i] \in T
  OBVIOUS
<1>2. left \in Seq(T) /\ Len(left) = k - 1 /\ \A i \in 1..(k - 1) : left[i] = list[i]
  <2>1. 1 \in Int /\ k - 1 \in Int /\ \A i \in 1..(k - 1) : list[i] \in T
    BY <1>1
  <2>2. /\ left \in Seq(T)
        /\ Len(left) = IF 1 <= k - 1 THEN (k - 1) - 1 + 1 ELSE 0
        /\ \A i \in 1..((k - 1) - 1 + 1) : left[i] = list[1 + i - 1]
    BY <2>1, SubSeqProperties
  <2> HIDE DEF left
  <2>3. (k - 1) - 1 + 1 = k - 1
    BY <1>1
  <2>4. Len(left) = k - 1
    BY <1>1, <2>2
  <2>5. ASSUME NEW i \in 1..(k - 1) PROVE left[i] = list[i]
    <3>1. left[i] = list[1 + i - 1] /\ 1 + i - 1 = i
      BY <2>2, <2>3
    <3> QED BY <3>1
  <2> QED BY <2>2, <2>4, <2>5
<1>3. right \in Seq(T) /\ Len(right) = n - k + 1 /\ \A i \in 1..(n - k + 1) : right[i] = list[k + i - 1]
  <2>1. k \in Int /\ n \in Int /\ \A i \in k..n : list[i] \in T
    BY <1>1
  <2> HIDE DEF n
  <2>2. /\ right \in Seq(T)
        /\ Len(right) = IF k <= n THEN n - k + 1 ELSE 0
        /\ \A i \in 1..(n - k + 1) : right[i] = list[k + i - 1]
    BY <2>1, SubSeqProperties
  <2> HIDE DEF right
  <2>3. Len(right) = n - k + 1
    BY <1>1, <2>2
  <2> QED BY <2>2, <2>3
<1> HIDE DEF left, right, n
<1>4. /\ mid \in Seq(T) /\ Len(mid) = k
      /\ \A i \in 1..k : mid[i] = IF i <= k - 1 THEN left[i] ELSE e
  <2>1. <<e>> \in Seq(T) /\ Len(<<e>>) = 1 /\ <<e>>[1] = e
    OBVIOUS
  <2> DEFINE one == <<e>>
  <2> HIDE DEF one
  <2>2. one \in Seq(T) /\ Len(one) = 1 /\ one[1] = e
    BY <2>1 DEF one
  <2>3. /\ left \o one \in Seq(T) /\ Len(left \o one) = (k - 1) + 1
        /\ \A i \in 1..((k - 1) + 1) : (left \o one)[i] = IF i <= k - 1 THEN left[i] ELSE one[i - (k - 1)]
    <3>1. /\ left \o one \in Seq(T) /\ Len(left \o one) = Len(left) + Len(one)
          /\ \A i \in 1..(Len(left) + Len(one)) :
               (left \o one)[i] = IF i <= Len(left) THEN left[i] ELSE one[i - Len(left)]
      BY <1>2, <2>2, ConcatProperties
    <3>2. Len(left) = k - 1 /\ Len(one) = 1
      BY <1>2, <2>2
    <3> QED BY <3>1, <3>2
  <2>4. (k - 1) + 1 = k /\ mid = left \o one
    BY <1>1 DEF one
  <2>5. ASSUME NEW i \in 1..k PROVE mid[i] = IF i <= k - 1 THEN left[i] ELSE e
    <3>1. mid[i] = IF i <= k - 1 THEN left[i] ELSE one[i - (k - 1)]
      BY <2>3, <2>4
    <3>2. i <= k - 1 \/ i - (k - 1) = 1
      BY <1>1
    <3> HIDE DEF mid
    <3> QED BY <2>2, <3>1, <3>2
  <2> QED BY <2>3, <2>4, <2>5
<1> HIDE DEF mid
<1>5. /\ mid \o right \in Seq(T) /\ Len(mid \o right) = k + (n - k + 1)
      /\ \A i \in 1..(k + (n - k + 1)) :
           (mid \o right)[i] = IF i <= k THEN mid[i] ELSE right[i - k]
  <2>1. mid \in Seq(T) /\ right \in Seq(T)
    BY <1>3, <1>4
  <2>2. /\ mid \o right \in Seq(T) /\ Len(mid \o right) = Len(mid) + Len(right)
        /\ \A i \in 1..(Len(mid) + Len(right)) :
             (mid \o right)[i] = IF i <= Len(mid) THEN mid[i] ELSE right[i - Len(mid)]
    BY <2>1, ConcatProperties
  <2> QED BY <1>3, <1>4, <2>2
<1>6. k + (n - k + 1) = n + 1
  BY <1>1
<1>7. InsertAt(list, k, e) = mid \o right
  BY DEF InsertAt, mid, left, right, n
<1> DEFINE all == mid \o right
<1> HIDE DEF all
<1>8. ASSUME NEW i \in 1..(n + 1)
      PROVE  all[i] = IF i < k THEN list[i] ELSE IF i = k THEN e ELSE list[i - 1]
  <2>1. all[i] = IF i <= k THEN mid[i] ELSE right[i - k]
    BY <1>5, <1>6 DEF all
  <2>2. CASE i < k
    <3>1. i \in 1..k /\ i \in 1..(k - 1) /\ i <= k /\ i <= k - 1
      BY <1>1, <2>2
    <3> QED BY <1>2, <1>4, <2>1, <2>2, <3>1
  <2>3. CASE i = k
    <3>1. i \in 1..k /\ i <= k /\ ~(i <= k - 1) /\ ~(i < k)
      BY <1>1, <2>3
    <3> QED BY <1>4, <2>1, <2>3, <3>1
  <2>4. CASE i > k
    <3>1. i - k \in 1..(n - k + 1) /\ ~(i <= k) /\ ~(i < k) /\ i # k /\ k + (i - k) - 1 = i - 1
      BY <1>1, <2>4
    <3> QED BY <1>3, <2>1, <3>1
  <2> QED BY <1>1, <2>2, <2>3, <2>4
<1> QED BY <1>5, <1>6, <1>7, <1>8 DEF all, n

\* The loop of _merge_fragments.
MergeFrom(base, list) == FoldLeft(MergeFragment, base, list)

\* acc[k] is what the loop has merged after k fragments.
MergeSteps(acc, base, list, n) ==
  /\ acc[0] = base
  /\ \A k \in 1..n : acc[k] = MergeFragment(acc[k - 1], list[k])
  /\ acc[n] = MergeFrom(base, list)

\* The fold of the model is that loop.
LEMMA MergeUnrolled ==
  ASSUME NEW base, NEW list, NEW n \in Nat, DOMAIN list = 1..n
  PROVE  \E acc : MergeSteps(acc, base, list, n)
<1> DEFINE Unroll(m, g) ==
             [s \in SUBSET (1..m) |-> IF s = {} THEN base
                                      ELSE MergeFragment(g[s \ {Max(s)}], list[Max(s)])]
           Exists(m) == \E g : g = Unroll(m, g)
           bad == {m \in Nat : ~Exists(m)}
<1>1. ASSUME NEW m \in Nat, NEW s \in SUBSET (1..m), m \in s PROVE Max(s) = m
  <2>1. s \in SUBSET Int /\ \A k \in s : k <= m
    OBVIOUS
  <2> QED BY <1>1, <2>1, MaxIs
<1>2. \A m \in Nat : Exists(m)
  <2>1. CASE bad = {}
    BY <2>1
  <2>2. CASE bad # {}
    <3>1. PICK m \in bad : \A k \in bad : m <= k
      <4>1. bad \in SUBSET Nat
        OBVIOUS
      <4> HIDE DEF bad
      <4> QED BY <2>2, <4>1, LeastNumber
    <3>2. m # 0
      <4> DEFINE g == [s \in SUBSET (1..0) |-> base]
      <4>1. \A s \in SUBSET (1..0) : s = {}
        OBVIOUS
      <4>2. Unroll(0, g) = [s \in SUBSET (1..0) |-> base]
        BY <4>1
      <4>3. Exists(0)
        BY <4>2
      <4> QED BY <4>3
    <3>3. m - 1 \in Nat /\ Exists(m - 1)
      <4>1. m \in Nat /\ m # 0
        BY <3>2
      <4>2. m - 1 \in Nat /\ m - 1 < m
        BY <4>1
      <4>3. m - 1 \notin bad
        <5> HIDE DEF bad
        <5> QED BY <3>1, <4>1, <4>2
      <4> QED BY <4>2, <4>3
    <3>4. PICK g : g = Unroll(m - 1, g)
      BY <3>3
    <3> DEFINE h == [s \in SUBSET (1..m) |-> IF m \in s THEN MergeFragment(g[s \ {m}], list[m])
                                             ELSE g[s]]
    <3>5. ASSUME NEW s \in SUBSET (1..m)
          PROVE  h[s] = IF s = {} THEN base ELSE MergeFragment(h[s \ {Max(s)}], list[Max(s)])
      <4>1. CASE m \in s
        <5>1. Max(s) = m /\ s \ {m} \in SUBSET (1..m)
          BY <1>1, <4>1
        <5> QED BY <4>1, <5>1
      <4>2. CASE m \notin s
        <5>1. s \in SUBSET (1..(m - 1))
          BY <3>3, <4>2
        <5>2. h[s] = g[s]
          BY <4>2
        <5>3. g[s] = IF s = {} THEN base ELSE MergeFragment(g[s \ {Max(s)}], list[Max(s)])
          BY <3>4, <5>1
        <5>4. s \ {Max(s)} \in SUBSET (1..m) /\ m \notin s \ {Max(s)}
          BY <4>2
        <5>5. h[s \ {Max(s)}] = g[s \ {Max(s)}]
          BY <5>4
        <5> QED BY <5>2, <5>3, <5>5
      <4> QED BY <4>1, <4>2
    <3>6. h = Unroll(m, h)
      <4>1. h = [s \in SUBSET (1..m) |-> h[s]]
        OBVIOUS
      <4> HIDE DEF h
      <4> QED BY <3>5, <4>1
    <3> QED BY <3>1, <3>6
  <2> QED BY <2>1, <2>2
<1> DEFINE iter == CHOOSE iter : iter = Unroll(n, iter)
<1>3. iter = Unroll(n, iter)
  BY <1>2
<1>4. MergeFrom(base, list) = iter[1..n]
  BY Zenon DEF MergeFrom, FoldLeft, MapThenFoldSet
<1> DEFINE acc == [k \in 0..n |-> iter[1..k]]
<1> HIDE DEF iter
<1>5. acc[0] = base
  BY <1>3
<1>6. ASSUME NEW k \in 1..n PROVE acc[k] = MergeFragment(acc[k - 1], list[k])
  <2>1. /\ 1..k \in SUBSET (1..n) /\ 1..k # {} /\ k \in 1..k /\ k \in Nat
        /\ (1..k) \ {k} = 1..(k - 1) /\ k - 1 \in 0..n
    <3>1. k \in Nat /\ k >= 1 /\ k <= n /\ k - 1 \in 0..n
      OBVIOUS
    <3>2. k \in 1..k /\ 1..k \in SUBSET (1..n)
      BY <3>1
    <3>3. \A j : j \in (1..k) \ {k} <=> j \in 1..(k - 1)
      BY <3>1
    <3>4. (1..k) \ {k} = 1..(k - 1)
      BY <3>3, Zenon
    <3> QED BY <3>1, <3>2, <3>4, Zenon
  <2>2. Max(1..k) = k
    BY <1>1, <2>1
  <2>3. iter[1..k] = MergeFragment(iter[1..(k - 1)], list[k])
    BY <1>3, <2>1, <2>2
  <2> QED BY <2>1, <2>3
<1>7. acc[n] = iter[1..n]
  OBVIOUS
<1> HIDE DEF acc
<1> QED BY <1>4, <1>5, <1>6, <1>7 DEF MergeSteps

\* The flattening of one list is that list.
LEMMA FlattenOne ==
  ASSUME NEW data
  PROVE  FlattenSeq([i \in 1..1 |-> data]) = data
<1> DEFINE seqs == [i \in 1..1 |-> data]
           Flat(f) == f = [i \in 1..Len(seqs) |-> IF i = 1 THEN seqs[i] ELSE f[i - 1] \o seqs[i]]
           flatten == CHOOSE f : Flat(f)
<1>1. Len(seqs) = 1 /\ seqs[1] = data
  OBVIOUS
<1> HIDE DEF seqs
<1>2. \E f : Flat(f)
  <2> DEFINE g == [i \in 1..1 |-> data]
  <2>1. Flat(g)
    BY <1>1
  <2> QED BY <2>1
<1>3. Flat(flatten)
  BY <1>2
<1>4. FlattenSeq(seqs) = flatten[Len(seqs)]
  BY <1>1 DEF FlattenSeq
<1> HIDE DEF flatten
<1>5. flatten[1] = data
  BY <1>1, <1>3
<1> QED BY <1>1, <1>4, <1>5 DEF seqs
-----------------------------------------------------------------------------
(* Fragments, and the lists a buffer keeps.                                *)

Frags == [offset : Nat, data : Seq(Labels), is_last : BOOLEAN]

\* Both fragments as one, when the second goes on where the first ends, or before.
Extended(last, frag) ==
  Fragment(last.offset,
           last.data \o SubSeq(frag.data, (FragmentEnd(last) - frag.offset) + 1, Len(frag.data)),
           frag.is_last)

Marked(last) == [last EXCEPT !.is_last = TRUE]

GoesOn(last, frag) ==
  /\ last.offset <= frag.offset /\ frag.offset <= FragmentEnd(last)
  /\ FragmentEnd(last) < FragmentEnd(frag)

\* A kind of fragments that merging does not leave.
Closed(F) ==
  /\ F \in SUBSET Frags
  /\ \A last, frag \in F :
       /\ GoesOn(last, frag) => Extended(last, frag) \in F
       /\ FragmentEnd(frag) = FragmentEnd(last) /\ frag.is_last => Marked(last) \in F

\* The lists a buffer keeps: sorted, with a gap between any two of their fragments.
Canonical(F, list) ==
  /\ list \in Seq(F)
  /\ \A i, j \in 1..Len(list) : i < j => FragmentEnd(list[i]) < list[j].offset

\* The numbers of a fragment.
LEMMA FragFacts ==
  ASSUME NEW f \in Frags
  PROVE  /\ f.offset \in Nat /\ f.data \in Seq(Labels) /\ f.is_last \in BOOLEAN
         /\ Len(f.data) \in Nat /\ FragmentEnd(f) \in Nat
         /\ FragmentEnd(f) = f.offset + Len(f.data) /\ f.offset <= FragmentEnd(f)
<1>1. f.offset \in Nat /\ f.data \in Seq(Labels) /\ f.is_last \in BOOLEAN
  BY DEF Frags
<1>2. Len(f.data) \in Nat
  BY <1>1
<1> QED BY <1>1, <1>2 DEF FragmentEnd

\* What is in a fragment that was extended.
LEMMA ExtendedIs ==
  ASSUME NEW last \in Frags, NEW frag \in Frags, GoesOn(last, frag)
  PROVE  /\ Extended(last, frag) \in Frags
         /\ Extended(last, frag).offset = last.offset
         /\ Extended(last, frag).is_last = frag.is_last
         /\ FragmentEnd(Extended(last, frag)) = FragmentEnd(frag)
         /\ \A i \in 1..Len(Extended(last, frag).data) :
              Extended(last, frag).data[i] =
                IF i <= Len(last.data) THEN last.data[i]
                ELSE frag.data[i + last.offset - frag.offset]
<1> DEFINE a == last.offset
           c == frag.offset
           m == Len(last.data)
           n == Len(frag.data)
           over == (FragmentEnd(last) - c) + 1
           rest == SubSeq(frag.data, over, n)
           data == last.data \o rest
<1>1. /\ a \in Nat /\ c \in Nat /\ m \in Nat /\ n \in Nat /\ a <= c /\ c <= a + m /\ a + m < c + n
      /\ last.data \in Seq(Labels) /\ frag.data \in Seq(Labels) /\ frag.is_last \in BOOLEAN
      /\ FragmentEnd(last) = a + m /\ FragmentEnd(frag) = c + n
  BY FragFacts DEF GoesOn
<1>2. over = a + m - c + 1
  BY <1>1
<1>3. Extended(last, frag) = [offset |-> a, data |-> data, is_last |-> frag.is_last]
  BY DEF Extended, Fragment
<1> HIDE DEF a, c, m, n, over
<1>4. over \in Int /\ n \in Int /\ over <= n /\ 1 <= over /\ n - over + 1 = c + n - a - m
  BY <1>1, <1>2
<1>5. \A i \in over..n : frag.data[i] \in Labels
  <2>1. \A i \in 1..n : frag.data[i] \in Labels
    BY <1>1 DEF n
  <2> QED BY <1>4, <2>1
<1>6. /\ rest \in Seq(Labels) /\ Len(rest) = n - over + 1
      /\ \A i \in 1..(n - over + 1) : rest[i] = frag.data[over + i - 1]
  BY <1>4, <1>5, SubSeqProperties
<1> HIDE DEF rest
<1>7. /\ data \in Seq(Labels) /\ Len(data) = Len(last.data) + Len(rest)
      /\ \A i \in 1..(Len(last.data) + Len(rest)) :
           data[i] = IF i <= Len(last.data) THEN last.data[i] ELSE rest[i - Len(last.data)]
  BY <1>1, <1>6, ConcatProperties
<1> HIDE DEF data
<1>8. Len(last.data) = m
  BY DEF m
<1>9. Len(data) = c + n - a /\ m + Len(rest) = c + n - a
  BY <1>1, <1>4, <1>6, <1>7, <1>8
<1>10. ASSUME NEW i \in 1..(c + n - a)
       PROVE  data[i] = IF i <= m THEN last.data[i] ELSE frag.data[i + a - c]
  <2>1. data[i] = IF i <= m THEN last.data[i] ELSE rest[i - m]
    BY <1>7, <1>8, <1>9
  <2>2. CASE i > m
    <3>1. i - m \in 1..(n - over + 1) /\ over + (i - m) - 1 = i + a - c
      BY <1>1, <1>2, <1>4, <2>2
    <3>2. rest[i - m] = frag.data[i + a - c]
      BY <1>6, <3>1
    <3> QED BY <2>1, <2>2, <3>2
  <2>3. CASE i <= m
    BY <2>1, <2>3
  <2> QED BY <1>1, <2>2, <2>3
<1>11. FragmentEnd(Extended(last, frag)) = c + n
  <2>1. a + (c + n - a) = c + n
    BY <1>1
  <2> QED BY <1>3, <1>9, <2>1 DEF FragmentEnd
<1>12. Extended(last, frag) \in Frags
  BY <1>1, <1>3, <1>7 DEF Frags
<1> QED BY <1>1, <1>3, <1>9, <1>10, <1>11, <1>12, SMTT(30) DEF a, c, m, n

\* Fragments are closed under merging.
LEMMA FragsClosed == Closed(Frags)
<1>1. ASSUME NEW last \in Frags PROVE Marked(last) \in Frags
  BY DEF Frags, Marked
<1> QED BY <1>1, ExtendedIs DEF Closed

\* The cuts of a datagram.
Cuts(d) == {f \in Frags : IsCut(f, d)}

\* A cut holds the labels of the datagram at its place.
LEMMA CutIs ==
  ASSUME NEW d \in Seq(Labels), NEW f \in Frags, FragmentEnd(f) <= Len(d)
  PROVE  (f.data = SubSeq(d, f.offset + 1, FragmentEnd(f))) <=>
         \A i \in 1..Len(f.data) : f.data[i] = d[f.offset + i]
<1> DEFINE a == f.offset
           m == Len(f.data)
           s == SubSeq(d, a + 1, a + m)
<1>1. a \in Nat /\ m \in Nat /\ FragmentEnd(f) = a + m /\ a + m <= Len(d) /\ f.data \in Seq(Labels)
  BY FragFacts
<1>2. Len(d) \in Nat /\ \A i \in 1..Len(d) : d[i] \in Labels
  OBVIOUS
<1> HIDE DEF a, m
<1>3. a + 1 \in Int /\ a + m \in Int /\ \A i \in (a + 1)..(a + m) : d[i] \in Labels
  BY <1>1, <1>2
<1>4. /\ s \in Seq(Labels)
      /\ Len(s) = IF a + 1 <= a + m THEN (a + m) - (a + 1) + 1 ELSE 0
      /\ \A i \in 1..((a + m) - (a + 1) + 1) : s[i] = d[(a + 1) + i - 1]
  BY <1>3, SubSeqProperties
<1> HIDE DEF s
<1>5. Len(s) = m
  BY <1>1, <1>4
<1>6. ASSUME NEW i \in 1..m PROVE s[i] = d[a + i]
  <2>1. (a + m) - (a + 1) + 1 = m /\ (a + 1) + i - 1 = a + i
    BY <1>1
  <2> QED BY <1>4, <2>1
<1>7. f.data = [i \in 1..m |-> f.data[i]] /\ s = [i \in 1..m |-> s[i]]
  <2>1. ASSUME NEW x \in Seq(Labels) PROVE x = [i \in 1..Len(x) |-> x[i]]
    BY <2>1
  <2>2. f.data = [i \in 1..Len(f.data) |-> f.data[i]]
    BY <1>1, <2>1
  <2>3. s = [i \in 1..Len(s) |-> s[i]]
    BY <1>4, <2>1
  <2>4. Len(f.data) = m
    BY DEF m
  <2> QED BY <1>5, <2>2, <2>3, <2>4
<1>8. (f.data = s) <=> \A i \in 1..m : f.data[i] = d[a + i]
  <2>1. ASSUME f.data = s PROVE \A i \in 1..m : f.data[i] = d[a + i]
    BY <1>6, <2>1
  <2>2. ASSUME \A i \in 1..m : f.data[i] = d[a + i] PROVE f.data = s
    <3>1. \A i \in 1..m : f.data[i] = s[i]
      BY <1>6, <2>2
    <3> QED BY <1>7, <3>1
  <2> QED BY <2>1, <2>2
<1> QED BY <1>1, <1>8 DEF a, m, s

\* Merging cuts of one datagram makes cuts of it.
LEMMA CutsClosed ==
  ASSUME NEW d \in Seq(Labels)
  PROVE  Closed(Cuts(d))
<1>1. ASSUME NEW last \in Cuts(d), NEW frag \in Cuts(d), GoesOn(last, frag)
      PROVE  Extended(last, frag) \in Cuts(d)
  <2> DEFINE e == Extended(last, frag)
  <2>1. last \in Frags /\ frag \in Frags /\ IsCut(last, d) /\ IsCut(frag, d)
    BY DEF Cuts
  <2>2. /\ e \in Frags /\ e.offset = last.offset /\ e.is_last = frag.is_last
        /\ FragmentEnd(e) = FragmentEnd(frag)
        /\ \A i \in 1..Len(e.data) :
             e.data[i] = IF i <= Len(last.data) THEN last.data[i]
                         ELSE frag.data[i + last.offset - frag.offset]
    BY <1>1, <2>1, ExtendedIs
  <2> HIDE DEF e
  <2>3. FragmentEnd(frag) <= Len(d) /\ FragmentEnd(last) <= Len(d)
        /\ (frag.is_last <=> FragmentEnd(frag) = Len(d))
    BY <2>1 DEF IsCut
  <2>4. /\ \A i \in 1..Len(last.data) : last.data[i] = d[last.offset + i]
        /\ \A i \in 1..Len(frag.data) : frag.data[i] = d[frag.offset + i]
    BY <2>1, <2>3, CutIs DEF IsCut
  <2>5. ASSUME NEW i \in 1..Len(e.data) PROVE e.data[i] = d[e.offset + i]
    <3>1. /\ last.offset \in Nat /\ frag.offset \in Nat /\ Len(last.data) \in Nat /\ Len(frag.data) \in Nat
          /\ Len(e.data) \in Nat /\ e.offset + Len(e.data) = frag.offset + Len(frag.data)
          /\ last.offset <= frag.offset /\ frag.offset <= last.offset + Len(last.data)
      BY <1>1, <2>1, <2>2, FragFacts DEF GoesOn
    <3>2. CASE i <= Len(last.data)
      BY <2>2, <2>4, <3>1, <3>2
    <3>3. CASE i > Len(last.data)
      <4>1. i + last.offset - frag.offset \in 1..Len(frag.data)
        BY <2>2, <3>1, <3>3, SMTT(30)
      <4>2. frag.offset + (i + last.offset - frag.offset) = last.offset + i
        BY <3>1
      <4>3. e.data[i] = frag.data[i + last.offset - frag.offset]
        BY <2>2, <3>1, <3>3
      <4> QED BY <2>2, <2>4, <4>1, <4>2, <4>3
    <3> QED BY <3>1, <3>2, <3>3
  <2>6. e.data = SubSeq(d, e.offset + 1, FragmentEnd(e))
    BY <2>2, <2>3, <2>5, CutIs
  <2>7. IsCut(e, d)
    BY <2>2, <2>3, <2>6 DEF IsCut
  <2> QED BY <2>2, <2>7 DEF Cuts, e
<1>2. ASSUME NEW last \in Cuts(d), NEW frag \in Cuts(d), FragmentEnd(frag) = FragmentEnd(last), frag.is_last
      PROVE  Marked(last) \in Cuts(d)
  <2>1. last \in Frags /\ IsCut(last, d) /\ IsCut(frag, d)
    BY DEF Cuts
  <2>2. last.is_last = TRUE
    <3>1. last.is_last
      BY <1>2, <2>1 DEF IsCut
    <3>2. last.is_last \in BOOLEAN
      BY <2>1 DEF Frags
    <3> QED BY <3>1, <3>2
  <2>3. Marked(last) = last
    BY <2>1, <2>2 DEF Frags, Marked
  <2> QED BY <2>3
<1>3. Cuts(d) \in SUBSET Frags
  BY DEF Cuts
<1> QED BY <1>1, <1>2, <1>3 DEF Closed

-----------------------------------------------------------------------------
(* Merging a sorted list.                                                  *)

\* A list that ends with another fragment at the same place.
LEMMA LastReplaced ==
  ASSUME NEW F, Closed(F), NEW list, Canonical(F, list), Len(list) >= 1, NEW frag \in F,
         frag.offset = list[Len(list)].offset
  PROVE  LET after == Append(Front(list), frag)
         IN  Canonical(F, after) /\ Len(after) = Len(list) /\ after[Len(after)] = frag
<1> DEFINE n     == Len(list)
           front == SubSeq(list, 1, n - 1)
           after == Append(front, frag)
<1>1. list \in Seq(F) /\ n \in Nat /\ n >= 1
  BY DEF Canonical
<1>2. front \in Seq(F) /\ Len(front) = n - 1 /\ \A i \in 1..(n - 1) : front[i] = list[i]
  <2>1. 1 \in Int /\ n - 1 \in Int /\ \A i \in 1..(n - 1) : list[i] \in F
    BY <1>1
  <2>2. /\ front \in Seq(F)
        /\ Len(front) = IF 1 <= n - 1 THEN (n - 1) - 1 + 1 ELSE 0
        /\ \A i \in 1..((n - 1) - 1 + 1) : front[i] = list[1 + i - 1]
    BY <2>1, SubSeqProperties
  <2>3. (n - 1) - 1 + 1 = n - 1 /\ \A i \in 1..(n - 1) : 1 + i - 1 = i
    BY <1>1
  <2> HIDE DEF front
  <2>4. Len(front) = n - 1
    <3> HIDE DEF n
    <3>1. CASE n = 1
      BY <2>2, <3>1
    <3>2. CASE n # 1
      BY <1>1, <2>2, <3>2
    <3> QED BY <3>1, <3>2
  <2>5. ASSUME NEW i \in 1..(n - 1) PROVE front[i] = list[i]
    <3>1. front[i] = list[1 + i - 1] /\ 1 + i - 1 = i
      BY <2>2, <2>3
    <3> QED BY <3>1
  <2> QED BY <2>2, <2>4, <2>5
<1> HIDE DEF front
<1>3. after \in Seq(F) /\ Len(after) = n
  BY <1>1, <1>2
<1>4. (\A i \in 1..(n - 1) : after[i] = list[i]) /\ after[n] = frag
  BY <1>1, <1>2
<1>5. Front(list) = front
  BY DEF Front, front
<1> HIDE DEF after
<1>6. ASSUME NEW i \in 1..n, NEW j \in 1..n, i < j PROVE FragmentEnd(after[i]) < after[j].offset
  <2>1. i \in 1..(n - 1) /\ FragmentEnd(list[i]) < list[j].offset
    BY <1>1, <1>6 DEF Canonical
  <2>2. CASE j = n
    BY <1>4, <2>1, <2>2
  <2>3. CASE j # n
    <3>1. j \in 1..(n - 1)
      BY <1>1, <2>3
    <3> QED BY <1>4, <2>1, <3>1
  <2> QED BY <2>2, <2>3
<1>7. Canonical(F, after)
  BY <1>3, <1>6 DEF Canonical
<1> QED BY <1>3, <1>4, <1>5, <1>7 DEF after

\* A list with a fragment beyond its last one.
LEMMA FragAppended ==
  ASSUME NEW F, Closed(F), NEW list, Canonical(F, list), Len(list) >= 1, NEW frag \in F,
         FragmentEnd(list[Len(list)]) < frag.offset
  PROVE  LET after == Append(list, frag)
         IN  Canonical(F, after) /\ Len(after) = Len(list) + 1 /\ after[Len(after)] = frag
<1> DEFINE n     == Len(list)
           after == Append(list, frag)
<1>1. list \in Seq(F) /\ n \in Nat /\ n >= 1
  BY DEF Canonical
<1>2. after \in Seq(F) /\ Len(after) = n + 1
  BY <1>1
<1>3. (\A i \in 1..n : after[i] = list[i]) /\ after[n + 1] = frag
  BY <1>1
<1> HIDE DEF after
<1>4. ASSUME NEW i \in 1..(n + 1), NEW j \in 1..(n + 1), i < j
      PROVE  FragmentEnd(after[i]) < after[j].offset
  <2>1. i \in 1..n
    BY <1>1, <1>4
  <2>2. CASE j = n + 1
    <3>1. CASE i = n
      BY <1>3, <2>1, <2>2, <3>1
    <3>2. CASE i # n
      <4>1. n \in 1..n /\ i < n
        BY <1>1, <2>1, <3>2
      <4>2. FragmentEnd(list[i]) < list[n].offset
        BY <2>1, <4>1 DEF Canonical
      <4>3. list[n] \in Frags /\ list[i] \in Frags /\ frag \in Frags
        BY <1>1, <2>1, <4>1 DEF Closed
      <4>4. /\ list[n].offset <= FragmentEnd(list[n]) /\ list[n].offset \in Nat
            /\ FragmentEnd(list[n]) \in Nat /\ FragmentEnd(list[i]) \in Nat /\ frag.offset \in Nat
        BY <4>3, FragFacts
      <4> QED BY <1>3, <2>1, <2>2, <4>2, <4>4
    <3> QED BY <3>1, <3>2
  <2>3. CASE j # n + 1
    <3>1. j \in 1..n
      BY <1>1, <2>3
    <3> QED BY <1>3, <1>4, <2>1, <3>1 DEF Canonical
  <2> QED BY <2>2, <2>3
<1>5. Canonical(F, after)
  BY <1>2, <1>4 DEF Canonical
<1> QED BY <1>2, <1>3, <1>5 DEF after

\* One turn of the loop keeps the list canonical.
LEMMA MergeOne ==
  ASSUME NEW F, Closed(F), NEW merged, Canonical(F, merged), Len(merged) >= 1,
         NEW frag \in F, merged[Len(merged)].offset <= frag.offset
  PROVE  LET after == MergeFragment(merged, frag)
         IN  /\ Canonical(F, after) /\ Len(after) >= 1
             /\ after[Len(after)].offset <= frag.offset
<1> DEFINE last    == merged[Len(merged)]
           overlap == FragmentEnd(last) - frag.offset
           after   == MergeFragment(merged, frag)
<1>1. last \in F /\ Len(merged) \in Nat
  <2>1. merged \in Seq(F) /\ Len(merged) \in 1..Len(merged)
    BY DEF Canonical
  <2> QED BY <2>1
<1>2. last \in Frags /\ frag \in Frags
  BY <1>1 DEF Closed
<1>3. /\ last.offset \in Nat /\ frag.offset \in Nat /\ last.offset <= frag.offset
      /\ FragmentEnd(last) \in Nat /\ FragmentEnd(frag) \in Nat
  BY <1>2, FragFacts
<1>4. Last(merged) = last
  BY DEF Last
<1> HIDE DEF last
<1>5. overlap \in Int /\ (overlap < 0 <=> FragmentEnd(last) < frag.offset)
  BY <1>3
<1>6. after = CASE overlap < 0 -> Append(merged, frag)
                [] overlap >= 0 /\ FragmentEnd(frag) > FragmentEnd(last) ->
                     Append(Front(merged), Extended(last, frag))
                [] overlap >= 0 /\ FragmentEnd(frag) = FragmentEnd(last) /\ frag.is_last ->
                     Append(Front(merged), Marked(last))
                [] OTHER -> merged
  BY <1>4, Zenon DEF MergeFragment, Extended, Marked
<1> HIDE DEF after, overlap
<1>7. CASE overlap < 0
  <2>1. after = Append(merged, frag)
    BY <1>5, <1>6, <1>7
  <2>2. FragmentEnd(merged[Len(merged)]) < frag.offset
    BY <1>5, <1>7 DEF last
  <2>3. Canonical(F, after) /\ Len(after) = Len(merged) + 1 /\ after[Len(after)] = frag
    BY <2>1, <2>2, FragAppended
  <2> QED BY <1>1, <1>3, <2>3 DEF after
<1>8. CASE overlap >= 0 /\ FragmentEnd(frag) > FragmentEnd(last)
  <2>1. after = Append(Front(merged), Extended(last, frag))
    BY <1>3, <1>5, <1>6, <1>8
  <2>2. GoesOn(last, frag)
    BY <1>3, <1>5, <1>8 DEF GoesOn
  <2>3. Extended(last, frag) \in F /\ Extended(last, frag).offset = last.offset
    BY <1>1, <1>2, <2>2, ExtendedIs DEF Closed
  <2> DEFINE e == Extended(last, frag)
  <2> HIDE DEF e
  <2>4. e \in F /\ e.offset = merged[Len(merged)].offset /\ after = Append(Front(merged), e)
    BY <2>1, <2>3 DEF e, last
  <2>5. Canonical(F, after) /\ Len(after) = Len(merged) /\ after[Len(after)] = e
    BY <2>4, LastReplaced
  <2> QED BY <1>3, <2>4, <2>5 DEF last, after
<1>9. CASE overlap >= 0 /\ FragmentEnd(frag) = FragmentEnd(last) /\ frag.is_last
  <2>1. after = Append(Front(merged), Marked(last))
    BY <1>3, <1>5, <1>6, <1>9
  <2>2. Marked(last) \in F /\ Marked(last).offset = last.offset
    BY <1>1, <1>2, <1>9 DEF Closed, Marked, Frags
  <2> DEFINE e == Marked(last)
  <2> HIDE DEF e
  <2>3. e \in F /\ e.offset = merged[Len(merged)].offset /\ after = Append(Front(merged), e)
    BY <2>1, <2>2 DEF e, last
  <2>4. Canonical(F, after) /\ Len(after) = Len(merged) /\ after[Len(after)] = e
    BY <2>3, LastReplaced
  <2> QED BY <1>3, <2>3, <2>4 DEF last, after
<1>10. CASE /\ overlap >= 0 /\ ~(FragmentEnd(frag) > FragmentEnd(last))
            /\ ~(FragmentEnd(frag) = FragmentEnd(last) /\ frag.is_last)
  <2>1. after = merged
    BY <1>5, <1>6, <1>10
  <2> QED BY <1>3, <2>1 DEF last, after
<1>11. overlap < 0 \/ overlap >= 0
  BY <1>5
<1> QED BY <1>7, <1>8, <1>9, <1>10, <1>11 DEF after

\* _merge_fragments on a sorted list.
LEMMA MergeAll ==
  ASSUME NEW F, Closed(F), NEW list \in Seq(F), Len(list) >= 1,
         \A i, j \in 1..Len(list) : i < j => list[i].offset <= list[j].offset
  PROVE  Canonical(F, MergeFragments(list)) /\ Len(MergeFragments(list)) >= 1
<1> DEFINE n    == Len(list)
           base == <<Head(list)>>
           rest == Tail(list)
<1>1. n \in Nat /\ n >= 1 /\ \A i \in 1..n : list[i] \in F /\ list[i] \in Frags
  BY DEF Closed
<1>2. /\ Head(list) = list[1] /\ rest \in Seq(F) /\ Len(rest) = n - 1
      /\ \A i \in 1..(n - 1) : rest[i] = list[i + 1]
  <2>1. list # <<>>
    BY <1>1
  <2> QED BY <1>1, <2>1, HeadTailProperties
<1>3. MergeFragments(list) = MergeFrom(base, rest)
  BY Zenon DEF MergeFragments, MergeFrom
<1>4. base \in Seq(F) /\ Len(base) = 1 /\ base[1] = list[1]
  <2>1. list[1] \in F
    BY <1>1
  <2> QED BY <1>2, <2>1
<1> HIDE DEF base, rest
<1>5. n - 1 \in Nat /\ DOMAIN rest = 1..(n - 1)
  BY <1>1, <1>2
<1>6. PICK acc : MergeSteps(acc, base, rest, n - 1)
  BY <1>5, MergeUnrolled
<1> DEFINE Good(k) ==
             /\ Canonical(F, acc[k]) /\ Len(acc[k]) >= 1
             /\ acc[k][Len(acc[k])].offset <= list[k + 1].offset
           bad == {k \in 0..(n - 1) : ~Good(k)}
<1>7. Good(0)
  <2>1. acc[0] = base
    BY <1>6 DEF MergeSteps
  <2>2. Canonical(F, base)
    BY <1>4 DEF Canonical
  <2>3. list[1].offset \in Nat /\ list[0 + 1] = list[1]
    BY <1>1, FragFacts
  <2>4. Len(base) >= 1 /\ base[Len(base)].offset <= list[0 + 1].offset
    BY <1>4, <2>3
  <2> QED BY <2>1, <2>2, <2>4
<1>8. ASSUME NEW k \in 1..(n - 1), Good(k - 1) PROVE Good(k)
  <2> DEFINE merged == acc[k - 1]
             frag   == list[k + 1]
             after  == MergeFragment(merged, frag)
  <2>1. acc[k] = after
    BY <1>2, <1>6 DEF MergeSteps
  <2>2. k \in 1..n /\ k + 1 \in 1..n /\ k < k + 1 /\ (k - 1) + 1 = k
    BY <1>1
  <2>3. frag \in F /\ frag \in Frags /\ list[k] \in Frags
    BY <1>1, <2>2
  <2>4. Canonical(F, merged) /\ Len(merged) >= 1 /\ merged[Len(merged)].offset <= list[k].offset
    BY <1>8, <2>2
  <2> HIDE DEF merged
  <2>5. merged[Len(merged)].offset <= frag.offset
    <3>1. list[k].offset <= frag.offset
      BY <2>2
    <3>2. merged[Len(merged)] \in Frags
      <4>1. merged \in Seq(F) /\ Len(merged) \in 1..Len(merged)
        BY <2>4 DEF Canonical
      <4> QED BY <4>1 DEF Closed
    <3>3. merged[Len(merged)].offset \in Nat /\ list[k].offset \in Nat /\ frag.offset \in Nat
      BY <2>3, <3>2, FragFacts
    <3> HIDE DEF frag
    <3> QED BY <2>4, <3>1, <3>3
  <2> HIDE DEF frag
  <2>6. /\ Canonical(F, after) /\ Len(after) >= 1
        /\ after[Len(after)].offset <= frag.offset
    BY <2>3, <2>4, <2>5, MergeOne
  <2> QED BY <2>1, <2>6 DEF frag
<1> HIDE DEF Good
<1>9. Good(n - 1)
  <2>1. CASE bad = {}
    BY <1>5, <2>1
  <2>2. CASE bad # {}
    <3>1. PICK k \in bad : \A j \in bad : k <= j
      <4>1. bad \in SUBSET Nat
        BY <1>5
      <4> HIDE DEF bad
      <4> QED BY <2>2, <4>1, LeastNumber
    <3>2. k \in 0..(n - 1) /\ ~Good(k)
      OBVIOUS
    <3>3. k # 0
      BY <1>7, <3>2
    <3>4. k \in 1..(n - 1) /\ k - 1 \in 0..(n - 1) /\ ~(k <= k - 1)
      BY <1>5, <3>2, <3>3
    <3>5. k - 1 \notin bad
      <4> HIDE DEF bad
      <4> QED BY <3>1, <3>4
    <3>6. Good(k - 1)
      BY <3>4, <3>5
    <3> QED BY <1>8, <3>2, <3>4, <3>6
  <2> QED BY <2>1, <2>2
<1>10. MergeFragments(list) = acc[n - 1]
  BY <1>3, <1>6 DEF MergeSteps
<1> QED BY <1>9, <1>10 DEF Good

\* The list add_fragment sorts.
LEMMA InsertedSorted ==
  ASSUME NEW F, Closed(F), NEW list, Canonical(F, list), NEW frag \in F
  PROVE  LET after == SortIn(list, frag)
         IN  /\ after \in Seq(F) /\ Len(after) >= 1
             /\ \A i, j \in 1..Len(after) : i < j => after[i].offset <= after[j].offset
<1> DEFINE n     == Len(list)
           later == {i \in DOMAIN list : list[i].offset > frag.offset}
           k     == Min(later \cup {n + 1})
           after == InsertAt(list, k, frag)
<1>1. list \in Seq(F) /\ n \in Nat /\ DOMAIN list = 1..n
  BY DEF Canonical
<1>2. frag \in Frags /\ \A i \in 1..n : list[i] \in Frags
  BY <1>1 DEF Closed
<1>3. \A i \in 1..n : /\ list[i].offset \in Nat /\ FragmentEnd(list[i]) \in Nat
                      /\ list[i].offset <= FragmentEnd(list[i])
  BY <1>2, FragFacts
<1>4. frag.offset \in Nat
  BY <1>2, FragFacts
<1>5. later = {i \in 1..n : list[i].offset > frag.offset}
  BY <1>1
<1>6. \A i, j \in 1..n : i < j => FragmentEnd(list[i]) < list[j].offset
  BY DEF Canonical
<1>7. SortIn(list, frag) = after
  BY Zenon DEF SortIn
<1> HIDE DEF n, later
<1>8. k \in later \cup {n + 1} /\ \A i \in later \cup {n + 1} : k <= i
  <2>1. later \cup {n + 1} \in SUBSET Nat /\ later \cup {n + 1} # {}
    BY <1>1, <1>5
  <2> QED BY <2>1, MinIs
<1> HIDE DEF k
<1>9. k \in 1..(n + 1)
  BY <1>1, <1>5, <1>8
<1>10. /\ after \in Seq(F) /\ Len(after) = n + 1
       /\ \A i \in 1..(n + 1) :
            after[i] = IF i < k THEN list[i] ELSE IF i = k THEN frag ELSE list[i - 1]
  <2>1. k \in 1..(Len(list) + 1)
    BY <1>9 DEF n
  <2> QED BY <1>1, <2>1, Inserted DEF n
<1> HIDE DEF after
<1>11. ASSUME NEW i \in 1..n, i < k PROVE list[i].offset <= frag.offset
  <2>1. i \notin later
    BY <1>8, <1>9, <1>11
  <2> QED BY <1>3, <1>4, <1>5, <2>1
<1>12. ASSUME NEW i \in 1..n, k <= i PROVE frag.offset < list[i].offset
  <2>1. k \in 1..n /\ k \in later
    BY <1>1, <1>8, <1>9, <1>12
  <2>2. frag.offset < list[k].offset
    BY <1>3, <1>4, <1>5, <2>1
  <2>3. CASE i = k
    BY <2>2, <2>3
  <2>4. CASE i # k
    <3>1. k < i /\ FragmentEnd(list[k]) < list[i].offset
      BY <1>6, <1>12, <2>1, <2>4
    <3> QED BY <1>3, <1>4, <2>1, <2>2, <3>1
  <2> QED BY <2>3, <2>4
<1>13. ASSUME NEW i \in 1..(n + 1), NEW j \in 1..(n + 1), i < j
       PROVE  after[i].offset <= after[j].offset
  <2>1. CASE j < k
    <3>1. i \in 1..n /\ j \in 1..n /\ i < k
      BY <1>1, <1>9, <1>13, <2>1
    <3>2. after[i] = list[i] /\ after[j] = list[j] /\ FragmentEnd(list[i]) < list[j].offset
      BY <1>6, <1>10, <1>13, <2>1, <3>1
    <3> QED BY <1>3, <3>1, <3>2
  <2>2. CASE j = k
    <3>1. i \in 1..n /\ i < k /\ ~(j < k)
      BY <1>1, <1>9, <1>13, <2>2
    <3>2. after[i] = list[i] /\ after[j] = frag
      BY <1>10, <2>2, <3>1
    <3> QED BY <1>11, <3>1, <3>2
  <2>3. CASE j > k
    <3>1. j - 1 \in 1..n /\ k <= j - 1 /\ ~(j < k) /\ j # k
      BY <1>1, <1>9, <2>3
    <3>2. after[j] = list[j - 1] /\ frag.offset < list[j - 1].offset
      BY <1>10, <1>12, <3>1
    <3>3. CASE i < k
      <4>1. i \in 1..n
        BY <1>1, <1>9, <3>3
      <4>2. after[i] = list[i] /\ list[i].offset <= frag.offset
        BY <1>10, <1>11, <3>3, <4>1
      <4> QED BY <1>3, <1>4, <3>1, <3>2, <4>1, <4>2
    <3>4. CASE i = k
      <4>1. after[i] = frag
        BY <1>9, <1>10, <3>4
      <4> QED BY <1>3, <1>4, <3>1, <3>2, <4>1
    <3>5. CASE i > k
      <4>1. i - 1 \in 1..n /\ i - 1 < j - 1 /\ ~(i < k) /\ i # k
        BY <1>1, <1>9, <1>13, <3>1, <3>5
      <4>2. after[i] = list[i - 1] /\ FragmentEnd(list[i - 1]) < list[j - 1].offset
        BY <1>6, <1>10, <3>1, <4>1
      <4> QED BY <1>3, <3>1, <3>2, <4>1, <4>2
    <3> QED BY <1>9, <3>3, <3>4, <3>5
  <2> QED BY <1>9, <2>1, <2>2, <2>3
<1>14. /\ after \in Seq(F) /\ Len(after) >= 1
       /\ \A i, j \in 1..Len(after) : i < j => after[i].offset <= after[j].offset
  BY <1>1, <1>10, <1>13
<1> QED BY <1>7, <1>14 DEF after

\* The list after add_fragment, which is not empty.
LEMMA AddedCanonical ==
  ASSUME NEW F, Closed(F), NEW list, Canonical(F, list), NEW frag \in F
  PROVE  LET after == MergeFragments(SortIn(list, frag))
         IN  Canonical(F, after) /\ Len(after) >= 1
<1> DEFINE sorted == SortIn(list, frag)
<1>1. /\ sorted \in Seq(F) /\ Len(sorted) >= 1
      /\ \A i, j \in 1..Len(sorted) : i < j => sorted[i].offset <= sorted[j].offset
  BY InsertedSorted
<1> HIDE DEF sorted
<1>2. Canonical(F, MergeFragments(sorted)) /\ Len(MergeFragments(sorted)) >= 1
  BY <1>1, MergeAll
<1> QED BY <1>2 DEF sorted

-----------------------------------------------------------------------------
(* The unlocked counter.                                                   *)

Steps == {"idle", "expire", "load", "store", "add"}

\* A thread between its load and its store holds a count below the fragments that entered,
\* or one that is no longer anybody's: reset has replaced the object it was read from.
CountInv ==
  /\ epoch \in Nat /\ entered \in Nat
  /\ DOMAIN stats = StatNames /\ stats.total_fragments \in Nat
  /\ loaded \in [Threads -> Nat \X Nat]
  /\ pc \in [Threads -> Steps]
  /\ \A t \in Threads : loaded[t][1] <= epoch
  /\ \A t \in Threads : pc[t] = "store" /\ loaded[t][1] = epoch => loaded[t][2] < entered
  /\ NeverOvercounted

\* It holds at the start.
LEMMA CountInit == Init => CountInv
  BY DEF Init, CountInv, NeverOvercounted, ZeroStats, StatNames, Steps

\* Every step keeps it.
LEMMA CountStep == CountInv /\ [Next]_vars => CountInv'
<1> SUFFICES ASSUME CountInv, [Next]_vars PROVE CountInv'
  OBVIOUS
<1> USE DEF CountInv, NeverOvercounted
<1>1. CASE Tick
  BY <1>1 DEF Tick
<1>2. CASE Reset
  <2>1. /\ epoch' = epoch + 1 /\ entered' = 0 /\ stats' = ZeroStats
        /\ loaded' = loaded /\ pc' = pc
    BY <1>2 DEF Reset
  <2>2. DOMAIN stats' = StatNames /\ stats'.total_fragments = 0
    BY <2>1 DEF ZeroStats, StatNames
  <2>3. \A t \in Threads : loaded[t][1] \in Nat /\ loaded[t][1] < epoch + 1
    OBVIOUS
  <2> QED BY <2>1, <2>2, <2>3
<1>3. ASSUME NEW p \in Packets, PassThrough(p) PROVE CountInv'
  BY <1>3 DEF PassThrough
<1>4. ASSUME NEW t \in Threads, NEW p \in Packets, Call(t, p) PROVE CountInv'
  BY <1>4 DEF Call, Steps
<1>5. ASSUME NEW t \in Threads, CleanupExpired(t) PROVE CountInv'
  <2>1. /\ pc' = [pc EXCEPT ![t] = "load"] /\ UNCHANGED <<epoch, loaded, entered>>
        /\ DOMAIN stats' = DOMAIN stats /\ stats'.total_fragments = stats.total_fragments
    BY <1>5 DEF CleanupExpired, StatNames
  <2> QED BY <2>1 DEF Steps
<1>6. ASSUME NEW t \in Threads, LoadCount(t) PROVE CountInv'
  <2>1. /\ loaded' = [loaded EXCEPT ![t] = <<epoch, stats.total_fragments>>]
        /\ entered' = entered + 1 /\ pc' = [pc EXCEPT ![t] = "store"]
        /\ UNCHANGED <<stats, epoch>>
    BY <1>6 DEF LoadCount
  <2>2. pc' \in [Threads -> Steps] /\ loaded' \in [Threads -> Nat \X Nat]
    BY <2>1 DEF Steps
  <2>3. ASSUME NEW s \in Threads
        PROVE  /\ loaded'[s][1] <= epoch
               /\ pc'[s] = "store" /\ loaded'[s][1] = epoch => loaded'[s][2] < entered + 1
    BY <2>1
  <2> QED BY <2>1, <2>2, <2>3
<1>7. ASSUME NEW t \in Threads, StoreCount(t) PROVE CountInv'
  <2>1. /\ pc[t] = "store" /\ loaded' = [loaded EXCEPT ![t] = <<0, 0>>]
        /\ pc' = [pc EXCEPT ![t] = "add"] /\ UNCHANGED <<epoch, entered>>
        /\ stats' = IF loaded[t][1] = epoch
                    THEN [stats EXCEPT !.total_fragments = loaded[t][2] + 1] ELSE stats
    BY <1>7 DEF StoreCount
  <2>2. pc' \in [Threads -> Steps] /\ loaded' \in [Threads -> Nat \X Nat]
    BY <2>1 DEF Steps
  <2>3. /\ DOMAIN stats' = StatNames /\ stats'.total_fragments \in Nat
        /\ stats'.total_fragments <= entered
    BY <2>1 DEF StatNames
  <2>4. ASSUME NEW s \in Threads
        PROVE  /\ loaded'[s][1] <= epoch
               /\ pc'[s] = "store" /\ loaded'[s][1] = epoch => loaded'[s][2] < entered
    BY <2>1
  <2> QED BY <2>1, <2>2, <2>3, <2>4
<1>8. ASSUME NEW t \in Threads, Add(t) PROVE CountInv'
  <2>1. /\ pc' = [pc EXCEPT ![t] = "idle"] /\ UNCHANGED <<epoch, loaded, entered>>
        /\ stats' = stats \/ stats' = [stats EXCEPT !.reassembled_datagrams = @ + 1]
    BY <1>8, Zenon DEF Add
  <2>2. DOMAIN stats' = DOMAIN stats /\ stats'.total_fragments = stats.total_fragments
    BY <2>1 DEF StatNames
  <2> QED BY <2>1, <2>2 DEF Steps
<1>9. CASE UNCHANGED vars
  BY <1>9 DEF vars
<1> QED BY <1>1, <1>2, <1>3, <1>4, <1>5, <1>6, <1>7, <1>8, <1>9 DEF Next

\* The count that process keeps without the lock may lose fragments but never invents one,
\* however many threads interleave and however often reset comes between a load and its store
\* (process and reset).
THEOREM CountNeverInvents == Spec => []NeverOvercounted
<1>1. CountInv => NeverOvercounted
  BY DEF CountInv
<1> QED BY CountInit, CountStep, <1>1, PTL DEF Spec

-----------------------------------------------------------------------------
(* The buffers.                                                            *)

\* An empty list is canonical, and so is what a new buffer holds.
LEMMA EmptyCanonical == ASSUME NEW F PROVE Canonical(F, <<>>)
<1>1. <<>> \in Seq(F) /\ Len(<<>>) = 0
  OBVIOUS
<1> QED BY <1>1 DEF Canonical

\* The buffer a fragment is added to, and the one with it.
Before(t) == IF call[t].key \in DOMAIN buffers THEN buffers[call[t].key] ELSE NewBuffer(clock)
Added(t) == Fragment(call[t].offset, call[t].data, call[t].is_last)
After(t) == AddFragment(Before(t), Added(t), clock)
Ready(t) == IsComplete(After(t).fragments)
Fits(t) == HeaderLen + Len(AssembleData(After(t).fragments)) <= MaxTotalLen

\* What the second critical section does to the table.
LEMMA AddIs ==
  ASSUME NEW t \in Threads, Add(t)
  PROVE  /\ pc[t] = "add"
         /\ ~Ready(t) => Store(call[t].key, After(t)) /\ returned' = returned
         /\ Ready(t) /\ Fits(t) =>
              /\ buffers' = Restrict(buffers, DOMAIN buffers \ {call[t].key})
              /\ returned' = returned \cup
                   {[key |-> call[t].key, data |-> AssembleData(After(t).fragments)]}
         /\ Ready(t) /\ ~Fits(t) => Store(call[t].key, After(t)) /\ returned' = returned
         /\ call' = [call EXCEPT ![t] = NoCall] /\ pc' = [pc EXCEPT ![t] = "idle"]
         /\ clock' = clock
  BY Zenon DEF Add, LengthFits, Before, Added, After, Ready, Fits

\* The buffer after a fragment was added.
LEMMA AfterIs ==
  ASSUME NEW t \in Threads
  PROVE  /\ After(t).fragments = MergeFragments(SortIn(Before(t).fragments, Added(t)))
         /\ After(t).last_update = clock
  BY DEF After, AddFragment

\* A captured packet carries a fragment.
LEMMA AddedTyped ==
  ASSUME NEW t \in Threads, call[t] \in Packets
  PROVE  /\ Added(t) \in Frags
         /\ \A d : IsCut(call[t], d) => IsCut(Added(t), d)
<1>1. Added(t) \in Frags
  BY IPReassemblerAssumption DEF Added, Fragment, Frags
<1>2. FragmentEnd(Added(t)) = FragmentEnd(call[t])
  BY DEF Added, Fragment, FragmentEnd
<1> QED BY <1>1, <1>2 DEF IsCut, Added, Fragment

\* Every buffer holds at least one fragment, and its list is canonical; only a packet that was
\* captured is on its way.
TableInv ==
  /\ pc \in [Threads -> Steps]
  /\ call \in [Threads -> Packets \cup {NoCall}]
  /\ \A t \in Threads : pc[t] # "idle" => call[t] \in Packets
  /\ \A k \in DOMAIN buffers :
       Canonical(Frags, buffers[k].fragments) /\ Len(buffers[k].fragments) >= 1

\* It holds at the start.
LEMMA TableInit == Init => TableInv
  BY DEF Init, TableInv, Steps

\* Every step keeps it.
LEMMA TableStep == TableInv /\ [Next]_vars => TableInv'
<1> SUFFICES ASSUME TableInv, [Next]_vars PROVE TableInv'
  OBVIOUS
<1>1. CASE Tick
  BY <1>1 DEF Tick, TableInv
<1>2. CASE Reset
  BY <1>2 DEF Reset, TableInv
<1>3. ASSUME NEW p \in Packets, PassThrough(p) PROVE TableInv'
  BY <1>3 DEF PassThrough, TableInv
<1>4. ASSUME NEW t \in Threads, NEW p \in Packets, Call(t, p) PROVE TableInv'
  BY <1>4 DEF Call, TableInv, Steps
<1>5. ASSUME NEW t \in Threads, CleanupExpired(t) PROVE TableInv'
  <2>1. /\ pc[t] = "expire" /\ pc' = [pc EXCEPT ![t] = "load"] /\ call' = call
        /\ DOMAIN buffers' \subseteq DOMAIN buffers
        /\ \A k \in DOMAIN buffers' : buffers'[k] = buffers[k]
    BY <1>5 DEF CleanupExpired, Restrict
  <2> QED BY <2>1 DEF TableInv, Steps
<1>6. ASSUME NEW t \in Threads, LoadCount(t) PROVE TableInv'
  BY <1>6 DEF LoadCount, TableInv, Steps
<1>7. ASSUME NEW t \in Threads, StoreCount(t) PROVE TableInv'
  BY <1>7 DEF StoreCount, TableInv, Steps
<1>8. ASSUME NEW t \in Threads, Add(t) PROVE TableInv'
  <2>1. /\ pc[t] = "add" /\ call' = [call EXCEPT ![t] = NoCall] /\ pc' = [pc EXCEPT ![t] = "idle"]
        /\ \/ Store(call[t].key, After(t))
           \/ buffers' = Restrict(buffers, DOMAIN buffers \ {call[t].key})
    BY <1>8, AddIs, Zenon
  <2>2. /\ pc' \in [Threads -> Steps] /\ call' \in [Threads -> Packets \cup {NoCall}]
        /\ \A s \in Threads : pc'[s] # "idle" => call'[s] \in Packets
    BY <2>1 DEF TableInv, Steps
  <2>3. Canonical(Frags, Before(t).fragments)
    <3>1. NewBuffer(clock).fragments = <<>>
      BY DEF NewBuffer
    <3> QED BY <3>1, EmptyCanonical DEF Before, TableInv
  <2>4. Added(t) \in Frags
    BY <2>1, AddedTyped DEF TableInv
  <2>5. Canonical(Frags, After(t).fragments) /\ Len(After(t).fragments) >= 1
    BY <2>3, <2>4, FragsClosed, AddedCanonical, AfterIs
  <2>6. ASSUME NEW k \in DOMAIN buffers'
        PROVE  Canonical(Frags, buffers'[k].fragments) /\ Len(buffers'[k].fragments) >= 1
    <3>1. buffers'[k] = After(t) \/ (k \in DOMAIN buffers /\ buffers'[k] = buffers[k])
      BY <2>1, <2>6 DEF Store, Restrict
    <3> QED BY <2>5, <3>1 DEF TableInv
  <2> QED BY <2>2, <2>6 DEF TableInv
<1>9. CASE UNCHANGED vars
  BY <1>9 DEF vars, TableInv
<1> QED BY <1>1, <1>2, <1>3, <1>4, <1>5, <1>6, <1>7, <1>8, <1>9 DEF Next

\* One pass over the sorted list leaves fragments that neither overlap nor touch, whatever
\* way the datagrams were cut and in whatever order the cuts come: add_fragment never has to
\* merge twice (IPReassemblyBuffer._merge_fragments).
THEOREM BuffersStayCanonical == Spec => []BuffersCanonical
<1>1. TableInv => BuffersCanonical
  <2> SUFFICES ASSUME TableInv, NEW k \in DOMAIN buffers
               PROVE  /\ buffers[k].fragments # <<>>
                      /\ \A i \in 1..(Len(buffers[k].fragments) - 1) :
                           FragmentEnd(buffers[k].fragments[i]) < buffers[k].fragments[i + 1].offset
    BY DEF BuffersCanonical
  <2> DEFINE list == buffers[k].fragments
  <2>1. Canonical(Frags, list) /\ Len(list) >= 1
    BY DEF TableInv
  <2> HIDE DEF list
  <2>2. list \in Seq(Frags) /\ Len(list) \in Nat /\ list # <<>>
    BY <2>1 DEF Canonical
  <2>3. ASSUME NEW i \in 1..(Len(list) - 1) PROVE FragmentEnd(list[i]) < list[i + 1].offset
    <3>1. i \in 1..Len(list) /\ i + 1 \in 1..Len(list) /\ i < i + 1
      BY <2>2
    <3> QED BY <2>1, <3>1 DEF Canonical
  <2> QED BY <2>2, <2>3 DEF list
<1> QED BY TableInit, TableStep, <1>1, PTL DEF Spec

-----------------------------------------------------------------------------
(* The datagrams.                                                          *)

Whole(p) == Datagram(p.key, p.sent)

\* A complete list of cuts of one datagram is that datagram, in one fragment.
LEMMA CompleteIsWhole ==
  ASSUME NEW d \in Seq(Labels), NEW list, Canonical(Cuts(d), list), IsComplete(list)
  PROVE  AssembleData(list) = d
<1>1. list \in Seq(Cuts(d)) /\ Len(list) \in Nat /\ list # <<>>
  BY DEF Canonical, IsComplete
<1>2. Len(list) >= 1
  BY <1>1
<1>3. ~(Len(list) >= 2)
  <2> SUFFICES ASSUME Len(list) >= 2 PROVE FALSE
    OBVIOUS
  <2>1. 1 \in 1..Len(list) /\ 2 \in 1..Len(list) /\ 2 \in 2..Len(list) /\ 1..(2 - 1) = {1}
    BY <1>1
  <2>2. list[2].offset <= FragmentEnd(list[1])
    BY <2>1 DEF IsComplete
  <2>3. FragmentEnd(list[1]) < list[2].offset
    BY <2>1 DEF Canonical
  <2>4. list[1] \in Frags /\ list[2] \in Frags
    BY <1>1, <2>1 DEF Cuts
  <2>5. FragmentEnd(list[1]) \in Nat /\ list[2].offset \in Nat
    BY <2>4, FragFacts
  <2> QED BY <2>2, <2>3, <2>5
<1>4. Len(list) = 1
  <2> DEFINE n == Len(list)
  <2>1. n \in Nat /\ n >= 1 /\ ~(n >= 2)
    BY <1>1, <1>2, <1>3
  <2> HIDE DEF n
  <2>2. n = 1
    BY <2>1
  <2> QED BY <2>2 DEF n
<1>5. list[1] \in Frags /\ IsCut(list[1], d)
  BY <1>1, <1>4 DEF Cuts
<1>6. list[1].offset = 0 /\ list[1].is_last
  BY <1>1, <1>4 DEF IsComplete, Last
<1>7. FragmentEnd(list[1]) = Len(d) /\ list[1].data = SubSeq(d, 0 + 1, FragmentEnd(list[1]))
  BY <1>5, <1>6 DEF IsCut
<1>8. list[1].data = d
  <2>1. list[1].data = SubSeq(d, 1, Len(d))
    BY <1>7
  <2> QED BY <2>1, SubSeqFull
<1>9. [i \in DOMAIN list |-> list[i].data] = [i \in 1..1 |-> d]
  BY <1>1, <1>4, <1>8
<1>10. AssembleData(list) = FlattenSeq([i \in 1..1 |-> d])
  BY <1>9, Zenon DEF AssembleData
<1> QED BY <1>10, FlattenOne

\* A canonical list of cuts that covers the datagram is complete.
LEMMA CoveredIsComplete ==
  ASSUME NEW d \in Seq(Labels), NEW list, Canonical(Cuts(d), list), Len(list) >= 1,
         UNION {Blocks(f) : f \in ToSet(list)} = 0..(Len(d) - 1)
  PROVE  IsComplete(list)
<1> DEFINE n == Len(list)
           size == Len(d)
<1>1. list \in Seq(Cuts(d)) /\ n \in Nat /\ n >= 1 /\ size \in Nat
  BY DEF Canonical
<1>2. \A i \in 1..n : list[i] \in Frags /\ IsCut(list[i], d)
  BY <1>1 DEF Cuts
<1>3. \A i \in 1..n : /\ list[i].offset \in Nat /\ FragmentEnd(list[i]) \in Nat
                      /\ list[i].offset <= FragmentEnd(list[i])
                      /\ FragmentEnd(list[i]) <= size
                      /\ (list[i].is_last <=> FragmentEnd(list[i]) = size)
  BY <1>2, FragFacts DEF IsCut
<1>4. \A i, j \in 1..n : i < j => FragmentEnd(list[i]) < list[j].offset
  BY DEF Canonical
<1>5. ASSUME NEW b \in 0..(size - 1)
      PROVE  \E i \in 1..n : list[i].offset <= b /\ b < FragmentEnd(list[i])
  <2>1. PICK f \in ToSet(list) : b \in Blocks(f)
    BY <1>5
  <2>2. PICK i \in 1..n : f = list[i]
    BY <1>1, <2>1 DEF ToSet
  <2>3. list[i].offset <= b /\ b < FragmentEnd(list[i])
    BY <1>3, <2>1, <2>2 DEF Blocks
  <2> QED BY <2>3
<1> HIDE DEF n, size
<1>6. n = 1
  <2> SUFFICES ASSUME n # 1 PROVE FALSE
    OBVIOUS
  <2>1. 1 \in 1..n /\ 2 \in 1..n
    BY <1>1
  <2> DEFINE e == FragmentEnd(list[1])
  <2>2. e \in Nat /\ e < list[2].offset /\ list[2].offset <= size
    <3>1. e \in Nat /\ e < list[2].offset
      BY <1>3, <1>4, <2>1
    <3>2. /\ list[2].offset \in Nat /\ FragmentEnd(list[2]) \in Nat
          /\ list[2].offset <= FragmentEnd(list[2]) /\ FragmentEnd(list[2]) <= size
      BY <1>3, <2>1
    <3> QED BY <1>1, <3>1, <3>2
  <2>3. e \in 0..(size - 1)
    BY <1>1, <1>3, <2>1, <2>2
  <2>4. PICK i \in 1..n : list[i].offset <= e /\ e < FragmentEnd(list[i])
    BY <1>5, <2>3
  <2>5. CASE i = 1
    BY <2>2, <2>4, <2>5
  <2>6. CASE i # 1
    <3>1. 1 < i
      BY <1>1, <2>4, <2>6
    <3>2. e < list[i].offset
      BY <1>4, <2>1, <2>4, <3>1
    <3> QED BY <1>3, <2>2, <2>4, <3>2
  <2> QED BY <2>5, <2>6
<1>7. 1 \in 1..n
  BY <1>6
<1>8. list[1].offset = 0 /\ FragmentEnd(list[1]) = size
  <2>1. CASE size = 0
    BY <1>3, <1>7, <2>1
  <2>2. CASE size # 0
    <3>1. 0 \in 0..(size - 1) /\ size - 1 \in 0..(size - 1)
      BY <1>1, <2>2
    <3>2. \E i \in 1..n : list[i].offset <= 0 /\ 0 < FragmentEnd(list[i])
      BY <1>5, <3>1
    <3>3. \E i \in 1..n : list[i].offset <= size - 1 /\ size - 1 < FragmentEnd(list[i])
      BY <1>5, <3>1
    <3>4. list[1].offset <= 0 /\ size - 1 < FragmentEnd(list[1])
      BY <1>6, <3>2, <3>3
    <3> QED BY <1>1, <1>3, <1>7, <3>4
  <2> QED BY <2>1, <2>2
<1>9. list[1].is_last
  BY <1>3, <1>7, <1>8
<1>10. list # <<>> /\ Head(list) = list[1] /\ Last(list) = list[1] /\ 2..Len(list) = {}
  <2>1. Len(list) = 1
    BY <1>6 DEF n
  <2>2. list # <<>> /\ Last(list) = list[1] /\ 2..Len(list) = {}
    <3>1. list # <<>>
      <4>1. Len(<<>>) = 0
        OBVIOUS
      <4> QED BY <2>1, <4>1
    <3>2. Last(list) = list[1]
      BY <2>1 DEF Last
    <3>3. 2..1 = {}
      OBVIOUS
    <3> QED BY <2>1, <3>1, <3>2, <3>3
  <2> QED BY <1>1, <2>2, HeadTailProperties
<1> QED BY <1>8, <1>9, <1>10 DEF IsComplete

\* The buffer k holds cuts of the datagram of p, in p's time, and is not due.
HeldFrom(k, p) ==
  /\ p.key = k
  /\ buffers[k].last_update \in p.sent..(p.sent + Lifetime)
  /\ buffers[k].last_update <= clock
  /\ Canonical(Cuts(Whole(p)), buffers[k].fragments) /\ Len(buffers[k].fragments) >= 1
  /\ IsComplete(buffers[k].fragments) => ~(HeaderLen + Len(Whole(p)) <= MaxTotalLen)

\* While a fragment is on its way no time passes, so it is still within its lifetime when it is
\* added, and no buffer that the expiry of its call left can be older than Timeout.
DatagramInv ==
  /\ clock \in Nat
  /\ pc \in [Threads -> Steps]
  /\ call \in [Threads -> Packets \cup {NoCall}]
  /\ \A t \in Threads :
       pc[t] # "idle" => call[t] \in Packets /\ clock \in call[t].sent..(call[t].sent + Lifetime)
  /\ \A t \in Threads : pc[t] \in {"load", "store", "add"} =>
       \A k \in DOMAIN buffers : clock - buffers[k].last_update <= Timeout
  /\ \A k \in DOMAIN buffers : \E p \in Packets : HeldFrom(k, p)
  /\ Intact

\* A buffer is as it was when neither it nor the time has gone back.
LEMMA HeldStays ==
  ASSUME NEW k, NEW p \in Packets, HeldFrom(k, p), buffers'[k] = buffers[k],
         clock \in Nat, clock' \in Nat, clock <= clock'
  PROVE  HeldFrom(k, p)'
<1>1. buffers[k].last_update <= clock'
  <2>1. buffers[k].last_update \in Int /\ buffers[k].last_update <= clock
    BY IPReassemblerAssumption DEF HeldFrom
  <2> QED BY <2>1
<1> QED BY <1>1 DEF HeldFrom, Whole, Datagram

\* What was sent with one identification within one lifetime is one datagram.
LEMMA OneDatagram ==
  ASSUME HonestSenders, NEW p \in Packets, NEW q \in Packets, p.key = q.key,
         NEW a \in Nat, NEW b \in Nat, a <= b, b - a <= Timeout,
         a \in q.sent..(q.sent + Lifetime), b \in p.sent..(p.sent + Lifetime)
  PROVE  Whole(p) = Whole(q) /\ p.sent = q.sent
<1>1. p.sent \in Nat /\ q.sent \in Nat /\ Lifetime \in Nat /\ Timeout \in Nat
  BY IPReassemblerAssumption
<1>2. ~(p.sent < q.sent)
  <2>1. p.sent < q.sent => p.sent + Lifetime + Timeout < q.sent
    BY DEF HonestSenders
  <2> QED BY <1>1, <2>1
<1>3. ~(q.sent < p.sent)
  <2>1. q.sent < p.sent => q.sent + Lifetime + Timeout < p.sent
    BY DEF HonestSenders
  <2> QED BY <1>1, <2>1
<1>4. p.sent = q.sent
  BY <1>1, <1>2, <1>3
<1> QED BY <1>4 DEF Whole

\* It holds at the start.
LEMMA DatagramInit == Init => DatagramInv
  BY DEF Init, DatagramInv, Intact, Steps

\* Adding a fragment to the buffer of its datagram gives a buffer of that datagram; a complete
\* one is the datagram.
LEMMA AddedToDatagram ==
  ASSUME HonestSenders, DatagramInv, NEW t \in Threads, pc[t] = "add"
  PROVE  /\ call[t] \in Packets
         /\ Canonical(Cuts(Whole(call[t])), After(t).fragments) /\ Len(After(t).fragments) >= 1
         /\ After(t).last_update \in call[t].sent..(call[t].sent + Lifetime)
         /\ Ready(t) => AssembleData(After(t).fragments) = Whole(call[t])
<1> DEFINE p == call[t]
           d == Whole(p)
<1>1. p \in Packets /\ clock \in p.sent..(p.sent + Lifetime) /\ clock \in Nat
  BY DEF DatagramInv
<1>2. d \in Seq(Labels) /\ IsCut(p, d)
  BY <1>1 DEF HonestSenders, Whole
<1>3. Added(t) \in Cuts(d)
  BY <1>1, <1>2, AddedTyped DEF Cuts
<1>4. Canonical(Cuts(d), Before(t).fragments)
  <2>1. CASE p.key \in DOMAIN buffers
    <3>1. PICK q \in Packets : HeldFrom(p.key, q)
      BY <2>1 DEF DatagramInv
    <3> DEFINE last == buffers[p.key].last_update
    <3>2. /\ q.key = p.key /\ last \in q.sent..(q.sent + Lifetime) /\ last <= clock
          /\ Canonical(Cuts(Whole(q)), buffers[p.key].fragments)
      BY <3>1 DEF HeldFrom
    <3>3. clock - last <= Timeout
      BY <2>1 DEF DatagramInv
    <3> HIDE DEF last, p
    <3>4. last \in Nat
      BY <3>2, IPReassemblerAssumption
    <3>5. Whole(q) = Whole(p)
      BY <1>1, <3>2, <3>3, <3>4, OneDatagram
    <3>6. Canonical(Cuts(Whole(p)), buffers[p.key].fragments)
      BY <3>2, <3>5
    <3> QED BY <2>1, <3>6 DEF Before, p
  <2>2. CASE p.key \notin DOMAIN buffers
    <3>1. Before(t).fragments = <<>>
      BY <2>2 DEF Before, NewBuffer
    <3> QED BY <3>1, EmptyCanonical
  <2> QED BY <2>1, <2>2
<1> HIDE DEF d
<1>5. Canonical(Cuts(d), After(t).fragments) /\ Len(After(t).fragments) >= 1
  <2>1. Closed(Cuts(d))
    BY <1>2, CutsClosed
  <2> QED BY <1>3, <1>4, <2>1, AddedCanonical, AfterIs
<1>6. Ready(t) => AssembleData(After(t).fragments) = d
  BY <1>2, <1>5, CompleteIsWhole DEF Ready
<1> QED BY <1>1, <1>5, <1>6, AfterIs DEF d

\* Every step keeps it.
LEMMA DatagramStep ==
  ASSUME HonestSenders, ~CallsTakeTime
  PROVE  DatagramInv /\ [Next]_vars => DatagramInv'
<1> SUFFICES ASSUME DatagramInv, [Next]_vars PROVE DatagramInv'
  OBVIOUS
<1>1. CASE Tick
  <2>1. clock' \in Nat /\ clock <= clock' /\ \A t \in Threads : pc[t] = "idle"
    BY <1>1 DEF Tick, DatagramInv
  <2>2. UNCHANGED <<buffers, pc, call, returned>>
    BY <1>1 DEF Tick
  <2>3. ASSUME NEW k \in DOMAIN buffers' PROVE \E p \in Packets : HeldFrom(k, p)'
    <3>1. PICK p \in Packets : HeldFrom(k, p)
      BY <2>2 DEF DatagramInv
    <3>2. HeldFrom(k, p)'
      BY <2>1, <2>2, <3>1, HeldStays DEF DatagramInv
    <3> QED BY <3>2
  <2>4. Intact'
    BY <2>2 DEF DatagramInv, Intact, Datagram
  <2> QED BY <2>1, <2>2, <2>3, <2>4 DEF DatagramInv
<1>2. ASSUME clock' = clock, buffers' = buffers PROVE (\A k \in DOMAIN buffers : \E p \in Packets : HeldFrom(k, p))'
  BY <1>2 DEF DatagramInv, HeldFrom, Whole, Datagram
<1>3. CASE Reset
  <2>1. UNCHANGED <<clock, pc, call, returned>> /\ buffers' = <<>>
    BY <1>3 DEF Reset
  <2>2. DOMAIN buffers' = {}
    BY <2>1
  <2>3. Intact'
    BY <2>1 DEF DatagramInv, Intact, Datagram
  <2> QED BY <2>1, <2>2, <2>3 DEF DatagramInv
<1>4. ASSUME NEW p \in Packets, PassThrough(p) PROVE DatagramInv'
  <2>1. /\ UNCHANGED <<clock, buffers, pc, call>> /\ ~IsFragmented(p)
        /\ returned' = returned \cup {[key |-> p.key, data |-> p.data]}
    BY <1>4 DEF PassThrough
  <2>2. p.data = Whole(p)
    <3> DEFINE d == Whole(p)
    <3>1. d \in Seq(Labels) /\ IsCut(p, d)
      BY DEF HonestSenders, Whole
    <3> HIDE DEF d
    <3>2. p.offset = 0 /\ p.is_last
      BY <2>1, IPReassemblerAssumption DEF IsFragmented
    <3>3. FragmentEnd(p) = Len(d) /\ p.data = SubSeq(d, 0 + 1, FragmentEnd(p))
      BY <3>1, <3>2 DEF IsCut
    <3>4. p.data = SubSeq(d, 1, Len(d))
      BY <3>3
    <3>5. p.data = d
      BY <3>1, <3>4, SubSeqFull
    <3> QED BY <3>5 DEF d
  <2>3. Intact'
    BY <2>1, <2>2 DEF DatagramInv, Intact, Whole, Datagram
  <2> QED BY <1>2, <2>1, <2>3 DEF DatagramInv
<1>5. ASSUME NEW t \in Threads, NEW p \in Packets, Call(t, p) PROVE DatagramInv'
  <2>1. /\ UNCHANGED <<clock, buffers, returned>> /\ clock \in p.sent..(p.sent + Lifetime)
        /\ call' = [call EXCEPT ![t] = p] /\ pc' = [pc EXCEPT ![t] = "expire"]
    BY <1>5 DEF Call, OnTheWire
  <2>2. /\ pc' \in [Threads -> Steps] /\ call' \in [Threads -> Packets \cup {NoCall}]
        /\ \A s \in Threads :
             pc'[s] # "idle" => call'[s] \in Packets /\ clock \in call'[s].sent..(call'[s].sent + Lifetime)
        /\ \A s \in Threads : pc'[s] \in {"load", "store", "add"} => pc[s] \in {"load", "store", "add"}
    BY <2>1 DEF DatagramInv, Steps
  <2>3. Intact'
    BY <2>1 DEF DatagramInv, Intact, Datagram
  <2> QED BY <1>2, <2>1, <2>2, <2>3 DEF DatagramInv
<1>6. ASSUME NEW t \in Threads, CleanupExpired(t) PROVE DatagramInv'
  <2>1. /\ UNCHANGED <<clock, call, returned>> /\ pc[t] = "expire" /\ pc' = [pc EXCEPT ![t] = "load"]
        /\ DOMAIN buffers' = {k \in DOMAIN buffers : ~IsExpired(buffers[k])}
        /\ \A k \in DOMAIN buffers' : buffers'[k] = buffers[k]
    BY <1>6 DEF CleanupExpired, Restrict
  <2>2. /\ pc' \in [Threads -> Steps]
        /\ \A s \in Threads : pc'[s] # "idle" => pc[s] # "idle"
    BY <2>1 DEF DatagramInv, Steps
  <2>3. ASSUME NEW k \in DOMAIN buffers'
        PROVE  clock - buffers'[k].last_update <= Timeout /\ \E p \in Packets : HeldFrom(k, p)'
    <3>1. k \in DOMAIN buffers /\ buffers'[k] = buffers[k] /\ ~IsExpired(buffers[k])
      BY <2>1
    <3>2. PICK p \in Packets : HeldFrom(k, p)
      BY <3>1 DEF DatagramInv
    <3>3. HeldFrom(k, p)'
      BY <2>1, <3>1, <3>2, HeldStays DEF DatagramInv
    <3>4. buffers[k].last_update \in Int /\ clock \in Int /\ Timeout \in Int
      BY <3>2, IPReassemblerAssumption DEF HeldFrom, DatagramInv
    <3>5. clock - buffers[k].last_update <= Timeout
      BY <3>1, <3>4 DEF IsExpired
    <3> QED BY <3>1, <3>3, <3>5
  <2>4. Intact'
    BY <2>1 DEF DatagramInv, Intact, Datagram
  <2> QED BY <2>1, <2>2, <2>3, <2>4 DEF DatagramInv
<1>7. ASSUME NEW t \in Threads, LoadCount(t) \/ StoreCount(t) PROVE DatagramInv'
  <2>1. /\ UNCHANGED <<clock, buffers, call, returned>>
        /\ pc[t] \in {"load", "store"}
        /\ pc' = [pc EXCEPT ![t] = "store"] \/ pc' = [pc EXCEPT ![t] = "add"]
    BY <1>7 DEF LoadCount, StoreCount
  <2>2. /\ pc' \in [Threads -> Steps]
        /\ \A s \in Threads : /\ pc'[s] # "idle" => pc[s] # "idle"
                              /\ pc'[s] \in {"load", "store", "add"} => pc[s] \in {"load", "store", "add"}
    BY <2>1 DEF DatagramInv, Steps
  <2>3. Intact'
    BY <2>1 DEF DatagramInv, Intact, Datagram
  <2> QED BY <1>2, <2>1, <2>2, <2>3 DEF DatagramInv
<1>8. ASSUME NEW t \in Threads, Add(t) PROVE DatagramInv'
  <2> DEFINE p == call[t]
             a == After(t)
  <2>1. /\ pc[t] = "add" /\ clock' = clock
        /\ call' = [call EXCEPT ![t] = NoCall] /\ pc' = [pc EXCEPT ![t] = "idle"]
    BY <1>8, AddIs
  <2>2. /\ p \in Packets
        /\ Canonical(Cuts(Whole(p)), a.fragments) /\ Len(a.fragments) >= 1
        /\ a.last_update \in p.sent..(p.sent + Lifetime) /\ a.last_update = clock
        /\ Ready(t) => AssembleData(a.fragments) = Whole(p)
    BY <2>1, AddedToDatagram, AfterIs
  <2>3. /\ ~Ready(t) => Store(p.key, a) /\ returned' = returned
        /\ Ready(t) /\ Fits(t) =>
             /\ buffers' = Restrict(buffers, DOMAIN buffers \ {p.key})
             /\ returned' = returned \cup {[key |-> p.key, data |-> Whole(p)]}
        /\ Ready(t) /\ ~Fits(t) => Store(p.key, a) /\ returned' = returned
        /\ Ready(t) /\ ~Fits(t) => ~(HeaderLen + Len(Whole(p)) <= MaxTotalLen)
    BY <1>8, <2>2, AddIs, Zenon DEF Fits
  <2>4. /\ pc' \in [Threads -> Steps] /\ call' \in [Threads -> Packets \cup {NoCall}]
        /\ \A s \in Threads : pc'[s] # "idle" => pc[s] # "idle" /\ call'[s] = call[s]
        /\ \A s \in Threads : pc'[s] \in {"load", "store", "add"} => pc[s] \in {"load", "store", "add"}
    BY <2>1 DEF DatagramInv, Steps
  <2>5. Ready(t) <=> IsComplete(a.fragments)
    BY DEF Ready
  <2>6. clock \in Nat /\ Timeout \in Nat
    BY IPReassemblerAssumption DEF DatagramInv
  <2> HIDE DEF p, a
  <2>7. ASSUME NEW k \in DOMAIN buffers'
        PROVE  /\ \E q \in Packets : HeldFrom(k, q)'
               /\ \/ buffers'[k].last_update = clock
                  \/ k \in DOMAIN buffers /\ buffers'[k] = buffers[k]
    <3>1. \/ Store(p.key, a) /\ k = p.key /\ buffers'[k] = a
          \/ k \in DOMAIN buffers /\ buffers'[k] = buffers[k]
      BY <2>3, <2>7 DEF Store, Restrict
    <3>2. CASE Store(p.key, a) /\ k = p.key /\ buffers'[k] = a
      <4>1. ~(Ready(t) /\ Fits(t)) \/ (k \in DOMAIN buffers /\ buffers'[k] = buffers[k])
        BY <2>3, <2>7, <3>2 DEF Restrict
      <4>2. CASE ~(Ready(t) /\ Fits(t))
        <5>1. IsComplete(buffers'[k].fragments) => ~(HeaderLen + Len(Whole(p)) <= MaxTotalLen)
          BY <2>3, <2>5, <3>2, <4>2
        <5>2. /\ p.key = k /\ buffers'[k].last_update \in p.sent..(p.sent + Lifetime)
              /\ buffers'[k].last_update <= clock'
              /\ Canonical(Cuts(Whole(p)), buffers'[k].fragments) /\ Len(buffers'[k].fragments) >= 1
          BY <2>1, <2>2, <2>6, <3>2
        <5>3. p \in Packets
          BY <2>2
        <5>4. \E q \in Packets :
                /\ q.key = k /\ buffers'[k].last_update \in q.sent..(q.sent + Lifetime)
                /\ buffers'[k].last_update <= clock'
                /\ Canonical(Cuts(Whole(q)), buffers'[k].fragments) /\ Len(buffers'[k].fragments) >= 1
                /\ IsComplete(buffers'[k].fragments) => ~(HeaderLen + Len(Whole(q)) <= MaxTotalLen)
          BY <5>1, <5>2, <5>3
        <5> QED BY <2>2, <3>2, <5>4 DEF HeldFrom, Whole, Datagram
      <4>3. CASE k \in DOMAIN buffers /\ buffers'[k] = buffers[k]
        <5>1. PICK q \in Packets : HeldFrom(k, q)
          BY <4>3 DEF DatagramInv
        <5>2. HeldFrom(k, q)'
          BY <2>1, <2>6, <4>3, <5>1, HeldStays
        <5> QED BY <4>3, <5>2
      <4> QED BY <4>1, <4>2, <4>3
    <3>3. CASE k \in DOMAIN buffers /\ buffers'[k] = buffers[k]
      <4>1. PICK q \in Packets : HeldFrom(k, q)
        BY <3>3 DEF DatagramInv
      <4>2. HeldFrom(k, q)'
        BY <2>1, <2>6, <3>3, <4>1, HeldStays
      <4> QED BY <3>3, <4>2
    <3> QED BY <3>1, <3>2, <3>3
  <2>8. \A s \in Threads : pc'[s] \in {"load", "store", "add"} =>
          \A k \in DOMAIN buffers' : clock' - buffers'[k].last_update <= Timeout
    <3> SUFFICES ASSUME NEW s \in Threads, pc'[s] \in {"load", "store", "add"}, NEW k \in DOMAIN buffers'
                 PROVE  clock - buffers'[k].last_update <= Timeout
      BY <2>1
    <3>1. CASE buffers'[k].last_update = clock
      BY <2>6, <3>1
    <3>2. CASE k \in DOMAIN buffers /\ buffers'[k] = buffers[k]
      BY <2>4, <3>2 DEF DatagramInv
    <3> QED BY <2>7, <3>1, <3>2
  <2>9. Intact'
    <3>1. \/ returned' = returned
          \/ returned' = returned \cup {[key |-> p.key, data |-> Whole(p)]}
      BY <2>3
    <3> QED BY <2>2, <3>1 DEF DatagramInv, Intact, Whole, Datagram
  <2> QED BY <2>1, <2>4, <2>6, <2>7, <2>8, <2>9 DEF DatagramInv
<1>9. CASE UNCHANGED vars
  <2>1. UNCHANGED <<clock, buffers, pc, call, returned>>
    BY <1>9 DEF vars
  <2>2. Intact'
    BY <2>1 DEF DatagramInv, Intact, Datagram
  <2> QED BY <1>2, <2>1, <2>2 DEF DatagramInv
<1> QED BY <1>1, <1>3, <1>4, <1>5, <1>6, <1>7, <1>8, <1>9 DEF Next

\* Whatever process returns is one datagram that was sent, whole and in order, although
\* duplicates of an old fragment open a new buffer and the identification is used again: the
\* buffer left behind is expired by the very call that brings the first fragment of the next
\* datagram (IPReassembler.process, _cleanup_expired and _assemble_data).
THEOREM DatagramsIntact ==
  ASSUME HonestSenders, ~CallsTakeTime
  PROVE  Spec => []Intact
<1>1. DatagramInv => Intact
  BY DEF DatagramInv
<1> QED BY DatagramInit, DatagramStep, <1>1, PTL DEF Spec

\* A datagram all of whose blocks were captured is not left in its buffer: the merge keeps the
\* mark of the last fragment and leaves no gap that _is_complete could stumble on, in whatever
\* order the cuts come (_merge_fragments and _is_complete).
THEOREM CoveredIsReturned ==
  ASSUME HonestSenders, ~CallsTakeTime
  PROVE  Spec => []CoverageCompletes
<1>1. DatagramInv => CoverageCompletes
  <2> SUFFICES ASSUME DatagramInv, NEW k \in DOMAIN buffers, NEW p \in Packets, p.is_last,
                      p.key = k, buffers[k].last_update \in p.sent..(p.sent + Lifetime),
                      HeaderLen + FragmentEnd(p) <= MaxTotalLen,
                      UNION {Blocks(f) : f \in ToSet(buffers[k].fragments)} = 0..(FragmentEnd(p) - 1)
               PROVE  FALSE
    BY DEF CoverageCompletes
  <2> DEFINE last == buffers[k].last_update
             list == buffers[k].fragments
  <2>1. PICK q \in Packets : HeldFrom(k, q)
    BY DEF DatagramInv
  <2>2. /\ q.key = p.key /\ last \in q.sent..(q.sent + Lifetime) /\ last \in p.sent..(p.sent + Lifetime)
        /\ Canonical(Cuts(Whole(q)), list) /\ Len(list) >= 1
        /\ IsComplete(list) => ~(HeaderLen + Len(Whole(q)) <= MaxTotalLen)
    BY <2>1 DEF HeldFrom
  <2>3. UNION {Blocks(f) : f \in ToSet(list)} = 0..(FragmentEnd(p) - 1)
    OBVIOUS
  <2> HIDE DEF last, list
  <2>4. last \in Nat /\ last <= last /\ last - last <= Timeout
    BY <2>2, IPReassemblerAssumption
  <2>5. Whole(q) = Whole(p)
    BY <2>2, <2>4, OneDatagram
  <2>6. Whole(q) \in Seq(Labels) /\ FragmentEnd(p) = Len(Whole(q))
    BY <2>5 DEF HonestSenders, IsCut, Whole
  <2>7. IsComplete(list)
    BY <2>2, <2>3, <2>6, CoveredIsComplete
  <2> QED BY <2>2, <2>6, <2>7
<1> QED BY DatagramInit, DatagramStep, <1>1, PTL DEF Spec
=============================================================================
