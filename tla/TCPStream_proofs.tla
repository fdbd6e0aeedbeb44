---------------------------- MODULE TCPStream_proofs ----------------------------
(***************************************************************************)
(* One direction of a TCP connection, for a stream of any length, cut in   *)
(* any way and captured in any order: the buffer stays canonical, and each *)
(* step of the code is a step of StreamReassembly.                         *)
(***************************************************************************)
EXTENDS TCPStream, FiniteSets, FiniteSetTheorems, SequenceTheorems, WellFoundedInduction, TLAPS

-----------------------------------------------------------------------------
(* Folds over a list, unrolled.                                            *)

\* Every set of naturals that has an element has a least one.
LEMMA LeastNumber ==
  ASSUME NEW S \in SUBSET Nat, S # {}
  PROVE  \E m \in S : \A n \in S : m <= n
<1> DEFINE R == OpToRel(<, Nat)
<1>1. IsWellFoundedOn(R, Nat)
  BY NatLessThanWellFounded DEF OpToRel
<1>2. R = {ss \in Nat \X Nat : ss[1] < ss[2]}
  BY DEF OpToRel
<1> HIDE DEF R
<1>3. PICK m \in S : \A n \in S : ~ (<<n, m>> \in R)
  BY <1>1, WFMin
<1>4. \A n \in S : m <= n
  <2> TAKE n \in S
  <2>1. <<n, m>> \in Nat \X Nat
    OBVIOUS
  <2>2. ~ (n < m)
    BY <1>2, <1>3, <2>1
  <2> QED BY <2>2
<1> QED BY <1>3, <1>4

\* The largest number of a set is the one that is.
LEMMA MaxIs ==
  ASSUME NEW S \in SUBSET Int, NEW m \in S, \A n \in S : n <= m
  PROVE  Max(S) = m
<1>1. Max(S) \in S /\ \A n \in S : Max(S) >= n
  <2>1. \E x \in S : \A n \in S : x >= n
    OBVIOUS
  <2> QED BY <2>1 DEF Max
<1> DEFINE x == Max(S)
<1>2. x \in Int /\ m \in Int /\ x >= m /\ x <= m
  BY <1>1
<1> HIDE DEF x
<1>3. x = m
  BY <1>2
<1> QED BY <1>3 DEF x

\* The loop of _merge_segments.
MergeFrom(base, list) == FoldLeft(MergeStep, base, list)

\* acc[k] is what the loop has merged after k segments.
MergeSteps(acc, base, list, n) ==
  /\ acc[0] = base
  /\ \A k \in 1..n : acc[k] = MergeStep(acc[k - 1], list[k])
  /\ acc[n] = MergeFrom(base, list)

\* The fold of the model is that loop.
LEMMA MergeUnrolled ==
  ASSUME NEW base, NEW list, NEW n \in Nat, DOMAIN list = 1..n
  PROVE  \E acc : MergeSteps(acc, base, list, n)
<1> DEFINE Unroll(m, g) ==
             [s \in SUBSET (1..m) |-> IF s = {} THEN base
                                      ELSE MergeStep(g[s \ {Max(s)}], list[Max(s)])]
           Exists(m) == \E g : g = Unroll(m, g)
           bad == {m \in Nat : ~Exists(m)}
<1>1. ASSUME NEW m \in Nat, NEW s \in SUBSET (1..m), m \in s PROVE Max(s) = m
  <2>1. s \in SUBSET Int /\ \A k \in s : k <= m
    OBVIOUS
  <2> QED BY <1>1, <2>1, MaxIs
<1>2. \A m \in Nat : Exists(m)
  <2>1. CASE bad = {}
    BY <2>1
  <2>2. CASE bad # {}
    <3>1. PICK m \in bad : \A k \in bad : m <= k
      <4>1. bad \in SUBSET Nat
        OBVIOUS
      <4> HIDE DEF bad
      <4> QED BY <2>2, <4>1, LeastNumber
    <3>2. m # 0
      <4> DEFINE g == [s \in SUBSET (1..0) |-> base]
      <4>1. \A s \in SUBSET (1..0) : s = {}
        OBVIOUS
      <4>2. Unroll(0, g) = [s \in SUBSET (1..0) |-> base]
        BY <4>1
      <4>3. Exists(0)
        BY <4>2
      <4> QED BY <4>3
    <3>3. m - 1 \in Nat /\ Exists(m - 1)
      <4>1. m \in Nat /\ m # 0
        BY <3>2
      <4>2. m - 1 \in Nat /\ m - 1 < m
        BY <4>1
      <4>3. m - 1 \notin bad
        <5> HIDE DEF bad
        <5> QED BY <3>1, <4>1, <4>2
      <4> QED BY <4>2, <4>3
    <3>4. PICK g : g = Unroll(m - 1, g)
      BY <3>3
    <3> DEFINE h == [s \in SUBSET (1..m) |-> IF m \in s THEN MergeStep(g[s \ {m}], list[m])
                                             ELSE g[s]]
    <3>5. ASSUME NEW s \in SUBSET (1..m)
          PROVE  h[s] = IF s = {} THEN base ELSE MergeStep(h[s \ {Max(s)}], list[Max(s)])
      <4>1. CASE m \in s
        <5>1. Max(s) = m /\ s \ {m} \in SUBSET (1..m)
          BY <1>1, <4>1
        <5> QED BY <4>1, <5>1
      <4>2. CASE m \notin s
        <5>1. s \in SUBSET (1..(m - 1))
          BY <3>3, <4>2
        <5>2. h[s] = g[s]
          BY <4>2
        <5>3. g[s] = IF s = {} THEN base ELSE MergeStep(g[s \ {Max(s)}], list[Max(s)])
          BY <3>4, <5>1
        <5>4. s \ {Max(s)} \in SUBSET (1..m) /\ m \notin s \ {Max(s)}
          BY <4>2
        <5>5. h[s \ {Max(s)}] = g[s \ {Max(s)}]
          BY <5>4
        <5> QED BY <5>2, <5>3, <5>5
      <4> QED BY <4>1, <4>2
    <3>6. h = Unroll(m, h)
      <4>1. h = [s \in SUBSET (1..m) |-> h[s]]
        OBVIOUS
      <4> HIDE DEF h
      <4> QED BY <3>5, <4>1
    <3> QED BY <3>1, <3>6
  <2> QED BY <2>1, <2>2
<1> DEFINE iter == CHOOSE iter : iter = Unroll(n, iter)
<1>3. iter = Unroll(n, iter)
  BY <1>2
<1>4. MergeFrom(base, list) = iter[1..n]
  BY Zenon DEF MergeFrom, FoldLeft, MapThenFoldSet
<1> DEFINE acc == [k \in 0..n |-> iter[1..k]]
<1> HIDE DEF iter
<1>5. acc[0] = base
  BY <1>3
<1>6. ASSUME NEW k \in 1..n PROVE acc[k] = MergeStep(acc[k - 1], list[k])
  <2>1. /\ 1..k \in SUBSET (1..n) /\ 1..k # {} /\ k \in 1..k /\ k \in Nat
        /\ (1..k) \ {k} = 1..(k - 1) /\ k - 1 \in 0..n
    <3>1. k \in Nat /\ k >= 1 /\ k <= n /\ k - 1 \in 0..n
      OBVIOUS
    <3>2. k \in 1..k /\ 1..k \in SUBSET (1..n)
      BY <3>1
    <3>3. \A j : j \in (1..k) \ {k} <=> j \in 1..(k - 1)
      BY <3>1
    <3>4. (1..k) \ {k} = 1..(k - 1)
      BY <3>3, Zenon
    <3> QED BY <3>1, <3>2, <3>4, Zenon
  <2>2. Max(1..k) = k
    BY <1>1, <2>1
  <2>3. iter[1..k] = MergeStep(iter[1..(k - 1)], list[k])
    BY <1>3, <2>1, <2>2
  <2> QED BY <2>1, <2>3
<1>7. acc[n] = iter[1..n]
  OBVIOUS
<1> HIDE DEF acc
<1> QED BY <1>4, <1>5, <1>6, <1>7 DEF MergeSteps

-----------------------------------------------------------------------------
(* Runs of the stream, and lists of them.                                  *)

\* The segment that carries the bytes from a up to b.
Run(a, b) == Segment(ISN + a, [i \in 1..(b - a) |-> a + i - 1])

Lo(run) == run.seq - ISN
Hi(run) == End(run) - ISN
Pos(run) == ToSet(run.data)

IsRun(run) ==
  /\ Lo(run) \in Nat /\ Hi(run) \in Nat
  /\ 1 <= Lo(run) /\ Lo(run) < Hi(run) /\ Hi(run) <= StreamLen + 1
  /\ run = Run(Lo(run), Hi(run))

\* Lists of runs; the positions in the first k of a list, and in all of it.
Runs == {run \in [seq : Int, data : Seq(Nat)] : IsRun(run)}
IsRuns(list) == list \in Seq(Runs)

CoverTo(list, k) == UNION {Pos(list[i]) : i \in 1..k}
Covers(list) == CoverTo(list, Len(list))

\* The list the buffer is: sorted, with a gap between any two of its runs.
Canonical(list) ==
  /\ IsRuns(list)
  /\ \A i, j \in 1..Len(list) : i < j => Hi(list[i]) < Lo(list[j])

\* The bounds of a run determine it.
LEMMA RunIs ==
  ASSUME NEW a \in Nat, NEW b \in Nat, 1 <= a, a < b, b <= StreamLen + 1
  PROVE  /\ IsRun(Run(a, b)) /\ Lo(Run(a, b)) = a /\ Hi(Run(a, b)) = b
         /\ Run(a, b).seq = ISN + a /\ End(Run(a, b)) = ISN + b
         /\ Run(a, b).data = [i \in 1..(b - a) |-> a + i - 1]
         /\ Run(a, b).data \in Seq(Nat) /\ Len(Run(a, b).data) = b - a /\ Run(a, b).data # <<>>
         /\ Pos(Run(a, b)) = a..(b - 1)
<1> DEFINE data == [i \in 1..(b - a) |-> a + i - 1]
<1>1. ISN \in Nat
  BY TCPStreamAssumption
<1>2. b - a \in Nat /\ b - a # 0
  OBVIOUS
<1>3. \A i \in 1..(b - a) : a + i - 1 \in Nat
  OBVIOUS
<1>4. data \in Seq(Nat) /\ Len(data) = b - a
  BY <1>2, <1>3
<1>5. data # <<>>
  BY <1>2, <1>4
<1>6. Run(a, b).seq = ISN + a /\ Run(a, b).data = data
  BY DEF Run, Segment
<1>7. ToSet(data) = a..(b - 1)
  <2>1. DOMAIN data = 1..(b - a)
    OBVIOUS
  <2>2. ASSUME NEW p \in a..(b - 1) PROVE p \in ToSet(data)
    <3>1. p - a + 1 \in 1..(b - a) /\ data[p - a + 1] = p
      OBVIOUS
    <3> QED BY <2>1, <3>1 DEF ToSet
  <2>3. ASSUME NEW p \in ToSet(data) PROVE p \in a..(b - 1)
    <3>1. PICK i \in 1..(b - a) : p = a + i - 1
      BY <2>1 DEF ToSet
    <3> QED BY <3>1
  <2> QED BY <2>2, <2>3
<1> HIDE DEF data
<1>8. End(Run(a, b)) = ISN + b
  BY <1>1, <1>4, <1>6 DEF End
<1>9. Lo(Run(a, b)) = a /\ Hi(Run(a, b)) = b
  BY <1>1, <1>6, <1>8 DEF Lo, Hi
<1>10. IsRun(Run(a, b))
  BY <1>9 DEF IsRun
<1> QED BY <1>4, <1>5, <1>6, <1>7, <1>8, <1>9, <1>10 DEF Pos, data

\* What a run is made of.
LEMMA RunFacts ==
  ASSUME NEW run, IsRun(run)
  PROVE  /\ Lo(run) \in Nat /\ Hi(run) \in Nat
         /\ 1 <= Lo(run) /\ Lo(run) < Hi(run) /\ Hi(run) <= StreamLen + 1
         /\ run.seq = ISN + Lo(run) /\ End(run) = ISN + Hi(run)
         /\ run.data = [i \in 1..(Hi(run) - Lo(run)) |-> Lo(run) + i - 1]
         /\ run.data \in Seq(Nat) /\ Len(run.data) = Hi(run) - Lo(run) /\ run.data # <<>>
         /\ Pos(run) = Lo(run)..(Hi(run) - 1)
         /\ Len(run.data) \in Nat
         /\ IsFiniteSet(Pos(run)) /\ Cardinality(Pos(run)) = Len(run.data)
<1> DEFINE a == Lo(run)
           b == Hi(run)
<1>1. /\ a \in Nat /\ b \in Nat /\ 1 <= a /\ a < b /\ b <= StreamLen + 1
      /\ run = Run(a, b)
  BY DEF IsRun
<1>2. /\ Run(a, b).seq = ISN + a /\ End(Run(a, b)) = ISN + b
      /\ Run(a, b).data = [i \in 1..(b - a) |-> a + i - 1]
      /\ Run(a, b).data \in Seq(Nat) /\ Len(Run(a, b).data) = b - a /\ Run(a, b).data # <<>>
      /\ Pos(Run(a, b)) = a..(b - 1)
  <2> HIDE DEF a, b
  <2> QED BY <1>1, RunIs
<1> HIDE DEF a, b
<1>3. b - a \in Nat
  BY <1>1
<1>4. IsFiniteSet(a..(b - 1)) /\ Cardinality(a..(b - 1)) = b - a
  <2>1. a \in Int /\ b - 1 \in Int /\ a <= b - 1
    BY <1>1
  <2>2. /\ IsFiniteSet(a..(b - 1))
        /\ Cardinality(a..(b - 1)) = IF a > b - 1 THEN 0 ELSE (b - 1) - a + 1
    BY <2>1, FS_Interval
  <2> QED BY <1>1, <2>1, <2>2
<1>5. /\ run.seq = ISN + a /\ End(run) = ISN + b
      /\ run.data = [i \in 1..(b - a) |-> a + i - 1]
      /\ run.data \in Seq(Nat) /\ Len(run.data) = b - a /\ run.data # <<>>
      /\ Pos(run) = a..(b - 1)
  BY <1>1, <1>2
<1>6. /\ Len(run.data) \in Nat
      /\ IsFiniteSet(Pos(run)) /\ Cardinality(Pos(run)) = Len(run.data)
  BY <1>3, <1>4, <1>5
<1> QED BY <1>1, <1>5, <1>6 DEF a, b

\* Every run is an element of a list of runs.
LEMMA RunTyped ==
  ASSUME NEW run, IsRun(run)
  PROVE  run \in Runs
<1>1. run = Run(Lo(run), Hi(run)) /\ run.data \in Seq(Nat) /\ Lo(run) \in Nat
  BY RunFacts DEF IsRun
<1>2. run = [seq |-> ISN + Lo(run), data |-> run.data]
  BY <1>1 DEF Run, Segment
<1>3. ISN + Lo(run) \in Int
  BY <1>1, TCPStreamAssumption
<1> QED BY <1>1, <1>2, <1>3 DEF Runs

\* The positions in a list of runs are positions of the stream.
LEMMA CoverFinite ==
  ASSUME NEW list, IsRuns(list), NEW k \in 0..Len(list)
  PROVE  /\ CoverTo(list, k) \in SUBSET Positions
         /\ IsFiniteSet(CoverTo(list, k)) /\ Cardinality(CoverTo(list, k)) \in Nat
<1>1. \A i \in 1..k : Pos(list[i]) \in SUBSET Positions
  <2> SUFFICES ASSUME NEW i \in 1..k PROVE Pos(list[i]) \in SUBSET Positions
    OBVIOUS
  <2>1. IsRun(list[i])
    BY DEF IsRuns, Runs
  <2>2. /\ Pos(list[i]) = Lo(list[i])..(Hi(list[i]) - 1)
        /\ Lo(list[i]) \in Nat /\ Hi(list[i]) \in Nat /\ 1 <= Lo(list[i])
        /\ Hi(list[i]) <= StreamLen + 1
    BY <2>1, RunFacts
  <2> QED BY <2>2, TCPStreamAssumption DEF Positions
<1>2. CoverTo(list, k) \in SUBSET Positions
  BY <1>1 DEF CoverTo
<1>3. IsFiniteSet(Positions)
  BY TCPStreamAssumption, FS_Interval DEF Positions
<1> QED BY <1>2, <1>3, FS_Subset, FS_CardinalityType

\* The positions of one more run.
LEMMA CoverNext ==
  ASSUME NEW list, NEW k \in Nat \ {0}
  PROVE  CoverTo(list, k) = CoverTo(list, k - 1) \cup Pos(list[k]) /\ CoverTo(list, 0) = {}
<1>1. 1..k = 1..(k - 1) \cup {k}
  OBVIOUS
<1> QED BY <1>1 DEF CoverTo

\* Two finite sets have together no more elements than both have.
LEMMA UnionAtMost ==
  ASSUME NEW S, NEW T, IsFiniteSet(S), IsFiniteSet(T)
  PROVE  /\ IsFiniteSet(S \cup T) /\ Cardinality(S \cup T) \in Nat
         /\ Cardinality(S \cup T) <= Cardinality(S) + Cardinality(T)
<1>1. /\ IsFiniteSet(S \cup T)
      /\ Cardinality(S \cup T) = Cardinality(S) + Cardinality(T) - Cardinality(S \cap T)
  BY FS_Union
<1>2. IsFiniteSet(S \cap T)
  <2>1. S \cap T \in SUBSET S
    OBVIOUS
  <2> QED BY <2>1, FS_Subset
<1>3. /\ Cardinality(S) \in Nat /\ Cardinality(T) \in Nat
      /\ Cardinality(S \cap T) \in Nat /\ Cardinality(S \cup T) \in Nat
  BY <1>1, <1>2, FS_CardinalityType
<1> QED BY <1>1, <1>3

\* In the buffer, one more run is as many more positions.
LEMMA CoverGrows ==
  ASSUME NEW list, Canonical(list), NEW k \in 1..Len(list)
  PROVE  Cardinality(CoverTo(list, k)) = Cardinality(CoverTo(list, k - 1)) + Len(list[k].data)
<1>1. IsRuns(list) /\ Len(list) \in Nat
  BY DEF Canonical, IsRuns
<1>2. k \in Nat \ {0} /\ k - 1 \in 0..Len(list)
  BY <1>1
<1>3. CoverTo(list, k) = CoverTo(list, k - 1) \cup Pos(list[k])
  BY <1>2, CoverNext
<1>4. CoverTo(list, k - 1) \cap Pos(list[k]) = {}
  <2> SUFFICES ASSUME NEW p \in CoverTo(list, k - 1), p \in Pos(list[k]) PROVE FALSE
    OBVIOUS
  <2>1. PICK i \in 1..(k - 1) : p \in Pos(list[i])
    BY DEF CoverTo
  <2>2. i \in 1..Len(list) /\ i < k
    BY <1>1
  <2>3. IsRun(list[i]) /\ IsRun(list[k])
    BY <1>1, <2>2 DEF IsRuns, Runs
  <2>4. Hi(list[i]) < Lo(list[k])
    BY <2>2 DEF Canonical
  <2>5. /\ Pos(list[i]) = Lo(list[i])..(Hi(list[i]) - 1) /\ Pos(list[k]) = Lo(list[k])..(Hi(list[k]) - 1)
        /\ Lo(list[i]) \in Nat /\ Hi(list[i]) \in Nat /\ Lo(list[k]) \in Nat /\ Hi(list[k]) \in Nat
    BY <2>3, RunFacts
  <2> QED BY <2>1, <2>4, <2>5
<1>5. IsFiniteSet(CoverTo(list, k - 1)) /\ Cardinality(CoverTo(list, k - 1)) \in Nat
  BY <1>1, <1>2, CoverFinite
<1>6. IsFiniteSet(Pos(list[k])) /\ Cardinality(Pos(list[k])) = Len(list[k].data) /\ Len(list[k].data) \in Nat
  <2>1. IsRun(list[k])
    BY <1>1 DEF IsRuns, Runs
  <2> QED BY <2>1, RunFacts
<1>7. Cardinality(CoverTo(list, k)) =
        Cardinality(CoverTo(list, k - 1)) + Cardinality(Pos(list[k]))
          - Cardinality(CoverTo(list, k - 1) \cap Pos(list[k]))
  BY <1>3, <1>5, <1>6, FS_Union
<1>8. Cardinality(CoverTo(list, k - 1) \cap Pos(list[k])) = 0
  BY <1>4, FS_EmptySet
<1> QED BY <1>5, <1>6, <1>7, <1>8

-----------------------------------------------------------------------------
(* Merging.                                                                *)

\* A run that ends where another continues: both together.
LEMMA RunExtended ==
  ASSUME NEW last, IsRun(last), NEW seg, IsRun(seg),
         Lo(last) <= Lo(seg), Lo(seg) <= Hi(last), Hi(last) < Hi(seg)
  PROVE  LET both == Segment(last.seq, last.data \o Drop(seg.data, Hi(last) - Lo(seg)))
         IN  /\ IsRun(both) /\ Lo(both) = Lo(last) /\ Hi(both) = Hi(seg)
             /\ Pos(both) = Pos(last) \cup Pos(seg)
<1> DEFINE a == Lo(last)
           b == Hi(last)
           c == Lo(seg)
           d == Hi(seg)
           rest == Drop(seg.data, b - c)
           data == last.data \o rest
<1>1. /\ a \in Nat /\ b \in Nat /\ 1 <= a /\ a < b
      /\ last.seq = ISN + a /\ last.data \in Seq(Nat) /\ Len(last.data) = b - a
      /\ last.data = [i \in 1..(b - a) |-> a + i - 1]
      /\ Pos(last) = a..(b - 1)
  BY RunFacts
<1>2. /\ c \in Nat /\ d \in Nat /\ c < d /\ d <= StreamLen + 1
      /\ seg.data \in Seq(Nat) /\ Len(seg.data) = d - c
      /\ seg.data = [i \in 1..(d - c) |-> c + i - 1]
      /\ Pos(seg) = c..(d - 1)
  BY RunFacts
<1>3. a <= c /\ c <= b /\ b < d
  OBVIOUS
<1> HIDE DEF a, b, c, d
<1>4. /\ rest \in Seq(Nat) /\ Len(rest) = d - b
      /\ \A i \in 1..(d - b) : rest[i] = b + i - 1
  <2>1. b - c + 1 \in Nat /\ 1 <= b - c + 1 /\ b - c + 1 <= Len(seg.data) + 1 /\ Len(seg.data) \in Nat
    BY <1>1, <1>2, <1>3
  <2> DEFINE m == b - c + 1
             n == Len(seg.data)
  <2>2. rest = SubSeq(seg.data, m, n)
    BY DEF Drop
  <2>3. m \in Int /\ n \in Int /\ n - m + 1 = d - b /\ m <= n
    BY <1>1, <1>2, <1>3
  <2>4. \A i \in m..n : seg.data[i] \in Nat
    BY <1>2, <2>1
  <2> HIDE DEF m, n
  <2>5. /\ SubSeq(seg.data, m, n) \in Seq(Nat)
        /\ Len(SubSeq(seg.data, m, n)) = n - m + 1
        /\ \A i \in 1..(n - m + 1) : SubSeq(seg.data, m, n)[i] = seg.data[m + i - 1]
    BY <2>3, <2>4, SubSeqProperties
  <2>6. ASSUME NEW i \in 1..(d - b) PROVE rest[i] = b + i - 1
    <3>1. m + i - 1 = b - c + i /\ b - c + i \in 1..(d - c)
      BY <1>1, <1>2, <1>3 DEF m
    <3>2. rest[i] = seg.data[b - c + i]
      BY <2>2, <2>3, <2>5, <3>1
    <3>3. seg.data[b - c + i] = c + (b - c + i) - 1
      BY <1>2, <3>1
    <3>4. c + (b - c + i) - 1 = b + i - 1
      BY <1>1, <1>2
    <3> QED BY <3>2, <3>3, <3>4
  <2> QED BY <2>2, <2>3, <2>5, <2>6
<1> HIDE DEF rest
<1>5. data = [i \in 1..(d - a) |-> a + i - 1]
  <2>1. /\ data \in Seq(Nat) /\ Len(data) = (b - a) + (d - b)
        /\ \A i \in 1..((b - a) + (d - b)) :
             data[i] = IF i <= b - a THEN last.data[i] ELSE rest[i - (b - a)]
    <3>1. last.data \in Seq(Nat) /\ Len(last.data) = b - a
      BY <1>1
    <3>2. rest \in Seq(Nat) /\ Len(rest) = d - b
      BY <1>4
    <3> DEFINE left == last.data
    <3>3. left \in Seq(Nat) /\ Len(left) = b - a
      BY <3>1
    <3> HIDE DEF left
    <3>4. /\ left \o rest \in Seq(Nat) /\ Len(left \o rest) = Len(left) + Len(rest)
          /\ \A i \in 1..(Len(left) + Len(rest)) :
               (left \o rest)[i] = IF i <= Len(left) THEN left[i] ELSE rest[i - Len(left)]
      BY <3>2, <3>3, ConcatProperties
    <3>5. data = left \o rest
      BY DEF left
    <3> HIDE DEF data
    <3>6. /\ data \in Seq(Nat) /\ Len(data) = (b - a) + (d - b)
          /\ \A i \in 1..((b - a) + (d - b)) :
               data[i] = IF i <= b - a THEN left[i] ELSE rest[i - (b - a)]
      BY <3>2, <3>3, <3>4, <3>5
    <3> QED BY <3>6 DEF left
  <2>2. (b - a) + (d - b) = d - a
    BY <1>1, <1>2
  <2>3. ASSUME NEW i \in 1..(d - a) PROVE data[i] = a + i - 1
    <3> HIDE DEF data
    <3>0. data[i] = IF i <= b - a THEN last.data[i] ELSE rest[i - (b - a)]
      BY <2>1, <2>2
    <3>1. CASE i <= b - a
      <4>1. i \in 1..(b - a)
        BY <1>1, <1>2, <3>1
      <4> QED BY <1>1, <3>0, <4>1
    <3>2. CASE ~(i <= b - a)
      <4>1. i - (b - a) \in 1..(d - b)
        BY <1>1, <1>2, <1>3, <3>2
      <4>2. rest[i - (b - a)] = b + (i - (b - a)) - 1
        BY <1>4, <4>1
      <4>3. b + (i - (b - a)) - 1 = a + i - 1
        BY <1>1, <1>2
      <4> QED BY <3>0, <3>2, <4>2, <4>3
    <3> QED BY <3>1, <3>2
  <2>4. data = [i \in 1..Len(data) |-> data[i]]
    BY <2>1
  <2> HIDE DEF data
  <2>5. Len(data) = d - a
    BY <2>1, <2>2
  <2> QED BY <2>3, <2>4, <2>5
<1> HIDE DEF data
<1>6. Segment(last.seq, data) = Run(a, d)
  BY <1>1, <1>5 DEF Run
<1>7. IsRun(Run(a, d)) /\ Lo(Run(a, d)) = a /\ Hi(Run(a, d)) = d /\ Pos(Run(a, d)) = a..(d - 1)
  <2>1. a \in Nat /\ d \in Nat /\ 1 <= a /\ a < d /\ d <= StreamLen + 1
    BY <1>1, <1>2, <1>3
  <2> QED BY <2>1, RunIs
<1>8. a..(d - 1) = a..(b - 1) \cup c..(d - 1)
  BY <1>1, <1>2, <1>3
<1> QED BY <1>1, <1>2, <1>6, <1>7, <1>8 DEF a, b, c, d, data, rest

\* A list that ends with another run than before.
LEMMA LastReplaced ==
  ASSUME NEW list, Canonical(list), Len(list) >= 1, NEW run, IsRun(run),
         Lo(run) = Lo(list[Len(list)])
  PROVE  LET after == Append(Front(list), run)
         IN  /\ Canonical(after) /\ Len(after) = Len(list) /\ after[Len(after)] = run
             /\ Covers(after) = CoverTo(list, Len(list) - 1) \cup Pos(run)
<1> DEFINE n     == Len(list)
           front == SubSeq(list, 1, n - 1)
           after == Append(front, run)
<1>1. list \in Seq(Runs) /\ n \in Nat /\ n >= 1
  BY DEF Canonical, IsRuns
<1>2. run \in Runs
  BY RunTyped
<1>3. front \in Seq(Runs) /\ Len(front) = n - 1 /\ \A i \in 1..(n - 1) : front[i] = list[i]
  <2>1. 1 \in Int /\ n - 1 \in Int /\ \A i \in 1..(n - 1) : list[i] \in Runs
    BY <1>1
  <2>2. /\ front \in Seq(Runs)
        /\ Len(front) = IF 1 <= n - 1 THEN (n - 1) - 1 + 1 ELSE 0
        /\ \A i \in 1..((n - 1) - 1 + 1) : front[i] = list[1 + i - 1]
    BY <2>1, SubSeqProperties
  <2>3. (n - 1) - 1 + 1 = n - 1 /\ \A i \in 1..(n - 1) : 1 + i - 1 = i
    BY <1>1
  <2> HIDE DEF front
  <2>4. Len(front) = n - 1
    <3> HIDE DEF n
    <3>1. CASE n = 1
      BY <2>2, <3>1
    <3>2. CASE n # 1
      BY <1>1, <2>2, <3>2
    <3> QED BY <3>1, <3>2
  <2>5. ASSUME NEW i \in 1..(n - 1) PROVE front[i] = list[i]
    <3>1. front[i] = list[1 + i - 1] /\ 1 + i - 1 = i
      BY <2>2, <2>3
    <3> QED BY <3>1
  <2> QED BY <2>2, <2>4, <2>5
<1> HIDE DEF front
<1>4. after \in Seq(Runs) /\ Len(after) = n
  BY <1>1, <1>2, <1>3
<1>5. /\ \A i \in 1..(n - 1) : after[i] = list[i]
      /\ after[n] = run
  BY <1>1, <1>2, <1>3
<1>6. Front(list) = front
  BY DEF Front, front
<1> HIDE DEF after
<1>7. ASSUME NEW i \in 1..n, NEW j \in 1..n, i < j PROVE Hi(after[i]) < Lo(after[j])
  <2>1. i \in 1..(n - 1) /\ Hi(list[i]) < Lo(list[j])
    BY <1>1, <1>7 DEF Canonical
  <2>2. CASE j = n
    BY <1>5, <2>1, <2>2
  <2>3. CASE j # n
    <3>1. j \in 1..(n - 1)
      BY <1>1, <2>3
    <3> QED BY <1>5, <2>1, <3>1
  <2> QED BY <2>2, <2>3
<1>8. Canonical(after)
  BY <1>4, <1>7 DEF Canonical, IsRuns
<1>9. Covers(after) = CoverTo(list, n - 1) \cup Pos(run)
  <2>1. n \in Nat \ {0}
    BY <1>1
  <2>2. CoverTo(after, n) = CoverTo(after, n - 1) \cup Pos(after[n])
    BY <2>1, CoverNext
  <2>3. CoverTo(after, n - 1) = CoverTo(list, n - 1)
    BY <1>5 DEF CoverTo
  <2> QED BY <1>4, <1>5, <2>2, <2>3 DEF Covers
<1> QED BY <1>4, <1>5, <1>6, <1>8, <1>9 DEF after

\* A list with a run beyond its last one.
LEMMA RunAppended ==
  ASSUME NEW list, Canonical(list), Len(list) >= 1, NEW run, IsRun(run),
         Hi(list[Len(list)]) < Lo(run)
  PROVE  LET after == Append(list, run)
         IN  /\ Canonical(after) /\ Len(after) = Len(list) + 1 /\ after[Len(after)] = run
             /\ Covers(after) = Covers(list) \cup Pos(run)
<1> DEFINE n     == Len(list)
           after == Append(list, run)
<1>1. list \in Seq(Runs) /\ n \in Nat /\ n >= 1
  BY DEF Canonical, IsRuns
<1>2. run \in Runs
  BY RunTyped
<1>3. after \in Seq(Runs) /\ Len(after) = n + 1
  BY <1>1, <1>2
<1>4. (\A i \in 1..n : after[i] = list[i]) /\ after[n + 1] = run
  BY <1>1, <1>2
<1> HIDE DEF after
<1>5. ASSUME NEW i \in 1..(n + 1), NEW j \in 1..(n + 1), i < j PROVE Hi(after[i]) < Lo(after[j])
  <2>1. i \in 1..n
    BY <1>1, <1>5
  <2>2. CASE j = n + 1
    <3>1. CASE i = n
      BY <1>4, <2>1, <2>2, <3>1
    <3>2. CASE i # n
      <4>1. n \in 1..n /\ i < n
        BY <1>1, <2>1, <3>2
      <4>2. Hi(list[i]) < Lo(list[n])
        BY <2>1, <4>1 DEF Canonical
      <4>3. IsRun(list[n]) /\ IsRun(list[i])
        BY <1>1, <2>1, <4>1 DEF Runs
      <4>4. Lo(list[n]) < Hi(list[n]) /\ Lo(list[n]) \in Nat /\ Hi(list[n]) \in Nat
            /\ Hi(list[i]) \in Nat /\ Lo(run) \in Nat
        BY <4>3, RunFacts
      <4> QED BY <1>4, <2>1, <2>2, <4>2, <4>4
    <3> QED BY <3>1, <3>2
  <2>3. CASE j # n + 1
    <3>1. j \in 1..n
      BY <1>1, <2>3
    <3> QED BY <1>4, <1>5, <2>1, <3>1 DEF Canonical
  <2> QED BY <2>2, <2>3
<1>6. Canonical(after)
  BY <1>3, <1>5 DEF Canonical, IsRuns
<1>7. Covers(after) = Covers(list) \cup Pos(run)
  <2>1. n + 1 \in Nat \ {0} /\ (n + 1) - 1 = n
    BY <1>1
  <2>2. CoverTo(after, n + 1) = CoverTo(after, n) \cup Pos(after[n + 1])
    BY <2>1, CoverNext
  <2>3. CoverTo(after, n) = CoverTo(list, n)
    BY <1>4 DEF CoverTo
  <2> QED BY <1>3, <1>4, <2>2, <2>3 DEF Covers
<1> QED BY <1>3, <1>4, <1>6, <1>7 DEF after

\* One turn of the loop keeps the list canonical, loses no position and finds none, and counts
\* as duplicates no more bytes than it drops.
LEMMA MergeOne ==
  ASSUME NEW merged, Canonical(merged), Len(merged) >= 1, NEW dup \in Nat,
         NEW seg, IsRun(seg), Lo(merged[Len(merged)]) <= Lo(seg)
  PROVE  LET after == MergeStep([merged |-> merged, duplicates |-> dup], seg)
         IN  /\ after = [merged |-> after.merged, duplicates |-> after.duplicates]
             /\ Canonical(after.merged) /\ Len(after.merged) >= 1
             /\ Covers(after.merged) = Covers(merged) \cup Pos(seg)
             /\ Lo(after.merged[Len(after.merged)]) <= Lo(seg)
             /\ after.duplicates \in Nat
             /\ after.duplicates + Cardinality(Covers(after.merged))
                  <= dup + Cardinality(Covers(merged)) + Len(seg.data)
<1> DEFINE n     == Len(merged)
           last  == merged[n]
           over  == Hi(last) - Lo(seg)
           both  == Segment(last.seq, last.data \o Drop(seg.data, over))
           acc   == [merged |-> merged, duplicates |-> dup]
           after == MergeStep(acc, seg)
           C     == Cardinality(Covers(merged))
           L     == Len(seg.data)
<1>1. merged \in Seq(Runs) /\ n \in Nat /\ n >= 1
  BY DEF Canonical, IsRuns
<1>2. IsRun(last)
  BY <1>1 DEF Runs
<1>3. /\ Lo(last) \in Nat /\ Hi(last) \in Nat /\ Lo(last) < Hi(last)
      /\ last.seq = ISN + Lo(last) /\ End(last) = ISN + Hi(last)
      /\ Pos(last) = Lo(last)..(Hi(last) - 1)
  BY <1>2, RunFacts
<1>4. /\ Lo(seg) \in Nat /\ Hi(seg) \in Nat /\ Lo(seg) < Hi(seg)
      /\ seg.seq = ISN + Lo(seg) /\ End(seg) = ISN + Hi(seg)
      /\ Pos(seg) = Lo(seg)..(Hi(seg) - 1)
      /\ L \in Nat /\ L = Hi(seg) - Lo(seg)
      /\ IsFiniteSet(Pos(seg)) /\ Cardinality(Pos(seg)) = L
  BY RunFacts
<1>5. ISN \in Nat
  BY TCPStreamAssumption
<1>6. Last(merged) = last
  BY DEF Last
<1>7. /\ End(last) - seg.seq = over
      /\ (End(seg) <= End(last) <=> Hi(seg) <= Hi(last))
  BY <1>3, <1>4, <1>5
<1>8. after = CASE over < 0 -> [acc EXCEPT !.merged = Append(@, seg)]
                [] over >= 0 /\ Hi(seg) <= Hi(last) -> acc
                [] OTHER -> [ merged     |-> Append(Front(merged), both),
                              duplicates |-> dup + over ]
  <2> HIDE DEF last, over
  <2> QED BY <1>6, <1>7 DEF MergeStep
<1>9. over \in Int
  BY <1>3, <1>4
<1>10. n \in Nat \ {0} /\ n - 1 \in 0..n /\ n \in 0..n
  BY <1>1
<1>11. Covers(merged) = CoverTo(merged, n - 1) \cup Pos(last)
  BY <1>10, CoverNext DEF Covers
<1>12. IsFiniteSet(Covers(merged)) /\ C \in Nat
  BY <1>10, CoverFinite DEF Covers, Canonical
<1> HIDE DEF after, L, C
<1>13. CASE over < 0
  <2> DEFINE list == Append(merged, seg)
  <2>1. after = [merged |-> list, duplicates |-> dup]
    <3>1. [acc EXCEPT !.merged = Append(@, seg)] = [merged |-> list, duplicates |-> dup]
      BY SMTT(30)
    <3> HIDE DEF over, both, acc
    <3>2. after = [acc EXCEPT !.merged = Append(@, seg)]
      BY <1>8, <1>9, <1>13
    <3> QED BY <3>1, <3>2
  <2>2. Hi(last) < Lo(seg)
    BY <1>3, <1>4, <1>13
  <2>3. /\ Canonical(list) /\ Len(list) = n + 1 /\ list[Len(list)] = seg
        /\ Covers(list) = Covers(merged) \cup Pos(seg)
    BY <2>2, RunAppended
  <2> HIDE DEF list
  <2>4. Cardinality(Covers(list)) \in Nat /\ Cardinality(Covers(list)) <= C + L
    <3>1. /\ Cardinality(Covers(merged) \cup Pos(seg)) \in Nat
          /\ Cardinality(Covers(merged) \cup Pos(seg)) <= C + Cardinality(Pos(seg))
      BY <1>4, <1>12, UnionAtMost DEF C
    <3> QED BY <1>4, <2>3, <3>1
  <2>5. dup + Cardinality(Covers(list)) <= dup + C + L
    BY <1>4, <1>12, <2>4
  <2>6. n + 1 >= 1 /\ Lo(seg) <= Lo(seg)
    BY <1>1, <1>4
  <2>7. /\ after = [merged |-> after.merged, duplicates |-> after.duplicates]
        /\ Canonical(after.merged) /\ Len(after.merged) >= 1
        /\ Covers(after.merged) = Covers(merged) \cup Pos(seg)
        /\ Lo(after.merged[Len(after.merged)]) <= Lo(seg)
        /\ after.duplicates \in Nat
        /\ after.duplicates + Cardinality(Covers(after.merged)) <= dup + C + L
    BY <2>1, <2>3, <2>5, <2>6
  <2> QED BY <2>7 DEF after, C, L
<1>14. CASE over >= 0 /\ Hi(seg) <= Hi(last)
  <2>1. after = acc
    BY <1>8, <1>9, <1>14
  <2>2. Pos(seg) \subseteq Pos(last)
    BY <1>3, <1>4, <1>14
  <2>3. Covers(merged) \cup Pos(seg) = Covers(merged)
    BY <1>11, <2>2
  <2>4. dup + C <= dup + C + L
    BY <1>4, <1>12
  <2>5. /\ after = [merged |-> after.merged, duplicates |-> after.duplicates]
        /\ Canonical(after.merged) /\ Len(after.merged) >= 1
        /\ Covers(after.merged) = Covers(merged) \cup Pos(seg)
        /\ Lo(after.merged[Len(after.merged)]) <= Lo(seg)
        /\ after.duplicates \in Nat
        /\ after.duplicates + Cardinality(Covers(after.merged)) <= dup + C + L
    BY <1>1, <2>1, <2>3, <2>4 DEF C
  <2> QED BY <2>5 DEF after, C, L
<1>15. CASE over >= 0 /\ Hi(last) < Hi(seg)
  <2>1. after = [merged |-> Append(Front(merged), both), duplicates |-> dup + over]
    BY <1>3, <1>4, <1>8, <1>9, <1>15
  <2>2. IsRun(both) /\ Lo(both) = Lo(last) /\ Hi(both) = Hi(seg) /\ Pos(both) = Pos(last) \cup Pos(seg)
    <3>1. Lo(last) <= Lo(seg) /\ Lo(seg) <= Hi(last) /\ Hi(last) < Hi(seg)
      BY <1>3, <1>4, <1>15
    <3> HIDE DEF last
    <3> QED BY <1>2, <3>1, RunExtended
  <2> DEFINE list == Append(Front(merged), both)
  <2> HIDE DEF both
  <2>3. /\ Canonical(list) /\ Len(list) = n /\ list[n] = both
        /\ Covers(list) = CoverTo(merged, n - 1) \cup Pos(both)
    <3>1. LET more == Append(Front(merged), both)
          IN  /\ Canonical(more) /\ Len(more) = Len(merged) /\ more[Len(more)] = both
              /\ Covers(more) = CoverTo(merged, Len(merged) - 1) \cup Pos(both)
      BY <2>2, LastReplaced
    <3> QED BY <3>1
  <2> HIDE DEF list
  <2>4. Covers(list) = Covers(merged) \cup Pos(seg)
    BY <1>11, <2>2, <2>3
  <2>5. Covers(merged) \cup Pos(seg) = Covers(merged) \cup Hi(last)..(Hi(seg) - 1)
    <3>1. Pos(seg) = Lo(seg)..(Hi(last) - 1) \cup Hi(last)..(Hi(seg) - 1)
      BY <1>3, <1>4, <1>15
    <3>2. Lo(seg)..(Hi(last) - 1) \subseteq Pos(last)
      BY <1>3, <1>4
    <3> QED BY <1>11, <3>1, <3>2
  <2> DEFINE new == Hi(last)..(Hi(seg) - 1)
  <2>6. IsFiniteSet(new) /\ Cardinality(new) = Hi(seg) - Hi(last)
    <3>1. Hi(last) \in Int /\ Hi(seg) - 1 \in Int /\ ~(Hi(last) > Hi(seg) - 1)
      BY <1>3, <1>4, <1>15
    <3>2. /\ IsFiniteSet(new)
          /\ Cardinality(new) = IF Hi(last) > Hi(seg) - 1 THEN 0 ELSE (Hi(seg) - 1) - Hi(last) + 1
      BY <3>1, FS_Interval
    <3> HIDE DEF new
    <3> QED BY <1>3, <1>4, <3>1, <3>2
  <2> HIDE DEF new
  <2>7. Cardinality(Covers(merged) \cup new) <= C + Cardinality(new)
        /\ Cardinality(Covers(merged) \cup new) \in Nat
    BY <1>12, <2>6, UnionAtMost DEF C
  <2>8. dup + over + Cardinality(Covers(list)) <= dup + C + L
    <3>1. Cardinality(Covers(list)) = Cardinality(Covers(merged) \cup new)
      BY <2>4, <2>5 DEF new
    <3>2. Cardinality(Covers(list)) <= C + (Hi(seg) - Hi(last)) /\ Cardinality(Covers(list)) \in Nat
      BY <2>6, <2>7, <3>1
    <3>3. over = Hi(last) - Lo(seg) /\ L = Hi(seg) - Lo(seg)
      BY <1>4
    <3>4. Lo(seg) \in Int /\ Hi(seg) \in Int /\ Hi(last) \in Int /\ C \in Int
      BY <1>3, <1>4, <1>12
    <3>5. \A d, c, k, p, q, r \in Int :
            k <= c + (q - r) => d + (r - p) + k <= d + c + (q - p)
      OBVIOUS
    <3> DEFINE k == Cardinality(Covers(list))
               p == Lo(seg)
               q == Hi(seg)
               r == Hi(last)
    <3>6. /\ over = r - p /\ L = q - p /\ k <= C + (q - r)
          /\ k \in Int /\ p \in Int /\ q \in Int /\ r \in Int /\ dup \in Int
      BY <3>2, <3>3, <3>4
    <3> HIDE DEF over, last, k, p, q, r
    <3>7. dup + over + k <= dup + C + L
      BY <3>4, <3>5, <3>6
    <3> QED BY <3>7 DEF k
  <2>9. dup + over \in Nat
    BY <1>9, <1>15
  <2> HIDE DEF over
  <2>10. Lo(both) <= Lo(seg)
    BY <2>2
  <2>11. /\ after = [merged |-> after.merged, duplicates |-> after.duplicates]
        /\ Canonical(after.merged) /\ Len(after.merged) >= 1
        /\ Covers(after.merged) = Covers(merged) \cup Pos(seg)
        /\ Lo(after.merged[Len(after.merged)]) <= Lo(seg)
        /\ after.duplicates \in Nat
        /\ after.duplicates + Cardinality(Covers(after.merged)) <= dup + C + L
    BY <1>1, <2>1, <2>3, <2>4, <2>8, <2>9, <2>10 DEF list
  <2> QED BY <2>11 DEF after, C, L
<1> HIDE DEF over, last, both, acc
<1> QED BY <1>3, <1>4, <1>9, <1>13, <1>14, <1>15, SMTT(30)

\* A list of one run.
LEMMA OneRun ==
  ASSUME NEW run, IsRun(run)
  PROVE  /\ Canonical(<<run>>) /\ Len(<<run>>) = 1 /\ <<run>>[1] = run
         /\ Covers(<<run>>) = Pos(run)
<1>1. run \in Runs
  BY RunTyped
<1>2. <<run>> \in Seq(Runs) /\ Len(<<run>>) = 1 /\ <<run>>[1] = run
  BY <1>1
<1> DEFINE list == <<run>>
<1> HIDE DEF list
<1>3. Canonical(list)
  BY <1>2 DEF Canonical, IsRuns, list
<1>4. CoverTo(list, 1) = CoverTo(list, 0) \cup Pos(list[1]) /\ CoverTo(list, 0) = {}
  <2>1. 1 \in Nat \ {0} /\ 1 - 1 = 0
    OBVIOUS
  <2> QED BY <2>1, CoverNext
<1> QED BY <1>2, <1>3, <1>4 DEF Covers, list

\* _merge_segments on a sorted list: canonical, the same positions, and no byte counted as
\* duplicate that is still there.  W[k] is the number of bytes in the first k runs.
LEMMA MergeAll ==
  ASSUME NEW list, IsRuns(list), Len(list) >= 1,
         \A i, j \in 1..Len(list) : i < j => Lo(list[i]) <= Lo(list[j]),
         NEW W, \A k \in 1..Len(list) : W[k] \in Nat,
         W[1] = Len(list[1].data),
         \A k \in 2..Len(list) : W[k] = W[k - 1] + Len(list[k].data)
  PROVE  LET result == MergeSegments(list)
         IN  /\ Canonical(result.merged)
             /\ Covers(result.merged) = Covers(list)
             /\ result.duplicates \in Nat
             /\ result.duplicates + Cardinality(Covers(result.merged)) <= W[Len(list)]
<1> DEFINE n    == Len(list)
           base == [merged |-> <<Head(list)>>, duplicates |-> 0]
           rest == Tail(list)
<1>1. list \in Seq(Runs) /\ n \in Nat /\ n >= 1 /\ \A i \in 1..n : IsRun(list[i])
  BY DEF IsRuns, Runs
<1>2. /\ Head(list) = list[1] /\ rest \in Seq(Runs) /\ Len(rest) = n - 1
      /\ \A i \in 1..(n - 1) : rest[i] = list[i + 1]
  <2>1. list # <<>>
    BY <1>1
  <2> QED BY <1>1, <2>1, HeadTailProperties
<1>3. MergeSegments(list) = MergeFrom(base, rest)
  BY Zenon DEF MergeSegments, MergeFrom
<1> HIDE DEF base, rest
<1>4. n - 1 \in Nat /\ DOMAIN rest = 1..(n - 1)
  BY <1>1, <1>2
<1>5. PICK acc : MergeSteps(acc, base, rest, n - 1)
  BY <1>4, MergeUnrolled
<1> HIDE DEF base
<1> DEFINE Good(k) ==
             /\ acc[k] = [merged |-> acc[k].merged, duplicates |-> acc[k].duplicates]
             /\ Canonical(acc[k].merged) /\ Len(acc[k].merged) >= 1
             /\ Covers(acc[k].merged) = CoverTo(list, k + 1)
             /\ Lo(acc[k].merged[Len(acc[k].merged)]) <= Lo(list[k + 1])
             /\ acc[k].duplicates \in Nat
             /\ acc[k].duplicates + Cardinality(Covers(acc[k].merged)) <= W[k + 1]
           bad == {k \in 0..(n - 1) : ~Good(k)}
<1>6. Good(0)
  <2>1. acc[0].merged = <<list[1]>> /\ acc[0].duplicates = 0
        /\ acc[0] = [merged |-> <<list[1]>>, duplicates |-> 0]
    BY <1>2, <1>5 DEF base, MergeSteps
  <2>2. IsRun(list[1])
    BY <1>1
  <2>3. /\ Canonical(<<list[1]>>) /\ Len(<<list[1]>>) = 1 /\ <<list[1]>>[1] = list[1]
        /\ Covers(<<list[1]>>) = Pos(list[1])
    BY <2>2, OneRun
  <2>4. CoverTo(list, 1) = Pos(list[1])
    <3>1. 1 \in Nat \ {0} /\ 1 - 1 = 0
      OBVIOUS
    <3>2. CoverTo(list, 1) = CoverTo(list, 0) \cup Pos(list[1]) /\ CoverTo(list, 0) = {}
      BY <3>1, CoverNext
    <3> QED BY <3>2
  <2>5. /\ Lo(list[1]) \in Nat /\ Len(list[1].data) \in Nat
        /\ Cardinality(Pos(list[1])) = Len(list[1].data)
    BY <2>2, RunFacts
  <2>6. 0 + 1 = 1 /\ Lo(list[1]) <= Lo(list[1]) /\ 0 + Cardinality(Pos(list[1])) <= W[1]
    BY <2>5
  <2> QED BY <2>1, <2>3, <2>4, <2>6
<1>7. ASSUME NEW k \in 1..(n - 1), Good(k - 1) PROVE Good(k)
  <2> DEFINE merged == acc[k - 1].merged
             dup    == acc[k - 1].duplicates
             seg    == list[k + 1]
             after  == MergeStep([merged |-> merged, duplicates |-> dup], seg)
  <2>1. acc[k] = after
    <3>1. rest[k] = seg /\ acc[k] = MergeStep(acc[k - 1], rest[k])
      BY <1>2, <1>5 DEF MergeSteps
    <3>2. acc[k - 1] = [merged |-> merged, duplicates |-> dup]
      BY <1>7
    <3> QED BY <3>1, <3>2
  <2>2. /\ k \in 1..n /\ k + 1 \in 1..n /\ k + 1 \in 2..n /\ k < k + 1
        /\ (k - 1) + 1 = k /\ (k + 1) - 1 = k /\ k + 1 \in Nat \ {0}
    BY <1>1
  <2>3. IsRun(seg) /\ IsRun(list[k])
    BY <1>1, <2>2
  <2>4. /\ Canonical(merged) /\ Len(merged) >= 1 /\ Covers(merged) = CoverTo(list, k)
        /\ Lo(merged[Len(merged)]) <= Lo(list[k])
        /\ dup \in Nat /\ dup + Cardinality(Covers(merged)) <= W[k]
    BY <1>7, <2>2
  <2>5. Lo(merged[Len(merged)]) <= Lo(seg)
    <3>1. Lo(list[k]) <= Lo(seg)
      BY <2>2
    <3>2. IsRun(merged[Len(merged)])
      <4>1. merged \in Seq(Runs) /\ Len(merged) \in 1..Len(merged)
        BY <2>4 DEF Canonical, IsRuns
      <4> HIDE DEF merged
      <4> QED BY <4>1 DEF Runs
    <3>3. Lo(list[k]) \in Nat /\ Lo(seg) \in Nat /\ Lo(merged[Len(merged)]) \in Nat
      BY <2>3, <3>2, RunFacts
    <3> HIDE DEF merged, seg
    <3> QED BY <2>4, <3>1, <3>3
  <2>6. /\ after = [merged |-> after.merged, duplicates |-> after.duplicates]
        /\ Canonical(after.merged) /\ Len(after.merged) >= 1
        /\ Covers(after.merged) = Covers(merged) \cup Pos(seg)
        /\ Lo(after.merged[Len(after.merged)]) <= Lo(seg)
        /\ after.duplicates \in Nat
        /\ after.duplicates + Cardinality(Covers(after.merged))
             <= dup + Cardinality(Covers(merged)) + Len(seg.data)
    <3> HIDE DEF merged, dup, seg
    <3> QED BY <2>3, <2>4, <2>5, MergeOne
  <2>7. Covers(after.merged) = CoverTo(list, k + 1)
    <3>1. CoverTo(list, k + 1) = CoverTo(list, k) \cup Pos(seg)
      BY <2>2, CoverNext
    <3> QED BY <2>4, <2>6, <3>1
  <2>8. after.duplicates + Cardinality(Covers(after.merged)) <= W[k + 1]
    <3>1. W[k + 1] = W[k] + Len(seg.data) /\ W[k] \in Nat /\ W[k + 1] \in Nat
      BY <2>2
    <3>2. Len(seg.data) \in Nat
      BY <2>3, RunFacts
    <3>3. Cardinality(Covers(after.merged)) \in Nat /\ Cardinality(Covers(merged)) \in Nat
      <4>1. ASSUME NEW l, Canonical(l) PROVE Cardinality(Covers(l)) \in Nat
        <5>1. IsRuns(l) /\ Len(l) \in 0..Len(l)
          BY <4>1 DEF Canonical, IsRuns
        <5> QED BY <5>1, CoverFinite DEF Covers
      <4> HIDE DEF after, merged
      <4> QED BY <2>4, <2>6, <4>1
    <3> HIDE DEF after, merged, dup, seg
    <3> QED BY <2>4, <2>6, <3>1, <3>2, <3>3, SMTT(30)
  <2> HIDE DEF after, merged, dup
  <2> QED BY <2>1, <2>6, <2>7, <2>8
<1> HIDE DEF Good
<1>8. Good(n - 1)
  <2>1. CASE bad = {}
    BY <1>4, <2>1
  <2>2. CASE bad # {}
    <3>1. PICK k \in bad : \A j \in bad : k <= j
      <4>1. bad \in SUBSET Nat
        BY <1>4
      <4> HIDE DEF bad
      <4> QED BY <2>2, <4>1, LeastNumber
    <3>2. k \in 0..(n - 1) /\ ~Good(k)
      OBVIOUS
    <3>3. k # 0
      BY <1>6, <3>2
    <3>4. k \in 1..(n - 1) /\ k - 1 \in 0..(n - 1) /\ ~(k <= k - 1)
      BY <1>4, <3>2, <3>3
    <3>5. k - 1 \notin bad
      <4> HIDE DEF bad
      <4> QED BY <3>1, <3>4
    <3>6. Good(k - 1)
      BY <3>4, <3>5
    <3> QED BY <1>7, <3>2, <3>4, <3>6
  <2> QED BY <2>1, <2>2
<1>9. MergeSegments(list) = acc[n - 1]
  BY <1>3, <1>5 DEF MergeSteps
<1>10. (n - 1) + 1 = n
  BY <1>1
<1> QED BY <1>8, <1>9, <1>10 DEF Good, Covers

-----------------------------------------------------------------------------
(* Insertion into the buffer.                                              *)

\* The least number of a set is one of its members, below all the others.
LEMMA MinIs ==
  ASSUME NEW S \in SUBSET Nat, S # {}
  PROVE  Min(S) \in S /\ \A n \in S : Min(S) <= n
<1>1. \E m \in S : \A n \in S : m <= n
  BY LeastNumber
<1> QED BY <1>1 DEF Min

\* Python's list.insert.
LEMMA Inserted ==
  ASSUME NEW T, NEW list \in Seq(T), NEW e \in T, NEW k \in 1..(Len(list) + 1)
  PROVE  /\ InsertAt(list, k, e) \in Seq(T)
         /\ Len(InsertAt(list, k, e)) = Len(list) + 1
         /\ \A i \in 1..(Len(list) + 1) :
              InsertAt(list, k, e)[i] = IF i < k THEN list[i]
                                        ELSE IF i = k THEN e ELSE list[i - 1]
<1> DEFINE n     == Len(list)
           left  == SubSeq(list, 1, k - 1)
           mid   == left \o <<e>>
           right == SubSeq(list, k, n)
<1>1. n \in Nat /\ k \in 1..(n + 1) /\ \A i \in 1..n : list[i] \in T
  OBVIOUS
<1>2. left \in Seq(T) /\ Len(left) = k - 1 /\ \A i \in 1..(k - 1) : left[i] = list[i]
  <2>1. 1 \in Int /\ k - 1 \in Int /\ \A i \in 1..(k - 1) : list[i] \in T
    BY <1>1
  <2>2. /\ left \in Seq(T)
        /\ Len(left) = IF 1 <= k - 1 THEN (k - 1) - 1 + 1 ELSE 0
        /\ \A i \in 1..((k - 1) - 1 + 1) : left[i] = list[1 + i - 1]
    BY <2>1, SubSeqProperties
  <2> HIDE DEF left
  <2>3. (k - 1) - 1 + 1 = k - 1
    BY <1>1
  <2>4. Len(left) = k - 1
    BY <1>1, <2>2
  <2>5. ASSUME NEW i \in 1..(k - 1) PROVE left[i] = list[i]
    <3>1. left[i] = list[1 + i - 1] /\ 1 + i - 1 = i
      BY <2>2, <2>3
    <3> QED BY <3>1
  <2> QED BY <2>2, <2>4, <2>5
<1>3. right \in Seq(T) /\ Len(right) = n - k + 1 /\ \A i \in 1..(n - k + 1) : right[i] = list[k + i - 1]
  <2>1. k \in Int /\ n \in Int /\ \A i \in k..n : list[i] \in T
    BY <1>1
  <2> HIDE DEF n
  <2>2. /\ right \in Seq(T)
        /\ Len(right) = IF k <= n THEN n - k + 1 ELSE 0
        /\ \A i \in 1..(n - k + 1) : right[i] = list[k + i - 1]
    BY <2>1, SubSeqProperties
  <2> HIDE DEF right
  <2>3. Len(right) = n - k + 1
    BY <1>1, <2>2
  <2> QED BY <2>2, <2>3
<1> HIDE DEF left, right, n
<1>4. /\ mid \in Seq(T) /\ Len(mid) = k
      /\ \A i \in 1..k : mid[i] = IF i <= k - 1 THEN left[i] ELSE e
  <2>1. <<e>> \in Seq(T) /\ Len(<<e>>) = 1 /\ <<e>>[1] = e
    OBVIOUS
  <2> DEFINE one == <<e>>
  <2> HIDE DEF one
  <2>2. one \in Seq(T) /\ Len(one) = 1 /\ one[1] = e
    BY <2>1 DEF one
  <2>3. /\ left \o one \in Seq(T) /\ Len(left \o one) = (k - 1) + 1
        /\ \A i \in 1..((k - 1) + 1) : (left \o one)[i] = IF i <= k - 1 THEN left[i] ELSE one[i - (k - 1)]
    <3>1. /\ left \o one \in Seq(T) /\ Len(left \o one) = Len(left) + Len(one)
          /\ \A i \in 1..(Len(left) + Len(one)) :
               (left \o one)[i] = IF i <= Len(left) THEN left[i] ELSE one[i - Len(left)]
      BY <1>2, <2>2, ConcatProperties
    <3>2. Len(left) = k - 1 /\ Len(one) = 1
      BY <1>2, <2>2
    <3> QED BY <3>1, <3>2
  <2>4. (k - 1) + 1 = k /\ mid = left \o one
    BY <1>1 DEF one
  <2>5. ASSUME NEW i \in 1..k PROVE mid[i] = IF i <= k - 1 THEN left[i] ELSE e
    <3>1. mid[i] = IF i <= k - 1 THEN left[i] ELSE one[i - (k - 1)]
      BY <2>3, <2>4
    <3>2. i <= k - 1 \/ i - (k - 1) = 1
      BY <1>1
    <3> HIDE DEF mid
    <3> QED BY <2>2, <3>1, <3>2
  <2> QED BY <2>3, <2>4, <2>5
<1> HIDE DEF mid
<1>5. /\ mid \o right \in Seq(T) /\ Len(mid \o right) = k + (n - k + 1)
      /\ \A i \in 1..(k + (n - k + 1)) :
           (mid \o right)[i] = IF i <= k THEN mid[i] ELSE right[i - k]
  <2>1. mid \in Seq(T) /\ right \in Seq(T)
    BY <1>3, <1>4
  <2>2. /\ mid \o right \in Seq(T) /\ Len(mid \o right) = Len(mid) + Len(right)
        /\ \A i \in 1..(Len(mid) + Len(right)) :
             (mid \o right)[i] = IF i <= Len(mid) THEN mid[i] ELSE right[i - Len(mid)]
    BY <2>1, ConcatProperties
  <2> QED BY <1>3, <1>4, <2>2
<1>6. k + (n - k + 1) = n + 1
  BY <1>1
<1>7. InsertAt(list, k, e) = mid \o right
  BY DEF InsertAt, mid, left, right, n
<1> DEFINE all == mid \o right
<1> HIDE DEF all
<1>8. ASSUME NEW i \in 1..(n + 1)
      PROVE  all[i] = IF i < k THEN list[i] ELSE IF i = k THEN e ELSE list[i - 1]
  <2>1. all[i] = IF i <= k THEN mid[i] ELSE right[i - k]
    BY <1>5, <1>6 DEF all
  <2>2. CASE i < k
    <3>1. i \in 1..k /\ i \in 1..(k - 1) /\ i <= k /\ i <= k - 1
      BY <1>1, <2>2
    <3> QED BY <1>2, <1>4, <2>1, <2>2, <3>1
  <2>3. CASE i = k
    <3>1. i \in 1..k /\ i <= k /\ ~(i <= k - 1) /\ ~(i < k)
      BY <1>1, <2>3
    <3> QED BY <1>4, <2>1, <2>3, <3>1
  <2>4. CASE i > k
    <3>1. i - k \in 1..(n - k + 1) /\ ~(i <= k) /\ ~(i < k) /\ i # k /\ k + (i - k) - 1 = i - 1
      BY <1>1, <2>4
    <3> QED BY <1>3, <2>1, <3>1
  <2> QED BY <1>1, <2>2, <2>3, <2>4
<1> QED BY <1>5, <1>6, <1>7, <1>8 DEF all, n

\* Where the new run goes: the runs before it start no later, the others start after it.
LEMMA InsertedSorted ==
  ASSUME NEW list, Canonical(list), NEW run, IsRun(run)
  PROVE  LET k     == Min({i \in DOMAIN list : list[i].seq > run.seq} \cup {Len(list) + 1})
             after == InsertAt(list, k, run)
         IN  /\ k \in 1..(Len(list) + 1)
             /\ IsRuns(after) /\ Len(after) = Len(list) + 1
             /\ \A i \in 1..Len(after) :
                  after[i] = IF i < k THEN list[i] ELSE IF i = k THEN run ELSE list[i - 1]
             /\ \A i, j \in 1..Len(after) : i < j => Lo(after[i]) <= Lo(after[j])
<1> DEFINE n     == Len(list)
           later == {i \in DOMAIN list : list[i].seq > run.seq}
           k     == Min(later \cup {n + 1})
           after == InsertAt(list, k, run)
<1>1. list \in Seq(Runs) /\ n \in Nat /\ DOMAIN list = 1..n /\ run \in Runs
  BY RunTyped DEF Canonical, IsRuns
<1>2. \A i \in 1..n : IsRun(list[i])
  BY <1>1 DEF Runs
<1>3. \A i \in 1..n : list[i].seq = ISN + Lo(list[i]) /\ Lo(list[i]) \in Nat /\ Hi(list[i]) \in Nat
                      /\ Lo(list[i]) < Hi(list[i])
  BY <1>2, RunFacts
<1>4. run.seq = ISN + Lo(run) /\ Lo(run) \in Nat /\ ISN \in Nat
  <2>1. ISN \in Nat
    BY TCPStreamAssumption
  <2>2. run.seq = ISN + Lo(run) /\ Lo(run) \in Nat
    BY RunFacts
  <2> QED BY <2>1, <2>2
<1>5. later = {i \in 1..n : Lo(list[i]) > Lo(run)}
  BY <1>1, <1>3, <1>4
<1>6. \A i, j \in 1..n : i < j => Hi(list[i]) < Lo(list[j])
  BY DEF Canonical
<1> HIDE DEF n, later
<1>7. k \in later \cup {n + 1} /\ \A i \in later \cup {n + 1} : k <= i
  <2>1. later \cup {n + 1} \in SUBSET Nat /\ later \cup {n + 1} # {}
    BY <1>1, <1>5
  <2> QED BY <2>1, MinIs
<1> HIDE DEF k
<1>8. k \in 1..(n + 1)
  BY <1>1, <1>5, <1>7
<1>9. /\ after \in Seq(Runs) /\ Len(after) = n + 1
      /\ \A i \in 1..(n + 1) :
           after[i] = IF i < k THEN list[i] ELSE IF i = k THEN run ELSE list[i - 1]
  <2>1. k \in 1..(Len(list) + 1)
    BY <1>8 DEF n
  <2> QED BY <1>1, <2>1, Inserted DEF n
<1> HIDE DEF after
<1>10. ASSUME NEW i \in 1..n, i < k PROVE Lo(list[i]) <= Lo(run)
  <2>1. i \notin later
    BY <1>7, <1>8, <1>10
  <2> QED BY <1>3, <1>4, <1>5, <2>1
<1>11. ASSUME NEW i \in 1..n, k <= i PROVE Lo(run) < Lo(list[i])
  <2>1. k \in 1..n /\ k \in later
    BY <1>1, <1>7, <1>8, <1>11
  <2>2. Lo(run) < Lo(list[k])
    BY <1>3, <1>4, <1>5, <2>1
  <2>3. CASE i = k
    BY <2>2, <2>3
  <2>4. CASE i # k
    <3>1. k < i /\ Hi(list[k]) < Lo(list[i])
      BY <1>6, <1>11, <2>1, <2>4
    <3> QED BY <1>3, <1>4, <2>1, <2>2, <3>1
  <2> QED BY <2>3, <2>4
<1>12. ASSUME NEW i \in 1..(n + 1), NEW j \in 1..(n + 1), i < j PROVE Lo(after[i]) <= Lo(after[j])
  <2>1. CASE j < k
    <3>1. i \in 1..n /\ j \in 1..n /\ i < k
      BY <1>1, <1>8, <1>12, <2>1
    <3>2. after[i] = list[i] /\ after[j] = list[j] /\ Hi(list[i]) < Lo(list[j])
      BY <1>6, <1>9, <1>12, <2>1, <3>1
    <3> QED BY <1>3, <3>1, <3>2
  <2>2. CASE j = k
    <3>1. i \in 1..n /\ i < k /\ ~(j < k)
      BY <1>1, <1>8, <1>12, <2>2
    <3>2. after[i] = list[i] /\ after[j] = run
      BY <1>9, <2>2, <3>1
    <3> QED BY <1>10, <3>1, <3>2
  <2>3. CASE j > k
    <3>1. j - 1 \in 1..n /\ k <= j - 1 /\ ~(j < k) /\ j # k
      BY <1>1, <1>8, <2>3
    <3>2. after[j] = list[j - 1] /\ Lo(run) < Lo(list[j - 1])
      BY <1>9, <1>11, <3>1
    <3>3. CASE i < k
      <4>1. i \in 1..n
        BY <1>1, <1>8, <3>3
      <4>2. after[i] = list[i] /\ Lo(list[i]) <= Lo(run)
        BY <1>9, <1>10, <3>3, <4>1
      <4> QED BY <1>3, <1>4, <3>1, <3>2, <4>1, <4>2
    <3>4. CASE i = k
      <4>1. after[i] = run
        BY <1>8, <1>9, <3>4
      <4> QED BY <1>3, <1>4, <3>1, <3>2, <4>1
    <3>5. CASE i > k
      <4>1. i - 1 \in 1..n /\ i - 1 < j - 1 /\ ~(i < k) /\ i # k
        BY <1>1, <1>8, <1>12, <3>1, <3>5
      <4>2. after[i] = list[i - 1] /\ Hi(list[i - 1]) < Lo(list[j - 1])
        BY <1>6, <1>9, <3>1, <4>1
      <4> QED BY <1>3, <3>1, <3>2, <4>1, <4>2
    <3> QED BY <1>8, <3>3, <3>4, <3>5
  <2> QED BY <1>8, <2>1, <2>2, <2>3
<1>13. /\ k \in 1..(n + 1) /\ after \in Seq(Runs) /\ Len(after) = n + 1
       /\ \A i \in 1..Len(after) :
            after[i] = IF i < k THEN list[i] ELSE IF i = k THEN run ELSE list[i - 1]
       /\ \A i, j \in 1..Len(after) : i < j => Lo(after[i]) <= Lo(after[j])
  BY <1>8, <1>9, <1>12
<1> QED BY <1>13 DEF after, k, later, n, IsRuns

\* What a canonical list covers is a finite set of positions.
LEMMA CanonicalFinite ==
  ASSUME NEW list, Canonical(list)
  PROVE  /\ Covers(list) \in SUBSET Positions
         /\ IsFiniteSet(Covers(list)) /\ Cardinality(Covers(list)) \in Nat
<1>1. IsRuns(list) /\ Len(list) \in 0..Len(list)
  BY DEF Canonical, IsRuns
<1> QED BY <1>1, CoverFinite DEF Covers

\* Inserting a run and merging: the buffer is canonical again and holds the new positions too,
\* and what is held or counted as duplicate grows by at most the bytes that came.
LEMMA InsertMerged ==
  ASSUME NEW list, Canonical(list), NEW run, IsRun(run)
  PROVE  LET k      == Min({i \in DOMAIN list : list[i].seq > run.seq} \cup {Len(list) + 1})
             result == MergeSegments(InsertAt(list, k, run))
         IN  /\ Canonical(result.merged)
             /\ Covers(result.merged) = Covers(list) \cup Pos(run)
             /\ result.duplicates \in Nat
             /\ result.duplicates + Cardinality(Covers(result.merged))
                  <= Cardinality(Covers(list)) + Len(run.data)
<1> DEFINE n     == Len(list)
           k     == Min({i \in DOMAIN list : list[i].seq > run.seq} \cup {Len(list) + 1})
           after == InsertAt(list, k, run)
           L     == Len(run.data)
           W     == [j \in 1..(n + 1) |-> IF j < k THEN Cardinality(CoverTo(list, j))
                                          ELSE Cardinality(CoverTo(list, j - 1)) + L]
           result == MergeSegments(after)
<1>1. /\ k \in 1..(n + 1)
      /\ IsRuns(after) /\ Len(after) = n + 1
      /\ \A i \in 1..Len(after) :
           after[i] = IF i < k THEN list[i] ELSE IF i = k THEN run ELSE list[i - 1]
      /\ \A i, j \in 1..Len(after) : i < j => Lo(after[i]) <= Lo(after[j])
  BY InsertedSorted
<1>2. IsRuns(list) /\ n \in Nat
  BY DEF Canonical, IsRuns
<1>3. L \in Nat
  BY RunFacts
<1>4. \A j \in 0..n : Cardinality(CoverTo(list, j)) \in Nat
  BY <1>2, CoverFinite
<1>5. \A j \in 1..n : Cardinality(CoverTo(list, j))
                        = Cardinality(CoverTo(list, j - 1)) + Len(list[j].data)
  BY CoverGrows
<1>6. CoverTo(list, 0) = {} /\ Cardinality(CoverTo(list, 0)) = 0
  <2>1. 1 \in Nat \ {0}
    OBVIOUS
  <2>2. CoverTo(list, 0) = {}
    BY <2>1, CoverNext
  <2> QED BY <2>2, FS_EmptySet
<1> HIDE DEF n, k, after, L
<1>7. \A j \in 1..(n + 1) : W[j] \in Nat
  <2> SUFFICES ASSUME NEW j \in 1..(n + 1) PROVE W[j] \in Nat
    OBVIOUS
  <2>1. CASE j < k
    <3>1. j \in 0..n /\ W[j] = Cardinality(CoverTo(list, j))
      BY <1>1, <1>2, <2>1
    <3> QED BY <1>4, <3>1
  <2>2. CASE ~(j < k)
    <3>1. j - 1 \in 0..n /\ W[j] = Cardinality(CoverTo(list, j - 1)) + L
      BY <1>2, <2>2
    <3> QED BY <1>3, <1>4, <3>1
  <2> QED BY <2>1, <2>2
<1>8. W[1] = Len(after[1].data)
  <2>0. 1 \in 1..(n + 1) /\ 1 - 1 = 0
    BY <1>2
  <2>1. CASE k = 1
    <3>1. after[1] = run /\ W[1] = Cardinality(CoverTo(list, 0)) + L
      BY <1>1, <2>0, <2>1
    <3> QED BY <1>3, <1>6, <3>1 DEF L
  <2>2. CASE k # 1
    <3>1. 1 < k /\ 1 \in 1..n
      BY <1>1, <1>2, <2>2
    <3>2. after[1] = list[1] /\ W[1] = Cardinality(CoverTo(list, 1))
      BY <1>1, <2>0, <3>1
    <3>3. Cardinality(CoverTo(list, 1)) = 0 + Len(list[1].data)
      BY <1>5, <1>6, <2>0, <3>1
    <3>4. Len(list[1].data) \in Nat
      <4>1. IsRun(list[1])
        BY <1>2, <3>1 DEF IsRuns, Runs, n
      <4> QED BY <4>1, RunFacts
    <3> QED BY <3>2, <3>3, <3>4
  <2> QED BY <2>1, <2>2
<1>9. \A j \in 2..(n + 1) : W[j] = W[j - 1] + Len(after[j].data)
  <2> SUFFICES ASSUME NEW j \in 2..(n + 1) PROVE W[j] = W[j - 1] + Len(after[j].data)
    OBVIOUS
  <2>0. j \in 1..(n + 1) /\ j - 1 \in 1..(n + 1) /\ j - 1 \in 0..n /\ j - 1 \in 1..n
    BY <1>2
  <2>1. CASE j < k
    <3>1. j \in 1..n /\ j - 1 < k
      BY <1>1, <1>2, <2>1
    <3>2. W[j] = Cardinality(CoverTo(list, j)) /\ W[j - 1] = Cardinality(CoverTo(list, j - 1))
      BY <2>0, <2>1, <3>1
    <3>3. after[j] = list[j]
      BY <1>1, <2>0, <2>1
    <3> QED BY <1>5, <3>1, <3>2, <3>3
  <2>2. CASE j = k
    <3>1. j - 1 < k /\ ~(j < k)
      BY <1>1, <2>2
    <3>2. W[j] = Cardinality(CoverTo(list, j - 1)) + L /\ W[j - 1] = Cardinality(CoverTo(list, j - 1))
      BY <2>0, <3>1
    <3>3. after[j] = run
      BY <1>1, <2>0, <2>2, <3>1
    <3> QED BY <3>2, <3>3 DEF L
  <2>3. CASE j > k
    <3>1. ~(j - 1 < k) /\ ~(j < k) /\ j # k
      BY <1>1, <2>0, <2>3
    <3>2. /\ W[j] = Cardinality(CoverTo(list, j - 1)) + L
          /\ W[j - 1] = Cardinality(CoverTo(list, (j - 1) - 1)) + L
      BY <2>0, <3>1
    <3>3. after[j] = list[j - 1]
      BY <1>1, <2>0, <3>1
    <3>4. Cardinality(CoverTo(list, j - 1))
            = Cardinality(CoverTo(list, (j - 1) - 1)) + Len(list[j - 1].data)
      BY <1>5, <2>0
    <3>5. (j - 1) - 1 \in 0..n /\ Cardinality(CoverTo(list, (j - 1) - 1)) \in Nat
      BY <1>2, <1>4, <2>0
    <3>6. Len(list[j - 1].data) \in Nat
      <4>1. IsRun(list[j - 1])
        BY <1>2, <2>0 DEF IsRuns, Runs, n
      <4> QED BY <4>1, RunFacts
    <3> HIDE DEF W
    <3> QED BY <1>3, <3>2, <3>3, <3>4, <3>5, <3>6
  <2> QED BY <1>1, <2>1, <2>2, <2>3
<1>10. W[n + 1] = Cardinality(Covers(list)) + L
  <2>1. n + 1 \in 1..(n + 1) /\ ~(n + 1 < k) /\ (n + 1) - 1 = n
    BY <1>1, <1>2
  <2> QED BY <2>1 DEF Covers, n
<1> HIDE DEF W
<1>11. /\ Canonical(result.merged)
       /\ Covers(result.merged) = Covers(after)
       /\ result.duplicates \in Nat
       /\ result.duplicates + Cardinality(Covers(result.merged)) <= W[Len(after)]
  <2>1. Len(after) >= 1 /\ Len(after) = n + 1
    BY <1>1, <1>2
  <2> QED BY <1>1, <1>7, <1>8, <1>9, <2>1, MergeAll
<1>12. Covers(after) = Covers(list) \cup Pos(run)
  <2>1. ASSUME NEW p \in Covers(after) PROVE p \in Covers(list) \cup Pos(run)
    <3>1. PICK i \in 1..(n + 1) : p \in Pos(after[i])
      BY <1>1 DEF Covers, CoverTo
    <3>2. after[i] = run \/ \E j \in 1..n : after[i] = list[j]
      <4>1. CASE i < k
        <5>1. i \in 1..n /\ after[i] = list[i]
          BY <1>1, <1>2, <4>1
        <5> QED BY <5>1
      <4>2. CASE i = k
        BY <1>1, <4>2
      <4>3. CASE i > k
        <5>1. i - 1 \in 1..n /\ after[i] = list[i - 1]
          BY <1>1, <1>2, <4>3
        <5> QED BY <5>1
      <4> QED BY <1>1, <4>1, <4>2, <4>3
    <3> QED BY <3>1, <3>2 DEF Covers, CoverTo, n
  <2>2. ASSUME NEW p \in Covers(list) PROVE p \in Covers(after)
    <3>1. PICK i \in 1..n : p \in Pos(list[i])
      BY <2>2 DEF Covers, CoverTo, n
    <3>2. \E j \in 1..(n + 1) : after[j] = list[i]
      <4>1. CASE i < k
        <5>1. i \in 1..(n + 1) /\ after[i] = list[i]
          BY <1>1, <1>2, <4>1
        <5> QED BY <5>1
      <4>2. CASE ~(i < k)
        <5>1. i + 1 \in 1..(n + 1) /\ ~(i + 1 < k) /\ i + 1 # k /\ (i + 1) - 1 = i
          BY <1>1, <1>2, <4>2
        <5>2. after[i + 1] = list[i]
          BY <1>1, <5>1
        <5> QED BY <5>1, <5>2
      <4> QED BY <4>1, <4>2
    <3> QED BY <1>1, <3>1, <3>2 DEF Covers, CoverTo
  <2>3. Pos(run) \subseteq Covers(after)
    <3>1. after[k] = run
      BY <1>1
    <3> QED BY <1>1, <3>1 DEF Covers, CoverTo
  <2> QED BY <2>1, <2>2, <2>3
<1>13. /\ Canonical(result.merged)
       /\ Covers(result.merged) = Covers(list) \cup Pos(run)
       /\ result.duplicates \in Nat
       /\ result.duplicates + Cardinality(Covers(result.merged))
            <= Cardinality(Covers(list)) + L
  BY <1>1, <1>10, <1>11, <1>12
<1> QED BY <1>13 DEF result, after, k, L

-----------------------------------------------------------------------------
(* The number of buffered bytes.                                           *)

CountFrom(list) == FoldLeft(LAMBDA n, seg : n + Len(seg.data), 0, list)

\* acc[k] is the number of bytes in the first k segments.
CountSteps(acc, list, n) ==
  /\ acc[0] = 0
  /\ \A k \in 1..n : acc[k] = acc[k - 1] + Len(list[k].data)
  /\ acc[n] = CountFrom(list)

\* The sum of the model adds the segments one by one.
LEMMA CountUnrolled ==
  ASSUME NEW list, NEW n \in Nat, DOMAIN list = 1..n
  PROVE  \E acc : CountSteps(acc, list, n)
<1> DEFINE Unroll(m, g) ==
             [s \in SUBSET (1..m) |-> IF s = {} THEN 0
                                      ELSE g[s \ {Max(s)}] + Len(list[Max(s)].data)]
           Exists(m) == \E g : g = Unroll(m, g)
           bad == {m \in Nat : ~Exists(m)}
<1>1. ASSUME NEW m \in Nat, NEW s \in SUBSET (1..m), m \in s PROVE Max(s) = m
  <2>1. s \in SUBSET Int /\ \A k \in s : k <= m
    OBVIOUS
  <2> QED BY <1>1, <2>1, MaxIs
<1>2. \A m \in Nat : Exists(m)
  <2>1. CASE bad = {}
    BY <2>1
  <2>2. CASE bad # {}
    <3>1. PICK m \in bad : \A k \in bad : m <= k
      <4>1. bad \in SUBSET Nat
        OBVIOUS
      <4> HIDE DEF bad
      <4> QED BY <2>2, <4>1, LeastNumber
    <3>2. m # 0
      <4> DEFINE g == [s \in SUBSET (1..0) |-> 0]
      <4>1. \A s \in SUBSET (1..0) : s = {}
        OBVIOUS
      <4>2. Unroll(0, g) = [s \in SUBSET (1..0) |-> 0]
        BY <4>1
      <4>3. Exists(0)
        BY <4>2
      <4> QED BY <4>3
    <3>3. m - 1 \in Nat /\ Exists(m - 1)
      <4>1. m \in Nat /\ m # 0
        BY <3>2
      <4>2. m - 1 \in Nat /\ m - 1 < m
        BY <4>1
      <4>3. m - 1 \notin bad
        <5> HIDE DEF bad
        <5> QED BY <3>1, <4>1, <4>2
      <4> QED BY <4>2, <4>3
    <3>4. PICK g : g = Unroll(m - 1, g)
      BY <3>3
    <3> DEFINE h == [s \in SUBSET (1..m) |-> IF m \in s THEN g[s \ {m}] + Len(list[m].data)
                                             ELSE g[s]]
    <3>5. ASSUME NEW s \in SUBSET (1..m)
          PROVE  h[s] = IF s = {} THEN 0 ELSE h[s \ {Max(s)}] + Len(list[Max(s)].data)
      <4>1. CASE m \in s
        <5>1. Max(s) = m /\ s \ {m} \in SUBSET (1..m)
          BY <1>1, <4>1
        <5> QED BY <4>1, <5>1
      <4>2. CASE m \notin s
        <5>1. s \in SUBSET (1..(m - 1))
          BY <3>3, <4>2
        <5>2. h[s] = g[s]
          BY <4>2
        <5>3. g[s] = IF s = {} THEN 0 ELSE g[s \ {Max(s)}] + Len(list[Max(s)].data)
          BY <3>4, <5>1
        <5>4. s \ {Max(s)} \in SUBSET (1..m) /\ m \notin s \ {Max(s)}
          BY <4>2
        <5>5. h[s \ {Max(s)}] = g[s \ {Max(s)}]
          BY <5>4
        <5> QED BY <5>2, <5>3, <5>5
      <4> QED BY <4>1, <4>2
    <3>6. h = Unroll(m, h)
      <4>1. h = [s \in SUBSET (1..m) |-> h[s]]
        OBVIOUS
      <4> HIDE DEF h
      <4> QED BY <3>5, <4>1
    <3> QED BY <3>1, <3>6
  <2> QED BY <2>1, <2>2
<1> DEFINE iter == CHOOSE iter : iter = Unroll(n, iter)
<1>3. iter = Unroll(n, iter)
  BY <1>2
<1>4. CountFrom(list) = iter[1..n]
  BY Zenon DEF CountFrom, FoldLeft, MapThenFoldSet
<1> DEFINE acc == [k \in 0..n |-> iter[1..k]]
<1> HIDE DEF iter
<1>5. acc[0] = 0
  BY <1>3
<1>6. ASSUME NEW k \in 1..n PROVE acc[k] = acc[k - 1] + Len(list[k].data)
  <2>1. /\ 1..k \in SUBSET (1..n) /\ 1..k # {} /\ k \in 1..k /\ k \in Nat
        /\ (1..k) \ {k} = 1..(k - 1) /\ k - 1 \in 0..n
    <3>1. k \in Nat /\ k >= 1 /\ k <= n /\ k - 1 \in 0..n
      OBVIOUS
    <3>2. k \in 1..k /\ 1..k \in SUBSET (1..n)
      BY <3>1
    <3>3. \A j : j \in (1..k) \ {k} <=> j \in 1..(k - 1)
      BY <3>1
    <3>4. (1..k) \ {k} = 1..(k - 1)
      BY <3>3, Zenon
    <3> QED BY <3>1, <3>2, <3>4, Zenon
  <2>2. Max(1..k) = k
    BY <1>1, <2>1
  <2>3. iter[1..k] = iter[1..(k - 1)] + Len(list[k].data)
    BY <1>3, <2>1, <2>2
  <2> QED BY <2>1, <2>3
<1>7. acc[n] = iter[1..n]
  OBVIOUS
<1> HIDE DEF acc
<1> QED BY <1>4, <1>5, <1>6, <1>7 DEF CountSteps

\* The bytes of the runs of a canonical buffer, added up, are as many as its positions: none
\* is held twice.
LEMMA CountIsCardinality ==
  ASSUME NEW list, Canonical(list)
  PROVE  CountFrom(list) = Cardinality(Covers(list))
<1> DEFINE n == Len(list)
<1>1. IsRuns(list) /\ n \in Nat /\ DOMAIN list = 1..n
  BY DEF Canonical, IsRuns
<1> HIDE DEF n
<1>2. PICK acc : CountSteps(acc, list, n)
  BY <1>1, CountUnrolled
<1> DEFINE Same(k) == acc[k] = Cardinality(CoverTo(list, k))
           bad == {k \in 0..n : ~Same(k)}
<1>3. Same(0)
  <2>1. 1 \in Nat \ {0}
    OBVIOUS
  <2>2. CoverTo(list, 0) = {}
    BY <2>1, CoverNext
  <2> QED BY <1>2, <2>2, FS_EmptySet DEF CountSteps
<1>4. ASSUME NEW k \in 1..n, Same(k - 1) PROVE Same(k)
  <2>1. acc[k] = acc[k - 1] + Len(list[k].data)
    BY <1>2 DEF CountSteps
  <2>2. Cardinality(CoverTo(list, k)) = Cardinality(CoverTo(list, k - 1)) + Len(list[k].data)
    BY CoverGrows DEF n
  <2> QED BY <1>4, <2>1, <2>2
<1> HIDE DEF Same
<1>5. Same(n)
  <2>1. CASE bad = {}
    BY <1>1, <2>1
  <2>2. CASE bad # {}
    <3>1. PICK k \in bad : \A j \in bad : k <= j
      <4>1. bad \in SUBSET Nat
        BY <1>1
      <4> HIDE DEF bad
      <4> QED BY <2>2, <4>1, LeastNumber
    <3>2. k \in 0..n /\ ~Same(k)
      OBVIOUS
    <3>3. k # 0
      BY <1>3, <3>2
    <3>4. k \in 1..n /\ k - 1 \in 0..n /\ ~(k <= k - 1)
      BY <1>1, <3>2, <3>3
    <3>5. k - 1 \notin bad
      <4> HIDE DEF bad
      <4> QED BY <3>1, <3>4
    <3>6. Same(k - 1)
      BY <3>4, <3>5
    <3> QED BY <1>4, <3>2, <3>4, <3>6
  <2> QED BY <2>1, <2>2
<1> QED BY <1>2, <1>5 DEF Same, CountSteps, Covers, n

-----------------------------------------------------------------------------
(* Delivery.                                                               *)

\* The bytes of the stream from a up to b.
Span(a, b) == [i \in 1..(b - a) |-> a + i - 1]

\* Its length, its bytes and the set of them.
LEMMA SpanIs ==
  ASSUME NEW a \in Nat, NEW b \in Nat, a <= b
  PROVE  /\ Span(a, b) \in Seq(Nat) /\ Len(Span(a, b)) = b - a
         /\ \A i \in 1..(b - a) : Span(a, b)[i] = a + i - 1
         /\ ToSet(Span(a, b)) = a..(b - 1)
         /\ (Span(a, b) = <<>> <=> a = b)
<1>1. b - a \in Nat /\ \A i \in 1..(b - a) : a + i - 1 \in Nat
  OBVIOUS
<1>2. DOMAIN Span(a, b) = 1..(b - a) /\ \A i \in 1..(b - a) : Span(a, b)[i] = a + i - 1
  BY DEF Span
<1>3. Span(a, b) \in Seq(Nat) /\ Len(Span(a, b)) = b - a
  BY <1>1 DEF Span
<1> HIDE DEF Span
<1>4. ToSet(Span(a, b)) = a..(b - 1)
  <2>1. ASSUME NEW p \in a..(b - 1) PROVE p \in ToSet(Span(a, b))
    <3>1. p - a + 1 \in 1..(b - a) /\ a + (p - a + 1) - 1 = p
      OBVIOUS
    <3>2. Span(a, b)[p - a + 1] = p
      BY <1>2, <3>1
    <3> QED BY <1>2, <3>1, <3>2 DEF ToSet
  <2>2. ASSUME NEW p \in ToSet(Span(a, b)) PROVE p \in a..(b - 1)
    <3>1. PICK i \in 1..(b - a) : p = a + i - 1
      BY <1>2 DEF ToSet
    <3> QED BY <3>1
  <2> QED BY <2>1, <2>2
<1>5. Span(a, b) = <<>> <=> a = b
  BY <1>1, <1>3
<1> QED BY <1>2, <1>3, <1>4, <1>5

\* Two stretches of the stream, one after the other.
LEMMA SpanJoined ==
  ASSUME NEW a \in Nat, NEW b \in Nat, NEW c \in Nat, a <= b, b <= c
  PROVE  Span(a, b) \o Span(b, c) = Span(a, c)
<1>1. /\ Span(a, b) \in Seq(Nat) /\ Len(Span(a, b)) = b - a
      /\ \A i \in 1..(b - a) : Span(a, b)[i] = a + i - 1
      /\ Span(b, c) \in Seq(Nat) /\ Len(Span(b, c)) = c - b
      /\ \A i \in 1..(c - b) : Span(b, c)[i] = b + i - 1
  BY SpanIs
<1> DEFINE both == Span(a, b) \o Span(b, c)
<1>2. /\ both \in Seq(Nat) /\ Len(both) = Len(Span(a, b)) + Len(Span(b, c))
      /\ \A i \in 1..(Len(Span(a, b)) + Len(Span(b, c))) :
           both[i] = IF i <= Len(Span(a, b)) THEN Span(a, b)[i] ELSE Span(b, c)[i - Len(Span(a, b))]
  BY <1>1, ConcatProperties
<1> HIDE DEF both
<1>3. (b - a) + (c - b) = c - a
  OBVIOUS
<1>4. Len(both) = c - a
  BY <1>1, <1>2, <1>3
<1>5. ASSUME NEW i \in 1..(c - a) PROVE both[i] = a + i - 1
  <2>1. both[i] = IF i <= b - a THEN Span(a, b)[i] ELSE Span(b, c)[i - (b - a)]
    BY <1>1, <1>2, <1>3
  <2>2. CASE i <= b - a
    <3>1. i \in 1..(b - a)
      BY <2>2
    <3> QED BY <1>1, <2>1, <3>1
  <2>3. CASE ~(i <= b - a)
    <3>1. i - (b - a) \in 1..(c - b) /\ b + (i - (b - a)) - 1 = a + i - 1
      BY <2>3
    <3> QED BY <1>1, <2>1, <2>3, <3>1
  <2> QED BY <2>2, <2>3
<1>6. both = [i \in 1..Len(both) |-> both[i]]
  BY <1>2
<1>7. both = Span(a, c)
  BY <1>4, <1>5, <1>6 DEF Span
<1> QED BY <1>7 DEF both

\* Python's data[n:].
LEMMA SpanDropped ==
  ASSUME NEW a \in Nat, NEW b \in Nat, NEW c \in Nat, a <= b, b < c
  PROVE  Drop(Span(a, c), b - a) = Span(b, c)
<1> DEFINE data == Span(a, c)
           m    == b - a + 1
           n    == c - a
           rest == SubSeq(data, m, n)
<1>1. /\ data \in Seq(Nat) /\ Len(data) = c - a
      /\ \A i \in 1..(c - a) : data[i] = a + i - 1
  <2>1. a <= c
    OBVIOUS
  <2> QED BY <2>1, SpanIs
<1>2. m \in Int /\ n \in Int /\ m <= n /\ n - m + 1 = c - b /\ \A i \in m..n : i \in 1..(c - a)
  OBVIOUS
<1>3. \A i \in m..n : data[i] \in Nat
  BY <1>1, <1>2
<1>4. Drop(Span(a, c), b - a) = rest
  BY <1>1 DEF Drop
<1> HIDE DEF data, m, n
<1>5. /\ rest \in Seq(Nat) /\ Len(rest) = n - m + 1
      /\ \A i \in 1..(n - m + 1) : rest[i] = data[m + i - 1]
  BY <1>2, <1>3, SubSeqProperties
<1> HIDE DEF rest
<1>6. ASSUME NEW i \in 1..(c - b) PROVE rest[i] = b + i - 1
  <2>1. m + i - 1 \in 1..(c - a) /\ a + (m + i - 1) - 1 = b + i - 1
    BY DEF m
  <2>2. rest[i] = data[m + i - 1]
    BY <1>2, <1>5
  <2> QED BY <1>1, <2>1, <2>2
<1>7. rest = [i \in 1..Len(rest) |-> rest[i]] /\ Len(rest) = c - b
  BY <1>2, <1>5
<1> QED BY <1>4, <1>6, <1>7 DEF Span

\* The flattening of one list is that list.
LEMMA FlattenOne ==
  ASSUME NEW data
  PROVE  FlattenSeq([i \in 1..1 |-> data]) = data
<1> DEFINE seqs == [i \in 1..1 |-> data]
           Flat(f) == f = [i \in 1..Len(seqs) |-> IF i = 1 THEN seqs[i] ELSE f[i - 1] \o seqs[i]]
           flatten == CHOOSE f : Flat(f)
<1>1. Len(seqs) = 1 /\ seqs[1] = data
  OBVIOUS
<1> HIDE DEF seqs
<1>2. \E f : Flat(f)
  <2> DEFINE g == [i \in 1..1 |-> data]
  <2>1. Flat(g)
    BY <1>1
  <2> QED BY <2>1
<1>3. Flat(flatten)
  BY <1>2
<1>4. FlattenSeq(seqs) = flatten[Len(seqs)]
  BY <1>1 DEF FlattenSeq
<1> HIDE DEF flatten
<1>5. flatten[1] = data
  BY <1>1, <1>3
<1> QED BY <1>1, <1>4, <1>5 DEF seqs

\* The rest of a canonical list without its first run.
LEMMA FirstDropped ==
  ASSUME NEW list, Canonical(list), Len(list) >= 1
  PROVE  /\ Canonical(Drop(list, 1))
         /\ Covers(Drop(list, 1)) = Covers(list) \ Pos(list[1])
         /\ Pos(list[1]) \subseteq Covers(list) /\ Hi(list[1]) \notin Covers(list)
         /\ \A p \in Covers(list) : p >= Lo(list[1])
<1> DEFINE n    == Len(list)
           rest == SubSeq(list, 2, n)
<1>1. list \in Seq(Runs) /\ n \in Nat /\ n >= 1 /\ \A i \in 1..n : list[i] \in Runs /\ IsRun(list[i])
  BY DEF Canonical, IsRuns, Runs
<1>2. /\ \A i \in 1..n : /\ Pos(list[i]) = Lo(list[i])..(Hi(list[i]) - 1)
                         /\ Lo(list[i]) \in Nat /\ Hi(list[i]) \in Nat /\ Lo(list[i]) < Hi(list[i])
      /\ \A i, j \in 1..n : i < j => Hi(list[i]) < Lo(list[j])
  BY <1>1, RunFacts DEF Canonical
<1>3. rest \in Seq(Runs) /\ Len(rest) = n - 1 /\ \A i \in 1..(n - 1) : rest[i] = list[i + 1]
  <2>1. 2 \in Int /\ n \in Int /\ \A i \in 2..n : list[i] \in Runs
    BY <1>1
  <2> HIDE DEF n
  <2>2. /\ rest \in Seq(Runs) /\ Len(rest) = IF 2 <= n THEN n - 2 + 1 ELSE 0
        /\ \A i \in 1..(n - 2 + 1) : rest[i] = list[2 + i - 1]
    BY <2>1, SubSeqProperties
  <2> HIDE DEF rest
  <2>3. Len(rest) = n - 1
    BY <1>1, <2>2
  <2>4. ASSUME NEW i \in 1..(n - 1) PROVE rest[i] = list[i + 1]
    <3>1. i \in 1..(n - 2 + 1) /\ 2 + i - 1 = i + 1
      BY <1>1
    <3> QED BY <2>2, <3>1
  <2> QED BY <2>2, <2>3, <2>4
<1>4. Drop(list, 1) = rest
  <2>1. 1 + 1 = 2
    OBVIOUS
  <2> QED BY <2>1 DEF Drop
<1> HIDE DEF rest, n
<1>5. Canonical(rest)
  <2>1. ASSUME NEW i \in 1..(n - 1), NEW j \in 1..(n - 1), i < j PROVE Hi(rest[i]) < Lo(rest[j])
    <3>1. i + 1 \in 1..n /\ j + 1 \in 1..n /\ i + 1 < j + 1
      BY <1>1, <2>1
    <3> QED BY <1>2, <1>3, <3>1
  <2> QED BY <1>3, <2>1 DEF Canonical, IsRuns
<1>6. 1 \in 1..n
  BY <1>1
<1>7. ASSUME NEW i \in 2..n PROVE i \in 1..n /\ Hi(list[1]) < Lo(list[i])
  <2>1. i \in 1..n /\ 1 < i
    BY <1>1
  <2> QED BY <1>2, <1>6, <2>1
<1>8. Covers(list) = UNION {Pos(list[i]) : i \in 1..n}
  BY DEF Covers, CoverTo, n
<1>9. Covers(rest) = UNION {Pos(list[i]) : i \in 2..n}
  <2>1. Covers(rest) = UNION {Pos(rest[i]) : i \in 1..(n - 1)}
    BY <1>3 DEF Covers, CoverTo
  <2>2. ASSUME NEW p \in Covers(rest) PROVE \E j \in 2..n : p \in Pos(list[j])
    <3>1. PICK i \in 1..(n - 1) : p \in Pos(rest[i])
      BY <2>1
    <3>2. i + 1 \in 2..n /\ rest[i] = list[i + 1]
      BY <1>1, <1>3
    <3> QED BY <3>1, <3>2
  <2>3. ASSUME NEW j \in 2..n PROVE Pos(list[j]) \subseteq Covers(rest)
    <3>1. j - 1 \in 1..(n - 1) /\ (j - 1) + 1 = j
      BY <1>1
    <3>2. rest[j - 1] = list[j]
      BY <1>3, <3>1
    <3> QED BY <2>1, <3>1, <3>2
  <2> QED BY <2>2, <2>3
<1>10. ASSUME NEW p \in Covers(rest) PROVE p > Hi(list[1]) /\ p \in Int
  <2>1. PICK i \in 2..n : p \in Pos(list[i])
    BY <1>9
  <2> QED BY <1>2, <1>6, <1>7, <2>1
<1>11. Covers(list) = Pos(list[1]) \cup Covers(rest)
  <2>1. 1..n = {1} \cup 2..n
    BY <1>1
  <2> QED BY <1>8, <1>9, <2>1
<1>12. Covers(rest) \cap Pos(list[1]) = {}
  BY <1>2, <1>6, <1>10
<1>13. Hi(list[1]) \notin Covers(list)
  BY <1>2, <1>6, <1>10, <1>11
<1>14. ASSUME NEW p \in Covers(list) PROVE p >= Lo(list[1])
  BY <1>2, <1>6, <1>10, <1>11
<1> QED BY <1>4, <1>5, <1>11, <1>12, <1>13, <1>14

\* Of a canonical buffer at most one run is ready: the next one leaves a gap.
LEMMA ReadyIs ==
  ASSUME NEW h, Canonical(h.segments), NEW x \in Nat, h.next_seq = ISN + x
  PROVE  ReadyCount(h) = IF Len(h.segments) >= 1 /\ Lo(h.segments[1]) = x THEN 1 ELSE 0
<1> DEFINE list == h.segments
           L    == Len(list)
           Exp(i) == IF i = 1 THEN h.next_seq ELSE End(list[i - 1])
           ready == {n \in 0..L : \A i \in 1..n : list[i].seq = Exp(i)}
<1>1. L \in Nat /\ \A i \in 1..L : IsRun(list[i])
  BY DEF Canonical, IsRuns, Runs
<1>2. \A i \in 1..L : /\ list[i].seq = ISN + Lo(list[i]) /\ End(list[i]) = ISN + Hi(list[i])
                      /\ Lo(list[i]) \in Nat /\ Hi(list[i]) \in Nat
  BY <1>1, RunFacts
<1>3. \A i, j \in 1..L : i < j => Hi(list[i]) < Lo(list[j])
  BY DEF Canonical
<1>4. ISN \in Nat
  BY TCPStreamAssumption
<1>5. ReadyCount(h) = Max(ready)
  BY DEF ReadyCount
<1> HIDE DEF list
<1>6. 0 \in ready /\ ready \in SUBSET Int
  BY <1>1
<1>7. ASSUME NEW n \in ready PROVE n <= 1
  <2>1. CASE n >= 2
    <3>1. 2 \in 1..n /\ 2 \in 1..L /\ 1 \in 1..L /\ 2 - 1 = 1
      BY <1>1, <2>1
    <3>2. list[2].seq = End(list[1])
      BY <3>1
    <3>3. Hi(list[1]) < Lo(list[2])
      BY <1>3, <3>1
    <3> QED BY <1>2, <1>4, <3>1, <3>2, <3>3
  <2> QED BY <1>1, <2>1
<1>8. CASE L >= 1 /\ Lo(list[1]) = x
  <2>1. 1 \in ready
    <3>1. 1 \in 1..L /\ 1 \in 0..L /\ list[1].seq = h.next_seq
      BY <1>1, <1>2, <1>8
    <3>2. \A i \in 1..1 : list[i].seq = Exp(i)
      BY <3>1
    <3> QED BY <3>1, <3>2
  <2> HIDE DEF ready
  <2>2. Max(ready) = 1
    BY <1>6, <1>7, <2>1, MaxIs
  <2> QED BY <1>5, <1>8, <2>2 DEF list
<1>9. CASE ~(L >= 1 /\ Lo(list[1]) = x)
  <2>1. 1 \notin ready
    <3> SUFFICES ASSUME 1 \in ready PROVE FALSE
      OBVIOUS
    <3>1. 1 \in 1..L /\ L >= 1 /\ list[1].seq = h.next_seq
      BY <1>1
    <3> QED BY <1>2, <1>4, <1>9, <3>1
  <2>2. \A n \in ready : n <= 0
    BY <1>1, <1>7, <2>1
  <2> HIDE DEF ready
  <2>3. Max(ready) = 0
    BY <1>6, <2>2, MaxIs
  <2> QED BY <1>5, <1>9, <2>3 DEF list
<1> QED BY <1>8, <1>9

\* What flushing does: y is where the application has got to, after bytes x up to y, which
\* leave the buffer.  Nothing is flushed while an older byte is stranded at its head.
Flushes(list, x, y, rest) ==
  /\ y \in Nat /\ x <= y /\ x..(y - 1) \subseteq Covers(list)
  /\ Canonical(rest) /\ Covers(rest) = Covers(list) \ x..(y - 1)
  /\ IF x \in Covers(list) /\ \A p \in Covers(list) : p >= x
     THEN x < y /\ y <= StreamLen + 1 /\ y \notin Covers(list)
     ELSE y = x

\* The half and the data when bytes x up to y have been flushed.
AfterFlush(h, x, y, rest) ==
  [ half      |-> [h EXCEPT !.segments        = rest,
                            !.next_seq        = ISN + y,
                            !.bytes_delivered = @ + (y - x)],
    delivered |-> Span(x, y) ]

\* _flush_ordered_segments on a canonical buffer.
LEMMA FlushIs ==
  ASSUME NEW h, Canonical(h.segments), NEW x \in Nat, h.next_seq = ISN + x
  PROVE  \E y, rest :
           /\ Flushes(h.segments, x, y, rest)
           /\ FlushOrderedSegments(h) = AfterFlush(h, x, y, rest)
<1> DEFINE list == h.segments
           n    == ReadyCount(h)
           data == FlattenSeq([i \in 1..n |-> list[i].data])
           rest == Drop(list, n)
           D    == Len(data)
<1>1. list \in Seq(Runs) /\ Len(list) \in Nat /\ ISN \in Nat
  BY TCPStreamAssumption DEF Canonical, IsRuns
<1>2. n = IF Len(list) >= 1 /\ Lo(list[1]) = x THEN 1 ELSE 0
  BY ReadyIs
<1>3. FlushOrderedSegments(h) =
        [ half      |-> [h EXCEPT !.segments        = rest,
                                  !.next_seq        = (ISN + x) + D,
                                  !.bytes_delivered = @ + D],
          delivered |-> data ]
  BY DEF FlushOrderedSegments
<1> HIDE DEF n, rest, data, D
<1>4. ASSUME NEW y \in Nat, x <= y, data = Span(x, y), D = y - x, Flushes(list, x, y, rest)
      PROVE  \E w, more : /\ Flushes(h.segments, x, w, more)
                          /\ FlushOrderedSegments(h) = AfterFlush(h, x, w, more)
  <2>1. (ISN + x) + D = ISN + y
    BY <1>1, <1>4
  <2>2. FlushOrderedSegments(h) = AfterFlush(h, x, y, rest)
    BY <1>3, <1>4, <2>1 DEF AfterFlush
  <2> QED BY <1>4, <2>2
<1>5. CASE Len(list) >= 1 /\ Lo(list[1]) = x
  <2> DEFINE run == list[1]
             y   == Hi(run)
  <2>1. n = 1 /\ IsRun(run)
    BY <1>1, <1>2, <1>5 DEF Runs
  <2>2. /\ Lo(run) \in Nat /\ y \in Nat /\ Lo(run) < y /\ y <= StreamLen + 1
        /\ run.data = [i \in 1..(y - Lo(run)) |-> Lo(run) + i - 1] /\ Len(run.data) = y - Lo(run)
        /\ Pos(run) = Lo(run)..(y - 1)
    BY <2>1, RunFacts
  <2>3. data = run.data
    <3>1. [i \in 1..n |-> list[i].data] = [i \in 1..1 |-> run.data]
      BY <2>1
    <3>2. FlattenSeq([i \in 1..1 |-> run.data]) = run.data
      BY FlattenOne
    <3> QED BY <3>1, <3>2 DEF data
  <2>4. data = Span(x, y) /\ D = y - x /\ x < y /\ Pos(run) = x..(y - 1)
    BY <1>5, <2>2, <2>3 DEF Span, D
  <2>5. /\ Canonical(rest) /\ Covers(rest) = Covers(list) \ Pos(run)
        /\ Pos(run) \subseteq Covers(list) /\ y \notin Covers(list)
        /\ \A p \in Covers(list) : p >= x
    BY <1>5, <2>1, FirstDropped DEF rest
  <2>6. x \in Covers(list)
    BY <2>2, <2>4, <2>5
  <2>7. Flushes(list, x, y, rest)
    BY <2>2, <2>4, <2>5, <2>6 DEF Flushes
  <2> QED BY <1>4, <2>2, <2>4, <2>7
<1>6. CASE ~(Len(list) >= 1 /\ Lo(list[1]) = x)
  <2>1. n = 0
    BY <1>2, <1>6
  <2>2. data = <<>> /\ D = 0
    <3>1. [i \in 1..n |-> list[i].data] = <<>>
      BY <2>1
    <3>2. FlattenSeq(<<>>) = <<>>
      BY DEF FlattenSeq
    <3>3. data = FlattenSeq(<<>>)
      BY <3>1, Zenon DEF data
    <3> QED BY <3>2, <3>3 DEF D
  <2>3. rest = list
    <3>1. rest = SubSeq(list, 1, Len(list))
      BY <2>1 DEF rest, Drop
    <3>2. SubSeq(list, 1, Len(list)) = list
      <4> HIDE DEF list
      <4> QED BY <1>1, SubSeqFull
    <3> QED BY <3>1, <3>2
  <2>4. data = Span(x, x) /\ D = x - x
    BY <2>2, SpanIs
  <2>5. ~(x \in Covers(list) /\ \A p \in Covers(list) : p >= x)
    <3> SUFFICES ASSUME x \in Covers(list), \A p \in Covers(list) : p >= x PROVE FALSE
      OBVIOUS
    <3>1. PICK i \in 1..Len(list) : x \in Pos(list[i])
      BY DEF Covers, CoverTo
    <3>2. Len(list) >= 1 /\ 1 \in 1..Len(list)
      BY <1>1
    <3>3. IsRun(list[1]) /\ IsRun(list[i])
      BY <1>1, <3>2 DEF Runs
    <3>4. /\ Pos(list[1]) = Lo(list[1])..(Hi(list[1]) - 1)
          /\ Lo(list[1]) \in Nat /\ Hi(list[1]) \in Nat /\ Lo(list[1]) < Hi(list[1])
          /\ Pos(list[i]) = Lo(list[i])..(Hi(list[i]) - 1)
          /\ Lo(list[i]) \in Nat /\ Hi(list[i]) \in Nat
      BY <3>3, RunFacts
    <3>5. Lo(list[1]) \in Pos(list[1])
      BY <3>4
    <3>6. Lo(list[1]) \in Covers(list)
      BY <3>2, <3>5 DEF Covers, CoverTo
    <3>7. Lo(list[1]) >= x
      BY <3>6
    <3>8. x >= Lo(list[1])
      <4>1. CASE i = 1
        BY <3>1, <3>4, <4>1
      <4>2. CASE i # 1
        <5>1. 1 < i
          BY <1>1, <4>2
        <5>2. Hi(list[1]) < Lo(list[i])
          BY <3>2, <5>1 DEF Canonical
        <5> QED BY <3>1, <3>4, <5>2
      <4> QED BY <4>1, <4>2
    <3> QED BY <1>6, <3>2, <3>4, <3>7, <3>8
  <2>6. x..(x - 1) = {}
    OBVIOUS
  <2>7. Flushes(list, x, x, rest)
    BY <2>3, <2>5, <2>6 DEF Flushes
  <2> QED BY <1>4, <2>4, <2>7
<1> QED BY <1>5, <1>6

-----------------------------------------------------------------------------
(* A segment arrives.                                                      *)

HalfFields == {"next_seq", "segments", "bytes_received", "bytes_delivered",
               "duplicate_bytes", "out_of_order_count", "has_syn", "has_fin"}

IsHalf(h) == h = [f \in HalfFields |-> h[f]]

\* A half that expects byte n of the stream.
Expects(h, n) ==
  /\ IsHalf(h) /\ Canonical(h.segments)
  /\ n \in Nat /\ h.next_seq = ISN + n
  /\ h.bytes_received \in Nat /\ h.bytes_delivered \in Nat /\ h.duplicate_bytes \in Nat

\* The result of a segment of c bytes that came to h, which expected byte n: bytes n up to y
\* are delivered.
Delivers(result, h, c, n, y) ==
  /\ result.delivered = Span(n, y)
  /\ IsHalf(result.half)
  /\ result.half.next_seq = ISN + y
  /\ result.half.bytes_received = h.bytes_received + c
  /\ result.half.bytes_delivered = h.bytes_delivered + (y - n)
  /\ result.half.has_syn = h.has_syn /\ result.half.has_fin = h.has_fin

\* The counters add_segment keeps.
Received(h, c) == [h EXCEPT !.bytes_received = @ + c]
Repeated(h, c) == [h EXCEPT !.duplicate_bytes = @ + c]
Misplaced(h) == [h EXCEPT !.out_of_order_count = @ + 1]

\* The branches of add_segment, by where the segment lies.
LEMMA AddSegmentIs ==
  ASSUME NEW h, NEW n, Expects(h, n),
         NEW a \in Nat, NEW b \in Nat, 1 <= a, a < b, b <= StreamLen + 1
  PROVE  LET result == AddSegment(h, ISN + a, Span(a, b))
             g      == Received(h, b - a)
         IN  /\ b <= n => result = Undelivered(Repeated(g, b - a))
             /\ a <= n /\ n < b => result = Deliver(Repeated(g, n - a), Span(n, b))
             /\ n < a => result = Undelivered(InsertOutOfOrder(Misplaced(g), Run(a, b)))
<1> DEFINE data == Span(a, b)
           seq  == ISN + a
           g    == Received(h, b - a)
<1>1. ISN \in Nat /\ n \in Nat /\ h.next_seq = ISN + n
  BY TCPStreamAssumption DEF Expects
<1>2. Len(data) = b - a /\ data # <<>>
  <2>1. a <= b /\ a # b
    OBVIOUS
  <2> QED BY <2>1, SpanIs
<1>3. h.next_seq # SEQ_UNSET
  BY <1>1 DEF SEQ_UNSET
<1>4. [h EXCEPT !.next_seq = h.next_seq, !.bytes_received = @ + (b - a)] = g
  BY DEF Expects, IsHalf, HalfFields, Received
<1>5. h.next_seq - seq = n - a /\ Segment(seq, data) = Run(a, b)
  BY <1>1 DEF Run, Span
<1> HIDE DEF data, seq, g
<1>6. AddSegment(h, seq, data) =
        CASE data = <<>> -> Undelivered(h)
          [] data # <<>> /\ b - a <= n - a -> Undelivered(Repeated(g, b - a))
          [] n - a >= 0 /\ b - a > n - a -> Deliver(Repeated(g, n - a), Drop(data, n - a))
          [] OTHER -> Undelivered(InsertOutOfOrder(Misplaced(g), Run(a, b)))
  BY <1>2, <1>3, <1>4, <1>5 DEF AddSegment, Repeated, Misplaced
<1>7. ASSUME b <= n PROVE AddSegment(h, seq, data) = Undelivered(Repeated(g, b - a))
  <2>1. b - a <= n - a
    BY <1>1, <1>7
  <2>2. ~(n - a >= 0 /\ b - a > n - a)
    BY <1>1, <2>1
  <2> QED BY <1>2, <1>6, <2>1, <2>2
<1>8. ASSUME a <= n, n < b
      PROVE  AddSegment(h, seq, data) = Deliver(Repeated(g, n - a), Span(n, b))
  <2>1. n - a >= 0 /\ b - a > n - a /\ ~(b - a <= n - a)
    BY <1>1, <1>8
  <2>2. Drop(data, n - a) = Span(n, b)
    BY <1>1, <1>8, SpanDropped DEF data
  <2> QED BY <1>2, <1>6, <2>1, <2>2
<1>9. ASSUME n < a
      PROVE  AddSegment(h, seq, data) = Undelivered(InsertOutOfOrder(Misplaced(g), Run(a, b)))
  <2>1. ~(n - a >= 0) /\ ~(b - a <= n - a)
    BY <1>1, <1>9
  <2> QED BY <1>2, <1>6, <2>1
<1> QED BY <1>7, <1>8, <1>9 DEF data, seq, g

\* A segment of bytes that were all delivered: they are counted as duplicates.
LEMMA AddOld ==
  ASSUME NEW h, NEW n, Expects(h, n),
         NEW a \in Nat, NEW b \in Nat, 1 <= a, a < b, b <= StreamLen + 1, b <= n
  PROVE  LET result == AddSegment(h, ISN + a, Span(a, b))
         IN  /\ Delivers(result, h, b - a, n, n)
             /\ result.half.segments = h.segments
             /\ result.half.duplicate_bytes = h.duplicate_bytes + (b - a)
<1> DEFINE r == Repeated(Received(h, b - a), b - a)
<1>1. AddSegment(h, ISN + a, Span(a, b)) = [half |-> r, delivered |-> <<>>]
  BY AddSegmentIs DEF Undelivered
<1>2. n \in Nat /\ h.next_seq = ISN + n /\ h.bytes_delivered \in Nat /\ n <= n
  BY DEF Expects
<1>3. Span(n, n) = <<>>
  BY <1>2, SpanIs
<1>4. h.bytes_delivered + (n - n) = h.bytes_delivered
  BY <1>2
<1>5. /\ IsHalf(r) /\ r.next_seq = h.next_seq /\ r.segments = h.segments
      /\ r.bytes_received = h.bytes_received + (b - a)
      /\ r.bytes_delivered = h.bytes_delivered
      /\ r.duplicate_bytes = h.duplicate_bytes + (b - a)
      /\ r.has_syn = h.has_syn /\ r.has_fin = h.has_fin
  BY DEF Expects, IsHalf, HalfFields, Received, Repeated
<1> HIDE DEF r
<1> QED BY <1>1, <1>2, <1>3, <1>4, <1>5 DEF Delivers

\* A segment beyond the next byte: it goes into the buffer.
LEMMA AddOutOfOrder ==
  ASSUME NEW h, NEW n, Expects(h, n),
         NEW a \in Nat, NEW b \in Nat, 1 <= a, a < b, b <= StreamLen + 1, n < a
  PROVE  LET result == AddSegment(h, ISN + a, Span(a, b))
         IN  /\ Delivers(result, h, b - a, n, n)
             /\ Canonical(result.half.segments)
             /\ Covers(result.half.segments) = Covers(h.segments) \cup a..(b - 1)
             /\ result.half.duplicate_bytes \in Nat
             /\ result.half.duplicate_bytes + Cardinality(Covers(result.half.segments))
                  <= h.duplicate_bytes + Cardinality(Covers(h.segments)) + (b - a)
<1> DEFINE run == Run(a, b)
           g == Misplaced(Received(h, b - a))
           k == Min({i \in DOMAIN h.segments : h.segments[i].seq > run.seq}
                      \cup {Len(h.segments) + 1})
           merge == MergeSegments(InsertAt(h.segments, k, run))
           rest == merge.merged
           more == merge.duplicates
           r == [g EXCEPT !.segments = rest, !.duplicate_bytes = @ + more]
<1>1. IsRun(run) /\ Pos(run) = a..(b - 1) /\ Len(run.data) = b - a
  BY RunIs
<1>2. n \in Nat /\ h.next_seq = ISN + n /\ h.bytes_delivered \in Nat /\ h.duplicate_bytes \in Nat
      /\ Canonical(h.segments) /\ n <= n
  BY DEF Expects
<1>4. AddSegment(h, ISN + a, Span(a, b)) = Undelivered(InsertOutOfOrder(g, run))
  BY AddSegmentIs
<1>5. g.segments = h.segments
  BY DEF Expects, IsHalf, HalfFields, Received, Misplaced
<1> HIDE DEF run
<1>6. InsertOutOfOrder(g, run) = r
  <2> HIDE DEF g
  <2> QED BY <1>5 DEF InsertOutOfOrder
<1>7. /\ Canonical(rest)
      /\ Covers(rest) = Covers(h.segments) \cup Pos(run)
      /\ more \in Nat
      /\ more + Cardinality(Covers(rest)) <= Cardinality(Covers(h.segments)) + Len(run.data)
  BY <1>1, <1>2, InsertMerged
<1> HIDE DEF merge, rest, more, k
<1>8. Cardinality(Covers(rest)) \in Nat /\ Cardinality(Covers(h.segments)) \in Nat
  BY <1>2, <1>7, CanonicalFinite
<1>9. h.duplicate_bytes + more \in Nat
      /\ (h.duplicate_bytes + more) + Cardinality(Covers(rest))
           <= h.duplicate_bytes + Cardinality(Covers(h.segments)) + (b - a)
  <2>1. more + Cardinality(Covers(rest)) <= Cardinality(Covers(h.segments)) + (b - a)
    BY <1>1, <1>7
  <2> QED BY <1>2, <1>7, <1>8, <2>1, SMTT(30)
<1>10. Span(n, n) = <<>>
  BY <1>2, SpanIs
<1>11. h.bytes_delivered + (n - n) = h.bytes_delivered
  BY <1>2
<1>12. /\ IsHalf(r) /\ r.next_seq = h.next_seq /\ r.segments = rest
       /\ r.bytes_received = h.bytes_received + (b - a)
       /\ r.bytes_delivered = h.bytes_delivered
       /\ r.duplicate_bytes = h.duplicate_bytes + more
       /\ r.has_syn = h.has_syn /\ r.has_fin = h.has_fin
  BY DEF Expects, IsHalf, HalfFields, Received, Misplaced
<1> HIDE DEF r, g
<1>13. AddSegment(h, ISN + a, Span(a, b)) = [half |-> r, delivered |-> <<>>]
  BY <1>4, <1>6 DEF Undelivered
<1> DEFINE result == AddSegment(h, ISN + a, Span(a, b))
<1>14. result.half = r /\ result.delivered = <<>>
  BY <1>13
<1> HIDE DEF result
<1>15. Delivers(result, h, b - a, n, n)
  BY <1>2, <1>10, <1>11, <1>12, <1>14 DEF Delivers
<1> QED BY <1>1, <1>7, <1>9, <1>12, <1>14, <1>15 DEF result

\* A segment that reaches the next byte: it is delivered from there, with what was waiting.
LEMMA AddInOrder ==
  ASSUME NEW h, NEW n, Expects(h, n),
         NEW a \in Nat, NEW b \in Nat, 1 <= a, a < b, b <= StreamLen + 1, a <= n, n < b
  PROVE  LET result == AddSegment(h, ISN + a, Span(a, b))
         IN  \E y : /\ Delivers(result, h, b - a, n, y)
                    /\ Flushes(h.segments, b, y, result.half.segments)
                    /\ result.half.duplicate_bytes = h.duplicate_bytes + (n - a)
<1> DEFINE g == Repeated(Received(h, b - a), n - a)
           L == Len(Span(n, b))
           m == [g EXCEPT !.next_seq = @ + L, !.bytes_delivered = @ + L]
           result == AddSegment(h, ISN + a, Span(a, b))
<1>1. n \in Nat /\ h.next_seq = ISN + n /\ h.bytes_delivered \in Nat /\ Canonical(h.segments)
      /\ ISN \in Nat
  BY TCPStreamAssumption DEF Expects
<1>2. n <= b
  BY <1>1
<1>3. result = Deliver(g, Span(n, b))
  BY AddSegmentIs
<1>4. Deliver(g, Span(n, b)) = [FlushOrderedSegments(m) EXCEPT !.delivered = Span(n, b) \o @]
  BY DEF Deliver
<1>5. L = b - n
  BY <1>1, <1>2, SpanIs
<1> HIDE DEF L
<1>6. /\ IsHalf(m) /\ m.next_seq = h.next_seq + L /\ m.segments = h.segments
      /\ m.bytes_received = h.bytes_received + (b - a)
      /\ m.bytes_delivered = h.bytes_delivered + L
      /\ m.duplicate_bytes = h.duplicate_bytes + (n - a)
      /\ m.has_syn = h.has_syn /\ m.has_fin = h.has_fin
  BY DEF Expects, IsHalf, HalfFields, Received, Repeated
<1>7. m.next_seq = ISN + b
  <2> HIDE DEF m
  <2> QED BY <1>1, <1>5, <1>6
<1> HIDE DEF m, g, result
<1>8. PICK y, rest : /\ Flushes(h.segments, b, y, rest)
                     /\ FlushOrderedSegments(m) = AfterFlush(m, b, y, rest)
  BY <1>1, <1>6, <1>7, FlushIs
<1>9. y \in Nat /\ b <= y
  BY <1>8 DEF Flushes
<1>10. Span(n, b) \o Span(b, y) = Span(n, y)
  BY <1>1, <1>2, <1>9, SpanJoined
<1>11. (h.bytes_delivered + L) + (y - b) = h.bytes_delivered + (y - n)
  BY <1>1, <1>5, <1>9
<1> DEFINE r == [m EXCEPT !.segments        = rest,
                          !.next_seq        = ISN + y,
                          !.bytes_delivered = @ + (y - b)]
<1>12. /\ IsHalf(r) /\ r.next_seq = ISN + y /\ r.segments = rest
       /\ r.bytes_received = m.bytes_received
       /\ r.bytes_delivered = m.bytes_delivered + (y - b)
       /\ r.duplicate_bytes = m.duplicate_bytes
       /\ r.has_syn = m.has_syn /\ r.has_fin = m.has_fin
  BY <1>6 DEF IsHalf, HalfFields
<1>13. FlushOrderedSegments(m) = [half |-> r, delivered |-> Span(b, y)]
  BY <1>8 DEF AfterFlush
<1> HIDE DEF r
<1>14. result = [half |-> r, delivered |-> Span(n, y)]
  <2>1. [[half |-> r, delivered |-> Span(b, y)] EXCEPT !.delivered = Span(n, b) \o @]
          = [half |-> r, delivered |-> Span(n, b) \o Span(b, y)]
    OBVIOUS
  <2> QED BY <1>3, <1>4, <1>10, <1>13, <2>1
<1>15. Delivers(result, h, b - a, n, y)
  BY <1>6, <1>11, <1>12, <1>14 DEF Delivers
<1>16. result.half.segments = rest /\ result.half.duplicate_bytes = h.duplicate_bytes + (n - a)
  BY <1>6, <1>12, <1>14
<1> QED BY <1>8, <1>15, <1>16 DEF result

-----------------------------------------------------------------------------
(* The inductive invariant.                                                *)

\* The sequence numbers of the stream do not wrap: the code compares them as plain integers.
NoWrap == ISN + StreamLen < SeqSpace

\* After the SYN, with n the next byte: the bytes before it are out, what arrived is there or
\* in the buffer h.segments, and the bytes received are at least those that are out, held or
\* counted as duplicate.
Started(h, o, r, n) ==
  /\ Expects(h, n) /\ n \in 1..(StreamLen + 1) /\ h.has_syn
  /\ o = Span(1, n)
  /\ r = 1..(n - 1) \cup Covers(h.segments)
  /\ h.bytes_delivered = n - 1
  /\ (n - 1) + Cardinality(Covers(h.segments)) + h.duplicate_bytes <= h.bytes_received

StreamInv ==
  \/ half = NewHalf /\ out = <<>> /\ arrived = {}
  \/ \E n : Started(half, out, arrived, n)

\* What a segment <<a, b>> does when n is the next byte: m is the next byte then.
Moves(list, n, a, b, m, rest) ==
  \/ b <= n /\ m = n /\ Covers(rest) = Covers(list)
  \/ a <= n /\ n < b /\ Flushes(list, b, m, rest)
  \/ n < a /\ m = n /\ Covers(rest) = Covers(list) \cup a..(b - 1)

\* Taking an interval out of a finite set of numbers.
LEMMA IntervalRemoved ==
  ASSUME NEW S, IsFiniteSet(S), NEW a \in Nat, NEW b \in Nat, a <= b, a..(b - 1) \subseteq S
  PROVE  /\ Cardinality(S) \in Nat /\ Cardinality(S \ a..(b - 1)) \in Nat
         /\ Cardinality(S \ a..(b - 1)) = Cardinality(S) - (b - a)
<1> DEFINE T == a..(b - 1)
           R == S \ T
<1>1. IsFiniteSet(T) /\ Cardinality(T) = b - a
  <2>1. a \in Int /\ b - 1 \in Int
    OBVIOUS
  <2>2. IsFiniteSet(T) /\ Cardinality(T) = IF a > b - 1 THEN 0 ELSE (b - 1) - a + 1
    BY <2>1, FS_Interval
  <2> HIDE DEF T
  <2> QED BY <2>2
<1>2. IsFiniteSet(R)
  <2>1. R \in SUBSET S
    OBVIOUS
  <2> QED BY <2>1, FS_Subset
<1>3. R \cup T = S /\ R \cap T = {}
  OBVIOUS
<1> HIDE DEF T, R
<1>4. Cardinality(R \cup T) = Cardinality(R) + Cardinality(T) - Cardinality(R \cap T)
  BY <1>1, <1>2, FS_Union
<1>5. Cardinality(R \cap T) = 0
  BY <1>3, FS_EmptySet
<1>6. Cardinality(S) \in Nat /\ Cardinality(R) \in Nat
  BY <1>2, FS_CardinalityType
<1>7. Cardinality(R) = Cardinality(S) - (b - a)
  <2>1. Cardinality(S) = Cardinality(R) + Cardinality(T) - Cardinality(R \cap T)
    BY <1>3, <1>4
  <2>2. Cardinality(S) = Cardinality(R) + (b - a) - 0
    BY <1>1, <1>5, <2>1
  <2> QED BY <1>6, <2>2
<1> QED BY <1>6, <1>7 DEF R, T

\* What AddSegment's result is after the bytes a..b-1: the side expects m, the bytes up to m are
\* delivered, and the buffer moved accordingly.
Gives(result, h, o, r, n, a, b, m) ==
  /\ Started(result.half, o \o result.delivered, r \cup a..(b - 1), m)
  /\ Moves(h.segments, n, a, b, m, result.half.segments)
  /\ result.delivered = Span(n, m)

\* A segment with data, after the SYN.
LEMMA AfterData ==
  ASSUME NEW h, NEW o, NEW r, NEW n, Started(h, o, r, n),
         NEW a \in Nat, NEW b \in Nat, 1 <= a, a < b, b <= StreamLen + 1
  PROVE  \E m : Gives(AddSegment(h, ISN + a, Span(a, b)), h, o, r, n, a, b, m)
<1> DEFINE result == AddSegment(h, ISN + a, Span(a, b))
           g == result.half
           C == Covers(h.segments)
           D == Covers(g.segments)
<1>1. /\ Expects(h, n) /\ n \in Nat /\ 1 <= n /\ n <= StreamLen + 1 /\ h.has_syn
      /\ o = Span(1, n) /\ r = 1..(n - 1) \cup C
      /\ h.bytes_delivered = n - 1
      /\ (n - 1) + Cardinality(C) + h.duplicate_bytes <= h.bytes_received
      /\ h.bytes_received \in Nat /\ h.duplicate_bytes \in Nat
      /\ Canonical(h.segments) /\ StreamLen \in Nat
  BY TCPStreamAssumption DEF Started, Expects
<1>2. IsFiniteSet(C) /\ Cardinality(C) \in Nat /\ C \in SUBSET Int
  BY <1>1, CanonicalFinite DEF Positions
<1> HIDE DEF result, C
<1>3. ASSUME NEW m \in Nat, n <= m, m <= StreamLen + 1,
             Delivers(result, h, b - a, n, m), Canonical(g.segments),
             g.duplicate_bytes \in Nat,
             r \cup a..(b - 1) = 1..(m - 1) \cup D,
             (m - 1) + Cardinality(D) + g.duplicate_bytes <= h.bytes_received + (b - a),
             Moves(h.segments, n, a, b, m, g.segments)
      PROVE  \E k : Gives(result, h, o, r, n, a, b, k)
  <2>1. /\ IsHalf(g) /\ g.next_seq = ISN + m
        /\ g.bytes_received = h.bytes_received + (b - a)
        /\ g.bytes_delivered = h.bytes_delivered + (m - n)
        /\ g.has_syn = h.has_syn
        /\ result.delivered = Span(n, m)
    BY <1>3 DEF Delivers
  <2>2. g.bytes_received \in Nat /\ g.bytes_delivered = m - 1 /\ m - 1 \in Nat
    BY <1>1, <1>3, <2>1
  <2>3. Expects(g, m)
    BY <1>3, <2>1, <2>2 DEF Expects
  <2>4. o \o result.delivered = Span(1, m)
    <3>1. Span(1, n) \o Span(n, m) = Span(1, m)
      BY <1>1, <1>3, SpanJoined, ZenonT(30)
    <3> QED BY <1>1, <2>1, <3>1
  <2>5. m \in 1..(StreamLen + 1)
    BY <1>1, <1>3
  <2>6. g.has_syn
    BY <1>1, <2>1
  <2>7. (m - 1) + Cardinality(D) + g.duplicate_bytes <= g.bytes_received
    BY <1>3, <2>1
  <2>8. Started(g, o \o result.delivered, r \cup a..(b - 1), m)
    BY <1>3, <2>2, <2>3, <2>4, <2>5, <2>6, <2>7 DEF Started
  <2>9. Gives(result, h, o, r, n, a, b, m)
    BY <1>3, <2>1, <2>8 DEF Gives
  <2> QED BY <2>9
<1>4. CASE b <= n
  <2>1. /\ Delivers(result, h, b - a, n, n) /\ g.segments = h.segments
        /\ g.duplicate_bytes = h.duplicate_bytes + (b - a)
    BY <1>1, <1>4, AddOld DEF result
  <2>2. D = C
    BY <2>1 DEF C
  <2>3. g.duplicate_bytes \in Nat
    BY <1>1, <2>1
  <2>4. (n - 1) + Cardinality(D) + g.duplicate_bytes <= h.bytes_received + (b - a)
    BY <1>1, <1>2, <2>1, <2>2
  <2>5. r \cup a..(b - 1) = 1..(n - 1) \cup D
    <3>1. a..(b - 1) \subseteq 1..(n - 1)
      BY <1>1, <1>4
    <3> QED BY <1>1, <2>2, <3>1
  <2>6. Moves(h.segments, n, a, b, n, g.segments)
    BY <1>4, <2>1 DEF Moves
  <2> HIDE DEF g, D
  <2>7. n <= n
    BY <1>1
  <2>8. Canonical(g.segments)
    BY <1>1, <2>1
  <2> QED BY <1>1, <1>3, <2>1, <2>3, <2>4, <2>5, <2>6, <2>7, <2>8 DEF result, g
<1>5. CASE n < a
  <2>1. /\ Delivers(result, h, b - a, n, n) /\ Canonical(g.segments)
        /\ D = C \cup a..(b - 1)
        /\ g.duplicate_bytes \in Nat
        /\ g.duplicate_bytes + Cardinality(D) <= h.duplicate_bytes + Cardinality(C) + (b - a)
    BY <1>1, <1>5, AddOutOfOrder DEF result, C
  <2>2. Cardinality(D) \in Nat
    BY <2>1, CanonicalFinite
  <2>3. (n - 1) + Cardinality(D) + g.duplicate_bytes <= h.bytes_received + (b - a)
    <3> HIDE DEF g, D
    <3> QED BY <1>1, <1>2, <2>1, <2>2
  <2>4. r \cup a..(b - 1) = 1..(n - 1) \cup D
    BY <1>1, <2>1
  <2>5. Moves(h.segments, n, a, b, n, g.segments)
    BY <1>5, <2>1 DEF Moves, C
  <2> HIDE DEF g, D
  <2>6. n <= n
    BY <1>1
  <2> QED BY <1>1, <1>3, <2>1, <2>3, <2>4, <2>5, <2>6 DEF result, g
<1>6. CASE a <= n /\ n < b
  <2>1. PICK m : /\ Delivers(result, h, b - a, n, m)
                 /\ Flushes(h.segments, b, m, g.segments)
                 /\ g.duplicate_bytes = h.duplicate_bytes + (n - a)
    BY <1>1, <1>6, AddInOrder DEF result
  <2>2. /\ m \in Nat /\ b <= m /\ b..(m - 1) \subseteq C
        /\ Canonical(g.segments) /\ D = C \ b..(m - 1)
        /\ m <= StreamLen + 1
    BY <2>1 DEF Flushes, C
  <2>3. Cardinality(D) \in Nat /\ Cardinality(D) = Cardinality(C) - (m - b)
    BY <1>2, <2>2, IntervalRemoved
  <2> HIDE DEF g, D
  <2>4. g.duplicate_bytes \in Nat /\ n <= m
    BY <1>1, <1>6, <2>1, <2>2
  <2>5. (m - 1) + Cardinality(D) + g.duplicate_bytes <= h.bytes_received + (b - a)
    BY <1>1, <1>2, <1>6, <2>1, <2>2, <2>3
  <2>6. r \cup a..(b - 1) = 1..(m - 1) \cup D
    <3>1. 1..(n - 1) \cup a..(b - 1) = 1..(b - 1)
      BY <1>1, <1>6
    <3>2. 1..(b - 1) \cup b..(m - 1) = 1..(m - 1)
      BY <1>1, <1>6, <2>2
    <3>3. C = b..(m - 1) \cup D
      BY <2>2
    <3> QED BY <1>1, <3>1, <3>2, <3>3
  <2>7. Moves(h.segments, n, a, b, m, g.segments)
    BY <1>6, <2>1 DEF Moves
  <2> QED BY <1>1, <1>3, <2>1, <2>2, <2>4, <2>5, <2>6, <2>7 DEF result, g, D
<1>7. b <= n \/ n < a \/ (a <= n /\ n < b)
  BY <1>1
<1> QED BY <1>4, <1>5, <1>6, <1>7

-----------------------------------------------------------------------------
(* The steps.                                                              *)

\* Sequence numbers that do not wrap are positions counted from the SYN's.
LEMMA WireIs ==
  ASSUME NoWrap, NEW p \in 0..StreamLen
  PROVE  Wire(p) = ISN + p
<1>1. ISN \in Nat /\ SeqSpace \in Int /\ StreamLen \in Nat
  BY TCPStreamAssumption
<1> QED BY <1>1 DEF Wire, NoWrap

\* What the model calls held is what the buffer covers.
LEMMA HeldIs ==
  ASSUME NEW list, Canonical(list)
  PROVE  UNION {ToSet(seg.data) : seg \in ToSet(list)} = Covers(list)
<1>1. DOMAIN list = 1..Len(list)
  BY DEF Canonical, IsRuns
<1> QED BY <1>1 DEF Covers, CoverTo, Pos, ToSet

\* Before the SYN.
LEMMA NewHalfIs ==
  /\ IsHalf(NewHalf) /\ NewHalf.next_seq = SEQ_UNSET /\ NewHalf.segments = <<>>
  /\ NewHalf.bytes_received = 0 /\ NewHalf.bytes_delivered = 0
  /\ NewHalf.duplicate_bytes = 0 /\ NewHalf.has_syn = FALSE /\ NewHalf.has_fin = FALSE
  /\ Canonical(<<>>) /\ Covers(<<>>) = {}
<1>1. Canonical(<<>>)
  BY DEF Canonical, IsRuns
<1>2. Covers(<<>>) = {}
  <2>1. Len(<<>>) = 0 /\ 1..0 = {}
    OBVIOUS
  <2> QED BY <2>1 DEF Covers, CoverTo
<1> QED BY <1>1, <1>2 DEF NewHalf, IsHalf, HalfFields

\* A segment without data changes nothing but what the SYN or the FIN did.
LEMMA AddNothing ==
  ASSUME NEW h, h.next_seq \in Int, NEW seq \in Int
  PROVE  AddSegment(h, seq, <<>>) = [half |-> h, delivered |-> <<>>]
<1> DEFINE late == (IF h.next_seq = SEQ_UNSET THEN seq ELSE h.next_seq) - seq
<1>1. late \in Int /\ Len(<<>>) = 0 /\ ~(late >= 0 /\ 0 > late)
  OBVIOUS
<1> QED BY <1>1 DEF AddSegment, Undelivered

\* Noting the FIN moves nothing after the SYN.
LEMMA FinNoted ==
  ASSUME NEW h, NEW o, NEW r, NEW n, Started(h, o, r, n), NEW tcp
  PROVE  /\ Started(NoteFin(h, tcp), o, r, n)
         /\ NoteFin(h, tcp).segments = h.segments
         /\ NoteFin(h, tcp).next_seq = h.next_seq
<1> DEFINE g == [h EXCEPT !.has_fin = TRUE, !.next_seq = h.next_seq]
<1>1. n \in Nat /\ h.next_seq = ISN + n /\ ISN \in Nat /\ IsHalf(h)
  BY TCPStreamAssumption DEF Started, Expects
<1>2. h.next_seq # SEQ_UNSET
  BY <1>1 DEF SEQ_UNSET
<1>3. NoteFin(h, tcp) = IF tcp.fin /\ ~h.has_fin THEN g ELSE h
  BY <1>2 DEF NoteFin
<1>4. /\ IsHalf(g) /\ g.next_seq = h.next_seq /\ g.segments = h.segments
      /\ g.bytes_received = h.bytes_received /\ g.bytes_delivered = h.bytes_delivered
      /\ g.duplicate_bytes = h.duplicate_bytes /\ g.has_syn = h.has_syn
  BY <1>1 DEF IsHalf, HalfFields
<1> HIDE DEF g
<1>5. Started(g, o, r, n)
  BY <1>4 DEF Started, Expects
<1> QED BY <1>3, <1>4, <1>5

\* What the abstract specification sees.
View == <<IF half.next_seq = SEQ_UNSET THEN 1 ELSE half.next_seq - ISN, Held, out, arrived>>

\* After the SYN the abstract next byte is n.
LEMMA ViewIs ==
  ASSUME NEW h, NEW o, NEW r, NEW n, Started(h, o, r, n)
  PROVE  /\ (IF h.next_seq = SEQ_UNSET THEN 1 ELSE h.next_seq - ISN) = n
         /\ UNION {ToSet(seg.data) : seg \in ToSet(h.segments)} = Covers(h.segments)
<1>1. n \in Nat /\ h.next_seq = ISN + n /\ ISN \in Nat /\ Canonical(h.segments)
  BY TCPStreamAssumption DEF Started, Expects
<1>2. h.next_seq # SEQ_UNSET /\ h.next_seq - ISN = n
  BY <1>1 DEF SEQ_UNSET
<1> QED BY <1>1, <1>2, HeldIs

\* The SYN, first or again.
LEMMA SynStep ==
  ASSUME NoWrap, StreamInv, ArriveSyn
  PROVE  StreamInv' /\ UNCHANGED View
<1> DEFINE tcp == TCP(0, TRUE, FALSE, <<>>)
<1>1. tcp.syn = TRUE /\ tcp.fin = FALSE /\ tcp.payload = <<>> /\ tcp.seq = ISN
  <2>1. 0 \in 0..StreamLen /\ ISN + 0 = ISN
    BY TCPStreamAssumption
  <2>2. Wire(0) = ISN
    BY <2>1, WireIs
  <2> QED BY <2>2 DEF TCP
<1> HIDE DEF tcp
<1>2. /\ half' = ReceiveSegment(half, tcp).half
      /\ out' = out \o ReceiveSegment(half, tcp).delivered
      /\ arrived' = arrived \cup ToSet(tcp.payload)
  BY DEF ArriveSyn, Receive, tcp
<1> DEFINE g == NoteSyn(half, tcp)
<1>3. NoteFin(g, tcp) = g
  BY <1>1 DEF NoteFin
<1>4. ReceiveSegment(half, tcp) = [half |-> g, delivered |-> <<>>]
  <2>1. ISN \in Int
    BY TCPStreamAssumption
  <2>2. g.next_seq \in Int
    <3>1. CASE half = NewHalf
      <4>1. g = [NewHalf EXCEPT !.has_syn = TRUE, !.next_seq = ISN + 1]
        BY <1>1, <3>1, NewHalfIs DEF NoteSyn
      <4>2. g.next_seq = ISN + 1
        BY <4>1, NewHalfIs DEF IsHalf, HalfFields
      <4> HIDE DEF g
      <4> QED BY <2>1, <4>2
    <3>2. ASSUME NEW n, Started(half, out, arrived, n) PROVE g.next_seq \in Int
      <4>1. half.has_syn /\ n \in Nat /\ half.next_seq = ISN + n
        BY <3>2 DEF Started, Expects
      <4>2. g = half
        BY <4>1 DEF NoteSyn
      <4> HIDE DEF g
      <4> QED BY <2>1, <4>1, <4>2
    <3> QED BY <3>1, <3>2 DEF StreamInv
  <2> HIDE DEF g
  <2>3. ReceiveSegment(half, tcp) = AddSegment(g, ISN + 1, <<>>)
    BY <1>1, <1>3 DEF ReceiveSegment, g
  <2> QED BY <2>1, <2>2, <2>3, AddNothing
<1>5. ToSet(<<>>) = {}
  BY DEF ToSet
<1>6. half' = g /\ out' = out \o <<>> /\ arrived' = arrived
  BY <1>1, <1>2, <1>4, <1>5
<1>7. CASE half = NewHalf /\ out = <<>> /\ arrived = {}
  <2>1. g = [NewHalf EXCEPT !.has_syn = TRUE, !.next_seq = ISN + 1]
    BY <1>1, <1>7, NewHalfIs DEF NoteSyn
  <2>2. /\ IsHalf(g) /\ g.next_seq = ISN + 1 /\ g.segments = <<>>
        /\ g.bytes_received = 0 /\ g.bytes_delivered = 0 /\ g.duplicate_bytes = 0
        /\ g.has_syn
    BY <2>1, NewHalfIs DEF IsHalf, HalfFields
  <2> HIDE DEF g
  <2>3. out' = <<>>
    BY <1>6, <1>7
  <2>4. Span(1, 1) = <<>> /\ 1..(1 - 1) = {} /\ 1 - 1 = 0
    <3>1. 1 \in Nat /\ 1 <= 1
      OBVIOUS
    <3> QED BY <3>1, SpanIs
  <2>5. 1 \in 1..(StreamLen + 1) /\ 1 \in Nat /\ 0 \in Nat
    BY TCPStreamAssumption
  <2>6. Cardinality({}) = 0
    BY FS_EmptySet
  <2>7. Expects(g, 1)
    BY <2>2, <2>5, NewHalfIs DEF Expects
  <2>8. Started(g, <<>>, {}, 1)
    <3>1. Covers(g.segments) = {} /\ {} = 1..(1 - 1) \cup Covers(g.segments)
      BY <2>2, <2>4, NewHalfIs
    <3>2. (1 - 1) + Cardinality(Covers(g.segments)) + g.duplicate_bytes <= g.bytes_received
      <4>1. Cardinality(Covers(g.segments)) = 0
        BY <2>6, <3>1
      <4> QED BY <2>2, <4>1
    <3> QED BY <2>2, <2>4, <2>5, <2>7, <3>1, <3>2 DEF Started
  <2>9. (IF half.next_seq = SEQ_UNSET THEN 1 ELSE half.next_seq - ISN) = 1 /\ Held = {}
    <3>1. UNION {ToSet(seg.data) : seg \in ToSet(<<>>)} = {}
      BY HeldIs, NewHalfIs
    <3> QED BY <1>7, <3>1, NewHalfIs DEF Held
  <2>10. (IF half'.next_seq = SEQ_UNSET THEN 1 ELSE half'.next_seq - ISN) = 1 /\ Held' = {}
    <3>1. /\ (IF g.next_seq = SEQ_UNSET THEN 1 ELSE g.next_seq - ISN) = 1
          /\ UNION {ToSet(seg.data) : seg \in ToSet(g.segments)} = Covers(g.segments)
      BY <2>8, ViewIs
    <3> QED BY <1>6, <2>2, <3>1, NewHalfIs DEF Held
  <2>11. UNCHANGED View
    BY <1>6, <1>7, <2>3, <2>9, <2>10 DEF View
  <2>12. StreamInv'
    <3>1. Started(half', out', arrived', 1)
      BY <1>6, <1>7, <2>3, <2>8
    <3> QED BY <3>1 DEF StreamInv
  <2> QED BY <2>11, <2>12
<1>8. ASSUME NEW n, Started(half, out, arrived, n) PROVE StreamInv' /\ UNCHANGED View
  <2>1. half.has_syn /\ out = Span(1, n) /\ n \in Nat /\ 1 <= n
    BY <1>8 DEF Started, Expects
  <2>2. g = half
    BY <2>1 DEF NoteSyn
  <2>3. out \in Seq(Nat)
    BY <2>1, SpanIs
  <2>4. out \o <<>> = out
    BY <2>3, ConcatEmptySeq
  <2>5. half' = half /\ out' = out /\ arrived' = arrived
    BY <1>6, <2>2, <2>4
  <2> QED BY <2>5 DEF StreamInv, View, Held
<1> QED BY <1>7, <1>8 DEF StreamInv

\* The FIN without data.
LEMMA FinStep ==
  ASSUME StreamInv, ArriveFin
  PROVE  StreamInv' /\ UNCHANGED View
<1> DEFINE tcp == TCP(StreamLen + 1, FALSE, TRUE, <<>>)
<1>1. tcp.syn = FALSE /\ tcp.payload = <<>> /\ tcp.seq \in Int
  <2>1. ISN + (StreamLen + 1) \in Int /\ SeqSpace \in Nat \ {0}
    BY TCPStreamAssumption
  <2>2. Wire(StreamLen + 1) \in Int
    BY <2>1 DEF Wire
  <2> QED BY <2>2 DEF TCP
<1> HIDE DEF tcp
<1>2. /\ half.has_syn
      /\ half' = ReceiveSegment(half, tcp).half
      /\ out' = out \o ReceiveSegment(half, tcp).delivered
      /\ arrived' = arrived \cup ToSet(tcp.payload)
  BY DEF ArriveFin, Receive, tcp
<1>3. PICK n : Started(half, out, arrived, n)
  BY <1>2, NewHalfIs DEF StreamInv
<1> DEFINE g == NoteFin(half, tcp)
<1>4. NoteSyn(half, tcp) = half
  BY <1>1 DEF NoteSyn
<1>5. ReceiveSegment(half, tcp) = [half |-> g, delivered |-> <<>>]
  <2>1. ReceiveSegment(half, tcp) = AddSegment(g, tcp.seq, <<>>)
    BY <1>1, <1>4 DEF ReceiveSegment
  <2>2. g.next_seq \in Int
    <3>1. n \in Nat /\ half.next_seq = ISN + n /\ ISN \in Nat
      BY <1>3, TCPStreamAssumption DEF Started, Expects
    <3> QED BY <1>3, <3>1, FinNoted
  <2> HIDE DEF g
  <2> QED BY <1>1, <2>1, <2>2, AddNothing
<1> HIDE DEF g
<1>6. out \o <<>> = out /\ ToSet(<<>>) = {}
  <2>1. n \in Nat /\ 1 <= n /\ out = Span(1, n)
    BY <1>3 DEF Started, Expects
  <2>2. out \in Seq(Nat)
    BY <2>1, SpanIs
  <2> QED BY <2>2, ConcatEmptySeq DEF ToSet
<1>7. half' = g /\ out' = out /\ arrived' = arrived
  BY <1>1, <1>2, <1>5, <1>6
<1>8. Started(g, out, arrived, n) /\ g.segments = half.segments /\ g.next_seq = half.next_seq
  BY <1>3, FinNoted DEF g
<1> QED BY <1>7, <1>8 DEF StreamInv, View, Held

\* A segment with data.
LEMMA DataStep ==
  ASSUME NoWrap, StreamInv, NEW s \in Segments, NEW fin \in BOOLEAN, ArriveData(s[1], s[2], fin)
  PROVE  \E n, m : /\ Started(half, out, arrived, n)
                   /\ Started(half', out', arrived', m)
                   /\ Moves(half.segments, n, s[1], s[2], m, half'.segments)
                   /\ out' = out \o Span(n, m)
                   /\ arrived' = arrived \cup s[1]..(s[2] - 1)
<1> DEFINE a == s[1]
           b == s[2]
           tcp == TCP(a, FALSE, fin, Span(a, b))
<1>1. a \in Nat /\ b \in Nat /\ 1 <= a /\ a < b /\ b <= StreamLen + 1 /\ a \in 0..StreamLen
  BY TCPStreamAssumption
<1> HIDE DEF a, b
<1>2. tcp.syn = FALSE /\ tcp.payload = Span(a, b) /\ tcp.seq = ISN + a
  BY <1>1, WireIs DEF TCP
<1>3. /\ half.has_syn
      /\ half' = ReceiveSegment(half, tcp).half
      /\ out' = out \o ReceiveSegment(half, tcp).delivered
      /\ arrived' = arrived \cup ToSet(tcp.payload)
  BY DEF ArriveData, Receive, Span, a, b
<1> HIDE DEF tcp
<1>4. PICK n : Started(half, out, arrived, n)
  BY <1>3, NewHalfIs DEF StreamInv
<1> DEFINE h == NoteFin(half, tcp)
           result == AddSegment(h, ISN + a, Span(a, b))
<1>5. NoteSyn(half, tcp) = half
  BY <1>2 DEF NoteSyn
<1>6. ReceiveSegment(half, tcp) = result
  BY <1>2, <1>5 DEF ReceiveSegment
<1>7. Started(h, out, arrived, n) /\ h.segments = half.segments
  BY <1>4, FinNoted
<1> HIDE DEF h
<1>8. PICK m : /\ Started(result.half, out \o result.delivered, arrived \cup a..(b - 1), m)
               /\ Moves(h.segments, n, a, b, m, result.half.segments)
               /\ result.delivered = Span(n, m)
  <2>1. \E m : Gives(result, h, out, arrived, n, a, b, m)
    BY <1>1, <1>7, AfterData
  <2> HIDE DEF result
  <2> QED BY <2>1 DEF Gives
<1> HIDE DEF result
<1>9. ToSet(tcp.payload) = a..(b - 1)
  <2>1. a <= b
    BY <1>1
  <2> QED BY <1>1, <1>2, <2>1, SpanIs
<1>10. half' = result.half /\ out' = out \o result.delivered /\ arrived' = arrived \cup a..(b - 1)
  BY <1>3, <1>6, <1>9
<1>11. /\ Started(half', out', arrived', m)
       /\ Moves(half.segments, n, a, b, m, half'.segments)
       /\ out' = out \o Span(n, m)
  BY <1>7, <1>8, <1>10
<1> QED BY <1>4, <1>10, <1>11 DEF a, b

\* The invariant holds from the start and every step keeps it.
LEMMA StreamInvInit ==
  ASSUME Init PROVE StreamInv
  BY DEF Init, StreamInv

\* Every arrival of a SYN, a FIN or a segment keeps the invariant.
LEMMA StreamInvStep ==
  ASSUME NoWrap, StreamInv, [Next]_vars
  PROVE  StreamInv'
<1>1. CASE ArriveSyn
  BY <1>1, SynStep
<1>2. ASSUME NEW s \in Segments, NEW fin \in BOOLEAN, ArriveData(s[1], s[2], fin)
      PROVE  StreamInv'
  <2>1. PICK n, m : Started(half', out', arrived', m)
    BY <1>2, DataStep
  <2> QED BY <2>1 DEF StreamInv
<1>3. CASE ArriveFin
  BY <1>3, FinStep
<1>4. CASE UNCHANGED vars
  BY <1>4 DEF vars, StreamInv
<1> QED BY <1>1, <1>2, <1>3, <1>4 DEF Next

-----------------------------------------------------------------------------
(* What holds of the buffer and of the counters.                           *)

\* While a stream is followed, its segments neither overlap nor touch, and each byte sits at
\* its own sequence number.
LEMMA InvCanonical ==
  ASSUME NoWrap, StreamInv
  PROVE  BufferCanonical
<1> SUFFICES ASSUME Canonical(half.segments) PROVE BufferCanonical
  BY NewHalfIs DEF StreamInv, Started, Expects
<1> DEFINE list == half.segments
<1>1. list \in Seq(Runs) /\ DOMAIN list = 1..Len(list) /\ Len(list) \in Nat
      /\ \A i \in 1..Len(list) : IsRun(list[i])
  BY DEF Canonical, IsRuns, Runs
<1>2. ISN \in Nat
  BY TCPStreamAssumption
<1>3. ASSUME NEW i \in 1..(Len(list) - 1) PROVE End(list[i]) < list[i + 1].seq
  <2>1. i \in 1..Len(list) /\ i + 1 \in 1..Len(list) /\ i < i + 1
    BY <1>1
  <2>2. Hi(list[i]) < Lo(list[i + 1])
    BY <2>1 DEF Canonical
  <2>3. IsRun(list[i]) /\ IsRun(list[i + 1])
    BY <1>1, <2>1
  <2>4. /\ End(list[i]) = ISN + Hi(list[i]) /\ list[i + 1].seq = ISN + Lo(list[i + 1])
        /\ Hi(list[i]) \in Nat /\ Lo(list[i + 1]) \in Nat
    BY <2>3, RunFacts
  <2> QED BY <1>2, <2>2, <2>4
<1>4. ASSUME NEW seg \in ToSet(list)
      PROVE  seg.data # <<>> /\ \A i \in DOMAIN seg.data : Wire(seg.data[i]) = seg.seq + i - 1
  <2>1. IsRun(seg)
    BY <1>1 DEF ToSet
  <2>2. /\ Lo(seg) \in Nat /\ Hi(seg) \in Nat /\ 1 <= Lo(seg) /\ Hi(seg) <= StreamLen + 1
        /\ seg.seq = ISN + Lo(seg) /\ seg.data # <<>>
        /\ seg.data = [i \in 1..(Hi(seg) - Lo(seg)) |-> Lo(seg) + i - 1]
    BY <2>1, RunFacts
  <2>3. ASSUME NEW i \in DOMAIN seg.data PROVE Wire(seg.data[i]) = seg.seq + i - 1
    <3>1. i \in 1..(Hi(seg) - Lo(seg)) /\ seg.data[i] = Lo(seg) + i - 1
      BY <2>2
    <3>2. Lo(seg) + i - 1 \in 0..StreamLen
      BY <2>2, <3>1, TCPStreamAssumption
    <3>3. Wire(Lo(seg) + i - 1) = ISN + (Lo(seg) + i - 1)
      BY <3>2, WireIs
    <3>4. ISN + (Lo(seg) + i - 1) = (ISN + Lo(seg)) + i - 1
      BY <1>2, <2>2, <3>1
    <3> QED BY <2>2, <3>1, <3>3, <3>4
  <2> QED BY <2>2, <2>3
<1> QED BY <1>3, <1>4 DEF BufferCanonical

\* No byte is accounted for twice.
LEMMA InvAccounting ==
  ASSUME StreamInv
  PROVE  AccountingHolds
<1>1. BufferedCount = CountFrom(half.segments)
  BY DEF BufferedCount, CountFrom
<1>2. CASE half = NewHalf
  <2>1. Canonical(half.segments) /\ Covers(half.segments) = {}
    BY <1>2, NewHalfIs
  <2>2. BufferedCount = 0
    BY <1>1, <2>1, CountIsCardinality, FS_EmptySet
  <2> QED BY <1>2, <2>2, NewHalfIs DEF AccountingHolds
<1>3. ASSUME NEW n, Started(half, out, arrived, n) PROVE AccountingHolds
  <2>1. /\ Canonical(half.segments) /\ half.bytes_delivered = n - 1
        /\ (n - 1) + Cardinality(Covers(half.segments)) + half.duplicate_bytes
             <= half.bytes_received
    BY <1>3 DEF Started, Expects
  <2>2. BufferedCount = Cardinality(Covers(half.segments))
    BY <1>1, <2>1, CountIsCardinality
  <2> QED BY <2>1, <2>2 DEF AccountingHolds
<1> QED BY <1>2, <1>3 DEF StreamInv

\* What is not counted as duplicate is at least what arrived.
LEMMA InvRetransmissions ==
  ASSUME StreamInv
  PROVE  OnlyRetransmissionsIgnored
<1>1. CASE half = NewHalf /\ out = <<>> /\ arrived = {}
  <2>1. Cardinality(arrived) = 0
    BY <1>1, FS_EmptySet
  <2> QED BY <1>1, <2>1, NewHalfIs DEF OnlyRetransmissionsIgnored
<1>2. ASSUME NEW n, Started(half, out, arrived, n) PROVE OnlyRetransmissionsIgnored
  <2> DEFINE C == Covers(half.segments)
             P == 1..(n - 1)
  <2>1. /\ Canonical(half.segments) /\ n \in Nat /\ 1 <= n /\ arrived = P \cup C
        /\ (n - 1) + Cardinality(C) + half.duplicate_bytes <= half.bytes_received
        /\ half.duplicate_bytes \in Nat /\ half.bytes_received \in Nat
    BY <1>2 DEF Started, Expects
  <2>2. IsFiniteSet(C) /\ Cardinality(C) \in Nat
    BY <2>1, CanonicalFinite
  <2>3. IsFiniteSet(P) /\ Cardinality(P) = n - 1
    <3>1. 1 \in Int /\ n - 1 \in Int
      BY <2>1
    <3>2. IsFiniteSet(P) /\ Cardinality(P) = IF 1 > n - 1 THEN 0 ELSE (n - 1) - 1 + 1
      BY <3>1, FS_Interval
    <3> HIDE DEF P
    <3> QED BY <2>1, <3>2
  <2> HIDE DEF P, C
  <2>4. Cardinality(arrived) \in Nat /\ Cardinality(arrived) <= Cardinality(P) + Cardinality(C)
    BY <2>1, <2>2, <2>3, UnionAtMost
  <2>5. Cardinality(arrived) <= (n - 1) + Cardinality(C)
    BY <2>3, <2>4
  <2>6. half.duplicate_bytes <= half.bytes_received - Cardinality(arrived)
    BY <2>1, <2>2, <2>4, <2>5
  <2> QED BY <2>6 DEF OnlyRetransmissionsIgnored
<1> QED BY <1>1, <1>2 DEF StreamInv

\* _merge_segments, called after an insertion anywhere in the list, restores a sorted buffer
\* of segments that neither overlap nor touch, each byte at its sequence number.
THEOREM BufferStaysCanonical ==
  ASSUME NoWrap
  PROVE  Spec => []BufferCanonical
<1>1. Init => StreamInv
  BY StreamInvInit
<1>2. StreamInv /\ [Next]_vars => StreamInv'
  BY StreamInvStep
<1>3. StreamInv => BufferCanonical
  BY InvCanonical
<1> QED BY <1>1, <1>2, <1>3, PTL DEF Spec

\* bytes_received covers what was delivered, what is buffered and what was counted as
\* duplicate, whatever is trimmed on arrival, on merging or not at all.
THEOREM BytesAccounted ==
  ASSUME NoWrap
  PROVE  Spec => []AccountingHolds
<1>1. Init => StreamInv
  BY StreamInvInit
<1>2. StreamInv /\ [Next]_vars => StreamInv'
  BY StreamInvStep
<1>3. StreamInv => AccountingHolds
  BY InvAccounting
<1> QED BY <1>1, <1>2, <1>3, PTL DEF Spec

\* Only bytes captured before are counted as duplicates: every byte of the stream that arrived
\* is among those that were not.
THEOREM DuplicatesAreRepeats ==
  ASSUME NoWrap
  PROVE  Spec => []OnlyRetransmissionsIgnored
<1>1. Init => StreamInv
  BY StreamInvInit
<1>2. StreamInv /\ [Next]_vars => StreamInv'
  BY StreamInvStep
<1>3. StreamInv => OnlyRetransmissionsIgnored
  BY InvRetransmissions
<1> QED BY <1>1, <1>2, <1>3, PTL DEF Spec

-----------------------------------------------------------------------------
(* The refinement.                                                         *)

\* The code starts where the abstract specification does.
LEMMA RefinementInit ==
  ASSUME Init
  PROVE  Reassembly!Init
<1>1. UNION {ToSet(seg.data) : seg \in ToSet(<<>>)} = {}
  BY HeldIs, NewHalfIs
<1> QED BY <1>1, NewHalfIs DEF Init, Reassembly!Init, Held

\* A segment with data is a segment of the abstract specification, in the case its place in
\* the stream selects.
LEMMA DataRefines ==
  ASSUME NoWrap, StreamInv, NEW s \in Segments, NEW fin \in BOOLEAN, ArriveData(s[1], s[2], fin)
  PROVE  Reassembly!Next
<1> DEFINE a == s[1]
           b == s[2]
           next == IF half.next_seq = SEQ_UNSET THEN 1 ELSE half.next_seq - ISN
           C == Covers(half.segments)
<1>1. PICK n, m : /\ Started(half, out, arrived, n)
                  /\ Started(half', out', arrived', m)
                  /\ Moves(half.segments, n, a, b, m, half'.segments)
                  /\ out' = out \o Span(n, m)
                  /\ arrived' = arrived \cup a..(b - 1)
  BY DataStep
<1>2. a \in Nat /\ b \in Nat /\ 1 <= a /\ a < b /\ b <= StreamLen + 1
  BY TCPStreamAssumption
<1>3. n \in Nat /\ 1 <= n /\ m \in Nat /\ m <= StreamLen + 1 /\ out = Span(1, n)
  BY <1>1 DEF Started, Expects
<1>4. next = n /\ Held = C
  BY <1>1, ViewIs DEF Held
<1>5. (IF half'.next_seq = SEQ_UNSET THEN 1 ELSE half'.next_seq - ISN) = m
      /\ Held' = Covers(half'.segments)
  BY <1>1, ViewIs DEF Held
<1>6. Span(n, n) = <<>> /\ out \o <<>> = out
  <2>1. n <= n /\ out \in Seq(Nat)
    BY <1>3, SpanIs
  <2> QED BY <1>3, <2>1, SpanIs, ConcatEmptySeq
<1> HIDE DEF a, b, C, next
<1>7. CASE b <= n /\ m = n /\ Covers(half'.segments) = Covers(half.segments)
  <2>1. out' = out
    BY <1>1, <1>6, <1>7
  <2>2. Reassembly!Old(a, b)
    BY <1>1, <1>4, <1>5, <1>7, <2>1 DEF Reassembly!Old, Reassembly!Bytes, C, next
  <2> QED BY <2>2 DEF Reassembly!Next, Reassembly!Arrive, a, b
<1>8. CASE a <= n /\ n < b /\ Flushes(half.segments, b, m, half'.segments)
  <2>1. /\ b <= m /\ Held' = C \ b..(m - 1)
        /\ b..(m - 1) \subseteq C
        /\ IF b \in C /\ \A p \in C : p >= b
           THEN b < m /\ m <= StreamLen + 1 /\ m \notin C
           ELSE m = b
    BY <1>5, <1>8 DEF Flushes, C
  <2>2. m \in b..(StreamLen + 1)
    BY <1>2, <1>3, <2>1
  <2>3. Reassembly!Flushed(b, m)
    <3>1. b < m => m \in (b + 1)..(StreamLen + 1)
      BY <1>2, <1>3
    <3> QED BY <1>4, <2>1, <3>1 DEF Reassembly!Flushed, Reassembly!Bytes
  <2>4. Reassembly!DeliverUpTo(m)
    BY <1>1, <1>4, <1>5 DEF Reassembly!DeliverUpTo, Span, next
  <2>5. Reassembly!InOrder(a, b)
    BY <1>1, <1>4, <1>8, <2>1, <2>2, <2>3, <2>4
       DEF Reassembly!InOrder, Reassembly!Bytes, next
  <2> QED BY <2>5 DEF Reassembly!Next, Reassembly!Arrive, a, b
<1>9. CASE n < a /\ m = n /\ Covers(half'.segments) = Covers(half.segments) \cup a..(b - 1)
  <2>1. out' = out
    BY <1>1, <1>6, <1>9
  <2>2. Reassembly!OutOfOrder(a, b)
    BY <1>1, <1>4, <1>5, <1>9, <2>1 DEF Reassembly!OutOfOrder, Reassembly!Bytes, C, next
  <2> QED BY <2>2 DEF Reassembly!Next, Reassembly!Arrive, a, b
<1> QED BY <1>1, <1>7, <1>8, <1>9 DEF Moves

\* The code's list of merged segments behaves as a set of positions: every segment that is
\* captured is a step of StreamReassembly, and SYN and FIN are none.
THEOREM StreamIsReassembled ==
  ASSUME NoWrap
  PROVE  Spec => RefinesStreamReassembly
<1>1. Init => Reassembly!Init /\ StreamInv
  BY RefinementInit, StreamInvInit
<1>2. StreamInv /\ [Next]_vars => StreamInv' /\ [Reassembly!Next]_(Reassembly!vars)
  <2> SUFFICES ASSUME StreamInv, [Next]_vars
               PROVE  [Reassembly!Next]_(Reassembly!vars)
    BY StreamInvStep
  <2>1. UNCHANGED View => UNCHANGED Reassembly!vars
    BY DEF View, Reassembly!vars
  <2>2. CASE ArriveSyn
    BY <2>1, <2>2, SynStep
  <2>3. ASSUME NEW s \in Segments, NEW fin \in BOOLEAN, ArriveData(s[1], s[2], fin)
        PROVE  Reassembly!Next
    BY <2>3, DataRefines
  <2>4. CASE ArriveFin
    BY <2>1, <2>4, FinStep
  <2>5. CASE UNCHANGED vars
    BY <2>1, <2>5 DEF vars, View, Held
  <2> QED BY <2>2, <2>3, <2>4, <2>5 DEF Next
<1> QED BY <1>1, <1>2, PTL DEF Spec, RefinesStreamReassembly, Reassembly!Spec

\* What is proved of StreamReassembly holds of the code's list.
Proved == INSTANCE StreamReassembly_proofs WITH
  next <- IF half.next_seq = SEQ_UNSET THEN 1 ELSE half.next_seq - ISN,
  held <- Held

\* For a sender that repeats its segments as they are the code hands over all that is
\* contiguous, whatever is lost, repeated and reordered on the way.
THEOREM RepeatsAreDelivered ==
  ASSUME NoWrap, Reassembly!Uncut
  PROVE  Spec => []ContiguousDelivered
<1>1. Spec => Reassembly!Spec
  BY StreamIsReassembled DEF RefinesStreamReassembly
<1>2. Reassembly!Init => Proved!Init
  BY DEF Reassembly!Init, Proved!Init
<1>3. [Reassembly!Next]_(Reassembly!vars) => [Proved!Next]_(Proved!vars)
  BY DEF Reassembly!Next, Reassembly!Arrive, Reassembly!Old, Reassembly!InOrder,
         Reassembly!OutOfOrder, Reassembly!Flushed, Reassembly!DeliverUpTo, Reassembly!Bytes,
         Reassembly!vars,
         Proved!Next, Proved!Arrive, Proved!Old, Proved!InOrder, Proved!OutOfOrder,
         Proved!Flushed, Proved!DeliverUpTo, Proved!Bytes, Proved!vars
<1>4. Proved!Spec => []Proved!ContiguousDelivered
  <2>1. Proved!Uncut
    BY DEF Reassembly!Uncut, Proved!Uncut
  <2>2. /\ StreamLen \in Nat \ {0}
        /\ Segments \subseteq {s \in (1..StreamLen) \X (2..(StreamLen + 1)) : s[1] < s[2]}
    BY TCPStreamAssumption
  <2> QED BY <2>1, <2>2, Proved!UncutIsDelivered
<1>5. Proved!ContiguousDelivered => ContiguousDelivered
  BY DEF Proved!ContiguousDelivered, ContiguousDelivered, Proved!Positions, Positions,
         Proved!Bytes, Bytes
<1> QED BY <1>1, <1>2, <1>3, <1>4, <1>5, PTL DEF Reassembly!Spec, Proved!Spec
=============================================================================
