---------------------------- MODULE Statistics_proofs ----------------------------
(***************************************************************************)
(* The tables of the statistics, for any packets in any order: what they   *)
(* count, added up, agrees from table to table.                            *)
(***************************************************************************)
EXTENDS Statistics, FiniteSets, FiniteSetTheorems, SequenceTheorems, WellFoundedInduction, TLAPS

-----------------------------------------------------------------------------
(* Sums over finite sets.                                                  *)

\* Every set of naturals that has an element has a least one.
LEMMA LeastNumber ==
  ASSUME NEW S \in SUBSET Nat, S # {}
  PROVE  \E m \in S : \A n \in S : m <= n
<1> DEFINE R == OpToRel(<, Nat)
<1>1. IsWellFoundedOn(R, Nat)
  BY NatLessThanWellFounded DEF OpToRel
<1>2. R = {ss \in Nat \X Nat : ss[1] < ss[2]}
  BY DEF OpToRel
<1> HIDE DEF R
<1>3. PICK m \in S : \A n \in S : ~ (<<n, m>> \in R)
  BY <1>1, WFMin
<1>4. \A n \in S : m <= n
  <2> TAKE n \in S
  <2>1. <<n, m>> \in Nat \X Nat
    OBVIOUS
  <2>2. ~ (n < m)
    BY <1>2, <1>3, <2>1
  <2> QED BY <2>2
<1> QED BY <1>3, <1>4

\* The largest number of a set is the one that is.
LEMMA MaxIs ==
  ASSUME NEW S \in SUBSET Int, NEW m \in S, \A n \in S : n <= m
  PROVE  Max(S) = m
<1>1. Max(S) \in S /\ \A n \in S : Max(S) >= n
  <2>1. \E x \in S : \A n \in S : x >= n
    OBVIOUS
  <2> QED BY <2>1 DEF Max
<1> DEFINE x == Max(S)
<1>2. x \in Int /\ m \in Int /\ x >= m /\ x <= m
  BY <1>1
<1> HIDE DEF x
<1>3. x = m
  BY <1>2
<1> QED BY <1>3 DEF x

\* iter[T] is the sum of F over T, one element after the other, for every part T of S.
SumSteps(iter, F, S) ==
  /\ iter[{}] = 0
  /\ \A T \in SUBSET S : T # {} => \E x \in T : iter[T] = F[x] + iter[T \ {x}]

\* a is the sum of F.
IsSum(F, a) == \E iter : SumSteps(iter, F, DOMAIN F) /\ a = iter[DOMAIN F]

\* A finite set of sets that has an element has one with the fewest elements.
LEMMA Smallest ==
  ASSUME NEW S, IsFiniteSet(S), NEW B \in SUBSET (SUBSET S), B # {}
  PROVE  \E T \in B : \A U \in SUBSET T : U # T => U \notin B
<1> DEFINE sizes == {Cardinality(T) : T \in B}
<1>1. \A T \in SUBSET S : IsFiniteSet(T) /\ Cardinality(T) \in Nat
  BY FS_Subset, FS_CardinalityType
<1>2. sizes \in SUBSET Nat /\ sizes # {}
  BY <1>1
<1>3. PICK m \in sizes : \A n \in sizes : m <= n
  <2> HIDE DEF sizes
  <2> QED BY <1>2, LeastNumber
<1>4. PICK T \in B : m = Cardinality(T)
  OBVIOUS
<1>5. ASSUME NEW U \in SUBSET T, U # T PROVE U \notin B
  <2>1. IsFiniteSet(T) /\ Cardinality(T) \in Nat /\ Cardinality(U) \in Nat
    BY <1>1, <1>4
  <2>2. Cardinality(U) <= Cardinality(T) /\ Cardinality(U) # Cardinality(T)
    BY <1>5, <2>1, FS_Subset
  <2>3. ~(m <= Cardinality(U))
    BY <1>4, <2>1, <2>2
  <2>4. Cardinality(U) \notin sizes
    <3> HIDE DEF sizes
    <3> QED BY <1>3, <2>3
  <2> QED BY <2>4
<1> QED BY <1>4, <1>5

\* The same, when pick says which element is taken next.
PickedSteps(iter, F, S, pick) ==
  iter = [T \in SUBSET S |-> IF T = {} THEN 0 ELSE F[pick[T]] + iter[T \ {pick[T]}]]

\* The sums exist, whichever element pick takes next.
LEMMA SumsExist ==
  ASSUME NEW S, IsFiniteSet(S), NEW F, NEW pick,
         \A T \in SUBSET S : T # {} => pick[T] \in T
  PROVE  \E iter : PickedSteps(iter, F, S, pick)
<1> DEFINE level(n) == {T \in SUBSET S : Cardinality(T) <= n}
           Sums(n, g) ==
             g = [T \in level(n) |-> IF T = {} THEN 0 ELSE F[pick[T]] + g[T \ {pick[T]}]]
           bad == {n \in Nat : ~ \E g : Sums(n, g)}
<1>1. \A T \in SUBSET S : IsFiniteSet(T) /\ Cardinality(T) \in Nat
  BY FS_Subset, FS_CardinalityType
<1>2. ASSUME NEW T \in SUBSET S, T # {}
      PROVE  T \ {pick[T]} \in SUBSET S /\ Cardinality(T \ {pick[T]}) = Cardinality(T) - 1
  <2>1. IsFiniteSet(T) /\ pick[T] \in T
    BY <1>1, <1>2
  <2> QED BY <2>1, FS_RemoveElement
<1>3. bad = {}
  <2> SUFFICES ASSUME bad # {} PROVE FALSE
    OBVIOUS
  <2>1. PICK m \in bad : \A n \in bad : m <= n
    <3>1. bad \in SUBSET Nat
      OBVIOUS
    <3> HIDE DEF bad
    <3> QED BY <3>1, LeastNumber
  <2>2. m \in Nat /\ ~ \E g : Sums(m, g)
    OBVIOUS
  <2>3. CASE m = 0
    <3> DEFINE g == [T \in level(0) |-> 0]
    <3>1. \A T \in level(0) : T = {}
      <4> SUFFICES ASSUME NEW T \in level(0) PROVE T = {}
        OBVIOUS
      <4>1. IsFiniteSet(T) /\ Cardinality(T) \in Nat /\ Cardinality(T) <= 0
        BY <1>1
      <4>2. Cardinality(T) = 0
        BY <4>1
      <4> QED BY <4>1, <4>2, FS_EmptySet
    <3> HIDE DEF level
    <3>2. [T \in level(0) |-> IF T = {} THEN 0 ELSE F[pick[T]] + g[T \ {pick[T]}]] = [T \in level(0) |-> 0]
      BY <3>1
    <3>3. Sums(0, g)
      BY <3>2
    <3>4. \E f : Sums(0, f)
      <4> HIDE DEF g, Sums
      <4> QED BY <3>3
    <3> QED BY <2>2, <2>3, <3>4
  <2>4. CASE m # 0
    <3>1. m - 1 \in Nat /\ ~(m <= m - 1)
      BY <2>2, <2>4
    <3>2. m - 1 \notin bad
      <4> HIDE DEF bad
      <4> QED BY <2>1, <3>1
    <3>3. PICK g : Sums(m - 1, g)
      BY <3>1, <3>2
    <3> DEFINE h == [T \in level(m) |-> IF Cardinality(T) <= m - 1 THEN g[T]
                                        ELSE F[pick[T]] + g[T \ {pick[T]}]]
    <3>4. ASSUME NEW T \in level(m)
          PROVE  h[T] = IF T = {} THEN 0 ELSE F[pick[T]] + h[T \ {pick[T]}]
      <4>1. T \in SUBSET S /\ Cardinality(T) <= m /\ Cardinality(T) \in Nat
        BY <1>1
      <4>2. CASE T = {}
        <5>1. Cardinality(T) <= m - 1
          BY <3>1, <4>2, FS_EmptySet
        <5>2. T \in level(m - 1)
          BY <4>1, <5>1
        <5>3. g[T] = 0
          BY <3>3, <4>2, <5>2
        <5> QED BY <4>2, <5>1, <5>3
      <4>3. CASE T # {}
        <5> DEFINE U == T \ {pick[T]}
        <5>1. U \in SUBSET S /\ Cardinality(U) = Cardinality(T) - 1
          BY <1>2, <4>1, <4>3
        <5>2. Cardinality(U) <= m - 1 /\ Cardinality(U) <= m
          BY <2>2, <4>1, <5>1
        <5>3. U \in level(m) /\ h[U] = g[U]
          BY <5>1, <5>2
        <5>4. CASE Cardinality(T) <= m - 1
          <6>1. T \in level(m - 1)
            BY <4>1, <5>4
          <6>2. g[T] = F[pick[T]] + g[U]
            BY <3>3, <4>3, <6>1
          <6>3. h[T] = g[T]
            BY <5>4
          <6> QED BY <4>3, <5>3, <6>2, <6>3
        <5>5. CASE ~(Cardinality(T) <= m - 1)
          BY <4>3, <5>3, <5>5
        <5> QED BY <5>4, <5>5
      <4> QED BY <4>2, <4>3
    <3>5. Sums(m, h)
      <4>1. h = [T \in level(m) |-> h[T]]
        OBVIOUS
      <4> HIDE DEF h, level
      <4> QED BY <3>4, <4>1
    <3>6. \E f : Sums(m, f)
      <4> HIDE DEF h, Sums
      <4> QED BY <3>5
    <3> QED BY <2>2, <3>6
  <2> QED BY <2>3, <2>4
<1>4. Cardinality(S) \in Nat
  BY FS_CardinalityType
<1>5. \E g : Sums(Cardinality(S), g)
  BY <1>3, <1>4
<1>6. level(Cardinality(S)) = SUBSET S
  BY FS_Subset
<1> HIDE DEF level
<1> QED BY <1>5, <1>6 DEF PickedSteps

\* A sum may start with any element.
LEMMA SumAnyFirst ==
  ASSUME NEW F, IsFiniteSet(DOMAIN F), \A x \in DOMAIN F : F[x] \in Int,
         NEW iter, SumSteps(iter, F, DOMAIN F)
  PROVE  \A T \in SUBSET (DOMAIN F) :
           iter[T] \in Int /\ \A x \in T : iter[T] = F[x] + iter[T \ {x}]
<1> DEFINE S == DOMAIN F
           Good(T) == iter[T] \in Int /\ \A x \in T : iter[T] = F[x] + iter[T \ {x}]
           bad == {T \in SUBSET S : ~Good(T)}
<1>1. bad = {}
  <2> SUFFICES ASSUME bad # {} PROVE FALSE
    OBVIOUS
  <2>1. PICK T \in bad : \A U \in SUBSET T : U # T => U \notin bad
    <3>1. bad \in SUBSET (SUBSET S)
      OBVIOUS
    <3> HIDE DEF bad
    <3> QED BY <3>1, Smallest
  <2>2. T \in SUBSET S /\ ~Good(T)
    OBVIOUS
  <2>3. \A U \in SUBSET T : U # T => Good(U)
    BY <2>1, <2>2
  <2>4. T # {}
    <3>1. iter[{}] = 0
      BY DEF SumSteps
    <3>2. Good({})
      BY <3>1
    <3> HIDE DEF Good, bad
    <3> QED BY <2>2, <3>2
  <2>5. PICK y \in T : iter[T] = F[y] + iter[T \ {y}]
    BY <2>2, <2>4 DEF SumSteps
  <2>6. Good(T \ {y})
    BY <2>3
  <2>7. F[y] \in Int
    BY <2>2
  <2>8. ASSUME NEW x \in T PROVE iter[T] = F[x] + iter[T \ {x}]
    <3>1. CASE x = y
      BY <2>5, <3>1
    <3>2. CASE x # y
      <4>1. (T \ {x}) \ {y} = (T \ {y}) \ {x}
        OBVIOUS
      <4>2. iter[T \ {y}] = F[x] + iter[(T \ {y}) \ {x}]
        BY <2>6, <3>2
      <4>3. Good(T \ {x})
        BY <2>3
      <4>4. iter[T \ {x}] = F[y] + iter[(T \ {x}) \ {y}]
        BY <3>2, <4>3
      <4>5. Good((T \ {y}) \ {x})
        BY <2>3
      <4>6. F[x] \in Int
        BY <2>2
      <4> DEFINE rest == iter[(T \ {y}) \ {x}]
      <4>7. rest \in Int /\ iter[T \ {y}] = F[x] + rest /\ iter[T \ {x}] = F[y] + rest
        BY <4>1, <4>2, <4>4, <4>5
      <4> HIDE DEF rest
      <4> QED BY <2>5, <2>7, <4>6, <4>7
    <3> QED BY <3>1, <3>2
  <2>9. iter[T] \in Int
    BY <2>5, <2>6, <2>7
  <2> QED BY <2>2, <2>8, <2>9
<1> QED BY <1>1

\* Two sums of the same numbers are the same.
LEMMA SumsAgree ==
  ASSUME NEW F, IsFiniteSet(DOMAIN F), \A x \in DOMAIN F : F[x] \in Int,
         NEW G, IsFiniteSet(DOMAIN G), \A x \in DOMAIN G : G[x] \in Int,
         NEW f, SumSteps(f, F, DOMAIN F), NEW g, SumSteps(g, G, DOMAIN G),
         NEW S, S \subseteq DOMAIN F, S \subseteq DOMAIN G, \A x \in S : F[x] = G[x]
  PROVE  f[S] = g[S]
<1> DEFINE bad == {T \in SUBSET S : f[T] # g[T]}
<1>1. bad = {}
  <2> SUFFICES ASSUME bad # {} PROVE FALSE
    OBVIOUS
  <2>1. PICK T \in bad : \A U \in SUBSET T : U # T => U \notin bad
    <3>1. bad \in SUBSET (SUBSET S) /\ IsFiniteSet(S)
      BY FS_Subset
    <3> HIDE DEF bad
    <3> QED BY <3>1, Smallest
  <2>2. T \in SUBSET S /\ f[T] # g[T]
    OBVIOUS
  <2>3. T # {}
    BY <2>2 DEF SumSteps
  <2>4. PICK x \in T : TRUE
    BY <2>3
  <2>5. f[T] = F[x] + f[T \ {x}] /\ g[T] = G[x] + g[T \ {x}]
    <3>1. T \in SUBSET (DOMAIN F) /\ T \in SUBSET (DOMAIN G)
      BY <2>2
    <3> QED BY <3>1, SumAnyFirst
  <2>6. f[T \ {x}] = g[T \ {x}]
    BY <2>1, <2>2, <2>4
  <2> QED BY <2>2, <2>5, <2>6
<1> QED BY <1>1

\* G is F, finitely many numbers, with another number at k.
Differs(F, G, k) ==
  /\ IsFiniteSet(DOMAIN F) /\ \A x \in DOMAIN F : F[x] \in Int
  /\ DOMAIN G = DOMAIN F \cup {k} /\ G[k] \in Int
  /\ \A x \in DOMAIN F \ {k} : G[x] = F[x]

\* Changing one number, or adding one, changes the sum by as much.
LEMMA SumUpdated ==
  ASSUME NEW F, NEW G, NEW k, Differs(F, G, k), NEW a, IsSum(F, a), NEW b, IsSum(G, b)
  PROVE  /\ a \in Int /\ b \in Int
         /\ b = (a + G[k]) - (IF k \in DOMAIN F THEN F[k] ELSE 0)
<1> USE DEF Differs
<1> DEFINE S == DOMAIN F
<1>1. PICK f : SumSteps(f, F, S) /\ a = f[S]
  BY DEF IsSum
<1>2. PICK g : SumSteps(g, G, S \cup {k}) /\ b = g[S \cup {k}]
  BY DEF IsSum
<1>3. IsFiniteSet(DOMAIN G) /\ \A x \in DOMAIN G : G[x] \in Int
  BY FS_AddElement
<1>4. f[S \ {k}] = g[S \ {k}]
  <2>1. SumSteps(g, G, DOMAIN G)
    BY <1>2
  <2>2. S \ {k} \subseteq DOMAIN F /\ S \ {k} \subseteq DOMAIN G
    OBVIOUS
  <2>3. \A x \in S \ {k} : F[x] = G[x]
    OBVIOUS
  <2> QED BY <1>1, <1>3, <2>1, <2>2, <2>3, SumsAgree
<1>5. \A T \in SUBSET S : f[T] \in Int /\ \A x \in T : f[T] = F[x] + f[T \ {x}]
  <2>1. SumSteps(f, F, DOMAIN F)
    BY <1>1
  <2> HIDE DEF S
  <2>2. \A T \in SUBSET (DOMAIN F) : f[T] \in Int /\ \A x \in T : f[T] = F[x] + f[T \ {x}]
    BY <2>1, SumAnyFirst
  <2> QED BY <2>2 DEF S
<1>6. g[S \cup {k}] \in Int /\ g[S \cup {k}] = G[k] + g[(S \cup {k}) \ {k}]
  <2>1. SumSteps(g, G, DOMAIN G) /\ S \cup {k} \in SUBSET (DOMAIN G) /\ k \in S \cup {k}
    BY <1>2
  <2> HIDE DEF S
  <2>2. \A T \in SUBSET (DOMAIN G) : g[T] \in Int /\ \A x \in T : g[T] = G[x] + g[T \ {x}]
    BY <1>3, <2>1, SumAnyFirst
  <2> QED BY <2>1, <2>2
<1>7. (S \cup {k}) \ {k} = S \ {k} /\ S \in SUBSET S /\ S \ {k} \in SUBSET S
  OBVIOUS
<1>8. CASE k \in S
  <2>1. a = F[k] + f[S \ {k}] /\ f[S \ {k}] \in Int /\ a \in Int /\ F[k] \in Int
    BY <1>1, <1>5, <1>7, <1>8
  <2>2. b = G[k] + f[S \ {k}] /\ b \in Int
    BY <1>2, <1>4, <1>6, <1>7
  <2> QED BY <1>8, <2>1, <2>2
<1>9. CASE k \notin S
  <2>1. S \ {k} = S
    BY <1>9
  <2>2. a \in Int /\ b = G[k] + a /\ b \in Int
    BY <1>1, <1>2, <1>4, <1>5, <1>6, <1>7, <2>1
  <2> QED BY <1>9, <2>2
<1> QED BY <1>8, <1>9
-----------------------------------------------------------------------------
(* The sums of the model.                                                  *)

\* The numbers of one field of a table; the packets of a list of windows; the sum of a
\* function's values as the model writes it.
Column(table, field) == [k \in DOMAIN table |-> table[k][field]]
Packed(list) == [i \in DOMAIN list |-> list[i].packets]
SumOf(F) == MapThenSumSet(LAMBDA a : F[a], DOMAIN F)
WindowSum(list) == FoldLeft(LAMBDA n, w : n + w.packets, 0, list)

\* The steps of a sum whose next element pick chooses.
LEMMA PickedSum ==
  ASSUME NEW F, NEW pick, \A T \in SUBSET (DOMAIN F) : T # {} => pick[T] \in T,
         NEW iter, PickedSteps(iter, F, DOMAIN F, pick)
  PROVE  SumSteps(iter, F, DOMAIN F) /\ IsSum(F, iter[DOMAIN F])
<1>1. iter[{}] = 0
  BY DEF PickedSteps
<1>2. ASSUME NEW T \in SUBSET (DOMAIN F), T # {} PROVE \E x \in T : iter[T] = F[x] + iter[T \ {x}]
  <2>1. iter[T] = F[pick[T]] + iter[T \ {pick[T]}] /\ pick[T] \in T
    BY <1>2 DEF PickedSteps
  <2> QED BY <2>1
<1>3. SumSteps(iter, F, DOMAIN F)
  BY <1>1, <1>2 DEF SumSteps
<1> QED BY <1>3 DEF IsSum

\* The recursions that the sums of the model are.
TotalSteps(g, table, field) ==
  g = [T \in SUBSET (DOMAIN table) |->
         IF T = {} THEN 0
         ELSE table[CHOOSE x \in T : TRUE][field] + g[T \ {CHOOSE x \in T : TRUE}]]

SumOfSteps(g, F) ==
  g = [T \in SUBSET (DOMAIN F) |->
         IF T = {} THEN 0 ELSE F[CHOOSE x \in T : TRUE] + g[T \ {CHOOSE x \in T : TRUE}]]

WindowSteps(g, list) ==
  g = [T \in SUBSET (DOMAIN list) |->
         IF T = {} THEN 0 ELSE g[T \ {Max(T)}] + list[Max(T)].packets]

\* Whatever is chosen is there.
AnyOf(S) == [T \in SUBSET S |-> CHOOSE x \in T : TRUE]

\* Total is the sum of a column.
LEMMA TotalIsSum ==
  ASSUME NEW table, IsFiniteSet(DOMAIN table), NEW field
  PROVE  IsSum(Column(table, field), Total(table, field))
<1> DEFINE S    == DOMAIN table
           F    == Column(table, field)
           pick == AnyOf(S)
           iter == CHOOSE g : TotalSteps(g, table, field)
<1>1. DOMAIN F = S /\ \A x \in S : F[x] = table[x][field]
  BY DEF Column
<1>2. \A T \in SUBSET S : T # {} => pick[T] = (CHOOSE x \in T : TRUE) /\ pick[T] \in T
  BY DEF AnyOf
<1>3. Total(table, field) = iter[S]
  BY Zenon DEF Total, MapThenSumSet, MapThenFoldSet, TotalSteps
<1> HIDE DEF F, pick, iter
<1>4. ASSUME NEW g PROVE PickedSteps(g, F, S, pick) <=> TotalSteps(g, table, field)
  <2>1. \A T \in SUBSET S : (IF T = {} THEN 0 ELSE F[pick[T]] + g[T \ {pick[T]}])
                = IF T = {} THEN 0 ELSE table[CHOOSE x \in T : TRUE][field] + g[T \ {CHOOSE x \in T : TRUE}]
    BY <1>1, <1>2
  <2> QED BY <2>1 DEF PickedSteps, TotalSteps
<1>5. \E g : PickedSteps(g, F, S, pick)
  <2> HIDE DEF S
  <2>1. IsFiniteSet(S) /\ \A T \in SUBSET S : T # {} => pick[T] \in T
    BY <1>2 DEF S
  <2> QED BY <2>1, SumsExist
<1>6. TotalSteps(iter, table, field)
  BY <1>4, <1>5, Zenon DEF iter
<1>7. PickedSteps(iter, F, DOMAIN F, pick)
  BY <1>1, <1>4, <1>6
<1>8. \A T \in SUBSET (DOMAIN F) : T # {} => pick[T] \in T
  BY <1>1, <1>2
<1>9. IsSum(F, iter[DOMAIN F])
  BY <1>7, <1>8, PickedSum
<1> QED BY <1>1, <1>3, <1>9 DEF F

\* So is the sum of a function's values.
LEMMA SumOfIsSum ==
  ASSUME NEW F, IsFiniteSet(DOMAIN F)
  PROVE  IsSum(F, SumOf(F))
<1> DEFINE S    == DOMAIN F
           pick == AnyOf(S)
           iter == CHOOSE g : SumOfSteps(g, F)
<1>1. \A T \in SUBSET S : T # {} => pick[T] = (CHOOSE x \in T : TRUE) /\ pick[T] \in T
  BY DEF AnyOf
<1>2. SumOf(F) = iter[S]
  BY Zenon DEF SumOf, MapThenSumSet, MapThenFoldSet, SumOfSteps
<1> HIDE DEF pick, iter
<1>3. ASSUME NEW g PROVE PickedSteps(g, F, S, pick) <=> SumOfSteps(g, F)
  <2>1. \A T \in SUBSET S : (IF T = {} THEN 0 ELSE F[pick[T]] + g[T \ {pick[T]}])
                = IF T = {} THEN 0 ELSE F[CHOOSE x \in T : TRUE] + g[T \ {CHOOSE x \in T : TRUE}]
    BY <1>1
  <2> QED BY <2>1 DEF PickedSteps, SumOfSteps
<1>4. \A T \in SUBSET S : T # {} => pick[T] \in T
  BY <1>1
<1> HIDE DEF S
<1>5. \E g : PickedSteps(g, F, S, pick)
  <2>1. IsFiniteSet(S)
    BY DEF S
  <2> QED BY <1>4, <2>1, SumsExist
<1>6. SumOfSteps(iter, F)
  BY <1>3, <1>5, Zenon DEF iter
<1>7. PickedSteps(iter, F, DOMAIN F, pick) /\ \A T \in SUBSET (DOMAIN F) : T # {} => pick[T] \in T
  BY <1>3, <1>4, <1>6 DEF S
<1>8. IsSum(F, iter[DOMAIN F])
  BY <1>7, PickedSum
<1> QED BY <1>2, <1>8 DEF S

\* The largest number of a part of 1..n is in it.
LEMMA MaxOfPart ==
  ASSUME NEW n \in Nat, NEW T \in SUBSET (1..n), T # {}
  PROVE  Max(T) \in T
<1> DEFINE above == {m \in Nat : \A i \in T : i <= m}
<1>1. above \in SUBSET Nat /\ n \in above
  OBVIOUS
<1> HIDE DEF above
<1>2. PICK m \in above : \A k \in above : m <= k
  BY <1>1, LeastNumber
<1>3. m \in Nat /\ \A i \in T : i <= m
  BY <1>2 DEF above
<1>4. m \in T
  <2> SUFFICES ASSUME m \notin T PROVE FALSE
    OBVIOUS
  <2>1. \A i \in T : i \in Nat /\ 1 <= i /\ i <= m - 1
    BY <1>3
  <2>2. m - 1 \in Nat
    <3>1. PICK i \in T : TRUE
      OBVIOUS
    <3> QED BY <1>3, <2>1, <3>1
  <2>3. m - 1 \in above
    BY <2>1, <2>2 DEF above
  <2>4. m <= m - 1
    BY <1>2, <2>3
  <2> QED BY <1>3, <2>4
<1>5. T \in SUBSET Int
  OBVIOUS
<1>6. Max(T) = m
  BY <1>3, <1>4, <1>5, MaxIs
<1> QED BY <1>4, <1>6

\* The packets in a list of windows are a sum, too.
LEMMA WindowSumIsSum ==
  ASSUME NEW list, NEW n \in Nat, DOMAIN list = 1..n, \A i \in 1..n : list[i].packets \in Int
  PROVE  IsSum(Packed(list), WindowSum(list))
<1> DEFINE S    == DOMAIN list
           F    == Packed(list)
           pick == [T \in SUBSET S |-> Max(T)]
           iter == CHOOSE g : WindowSteps(g, list)
<1>1. DOMAIN F = S /\ \A i \in S : F[i] = list[i].packets /\ F[i] \in Int
  BY DEF Packed
<1>2. IsFiniteSet(S)
  BY FS_Interval
<1>3. \A T \in SUBSET S : T # {} => pick[T] = Max(T) /\ pick[T] \in T
  BY MaxOfPart
<1>4. WindowSum(list) = iter[S]
  BY Zenon DEF WindowSum, FoldLeft, MapThenFoldSet, WindowSteps
<1> HIDE DEF F, pick, iter, S
<1>5. PICK g : PickedSteps(g, F, S, pick)
  <2>1. \A T \in SUBSET S : T # {} => pick[T] \in T
    BY <1>3
  <2> QED BY <1>2, <2>1, SumsExist
<1>6. \A T \in SUBSET S : g[T] \in Int
  <2>1. SumSteps(g, F, DOMAIN F)
    BY <1>1, <1>3, <1>5, PickedSum
  <2>2. IsFiniteSet(DOMAIN F) /\ \A x \in DOMAIN F : F[x] \in Int
    BY <1>1, <1>2
  <2>3. \A T \in SUBSET (DOMAIN F) : g[T] \in Int
    BY <2>1, <2>2, SumAnyFirst
  <2> QED BY <1>1, <2>3
<1>7. WindowSteps(g, list)
  <2>1. \A T \in SUBSET S : (IF T = {} THEN 0 ELSE F[pick[T]] + g[T \ {pick[T]}])
                = IF T = {} THEN 0 ELSE g[T \ {Max(T)}] + list[Max(T)].packets
    <3> SUFFICES ASSUME NEW T \in SUBSET S, T # {}
                 PROVE  F[pick[T]] + g[T \ {pick[T]}] = g[T \ {Max(T)}] + list[Max(T)].packets
      OBVIOUS
    <3>1. pick[T] = Max(T) /\ Max(T) \in S
      BY <1>3
    <3>2. F[Max(T)] = list[Max(T)].packets /\ F[Max(T)] \in Int
      BY <1>1, <3>1
    <3>3. g[T \ {Max(T)}] \in Int
      BY <1>6
    <3> QED BY <3>1, <3>2, <3>3
  <2> QED BY <1>5, <2>1 DEF PickedSteps, WindowSteps, S
<1>8. WindowSteps(iter, list)
  BY <1>7, Zenon DEF iter
<1>9. iter[{}] = 0
  BY <1>8 DEF WindowSteps
<1>10. ASSUME NEW T \in SUBSET S, T # {} PROVE iter[T] = iter[T \ {Max(T)}] + list[Max(T)].packets
  BY <1>8, <1>10 DEF WindowSteps, S
<1> DEFINE bad == {T \in SUBSET S : iter[T] \notin Int}
<1>11. bad = {}
  <2> SUFFICES ASSUME bad # {} PROVE FALSE
    OBVIOUS
  <2>1. PICK T \in bad : \A U \in SUBSET T : U # T => U \notin bad
    <3>1. bad \in SUBSET (SUBSET S)
      OBVIOUS
    <3> HIDE DEF bad
    <3> QED BY <1>2, <3>1, Smallest
  <2>2. T \in SUBSET S /\ iter[T] \notin Int
    OBVIOUS
  <2>3. T # {}
    <3>1. iter[{}] \in Int
      BY <1>9
    <3> QED BY <2>2, <3>1, Zenon
  <2>4. Max(T) \in T /\ list[Max(T)].packets \in Int
    BY <1>1, <1>3, <2>2, <2>3
  <2>5. iter[T \ {Max(T)}] \in Int
    BY <2>1, <2>2, <2>4
  <2>6. iter[T] = iter[T \ {Max(T)}] + list[Max(T)].packets
    BY <1>10, <2>2, <2>3, Zenon
  <2> QED BY <2>2, <2>4, <2>5, <2>6
<1>12. SumSteps(iter, F, S)
  <2>1. ASSUME NEW T \in SUBSET S, T # {} PROVE \E x \in T : iter[T] = F[x] + iter[T \ {x}]
    <3>1. Max(T) \in T /\ F[Max(T)] = list[Max(T)].packets /\ F[Max(T)] \in Int
      BY <1>1, <1>3, <2>1
    <3>2. iter[T \ {Max(T)}] \in Int
      BY <1>11
    <3>3. iter[T] = iter[T \ {Max(T)}] + list[Max(T)].packets
      BY <1>10, <2>1, Zenon
    <3>4. iter[T] = F[Max(T)] + iter[T \ {Max(T)}]
      BY <3>1, <3>2, <3>3
    <3> QED BY <3>1, <3>4
  <2> QED BY <1>9, <2>1 DEF SumSteps
<1> QED BY <1>1, <1>4, <1>12 DEF IsSum, F

\* No sum depends on the order.
LEMMA SumUnique ==
  ASSUME NEW F, IsFiniteSet(DOMAIN F), \A x \in DOMAIN F : F[x] \in Int,
         NEW a, IsSum(F, a), NEW b, IsSum(F, b)
  PROVE  a = b
<1>1. PICK f : SumSteps(f, F, DOMAIN F) /\ a = f[DOMAIN F]
  BY DEF IsSum
<1>2. PICK g : SumSteps(g, F, DOMAIN F) /\ b = g[DOMAIN F]
  BY DEF IsSum
<1>3. f[DOMAIN F] = g[DOMAIN F]
  <2>1. DOMAIN F \subseteq DOMAIN F /\ \A x \in DOMAIN F : F[x] = F[x]
    OBVIOUS
  <2> QED BY <1>1, <1>2, <2>1, SumsAgree
<1> QED BY <1>1, <1>2, <1>3
-----------------------------------------------------------------------------
(* What a recorded packet changes in a table.                              *)

\* Tables of counters, of hosts and of connections, as record_packet keeps them.
Counters == [packet_count : Nat, byte_count : Nat]
HostFields == {"packets_sent", "packets_received", "bytes_sent", "bytes_received", "connections"}
ConnectionFields == {"packet_count", "byte_count", "client_packets", "client_bytes",
                     "server_packets", "server_bytes", "start_time", "last_time", "app_protocol"}

CounterTable(table) ==
  IsFiniteSet(DOMAIN table) /\ \A k \in DOMAIN table : table[k] \in Counters

HostTable(table) ==
  IsFiniteSet(DOMAIN table) /\ \A h \in DOMAIN table : table[h] \in [HostFields -> Nat]

IsConnection(conn) ==
  /\ DOMAIN conn = ConnectionFields
  /\ conn.packet_count \in Nat /\ conn.client_packets \in Nat /\ conn.server_packets \in Nat
  /\ conn.byte_count \in Nat /\ conn.client_bytes \in Nat /\ conn.server_bytes \in Nat
  /\ conn.packet_count = conn.client_packets + conn.server_packets
  /\ conn.byte_count = conn.client_bytes + conn.server_bytes

ConnectionTable(table) ==
  IsFiniteSet(DOMAIN table) /\ \A c \in DOMAIN table : IsConnection(table[c])

\* An empty table is a table, and adds up to nothing.
LEMMA EmptyTable ==
  /\ CounterTable(<<>>) /\ HostTable(<<>>) /\ ConnectionTable(<<>>)
  /\ \A field : Total(<<>>, field) = 0
<1>1. DOMAIN <<>> = {} /\ IsFiniteSet({})
  BY FS_EmptySet
<1>2. ASSUME NEW field PROVE Total(<<>>, field) = 0
  <2>1. IsSum(Column(<<>>, field), Total(<<>>, field))
    BY <1>1, TotalIsSum
  <2>2. DOMAIN Column(<<>>, field) = {}
    BY <1>1 DEF Column
  <2> QED BY <2>1, <2>2 DEF IsSum, SumSteps
<1> QED BY <1>1, <1>2 DEF CounterTable, HostTable, ConnectionTable

\* A table with finitely many keys, and numbers in that field.
Countable(table, field) ==
  IsFiniteSet(DOMAIN table) /\ \A k \in DOMAIN table : table[k][field] \in Int

\* What a table has in that field for a key: nothing, when it does not have the key.
Count(table, key, field) == IF key \in DOMAIN table THEN table[key][field] ELSE 0

\* A new value for one key changes the total of a field by the difference.
LEMMA TotalUpdated ==
  ASSUME NEW table, NEW field, Countable(table, field),
         NEW key, NEW value, value[field] \in Int
  PROVE  /\ IsFiniteSet(DOMAIN Update(table, key, value))
         /\ DOMAIN Update(table, key, value) = DOMAIN table \cup {key}
         /\ Total(table, field) \in Int
         /\ Total(Update(table, key, value), field) =
              (Total(table, field) + value[field])
                - Count(table, key, field)
<1> USE DEF Countable, Count
<1> DEFINE F     == Column(table, field)
           after == Update(table, key, value)
           G     == Column(after, field)
<1>1. DOMAIN F = DOMAIN table /\ \A k \in DOMAIN table : F[k] = table[k][field]
  BY DEF Column
<1>2. DOMAIN after = DOMAIN table \cup {key} /\ after[key] = value
      /\ \A k \in DOMAIN table \ {key} : after[k] = table[k]
  BY DEF Update
<1>3. IsFiniteSet(DOMAIN after)
  BY <1>2, FS_AddElement
<1> HIDE DEF after
<1>4. DOMAIN G = DOMAIN table \cup {key} /\ G[key] = value[field]
      /\ \A k \in DOMAIN table \ {key} : G[k] = table[k][field]
  BY <1>2 DEF Column
<1>5. IsSum(F, Total(table, field)) /\ IsSum(G, Total(after, field))
  BY <1>3, TotalIsSum
<1> HIDE DEF F, G
<1>6. Differs(F, G, key)
  BY <1>1, <1>4 DEF Differs
<1>7. /\ Total(table, field) \in Int
      /\ Total(after, field) =
           (Total(table, field) + G[key]) - (IF key \in DOMAIN F THEN F[key] ELSE 0)
  BY <1>5, <1>6, SumUpdated
<1> QED BY <1>1, <1>2, <1>3, <1>4, <1>7 DEF after

\* One more packet, of that size.
LEMMA AddPacketIs ==
  ASSUME NEW table, CounterTable(table), NEW key, NEW size \in Nat
  PROVE  /\ CounterTable(AddPacket(table, key, size))
         /\ Total(table, "packet_count") \in Int /\ Total(table, "byte_count") \in Int
         /\ Total(AddPacket(table, key, size), "packet_count") = Total(table, "packet_count") + 1
         /\ Total(AddPacket(table, key, size), "byte_count") = Total(table, "byte_count") + size
<1> DEFINE old   == Lookup(table, key, [packet_count |-> 0, byte_count |-> 0])
           value == [packet_count |-> old.packet_count + 1, byte_count |-> old.byte_count + size]
<1>1. IsFiniteSet(DOMAIN table) /\ \A k \in DOMAIN table : table[k] \in Counters
  BY DEF CounterTable
<1>2. old \in Counters /\ (key \in DOMAIN table => old = table[key])
      /\ (key \notin DOMAIN table => old.packet_count = 0 /\ old.byte_count = 0)
  BY <1>1 DEF Lookup, Counters
<1>3. AddPacket(table, key, size) = Update(table, key, value)
  BY DEF AddPacket
<1> HIDE DEF old
<1>4. value \in Counters /\ value.packet_count = old.packet_count + 1
      /\ value.byte_count = old.byte_count + size
  BY <1>2 DEF Counters
<1>5. old.packet_count \in Int /\ old.byte_count \in Int /\ value["packet_count"] \in Int
      /\ value["byte_count"] \in Int
  BY <1>2, <1>4 DEF Counters
<1> HIDE DEF value
<1>6. Countable(table, "packet_count") /\ Countable(table, "byte_count")
  BY <1>1 DEF Counters, Countable
<1>7. /\ IsFiniteSet(DOMAIN Update(table, key, value))
      /\ DOMAIN Update(table, key, value) = DOMAIN table \cup {key}
      /\ Total(table, "packet_count") \in Int
      /\ Total(Update(table, key, value), "packet_count") =
           (Total(table, "packet_count") + value["packet_count"])
             - Count(table, key, "packet_count")
  BY <1>5, <1>6, TotalUpdated
<1>8. /\ Total(table, "byte_count") \in Int
      /\ Total(Update(table, key, value), "byte_count") =
           (Total(table, "byte_count") + value["byte_count"])
             - Count(table, key, "byte_count")
  BY <1>5, <1>6, TotalUpdated
<1>9. CounterTable(Update(table, key, value))
  <2>1. \A k \in DOMAIN table \cup {key} : Update(table, key, value)[k] \in Counters
    BY <1>1, <1>4 DEF Update
  <2> QED BY <1>7, <2>1 DEF CounterTable
<1>10. Total(Update(table, key, value), "packet_count") = Total(table, "packet_count") + 1
  BY <1>2, <1>4, <1>5, <1>7 DEF Count
<1>11. Total(Update(table, key, value), "byte_count") = Total(table, "byte_count") + size
  BY <1>2, <1>4, <1>5, <1>8 DEF Count
<1> QED BY <1>3, <1>7, <1>8, <1>9, <1>10, <1>11

\* after is before with count added to one field of a host.
Credited(before, after, host, field, count) ==
  /\ DOMAIN after = DOMAIN before \cup {host}
  /\ \A f \in HostFields :
       /\ Total(before, f) \in Int
       /\ Total(after, f) = Total(before, f) + (IF f = field THEN count ELSE 0)
  /\ \A h : /\ Count(before, h, "connections") \in Int
            /\ Count(after, h, "connections") =
                 Count(before, h, "connections")
                   + (IF h = host /\ field = "connections" THEN count ELSE 0)

\* Crediting a host adds to one field of its own, and to no other total.
LEMMA CreditIs ==
  ASSUME NEW table, HostTable(table), NEW host, NEW field \in HostFields, NEW count \in Nat
  PROVE  /\ HostTable(Credit(table, host, field, count))
         /\ Credited(table, Credit(table, host, field, count), host, field, count)
<1> DEFINE old   == Lookup(table, host, NewHost)
           value == [old EXCEPT ![field] = @ + count]
<1>1. IsFiniteSet(DOMAIN table) /\ \A h \in DOMAIN table : table[h] \in [HostFields -> Nat]
  BY DEF HostTable
<1>2. NewHost \in [HostFields -> Nat] /\ \A f \in HostFields : NewHost[f] = 0
  <2>1. NewHost = [f \in HostFields |-> 0]
    BY DEF NewHost, HostFields
  <2> QED BY <2>1
<1>3. old \in [HostFields -> Nat] /\ (host \in DOMAIN table => old = table[host])
      /\ (host \notin DOMAIN table => \A f \in HostFields : old[f] = 0)
  BY <1>1, <1>2 DEF Lookup
<1>4. Credit(table, host, field, count) = Update(table, host, value)
  BY DEF Credit
<1> HIDE DEF old
<1>5. value \in [HostFields -> Nat] /\ value[field] = old[field] + count
      /\ \A f \in HostFields : f # field => value[f] = old[f]
  BY <1>3
<1> HIDE DEF value
<1>6. ASSUME NEW f \in HostFields
      PROVE  /\ DOMAIN Update(table, host, value) = DOMAIN table \cup {host}
             /\ IsFiniteSet(DOMAIN Update(table, host, value))
             /\ Total(table, f) \in Int
             /\ Total(Update(table, host, value), f) =
                  Total(table, f) + (IF f = field THEN count ELSE 0)
  <2>1. value[f] \in Int /\ Countable(table, f)
    BY <1>1, <1>5 DEF Countable
  <2>2. /\ IsFiniteSet(DOMAIN Update(table, host, value))
        /\ DOMAIN Update(table, host, value) = DOMAIN table \cup {host}
        /\ Total(table, f) \in Int
        /\ Total(Update(table, host, value), f) =
             (Total(table, f) + value[f]) - Count(table, host, f)
    BY <2>1, TotalUpdated
  <2>3. value[f] = old[f] + (IF f = field THEN count ELSE 0) /\ old[f] \in Int
    BY <1>3, <1>5
  <2>4. Count(table, host, f) = old[f]
    BY <1>3 DEF Count
  <2> QED BY <2>2, <2>3, <2>4
<1>7. HostTable(Update(table, host, value))
  <2>1. \A h \in DOMAIN table \cup {host} : Update(table, host, value)[h] \in [HostFields -> Nat]
    BY <1>1, <1>5 DEF Update
  <2> QED BY <1>6, <2>1 DEF HostTable
<1>8. "connections" \in HostFields
  BY DEF HostFields
<1>9. ASSUME NEW h
      PROVE  /\ Count(table, h, "connections") \in Int
             /\ Count(Update(table, host, value), h, "connections") =
                  Count(table, h, "connections")
                    + (IF h = host /\ field = "connections" THEN count ELSE 0)
  <2> DEFINE after == Update(table, host, value)
  <2>1. Count(table, h, "connections") \in Int
    BY <1>1, <1>8 DEF Count
  <2>2. DOMAIN after = DOMAIN table \cup {host} /\ after[host] = value
        /\ \A k \in DOMAIN table \ {host} : after[k] = table[k]
    BY DEF Update
  <2> HIDE DEF after
  <2>3. CASE h = host
    <3>1. Count(after, h, "connections") = value["connections"]
      BY <2>2, <2>3 DEF Count
    <3>2. Count(table, h, "connections") = old["connections"]
      BY <1>3, <1>8, <2>3 DEF Count
    <3>3. value["connections"] = old["connections"] + (IF field = "connections" THEN count ELSE 0)
          /\ old["connections"] \in Int
      BY <1>3, <1>5, <1>8
    <3> QED BY <2>1, <2>3, <3>1, <3>2, <3>3 DEF after
  <2>4. CASE h # host
    <3>1. Count(after, h, "connections") = Count(table, h, "connections")
      BY <2>2, <2>4 DEF Count
    <3> QED BY <2>1, <2>4, <3>1 DEF after
  <2> QED BY <2>3, <2>4
<1>10. DOMAIN Update(table, host, value) = DOMAIN table \cup {host}
  BY DEF Update
<1> QED BY <1>4, <1>6, <1>7, <1>9, <1>10 DEF Credited
-----------------------------------------------------------------------------
(* The totals of hosts, connections and ports.                             *)

IsWaiting(request) ==
  \E p \in Packets : \E timestamp \in Nat : request = <<[packet |-> p, timestamp |-> timestamp]>>

\* Every thread has nothing to record, or a packet with its time.
RequestsOK ==
  /\ clock \in Nat /\ DOMAIN pending = Threads
  /\ \A t \in Threads : pending[t] = <<>> \/ IsWaiting(pending[t])

\* What a packet adds, if it has what is counted.
If(condition, n) == IF condition THEN n ELSE 0

\* What the model says of a packet.
LEMMA PacketIs ==
  ASSUME NEW p \in Packets
  PROVE  /\ p.total_length \in Nat /\ p.segment \in Nat /\ p.frame \in Nat /\ p.frame > 0
         /\ ~(Has(p, "tcp") /\ Has(p, "udp"))
         /\ Transported(p) => Has(p, "ip")
<1>1. /\ p.frame \in Nat \ {0} /\ p.total_length \in Nat /\ p.segment \in Nat
      /\ p.layers \subseteq {"ip", "tcp", "udp"} /\ Cardinality(p.layers \ {"ip"}) <= 1
      /\ p.layers # {} => "ip" \in p.layers
  BY StatisticsAssumption
<1>2. ASSUME "tcp" \in p.layers, "udp" \in p.layers PROVE FALSE
  <2>1. p.layers \ {"ip"} = {"tcp", "udp"}
    BY <1>1, <1>2
  <2>2. IsFiniteSet({"tcp"}) /\ Cardinality({"tcp"}) = 1
    BY FS_Singleton
  <2>3. "udp" \notin {"tcp"} /\ {"tcp"} \cup {"udp"} = {"tcp", "udp"}
    OBVIOUS
  <2>4. Cardinality({"tcp"} \cup {"udp"}) = 2
    BY <2>2, <2>3, FS_AddElement
  <2> QED BY <1>1, <2>1, <2>3, <2>4
<1> QED BY <1>1, <1>2 DEF Has, Transported

\* The requests stay well formed, whatever happens.
LEMMA RequestsStep ==
  ASSUME RequestsOK, [Next]_vars PROVE RequestsOK'
<1> USE DEF RequestsOK, IsWaiting
<1>1. CASE Tick
  BY <1>1 DEF Tick
<1>2. ASSUME NEW t \in Threads, NEW p \in Packets, Capture(t, p) PROVE RequestsOK'
  <2>1. PICK timestamp \in {clock} \cup Timestamps :
          pending' = [pending EXCEPT ![t] = <<[packet |-> p, timestamp |-> timestamp]>>]
    BY <1>2 DEF Capture
  <2>2. timestamp \in Nat /\ clock' = clock
    BY <1>2, StatisticsAssumption DEF Capture
  <2> QED BY <2>1, <2>2
<1>3. ASSUME NEW t \in Threads, Record(t) PROVE RequestsOK'
  <2>1. clock' = clock /\ pending' = [pending EXCEPT ![t] = <<>>]
    BY <1>3 DEF Record
  <2> QED BY <2>1
<1>4. CASE UNCHANGED <<clock, pending>>
  BY <1>4
<1> QED BY <1>1, <1>2, <1>3, <1>4 DEF Next, Reset, SetTimeWindow, vars

\* A thread records a packet with the time at which it got it.
LEMMA RecordsWaiting ==
  ASSUME RequestsOK, NEW t \in Threads, Record(t)
  PROVE  \E p \in Packets : \E timestamp \in Nat :
           /\ pending[t] = <<[packet |-> p, timestamp |-> timestamp]>>
           /\ RecordPacket(p, timestamp)
<1>1. PICK p \in Packets, timestamp \in Nat : pending[t] = <<[packet |-> p, timestamp |-> timestamp]>>
  BY DEF RequestsOK, IsWaiting, Record
<1>2. Head(pending[t]).packet = p /\ Head(pending[t]).timestamp = timestamp
  BY <1>1
<1>3. RecordPacket(p, timestamp)
  BY <1>2 DEF Record
<1> QED BY <1>1, <1>3

\* The protocol of an IP packet gains the packet.
LEMMA ProtocolsStep ==
  ASSUME CounterTable(ip_protos), NEW p \in Packets, RecordProtocols(p)
  PROVE  /\ CounterTable(ip_protos')
         /\ Total(ip_protos, "packet_count") \in Int /\ Total(ip_protos, "byte_count") \in Int
         /\ Total(ip_protos', "packet_count") = Total(ip_protos, "packet_count") + If(Has(p, "ip"), 1)
         /\ Total(ip_protos', "byte_count") =
              Total(ip_protos, "byte_count") + If(Has(p, "ip"), p.total_length)
<1> DEFINE after == AddPacket(ip_protos, p.proto, p.total_length)
<1>1. p.total_length \in Nat
  BY PacketIs
<1>2. /\ CounterTable(after)
      /\ Total(ip_protos, "packet_count") \in Int /\ Total(ip_protos, "byte_count") \in Int
      /\ Total(after, "packet_count") = Total(ip_protos, "packet_count") + 1
      /\ Total(after, "byte_count") = Total(ip_protos, "byte_count") + p.total_length
  BY <1>1, AddPacketIs
<1>3. ip_protos' = IF Has(p, "ip") THEN after ELSE ip_protos
  BY DEF RecordProtocols
<1> HIDE DEF after
<1>4. CASE Has(p, "ip")
  BY <1>2, <1>3, <1>4 DEF If
<1>5. CASE ~Has(p, "ip")
  BY <1>2, <1>3, <1>5 DEF If
<1> QED BY <1>4, <1>5

\* Both ports of a segment or datagram gain it: one port twice, if they are the same.
LEMMA BothPorts ==
  ASSUME NEW table, CounterTable(table), NEW p \in Packets
  PROVE  LET after == AddPacket(AddPacket(table, p.sport, p.segment), p.dport, p.segment)
         IN  /\ CounterTable(after)
             /\ Total(table, "packet_count") \in Int
             /\ Total(after, "packet_count") = Total(table, "packet_count") + 2
<1> DEFINE one == AddPacket(table, p.sport, p.segment)
           two == AddPacket(one, p.dport, p.segment)
<1>1. p.segment \in Nat
  BY PacketIs
<1>2. CounterTable(one) /\ Total(table, "packet_count") \in Int
      /\ Total(one, "packet_count") = Total(table, "packet_count") + 1
  BY <1>1, AddPacketIs
<1> HIDE DEF one
<1>3. CounterTable(two) /\ Total(two, "packet_count") = Total(one, "packet_count") + 1
  BY <1>1, <1>2, AddPacketIs
<1>4. Total(two, "packet_count") = Total(table, "packet_count") + 2
  BY <1>2, <1>3
<1> QED BY <1>2, <1>3, <1>4 DEF one

\* So the ports of both protocols together gain two for a packet with a transport layer.
LEMMA PortsStep ==
  ASSUME CounterTable(tcp_ports), CounterTable(udp_ports), NEW p \in Packets, RecordPorts(p)
  PROVE  /\ CounterTable(tcp_ports') /\ CounterTable(udp_ports')
         /\ Total(tcp_ports, "packet_count") \in Int /\ Total(udp_ports, "packet_count") \in Int
         /\ Total(tcp_ports', "packet_count") + Total(udp_ports', "packet_count") =
              (Total(tcp_ports, "packet_count") + Total(udp_ports, "packet_count"))
                + If(Transported(p), 2)
<1> DEFINE tcp == AddPacket(AddPacket(tcp_ports, p.sport, p.segment), p.dport, p.segment)
           udp == AddPacket(AddPacket(udp_ports, p.sport, p.segment), p.dport, p.segment)
<1>1. CounterTable(tcp) /\ Total(tcp_ports, "packet_count") \in Int
      /\ Total(tcp, "packet_count") = Total(tcp_ports, "packet_count") + 2
  BY BothPorts
<1>2. CounterTable(udp) /\ Total(udp_ports, "packet_count") \in Int
      /\ Total(udp, "packet_count") = Total(udp_ports, "packet_count") + 2
  BY BothPorts
<1>3. tcp_ports' = (IF Has(p, "tcp") THEN tcp ELSE tcp_ports)
      /\ udp_ports' = (IF Has(p, "udp") THEN udp ELSE udp_ports)
  BY DEF RecordPorts
<1> HIDE DEF tcp, udp
<1>4. ~(Has(p, "tcp") /\ Has(p, "udp"))
  BY PacketIs
<1>5. CASE Has(p, "tcp")
  BY <1>1, <1>2, <1>3, <1>4, <1>5 DEF If, Transported
<1>6. CASE Has(p, "udp")
  BY <1>1, <1>2, <1>3, <1>4, <1>6 DEF If, Transported
<1>7. CASE ~Has(p, "tcp") /\ ~Has(p, "udp")
  BY <1>1, <1>2, <1>3, <1>7 DEF If, Transported
<1> QED BY <1>5, <1>6, <1>7

\* A packet makes a connection of a connection.
LEMMA ConnectionCounted ==
  ASSUME NEW conn, IsConnection(conn), NEW p \in Packets, NEW timestamp
  PROVE  /\ IsConnection(ConnectionAfter(conn, p, timestamp))
         /\ ConnectionAfter(conn, p, timestamp).packet_count = conn.packet_count + 1
<1> DEFINE counted == [conn EXCEPT !.packet_count = @ + 1, !.byte_count = @ + p.total_length,
                                   !.last_time = timestamp, !.app_protocol = p.app]
<1>1. p.total_length \in Nat
  BY PacketIs
<1>2. /\ DOMAIN counted = ConnectionFields
      /\ counted.packet_count = conn.packet_count + 1
      /\ counted.byte_count = conn.byte_count + p.total_length
      /\ counted.client_packets = conn.client_packets /\ counted.client_bytes = conn.client_bytes
      /\ counted.server_packets = conn.server_packets /\ counted.server_bytes = conn.server_bytes
  BY DEF IsConnection, ConnectionFields
<1>3. ConnectionAfter(conn, p, timestamp) =
        IF IsClientSide(p)
        THEN [counted EXCEPT !.client_packets = @ + 1, !.client_bytes = @ + p.total_length]
        ELSE [counted EXCEPT !.server_packets = @ + 1, !.server_bytes = @ + p.total_length]
  BY DEF ConnectionAfter
<1> HIDE DEF counted
<1>4. CASE IsClientSide(p)
  <2> DEFINE after == [counted EXCEPT !.client_packets = @ + 1, !.client_bytes = @ + p.total_length]
  <2>1. /\ DOMAIN after = ConnectionFields
        /\ after.packet_count = conn.packet_count + 1
        /\ after.byte_count = conn.byte_count + p.total_length
        /\ after.client_packets = conn.client_packets + 1
        /\ after.client_bytes = conn.client_bytes + p.total_length
        /\ after.server_packets = conn.server_packets /\ after.server_bytes = conn.server_bytes
    BY <1>2 DEF ConnectionFields
  <2>2. ConnectionAfter(conn, p, timestamp) = after
    BY <1>3, <1>4
  <2> HIDE DEF after
  <2> QED BY <1>1, <2>1, <2>2 DEF IsConnection
<1>5. CASE ~IsClientSide(p)
  <2> DEFINE after == [counted EXCEPT !.server_packets = @ + 1, !.server_bytes = @ + p.total_length]
  <2>1. /\ DOMAIN after = ConnectionFields
        /\ after.packet_count = conn.packet_count + 1
        /\ after.byte_count = conn.byte_count + p.total_length
        /\ after.client_packets = conn.client_packets /\ after.client_bytes = conn.client_bytes
        /\ after.server_packets = conn.server_packets + 1
        /\ after.server_bytes = conn.server_bytes + p.total_length
    BY <1>2 DEF ConnectionFields
  <2>2. ConnectionAfter(conn, p, timestamp) = after
    BY <1>3, <1>5
  <2> HIDE DEF after
  <2> QED BY <1>1, <2>1, <2>2 DEF IsConnection
<1> QED BY <1>4, <1>5

\* A connection of a packet with a transport layer gains the packet.
LEMMA ConnectionsStep ==
  ASSUME ConnectionTable(connections), NEW p \in Packets, NEW timestamp,
         RecordConnection(p, timestamp)
  PROVE  /\ ConnectionTable(connections')
         /\ Total(connections, "packet_count") \in Int
         /\ Total(connections', "packet_count") =
              Total(connections, "packet_count") + If(Transported(p), 1)
<1> DEFINE key   == FiveTuple(p)
           new   == [NewConnection EXCEPT !.start_time = timestamp]
           conn  == Lookup(connections, key, new)
           value == ConnectionAfter(conn, p, timestamp)
<1>1. connections' = IF Transported(p) THEN Update(connections, key, value) ELSE connections
  BY DEF RecordConnection
<1>2. IsConnection(new) /\ new.packet_count = 0
  BY DEF NewConnection, IsConnection, ConnectionFields
<1>3. IsFiniteSet(DOMAIN connections) /\ \A c \in DOMAIN connections : IsConnection(connections[c])
  BY DEF ConnectionTable
<1> HIDE DEF key, new
<1>4. IsConnection(conn) /\ conn.packet_count = Count(connections, key, "packet_count")
  BY <1>2, <1>3 DEF Lookup, Count
<1> HIDE DEF conn
<1>5. IsConnection(value) /\ value.packet_count = conn.packet_count + 1
  BY <1>4, ConnectionCounted
<1> HIDE DEF value
<1>6. value["packet_count"] \in Int /\ Countable(connections, "packet_count")
      /\ conn.packet_count \in Nat
  BY <1>3, <1>4, <1>5 DEF Countable, IsConnection
<1>7. /\ IsFiniteSet(DOMAIN Update(connections, key, value))
      /\ DOMAIN Update(connections, key, value) = DOMAIN connections \cup {key}
      /\ Total(connections, "packet_count") \in Int
      /\ Total(Update(connections, key, value), "packet_count") =
           (Total(connections, "packet_count") + value["packet_count"])
             - Count(connections, key, "packet_count")
  BY <1>6, TotalUpdated
<1>8. \A c \in DOMAIN connections \cup {key} : IsConnection(Update(connections, key, value)[c])
  BY <1>3, <1>5 DEF Update
<1>9. CASE Transported(p)
  <2>1. connections' = Update(connections, key, value)
    BY <1>1, <1>9
  <2>2. ConnectionTable(connections')
    BY <1>7, <1>8, <2>1 DEF ConnectionTable
  <2>3. Total(connections', "packet_count") = Total(connections, "packet_count") + 1
    BY <1>4, <1>5, <1>6, <1>7, <2>1
  <2> QED BY <1>7, <1>9, <2>2, <2>3 DEF If
<1>10. CASE ~Transported(p)
  BY <1>1, <1>7, <1>10 DEF If
<1> QED BY <1>9, <1>10

\* An IP packet is sent by one host and received by one, and a new connection is credited
\* to the two.
LEMMA HostsStep ==
  ASSUME HostTable(hosts), NEW p \in Packets, RecordHosts(p)
  PROVE  /\ HostTable(hosts')
         /\ \A f \in HostFields : Total(hosts, f) \in Int
         /\ Total(hosts', "packets_sent") = Total(hosts, "packets_sent") + If(Has(p, "ip"), 1)
         /\ Total(hosts', "packets_received") =
              Total(hosts, "packets_received") + If(Has(p, "ip"), 1)
         /\ Total(hosts', "bytes_sent") = Total(hosts, "bytes_sent") + If(Has(p, "ip"), p.total_length)
         /\ Total(hosts', "bytes_received") =
              Total(hosts, "bytes_received") + If(Has(p, "ip"), p.total_length)
         /\ DOMAIN hosts' = IF Has(p, "ip") THEN DOMAIN hosts \cup {p.src, p.dst} ELSE DOMAIN hosts
         /\ \A h :
              Count(hosts', h, "connections") =
                Count(hosts, h, "connections")
                  + (If(Has(p, "ip") /\ IsNewConnection(p) /\ h = p.src, 1)
                       + If(Has(p, "ip") /\ IsNewConnection(p) /\ h = p.dst, 1))
<1> DEFINE new == If(IsNewConnection(p), 1)
           a == Credit(hosts, p.src, "connections", new)
           b == Credit(a, p.dst, "connections", new)
           c == Credit(b, p.src, "packets_sent", 1)
           d == Credit(c, p.src, "bytes_sent", p.total_length)
           e == Credit(d, p.dst, "packets_received", 1)
           g == Credit(e, p.dst, "bytes_received", p.total_length)
<1>1. hosts' = IF Has(p, "ip") THEN g ELSE hosts
  BY DEF RecordHosts, If
<1>2. new \in Nat /\ p.total_length \in Nat /\ 1 \in Nat
  BY PacketIs DEF If
<1>3. /\ "connections" \in HostFields /\ "packets_sent" \in HostFields
      /\ "packets_received" \in HostFields /\ "bytes_sent" \in HostFields
      /\ "bytes_received" \in HostFields
  BY DEF HostFields
<1> HIDE DEF new
<1>4. HostTable(a) /\ Credited(hosts, a, p.src, "connections", new)
  BY <1>2, <1>3, CreditIs
<1> HIDE DEF a
<1>5. HostTable(b) /\ Credited(a, b, p.dst, "connections", new)
  BY <1>2, <1>3, <1>4, CreditIs
<1> HIDE DEF b
<1>6. HostTable(c) /\ Credited(b, c, p.src, "packets_sent", 1)
  BY <1>2, <1>3, <1>5, CreditIs
<1> HIDE DEF c
<1>7. HostTable(d) /\ Credited(c, d, p.src, "bytes_sent", p.total_length)
  BY <1>2, <1>3, <1>6, CreditIs
<1> HIDE DEF d
<1>8. HostTable(e) /\ Credited(d, e, p.dst, "packets_received", 1)
  BY <1>2, <1>3, <1>7, CreditIs
<1> HIDE DEF e
<1>9. HostTable(g) /\ Credited(e, g, p.dst, "bytes_received", p.total_length)
  BY <1>2, <1>3, <1>8, CreditIs
<1> HIDE DEF g
<1>10. DOMAIN g = DOMAIN hosts \cup {p.src, p.dst}
  BY <1>4, <1>5, <1>6, <1>7, <1>8, <1>9 DEF Credited
<1>11. /\ Total(g, "packets_sent") = Total(hosts, "packets_sent") + 1
       /\ Total(g, "packets_received") = Total(hosts, "packets_received") + 1
  BY <1>2, <1>3, <1>4, <1>5, <1>6, <1>7, <1>8, <1>9 DEF Credited
<1>12. /\ Total(g, "bytes_sent") = Total(hosts, "bytes_sent") + p.total_length
       /\ Total(g, "bytes_received") = Total(hosts, "bytes_received") + p.total_length
  BY <1>2, <1>3, <1>4, <1>5, <1>6, <1>7, <1>8, <1>9 DEF Credited
<1>13. ASSUME NEW h
       PROVE  Count(g, h, "connections") = Count(hosts, h, "connections")
                + (If(IsNewConnection(p) /\ h = p.src, 1) + If(IsNewConnection(p) /\ h = p.dst, 1))
  <2> DEFINE n == Count(hosts, h, "connections")
  <2>1. /\ n \in Int
        /\ Count(a, h, "connections") = n + (IF h = p.src THEN new ELSE 0)
        /\ Count(a, h, "connections") \in Int
    BY <1>4, <1>5 DEF Credited
  <2>2. /\ Count(b, h, "connections") = Count(a, h, "connections") + (IF h = p.dst THEN new ELSE 0)
        /\ Count(b, h, "connections") \in Int
    BY <1>5, <1>6 DEF Credited
  <2>3. Count(g, h, "connections") = Count(b, h, "connections")
    BY <1>6, <1>7, <1>8, <1>9, <2>2 DEF Credited
  <2> HIDE DEF n
  <2> QED BY <2>1, <2>2, <2>3 DEF n, new, If
<1>14. CASE Has(p, "ip")
  <2>1. hosts' = g
    BY <1>1, <1>14
  <2> QED BY <1>4, <1>9, <1>10, <1>11, <1>12, <1>13, <1>14, <2>1 DEF If, Credited
<1>15. CASE ~Has(p, "ip")
  <2>1. hosts' = hosts
    BY <1>1, <1>15
  <2>2. (\A f \in HostFields : Total(hosts, f) \in Int)
        /\ \A h : Count(hosts, h, "connections") \in Int
    BY <1>4 DEF Credited
  <2> QED BY <1>3, <1>15, <2>1, <2>2 DEF If
<1> QED BY <1>14, <1>15

\* What a step does to the tables.
LEMMA TablesStep ==
  ASSUME RequestsOK, [Next]_vars
  PROVE  \/ UNCHANGED <<global, protocols, connections, hosts>>
         \/ \E p \in Packets : \E timestamp \in Nat : RecordPacket(p, timestamp)
         \/ Reset
<1>1. ASSUME NEW t \in Threads, Record(t)
      PROVE  \E p \in Packets : \E timestamp \in Nat : RecordPacket(p, timestamp)
  BY <1>1, RecordsWaiting
<1>2. ASSUME NEW t \in Threads, NEW p \in Packets, Capture(t, p)
      PROVE  UNCHANGED <<global, protocols, connections, hosts>>
  BY <1>2 DEF Capture, tables
<1>3. Tick \/ SetTimeWindow \/ UNCHANGED vars => UNCHANGED <<global, protocols, connections, hosts>>
  BY DEF Tick, SetTimeWindow, vars, tables
<1> QED BY <1>1, <1>2, <1>3 DEF Next

HostsInv ==
  RequestsOK /\ CounterTable(ip_protos) /\ HostTable(hosts) /\ HostsBalance

TransportInv ==
  RequestsOK /\ CounterTable(tcp_ports) /\ CounterTable(udp_ports)
    /\ ConnectionTable(connections) /\ TransportBalance

\* The statistics start out empty, and their totals agree.
LEMMA TotalsInit ==
  Init => HostsInv /\ TransportInv
<1> SUFFICES ASSUME Init PROVE HostsInv /\ TransportInv
  OBVIOUS
<1>1. RequestsOK
  BY DEF Init, RequestsOK
<1>2. DOMAIN connections = {} /\ Total(connections, "packet_count") = 0
  BY EmptyTable DEF Init
<1>3. HostsBalance
  BY EmptyTable DEF Init, HostsBalance
<1>4. TransportBalance
  BY <1>2, EmptyTable DEF Init, TransportBalance
<1> QED BY <1>1, <1>3, <1>4, EmptyTable DEF Init, HostsInv, TransportInv

\* The totals of the hosts follow those of the protocols in every step.
LEMMA HostsInvStep ==
  HostsInv /\ [Next]_vars => HostsInv'
<1> SUFFICES ASSUME HostsInv, [Next]_vars PROVE HostsInv'
  OBVIOUS
<1> USE DEF HostsInv
<1>1. RequestsOK'
  BY RequestsStep
<1>2. CASE UNCHANGED <<global, protocols, connections, hosts>>
  BY <1>1, <1>2 DEF protocols, HostsBalance
<1>3. ASSUME NEW p \in Packets, NEW timestamp \in Nat, RecordPacket(p, timestamp)
      PROVE  HostsInv'
  <2>1. RecordProtocols(p) /\ RecordHosts(p)
    BY <1>3 DEF RecordPacket
  <2>2. /\ CounterTable(ip_protos')
        /\ Total(ip_protos, "packet_count") \in Int /\ Total(ip_protos, "byte_count") \in Int
        /\ Total(ip_protos', "packet_count") = Total(ip_protos, "packet_count") + If(Has(p, "ip"), 1)
        /\ Total(ip_protos', "byte_count") =
             Total(ip_protos, "byte_count") + If(Has(p, "ip"), p.total_length)
    BY <2>1, ProtocolsStep
  <2>3. /\ HostTable(hosts')
        /\ Total(hosts', "packets_sent") = Total(hosts, "packets_sent") + If(Has(p, "ip"), 1)
        /\ Total(hosts', "packets_received") =
             Total(hosts, "packets_received") + If(Has(p, "ip"), 1)
        /\ Total(hosts', "bytes_sent") = Total(hosts, "bytes_sent") + If(Has(p, "ip"), p.total_length)
        /\ Total(hosts', "bytes_received") =
             Total(hosts, "bytes_received") + If(Has(p, "ip"), p.total_length)
    BY <2>1, HostsStep
  <2>4. HostsBalance'
    BY <2>2, <2>3 DEF HostsBalance
  <2> QED BY <1>1, <2>2, <2>3, <2>4
<1>4. CASE Reset
  <2>1. hosts' = <<>> /\ ip_protos' = <<>>
    BY <1>4 DEF Reset
  <2> QED BY <1>1, <2>1, EmptyTable DEF HostsBalance
<1> QED BY <1>2, <1>3, <1>4, TablesStep

\* HostsBalance, for any packets, threads and bounds: the packets and bytes that hosts sent,
\* those they received and those of the protocol table add up to the same.
THEOREM HostsAgreeWithProtocols == Spec => []HostsBalance
<1>1. HostsInv => HostsBalance
  BY DEF HostsInv
<1>2. Init => HostsInv
  BY TotalsInit
<1> QED BY <1>1, <1>2, HostsInvStep, PTL DEF Spec

\* Connections and ports gain what they should in every step.
LEMMA TransportInvStep ==
  TransportInv /\ [Next]_vars => TransportInv'
<1> SUFFICES ASSUME TransportInv, [Next]_vars PROVE TransportInv'
  OBVIOUS
<1> USE DEF TransportInv
<1>1. RequestsOK'
  BY RequestsStep
<1>2. CASE UNCHANGED <<global, protocols, connections, hosts>>
  BY <1>1, <1>2 DEF protocols, TransportBalance
<1>3. ASSUME NEW p \in Packets, NEW timestamp \in Nat, RecordPacket(p, timestamp)
      PROVE  TransportInv'
  <2>1. RecordConnection(p, timestamp) /\ RecordPorts(p)
    BY <1>3 DEF RecordPacket
  <2>2. /\ ConnectionTable(connections')
        /\ Total(connections, "packet_count") \in Int
        /\ Total(connections', "packet_count") =
             Total(connections, "packet_count") + If(Transported(p), 1)
    BY <2>1, ConnectionsStep
  <2>3. /\ CounterTable(tcp_ports') /\ CounterTable(udp_ports')
        /\ Total(tcp_ports, "packet_count") \in Int /\ Total(udp_ports, "packet_count") \in Int
        /\ Total(tcp_ports', "packet_count") + Total(udp_ports', "packet_count") =
             (Total(tcp_ports, "packet_count") + Total(udp_ports, "packet_count"))
               + If(Transported(p), 2)
    BY <2>1, PortsStep
  <2>4. 2 * Total(connections, "packet_count") =
          Total(tcp_ports, "packet_count") + Total(udp_ports, "packet_count")
    BY DEF TransportBalance
  <2>5. 2 * Total(connections', "packet_count") =
          Total(tcp_ports', "packet_count") + Total(udp_ports', "packet_count")
    BY <2>2, <2>3, <2>4 DEF If
  <2>6. ASSUME NEW c \in DOMAIN connections'
        PROVE  /\ connections'[c].packet_count =
                    connections'[c].client_packets + connections'[c].server_packets
               /\ connections'[c].byte_count =
                    connections'[c].client_bytes + connections'[c].server_bytes
    BY <2>2 DEF ConnectionTable, IsConnection
  <2>7. TransportBalance'
    BY <2>5, <2>6 DEF TransportBalance
  <2> QED BY <1>1, <2>2, <2>3, <2>7
<1>4. CASE Reset
  <2>1. connections' = <<>> /\ tcp_ports' = <<>> /\ udp_ports' = <<>>
    BY <1>4 DEF Reset
  <2>2. DOMAIN <<>> = {}
    OBVIOUS
  <2>3. TransportBalance'
    BY <2>1, <2>2, EmptyTable DEF TransportBalance
  <2> QED BY <1>1, <2>1, <2>3, EmptyTable
<1> QED BY <1>2, <1>3, <1>4, TablesStep

\* TransportBalance, for any packets, threads and bounds: the two directions of a connection
\* add up to it, and the port tables count every packet of the connection table twice.
THEOREM ConnectionsAgreeWithPorts == Spec => []TransportBalance
<1>1. TransportInv => TransportBalance
  BY DEF TransportInv
<1>2. Init => TransportInv
  BY TotalsInit
<1> QED BY <1>1, <1>2, TransportInvStep, PTL DEF Spec
-----------------------------------------------------------------------------
(* Each connection is credited to its two hosts.                           *)

\* The connections with that host at one end.
ClientsOf(table, h) == {c \in DOMAIN table : c.client[1] = h}
ServersOf(table, h) == {c \in DOMAIN table : c.server[1] = h}

\* The balance of every address, those that are no hosts yet included: no connection has
\* them at an end.
ConnectionsInv ==
  /\ RequestsOK /\ HostTable(hosts) /\ ConnectionTable(connections)
  /\ \A h : Count(hosts, h, "connections") =
              Cardinality(ClientsOf(connections, h)) + Cardinality(ServersOf(connections, h))

\* A new key adds itself to what its ends have.
LEMMA EndsOfNew ==
  ASSUME NEW before, IsFiniteSet(DOMAIN before), NEW after, NEW key,
         DOMAIN after = DOMAIN before \cup {key}, NEW h
  PROVE  /\ Cardinality(ClientsOf(before, h)) \in Nat /\ Cardinality(ServersOf(before, h)) \in Nat
         /\ Cardinality(ClientsOf(after, h)) =
              Cardinality(ClientsOf(before, h)) + If(key \notin DOMAIN before /\ key.client[1] = h, 1)
         /\ Cardinality(ServersOf(after, h)) =
              Cardinality(ServersOf(before, h)) + If(key \notin DOMAIN before /\ key.server[1] = h, 1)
<1>1. IsFiniteSet(ClientsOf(before, h)) /\ IsFiniteSet(ServersOf(before, h))
  BY FS_Subset DEF ClientsOf, ServersOf
<1>2. Cardinality(ClientsOf(before, h)) \in Nat /\ Cardinality(ServersOf(before, h)) \in Nat
  BY <1>1, FS_CardinalityType
<1>3. Cardinality(ClientsOf(after, h)) =
        Cardinality(ClientsOf(before, h)) + If(key \notin DOMAIN before /\ key.client[1] = h, 1)
  <2>1. CASE key \notin DOMAIN before /\ key.client[1] = h
    <3>1. ClientsOf(after, h) = ClientsOf(before, h) \cup {key} /\ key \notin ClientsOf(before, h)
      BY <2>1 DEF ClientsOf
    <3>2. Cardinality(ClientsOf(before, h) \cup {key}) = Cardinality(ClientsOf(before, h)) + 1
      BY <1>1, <3>1, FS_AddElement
    <3> QED BY <2>1, <3>1, <3>2 DEF If
  <2>2. CASE ~(key \notin DOMAIN before /\ key.client[1] = h)
    <3>1. ClientsOf(after, h) = ClientsOf(before, h)
      BY <2>2 DEF ClientsOf
    <3> QED BY <1>2, <2>2, <3>1 DEF If
  <2> QED BY <2>1, <2>2
<1>4. Cardinality(ServersOf(after, h)) =
        Cardinality(ServersOf(before, h)) + If(key \notin DOMAIN before /\ key.server[1] = h, 1)
  <2>1. CASE key \notin DOMAIN before /\ key.server[1] = h
    <3>1. ServersOf(after, h) = ServersOf(before, h) \cup {key} /\ key \notin ServersOf(before, h)
      BY <2>1 DEF ServersOf
    <3>2. Cardinality(ServersOf(before, h) \cup {key}) = Cardinality(ServersOf(before, h)) + 1
      BY <1>1, <3>1, FS_AddElement
    <3> QED BY <2>1, <3>1, <3>2 DEF If
  <2>2. CASE ~(key \notin DOMAIN before /\ key.server[1] = h)
    <3>1. ServersOf(after, h) = ServersOf(before, h)
      BY <2>2 DEF ServersOf
    <3> QED BY <1>2, <2>2, <3>1 DEF If
  <2> QED BY <2>1, <2>2
<1> QED BY <1>2, <1>3, <1>4

\* The ends of a packet's connection are its source and its destination.
LEMMA EndsAreHosts ==
  ASSUME NEW p
  PROVE  \/ FiveTuple(p).client[1] = p.src /\ FiveTuple(p).server[1] = p.dst
         \/ FiveTuple(p).client[1] = p.dst /\ FiveTuple(p).server[1] = p.src
  BY DEF FiveTuple

\* Nobody has a connection at the start.
LEMMA NoConnections ==
  \A h : Count(<<>>, h, "connections") =
           Cardinality(ClientsOf(<<>>, h)) + Cardinality(ServersOf(<<>>, h))
<1> TAKE h
<1>1. DOMAIN <<>> = {}
  OBVIOUS
<1>2. ClientsOf(<<>>, h) = {} /\ ServersOf(<<>>, h) = {} /\ Count(<<>>, h, "connections") = 0
  BY <1>1 DEF ClientsOf, ServersOf, Count
<1> QED BY <1>2, FS_EmptySet

\* A step credits a new connection to both its ends.
LEMMA ConnectionsInvStep ==
  ConnectionsInv /\ [Next]_vars => ConnectionsInv'
<1> SUFFICES ASSUME ConnectionsInv, [Next]_vars PROVE ConnectionsInv'
  OBVIOUS
<1> USE DEF ConnectionsInv
<1>1. RequestsOK'
  BY RequestsStep
<1>2. CASE UNCHANGED <<global, protocols, connections, hosts>>
  BY <1>1, <1>2
<1>3. ASSUME NEW p \in Packets, NEW timestamp \in Nat, RecordPacket(p, timestamp)
      PROVE  ConnectionsInv'
  <2> DEFINE key == FiveTuple(p)
  <2>1. RecordConnection(p, timestamp) /\ RecordHosts(p)
    BY <1>3 DEF RecordPacket
  <2>2. ConnectionTable(connections')
    BY <2>1, ConnectionsStep
  <2>3. /\ HostTable(hosts')
        /\ \A h : Count(hosts', h, "connections") =
             Count(hosts, h, "connections")
               + (If(Has(p, "ip") /\ IsNewConnection(p) /\ h = p.src, 1)
                    + If(Has(p, "ip") /\ IsNewConnection(p) /\ h = p.dst, 1))
    BY <2>1, HostsStep
  <2>4. Transported(p) => Has(p, "ip")
    BY PacketIs
  <2>5. \/ key.client[1] = p.src /\ key.server[1] = p.dst
        \/ key.client[1] = p.dst /\ key.server[1] = p.src
    BY EndsAreHosts
  <2>6. IsFiniteSet(DOMAIN connections)
    BY DEF ConnectionTable
  <2>7. IsNewConnection(p) <=> Transported(p) /\ key \notin DOMAIN connections
    BY DEF IsNewConnection
  <2>8. DOMAIN connections' = IF Transported(p) THEN DOMAIN connections \cup {key}
                                                ELSE DOMAIN connections
    BY <2>1 DEF RecordConnection, Update
  <2> HIDE DEF key
  <2>9. ASSUME NEW h
        PROVE  Count(hosts', h, "connections") =
                 Cardinality(ClientsOf(connections', h)) + Cardinality(ServersOf(connections', h))
    <3> DEFINE clients == Cardinality(ClientsOf(connections, h))
               servers == Cardinality(ServersOf(connections, h))
    <3>1. Count(hosts, h, "connections") = clients + servers
      OBVIOUS
    <3>2. clients \in Nat /\ servers \in Nat
      <4>1. IsFiniteSet(ClientsOf(connections, h)) /\ IsFiniteSet(ServersOf(connections, h))
        BY <2>6, FS_Subset DEF ClientsOf, ServersOf
      <4> QED BY <4>1, FS_CardinalityType
    <3>3. CASE Transported(p)
      <4>1. DOMAIN connections' = DOMAIN connections \cup {key}
        BY <2>8, <3>3
      <4>2. /\ Cardinality(ClientsOf(connections', h)) =
                 clients + If(key \notin DOMAIN connections /\ key.client[1] = h, 1)
            /\ Cardinality(ServersOf(connections', h)) =
                 servers + If(key \notin DOMAIN connections /\ key.server[1] = h, 1)
        BY <2>6, <4>1, EndsOfNew
      <4> HIDE DEF clients, servers
      <4>3. Count(hosts', h, "connections") = (clients + servers)
              + (If(key \notin DOMAIN connections /\ h = p.src, 1)
                   + If(key \notin DOMAIN connections /\ h = p.dst, 1))
        BY <2>3, <2>4, <2>7, <3>1, <3>3 DEF If
      <4> QED BY <2>5, <3>2, <4>2, <4>3 DEF If
    <3>4. CASE ~Transported(p)
      <4>1. DOMAIN connections' = DOMAIN connections
        BY <2>8, <3>4
      <4>2. ClientsOf(connections', h) = ClientsOf(connections, h)
            /\ ServersOf(connections', h) = ServersOf(connections, h)
        BY <4>1 DEF ClientsOf, ServersOf
      <4> HIDE DEF clients, servers
      <4>3. Count(hosts', h, "connections") = (clients + servers) + (0 + 0)
        BY <2>3, <2>7, <3>1, <3>4 DEF If
      <4> QED BY <3>2, <4>2, <4>3 DEF clients, servers
    <3> QED BY <3>3, <3>4
  <2> QED BY <1>1, <2>2, <2>3, <2>9
<1>4. CASE Reset
  <2>1. hosts' = <<>> /\ connections' = <<>>
    BY <1>4 DEF Reset
  <2> QED BY <1>1, <2>1, EmptyTable, NoConnections
<1> QED BY <1>2, <1>3, <1>4, TablesStep

\* The connections of a host are those it is the one end of or the other.
LEMMA EndsTogether ==
  ASSUME ConnectionTable(connections), NEW h
  PROVE  /\ IsFiniteSet(ClientsOf(connections, h)) /\ IsFiniteSet(ServersOf(connections, h))
         /\ ConnectionsOf(h) = ClientsOf(connections, h) \cup ServersOf(connections, h)
         /\ ~TalksToItself(h) => ClientsOf(connections, h) \cap ServersOf(connections, h) = {}
<1>1. IsFiniteSet(DOMAIN connections)
  BY DEF ConnectionTable
<1> QED BY <1>1, FS_Subset DEF ClientsOf, ServersOf, ConnectionsOf, TalksToItself

\* ConnectionsCredited, for any packets, threads and bounds: the ends of a connection are hosts,
\* and a host without a connection with itself is credited with as many as it has.
THEOREM ConnectionsCreditedOnce == Spec => []ConnectionsCredited
<1>1. Init => ConnectionsInv
  <2> SUFFICES ASSUME Init PROVE ConnectionsInv
    OBVIOUS
  <2>1. RequestsOK /\ hosts = <<>> /\ connections = <<>>
    BY DEF Init, RequestsOK
  <2> QED BY <2>1, EmptyTable, NoConnections DEF ConnectionsInv
<1>2. ConnectionsInv => ConnectionsCredited
  <2> SUFFICES ASSUME ConnectionsInv PROVE ConnectionsCredited
    OBVIOUS
  <2>1. ConnectionTable(connections)
    BY DEF ConnectionsInv
  <2>2. ASSUME NEW h
        PROVE  /\ Cardinality(ClientsOf(connections, h)) \in Nat
               /\ Cardinality(ServersOf(connections, h)) \in Nat
               /\ Count(hosts, h, "connections") =
                    Cardinality(ClientsOf(connections, h)) + Cardinality(ServersOf(connections, h))
    <3>1. IsFiniteSet(ClientsOf(connections, h)) /\ IsFiniteSet(ServersOf(connections, h))
      BY <2>1, EndsTogether
    <3> QED BY <3>1, FS_CardinalityType DEF ConnectionsInv
  <2>3. ASSUME NEW c \in DOMAIN connections, NEW h \in {c.client[1], c.server[1]}
        PROVE  h \in DOMAIN hosts
    <3> SUFFICES ASSUME h \notin DOMAIN hosts PROVE FALSE
      OBVIOUS
    <3>1. Count(hosts, h, "connections") = 0
      BY DEF Count
    <3>2. Cardinality(ClientsOf(connections, h)) = 0 /\ Cardinality(ServersOf(connections, h)) = 0
      BY <2>2, <3>1
    <3>3. ClientsOf(connections, h) = {} /\ ServersOf(connections, h) = {}
      BY <2>1, <3>2, EndsTogether, FS_EmptySet
    <3> QED BY <2>3, <3>3 DEF ClientsOf, ServersOf
  <2>4. ASSUME NEW h \in DOMAIN hosts, ~TalksToItself(h)
        PROVE  hosts[h].connections = Cardinality(ConnectionsOf(h))
    <3> DEFINE clients == ClientsOf(connections, h)
               servers == ServersOf(connections, h)
    <3>1. /\ IsFiniteSet(clients) /\ IsFiniteSet(servers) /\ clients \cap servers = {}
          /\ ConnectionsOf(h) = clients \cup servers
      BY <2>1, <2>4, EndsTogether
    <3>2. Count(hosts, h, "connections") = Cardinality(clients) + Cardinality(servers)
          /\ Cardinality(clients) \in Nat /\ Cardinality(servers) \in Nat
      BY <2>2
    <3> HIDE DEF clients, servers
    <3>3. Cardinality(clients \cup servers) = Cardinality(clients) + Cardinality(servers)
      <4>1. Cardinality(clients \cup servers) =
              Cardinality(clients) + Cardinality(servers) - Cardinality(clients \cap servers)
        BY <3>1, FS_Union
      <4>2. Cardinality(clients \cap servers) = 0
        BY <3>1, FS_EmptySet
      <4> QED BY <3>2, <4>1, <4>2
    <3>4. Count(hosts, h, "connections") = hosts[h].connections
      BY <2>4 DEF Count
    <3> QED BY <3>1, <3>2, <3>3, <3>4
  <2> QED BY <2>3, <2>4 DEF ConnectionsCredited
<1> QED BY <1>1, <1>2, ConnectionsInvStep, PTL DEF Spec
-----------------------------------------------------------------------------
(* The packets in a list of windows.                                       *)

\* A list of windows, of some set whose packets are numbers, adds up to a number.
LEMMA WindowSumOf ==
  ASSUME NEW S, \A w \in S : w.packets \in Int, NEW list \in Seq(S)
  PROVE  /\ Len(list) \in Nat /\ DOMAIN list = 1..Len(list)
         /\ \A i \in 1..Len(list) : list[i] \in S /\ list[i].packets \in Int
         /\ IsSum(Packed(list), WindowSum(list))
         /\ IsFiniteSet(DOMAIN Packed(list))
         /\ DOMAIN Packed(list) = 1..Len(list)
         /\ \A i \in 1..Len(list) : Packed(list)[i] = list[i].packets
<1> DEFINE n == Len(list)
<1>1. n \in Nat /\ DOMAIN list = 1..n
  BY LenProperties
<1>2. \A i \in 1..n : list[i] \in S /\ list[i].packets \in Int
  BY LenProperties
<1> HIDE DEF n
<1>3. IsSum(Packed(list), WindowSum(list))
  BY <1>1, <1>2, WindowSumIsSum
<1>4. DOMAIN Packed(list) = 1..n /\ \A i \in 1..n : Packed(list)[i] = list[i].packets
  BY <1>1 DEF Packed
<1>5. IsFiniteSet(1..n)
  BY <1>1, FS_Interval
<1> QED BY <1>1, <1>2, <1>3, <1>4, <1>5 DEF n

\* No windows hold no packets.
LEMMA WindowSumEmpty ==
  WindowSum(<<>>) = 0
<1>1. DOMAIN <<>> = 1..0 /\ 0 \in Nat /\ \A i \in 1..0 : <<>>[i].packets \in Int
  OBVIOUS
<1>2. IsSum(Packed(<<>>), WindowSum(<<>>))
  BY <1>1, WindowSumIsSum
<1>3. DOMAIN Packed(<<>>) = {}
  BY <1>1 DEF Packed
<1> QED BY <1>2, <1>3 DEF IsSum, SumSteps

\* One more window holds its packets more.
LEMMA WindowSumAppend ==
  ASSUME NEW S, \A w \in S : w.packets \in Int, NEW list \in Seq(S), NEW w \in S
  PROVE  /\ WindowSum(list) \in Int
         /\ WindowSum(Append(list, w)) = WindowSum(list) + w.packets
<1> DEFINE after == Append(list, w)
           n == Len(list)
<1>1. /\ after \in Seq(S) /\ Len(after) = n + 1 /\ n \in Nat
      /\ \A i \in 1..n : after[i] = list[i]
      /\ after[n + 1] = w
  BY AppendProperties, LenProperties
<1> HIDE DEF after
<1>2. /\ \A i \in 1..n : list[i].packets \in Int
      /\ IsSum(Packed(list), WindowSum(list)) /\ IsFiniteSet(DOMAIN Packed(list))
      /\ DOMAIN Packed(list) = 1..n
      /\ \A i \in 1..n : Packed(list)[i] = list[i].packets
  BY WindowSumOf
<1>3. /\ IsSum(Packed(after), WindowSum(after)) /\ DOMAIN Packed(after) = 1..(n + 1)
      /\ \A i \in 1..(n + 1) : Packed(after)[i] = after[i].packets
  BY <1>1, WindowSumOf
<1> HIDE DEF n
<1>4. 1..(n + 1) = (1..n) \cup {n + 1} /\ n + 1 \notin 1..n /\ n + 1 \in 1..(n + 1)
  BY <1>1
<1>5. Packed(after)[n + 1] = w.packets /\ w.packets \in Int
  BY <1>1, <1>3, <1>4
<1>6. Differs(Packed(list), Packed(after), n + 1)
  BY <1>1, <1>2, <1>3, <1>4, <1>5 DEF Differs
<1>7. WindowSum(list) \in Int /\ WindowSum(after) = WindowSum(list) + w.packets
  <2> DEFINE F == Packed(list)
             G == Packed(after)
             k == n + 1
             a == WindowSum(list)
             b == WindowSum(after)
  <2>1. Differs(F, G, k) /\ IsSum(F, a) /\ IsSum(G, b)
    BY <1>2, <1>3, <1>6
  <2>2. k \notin DOMAIN F /\ G[k] = w.packets /\ w.packets \in Int
    BY <1>2, <1>4, <1>5
  <2> HIDE DEF F, G, k, a, b
  <2>3. a \in Int /\ b = (a + G[k]) - (IF k \in DOMAIN F THEN F[k] ELSE 0)
    BY <2>1, SumUpdated
  <2>4. a \in Int /\ b = a + w.packets
    BY <2>2, <2>3
  <2> QED BY <2>4 DEF a, b
<1> QED BY <1>7 DEF after

\* Without its first window, a list holds the packets of that window fewer.
LEMMA WindowSumTail ==
  ASSUME NEW S, \A w \in S : w.packets \in Int, NEW list \in Seq(S), list # <<>>
  PROVE  /\ WindowSum(list) \in Int /\ WindowSum(Tail(list)) \in Int
         /\ WindowSum(list) = WindowSum(Tail(list)) + Head(list).packets
<1> DEFINE rest == Tail(list)
           n == Len(rest)
           F == Packed(list)
           G == Packed(rest)
           up(T) == {i + 1 : i \in T}
<1>1. /\ rest \in Seq(S) /\ n = Len(list) - 1 /\ Len(list) \in Nat /\ n \in Nat
      /\ \A i \in 1..n : rest[i] = list[i + 1]
  BY HeadTailProperties, LenProperties
<1>2. Head(list) = list[1] /\ Len(list) = n + 1
  BY <1>1
<1> HIDE DEF rest
<1>3. /\ \A i \in 1..(n + 1) : list[i].packets \in Int
      /\ IsSum(F, WindowSum(list)) /\ IsFiniteSet(DOMAIN F) /\ DOMAIN F = 1..(n + 1)
      /\ \A i \in 1..(n + 1) : F[i] = list[i].packets
  BY <1>2, WindowSumOf
<1>4. /\ IsSum(G, WindowSum(rest)) /\ IsFiniteSet(DOMAIN G) /\ DOMAIN G = 1..n
      /\ \A i \in 1..n : G[i] = rest[i].packets /\ rest[i].packets \in Int
  BY <1>1, WindowSumOf
<1> HIDE DEF n, F, G
<1>5. PICK f : SumSteps(f, F, DOMAIN F) /\ WindowSum(list) = f[DOMAIN F]
  BY <1>3 DEF IsSum
<1>6. \A T \in SUBSET (DOMAIN F) : f[T] \in Int /\ \A x \in T : f[T] = F[x] + f[T \ {x}]
  <2>1. IsFiniteSet(DOMAIN F) /\ \A x \in DOMAIN F : F[x] \in Int
    BY <1>3
  <2>2. SumSteps(f, F, DOMAIN F)
    BY <1>5
  <2> QED BY <2>1, <2>2, SumAnyFirst
<1>7. \A i \in 1..n : i + 1 \in 1..(n + 1) /\ G[i] = F[i + 1]
  BY <1>1, <1>3, <1>4
<1> DEFINE g == [T \in SUBSET (1..n) |-> f[up(T)]]
<1>8. SumSteps(g, G, 1..n)
  <2>1. g[{}] = 0
    <3>1. up({}) = {}
      OBVIOUS
    <3>2. f[{}] = 0
      BY <1>5 DEF SumSteps
    <3> HIDE DEF up
    <3> QED BY <3>1, <3>2
  <2>2. ASSUME NEW T \in SUBSET (1..n), T # {} PROVE \E x \in T : g[T] = G[x] + g[T \ {x}]
    <3>1. PICK x \in T : TRUE
      BY <2>2
    <3>2. up(T \ {x}) = up(T) \ {x + 1}
      <4>1. \A i \in T : i \in Int
        BY <1>1
      <4> QED BY <4>1
    <3>3. up(T) \in SUBSET (DOMAIN F) /\ x + 1 \in up(T)
      BY <1>3, <1>7
    <3> HIDE DEF up
    <3>4. f[up(T)] = F[x + 1] + f[up(T) \ {x + 1}]
      BY <1>6, <3>3
    <3>5. g[T] = f[up(T)] /\ g[T \ {x}] = f[up(T \ {x})]
      OBVIOUS
    <3>6. G[x] = F[x + 1]
      BY <1>7
    <3> HIDE DEF g
    <3> QED BY <3>2, <3>4, <3>5, <3>6
  <2> HIDE DEF g, up
  <2> QED BY <2>1, <2>2 DEF SumSteps
<1>9. WindowSum(rest) = f[up(1..n)]
  <2>1. g[1..n] = f[up(1..n)]
    <3> HIDE DEF up
    <3> QED OBVIOUS
  <2> HIDE DEF g, up
  <2>2. IsSum(G, g[1..n])
    BY <1>4, <1>8 DEF IsSum
  <2>3. \A x \in DOMAIN G : G[x] \in Int
    BY <1>4
  <2>4. WindowSum(rest) = g[1..n]
    BY <1>4, <2>2, <2>3, SumUnique
  <2> QED BY <2>1, <2>4
<1>10. (1..(n + 1)) \ {1} = up(1..n)
  <2>1. ASSUME NEW i \in (1..(n + 1)) \ {1} PROVE i \in up(1..n)
    <3>1. i - 1 \in 1..n /\ (i - 1) + 1 = i
      BY <1>1
    <3> QED BY <3>1
  <2>2. ASSUME NEW i \in 1..n PROVE i + 1 \in (1..(n + 1)) \ {1}
    BY <1>1
  <2> QED BY <2>1, <2>2
<1>11. 1 \in DOMAIN F /\ F[1] = Head(list).packets /\ F[1] \in Int
  BY <1>1, <1>2, <1>3
<1> HIDE DEF up
<1>12. WindowSum(list) = F[1] + f[up(1..n)] /\ WindowSum(list) \in Int
  <2>1. DOMAIN F \in SUBSET (DOMAIN F)
    OBVIOUS
  <2>2. f[DOMAIN F] \in Int /\ f[DOMAIN F] = F[1] + f[DOMAIN F \ {1}]
    BY <1>6, <1>11, <2>1
  <2>3. DOMAIN F \ {1} = up(1..n)
    BY <1>3, <1>10
  <2> QED BY <1>5, <2>2, <2>3
<1>13. f[up(1..n)] \in Int
  BY <1>3, <1>6, <1>10
<1> QED BY <1>9, <1>11, <1>12, <1>13 DEF rest

\* A list that is not empty is its front and its last window.
LEMMA FrontAndLast ==
  ASSUME NEW S, NEW list \in Seq(S), list # <<>>
  PROVE  /\ Front(list) \in Seq(S) /\ Len(Front(list)) = Len(list) - 1
         /\ \A i \in 1..Len(Front(list)) : Front(list)[i] = list[i]
         /\ Last(list) \in S
         /\ list = Append(Front(list), Last(list))
<1> DEFINE n == Len(list)
<1>1. n \in Nat \ {0} /\ \A i \in 1..n : list[i] \in S
  BY EmptySeq, LenProperties
<1> DEFINE m == n - 1
<1>2. m \in Nat /\ n = m + 1 /\ \A i \in 1..m : i \in 1..n
  BY <1>1
<1> HIDE DEF n, m
<1>3. \A i \in 1..m : list[i] \in S
  BY <1>1, <1>2
<1>4. /\ SubSeq(list, 1, m) \in Seq(S)
      /\ Len(SubSeq(list, 1, m)) = IF 1 <= m THEN (m - 1) + 1 ELSE 0
      /\ \A i \in 1..((m - 1) + 1) : SubSeq(list, 1, m)[i] = list[(1 + i) - 1]
  <2>1. 1 \in Int /\ m \in Int
    BY <1>2
  <2> QED BY <1>3, <2>1, SubSeqProperties
<1>5. Front(list) = SubSeq(list, 1, m)
  BY DEF Front, m, n
<1>6. Front(list) \in Seq(S) /\ Len(Front(list)) = m /\ \A i \in 1..m : Front(list)[i] = list[i]
  BY <1>2, <1>4, <1>5
<1>7. Last(list) = list[n] /\ list[n] \in S
  BY <1>1 DEF Last, n
<1> HIDE DEF Last
<1> DEFINE again == Append(Front(list), Last(list))
<1>8. /\ again \in Seq(S) /\ Len(again) = m + 1
      /\ \A i \in 1..m : again[i] = Front(list)[i]
      /\ again[m + 1] = Last(list)
  BY <1>6, <1>7, AppendProperties
<1> HIDE DEF again
<1>9. Len(list) = Len(again) /\ \A i \in 1..Len(list) : list[i] = again[i]
  BY <1>2, <1>6, <1>7, <1>8 DEF n
<1>10. list = again
  BY <1>8, <1>9, SeqEqual
<1> QED BY <1>2, <1>6, <1>7, <1>10 DEF again, n
-----------------------------------------------------------------------------
(* The time windows.                                                       *)

WindowFields == {"timestamp", "packets", "bytes", "tcp_packets", "tcp_bytes",
                 "udp_packets", "udp_bytes", "app_packets", "app_bytes"}

\* A table of numbers.
IsTally(F) == IsFiniteSet(DOMAIN F) /\ \A a \in DOMAIN F : F[a] \in Nat

IsWindow(w) ==
  /\ DOMAIN w = WindowFields
  /\ w.timestamp \in Int
  /\ w.packets \in Nat /\ w.tcp_packets \in Nat /\ w.udp_packets \in Nat
  /\ w.bytes \in Nat /\ w.tcp_bytes \in Nat /\ w.udp_bytes \in Nat
  /\ w.tcp_packets + w.udp_packets <= w.packets
  /\ w.tcp_bytes + w.udp_bytes <= w.bytes
  /\ IsTally(w.app_packets) /\ SumOf(w.app_packets) <= w.packets
  /\ IsTally(w.app_bytes) /\ SumOf(w.app_bytes) <= w.bytes

WindowList(list) == \E S : list \in Seq(S) /\ \A w \in S : IsWindow(w)

\* Adding to one application adds to the sum over the applications.
LEMMA TallyIs ==
  ASSUME NEW F, IsTally(F), NEW app, NEW n \in Nat
  PROVE  /\ SumOf(F) \in Int
         /\ IsTally(Update(F, app, Lookup(F, app, 0) + n))
         /\ SumOf(Update(F, app, Lookup(F, app, 0) + n)) = SumOf(F) + n
<1> DEFINE value == Lookup(F, app, 0) + n
           G     == Update(F, app, value)
<1>1. value \in Nat /\ (app \in DOMAIN F => value = F[app] + n) /\ (app \notin DOMAIN F => value = n)
  BY DEF Lookup, IsTally
<1> HIDE DEF value
<1>2. DOMAIN G = DOMAIN F \cup {app} /\ G[app] = value /\ \A a \in DOMAIN F \ {app} : G[a] = F[a]
  BY DEF Update
<1> HIDE DEF G
<1>3. IsFiniteSet(DOMAIN F) /\ IsFiniteSet(DOMAIN G)
  BY <1>2, FS_AddElement DEF IsTally
<1>4. IsTally(G)
  BY <1>1, <1>2, <1>3 DEF IsTally
<1>5. Differs(F, G, app)
  BY <1>1, <1>2, <1>3 DEF Differs, IsTally
<1>6. IsSum(F, SumOf(F)) /\ IsSum(G, SumOf(G))
  BY <1>3, SumOfIsSum
<1> DEFINE a == SumOf(F)
           b == SumOf(G)
<1> HIDE DEF a, b
<1>7. a \in Int /\ b = (a + G[app]) - (IF app \in DOMAIN F THEN F[app] ELSE 0)
  <2>1. IsSum(F, a) /\ IsSum(G, b)
    BY <1>6 DEF a, b
  <2> QED BY <1>5, <2>1, SumUpdated
<1>8. \A x \in DOMAIN F : F[x] \in Int
  BY DEF IsTally
<1>9. a \in Int /\ b = a + n
  BY <1>1, <1>2, <1>7, <1>8
<1> QED BY <1>4, <1>9 DEF a, b, G, value

\* A new window is empty.
LEMMA NewWindowIs ==
  ASSUME NEW timestamp \in Nat
  PROVE  /\ WindowStart(timestamp) \in Int
         /\ IsWindow(NewWindow(timestamp))
         /\ NewWindow(timestamp).timestamp = WindowStart(timestamp)
         /\ NewWindow(timestamp).packets = 0
<1> DEFINE w == NewWindow(timestamp)
<1>1. WindowStart(timestamp) \in Int
  BY StatisticsAssumption DEF WindowStart
<1>2. IsTally(<<>>) /\ SumOf(<<>>) = 0
  <2>1. DOMAIN <<>> = {} /\ IsFiniteSet({})
    BY FS_EmptySet
  <2>2. IsSum(<<>>, SumOf(<<>>))
    BY <2>1, SumOfIsSum
  <2> QED BY <2>1, <2>2 DEF IsTally, IsSum, SumSteps
<1>3. /\ DOMAIN w = WindowFields /\ w.timestamp = WindowStart(timestamp)
      /\ w.packets = 0 /\ w.bytes = 0 /\ w.tcp_packets = 0 /\ w.tcp_bytes = 0
      /\ w.udp_packets = 0 /\ w.udp_bytes = 0 /\ w.app_packets = <<>> /\ w.app_bytes = <<>>
  BY DEF NewWindow, WindowFields
<1> HIDE DEF w
<1>4. IsWindow(w)
  BY <1>1, <1>2, <1>3 DEF IsWindow
<1> QED BY <1>1, <1>3, <1>4 DEF w

\* A packet makes a window of a window, with one packet more.
LEMMA WindowCounted ==
  ASSUME NEW w, IsWindow(w), NEW p \in Packets, NEW size \in Nat
  PROVE  /\ IsWindow(WindowAfter(w, p, size))
         /\ WindowAfter(w, p, size).timestamp = w.timestamp
         /\ WindowAfter(w, p, size).packets = w.packets + 1
<1> DEFINE tcp == If(Has(p, "tcp"), 1)
           udp == If(Has(p, "udp"), 1)
           app_packets == IF p.app = Unknown THEN w.app_packets
                          ELSE Update(w.app_packets, p.app, Lookup(w.app_packets, p.app, 0) + 1)
           app_bytes   == IF p.app = Unknown THEN w.app_bytes
                          ELSE Update(w.app_bytes, p.app, Lookup(w.app_bytes, p.app, 0) + size)
           after == WindowAfter(w, p, size)
<1>1. IsTally(w.app_packets) /\ IsTally(w.app_bytes) /\ 1 \in Nat
  BY DEF IsWindow
<1>2. IsTally(app_packets) /\ SumOf(app_packets) <= SumOf(w.app_packets) + 1
      /\ SumOf(app_packets) \in Int /\ SumOf(w.app_packets) \in Int
  <2> DEFINE F == w.app_packets
             G == Update(F, p.app, Lookup(F, p.app, 0) + 1)
  <2>1. SumOf(F) \in Int /\ IsTally(G) /\ SumOf(G) = SumOf(F) + 1
    BY <1>1, TallyIs
  <2> HIDE DEF F, G
  <2>2. app_packets = IF p.app = Unknown THEN F ELSE G
    BY DEF F, G
  <2>3. IsTally(F)
    BY <1>1 DEF F
  <2> HIDE DEF app_packets
  <2> QED BY <2>1, <2>2, <2>3 DEF F
<1>3. IsTally(app_bytes) /\ SumOf(app_bytes) <= SumOf(w.app_bytes) + size
      /\ SumOf(app_bytes) \in Int /\ SumOf(w.app_bytes) \in Int
  <2> DEFINE F == w.app_bytes
             G == Update(F, p.app, Lookup(F, p.app, 0) + size)
  <2>1. SumOf(F) \in Int /\ IsTally(G) /\ SumOf(G) = SumOf(F) + size
    BY <1>1, TallyIs
  <2> HIDE DEF F, G
  <2>2. app_bytes = IF p.app = Unknown THEN F ELSE G
    BY DEF F, G
  <2>3. IsTally(F)
    BY <1>1 DEF F
  <2> HIDE DEF app_bytes
  <2> QED BY <2>1, <2>2, <2>3 DEF F
<1> HIDE DEF app_packets, app_bytes
<1>4. tcp \in Nat /\ udp \in Nat /\ tcp + udp <= 1
  BY PacketIs DEF If
<1>5. /\ tcp * size = (IF Has(p, "tcp") THEN size ELSE 0)
      /\ udp * size = (IF Has(p, "udp") THEN size ELSE 0)
  BY DEF If
<1>6. tcp * size \in Nat /\ udp * size \in Nat /\ tcp * size + udp * size <= size
  BY <1>5, PacketIs
<1>7. after = [w EXCEPT !.packets     = @ + 1,   !.bytes     = @ + size,
                        !.tcp_packets = @ + tcp, !.tcp_bytes = @ + tcp * size,
                        !.udp_packets = @ + udp, !.udp_bytes = @ + udp * size,
                        !.app_packets = app_packets, !.app_bytes = app_bytes]
  BY DEF WindowAfter, If, app_packets, app_bytes
<1> HIDE DEF after, tcp, udp
<1> DEFINE tcp_size == tcp * size
           udp_size == udp * size
<1>8. tcp_size \in Nat /\ udp_size \in Nat /\ tcp_size + udp_size <= size
  BY <1>6
<1>9. after = [w EXCEPT !.packets     = @ + 1,   !.bytes     = @ + size,
                        !.tcp_packets = @ + tcp, !.tcp_bytes = @ + tcp_size,
                        !.udp_packets = @ + udp, !.udp_bytes = @ + udp_size,
                        !.app_packets = app_packets, !.app_bytes = app_bytes]
  BY <1>7
<1> HIDE DEF tcp_size, udp_size
<1>10. DOMAIN w = WindowFields
  BY DEF IsWindow
<1>11. /\ DOMAIN after = WindowFields /\ after.timestamp = w.timestamp
       /\ after.packets = w.packets + 1 /\ after.bytes = w.bytes + size
       /\ after.tcp_packets = w.tcp_packets + tcp /\ after.tcp_bytes = w.tcp_bytes + tcp_size
       /\ after.udp_packets = w.udp_packets + udp /\ after.udp_bytes = w.udp_bytes + udp_size
       /\ after.app_packets = app_packets /\ after.app_bytes = app_bytes
  BY <1>9, <1>10 DEF WindowFields
<1>12. IsWindow(after)
  BY <1>2, <1>3, <1>4, <1>8, <1>11 DEF IsWindow
<1> QED BY <1>11, <1>12 DEF after

\* The windows with a packet added to the one of its time.
Added(p, timestamp) ==
  IF windows # <<>> /\ Last(windows).timestamp = WindowStart(timestamp)
  THEN Append(Front(windows), WindowAfter(Last(windows), p, WindowSize(p)))
  ELSE Append(windows, WindowAfter(NewWindow(timestamp), p, WindowSize(p)))

\* They hold the packet, in the last window there was or in a new one.
LEMMA AddedIs ==
  ASSUME WindowList(windows), NEW p \in Packets, NEW timestamp \in Nat
  PROVE  /\ WindowList(Added(p, timestamp)) /\ Added(p, timestamp) # <<>>
         /\ WindowSum(windows) \in Int
         /\ WindowSum(Added(p, timestamp)) = WindowSum(windows) + 1
         /\ Len(Added(p, timestamp)) \in {Len(windows), Len(windows) + 1}
<1> DEFINE size  == WindowSize(p)
           added == Added(p, timestamp)
           start == WindowStart(timestamp)
<1>1. size \in Nat
  BY PacketIs DEF WindowSize
<1>2. PICK S : windows \in Seq(S) /\ \A w \in S : IsWindow(w)
  BY DEF WindowList
<1>3. Len(windows) \in Nat /\ \A i \in 1..Len(windows) : IsWindow(windows[i])
  BY <1>2, LenProperties
<1>4. start \in Int
  BY NewWindowIs
<1> HIDE DEF size, start
<1>5. CASE windows # <<>> /\ Last(windows).timestamp = start
  <2> DEFINE w == WindowAfter(Last(windows), p, size)
             U == S \cup {w}
             front == Front(windows)
             last == Last(windows)
  <2>1. /\ front \in Seq(S) /\ Len(front) = Len(windows) - 1
        /\ \A i \in 1..Len(front) : front[i] = windows[i]
        /\ last \in S /\ windows = Append(front, last)
    BY <1>2, <1>5, FrontAndLast
  <2>2. Len(windows) # 0
    <3>1. Len(Append(front, last)) = Len(front) + 1 /\ Len(front) \in Nat
      BY <2>1, AppendProperties, LenProperties
    <3> QED BY <2>1, <3>1
  <2>3. IsWindow(w) /\ w.timestamp = last.timestamp /\ w.packets = last.packets + 1
    BY <1>1, <1>2, <2>1, WindowCounted
  <2>4. added = Append(front, w)
    BY <1>5 DEF Added, size, start
  <2>5. last = windows[Len(windows)]
    BY DEF Last
  <2> HIDE DEF w, front, last, added
  <2>6. front \in Seq(U) /\ w \in U /\ last \in U /\ \A u \in U : IsWindow(u)
    <3>1. S \subseteq U
      OBVIOUS
    <3>2. front \in Seq(U)
      BY <2>1, <3>1, SeqMonotonic
    <3> QED BY <1>2, <2>1, <2>3, <3>2
  <2> HIDE DEF U
  <2>7. \A u \in U : u.packets \in Int
    BY <2>6 DEF IsWindow
  <2>8. /\ added \in Seq(U) /\ added # <<>> /\ Len(added) = Len(front) + 1
        /\ \A i \in 1..Len(front) : added[i] = front[i]
        /\ added[Len(front) + 1] = w
    BY <2>4, <2>6, AppendProperties
  <2>9. /\ WindowSum(front) \in Int
        /\ WindowSum(added) = WindowSum(front) + w.packets
        /\ WindowSum(windows) = WindowSum(front) + last.packets
    <3>1. WindowSum(front) \in Int /\ WindowSum(Append(front, w)) = WindowSum(front) + w.packets
      BY <2>6, <2>7, WindowSumAppend
    <3>2. WindowSum(Append(front, last)) = WindowSum(front) + last.packets
      BY <2>6, <2>7, WindowSumAppend
    <3> QED BY <2>1, <2>4, <3>1, <3>2
  <2>10. last.packets \in Int
    BY <2>6, <2>7
  <2>11. WindowSum(windows) \in Int /\ WindowSum(added) = WindowSum(windows) + 1
    BY <2>3, <2>9, <2>10
  <2>12. Len(added) = Len(windows)
    BY <1>3, <2>1, <2>8
  <2>13. WindowList(added)
    BY <2>6, <2>8 DEF WindowList
  <2> QED BY <2>8, <2>11, <2>12, <2>13 DEF added
<1>6. CASE ~(windows # <<>> /\ Last(windows).timestamp = start)
  <2> DEFINE w == WindowAfter(NewWindow(timestamp), p, size)
             U == S \cup {w}
  <2>1. IsWindow(w) /\ w.timestamp = start /\ w.packets = 1
    <3>1. IsWindow(NewWindow(timestamp)) /\ NewWindow(timestamp).timestamp = start
          /\ NewWindow(timestamp).packets = 0
      BY NewWindowIs DEF start
    <3> QED BY <1>1, <3>1, WindowCounted
  <2>2. added = Append(windows, w)
    BY <1>6 DEF Added, size, start
  <2> HIDE DEF w, added
  <2>3. windows \in Seq(U) /\ w \in U /\ \A u \in U : IsWindow(u)
    <3>1. S \subseteq U
      OBVIOUS
    <3>2. windows \in Seq(U)
      BY <1>2, <3>1, SeqMonotonic
    <3> QED BY <1>2, <2>1, <3>2
  <2> HIDE DEF U
  <2>4. \A u \in U : u.packets \in Int
    BY <2>3 DEF IsWindow
  <2>5. /\ added \in Seq(U) /\ added # <<>> /\ Len(added) = Len(windows) + 1
        /\ \A i \in 1..Len(windows) : added[i] = windows[i]
        /\ added[Len(windows) + 1] = w
    BY <2>2, <2>3, AppendProperties
  <2>6. WindowSum(windows) \in Int /\ WindowSum(added) = WindowSum(windows) + 1
    BY <2>1, <2>2, <2>3, <2>4, WindowSumAppend
  <2>7. WindowList(added)
    BY <2>3, <2>5 DEF WindowList
  <2> QED BY <2>5, <2>6, <2>7 DEF added
<1> QED BY <1>5, <1>6

\* The first window of a list that is not empty may go: what it held is what the sum loses.
LEMMA FirstGone ==
  ASSUME NEW list, WindowList(list), list # <<>>
  PROVE  /\ Len(list) \in Nat \ {0} /\ Head(list).packets \in Int
         /\ WindowList(Tail(list)) /\ Len(Tail(list)) = Len(list) - 1
         /\ WindowSum(Tail(list)) \in Int
         /\ WindowSum(list) = WindowSum(Tail(list)) + Head(list).packets
<1>1. PICK S : list \in Seq(S) /\ \A w \in S : IsWindow(w)
  BY DEF WindowList
<1>2. \A w \in S : w.packets \in Int
  BY <1>1 DEF IsWindow
<1> DEFINE rest == Tail(list)
<1>3. /\ Head(list) \in S /\ rest \in Seq(S) /\ Len(rest) = Len(list) - 1
      /\ \A i \in 1..Len(rest) : rest[i] = list[i + 1]
  BY <1>1, HeadTailProperties
<1>4. WindowSum(rest) \in Int /\ WindowSum(list) = WindowSum(rest) + Head(list).packets
  BY <1>1, <1>2, WindowSumTail
<1> HIDE DEF rest
<1>5. Len(list) \in Nat \ {0} /\ Len(rest) \in Nat
  BY <1>1, <1>3, EmptySeq, LenProperties
<1>6. WindowList(rest)
  BY <1>1, <1>3 DEF WindowList
<1> QED BY <1>2, <1>3, <1>4, <1>5, <1>6 DEF rest

\* What recording does to the windows: a packet is counted in one of them, or it has no length.
LEMMA WindowsStep ==
  ASSUME WindowList(windows), Len(windows) <= MaxWindows, dropped \in Int, unsized \in Int,
         NEW p \in Packets, NEW timestamp \in Nat, RecordTimeWindow(p, timestamp)
  PROVE  /\ WindowList(windows') /\ Len(windows') <= MaxWindows
         /\ dropped' \in Int /\ unsized' \in Int
         /\ WindowSum(windows) \in Int /\ WindowSum(windows') \in Int
         /\ WindowSum(windows') + dropped' + unsized' = (WindowSum(windows) + dropped + unsized) + 1
<1> DEFINE added == Added(p, timestamp)
<1>1. /\ WindowList(added) /\ added # <<>>
      /\ WindowSum(windows) \in Int /\ WindowSum(added) = WindowSum(windows) + 1
      /\ Len(added) \in {Len(windows), Len(windows) + 1}
  BY AddedIs
<1>2. IF WindowSize(p) = 0 THEN unsized' = unsized + 1 /\ UNCHANGED <<windows, dropped>>
      ELSE /\ UNCHANGED unsized
           /\ IF Len(added) > MaxWindows
              THEN windows' = Tail(added) /\ dropped' = dropped + Head(added).packets
              ELSE windows' = added /\ UNCHANGED dropped
  BY DEF RecordTimeWindow, Added
<1> HIDE DEF added
<1>3. MaxWindows \in Nat \ {0}
  BY StatisticsAssumption
<1>4. Len(windows) \in Nat
  BY LenProperties DEF WindowList
<1>5. CASE WindowSize(p) = 0
  <2>1. windows' = windows /\ dropped' = dropped /\ unsized' = unsized + 1
    BY <1>2, <1>5
  <2> QED BY <1>1, <2>1
<1>6. CASE WindowSize(p) # 0 /\ Len(added) > MaxWindows
  <2> DEFINE rest  == Tail(added)
             first == Head(added).packets
  <2>1. windows' = rest /\ dropped' = dropped + first /\ unsized' = unsized
    BY <1>2, <1>6
  <2>2. /\ first \in Int /\ Len(added) \in Nat
        /\ WindowList(rest) /\ Len(rest) = Len(added) - 1
        /\ WindowSum(rest) \in Int
        /\ WindowSum(added) = WindowSum(rest) + first
    BY <1>1, FirstGone
  <2> HIDE DEF rest, first
  <2>3. Len(windows') <= MaxWindows
    <3>1. Len(added) <= MaxWindows + 1
      BY <1>1, <1>3, <1>4
    <3>2. Len(rest) <= MaxWindows
      BY <1>3, <2>2, <3>1
    <3> QED BY <2>1, <3>2
  <2>4. WindowSum(windows') + dropped' + unsized' = (WindowSum(windows) + dropped + unsized) + 1
    <3> DEFINE sum == WindowSum(windows)
               kept == WindowSum(rest)
    <3>1. sum \in Int /\ kept \in Int /\ sum + 1 = kept + first /\ first \in Int
      BY <1>1, <2>2
    <3> HIDE DEF sum, kept
    <3>2. kept + (dropped + first) + unsized = (sum + dropped + unsized) + 1
      BY <3>1
    <3> QED BY <2>1, <3>2 DEF sum, kept
  <2>5. WindowList(windows') /\ WindowSum(windows') \in Int /\ dropped' \in Int /\ unsized' \in Int
    BY <2>1, <2>2
  <2> QED BY <1>1, <2>3, <2>4, <2>5
<1>7. CASE WindowSize(p) # 0 /\ ~(Len(added) > MaxWindows)
  <2>1. windows' = added /\ dropped' = dropped /\ unsized' = unsized
    BY <1>2, <1>7
  <2>2. Len(windows') <= MaxWindows
    BY <1>1, <1>3, <1>4, <1>7, <2>1
  <2>3. WindowSum(windows') + dropped' + unsized' = (WindowSum(windows) + dropped + unsized) + 1
    BY <1>1, <2>1
  <2> QED BY <1>1, <2>1, <2>2, <2>3
<1> QED BY <1>5, <1>6, <1>7

\* The packets in windows, those in windows that are gone and those without a length are the
\* packets recorded.
WindowsInv ==
  /\ RequestsOK
  /\ WindowList(windows) /\ Len(windows) <= MaxWindows /\ dropped \in Int /\ unsized \in Int
  /\ DOMAIN global = DOMAIN NewGlobal /\ global.total_packets \in Nat
  /\ WindowSum(windows) + dropped + unsized = global.total_packets

\* A list without windows is a list of windows.
LEMMA EmptyWindows ==
  WindowList(<<>>) /\ Len(<<>>) <= MaxWindows /\ WindowSum(<<>>) = 0
<1>1. <<>> \in Seq({}) /\ \A w \in {} : IsWindow(w)
  OBVIOUS
<1>2. Len(<<>>) = 0
  OBVIOUS
<1>3. WindowList(<<>>)
  <2> DEFINE list  == <<>>
             empty == {}
  <2>1. list \in Seq(empty) /\ \A w \in empty : IsWindow(w)
    BY <1>1
  <2> HIDE DEF list, empty
  <2>2. WindowList(list)
    BY <2>1 DEF WindowList
  <2> QED BY <2>2 DEF list
<1> QED BY <1>2, <1>3, WindowSumEmpty, StatisticsAssumption

\* It holds at the start.
LEMMA WindowsInit ==
  Init => WindowsInv
<1> SUFFICES ASSUME Init PROVE WindowsInv
  OBVIOUS
<1>1. RequestsOK
  BY DEF Init, RequestsOK
<1>2. windows = <<>> /\ dropped = 0 /\ unsized = 0 /\ global = NewGlobal /\ global.total_packets = 0
  BY DEF Init, NewGlobal
<1> QED BY <1>1, <1>2, EmptyWindows DEF WindowsInv

\* And it is kept.
LEMMA WindowsInvStep ==
  WindowsInv /\ [Next]_vars => WindowsInv'
<1> SUFFICES ASSUME WindowsInv, [Next]_vars PROVE WindowsInv'
  OBVIOUS
<1> USE DEF WindowsInv
<1>1. RequestsOK'
  BY RequestsStep
<1>2. CASE UNCHANGED tables
  <2>1. windows' = windows /\ dropped' = dropped /\ unsized' = unsized /\ global' = global
    BY <1>2 DEF tables
  <2> QED BY <1>1, <2>1
<1>3. ASSUME NEW t \in Threads, Record(t) PROVE WindowsInv'
  <2>1. PICK p \in Packets, timestamp \in Nat : RecordPacket(p, timestamp)
    BY <1>3, RecordsWaiting
  <2>2. RecordTimeWindow(p, timestamp) /\ RecordGlobal(p)
    BY <2>1 DEF RecordPacket
  <2>3. /\ WindowList(windows') /\ Len(windows') <= MaxWindows
        /\ dropped' \in Int /\ unsized' \in Int
        /\ WindowSum(windows') + dropped' + unsized' = (WindowSum(windows) + dropped + unsized) + 1
    BY <2>2, WindowsStep
  <2>4. DOMAIN global' = DOMAIN NewGlobal /\ global'.total_packets = global.total_packets + 1
    BY <2>2 DEF RecordGlobal, NewGlobal
  <2>5. WindowSum(windows') + dropped' + unsized' = global'.total_packets
    BY <2>3, <2>4
  <2> QED BY <1>1, <2>3, <2>4, <2>5
<1>4. CASE Reset
  <2>1. windows' = <<>> /\ dropped' = 0 /\ unsized' = 0 /\ global' = NewGlobal
    BY <1>4 DEF Reset
  <2>2. NewGlobal.total_packets = 0
    BY DEF NewGlobal
  <2> QED BY <1>1, <2>1, <2>2, EmptyWindows
<1>5. CASE SetTimeWindow
  <2>1. windows' = <<>> /\ dropped' = dropped + WindowedPackets /\ unsized' = unsized
        /\ global' = global
    BY <1>5 DEF SetTimeWindow
  <2>2. WindowedPackets = WindowSum(windows)
    BY Zenon DEF WindowedPackets, WindowSum
  <2>3. WindowSum(windows) \in Int
    <3>1. PICK S : windows \in Seq(S) /\ \A w \in S : IsWindow(w)
      BY DEF WindowList
    <3>2. \A w \in S : w.packets \in Int
      BY <3>1 DEF IsWindow
    <3>3. IsSum(Packed(windows), WindowSum(windows)) /\ IsFiniteSet(DOMAIN Packed(windows))
          /\ \A x \in DOMAIN Packed(windows) : Packed(windows)[x] \in Int
      BY <3>1, <3>2, WindowSumOf
    <3>4. PICK f : SumSteps(f, Packed(windows), DOMAIN Packed(windows))
                   /\ WindowSum(windows) = f[DOMAIN Packed(windows)]
      BY <3>3 DEF IsSum
    <3>5. f[DOMAIN Packed(windows)] \in Int
      BY <3>3, <3>4, SumAnyFirst
    <3> QED BY <3>4, <3>5
  <2> QED BY <1>1, <2>1, <2>2, <2>3, EmptyWindows
<1>6. Tick \/ (\E t \in Threads : \E p \in Packets : Capture(t, p)) \/ UNCHANGED vars => UNCHANGED tables
  BY DEF Tick, Capture, vars
<1> QED BY <1>2, <1>3, <1>4, <1>5, <1>6 DEF Next

\* What the invariant says of the windows, as the property has it.
LEMMA WindowsInvHolds ==
  WindowsInv => WindowsHoldEverything
<1> SUFFICES ASSUME WindowsInv PROVE WindowsHoldEverything
  OBVIOUS
<1>1. WindowedPackets = WindowSum(windows)
  BY Zenon DEF WindowedPackets, WindowSum
<1>2. PICK S : windows \in Seq(S) /\ \A w \in S : IsWindow(w)
  BY DEF WindowsInv, WindowList
<1>3. ASSUME NEW w \in ToSet(windows)
      PROVE  /\ w.tcp_packets + w.udp_packets <= w.packets
             /\ w.tcp_bytes + w.udp_bytes <= w.bytes
             /\ SumOf(w.app_packets) <= w.packets
             /\ SumOf(w.app_bytes) <= w.bytes
  <2>1. w \in S
    BY <1>2, LenProperties DEF ToSet
  <2> QED BY <1>2, <2>1 DEF IsWindow
<1>4. \A w : /\ SumOf(w.app_packets) = MapThenSumSet(LAMBDA a : w.app_packets[a], DOMAIN w.app_packets)
             /\ SumOf(w.app_bytes) = MapThenSumSet(LAMBDA a : w.app_bytes[a], DOMAIN w.app_bytes)
  BY Zenon DEF SumOf
<1> QED BY <1>1, <1>3, <1>4, Zenon DEF WindowsInv, WindowsHoldEverything

\* WindowsHoldEverything, for any packets, threads, times and bounds: a packet with a length is
\* in one window, or was in one that is gone, and a window has no more in its protocols and
\* applications than in all.
THEOREM PacketsStayInWindows == Spec => []WindowsHoldEverything
  BY WindowsInit, WindowsInvStep, WindowsInvHolds, PTL DEF Spec
=============================================================================
