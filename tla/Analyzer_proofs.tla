---------------------------- MODULE Analyzer_proofs ----------------------------
(***************************************************************************)
(* The analyzer's accounting, its filter and its loop over the callbacks,  *)
(* for any number of threads, filters, frames and callbacks.               *)
(***************************************************************************)
EXTENDS Analyzer, FiniteSetTheorems, WellFoundedInduction, TLAPS

Labels == {"idle", "parse", "check", "match", "record", "dispatch"}

Shape ==
  /\ lock \in Threads \cup {NoThread}
  /\ filter \in Filters \cup {NoFilter}
  /\ callbacks \in Seq(Callbacks)
  /\ packet_count \in Nat /\ recorded \in Nat /\ filtered \in Nat
  /\ errors \in Nat /\ spurious \in Nat
  /\ pc \in [Threads -> Labels]
  /\ DOMAIN frame = Threads
  /\ index \in [Threads -> Nat \ {0}]
  /\ in_force \in [Threads -> SUBSET (Filters \cup {NoFilter})]
  /\ called \in [Threads -> Seq(Callbacks)]
  /\ expected \in [Threads -> SUBSET Callbacks]
  /\ removals \in [Threads -> Nat]

\* Whoever is inside analyze holds the lock.
LockHeld == \A t \in Threads : pc[t] # "idle" <=> lock = t

\* Between the two looks at the filter, whatever is set has been seen.
FilterSeen == \A t \in Threads : pc[t] \in {"check", "match"} => filter \in in_force[t]

\* Those of E that are neither called nor in the list from position n on.
MissedBy(E, called_set, n, list) ==
  {cb \in E : cb \notin called_set /\ \A i \in n..Len(list) : list[i] # cb}

Missed(t) == MissedBy(expected[t], ToSet(called[t]), index[t], callbacks)

\* At every moment of the loop, not only at its end, no more callbacks are behind the
\* index without having been called than were removed; it starts at the first one.
MissedBound ==
  \A t \in Threads :
    /\ pc[t] # "dispatch" => index[t] = 1
    /\ pc[t] = "dispatch" => /\ expected[t] \subseteq ToSet(callbacks)
                             /\ Cardinality(Missed(t)) <= removals[t]

AnalyzerInv ==
  /\ Shape /\ LockHeld /\ FilterSeen
  /\ EveryPacketAccounted /\ AcceptedBySomeFilter /\ MissedBound

-----------------------------------------------------------------------------
(* What removing a callback does to the list.                              *)

\* A set of natural numbers that is not empty has a least element.
LEMMA LeastNumber ==
  ASSUME NEW S \in SUBSET Nat, S # {}
  PROVE  Min(S) \in S
<1> DEFINE R == OpToRel(<, Nat)
<1>1. IsWellFoundedOn(R, Nat)
  BY NatLessThanWellFounded DEF OpToRel
<1>2. R = {ss \in Nat \X Nat : ss[1] < ss[2]}
  BY DEF OpToRel
<1> HIDE DEF R
<1>3. PICK m \in S : \A y \in S : ~ (<<y, m>> \in R)
  BY <1>1, WFMin
<1>4. \A y \in S : m <= y
  <2> TAKE y \in S
  <2>1. <<y, m>> \in Nat \X Nat
    OBVIOUS
  <2>2. ~ (y < m)
    BY <1>2, <1>3, <2>1
  <2> QED BY <2>2
<1> QED BY <1>3, <1>4 DEF Min

\* RemoveFirst takes out one occurrence and closes the gap.
LEMMA RemovalShifts ==
  ASSUME NEW C, NEW list \in Seq(C), NEW cb \in ToSet(list)
  PROVE  LET rest == RemoveFirst(list, cb)
         IN  /\ rest \in Seq(C)
             /\ Len(rest) = Len(list) - 1
             /\ \E j \in 1..Len(list) :
                  /\ list[j] = cb
                  /\ \A i \in 1..(j - 1) : rest[i] = list[i]
                  /\ \A i \in j..Len(rest) : rest[i] = list[i + 1]
<1> DEFINE at == {i \in 1..Len(list) : list[i] = cb}
           j  == Min(at)
<1>1. at \in SUBSET Nat /\ at # {}
  BY DEF ToSet
<1>2. j \in at
  BY <1>1, LeastNumber
<1>3. RemoveFirst(list, cb) = SubSeq(list, 1, j - 1) \o SubSeq(list, j + 1, Len(list))
  BY <1>1 DEF RemoveFirst, SelectInSeq, RemoveAt
<1> HIDE DEF j
<1>4. j \in 1..Len(list) /\ list[j] = cb
  BY <1>2
<1> DEFINE head == SubSeq(list, 1, j - 1)
           tail == SubSeq(list, j + 1, Len(list))
<1>5. /\ head \in Seq(C) /\ Len(head) = j - 1
      /\ \A i \in 1..(j - 1) : head[i] = list[i]
  BY <1>4
<1>6. /\ tail \in Seq(C) /\ Len(tail) = Len(list) - j
      /\ \A i \in 1..(Len(list) - j) : tail[i] = list[j + i]
  BY <1>4
<1> HIDE DEF head, tail
<1>7. /\ head \o tail \in Seq(C) /\ Len(head \o tail) = Len(list) - 1
      /\ \A i \in 1..(j - 1) : (head \o tail)[i] = list[i]
      /\ \A i \in j..(Len(list) - 1) : (head \o tail)[i] = list[i + 1]
  <2>1. /\ head \o tail \in Seq(C) /\ Len(head \o tail) = Len(list) - 1
        /\ \A i \in 1..(j - 1) : (head \o tail)[i] = list[i]
    <3>1. head \o tail \in Seq(C) /\ Len(head \o tail) = Len(head) + Len(tail)
      BY <1>5, <1>6
    <3>2. \A i \in 1..Len(head) : (head \o tail)[i] = head[i]
      BY <1>5, <1>6
    <3>3. Len(list) \in Nat /\ j \in Nat
      BY <1>4
    <3> QED BY <1>5, <1>6, <3>1, <3>2, <3>3
  <2>2. ASSUME NEW i \in j..(Len(list) - 1) PROVE (head \o tail)[i] = list[i + 1]
    <3>1. (head \o tail)[i] = tail[i - Len(head)]
      BY <1>4, <1>5, <1>6
    <3>2. i - Len(head) \in 1..(Len(list) - j) /\ j + (i - Len(head)) = i + 1
      BY <1>4, <1>5
    <3> QED BY <1>6, <3>1, <3>2
  <2> QED BY <2>1, <2>2
<1>8. RemoveFirst(list, cb) = head \o tail
  BY <1>3 DEF head, tail
<1> QED BY <1>4, <1>7, <1>8

\* What is in a list is finite, and appending adds to it.
LEMMA InList ==
  ASSUME NEW C, NEW list \in Seq(C), NEW x \in C
  PROVE  /\ IsFiniteSet(ToSet(list))
         /\ ToSet(Append(list, x)) = ToSet(list) \cup {x}
<1>1. IsFiniteSet(1..Len(list))
  BY FS_Interval
<1>2. list \in Surjection(1..Len(list), ToSet(list))
  BY DEF Surjection, ToSet
<1>3. IsFiniteSet(ToSet(list))
  BY <1>1, <1>2, FS_Surjection
<1>4. /\ Append(list, x) \in Seq(C) /\ Len(Append(list, x)) = Len(list) + 1
      /\ \A i \in 1..Len(list) : Append(list, x)[i] = list[i]
      /\ Append(list, x)[Len(list) + 1] = x
  OBVIOUS
<1>5. ToSet(Append(list, x)) = ToSet(list) \cup {x}
  <2>1. DOMAIN Append(list, x) = 1..Len(list) \cup {Len(list) + 1} /\ DOMAIN list = 1..Len(list)
    BY <1>4
  <2> QED BY <1>4, <2>1 DEF ToSet
<1> QED BY <1>3, <1>5

\* One removal puts at most one more callback behind an index without a call.
LEMMA RemovalMissesOne ==
  ASSUME NEW C, NEW list \in Seq(C), NEW cb \in ToSet(list), NEW n \in Nat \ {0},
         NEW E, E \subseteq ToSet(list), NEW K
  PROVE  LET rest == RemoveFirst(list, cb)
         IN  /\ Cardinality(MissedBy(E, K, n, list)) \in Nat
             /\ Cardinality(MissedBy(E \cap ToSet(rest), K, n, rest)) \in Nat
             /\ Cardinality(MissedBy(E \cap ToSet(rest), K, n, rest))
                  <= Cardinality(MissedBy(E, K, n, list)) + 1
<1> DEFINE rest == RemoveFirst(list, cb)
           M    == MissedBy(E, K, n, list)
           N    == MissedBy(E \cap ToSet(rest), K, n, rest)
<1>1. rest \in Seq(C) /\ Len(rest) = Len(list) - 1
  BY RemovalShifts
<1>2. PICK j \in 1..Len(list) :
        /\ list[j] = cb
        /\ \A i \in 1..(j - 1) : rest[i] = list[i]
        /\ \A i \in j..Len(rest) : rest[i] = list[i + 1]
  BY RemovalShifts
<1> HIDE DEF rest
<1> DEFINE x == IF j < n THEN list[n] ELSE cb
<1>3. N \subseteq M \cup {x}
  <2> SUFFICES ASSUME NEW c \in N, c \notin M PROVE c = x
    OBVIOUS
  <2>1. c \in E /\ c \notin K /\ \A i \in n..Len(rest) : rest[i] # c
    BY DEF MissedBy
  <2>2. PICK i \in n..Len(list) : list[i] = c
    BY <2>1 DEF MissedBy
  <2>3. CASE i < j
    BY <1>1, <1>2, <2>1, <2>2, <2>3
  <2>4. CASE i = j
    BY <1>2, <2>2, <2>4
  <2>5. CASE i > j /\ i > n
    <3>1. i - 1 \in j..Len(rest) /\ i - 1 \in n..Len(rest) /\ (i - 1) + 1 = i
      BY <1>1, <2>2, <2>5
    <3> QED BY <1>2, <2>1, <2>2, <3>1
  <2>6. CASE i > j /\ i = n
    BY <2>2, <2>6
  <2> QED BY <2>2, <2>3, <2>4, <2>5, <2>6
<1>4. IsFiniteSet(E)
  <2>1. IsFiniteSet(ToSet(list))
    BY InList DEF ToSet
  <2> QED BY <2>1, FS_Subset
<1>5. M \in SUBSET E /\ N \in SUBSET E
  BY DEF MissedBy
<1> HIDE DEF M, N, x
<1>6. IsFiniteSet(M) /\ Cardinality(M) \in Nat /\ Cardinality(N) \in Nat
  BY <1>4, <1>5, FS_Subset, FS_CardinalityType
<1>7. IsFiniteSet(M \cup {x}) /\ Cardinality(M \cup {x}) <= Cardinality(M) + 1
  <2>1. /\ IsFiniteSet(M \cup {x})
        /\ Cardinality(M \cup {x}) = IF x \in M THEN Cardinality(M) ELSE Cardinality(M) + 1
    BY <1>6, FS_AddElement
  <2> QED BY <1>6, <2>1
<1>8. Cardinality(N) <= Cardinality(M \cup {x}) /\ Cardinality(M \cup {x}) \in Nat
  BY <1>3, <1>7, FS_Subset, FS_CardinalityType
<1> QED BY <1>6, <1>7, <1>8 DEF M, N, rest

-----------------------------------------------------------------------------
(* The steps.                                                              *)

Open == {"parse", "check", "match", "record"}

\* With one thread inside analyze, at most one packet is undecided.
LEMMA CountUndecided ==
  ASSUME NEW p, NEW t \in Threads, \A u \in Threads \ {t} : p[u] = "idle"
  PROVE  Cardinality({u \in Threads : p[u] \in {"parse", "check", "match", "record"}}) =
           IF p[t] \in Open THEN 1 ELSE 0
<1> DEFINE U == {u \in Threads : p[u] \in {"parse", "check", "match", "record"}}
<1>1. U = IF p[t] \in Open THEN {t} ELSE {}
  BY DEF Open
<1> HIDE DEF U
<1>2. Cardinality({t}) = 1 /\ Cardinality({}) = 0
  BY FS_Singleton, FS_EmptySet
<1>3. Cardinality(U) = IF p[t] \in Open THEN 1 ELSE 0
  BY <1>1, <1>2
<1> QED BY <1>3 DEF U

\* The other threads are outside while one enters or is inside.
LEMMA OthersIdle ==
  ASSUME LockHeld, Shape, NEW t \in Threads, lock \in {t, NoThread}
  PROVE  \A u \in Threads \ {t} : pc[u] = "idle"
BY AnalyzerAssumption DEF LockHeld, Shape

\* The balance as a sum, for a thread that may be inside.
LEMMA BalanceAt ==
  ASSUME EveryPacketAccounted, NEW t \in Threads, \A u \in Threads \ {t} : pc[u] = "idle"
  PROVE  packet_count = recorded + filtered + errors + IF pc[t] \in Open THEN 1 ELSE 0
<1>1. Cardinality(Undecided) = IF pc[t] \in Open THEN 1 ELSE 0
  BY CountUndecided DEF Undecided
<1> QED BY <1>1 DEF EveryPacketAccounted

\* The sum, in the state a step leads to, is the balance there.
LEMMA BalanceThen ==
  ASSUME NEW t \in Threads, \A u \in Threads \ {t} : pc'[u] = "idle",
         packet_count' = recorded' + filtered' + errors' + IF pc'[t] \in Open THEN 1 ELSE 0
  PROVE  EveryPacketAccounted'
<1>1. Cardinality({u \in Threads : pc'[u] \in {"parse", "check", "match", "record"}}) =
        IF pc'[t] \in Open THEN 1 ELSE 0
  BY CountUndecided
<1>2. Cardinality(Undecided') = IF pc'[t] \in Open THEN 1 ELSE 0
  BY <1>1 DEF Undecided
<1> QED BY <1>2 DEF EveryPacketAccounted

\* Before the first packet nothing is counted, no lock is held and no thread is in analyze.
LEMMA InitSafe == Init => AnalyzerInv
<1> SUFFICES ASSUME Init PROVE AnalyzerInv
  OBVIOUS
<1>1. Shape
  BY AnalyzerAssumption DEF Init, Shape, Labels, Idle
<1>2. LockHeld /\ FilterSeen /\ AcceptedBySomeFilter /\ MissedBound
  BY AnalyzerAssumption DEF Init, Idle, LockHeld, FilterSeen, AcceptedBySomeFilter, MissedBound
<1>3. EveryPacketAccounted
  <2>1. Undecided = {}
    BY DEF Init, Idle, Undecided
  <2> QED BY <2>1, FS_EmptySet DEF Init, EveryPacketAccounted
<1> QED BY <1>1, <1>2, <1>3 DEF AnalyzerInv

\* A thread enters: the lock was free.
LEMMA EnterSafe ==
  ASSUME AnalyzerInv, NEW t \in Threads, NEW f \in Frames, Enter(t, f)
  PROVE  AnalyzerInv'
<1> USE DEF control, counters, locals, Goto
<1>1. Shape /\ LockHeld
  BY DEF AnalyzerInv
<1>2. Shape'
  BY <1>1 DEF Enter, Shape, Labels
<1>3. pc[t] = "idle" /\ pc' = [pc EXCEPT ![t] = "parse"] /\ lock = NoThread /\ lock' = t
  BY DEF Enter
<1>4. \A u \in Threads \ {t} : pc[u] = "idle" /\ pc'[u] = "idle"
  BY <1>1, <1>3, OthersIdle DEF Shape
<1>5. pc'[t] = "parse"
  BY <1>1, <1>3 DEF Shape
<1>6. LockHeld'
  BY <1>3, <1>4, <1>5 DEF LockHeld
<1>7. FilterSeen' /\ AcceptedBySomeFilter' /\ MissedBound'
  BY <1>3, <1>4, <1>5 DEF AnalyzerInv, Enter, FilterSeen, AcceptedBySomeFilter, MissedBound
<1>8. EveryPacketAccounted'
  <2>1. packet_count = recorded + filtered + errors + 0
    <3>1. packet_count = recorded + filtered + errors + IF pc[t] \in Open THEN 1 ELSE 0
      BY <1>4, BalanceAt DEF AnalyzerInv
    <3> QED BY <1>3, <3>1 DEF Open
  <2>2. packet_count' = recorded' + filtered' + errors' + 1
    BY <1>1, <2>1 DEF Enter, Shape
  <2>3. packet_count' = recorded' + filtered' + errors' + IF pc'[t] \in Open THEN 1 ELSE 0
    BY <1>5, <2>2 DEF Open
  <2> QED BY <1>4, <2>3, BalanceThen
<1> QED BY <1>2, <1>6, <1>7, <1>8 DEF AnalyzerInv

\* A thread leaves, and the counters say what became of its packet.
LEMMA LeaveSafe ==
  ASSUME AnalyzerInv, NEW t \in Threads, pc[t] # "idle", Leave(t),
         recorded' \in Nat, filtered' \in Nat, errors' \in Nat, spurious' \in Nat,
         recorded' + filtered' + errors' =
           recorded + filtered + errors + IF pc[t] \in Open THEN 1 ELSE 0
  PROVE  AnalyzerInv'
<1> USE DEF control, counters, locals
<1>1. Shape /\ LockHeld
  BY DEF AnalyzerInv
<1>2. Shape'
  <2>1. called' \in [Threads -> Seq(Callbacks)]
    <3>1. <<>> \in Seq(Callbacks) /\ called' = [called EXCEPT ![t] = <<>>]
      BY DEF Leave
    <3> QED BY <1>1, <3>1 DEF Shape
  <2>2. index' \in [Threads -> Nat \ {0}] /\ removals' \in [Threads -> Nat]
    BY <1>1 DEF Leave, Shape
  <2>3. expected' \in [Threads -> SUBSET Callbacks]
    BY <1>1 DEF Leave, Shape
  <2>4. /\ in_force' \in [Threads -> SUBSET (Filters \cup {NoFilter})]
        /\ pc' \in [Threads -> Labels] /\ DOMAIN frame' = Threads
    BY <1>1 DEF Leave, Shape, Labels
  <2>5. /\ lock' \in Threads \cup {NoThread} /\ filter' \in Filters \cup {NoFilter}
        /\ callbacks' \in Seq(Callbacks) /\ packet_count' \in Nat
    BY <1>1 DEF Leave, Shape
  <2> QED BY <2>1, <2>2, <2>3, <2>4, <2>5 DEF Shape
<1>3. pc' = [pc EXCEPT ![t] = "idle"] /\ lock = t /\ lock' = NoThread
  BY <1>1 DEF Leave, LockHeld
<1>4. \A u \in Threads \ {t} : pc[u] = "idle"
  BY <1>1, <1>3, OthersIdle
<1>5. \A u \in Threads : pc'[u] = "idle"
  BY <1>1, <1>3, <1>4 DEF Shape
<1>6. LockHeld' /\ FilterSeen' /\ AcceptedBySomeFilter' /\ MissedBound'
  <2>1. \A u \in Threads : index'[u] = 1
    <3>1. \A u \in Threads \ {t} : index[u] = 1
      BY <1>4 DEF AnalyzerInv, MissedBound
    <3> QED BY <1>1, <3>1 DEF Leave, Shape
  <2> QED
    BY <1>3, <1>5, <2>1, AnalyzerAssumption
    DEF LockHeld, FilterSeen, AcceptedBySomeFilter, MissedBound
<1>7. EveryPacketAccounted'
  <2>1. packet_count = recorded' + filtered' + errors'
    BY <1>4, BalanceAt DEF AnalyzerInv
  <2>2. packet_count' = recorded' + filtered' + errors' + 0
    BY <1>1, <2>1 DEF Leave, Shape
  <2>3. packet_count' = recorded' + filtered' + errors' + IF pc'[t] \in Open THEN 1 ELSE 0
    BY <1>5, <2>2 DEF Open
  <2> QED BY <1>5, <2>3, BalanceThen
<1> QED BY <1>2, <1>6, <1>7 DEF AnalyzerInv

\* A thread goes on inside analyze.
LEMMA GoesOn ==
  ASSUME Shape, LockHeld, NEW t \in Threads, pc[t] # "idle", NEW label \in Labels \ {"idle"},
         pc' = [pc EXCEPT ![t] = label], lock' = lock
  PROVE  /\ pc' \in [Threads -> Labels] /\ pc'[t] = label
         /\ LockHeld'
         /\ \A u \in Threads \ {t} : pc[u] = "idle" /\ pc'[u] = "idle"
<1>1. lock = t
  BY DEF LockHeld
<1>2. \A u \in Threads \ {t} : pc[u] = "idle"
  BY <1>1, OthersIdle
<1>3. /\ pc' \in [Threads -> Labels] /\ pc'[t] = label
      /\ \A u \in Threads \ {t} : pc'[u] = pc[u]
  BY DEF Shape
<1>4. LockHeld'
  BY <1>1, <1>2, <1>3 DEF LockHeld
<1> QED BY <1>2, <1>3, <1>4

\* Parsing the frame keeps the invariant: a packet that fails is counted when its call returns.
LEMMA ParseSafe ==
  ASSUME AnalyzerInv, NEW t \in Threads, Parse(t)
  PROVE  AnalyzerInv'
<1> USE DEF control, counters, locals, Goto
<1>1. Shape /\ LockHeld /\ pc[t] = "parse"
  BY DEF AnalyzerInv, Parse
<1>2. CASE frame[t].raises /\ Fail(t)
  <2>1. /\ Leave(t) /\ recorded' = recorded /\ filtered' = filtered /\ errors' = errors + 1
        /\ spurious' \in Nat
    BY <1>1, <1>2 DEF Fail, Shape
  <2>2. recorded' + filtered' + errors' =
          recorded + filtered + errors + IF pc[t] \in Open THEN 1 ELSE 0
    BY <1>1, <2>1 DEF Open, Shape
  <2>3. recorded' \in Nat /\ filtered' \in Nat /\ errors' \in Nat
    BY <1>1, <2>1 DEF Shape
  <2> QED BY <1>1, <2>1, <2>2, <2>3, LeaveSafe
<1>3. CASE /\ ~frame[t].raises /\ pc' = [pc EXCEPT ![t] = "check"]
           /\ in_force' = [in_force EXCEPT ![t] = {filter}]
           /\ UNCHANGED <<lock, control, counters, frame, index, called, expected, removals>>
  <2>1. /\ pc' \in [Threads -> Labels] /\ pc'[t] = "check" /\ LockHeld'
        /\ \A u \in Threads \ {t} : pc[u] = "idle" /\ pc'[u] = "idle"
    <3>1. "check" \in Labels \ {"idle"}
      BY DEF Labels
    <3> QED BY <1>1, <1>3, <3>1, GoesOn
  <2>2. Shape'
    BY <1>1, <1>3, <2>1 DEF Shape
  <2>3. in_force'[t] = {filter} /\ filter' = filter
    BY <1>1, <1>3 DEF Shape
  <2>4. FilterSeen' /\ AcceptedBySomeFilter' /\ MissedBound'
    BY <1>1, <1>3, <2>1, <2>3 DEF AnalyzerInv, FilterSeen, AcceptedBySomeFilter, MissedBound
  <2>5. EveryPacketAccounted'
    <3>1. packet_count = recorded + filtered + errors + IF pc[t] \in Open THEN 1 ELSE 0
      BY <2>1, BalanceAt DEF AnalyzerInv
    <3>2. packet_count' = recorded' + filtered' + errors' + IF pc'[t] \in Open THEN 1 ELSE 0
      BY <1>1, <1>3, <2>1, <3>1 DEF Open
    <3> QED BY <2>1, <3>2, BalanceThen
  <2> QED BY <2>1, <2>2, <2>4, <2>5 DEF AnalyzerInv
<1> QED BY <1>2, <1>3 DEF Parse

\* No filter: that there was none has been seen, which lets the packet through.
LEMMA CheckFilterSafe ==
  ASSUME AnalyzerInv, NEW t \in Threads, CheckFilter(t)
  PROVE  AnalyzerInv'
<1> USE DEF control, counters, locals, Goto
<1> DEFINE label == IF filter = NoFilter THEN "record" ELSE "match"
<1>1. /\ Shape /\ LockHeld /\ pc[t] = "check" /\ pc' = [pc EXCEPT ![t] = label]
      /\ UNCHANGED <<lock, control, counters, frame, index, in_force, called, expected, removals>>
  BY DEF AnalyzerInv, CheckFilter
<1>2. /\ pc' \in [Threads -> Labels] /\ pc'[t] = label /\ LockHeld'
      /\ \A u \in Threads \ {t} : pc[u] = "idle" /\ pc'[u] = "idle"
  <2>1. label \in Labels \ {"idle"}
    BY DEF Labels
  <2> HIDE DEF label
  <2> QED BY <1>1, <2>1, GoesOn
<1>3. Shape'
  BY <1>1, <1>2 DEF Shape
<1>4. filter \in in_force[t]
  BY <1>1 DEF AnalyzerInv, FilterSeen
<1>5. FilterSeen' /\ AcceptedBySomeFilter' /\ MissedBound'
  BY <1>1, <1>2, <1>4 DEF AnalyzerInv, FilterSeen, AcceptedBySomeFilter, MissedBound
<1>6. EveryPacketAccounted'
  <2>1. packet_count = recorded + filtered + errors + IF pc[t] \in Open THEN 1 ELSE 0
    BY <1>2, BalanceAt DEF AnalyzerInv
  <2>2. packet_count' = recorded' + filtered' + errors' + IF pc'[t] \in Open THEN 1 ELSE 0
    BY <1>1, <1>2, <2>1 DEF Open
  <2> QED BY <1>2, <2>2, BalanceThen
<1> QED BY <1>2, <1>3, <1>5, <1>6 DEF AnalyzerInv

\* The filter that is asked is in force, so what it accepts is accepted by one in force.
LEMMA MatchFilterSafe ==
  ASSUME AnalyzerInv, NEW t \in Threads, MatchFilter(t)
  PROVE  AnalyzerInv'
<1> USE DEF control, counters, locals, Goto
<1>1. Shape /\ LockHeld /\ pc[t] = "match"
  BY DEF AnalyzerInv, MatchFilter
<1>2. CASE filter = NoFilter /\ Fail(t)
  <2>1. /\ Leave(t) /\ recorded' = recorded /\ filtered' = filtered /\ errors' = errors + 1
        /\ spurious' \in Nat
    BY <1>1, <1>2 DEF Fail, Shape
  <2>2. recorded' + filtered' + errors' =
          recorded + filtered + errors + IF pc[t] \in Open THEN 1 ELSE 0
    BY <1>1, <2>1 DEF Open, Shape
  <2>3. recorded' \in Nat /\ filtered' \in Nat /\ errors' \in Nat
    BY <1>1, <2>1 DEF Shape
  <2> QED BY <1>1, <2>1, <2>2, <2>3, LeaveSafe
<1>3. CASE /\ filter \in frame[t].matches /\ pc' = [pc EXCEPT ![t] = "record"]
           /\ UNCHANGED <<lock, control, counters, frame, index, in_force, called, expected, removals>>
  <2>1. /\ pc' \in [Threads -> Labels] /\ pc'[t] = "record" /\ LockHeld'
        /\ \A u \in Threads \ {t} : pc[u] = "idle" /\ pc'[u] = "idle"
    <3>1. "record" \in Labels \ {"idle"}
      BY DEF Labels
    <3> QED BY <1>1, <1>3, <3>1, GoesOn
  <2>2. Shape'
    BY <1>1, <1>3, <2>1 DEF Shape
  <2>3. filter \in in_force[t] \cap frame[t].matches
    BY <1>1, <1>3 DEF AnalyzerInv, FilterSeen
  <2>4. FilterSeen' /\ AcceptedBySomeFilter' /\ MissedBound'
    BY <1>1, <1>3, <2>1, <2>3 DEF AnalyzerInv, FilterSeen, AcceptedBySomeFilter, MissedBound
  <2>5. EveryPacketAccounted'
    <3>1. packet_count = recorded + filtered + errors + IF pc[t] \in Open THEN 1 ELSE 0
      BY <2>1, BalanceAt DEF AnalyzerInv
    <3>2. packet_count' = recorded' + filtered' + errors' + IF pc'[t] \in Open THEN 1 ELSE 0
      BY <1>1, <1>3, <2>1, <3>1 DEF Open
    <3> QED BY <2>1, <3>2, BalanceThen
  <2> QED BY <2>1, <2>2, <2>4, <2>5 DEF AnalyzerInv
<1>4. CASE /\ filter \in Filters \ frame[t].matches /\ Leave(t)
           /\ filtered' = filtered + 1 /\ UNCHANGED <<recorded, errors, spurious>>
  <2>1. recorded' + filtered' + errors' =
          recorded + filtered + errors + IF pc[t] \in Open THEN 1 ELSE 0
    BY <1>1, <1>4 DEF Open, Shape
  <2>2. recorded' \in Nat /\ filtered' \in Nat /\ errors' \in Nat /\ spurious' \in Nat
    BY <1>1, <1>4 DEF Shape
  <2> QED BY <1>1, <1>4, <2>1, <2>2, LeaveSafe
<1> QED BY <1>2, <1>3, <1>4 DEF MatchFilter

\* The loop starts with everything registered in front of it.
LEMMA RecordSafe ==
  ASSUME AnalyzerInv, NEW t \in Threads, Record(t)
  PROVE  AnalyzerInv'
<1> USE DEF control, counters, locals, Goto
<1>1. /\ Shape /\ LockHeld /\ pc[t] = "record" /\ pc' = [pc EXCEPT ![t] = "dispatch"]
      /\ lock' = lock /\ index' = index /\ called' = called /\ removals' = removals
      /\ callbacks' = callbacks /\ expected' = [expected EXCEPT ![t] = ToSet(callbacks)]
  BY DEF AnalyzerInv, Record
<1>2. /\ pc' \in [Threads -> Labels] /\ pc'[t] = "dispatch" /\ LockHeld'
      /\ \A u \in Threads \ {t} : pc[u] = "idle" /\ pc'[u] = "idle"
  <2>1. "dispatch" \in Labels \ {"idle"}
    BY DEF Labels
  <2> QED BY <1>1, <2>1, GoesOn
<1>3. Shape'
  <2>1. ToSet(callbacks) \in SUBSET Callbacks
    BY <1>1 DEF Shape, ToSet
  <2>2. expected' \in [Threads -> SUBSET Callbacks]
    BY <1>1, <2>1 DEF Shape
  <2> QED BY <1>1, <1>2, <2>2 DEF Record, Shape
<1>4. FilterSeen' /\ AcceptedBySomeFilter'
  BY <1>1, <1>2 DEF AnalyzerInv, Record, FilterSeen, AcceptedBySomeFilter
<1>5. MissedBound'
  <2>1. index[t] = 1 /\ expected'[t] = ToSet(callbacks)
    BY <1>1 DEF AnalyzerInv, MissedBound, Shape
  <2>2. MissedBy(ToSet(callbacks), ToSet(called[t]), 1, callbacks) = {}
    BY <1>1 DEF MissedBy, ToSet, Shape
  <2>3. Cardinality(Missed(t)') <= removals'[t]
    <3>1. Missed(t)' = {}
      BY <1>1, <2>1, <2>2 DEF Missed
    <3>2. removals'[t] \in Nat
      BY <1>3 DEF Shape
    <3> QED BY <3>1, <3>2, FS_EmptySet
  <2>4. ASSUME NEW u \in Threads \ {t} PROVE index'[u] = 1
    BY <1>1, <1>2 DEF AnalyzerInv, MissedBound
  <2> QED BY <1>1, <1>2, <2>1, <2>3, <2>4 DEF MissedBound
<1>6. EveryPacketAccounted'
  <2>1. packet_count = recorded + filtered + errors + 1
    <3>1. packet_count = recorded + filtered + errors + IF pc[t] \in Open THEN 1 ELSE 0
      BY <1>2, BalanceAt DEF AnalyzerInv
    <3> QED BY <1>1, <3>1 DEF Open
  <2>2. packet_count' = recorded' + filtered' + errors' + 0
    BY <1>1, <2>1 DEF Record, Shape
  <2>3. packet_count' = recorded' + filtered' + errors' + IF pc'[t] \in Open THEN 1 ELSE 0
    BY <1>2, <2>2 DEF Open
  <2> QED BY <1>2, <2>3, BalanceThen
<1> QED BY <1>2, <1>3, <1>4, <1>5, <1>6 DEF AnalyzerInv

\* What Unregister does for every thread in the loop.
LEMMA UnregisterMisses ==
  ASSUME Shape, NEW cb \in ToSet(callbacks), Unregister(cb), NEW t \in Threads,
         pc[t] = "dispatch", NEW n \in Nat \ {0}, NEW K, expected[t] \subseteq ToSet(callbacks),
         Cardinality(MissedBy(expected[t], K, n, callbacks)) <= removals[t]
  PROVE  /\ callbacks' \in Seq(Callbacks)
         /\ expected'[t] \subseteq ToSet(callbacks')
         /\ Cardinality(MissedBy(expected'[t], K, n, callbacks')) <= removals'[t]
<1>1. /\ callbacks \in Seq(Callbacks) /\ removals[t] \in Nat
      /\ callbacks' = RemoveFirst(callbacks, cb)
      /\ expected'[t] = expected[t] \cap ToSet(callbacks')
      /\ removals'[t] = removals[t] + 1
  BY DEF Shape, Unregister
<1>2. callbacks' \in Seq(Callbacks)
  BY <1>1, RemovalShifts
<1>3. /\ Cardinality(MissedBy(expected[t], K, n, callbacks)) \in Nat
      /\ Cardinality(MissedBy(expected'[t], K, n, callbacks')) \in Nat
      /\ Cardinality(MissedBy(expected'[t], K, n, callbacks'))
           <= Cardinality(MissedBy(expected[t], K, n, callbacks)) + 1
  BY <1>1, RemovalMissesOne
<1> QED BY <1>1, <1>2, <1>3

\* Unregister keeps the shape of what it changes.
LEMMA UnregisterShape ==
  ASSUME Shape, NEW cb \in ToSet(callbacks), Unregister(cb)
  PROVE  /\ callbacks' \in Seq(Callbacks)
         /\ expected' \in [Threads -> SUBSET Callbacks]
         /\ removals' \in [Threads -> Nat]
<1>1. callbacks' \in Seq(Callbacks)
  BY RemovalShifts DEF Shape, Unregister
<1>2. expected' = [t \in Threads |-> expected[t] \cap ToSet(callbacks')]
  BY DEF Unregister
<1>3. removals' \in [Threads -> Nat]
  BY DEF Shape, Unregister
<1> QED BY <1>1, <1>2, <1>3 DEF Shape

\* One turn of the loop: the callback at the index is called, so it is not missed; if it
\* removes itself, the one that moves to its place may be.
LEMMA CallOneSafe ==
  ASSUME AnalyzerInv, NEW t \in Threads, CallOne(t)
  PROVE  AnalyzerInv'
<1> USE DEF control, counters, locals
<1> DEFINE n  == index[t]
           cb == callbacks[n]
           K  == ToSet(called[t])
           E  == expected[t]
<1>1. /\ Shape /\ LockHeld /\ pc[t] = "dispatch" /\ n \in 1..Len(callbacks)
      /\ called' = [called EXCEPT ![t] = Append(@, cb)]
      /\ index' = [index EXCEPT ![t] = @ + 1]
      /\ UNCHANGED <<lock, filter, counters, pc, frame, in_force>>
  BY DEF AnalyzerInv, CallOne, Shape
<1>2. \/ cb \in OneShot /\ Unregister(cb)
      \/ cb \notin OneShot /\ UNCHANGED <<callbacks, expected, removals>>
  BY DEF CallOne
<1>3. cb \in ToSet(callbacks) /\ cb \in Callbacks
  BY <1>1 DEF Shape, ToSet
<1>4. \A u \in Threads \ {t} : pc[u] = "idle"
  BY <1>1, OthersIdle DEF LockHeld
<1>5. /\ callbacks' \in Seq(Callbacks) /\ expected' \in [Threads -> SUBSET Callbacks]
      /\ removals' \in [Threads -> Nat]
  BY <1>1, <1>2, <1>3, UnregisterShape DEF Shape
<1>6. /\ called' \in [Threads -> Seq(Callbacks)] /\ called'[t] = Append(called[t], cb)
      /\ index' \in [Threads -> Nat \ {0}] /\ index'[t] = n + 1
      /\ \A u \in Threads \ {t} : index'[u] = index[u]
  BY <1>1, <1>3 DEF Shape
<1>7. Shape'
  BY <1>1, <1>5, <1>6 DEF Shape
<1>8. LockHeld' /\ FilterSeen' /\ AcceptedBySomeFilter' /\ EveryPacketAccounted'
  BY <1>1 DEF AnalyzerInv, LockHeld, FilterSeen, AcceptedBySomeFilter, EveryPacketAccounted,
              Undecided
<1>9. MissedBound'
  <2>1. E \subseteq ToSet(callbacks) /\ Cardinality(MissedBy(E, K, n, callbacks)) <= removals[t]
    BY <1>1 DEF AnalyzerInv, MissedBound, Missed
  <2>2. ToSet(called'[t]) = K \cup {cb}
    BY <1>1, <1>3, <1>6, InList DEF Shape
  <2>3. MissedBy(E, K \cup {cb}, n + 1, callbacks) = MissedBy(E, K, n, callbacks)
    BY <1>1 DEF MissedBy
  <2>4. Cardinality(MissedBy(E, K \cup {cb}, n + 1, callbacks)) <= removals[t]
    BY <2>1, <2>3
  <2>5. /\ expected'[t] \subseteq ToSet(callbacks')
        /\ Cardinality(MissedBy(expected'[t], K \cup {cb}, n + 1, callbacks')) <= removals'[t]
    <3>1. CASE Unregister(cb)
      <4>1. n + 1 \in Nat \ {0}
        BY <1>1
      <4> HIDE DEF n, cb, K, E
      <4> QED BY <1>1, <1>3, <2>1, <2>4, <3>1, <4>1, UnregisterMisses DEF E
    <3>2. CASE UNCHANGED <<callbacks, expected, removals>>
      BY <2>1, <2>4, <3>2
    <3> QED BY <1>2, <3>1, <3>2
  <2>6. Cardinality(Missed(t)') <= removals'[t]
    BY <1>6, <2>2, <2>5 DEF Missed
  <2>7. \A u \in Threads \ {t} : pc'[u] # "dispatch" /\ index'[u] = 1
    BY <1>1, <1>4, <1>6 DEF AnalyzerInv, MissedBound
  <2> QED BY <1>1, <2>5, <2>6, <2>7 DEF MissedBound
<1> QED BY <1>7, <1>8, <1>9 DEF AnalyzerInv

\* Leaving analyze keeps the invariant: the lock is free again and the packet is in one of the counts.
LEMMA ReturnSafe ==
  ASSUME AnalyzerInv, NEW t \in Threads, Return(t)
  PROVE  AnalyzerInv'
<1>1. /\ Shape /\ pc[t] = "dispatch" /\ Leave(t)
      /\ UNCHANGED <<recorded, filtered, errors, spurious>>
  BY DEF AnalyzerInv, Return
<1>2. recorded' + filtered' + errors' =
        recorded + filtered + errors + IF pc[t] \in Open THEN 1 ELSE 0
  BY <1>1 DEF Open, Shape
<1>3. recorded' \in Nat /\ filtered' \in Nat /\ errors' \in Nat /\ spurious' \in Nat
  BY <1>1 DEF Shape
<1> QED BY <1>1, <1>2, <1>3, LeaveSafe

\* A new filter is seen by whoever has looked at the old one.
LEMMA SetFilterSafe ==
  ASSUME AnalyzerInv, NEW f \in Filters \cup {NoFilter}, SetFilter(f)
  PROVE  AnalyzerInv'
<1> USE DEF control, counters, locals
<1>1. /\ Shape /\ filter' = f
      /\ UNCHANGED <<lock, callbacks, counters, pc, frame, index, called, expected, removals>>
      /\ in_force' = [t \in Threads |-> IF in_force[t] = {} THEN {} ELSE in_force[t] \cup {f}]
  BY DEF AnalyzerInv, SetFilter
<1>2. Shape'
  <2>1. in_force' \in [Threads -> SUBSET (Filters \cup {NoFilter})]
    BY <1>1 DEF Shape
  <2> QED BY <1>1, <2>1 DEF Shape
<1>3. FilterSeen' /\ AcceptedBySomeFilter'
  BY <1>1 DEF AnalyzerInv, FilterSeen, AcceptedBySomeFilter
<1>4. LockHeld' /\ EveryPacketAccounted' /\ MissedBound'
  BY <1>1 DEF AnalyzerInv, LockHeld, EveryPacketAccounted, Undecided, MissedBound, Missed
<1> QED BY <1>2, <1>3, <1>4 DEF AnalyzerInv

\* A callback added during the loop comes behind every index.
LEMMA AddCallbackSafe ==
  ASSUME AnalyzerInv, NEW cb \in Callbacks, AddCallback(cb)
  PROVE  AnalyzerInv'
<1> USE DEF control, counters, locals
<1>1. /\ Shape /\ callbacks' = Append(callbacks, cb)
      /\ UNCHANGED <<lock, filter, counters, locals>>
  BY DEF AnalyzerInv, AddCallback
<1>2. Shape'
  BY <1>1 DEF Shape
<1>3. LockHeld' /\ FilterSeen' /\ AcceptedBySomeFilter' /\ EveryPacketAccounted'
  BY <1>1 DEF AnalyzerInv, LockHeld, FilterSeen, AcceptedBySomeFilter, EveryPacketAccounted,
              Undecided
<1>4. MissedBound'
  <2> SUFFICES ASSUME NEW t \in Threads, pc[t] = "dispatch"
               PROVE  /\ expected[t] \subseteq ToSet(callbacks')
                      /\ Cardinality(Missed(t)') <= removals[t]
    BY <1>1 DEF AnalyzerInv, MissedBound
  <2>1. /\ expected[t] \subseteq ToSet(callbacks)
        /\ Cardinality(Missed(t)) <= removals[t]
    BY DEF AnalyzerInv, MissedBound
  <2>2. IsFiniteSet(ToSet(callbacks)) /\ ToSet(callbacks') = ToSet(callbacks) \cup {cb}
    BY <1>1, InList DEF Shape
  <2>3. Missed(t)' \in SUBSET Missed(t)
    <3>1. \A i \in 1..Len(callbacks) : i \in 1..Len(callbacks') /\ callbacks'[i] = callbacks[i]
      BY <1>1 DEF Shape
    <3>2. \A i \in index[t]..Len(callbacks) : i \in index[t]..Len(callbacks') /\ i \in 1..Len(callbacks)
      BY <1>1 DEF Shape
    <3> QED BY <1>1, <3>1, <3>2 DEF Missed, MissedBy
  <2>4. Missed(t) \in SUBSET ToSet(callbacks)
    BY <2>1 DEF Missed, MissedBy
  <2>5. IsFiniteSet(Missed(t))
    BY <2>2, <2>4, FS_Subset
  <2>6. /\ Cardinality(Missed(t)') <= Cardinality(Missed(t))
        /\ Cardinality(Missed(t)) \in Nat /\ Cardinality(Missed(t)') \in Nat
    BY <2>3, <2>5, FS_Subset, FS_CardinalityType
  <2>7. removals[t] \in Nat
    BY <1>1 DEF Shape
  <2> QED BY <2>1, <2>2, <2>6, <2>7
<1> QED BY <1>2, <1>3, <1>4 DEF AnalyzerInv

\* Removing a callback keeps the invariant: it shifts the list under a running loop by one.
LEMMA RemoveCallbackSafe ==
  ASSUME AnalyzerInv, NEW cb \in Callbacks, RemoveCallback(cb)
  PROVE  AnalyzerInv'
<1> USE DEF control, counters, locals
<1>1. /\ Shape /\ cb \in ToSet(callbacks) /\ Unregister(cb)
      /\ UNCHANGED <<lock, filter, counters, pc, frame, index, in_force, called>>
  BY DEF AnalyzerInv, RemoveCallback
<1>2. Shape'
  BY <1>1, UnregisterShape DEF Shape
<1>3. LockHeld' /\ FilterSeen' /\ AcceptedBySomeFilter' /\ EveryPacketAccounted'
  BY <1>1 DEF AnalyzerInv, LockHeld, FilterSeen, AcceptedBySomeFilter, EveryPacketAccounted,
              Undecided
<1>4. MissedBound'
  <2> SUFFICES ASSUME NEW t \in Threads, pc[t] = "dispatch"
               PROVE  /\ expected'[t] \subseteq ToSet(callbacks')
                      /\ Cardinality(Missed(t)') <= removals'[t]
    BY <1>1 DEF AnalyzerInv, MissedBound
  <2>1. /\ expected[t] \subseteq ToSet(callbacks)
        /\ Cardinality(MissedBy(expected[t], ToSet(called[t]), index[t], callbacks)) <= removals[t]
        /\ index[t] \in Nat \ {0}
    BY DEF AnalyzerInv, MissedBound, Missed, Shape
  <2>2. /\ expected'[t] \subseteq ToSet(callbacks')
        /\ Cardinality(MissedBy(expected'[t], ToSet(called[t]), index[t], callbacks')) <= removals'[t]
    BY <1>1, <2>1, UnregisterMisses
  <2> QED BY <1>1, <2>2 DEF Missed
<1> QED BY <1>2, <1>3, <1>4 DEF AnalyzerInv

\* reset, which takes the lock, keeps the invariant: it starts the counts again.
LEMMA ResetSafe ==
  ASSUME AnalyzerInv, Reset
  PROVE  AnalyzerInv'
<1> USE DEF control, locals
<1>1. /\ Shape /\ LockHeld /\ lock = NoThread /\ UNCHANGED <<lock, control, locals>>
      /\ packet_count' = 0 /\ recorded' = 0 /\ filtered' = 0 /\ errors' = 0 /\ spurious' = 0
  BY DEF AnalyzerInv, Reset
<1>2. Shape'
  BY <1>1 DEF Shape
<1>3. LockHeld' /\ FilterSeen' /\ AcceptedBySomeFilter' /\ MissedBound'
  BY <1>1 DEF AnalyzerInv, LockHeld, FilterSeen, AcceptedBySomeFilter, MissedBound, Missed
<1>4. EveryPacketAccounted'
  <2>1. Undecided' = {}
    BY <1>1, AnalyzerAssumption DEF LockHeld, Undecided
  <2> QED BY <1>1, <2>1, FS_EmptySet DEF EveryPacketAccounted
<1> QED BY <1>2, <1>3, <1>4 DEF AnalyzerInv

\* Every step of the analyzer keeps the invariant.
LEMMA StepSafe == AnalyzerInv /\ [Next]_vars => AnalyzerInv'
<1> SUFFICES ASSUME AnalyzerInv, [Next]_vars PROVE AnalyzerInv'
  OBVIOUS
<1>1. CASE \E t \in Threads : Analyze(t)
  BY <1>1, ParseSafe, CheckFilterSafe, MatchFilterSafe, RecordSafe, CallOneSafe, ReturnSafe
  DEF Analyze
<1>2. CASE \E t \in Threads, f \in Frames : Enter(t, f)
  BY <1>2, EnterSafe
<1>3. CASE \E f \in Filters \cup {NoFilter} : SetFilter(f)
  BY <1>3, SetFilterSafe
<1>4. CASE \E cb \in Callbacks : AddCallback(cb)
  BY <1>4, AddCallbackSafe
<1>5. CASE \E cb \in Callbacks : RemoveCallback(cb)
  BY <1>5, RemoveCallbackSafe
<1>6. CASE Reset
  BY <1>6, ResetSafe
<1>7. CASE UNCHANGED vars
  <2>1. UNCHANGED <<lock, control, counters, locals>>
    BY <1>7 DEF vars
  <2> QED
    BY <2>1
    DEF control, counters, locals, AnalyzerInv, Shape, LockHeld, FilterSeen, EveryPacketAccounted,
        Undecided, AcceptedBySomeFilter, MissedBound, Missed
<1> QED BY <1>1, <1>2, <1>3, <1>4, <1>5, <1>6, <1>7 DEF Next

-----------------------------------------------------------------------------
\* The invariant holds in every state.
LEMMA AlwaysSafe == Spec => []AnalyzerInv
BY InitSafe, StepSafe, PTL DEF Spec

\* Every packet that analyze has numbered is in the statistics, was filtered out, failed, or is
\* being analyzed, exactly once, whatever filters and callbacks are changed meanwhile.
THEOREM PacketsAccounted == Spec => []EveryPacketAccounted
<1>1. AnalyzerInv => EveryPacketAccounted
  BY DEF AnalyzerInv
<1> QED BY AlwaysSafe, <1>1, PTL

\* What reaches the statistics was acceptable to a filter in force during its analysis,
\* although analyze looks at the filter twice and without a lock.
THEOREM SomeFilterAccepts == Spec => []AcceptedBySomeFilter
<1>1. AnalyzerInv => AcceptedBySomeFilter
  BY DEF AnalyzerInv
<1> QED BY AlwaysSafe, <1>1, PTL

\* A loop over the live list of callbacks misses no more of those that stay registered than
\* were removed while it ran.
THEOREM MissesAtMostRemovals == Spec => []SkipsAtMostRemovals
<1>1. AnalyzerInv => SkipsAtMostRemovals
  <2> SUFFICES ASSUME AnalyzerInv, NEW t \in Threads, pc[t] = "dispatch", index[t] > Len(callbacks)
               PROVE  Cardinality(expected[t] \ ToSet(called[t])) <= removals[t]
    BY DEF SkipsAtMostRemovals
  <2>1. index[t] \in Nat /\ callbacks \in Seq(Callbacks)
    BY DEF AnalyzerInv, Shape
  <2>2. index[t]..Len(callbacks) = {}
    BY <2>1
  <2>3. Missed(t) = expected[t] \ ToSet(called[t])
    BY <2>2 DEF Missed, MissedBy
  <2> QED BY <2>3 DEF AnalyzerInv, MissedBound
<1> QED BY AlwaysSafe, <1>1, PTL
=============================================================================
