--------------------- MODULE TCPStreamReassembler_proofs ---------------------
(***************************************************************************)
(* The connection table, for any number of threads and any set of          *)
(* segments: its balance, what opens a connection, when one expires, and   *)
(* the types of what it holds.                                             *)
(***************************************************************************)
EXTENDS TCPStreamReassembler, FiniteSetTheorems, SequenceTheorems, WellFoundedInduction, TLAPS

Counters == {"total_connections", "established_connections",
             "closed_connections", "timed_out_connections"}

\* What the balance needs to know of the state: the table is finite, and the
\* counters that appear in it are numbers.  (The two data counters are left out.)
TableOK ==
  /\ IsFiniteSet(DOMAIN connections)
  /\ stats = [name \in StatNames |-> stats[name]]
  /\ \A c \in Counters : stats[c] \in Nat

Handshaking(table) ==
  {k \in DOMAIN table : table[k].state \in {"SYN_SENT", "SYN_RECV"}}

\* The state machine leaves "CLOSED" only into the handshake, and only the handshake
\* leads to "ESTABLISHED".
LEMMA StateSteps ==
  ASSUME NEW conn, NEW tcp
  PROVE  LET next == UpdateState(conn, tcp)
         IN  /\ next = "ESTABLISHED" => conn.state \in {"SYN_SENT", "SYN_RECV", "ESTABLISHED"}
             /\ next \in {"SYN_SENT", "SYN_RECV"} =>
                  conn.state \in {"CLOSED", "SYN_SENT", "SYN_RECV"}
<1>1. CASE tcp.rst \/ BothFinished(conn)
  BY <1>1 DEF UpdateState
<1>2. CASE ~(tcp.rst \/ BothFinished(conn))
  <2>1. UpdateState(conn, tcp) = Handshake(conn.state, tcp)
    BY <1>2 DEF UpdateState
  <2>2. CASE conn.state \in {"CLOSED", "SYN_SENT", "SYN_RECV", "ESTABLISHED"}
    BY <2>1, <2>2 DEF Handshake
  <2>3. CASE conn.state \notin {"CLOSED", "SYN_SENT", "SYN_RECV", "ESTABLISHED"}
    <3>1. Handshake(conn.state, tcp) = conn.state
      BY <2>3 DEF Handshake
    <3> QED BY <2>1, <2>3, <3>1
  <2> QED BY <2>2, <2>3
<1> QED BY <1>1, <1>2

OnlyOpen == \A k \in Active : connections[k].state # "CLOSED"

Balanced == TableOK /\ OnlyOpen /\ ConnectionBalance /\ EstablishedBound

\* The empty table balances.
LEMMA InitBalanced == Init => Balanced
<1> SUFFICES ASSUME Init PROVE Balanced
  OBVIOUS
<1>1. DOMAIN connections = {} /\ stats = ZeroStats
  BY DEF Init
<1>2. \A k \in DOMAIN connections : FALSE
  BY <1>1
<1>3. {k \in Active : connections[k].state \in {"SYN_SENT", "SYN_RECV"}} = {}
  BY <1>1 DEF Active
<1> QED
  BY <1>1, <1>2, <1>3, FS_EmptySet
  DEF Balanced, TableOK, OnlyOpen, ConnectionBalance, EstablishedBound, Active, Counters,
      ZeroStats, StatNames

\* reset empties the table and the counters together, so they balance again.
LEMMA ResetBalanced == Reset => Balanced'
<1> SUFFICES ASSUME Reset PROVE Balanced'
  OBVIOUS
<1>1. DOMAIN connections' = {} /\ stats' = ZeroStats
  BY DEF Reset
<1>2. Active' = {} /\ {k \in Active' : connections'[k].state \in {"SYN_SENT", "SYN_RECV"}} = {}
  BY <1>1 DEF Active
<1> QED
  BY <1>1, <1>2, FS_EmptySet
  DEF Balanced, TableOK, OnlyOpen, ConnectionBalance, EstablishedBound, Counters,
      ZeroStats, StatNames

\* Expired connections move from the table to the timed-out counter.
LEMMA CleanupBalanced ==
  ASSUME Balanced, NEW t \in Threads, CleanupExpired(t)
  PROVE  Balanced'
<1> DEFINE expired == {k \in DOMAIN connections : Idle(connections[k], now[t])}
           left    == DOMAIN connections \ expired
<1>1. /\ IsFiniteSet(DOMAIN connections) /\ stats = [name \in StatNames |-> stats[name]]
      /\ \A c \in Counters : stats[c] \in Nat
  BY DEF Balanced, TableOK
<1>2. /\ connections' = [k \in left |-> connections[k]]
      /\ stats' = [stats EXCEPT !.timed_out_connections = @ + Cardinality(expired)]
  BY DEF CleanupExpired, Restrict
<1> HIDE DEF expired
<1>3. expired \subseteq DOMAIN connections
  BY DEF expired
<1>4. /\ IsFiniteSet(expired) /\ Cardinality(expired) \in Nat /\ IsFiniteSet(left)
      /\ Cardinality(left) = Cardinality(DOMAIN connections) - Cardinality(expired)
      /\ Cardinality(DOMAIN connections) \in Nat
  <2>1. DOMAIN connections \cap expired = expired
    BY <1>3
  <2>2. IsFiniteSet(expired) /\ IsFiniteSet(left)
    BY <1>1, <1>3, FS_Subset
  <2>3. Cardinality(left) = Cardinality(DOMAIN connections) - Cardinality(expired)
    <3>1. Cardinality(DOMAIN connections \ expired) =
            Cardinality(DOMAIN connections) - Cardinality(DOMAIN connections \cap expired)
      BY <1>1, FS_Difference
    <3> QED BY <2>1, <3>1
  <2>4. Cardinality(expired) \in Nat /\ Cardinality(DOMAIN connections) \in Nat
    BY <1>1, <2>2, FS_CardinalityType
  <2> QED BY <2>2, <2>3, <2>4
<1>5. DOMAIN connections' = left
  BY <1>2
<1>6. /\ stats' = [name \in StatNames |-> stats'[name]]
      /\ stats'.timed_out_connections = stats.timed_out_connections + Cardinality(expired)
      /\ \A c \in Counters \ {"timed_out_connections"} : stats'[c] = stats[c]
  BY <1>1, <1>2 DEF Counters, StatNames
<1>7. TableOK' /\ OnlyOpen'
  <2>1. OnlyOpen'
    BY <1>2, <1>5 DEF Balanced, OnlyOpen, Active
  <2>2. \A c \in Counters : stats'[c] \in Nat
    BY <1>1, <1>4, <1>6 DEF Counters
  <2> QED BY <1>4, <1>5, <1>6, <2>1, <2>2 DEF TableOK
<1>8. ConnectionBalance'
  <2>1. /\ stats'.total_connections = stats.total_connections
        /\ stats'.closed_connections = stats.closed_connections
        /\ stats.closed_connections \in Nat /\ stats.timed_out_connections \in Nat
    BY <1>1, <1>6 DEF Counters
  <2>2. stats.total_connections = Cardinality(DOMAIN connections)
          + stats.closed_connections + stats.timed_out_connections
    BY DEF Balanced, ConnectionBalance, Active
  <2>3. stats.total_connections =
          Cardinality(left) + stats.closed_connections
            + (stats.timed_out_connections + Cardinality(expired))
    BY <1>4, <2>1, <2>2
  <2>4. stats'.total_connections = Cardinality(DOMAIN connections')
          + stats'.closed_connections + stats'.timed_out_connections
    BY <1>5, <1>6, <2>1, <2>3
  <2> QED BY <2>4 DEF ConnectionBalance, Active
<1>9. EstablishedBound'
  <2> DEFINE H == {k \in DOMAIN connections : connections[k].state \in {"SYN_SENT", "SYN_RECV"}}
             K == {k \in DOMAIN connections' : connections'[k].state \in {"SYN_SENT", "SYN_RECV"}}
  <2>1. K \subseteq H /\ H \subseteq DOMAIN connections
    BY <1>2, <1>5
  <2> HIDE DEF H, K
  <2>2. Cardinality(K) \in Nat /\ Cardinality(H) \in Nat /\ Cardinality(K) <= Cardinality(H)
    BY <1>1, <2>1, FS_Subset, FS_CardinalityType
  <2>3. stats.established_connections + Cardinality(H) <= stats.total_connections
    BY DEF Balanced, EstablishedBound, Active, H
  <2>4. stats'.established_connections + Cardinality(K) <= stats'.total_connections
    BY <1>1, <1>6, <2>2, <2>3 DEF Counters
  <2> QED BY <2>4 DEF EstablishedBound, Active, K
<1> QED BY <1>7, <1>8, <1>9 DEF Balanced

\* A handled segment opens a connection, closes one, or moves one along; an opened
\* one is counted before it can be closed by the same segment.
LEMMA HandleBalanced ==
  ASSUME Balanced, NEW t \in Threads, Handle(t)
  PROVE  Balanced'
<1> DEFINE tcp    == call[t]
           key    == FiveTuple(tcp.src, tcp.dst)
           table  == DOMAIN connections
           fresh  == key \notin table
           before == IF fresh THEN NewConnection ELSE connections[key]
           result == ProcessSegment(before, Direction(key, tcp.src), tcp, clock)
           after  == result.conn
<1>1. /\ IsFiniteSet(table) /\ stats = [name \in StatNames |-> stats[name]]
      /\ \A c \in Counters : stats[c] \in Nat
  BY DEF Balanced, TableOK
<1>2. connections' = IF after.state = "CLOSED"
                     THEN [k \in table \ {key} |-> connections[k]]
                     ELSE [k \in table \cup {key} |-> IF k = key THEN after ELSE connections[k]]
  BY DEF Handle, IsClosed, Restrict
<1>3. after.state = UpdateState(before, tcp)
  BY DEF ProcessSegment
<1>4. before.state = IF fresh THEN "CLOSED" ELSE connections[key].state
  BY DEF NewConnection
<1>5. /\ stats' = [name \in StatNames |-> stats'[name]]
      /\ stats'.total_connections = stats.total_connections + One(fresh)
      /\ stats'.established_connections =
           stats.established_connections + One(before.state # "ESTABLISHED" /\ after.state = "ESTABLISHED")
      /\ stats'.closed_connections = stats.closed_connections + One(after.state = "CLOSED")
      /\ stats'.timed_out_connections = stats.timed_out_connections
  <2> DEFINE ooo == stats.out_of_order_segments + after.half["c2s"].out_of_order_count
                      + after.half["s2c"].out_of_order_count
             dup == stats.duplicate_bytes + after.half["c2s"].duplicate_bytes
                      + after.half["s2c"].duplicate_bytes
  <2>1. stats' = [stats EXCEPT
           !.total_segments          = @ + 1,
           !.total_connections       = @ + One(fresh),
           !.established_connections = @ + One(~IsEstablished(before) /\ IsEstablished(after)),
           !.closed_connections      = @ + One(IsClosed(after)),
           !.out_of_order_segments   = ooo,
           !.duplicate_bytes         = dup]
    BY DEF Handle
  <2> HIDE DEF ooo, dup, after, fresh, before
  <2> QED BY <1>1, <2>1 DEF StatNames, IsEstablished, IsClosed
<1> HIDE DEF after, before, key, tcp
<1>7. /\ IsFiniteSet(table \cup {key}) /\ IsFiniteSet(table \ {key})
      /\ Cardinality(table) \in Nat
      /\ Cardinality(table \cup {key}) = Cardinality(table) + One(fresh)
      /\ Cardinality(table \ {key}) = Cardinality(table) - 1 + One(fresh)
  <2>1. Cardinality(table) \in Nat
    BY <1>1, FS_CardinalityType
  <2>2. /\ IsFiniteSet(table \cup {key})
        /\ Cardinality(table \cup {key}) =
             IF key \in table THEN Cardinality(table) ELSE Cardinality(table) + 1
    BY <1>1, FS_AddElement
  <2>3. /\ IsFiniteSet(table \ {key})
        /\ Cardinality(table \ {key}) =
             IF key \in table THEN Cardinality(table) - 1 ELSE Cardinality(table)
    BY <1>1, FS_RemoveElement
  <2> QED BY <2>1, <2>2, <2>3 DEF One
<1>8. DOMAIN connections' = IF after.state = "CLOSED" THEN table \ {key} ELSE table \cup {key}
  BY <1>2
<1>9. TableOK'
  <2>1. /\ stats'.total_connections \in Nat /\ stats'.established_connections \in Nat
        /\ stats'.closed_connections \in Nat /\ stats'.timed_out_connections \in Nat
    BY <1>1, <1>5 DEF Counters, One
  <2>2. \A c \in Counters : stats'[c] \in Nat
    BY <2>1 DEF Counters
  <2>3. IsFiniteSet(DOMAIN connections')
    BY <1>7, <1>8
  <2> QED BY <1>5, <2>2, <2>3 DEF TableOK
<1>10. OnlyOpen'
  BY <1>2, <1>8 DEF Balanced, OnlyOpen, Active
<1>11. ConnectionBalance'
  <2>1. Cardinality(DOMAIN connections') =
          Cardinality(table) + One(fresh) - One(after.state = "CLOSED")
    BY <1>7, <1>8 DEF One
  <2>2. stats.total_connections =
          Cardinality(table) + stats.closed_connections + stats.timed_out_connections
    BY DEF Balanced, ConnectionBalance, Active
  <2>3. stats.closed_connections \in Nat /\ stats.timed_out_connections \in Nat
    BY <1>1 DEF Counters
  <2>4. One(fresh) \in Nat /\ One(after.state = "CLOSED") \in Nat
    BY DEF One
  <2>5. stats.total_connections + One(fresh) =
          (Cardinality(table) + One(fresh) - One(after.state = "CLOSED"))
            + (stats.closed_connections + One(after.state = "CLOSED"))
            + stats.timed_out_connections
    BY <1>7, <2>2, <2>3, <2>4
  <2>6. stats'.total_connections = Cardinality(DOMAIN connections')
          + stats'.closed_connections + stats'.timed_out_connections
    BY <1>5, <2>1, <2>5
  <2> QED BY <2>6 DEF ConnectionBalance, Active
<1>12. EstablishedBound'
  <2> DEFINE in(s) == s \in {"SYN_SENT", "SYN_RECV"}
             H == {k \in table : in(connections[k].state)}
             K == {k \in DOMAIN connections' : in(connections'[k].state)}
             left == before.state # "ESTABLISHED" /\ after.state = "ESTABLISHED"
  <2>1. /\ after.state = "ESTABLISHED" => in(before.state) \/ before.state = "ESTABLISHED"
        /\ in(after.state) => before.state = "CLOSED" \/ in(before.state)
    BY <1>3, StateSteps
  <2>2. ~fresh => connections[key].state # "CLOSED"
    BY DEF Balanced, OnlyOpen, Active
  <2>3. IsFiniteSet(H) /\ IsFiniteSet(H \ {key}) /\ Cardinality(H) \in Nat /\ Cardinality(H \ {key}) \in Nat
    <3>1. H \in SUBSET table /\ H \ {key} \in SUBSET table
      OBVIOUS
    <3> HIDE DEF H
    <3> QED BY <1>1, <3>1, FS_Subset, FS_CardinalityType
  <2>4. K = IF in(after.state) THEN (H \ {key}) \cup {key} ELSE H \ {key}
    <3>1. CASE after.state = "CLOSED"
      BY <1>2, <1>8, <3>1
    <3>2. CASE after.state # "CLOSED"
      BY <1>2, <1>8, <3>2
    <3> QED BY <3>1, <3>2
  <2>5. key \in H <=> ~fresh /\ in(before.state)
    BY <1>4
  <2> HIDE DEF H, K, in
  <2>6. Cardinality(H \ {key}) = Cardinality(H) - One(key \in H)
    <3>1. Cardinality(H \ {key}) = IF key \in H THEN Cardinality(H) - 1 ELSE Cardinality(H)
      BY <2>3, FS_RemoveElement
    <3> QED BY <2>3, <3>1 DEF One
  <2>7. Cardinality(K) = Cardinality(H) - One(key \in H) + One(in(after.state))
    <3>1. CASE in(after.state)
      <4>1. key \notin H \ {key}
        OBVIOUS
      <4>2. Cardinality((H \ {key}) \cup {key}) = Cardinality(H \ {key}) + 1
        BY <2>3, <4>1, FS_AddElement
      <4>3. Cardinality(K) = Cardinality(H \ {key}) + 1
        BY <2>4, <3>1, <4>2
      <4>4. One(in(after.state)) = 1
        BY <3>1 DEF One
      <4> QED BY <2>6, <4>3, <4>4
    <3>2. CASE ~in(after.state)
      <4>1. K = H \ {key}
        BY <2>4, <3>2
      <4>2. One(in(after.state)) = 0
        BY <3>2 DEF One
      <4>3. Cardinality(K) = Cardinality(H \ {key}) + 0
        BY <2>3, <4>1
      <4> QED BY <2>6, <4>2, <4>3
    <3> QED BY <3>1, <3>2
  <2>8. One(left) + One(in(after.state)) <= One(key \in H) + One(fresh)
    <3>1. ~(left /\ in(after.state))
      BY DEF in
    <3>2. left \/ in(after.state) => key \in H \/ fresh
      BY <1>4, <2>1, <2>2, <2>5 DEF in
    <3> HIDE DEF left, fresh
    <3> QED BY <3>1, <3>2 DEF One
  <2>9. stats.established_connections + Cardinality(H) <= stats.total_connections
    BY DEF Balanced, EstablishedBound, Active, H, in
  <2>10. stats'.established_connections + Cardinality(K) <= stats'.total_connections
    <3> HIDE DEF fresh
    <3>1. /\ One(left) \in {0, 1} /\ One(in(after.state)) \in {0, 1}
          /\ One(key \in H) \in {0, 1} /\ One(fresh) \in {0, 1}
      BY DEF One
    <3>2. stats'.established_connections = stats.established_connections + One(left)
      BY <1>5
    <3> HIDE DEF left
    <3> QED BY <1>1, <1>5, <2>3, <2>7, <2>8, <2>9, <3>1, <3>2 DEF Counters
  <2> QED BY <2>10 DEF EstablishedBound, Active, K, in
<1> QED BY <1>9, <1>10, <1>11, <1>12 DEF Balanced

\* Every step of every thread keeps the balance.
LEMMA StepBalanced == Balanced /\ [Next]_vars => Balanced'
<1> SUFFICES ASSUME Balanced, [Next]_vars PROVE Balanced'
  OBVIOUS
<1>1. ASSUME UNCHANGED <<connections, stats>> PROVE Balanced'
  BY <1>1 DEF Balanced, TableOK, OnlyOpen, ConnectionBalance, EstablishedBound, Active
<1>2. CASE Tick
  BY <1>1, <1>2 DEF Tick
<1>3. CASE Reset
  BY <1>3, ResetBalanced
<1>4. CASE \E t \in Threads, p \in Packets : Call(t, p)
  BY <1>1, <1>4 DEF Call
<1>5. CASE \E t \in Threads : CleanupExpired(t)
  BY <1>5, CleanupBalanced
<1>6. CASE \E t \in Threads : Handle(t)
  BY <1>6, HandleBalanced
<1>7. CASE UNCHANGED vars
  BY <1>1, <1>7 DEF vars
<1> QED BY <1>2, <1>3, <1>4, <1>5, <1>6, <1>7 DEF Next

\* Every connection ever counted is tracked, closed or timed out, exactly once,
\* however process, expiry and reset interleave in any number of threads.
THEOREM ConnectionsBalance == Spec => []ConnectionBalance
<1>1. Balanced => ConnectionBalance
  BY DEF Balanced
<1> QED BY InitBalanced, StepBalanced, <1>1, PTL DEF Spec

\* No connection is counted as established twice, nor while in its handshake.
THEOREM EstablishedAtMostOnce == Spec => []EstablishedBound
<1>1. Balanced => EstablishedBound
  BY DEF Balanced
<1> QED BY InitBalanced, StepBalanced, <1>1, PTL DEF Spec

-----------------------------------------------------------------------------
(* What opens a connection.                                                *)

HalfFields == {"next_seq", "segments", "bytes_received", "bytes_delivered", "duplicate_bytes",
               "out_of_order_count", "has_syn", "has_fin"}

\* A half, as far as the record goes.
IsHalf(half) == half = [f \in HalfFields |-> half[f]]

\* The operators on a half that do not look at its SYN leave it alone.
LEMMA SynUntouched ==
  ASSUME NEW half, IsHalf(half), NEW tcp, NEW seq, NEW data
  PROVE  LET after == AddSegment(half, seq, data).half
             fin   == NoteFin(half, tcp)
         IN  /\ IsHalf(fin) /\ fin.has_syn = half.has_syn
             /\ IsHalf(after) /\ after.has_syn = half.has_syn
<1>1. IsHalf(NoteFin(half, tcp)) /\ NoteFin(half, tcp).has_syn = half.has_syn
  BY DEF NoteFin, IsHalf, HalfFields
<1> DEFINE next == IF half.next_seq = SEQ_UNSET THEN seq ELSE half.next_seq
           h    == [half EXCEPT !.next_seq = next, !.bytes_received = @ + Len(data)]
           late == next - seq
<1>2. IsHalf(h) /\ h.has_syn = half.has_syn
  BY DEF IsHalf, HalfFields
<1>3. \/ AddSegment(half, seq, data) = Undelivered(half)
      \/ AddSegment(half, seq, data) =
           Undelivered([h EXCEPT !.duplicate_bytes = @ + Len(data)])
      \/ AddSegment(half, seq, data) =
           Deliver([h EXCEPT !.duplicate_bytes = @ + late], Drop(data, late))
      \/ AddSegment(half, seq, data) =
           Undelivered(InsertOutOfOrder([h EXCEPT !.out_of_order_count = @ + 1],
                                        Segment(seq, data)))
  BY DEF AddSegment
<1> HIDE DEF h, late
<1>4. ASSUME NEW x PROVE Undelivered(x).half = x
  BY DEF Undelivered
<1>5. ASSUME NEW x, NEW seg, IsHalf(x), x.has_syn = half.has_syn
      PROVE  IsHalf(InsertOutOfOrder(x, seg)) /\ InsertOutOfOrder(x, seg).has_syn = half.has_syn
  BY <1>5 DEF InsertOutOfOrder, IsHalf, HalfFields
<1>6. ASSUME NEW x, NEW d, IsHalf(x), x.has_syn = half.has_syn
      PROVE  IsHalf(Deliver(x, d).half) /\ Deliver(x, d).half.has_syn = half.has_syn
  <2> DEFINE y == [x EXCEPT !.next_seq = @ + Len(d), !.bytes_delivered = @ + Len(d)]
             flushed == FlushOrderedSegments(y)
  <2>1. IsHalf(y) /\ y.has_syn = half.has_syn
    BY <1>6 DEF IsHalf, HalfFields
  <2>2. Deliver(x, d) = [flushed EXCEPT !.delivered = d \o @]
    BY DEF Deliver
  <2> HIDE DEF y
  <2>3. IsHalf(flushed.half) /\ flushed.half.has_syn = half.has_syn
    BY <2>1 DEF FlushOrderedSegments, IsHalf, HalfFields
  <2>4. Deliver(x, d).half = flushed.half
    <3>1. DOMAIN flushed = {"half", "delivered"}
      BY DEF FlushOrderedSegments
    <3> HIDE DEF flushed
    <3> QED BY <2>2, <3>1
  <2> QED BY <2>3, <2>4
<1>7. IsHalf(AddSegment(half, seq, data).half)
      /\ AddSegment(half, seq, data).half.has_syn = half.has_syn
  <2>1. CASE AddSegment(half, seq, data) = Undelivered(half)
    BY <1>4, <2>1
  <2>2. CASE AddSegment(half, seq, data) = Undelivered([h EXCEPT !.duplicate_bytes = @ + Len(data)])
    <3> DEFINE x == [h EXCEPT !.duplicate_bytes = @ + Len(data)]
    <3>1. IsHalf(x) /\ x.has_syn = half.has_syn
      BY <1>2 DEF IsHalf, HalfFields
    <3> HIDE DEF x
    <3> QED BY <1>4, <2>2, <3>1 DEF x
  <2>3. CASE AddSegment(half, seq, data) =
               Deliver([h EXCEPT !.duplicate_bytes = @ + late], Drop(data, late))
    <3> DEFINE x == [h EXCEPT !.duplicate_bytes = @ + late]
    <3>1. IsHalf(x) /\ x.has_syn = half.has_syn
      BY <1>2 DEF IsHalf, HalfFields
    <3> HIDE DEF x
    <3> QED BY <1>6, <2>3, <3>1 DEF x
  <2>4. CASE AddSegment(half, seq, data) =
               Undelivered(InsertOutOfOrder([h EXCEPT !.out_of_order_count = @ + 1],
                                            Segment(seq, data)))
    <3> DEFINE x == [h EXCEPT !.out_of_order_count = @ + 1]
               inserted == InsertOutOfOrder(x, Segment(seq, data))
    <3>1. IsHalf(x) /\ x.has_syn = half.has_syn
      BY <1>2 DEF IsHalf, HalfFields
    <3>2. AddSegment(half, seq, data) = Undelivered(inserted)
      BY <2>4
    <3> HIDE DEF x
    <3>3. IsHalf(inserted) /\ inserted.has_syn = half.has_syn
      BY <1>5, <3>1
    <3> HIDE DEF inserted
    <3> QED BY <1>4, <3>2, <3>3
  <2> QED BY <1>3, <2>1, <2>2, <2>3, <2>4
<1> QED BY <1>1, <1>7

\* A segment does not take the SYN from the half it reaches, and a SYN gives it one.
LEMMA SynNoted ==
  ASSUME NEW half, IsHalf(half), NEW tcp
  PROVE  LET after == ReceiveSegment(half, tcp).half
         IN  /\ IsHalf(after)
             /\ half.has_syn => after.has_syn
             /\ tcp.syn => after.has_syn
<1> DEFINE noted == NoteSyn(half, tcp)
           fin   == NoteFin(noted, tcp)
           seq   == IF tcp.syn THEN tcp.seq + 1 ELSE tcp.seq
<1>1. /\ IsHalf(noted)
      /\ half.has_syn => noted.has_syn
      /\ tcp.syn => noted.has_syn
  BY DEF NoteSyn, IsHalf, HalfFields
<1>2. ReceiveSegment(half, tcp) = AddSegment(fin, seq, tcp.payload)
  BY DEF ReceiveSegment
<1> HIDE DEF noted, seq
<1>3. IsHalf(fin) /\ fin.has_syn = noted.has_syn
  BY <1>1, SynUntouched
<1> HIDE DEF fin
<1>4. /\ IsHalf(AddSegment(fin, seq, tcp.payload).half)
      /\ AddSegment(fin, seq, tcp.payload).half.has_syn = fin.has_syn
  BY <1>3, SynUntouched
<1> QED BY <1>1, <1>2, <1>3, <1>4

\* Only a SYN takes a connection out of "CLOSED".
LEMMA OpenedOnlyBySyn ==
  ASSUME NEW conn, NEW tcp, conn.state = "CLOSED", UpdateState(conn, tcp) # "CLOSED"
  PROVE  tcp.syn
<1>1. UpdateState(conn, tcp) = Handshake("CLOSED", tcp)
  BY DEF UpdateState
<1> QED BY <1>1 DEF Handshake

\* Every half in the table is a record, and one of a connection's two has seen a SYN.
Opened ==
  \A k \in Active :
    /\ connections[k].half = [d \in Directions |-> connections[k].half[d]]
    /\ \A d \in Directions : IsHalf(connections[k].half[d])
    /\ \E d \in Directions : connections[k].half[d].has_syn

\* Segments keep the SYN a connection was opened by.
LEMMA HandleOpened ==
  ASSUME Opened, OnlyOpen, NEW t \in Threads, Handle(t)
  PROVE  Opened'
<1> DEFINE tcp    == call[t]
           key    == FiveTuple(tcp.src, tcp.dst)
           table  == DOMAIN connections
           fresh  == key \notin table
           before == IF fresh THEN NewConnection ELSE connections[key]
           dir    == Direction(key, tcp.src)
           received == ReceiveSegment(before.half[dir], tcp)
           after  == ProcessSegment(before, dir, tcp, clock).conn
<1>1. connections' = IF after.state = "CLOSED"
                     THEN [k \in table \ {key} |-> connections[k]]
                     ELSE [k \in table \cup {key} |-> IF k = key THEN after ELSE connections[k]]
  BY DEF Handle, IsClosed, Restrict
<1>2. after.state = UpdateState(before, tcp) /\ after.half = [before.half EXCEPT ![dir] = received.half]
  BY DEF ProcessSegment
<1>3. dir \in Directions
  BY DEF Direction, Directions
<1>4. /\ before.half = [d \in Directions |-> before.half[d]]
      /\ \A d \in Directions : IsHalf(before.half[d])
  <2>1. CASE fresh
    <3>1. before.half = [d \in Directions |-> NewHalf]
      BY <2>1 DEF NewConnection
    <3>2. IsHalf(NewHalf)
      BY DEF IsHalf, HalfFields, NewHalf
    <3> HIDE DEF before
    <3> QED BY <3>1, <3>2
  <2>2. CASE ~fresh
    BY <2>2 DEF Opened, Active
  <2> QED BY <2>1, <2>2
<1>5. after.state # "CLOSED" /\ fresh => tcp.syn
  <2>1. fresh => before.state = "CLOSED"
    BY DEF NewConnection
  <2> HIDE DEF before, fresh, tcp, after
  <2> QED BY <1>2, <2>1, OpenedOnlyBySyn
<1>6. ~fresh => \E d \in Directions : before.half[d].has_syn
  BY DEF Opened, Active
<1> HIDE DEF after, before, tcp, dir, fresh
<1>7. /\ IsHalf(received.half)
      /\ before.half[dir].has_syn => received.half.has_syn
      /\ tcp.syn => received.half.has_syn
  BY <1>3, <1>4, SynNoted
<1> HIDE DEF received
<1>8. ASSUME after.state # "CLOSED"
      PROVE  /\ after.half = [d \in Directions |-> after.half[d]]
             /\ \A d \in Directions : IsHalf(after.half[d])
             /\ \E d \in Directions : after.half[d].has_syn
  <2>1. \A d \in Directions : after.half[d] = IF d = dir THEN received.half ELSE before.half[d]
    BY <1>2, <1>4
  <2>2. after.half = [d \in Directions |-> after.half[d]]
    BY <1>2, <1>4
  <2>3. \E d \in Directions : after.half[d].has_syn
    <3>1. CASE fresh
      BY <1>3, <1>5, <1>7, <1>8, <2>1, <3>1
    <3>2. CASE ~fresh
      <4>1. PICK d \in Directions : before.half[d].has_syn
        BY <1>6, <3>2
      <4>2. CASE d = dir
        BY <1>3, <1>7, <2>1, <4>1, <4>2
      <4>3. CASE d # dir
        BY <2>1, <4>1, <4>3
      <4> QED BY <4>2, <4>3
    <3> QED BY <3>1, <3>2
  <2> QED BY <1>4, <1>7, <2>1, <2>2, <2>3
<1>9. CASE after.state = "CLOSED"
  <2>1. \A k \in Active' : k \in Active /\ connections'[k] = connections[k]
    BY <1>1, <1>9 DEF Active
  <2> QED BY <2>1 DEF Opened
<1>10. CASE after.state # "CLOSED"
  <2>1. \A k \in Active' : \/ k \in Active /\ connections'[k] = connections[k]
                           \/ connections'[k] = after
    BY <1>1, <1>10 DEF Active
  <2> QED BY <1>8, <1>10, <2>1 DEF Opened
<1> QED BY <1>9, <1>10

\* No other step puts a connection into the table.
LEMMA StepOpened == Opened /\ OnlyOpen /\ [Next]_vars => Opened'
<1> SUFFICES ASSUME Opened, OnlyOpen, [Next]_vars PROVE Opened'
  OBVIOUS
<1>1. ASSUME UNCHANGED connections PROVE Opened'
  BY <1>1 DEF Opened, Active
<1>2. CASE Tick
  BY <1>1, <1>2 DEF Tick
<1>3. CASE Reset
  <2>1. Active' = {}
    BY <1>3 DEF Reset, Active
  <2> QED BY <2>1 DEF Opened
<1>4. CASE \E t \in Threads, p \in Packets : Call(t, p)
  BY <1>1, <1>4 DEF Call
<1>5. ASSUME NEW t \in Threads, CleanupExpired(t) PROVE Opened'
  <2>1. \A k \in Active' : k \in Active /\ connections'[k] = connections[k]
    BY <1>5 DEF CleanupExpired, Restrict, Active
  <2> QED BY <2>1 DEF Opened
<1>6. CASE \E t \in Threads : Handle(t)
  BY <1>6, HandleOpened
<1>7. CASE UNCHANGED vars
  BY <1>1, <1>7 DEF vars
<1> QED BY <1>2, <1>3, <1>4, <1>5, <1>6, <1>7 DEF Next

\* Every tracked connection was opened by a SYN in one of its directions, and a segment that
\* opens none is not tracked, whatever was in the table before.
THEOREM TrackedFromSyn == Spec => []OpenedBySyn
<1>1. Init => Opened
  <2> SUFFICES ASSUME Init PROVE Opened
    OBVIOUS
  <2>1. Active = {}
    BY DEF Init, Active
  <2> QED BY <2>1 DEF Opened
<1>2. Balanced => OnlyOpen
  BY DEF Balanced
<1>3. Opened /\ OnlyOpen => OpenedBySyn
  BY DEF Opened, OnlyOpen, OpenedBySyn, IsClosed
<1> QED BY InitBalanced, StepBalanced, StepOpened, <1>1, <1>2, <1>3, PTL DEF Spec

-----------------------------------------------------------------------------
(* When a connection expires.                                              *)

\* The clock never runs behind what was read from it, and what a thread found idle when it
\* entered process is gone before it handles its segment.
Fresh ==
  /\ clock \in Nat
  /\ pc = [t \in Threads |-> pc[t]]
  /\ now = [t \in Threads |-> now[t]]
  /\ \A t \in Threads : now[t] \in Nat /\ now[t] <= clock
  /\ \A k \in Active : connections[k].last_active \in Nat /\ connections[k].last_active <= clock
  /\ NoneExpiredOnEntry

\* A handled segment marks its connection as active now, which no thread's reading is past.
LEMMA HandleFresh ==
  ASSUME Fresh, NEW t \in Threads, Handle(t)
  PROVE  Fresh'
<1> DEFINE tcp    == call[t]
           key    == FiveTuple(tcp.src, tcp.dst)
           table  == DOMAIN connections
           before == IF key \notin table THEN NewConnection ELSE connections[key]
           after  == ProcessSegment(before, Direction(key, tcp.src), tcp, clock).conn
<1>1. connections' = IF IsClosed(after)
                     THEN [k \in table \ {key} |-> connections[k]]
                     ELSE [k \in table \cup {key} |-> IF k = key THEN after ELSE connections[k]]
  BY DEF Handle, Restrict
<1>2. after.last_active = clock
  BY DEF ProcessSegment
<1>3. /\ clock' = clock
      /\ pc' = [pc EXCEPT ![t] = "idle"] /\ now' = [now EXCEPT ![t] = 0]
  BY DEF Handle
<1> HIDE DEF after
<1>4. \A k \in Active' : \/ k \in Active /\ connections'[k] = connections[k]
                         \/ connections'[k] = after
  BY <1>1 DEF Active
<1>5. /\ pc' = [u \in Threads |-> pc'[u]] /\ now' = [u \in Threads |-> now'[u]]
      /\ \A u \in Threads : u # t => pc'[u] = pc[u] /\ now'[u] = now[u]
      /\ pc'[t] = "idle" /\ now'[t] = 0
  BY <1>3 DEF Fresh
<1>6. clock' \in Nat /\ \A u \in Threads : now'[u] \in Nat /\ now'[u] <= clock'
  BY <1>3, <1>5 DEF Fresh
<1>7. ASSUME NEW k \in Active'
      PROVE  connections'[k].last_active \in Nat /\ connections'[k].last_active <= clock'
  BY <1>2, <1>3, <1>4 DEF Fresh
<1>8. ASSUME NEW u \in Threads, NEW k \in Active', pc'[u] = "handle"
      PROVE  ~Idle(connections'[k], now'[u])
  <2>1. pc[u] = "handle" /\ now'[u] = now[u]
    BY <1>5, <1>8
  <2>2. CASE k \in Active /\ connections'[k] = connections[k]
    BY <2>1, <2>2 DEF Fresh, NoneExpiredOnEntry
  <2>3. CASE connections'[k] = after
    <3>1. now[u] \in Nat /\ clock \in Nat /\ now[u] <= clock
      BY DEF Fresh
    <3>2. Timeout \in Nat
      BY ReassemblerAssumption
    <3> QED BY <1>2, <2>1, <2>3, <3>1, <3>2 DEF Idle
  <2> QED BY <1>4, <2>2, <2>3
<1> QED BY <1>5, <1>6, <1>7, <1>8 DEF Fresh, NoneExpiredOnEntry

\* Expiry leaves no connection idle by the thread's own reading.
LEMMA CleanupFresh ==
  ASSUME Fresh, NEW t \in Threads, CleanupExpired(t)
  PROVE  Fresh'
<1>1. /\ \A k \in Active' : /\ k \in Active /\ connections'[k] = connections[k]
                            /\ ~Idle(connections[k], now[t])
      /\ clock' = clock /\ now' = now /\ pc' = [pc EXCEPT ![t] = "handle"]
  BY DEF CleanupExpired, Restrict, Active
<1>2. /\ pc' = [u \in Threads |-> pc'[u]]
      /\ \A u \in Threads : u # t => pc'[u] = pc[u]
  BY <1>1 DEF Fresh
<1>3. NoneExpiredOnEntry'
  BY <1>1, <1>2 DEF Fresh, NoneExpiredOnEntry
<1> QED BY <1>1, <1>2, <1>3 DEF Fresh

\* Every step keeps what is known of the clock readings that threads hold.
LEMMA StepFresh == Fresh /\ [Next]_vars => Fresh'
<1> SUFFICES ASSUME Fresh, [Next]_vars PROVE Fresh'
  OBVIOUS
<1>1. CASE Tick
  <2>1. clock' = clock + 1 /\ UNCHANGED <<connections, pc, now>>
    BY <1>1 DEF Tick
  <2>2. NoneExpiredOnEntry'
    BY <2>1 DEF Fresh, NoneExpiredOnEntry, Active, Idle
  <2> QED BY <2>1, <2>2 DEF Fresh, Active
<1>2. CASE Reset
  <2>1. Active' = {} /\ UNCHANGED <<clock, pc, now>>
    BY <1>2 DEF Reset, Active
  <2> QED BY <2>1 DEF Fresh, NoneExpiredOnEntry
<1>3. ASSUME NEW t \in Threads, NEW p \in Packets, Call(t, p) PROVE Fresh'
  <2>1. /\ UNCHANGED <<clock, connections>>
        /\ now' = [now EXCEPT ![t] = clock] /\ pc' = [pc EXCEPT ![t] = "cleanup"]
    BY <1>3 DEF Call
  <2>2. /\ pc' = [u \in Threads |-> pc'[u]] /\ now' = [u \in Threads |-> now'[u]]
        /\ \A u \in Threads : u # t => pc'[u] = pc[u] /\ now'[u] = now[u]
        /\ pc'[t] = "cleanup" /\ now'[t] = clock
    BY <2>1 DEF Fresh
  <2>3. NoneExpiredOnEntry'
    BY <2>1, <2>2 DEF Fresh, NoneExpiredOnEntry, Active, Idle
  <2>4. \A u \in Threads : now'[u] \in Nat /\ now'[u] <= clock'
    BY <2>1, <2>2 DEF Fresh
  <2> QED BY <2>1, <2>2, <2>3, <2>4 DEF Fresh, Active
<1>4. ASSUME NEW t \in Threads, CleanupExpired(t) PROVE Fresh'
  BY <1>4, CleanupFresh
<1>5. ASSUME NEW t \in Threads, Handle(t) PROVE Fresh'
  BY <1>5, HandleFresh
<1>6. CASE UNCHANGED vars
  BY <1>6 DEF vars, Fresh, NoneExpiredOnEntry, Active, Idle
<1> QED BY <1>1, <1>2, <1>3, <1>4, <1>5, <1>6 DEF Next

\* What is known of the clock readings holds in every state.
LEMMA AlwaysFresh == Spec => []Fresh
<1>1. Init => Fresh
  <2> SUFFICES ASSUME Init PROVE Fresh
    OBVIOUS
  <2>1. Active = {} /\ clock = 0 /\ pc = [t \in Threads |-> "idle"] /\ now = [t \in Threads |-> 0]
    BY DEF Init, Active
  <2> QED BY <2>1 DEF Fresh, NoneExpiredOnEntry
<1> QED BY <1>1, StepFresh, PTL DEF Spec

\* A thread that reaches its segment finds no connection that was idle for too long when it
\* entered process, whatever the other threads did in between.
THEOREM ExpiredBeforeHandling == Spec => []NoneExpiredOnEntry
<1>1. Fresh => NoneExpiredOnEntry
  BY DEF Fresh
<1> QED BY AlwaysFresh, <1>1, PTL

\* The clock reading a thread expires connections with may be old, never ahead: what it drops
\* is idle by the clock at that moment.
THEOREM NoneExpiresEarly == Spec => NeverExpiredEarly
<1> DEFINE Early == \A k \in DOMAIN connections \ DOMAIN connections' :
                      \/ stats'.closed_connections > stats.closed_connections
                      \/ stats'.total_segments = 0
                      \/ Idle(connections[k], clock)
<1>1. Fresh /\ Balanced /\ [Next]_vars => [Early]_vars
  <2> SUFFICES ASSUME Fresh, Balanced, [Next]_vars, NEW k \in DOMAIN connections \ DOMAIN connections'
               PROVE  \/ stats'.closed_connections > stats.closed_connections
                      \/ stats'.total_segments = 0
                      \/ Idle(connections[k], clock)
    OBVIOUS
  <2>1. ~UNCHANGED connections
    OBVIOUS
  <2>2. ~Tick /\ ~UNCHANGED vars /\ \A t \in Threads, p \in Packets : ~Call(t, p)
    BY <2>1 DEF Tick, vars, Call
  <2>3. CASE Reset
    BY <2>3 DEF Reset, ZeroStats, StatNames
  <2>4. ASSUME NEW t \in Threads, CleanupExpired(t) PROVE Idle(connections[k], clock)
    <3>1. Idle(connections[k], now[t])
      BY <2>4 DEF CleanupExpired, Restrict
    <3>2. /\ now[t] \in Nat /\ clock \in Nat /\ now[t] <= clock
          /\ connections[k].last_active \in Nat /\ Timeout \in Nat
      BY ReassemblerAssumption DEF Fresh, Active
    <3> QED BY <3>1, <3>2 DEF Idle
  <2>5. ASSUME NEW t \in Threads, Handle(t)
        PROVE  stats'.closed_connections > stats.closed_connections
    <3> DEFINE tcp    == call[t]
               key    == FiveTuple(tcp.src, tcp.dst)
               before == IF key \notin DOMAIN connections THEN NewConnection ELSE connections[key]
               after  == ProcessSegment(before, Direction(key, tcp.src), tcp, clock).conn
    <3>1. connections' = IF IsClosed(after)
                         THEN [j \in DOMAIN connections \ {key} |-> connections[j]]
                         ELSE [j \in DOMAIN connections \cup {key} |->
                                 IF j = key THEN after ELSE connections[j]]
      BY <2>5 DEF Handle, Restrict
    <3>2. IsClosed(after)
      <4> HIDE DEF after, key
      <4> QED BY <3>1
    <3>3. stats = [name \in StatNames |-> stats[name]] /\ stats.closed_connections \in Nat
      BY DEF Balanced, TableOK, Counters
    <3>4. stats'.closed_connections = stats.closed_connections + One(IsClosed(after))
      <4> DEFINE ooo == stats.out_of_order_segments + after.half["c2s"].out_of_order_count
                          + after.half["s2c"].out_of_order_count
                 dup == stats.duplicate_bytes + after.half["c2s"].duplicate_bytes
                          + after.half["s2c"].duplicate_bytes
      <4>1. stats' = [stats EXCEPT
               !.total_segments          = @ + 1,
               !.total_connections       = @ + One(key \notin DOMAIN connections),
               !.established_connections = @ + One(~IsEstablished(before) /\ IsEstablished(after)),
               !.closed_connections      = @ + One(IsClosed(after)),
               !.out_of_order_segments   = ooo,
               !.duplicate_bytes         = dup]
        BY <2>5 DEF Handle
      <4> HIDE DEF ooo, dup, after, before, key
      <4> QED BY <3>3, <4>1 DEF StatNames
    <3> HIDE DEF after
    <3> QED BY <3>2, <3>3, <3>4 DEF One
  <2> QED BY <2>2, <2>3, <2>4, <2>5 DEF Next
<1> QED BY AlwaysFresh, InitBalanced, StepBalanced, <1>1, PTL DEF Spec, NeverExpiredEarly

-----------------------------------------------------------------------------
(* What the halves of a connection hold.                                   *)

\* Every set of naturals that has an element has a least one.
LEMMA LeastNumber ==
  ASSUME NEW S \in SUBSET Nat, S # {}
  PROVE  \E m \in S : \A n \in S : m <= n
<1> DEFINE R == OpToRel(<, Nat)
<1>1. IsWellFoundedOn(R, Nat)
  BY NatLessThanWellFounded DEF OpToRel
<1>2. R = {ss \in Nat \X Nat : ss[1] < ss[2]}
  BY DEF OpToRel
<1> HIDE DEF R
<1>3. PICK m \in S : \A n \in S : ~ (<<n, m>> \in R)
  BY <1>1, WFMin
<1>4. \A n \in S : m <= n
  <2> TAKE n \in S
  <2>1. <<n, m>> \in Nat \X Nat
    OBVIOUS
  <2>2. ~ (n < m)
    BY <1>2, <1>3, <2>1
  <2> QED BY <2>2
<1> QED BY <1>3, <1>4

\* The largest number of a set is the one that is.
LEMMA MaxIs ==
  ASSUME NEW S \in SUBSET Int, NEW m \in S, \A n \in S : n <= m
  PROVE  Max(S) = m
<1>1. Max(S) \in S /\ \A n \in S : Max(S) >= n
  <2>1. \E x \in S : \A n \in S : x >= n
    OBVIOUS
  <2> QED BY <2>1 DEF Max
<1> DEFINE x == Max(S)
<1>2. x \in Int /\ m \in Int /\ x >= m /\ x <= m
  BY <1>1
<1> HIDE DEF x
<1>3. x = m
  BY <1>2
<1> QED BY <1>3 DEF x

\* The loop of _merge_segments.
MergeFrom(base, list) == FoldLeft(MergeStep, base, list)

\* acc[k] is what the loop has merged after k segments.
MergeSteps(acc, base, list, n) ==
  /\ acc[0] = base
  /\ \A k \in 1..n : acc[k] = MergeStep(acc[k - 1], list[k])
  /\ acc[n] = MergeFrom(base, list)

\* The fold of the model is that loop.
LEMMA MergeUnrolled ==
  ASSUME NEW base, NEW list, NEW n \in Nat, DOMAIN list = 1..n
  PROVE  \E acc : MergeSteps(acc, base, list, n)
<1> DEFINE Unroll(m, g) ==
             [s \in SUBSET (1..m) |-> IF s = {} THEN base
                                      ELSE MergeStep(g[s \ {Max(s)}], list[Max(s)])]
           Exists(m) == \E g : g = Unroll(m, g)
           bad == {m \in Nat : ~Exists(m)}
<1>1. ASSUME NEW m \in Nat, NEW s \in SUBSET (1..m), m \in s PROVE Max(s) = m
  <2>1. s \in SUBSET Int /\ \A k \in s : k <= m
    OBVIOUS
  <2> QED BY <1>1, <2>1, MaxIs
<1>2. \A m \in Nat : Exists(m)
  <2>1. CASE bad = {}
    BY <2>1
  <2>2. CASE bad # {}
    <3>1. PICK m \in bad : \A k \in bad : m <= k
      <4>1. bad \in SUBSET Nat
        OBVIOUS
      <4> HIDE DEF bad
      <4> QED BY <2>2, <4>1, LeastNumber
    <3>2. m # 0
      <4> DEFINE g == [s \in SUBSET (1..0) |-> base]
      <4>1. \A s \in SUBSET (1..0) : s = {}
        OBVIOUS
      <4>2. Unroll(0, g) = [s \in SUBSET (1..0) |-> base]
        BY <4>1
      <4>3. Exists(0)
        BY <4>2
      <4> QED BY <4>3
    <3>3. m - 1 \in Nat /\ Exists(m - 1)
      <4>1. m \in Nat /\ m # 0
        BY <3>2
      <4>2. m - 1 \in Nat /\ m - 1 < m
        BY <4>1
      <4>3. m - 1 \notin bad
        <5> HIDE DEF bad
        <5> QED BY <3>1, <4>1, <4>2
      <4> QED BY <4>2, <4>3
    <3>4. PICK g : g = Unroll(m - 1, g)
      BY <3>3
    <3> DEFINE h == [s \in SUBSET (1..m) |-> IF m \in s THEN MergeStep(g[s \ {m}], list[m])
                                             ELSE g[s]]
    <3>5. ASSUME NEW s \in SUBSET (1..m)
          PROVE  h[s] = IF s = {} THEN base ELSE MergeStep(h[s \ {Max(s)}], list[Max(s)])
      <4>1. CASE m \in s
        <5>1. Max(s) = m /\ s \ {m} \in SUBSET (1..m)
          BY <1>1, <4>1
        <5> QED BY <4>1, <5>1
      <4>2. CASE m \notin s
        <5>1. s \in SUBSET (1..(m - 1))
          BY <3>3, <4>2
        <5>2. h[s] = g[s]
          BY <4>2
        <5>3. g[s] = IF s = {} THEN base ELSE MergeStep(g[s \ {Max(s)}], list[Max(s)])
          BY <3>4, <5>1
        <5>4. s \ {Max(s)} \in SUBSET (1..m) /\ m \notin s \ {Max(s)}
          BY <4>2
        <5>5. h[s \ {Max(s)}] = g[s \ {Max(s)}]
          BY <5>4
        <5> QED BY <5>2, <5>3, <5>5
      <4> QED BY <4>1, <4>2
    <3>6. h = Unroll(m, h)
      <4>1. h = [s \in SUBSET (1..m) |-> h[s]]
        OBVIOUS
      <4> HIDE DEF h
      <4> QED BY <3>5, <4>1
    <3> QED BY <3>1, <3>6
  <2> QED BY <2>1, <2>2
<1> DEFINE iter == CHOOSE iter : iter = Unroll(n, iter)
<1>3. iter = Unroll(n, iter)
  BY <1>2
<1>4. MergeFrom(base, list) = iter[1..n]
  BY Zenon DEF MergeFrom, FoldLeft, MapThenFoldSet
<1> DEFINE acc == [k \in 0..n |-> iter[1..k]]
<1> HIDE DEF iter
<1>5. acc[0] = base
  BY <1>3
<1>6. ASSUME NEW k \in 1..n PROVE acc[k] = MergeStep(acc[k - 1], list[k])
  <2>1. /\ 1..k \in SUBSET (1..n) /\ 1..k # {} /\ k \in 1..k /\ k \in Nat
        /\ (1..k) \ {k} = 1..(k - 1) /\ k - 1 \in 0..n
    <3>1. k \in Nat /\ k >= 1 /\ k <= n /\ k - 1 \in 0..n
      OBVIOUS
    <3>2. k \in 1..k /\ 1..k \in SUBSET (1..n)
      BY <3>1
    <3>3. \A j : j \in (1..k) \ {k} <=> j \in 1..(k - 1)
      BY <3>1
    <3>4. (1..k) \ {k} = 1..(k - 1)
      BY <3>3, Zenon
    <3> QED BY <3>1, <3>2, <3>4, Zenon
  <2>2. Max(1..k) = k
    BY <1>1, <2>1
  <2>3. iter[1..k] = MergeStep(iter[1..(k - 1)], list[k])
    BY <1>3, <2>1, <2>2
  <2> QED BY <2>1, <2>3
<1>7. acc[n] = iter[1..n]
  OBVIOUS
<1> HIDE DEF acc
<1> QED BY <1>4, <1>5, <1>6, <1>7 DEF MergeSteps

\* The least number of a set is one of its members, below all the others.
LEMMA MinIs ==
  ASSUME NEW S \in SUBSET Nat, S # {}
  PROVE  Min(S) \in S /\ \A n \in S : Min(S) <= n
<1>1. \E m \in S : \A n \in S : m <= n
  BY LeastNumber
<1> QED BY <1>1 DEF Min

\* Python's list.insert.
LEMMA Inserted ==
  ASSUME NEW T, NEW list \in Seq(T), NEW e \in T, NEW k \in 1..(Len(list) + 1)
  PROVE  /\ InsertAt(list, k, e) \in Seq(T)
         /\ Len(InsertAt(list, k, e)) = Len(list) + 1
         /\ \A i \in 1..(Len(list) + 1) :
              InsertAt(list, k, e)[i] = IF i < k THEN list[i]
                                        ELSE IF i = k THEN e ELSE list[i - 1]
<1> DEFINE n     == Len(list)
           left  == SubSeq(list, 1, k - 1)
           mid   == left \o <<e>>
           right == SubSeq(list, k, n)
<1>1. n \in Nat /\ k \in 1..(n + 1) /\ \A i \in 1..n : list[i] \in T
  OBVIOUS
<1>2. left \in Seq(T) /\ Len(left) = k - 1 /\ \A i \in 1..(k - 1) : left[i] = list[i]
  <2>1. 1 \in Int /\ k - 1 \in Int /\ \A i \in 1..(k - 1) : list[i] \in T
    BY <1>1
  <2>2. /\ left \in Seq(T)
        /\ Len(left) = IF 1 <= k - 1 THEN (k - 1) - 1 + 1 ELSE 0
        /\ \A i \in 1..((k - 1) - 1 + 1) : left[i] = list[1 + i - 1]
    BY <2>1, SubSeqProperties
  <2> HIDE DEF left
  <2>3. (k - 1) - 1 + 1 = k - 1
    BY <1>1
  <2>4. Len(left) = k - 1
    BY <1>1, <2>2
  <2>5. ASSUME NEW i \in 1..(k - 1) PROVE left[i] = list[i]
    <3>1. left[i] = list[1 + i - 1] /\ 1 + i - 1 = i
      BY <2>2, <2>3
    <3> QED BY <3>1
  <2> QED BY <2>2, <2>4, <2>5
<1>3. right \in Seq(T) /\ Len(right) = n - k + 1 /\ \A i \in 1..(n - k + 1) : right[i] = list[k + i - 1]
  <2>1. k \in Int /\ n \in Int /\ \A i \in k..n : list[i] \in T
    BY <1>1
  <2> HIDE DEF n
  <2>2. /\ right \in Seq(T)
        /\ Len(right) = IF k <= n THEN n - k + 1 ELSE 0
        /\ \A i \in 1..(n - k + 1) : right[i] = list[k + i - 1]
    BY <2>1, SubSeqProperties
  <2> HIDE DEF right
  <2>3. Len(right) = n - k + 1
    BY <1>1, <2>2
  <2> QED BY <2>2, <2>3
<1> HIDE DEF left, right, n
<1>4. /\ mid \in Seq(T) /\ Len(mid) = k
      /\ \A i \in 1..k : mid[i] = IF i <= k - 1 THEN left[i] ELSE e
  <2>1. <<e>> \in Seq(T) /\ Len(<<e>>) = 1 /\ <<e>>[1] = e
    OBVIOUS
  <2> DEFINE one == <<e>>
  <2> HIDE DEF one
  <2>2. one \in Seq(T) /\ Len(one) = 1 /\ one[1] = e
    BY <2>1 DEF one
  <2>3. /\ left \o one \in Seq(T) /\ Len(left \o one) = (k - 1) + 1
        /\ \A i \in 1..((k - 1) + 1) : (left \o one)[i] = IF i <= k - 1 THEN left[i] ELSE one[i - (k - 1)]
    <3>1. /\ left \o one \in Seq(T) /\ Len(left \o one) = Len(left) + Len(one)
          /\ \A i \in 1..(Len(left) + Len(one)) :
               (left \o one)[i] = IF i <= Len(left) THEN left[i] ELSE one[i - Len(left)]
      BY <1>2, <2>2, ConcatProperties
    <3>2. Len(left) = k - 1 /\ Len(one) = 1
      BY <1>2, <2>2
    <3> QED BY <3>1, <3>2
  <2>4. (k - 1) + 1 = k /\ mid = left \o one
    BY <1>1 DEF one
  <2>5. ASSUME NEW i \in 1..k PROVE mid[i] = IF i <= k - 1 THEN left[i] ELSE e
    <3>1. mid[i] = IF i <= k - 1 THEN left[i] ELSE one[i - (k - 1)]
      BY <2>3, <2>4
    <3>2. i <= k - 1 \/ i - (k - 1) = 1
      BY <1>1
    <3> HIDE DEF mid
    <3> QED BY <2>2, <3>1, <3>2
  <2> QED BY <2>3, <2>4, <2>5
<1> HIDE DEF mid
<1>5. /\ mid \o right \in Seq(T) /\ Len(mid \o right) = k + (n - k + 1)
      /\ \A i \in 1..(k + (n - k + 1)) :
           (mid \o right)[i] = IF i <= k THEN mid[i] ELSE right[i - k]
  <2>1. mid \in Seq(T) /\ right \in Seq(T)
    BY <1>3, <1>4
  <2>2. /\ mid \o right \in Seq(T) /\ Len(mid \o right) = Len(mid) + Len(right)
        /\ \A i \in 1..(Len(mid) + Len(right)) :
             (mid \o right)[i] = IF i <= Len(mid) THEN mid[i] ELSE right[i - Len(mid)]
    BY <2>1, ConcatProperties
  <2> QED BY <1>3, <1>4, <2>2
<1>6. k + (n - k + 1) = n + 1
  BY <1>1
<1>7. InsertAt(list, k, e) = mid \o right
  BY DEF InsertAt, mid, left, right, n
<1> DEFINE all == mid \o right
<1> HIDE DEF all
<1>8. ASSUME NEW i \in 1..(n + 1)
      PROVE  all[i] = IF i < k THEN list[i] ELSE IF i = k THEN e ELSE list[i - 1]
  <2>1. all[i] = IF i <= k THEN mid[i] ELSE right[i - k]
    BY <1>5, <1>6 DEF all
  <2>2. CASE i < k
    <3>1. i \in 1..k /\ i \in 1..(k - 1) /\ i <= k /\ i <= k - 1
      BY <1>1, <2>2
    <3> QED BY <1>2, <1>4, <2>1, <2>2, <3>1
  <2>3. CASE i = k
    <3>1. i \in 1..k /\ i <= k /\ ~(i <= k - 1) /\ ~(i < k)
      BY <1>1, <2>3
    <3> QED BY <1>4, <2>1, <2>3, <3>1
  <2>4. CASE i > k
    <3>1. i - k \in 1..(n - k + 1) /\ ~(i <= k) /\ ~(i < k) /\ i # k /\ k + (i - k) - 1 = i - 1
      BY <1>1, <2>4
    <3> QED BY <1>3, <2>1, <3>1
  <2> QED BY <1>1, <2>2, <2>3, <2>4
<1> QED BY <1>5, <1>6, <1>7, <1>8 DEF all, n

Segs == [seq : Int, data : Seq(Nat)]

\* The ends of a segment are numbers, whatever the order they come in.
LEMMA EndIs ==
  ASSUME NEW seg \in Segs
  PROVE  End(seg) \in Int /\ seg.seq \in Int /\ seg.data \in Seq(Nat) /\ Len(seg.data) \in Nat
BY DEF End, Segs

\* Python's data[n:] and list[n:].
LEMMA Dropped ==
  ASSUME NEW T, NEW list \in Seq(T), NEW n \in Nat
  PROVE  Drop(list, n) \in Seq(T)
<1> DEFINE last == Len(list)
<1>1. last \in Nat /\ n + 1 \in Int /\ \A i \in (n + 1)..last : list[i] \in T
  OBVIOUS
<1> HIDE DEF last
<1>2. SubSeq(list, n + 1, last) \in Seq(T)
  BY <1>1, SubSeqProperties
<1> QED BY <1>2 DEF Drop, last

\* What _merge_segments has at hand: merged segments, at least one, and how many bytes were cut.
IsMerged(acc) ==
  /\ acc = [merged |-> acc.merged, duplicates |-> acc.duplicates]
  /\ acc.merged \in Seq(Segs) /\ Len(acc.merged) >= 1
  /\ acc.duplicates \in Nat

\* One turn of the loop keeps it, wherever the segment lies: an overlap is never negative.
LEMMA MergeStepTyped ==
  ASSUME NEW acc, IsMerged(acc), NEW seg \in Segs
  PROVE  IsMerged(MergeStep(acc, seg))
<1> DEFINE list    == acc.merged
           n       == Len(list)
           last    == list[n]
           overlap == End(last) - seg.seq
           joined  == Segment(last.seq, last.data \o Drop(seg.data, overlap))
<1>1. list \in Seq(Segs) /\ n \in Nat /\ n >= 1 /\ last \in Segs /\ acc.duplicates \in Nat
  BY DEF IsMerged
<1>2. Last(list) = last
  BY DEF Last
<1>3. overlap \in Int
  <2> HIDE DEF last
  <2> QED BY <1>1, EndIs
<1>4. MergeStep(acc, seg) =
        CASE overlap < 0 -> [acc EXCEPT !.merged = Append(@, seg)]
          [] overlap >= 0 /\ End(seg) <= End(last) -> acc
          [] OTHER -> [merged |-> Append(Front(list), joined), duplicates |-> acc.duplicates + overlap]
  BY <1>2 DEF MergeStep
<1> HIDE DEF overlap, last
<1>5. CASE overlap < 0
  <2>1. [acc EXCEPT !.merged = Append(@, seg)] =
          [merged |-> Append(list, seg), duplicates |-> acc.duplicates]
    <3>1. ASSUME NEW l, NEW d, NEW a, a = [merged |-> l, duplicates |-> d]
          PROVE  [a EXCEPT !.merged = Append(@, seg)] = [merged |-> Append(l, seg), duplicates |-> d]
      BY <3>1
    <3>2. acc = [merged |-> list, duplicates |-> acc.duplicates]
      BY DEF IsMerged
    <3> HIDE DEF list
    <3> QED BY <3>1, <3>2
  <2>2. MergeStep(acc, seg) = [merged |-> Append(list, seg), duplicates |-> acc.duplicates]
    BY <1>3, <1>4, <1>5, <2>1
  <2> HIDE DEF list
  <2>3. Append(list, seg) \in Seq(Segs) /\ Len(Append(list, seg)) = n + 1
    BY <1>1, AppendProperties
  <2> QED BY <1>1, <2>2, <2>3 DEF IsMerged
<1>6. CASE overlap >= 0 /\ End(seg) <= End(last)
  <2>1. MergeStep(acc, seg) = acc
    BY <1>3, <1>4, <1>6
  <2> QED BY <2>1
<1>7. CASE overlap >= 0 /\ ~(End(seg) <= End(last))
  <2>1. MergeStep(acc, seg) = [merged     |-> Append(Front(list), joined),
                               duplicates |-> acc.duplicates + overlap]
    BY <1>3, <1>4, <1>7
  <2>2. overlap \in Nat
    BY <1>3, <1>7
  <2>3. Drop(seg.data, overlap) \in Seq(Nat)
    BY <2>2, EndIs, Dropped
  <2>4. last.data \o Drop(seg.data, overlap) \in Seq(Nat) /\ last.seq \in Int
    BY <1>1, <2>3, EndIs, ConcatProperties
  <2>5. joined \in Segs
    BY <2>4 DEF Segs, Segment
  <2>6. Front(list) \in Seq(Segs)
    <3>1. 1 \in Int /\ n - 1 \in Int /\ \A i \in 1..(n - 1) : list[i] \in Segs
      BY <1>1
    <3>2. Front(list) = SubSeq(list, 1, n - 1)
      BY DEF Front
    <3> HIDE DEF n, list
    <3> QED BY <3>1, <3>2, SubSeqProperties
  <2> DEFINE front == Front(list)
  <2> HIDE DEF joined, front, list
  <2>7. Append(front, joined) \in Seq(Segs) /\ Len(Append(front, joined)) = Len(front) + 1
        /\ Len(front) \in Nat
    BY <2>5, <2>6, AppendProperties, LenProperties DEF front
  <2> QED BY <1>1, <2>1, <2>2, <2>7 DEF IsMerged, front
<1> QED BY <1>3, <1>5, <1>6, <1>7

\* So the loop returns segments, and has cut no negative number of bytes.
LEMMA MergeTyped ==
  ASSUME NEW list \in Seq(Segs), Len(list) >= 1
  PROVE  /\ MergeSegments(list).merged \in Seq(Segs)
         /\ MergeSegments(list).duplicates \in Nat
<1> DEFINE base == [merged |-> <<Head(list)>>, duplicates |-> 0]
           rest == Tail(list)
           n    == Len(rest)
<1>1. Head(list) \in Segs /\ rest \in Seq(Segs) /\ n \in Nat
  BY LenProperties, HeadTailProperties, EmptySeq
<1>2. IsMerged(base)
  <2> DEFINE one == <<Head(list)>>
  <2>1. one \in Seq(Segs) /\ Len(one) = 1
    BY <1>1
  <2> HIDE DEF one
  <2>2. base = [merged |-> one, duplicates |-> 0]
    BY DEF one
  <2> QED BY <2>1, <2>2 DEF IsMerged
<1>3. MergeSegments(list) = MergeFrom(base, rest)
  BY DEF MergeSegments, MergeFrom
<1>4. DOMAIN rest = 1..n /\ \A k \in 1..n : rest[k] \in Segs
  BY <1>1
<1> HIDE DEF base, rest, n
<1>5. PICK acc : MergeSteps(acc, base, rest, n)
  BY <1>1, <1>4, MergeUnrolled
<1>6. /\ acc[0] = base /\ acc[n] = MergeFrom(base, rest)
      /\ \A k \in 1..n : acc[k] = MergeStep(acc[k - 1], rest[k])
  BY <1>5 DEF MergeSteps
<1> DEFINE bad == {k \in 0..n : ~IsMerged(acc[k])}
<1>7. bad = {}
  <2> SUFFICES ASSUME bad # {} PROVE FALSE
    OBVIOUS
  <2>1. PICK m \in bad : \A k \in bad : m <= k
    <3>1. bad \in SUBSET Nat
      BY <1>1
    <3> HIDE DEF bad
    <3> QED BY <3>1, LeastNumber
  <2>2. m \in 0..n /\ ~IsMerged(acc[m])
    BY <2>1
  <2>3. m # 0
    BY <1>2, <1>6, <2>2
  <2>4. m - 1 \in 0..n /\ m \in 1..n /\ m - 1 < m
    BY <1>1, <2>2, <2>3
  <2>5. m - 1 \notin bad
    <3> HIDE DEF bad
    <3> QED BY <2>1, <2>4
  <2>6. IsMerged(acc[m - 1])
    BY <2>4, <2>5
  <2>7. acc[m] = MergeStep(acc[m - 1], rest[m]) /\ rest[m] \in Segs
    BY <1>4, <1>6, <2>4
  <2> QED BY <2>2, <2>6, <2>7, MergeStepTyped
<1>8. IsMerged(acc[n])
  BY <1>1, <1>7
<1> QED BY <1>3, <1>6, <1>8 DEF IsMerged

\* The concatenation of lists is a list.
LEMMA FlattenTyped ==
  ASSUME NEW T, NEW n \in Nat, NEW seqs, Len(seqs) = n, n = 0 => seqs = <<>>,
         \A i \in 1..n : seqs[i] \in Seq(T)
  PROVE  FlattenSeq(seqs) \in Seq(T)
<1> DEFINE Flat(m, f) == f = [i \in 1..m |-> IF i = 1 THEN seqs[i] ELSE f[i - 1] \o seqs[i]]
           bad == {m \in Nat : ~ \E f : Flat(m, f)}
           flatten == CHOOSE f : Flat(n, f)
<1>1. CASE n = 0
  <2>1. FlattenSeq(seqs) = seqs
    BY <1>1 DEF FlattenSeq
  <2>2. seqs \in Seq(T)
    BY <1>1, EmptySeq
  <2> QED BY <2>1, <2>2
<1>2. CASE n # 0
  <2>1. bad = {}
    <3> SUFFICES ASSUME bad # {} PROVE FALSE
      OBVIOUS
    <3>1. PICK m \in bad : \A k \in bad : m <= k
      <4>1. bad \in SUBSET Nat
        OBVIOUS
      <4> HIDE DEF bad
      <4> QED BY <4>1, LeastNumber
    <3>2. m \in Nat /\ ~ \E f : Flat(m, f)
      BY <3>1
    <3>3. m # 0
      <4> DEFINE f == [i \in 1..0 |-> <<>>]
      <4>1. Flat(0, f)
        OBVIOUS
      <4> HIDE DEF f
      <4> QED BY <3>2, <4>1
    <3>4. m - 1 \in Nat /\ m - 1 < m
      BY <3>2, <3>3
    <3>5. m - 1 \notin bad
      <4> HIDE DEF bad
      <4> QED BY <3>1, <3>2, <3>4
    <3>6. PICK f : Flat(m - 1, f)
      BY <3>4, <3>5
    <3> DEFINE g == [i \in 1..m |-> IF i < m THEN f[i]
                                    ELSE IF i = 1 THEN seqs[i] ELSE f[i - 1] \o seqs[i]]
    <3>7. ASSUME NEW i \in 1..m PROVE g[i] = IF i = 1 THEN seqs[i] ELSE g[i - 1] \o seqs[i]
      <4>1. CASE i = 1
        <5>1. 1 < m => 1 \in 1..(m - 1)
          BY <3>4
        <5> QED BY <3>6, <4>1, <5>1
      <4>2. CASE i # 1
        <5>1. i - 1 \in 1..m /\ i - 1 < m
          BY <3>2, <4>2
        <5>2. g[i - 1] = f[i - 1]
          BY <5>1
        <5>3. i < m => i \in 1..(m - 1)
          BY <3>4
        <5>4. i < m => f[i] = f[i - 1] \o seqs[i]
          BY <3>6, <4>2, <5>3
        <5> QED BY <4>2, <5>2, <5>4
      <4> QED BY <4>1, <4>2
    <3>8. Flat(m, g)
      <4>1. g = [i \in 1..m |-> g[i]]
        OBVIOUS
      <4> HIDE DEF g
      <4> QED BY <3>7, <4>1
    <3> QED BY <3>2, <3>8
  <2>2. Flat(n, flatten)
    <3>1. n \notin bad
      BY <2>1
    <3>2. \E f : Flat(n, f)
      BY <3>1
    <3> HIDE DEF Flat
    <3> QED BY <3>2
  <2>3. FlattenSeq(seqs) = flatten[n]
    BY <1>2 DEF FlattenSeq
  <2> HIDE DEF flatten
  <2>4. \A i \in 1..n : flatten[i] = IF i = 1 THEN seqs[i] ELSE flatten[i - 1] \o seqs[i]
    BY <2>2
  <2> DEFINE odd == {i \in 1..n : flatten[i] \notin Seq(T)}
  <2>5. odd = {}
    <3> SUFFICES ASSUME odd # {} PROVE FALSE
      OBVIOUS
    <3>1. PICK m \in odd : \A k \in odd : m <= k
      <4>1. odd \in SUBSET Nat
        OBVIOUS
      <4> HIDE DEF odd
      <4> QED BY <4>1, LeastNumber
    <3>2. m \in 1..n /\ flatten[m] \notin Seq(T)
      BY <3>1
    <3>3. m # 1
      BY <2>4, <3>2
    <3>4. m - 1 \in 1..n /\ m - 1 < m
      BY <3>2, <3>3
    <3>5. m - 1 \notin odd
      <4> HIDE DEF odd
      <4> QED BY <3>1, <3>2, <3>4
    <3>6. flatten[m - 1] \in Seq(T) /\ seqs[m] \in Seq(T)
      BY <3>2, <3>4, <3>5
    <3>7. flatten[m] = flatten[m - 1] \o seqs[m]
      BY <2>4, <3>2, <3>3
    <3> QED BY <3>2, <3>6, <3>7, ConcatProperties
  <2>6. n \in 1..n
    BY <1>2
  <2> QED BY <2>3, <2>5, <2>6
<1> QED BY <1>1, <1>2

\* A half whose numbers are numbers; of its segments nothing is said but that they are segments.
Typed(half) ==
  /\ IsHalf(half)
  /\ half.next_seq \in Int /\ half.segments \in Seq(Segs)
  /\ half.duplicate_bytes \in Nat /\ half.out_of_order_count \in Nat

\* Inserting and merging keeps that.
LEMMA InsertTyped ==
  ASSUME NEW half, Typed(half), NEW seg \in Segs
  PROVE  Typed(InsertOutOfOrder(half, seg))
<1> DEFINE list   == half.segments
           n      == Len(list)
           after  == {i \in DOMAIN list : list[i].seq > seg.seq}
           k      == Min(after \cup {n + 1})
           longer == InsertAt(list, k, seg)
           result == MergeSegments(longer)
<1>1. list \in Seq(Segs) /\ n \in Nat /\ half.duplicate_bytes \in Nat /\ IsHalf(half)
  BY DEF Typed
<1>2. k \in 1..(n + 1)
  <2>1. after \cup {n + 1} \in SUBSET Nat /\ after \cup {n + 1} # {} /\ after \subseteq 1..n
    BY <1>1
  <2> HIDE DEF after
  <2>2. k \in after \cup {n + 1}
    BY <2>1, MinIs
  <2> QED BY <1>1, <2>1, <2>2
<1> HIDE DEF k, list
<1>3. longer \in Seq(Segs) /\ Len(longer) = n + 1
  BY <1>1, <1>2, Inserted
<1>4. Len(longer) >= 1
  BY <1>1, <1>3
<1> HIDE DEF longer, n
<1>5. result.merged \in Seq(Segs) /\ result.duplicates \in Nat
  BY <1>3, <1>4, MergeTyped
<1>6. InsertOutOfOrder(half, seg) =
        [half EXCEPT !.segments = result.merged, !.duplicate_bytes = @ + result.duplicates]
  BY DEF InsertOutOfOrder, result, longer, k, n, list
<1> DEFINE merged == result.merged
           cut    == result.duplicates
           r      == [half EXCEPT !.segments = merged, !.duplicate_bytes = @ + cut]
<1> HIDE DEF result
<1>7. /\ IsHalf(r) /\ r.next_seq = half.next_seq /\ r.segments = merged
      /\ r.duplicate_bytes = half.duplicate_bytes + cut
      /\ r.out_of_order_count = half.out_of_order_count
  <2> HIDE DEF merged, cut
  <2> QED BY <1>1 DEF IsHalf, HalfFields
<1>8. /\ InsertOutOfOrder(half, seg) = r /\ merged \in Seq(Segs) /\ cut \in Nat
      /\ half.next_seq \in Int /\ half.out_of_order_count \in Nat
  BY <1>5, <1>6 DEF Typed
<1> HIDE DEF merged, cut, r
<1> QED BY <1>1, <1>7, <1>8 DEF Typed

\* A set of naturals with a bound has a greatest number.
LEMMA GreatestNumber ==
  ASSUME NEW S \in SUBSET Nat, S # {}, NEW bound \in Nat, \A n \in S : n <= bound
  PROVE  \E m \in S : \A n \in S : n <= m
<1> DEFINE below == {bound - n : n \in S}
<1>1. below \in SUBSET Nat /\ below # {}
  <2>1. PICK n \in S : TRUE
    OBVIOUS
  <2>2. bound - n \in below
    BY <2>1
  <2>3. \A k \in S : bound - k \in Nat
    OBVIOUS
  <2>4. below \in SUBSET Nat
    BY <2>3
  <2> QED BY <2>2, <2>4
<1>2. PICK d \in below : \A e \in below : d <= e
  <2> HIDE DEF below
  <2> QED BY <1>1, LeastNumber
<1>3. PICK m \in S : d = bound - m
  OBVIOUS
<1>4. \A n \in S : n <= m
  <2> TAKE n \in S
  <2>1. bound - n \in below
    OBVIOUS
  <2>2. bound - m <= bound - n
    <3> HIDE DEF below
    <3> QED BY <1>2, <1>3, <2>1
  <2> QED BY <2>2
<1> QED BY <1>4

\* Flushing keeps it: what it takes off the list is a list of bytes, with a length.
LEMMA FlushTyped ==
  ASSUME NEW half, Typed(half)
  PROVE  Typed(FlushOrderedSegments(half).half)
<1> DEFINE list  == half.segments
           L     == Len(list)
           Exp(i) == IF i = 1 THEN half.next_seq ELSE End(list[i - 1])
           ready == {m \in 0..L : \A i \in 1..m : list[i].seq = Exp(i)}
           n     == ReadyCount(half)
           seqs  == [i \in 1..n |-> list[i].data]
           data  == FlattenSeq(seqs)
           rest  == Drop(list, n)
           size  == Len(data)
           r     == [half EXCEPT !.segments = rest, !.next_seq = @ + size,
                                 !.bytes_delivered = @ + size]
<1>1. list \in Seq(Segs) /\ L \in Nat /\ IsHalf(half) /\ half.next_seq \in Int
      /\ half.duplicate_bytes \in Nat /\ half.out_of_order_count \in Nat
  BY DEF Typed
<1>2. FlushOrderedSegments(half).half = r
  BY DEF FlushOrderedSegments
<1>3. n \in 0..L
  <2>1. n = Max(ready)
    BY DEF ReadyCount
  <2>2. ready \in SUBSET Nat /\ 0 \in ready /\ \A m \in ready : m <= L
    BY <1>1
  <2> HIDE DEF ready, n
  <2>3. PICK m \in ready : \A k \in ready : k <= m
    BY <1>1, <2>2, GreatestNumber
  <2>4. Max(ready) = m
    BY <2>2, <2>3, MaxIs
  <2> QED BY <1>1, <2>1, <2>2, <2>4
<1> HIDE DEF n, list
<1>4. Len(seqs) = n /\ (n = 0 => seqs = <<>>) /\ \A i \in 1..n : seqs[i] \in Seq(Nat)
  <2>1. n \in Nat /\ \A i \in 1..n : list[i].data \in Seq(Nat)
    <3>1. n \in Nat /\ \A i \in 1..n : i \in 1..L
      BY <1>1, <1>3
    <3>2. \A i \in 1..L : list[i] \in Segs
      BY <1>1
    <3> QED BY <3>1, <3>2, EndIs
  <2>2. Len(seqs) = n /\ (n = 0 => seqs = <<>>)
    BY <2>1
  <2> QED BY <2>1, <2>2
<1>5. rest \in Seq(Segs)
  BY <1>1, <1>3, Dropped
<1> HIDE DEF seqs, rest
<1>6. data \in Seq(Nat)
  BY <1>3, <1>4, FlattenTyped
<1>7. size \in Nat
  BY <1>6, LenProperties
<1> HIDE DEF size, data
<1>8. /\ IsHalf(r) /\ r.next_seq = half.next_seq + size /\ r.segments = rest
      /\ r.duplicate_bytes = half.duplicate_bytes
      /\ r.out_of_order_count = half.out_of_order_count
  BY <1>1 DEF IsHalf, HalfFields
<1> HIDE DEF r
<1> QED BY <1>1, <1>2, <1>5, <1>7, <1>8 DEF Typed

\* Delivering is flushing with next_seq past the data.
LEMMA DeliverTyped ==
  ASSUME NEW half, Typed(half), NEW data \in Seq(Nat)
  PROVE  Typed(Deliver(half, data).half)
<1> DEFINE size    == Len(data)
           h       == [half EXCEPT !.next_seq = @ + size, !.bytes_delivered = @ + size]
           flushed == FlushOrderedSegments(h)
<1>1. size \in Nat /\ IsHalf(half) /\ half.next_seq \in Int
  BY LenProperties DEF Typed
<1>2. Deliver(half, data) = [flushed EXCEPT !.delivered = data \o @]
  BY DEF Deliver
<1> HIDE DEF size
<1>3. /\ IsHalf(h) /\ h.next_seq = half.next_seq + size /\ h.segments = half.segments
      /\ h.duplicate_bytes = half.duplicate_bytes
      /\ h.out_of_order_count = half.out_of_order_count
  BY <1>1 DEF IsHalf, HalfFields
<1> HIDE DEF h
<1>4. Typed(h)
  BY <1>1, <1>3 DEF Typed
<1>5. Typed(flushed.half)
  BY <1>4, FlushTyped
<1>6. Deliver(half, data).half = flushed.half
  <2>1. DOMAIN flushed = {"half", "delivered"}
    BY DEF FlushOrderedSegments
  <2> HIDE DEF flushed
  <2> QED BY <1>2, <2>1
<1> QED BY <1>5, <1>6

\* A half whose numbers are changed to numbers.
LEMMA CountersTyped ==
  ASSUME NEW half, Typed(half), NEW next \in Int, NEW received, NEW a \in Nat, NEW b \in Nat
  PROVE  /\ Typed([half EXCEPT !.next_seq = next, !.bytes_received = received])
         /\ Typed([half EXCEPT !.duplicate_bytes = @ + a])
         /\ Typed([half EXCEPT !.out_of_order_count = @ + b])
<1> DEFINE x == [half EXCEPT !.next_seq = next, !.bytes_received = received]
           y == [half EXCEPT !.duplicate_bytes = @ + a]
           z == [half EXCEPT !.out_of_order_count = @ + b]
<1>1. /\ half.next_seq \in Int /\ half.segments \in Seq(Segs)
      /\ half.duplicate_bytes \in Nat /\ half.out_of_order_count \in Nat /\ IsHalf(half)
  BY DEF Typed
<1>2. /\ IsHalf(x) /\ x.next_seq = next /\ x.segments = half.segments
      /\ x.duplicate_bytes = half.duplicate_bytes
      /\ x.out_of_order_count = half.out_of_order_count
  BY <1>1 DEF IsHalf, HalfFields
<1>3. /\ IsHalf(y) /\ y.next_seq = half.next_seq /\ y.segments = half.segments
      /\ y.duplicate_bytes = half.duplicate_bytes + a
      /\ y.out_of_order_count = half.out_of_order_count
  BY <1>1 DEF IsHalf, HalfFields
<1>4. /\ IsHalf(z) /\ z.next_seq = half.next_seq /\ z.segments = half.segments
      /\ z.duplicate_bytes = half.duplicate_bytes
      /\ z.out_of_order_count = half.out_of_order_count + b
  BY <1>1 DEF IsHalf, HalfFields
<1> HIDE DEF x, y, z
<1>5. Typed(x) /\ Typed(y) /\ Typed(z)
  BY <1>1, <1>2, <1>3, <1>4 DEF Typed
<1> QED BY <1>5 DEF x, y, z

\* add_segment keeps it, in each of its branches.
LEMMA AddSegmentTyped ==
  ASSUME NEW half, Typed(half), NEW seq \in Int, NEW data \in Seq(Nat)
  PROVE  Typed(AddSegment(half, seq, data).half)
<1> DEFINE next == IF half.next_seq = SEQ_UNSET THEN seq ELSE half.next_seq
           size == Len(data)
           h    == [half EXCEPT !.next_seq = next, !.bytes_received = @ + size]
           late == next - seq
           seg  == Segment(seq, data)
<1>1. next \in Int /\ size \in Nat /\ late \in Int
  BY LenProperties DEF Typed
<1>2. Typed(h)
  <2> DEFINE received == half.bytes_received + size
  <2>1. h = [half EXCEPT !.next_seq = next, !.bytes_received = received]
    OBVIOUS
  <2> HIDE DEF next, received, h
  <2>2. Typed([half EXCEPT !.next_seq = next, !.bytes_received = received])
    BY <1>1, CountersTyped
  <2> QED BY <2>1, <2>2
<1>3. seg \in Segs
  BY DEF Segs, Segment
<1>4. AddSegment(half, seq, data) =
        CASE data = <<>> -> Undelivered(half)
          [] data # <<>> /\ size <= late -> Undelivered([h EXCEPT !.duplicate_bytes = @ + size])
          [] late >= 0 /\ size > late ->
               Deliver([h EXCEPT !.duplicate_bytes = @ + late], Drop(data, late))
          [] OTHER -> Undelivered(InsertOutOfOrder([h EXCEPT !.out_of_order_count = @ + 1], seg))
  BY DEF AddSegment
<1> HIDE DEF h, late, seg, size
<1>5. ASSUME NEW x PROVE Undelivered(x).half = x
  BY DEF Undelivered
<1>6. CASE data = <<>>
  <2>1. size = 0
    BY <1>6 DEF size
  <2>2. ~(late >= 0 /\ size > late)
    BY <1>1, <2>1
  <2>3. AddSegment(half, seq, data) = Undelivered(half)
    BY <1>4, <1>6, <2>2
  <2> QED BY <1>5, <2>3
<1>7. CASE data # <<>> /\ size <= late
  <2>1. ~(late >= 0 /\ size > late)
    BY <1>1, <1>7
  <2>2. AddSegment(half, seq, data) = Undelivered([h EXCEPT !.duplicate_bytes = @ + size])
    BY <1>4, <1>7, <2>1
  <2>3. Typed([h EXCEPT !.duplicate_bytes = @ + size])
    BY <1>1, <1>2, CountersTyped
  <2> QED BY <1>5, <2>2, <2>3
<1>8. CASE data # <<>> /\ ~(size <= late) /\ late >= 0
  <2>1. size > late /\ late \in Nat
    BY <1>1, <1>8
  <2>2. AddSegment(half, seq, data) =
          Deliver([h EXCEPT !.duplicate_bytes = @ + late], Drop(data, late))
    BY <1>4, <1>8, <2>1
  <2>3. Typed([h EXCEPT !.duplicate_bytes = @ + late]) /\ Drop(data, late) \in Seq(Nat)
    BY <1>1, <1>2, <2>1, CountersTyped, Dropped
  <2> QED BY <2>2, <2>3, DeliverTyped
<1>9. CASE data # <<>> /\ ~(size <= late) /\ ~(late >= 0)
  <2>1. AddSegment(half, seq, data) =
          Undelivered(InsertOutOfOrder([h EXCEPT !.out_of_order_count = @ + 1], seg))
    BY <1>4, <1>9
  <2>2. Typed([h EXCEPT !.out_of_order_count = @ + 1])
    BY <1>1, <1>2, CountersTyped
  <2>3. Typed(InsertOutOfOrder([h EXCEPT !.out_of_order_count = @ + 1], seg))
    BY <1>3, <2>2, InsertTyped
  <2> QED BY <1>5, <2>1, <2>3
<1> QED BY <1>6, <1>7, <1>8, <1>9

\* So do a SYN and a FIN, hence a segment with all it says.
LEMMA ReceiveTyped ==
  ASSUME NEW half, Typed(half), NEW tcp \in Packets
  PROVE  Typed(ReceiveSegment(half, tcp).half)
<1> DEFINE noted == NoteSyn(half, tcp)
           fin   == NoteFin(noted, tcp)
           seq   == IF tcp.syn THEN tcp.seq + 1 ELSE tcp.seq
<1>1. tcp.seq \in Nat /\ tcp.seq + 1 \in Int /\ tcp.payload \in Seq(Nat) /\ seq \in Int
  BY ReassemblerAssumption
<1>2. ASSUME NEW h, Typed(h), NEW next \in Int
      PROVE  /\ Typed([h EXCEPT !.has_syn = TRUE, !.next_seq = next])
             /\ Typed([h EXCEPT !.has_fin = TRUE, !.next_seq = next])
  BY <1>2 DEF Typed, IsHalf, HalfFields
<1>3. Typed(noted)
  <2>1. noted = half \/ noted = [half EXCEPT !.has_syn = TRUE, !.next_seq = tcp.seq + 1]
    BY DEF NoteSyn
  <2> HIDE DEF noted
  <2> QED BY <1>1, <1>2, <2>1, ZenonT(30)
<1> HIDE DEF noted
<1>4. Typed(fin)
  <2> DEFINE next == IF noted.next_seq = SEQ_UNSET THEN tcp.seq + 1 ELSE noted.next_seq
  <2>1. next \in Int
    BY <1>1, <1>3 DEF Typed
  <2>2. fin = noted \/ fin = [noted EXCEPT !.has_fin = TRUE, !.next_seq = next]
    BY DEF NoteFin
  <2> HIDE DEF next
  <2>3. Typed([noted EXCEPT !.has_fin = TRUE, !.next_seq = next])
    BY <1>2, <1>3, <2>1
  <2> HIDE DEF fin
  <2> QED BY <1>3, <2>2, <2>3
<1>5. ReceiveSegment(half, tcp) = AddSegment(fin, seq, tcp.payload)
  BY DEF ReceiveSegment, fin, noted
<1> HIDE DEF fin, seq
<1> QED BY <1>1, <1>4, <1>5, AddSegmentTyped

\* A connection's two halves are Typed, and its state is one of the enumeration's.
IsConnection(conn) ==
  /\ conn.half = [d \in Directions |-> conn.half[d]]
  /\ \A d \in Directions : Typed(conn.half[d])
  /\ conn.state \in States

\* Every segment leaves a connection a connection.
LEMMA ProcessTyped ==
  ASSUME NEW conn, IsConnection(conn), NEW d \in Directions, NEW tcp \in Packets, NEW time
  PROVE  /\ IsConnection(ProcessSegment(conn, d, tcp, time).conn)
         /\ ProcessSegment(conn, d, tcp, time).conn.last_active = time
<1> DEFINE received == ReceiveSegment(conn.half[d], tcp)
           after    == ProcessSegment(conn, d, tcp, time).conn
<1>1. Typed(received.half)
  BY ReceiveTyped DEF IsConnection
<1>2. /\ after.half = [conn.half EXCEPT ![d] = received.half]
      /\ after.state = UpdateState(conn, tcp) /\ after.last_active = time
  BY DEF ProcessSegment
<1>3. UpdateState(conn, tcp) \in States
  <2>1. Handshake(conn.state, tcp) \in States
    BY DEF Handshake, IsConnection, States
  <2> QED BY <2>1 DEF UpdateState, States
<1> HIDE DEF received, after
<1>4. /\ after.half = [e \in Directions |-> after.half[e]]
      /\ \A e \in Directions : after.half[e] = IF e = d THEN received.half ELSE conn.half[e]
  BY <1>2 DEF IsConnection
<1>5. \A e \in Directions : Typed(after.half[e])
  BY <1>1, <1>4 DEF IsConnection
<1> QED BY <1>2, <1>3, <1>4, <1>5 DEF IsConnection, after

\* A connection starts out as one.
LEMMA NewTyped == IsConnection(NewConnection)
<1>1. Typed(NewHalf)
  <2>1. <<>> \in Seq(Segs)
    BY EmptySeq
  <2> QED BY <2>1 DEF Typed, IsHalf, HalfFields, NewHalf, SEQ_UNSET
<1>2. /\ NewConnection.half = [d \in Directions |-> NewHalf]
      /\ NewConnection.state = "CLOSED"
  BY DEF NewConnection
<1>3. \A d \in Directions : NewConnection.half[d] = NewHalf
  BY <1>2
<1> QED BY <1>1, <1>2, <1>3 DEF IsConnection, States

\* The type invariant, of the halves too, and that a thread in process has a segment.
TypedInv ==
  /\ TypeOK
  /\ IsFiniteSet(DOMAIN connections)
  /\ \A k \in DOMAIN connections : IsConnection(connections[k])
  /\ \A t \in Threads : pc[t] # "idle" => call[t] \in Packets

\* It holds at the start.
LEMMA TypedInit == Init => TypedInv
<1> SUFFICES ASSUME Init PROVE TypedInv
  OBVIOUS
<1>1. DOMAIN connections = {} /\ IsFiniteSet(DOMAIN connections)
  BY FS_EmptySet DEF Init
<1>2. stats \in [StatNames -> Nat]
  BY DEF Init, ZeroStats
<1> QED BY <1>1, <1>2, ReassemblerAssumption DEF Init, TypedInv, TypeOK

\* A handled segment leaves its connection a connection, or takes it out, and adds natural
\* numbers to the counters.
LEMMA HandleTyped ==
  ASSUME TypedInv, NEW t \in Threads, Handle(t)
  PROVE  TypedInv'
<1> DEFINE tcp    == call[t]
           key    == FiveTuple(tcp.src, tcp.dst)
           table  == DOMAIN connections
           fresh  == key \notin table
           before == IF fresh THEN NewConnection ELSE connections[key]
           dir    == Direction(key, tcp.src)
           after  == ProcessSegment(before, dir, tcp, clock).conn
           ooo(d) == after.half[d].out_of_order_count
           dup(d) == after.half[d].duplicate_bytes
<1>1. /\ pc[t] = "handle" /\ clock' = clock /\ calls' = calls
      /\ pc' = [pc EXCEPT ![t] = "idle"] /\ call' = [call EXCEPT ![t] = NoCall]
      /\ now' = [now EXCEPT ![t] = 0]
  BY DEF Handle
<1>2. tcp \in Packets /\ clock \in 0..MaxTime /\ table \subseteq Keys
  <2>1. call[t] \in Packets
    BY <1>1 DEF TypedInv
  <2> QED BY <2>1 DEF TypedInv, TypeOK
<1>3. key \in Keys
  BY <1>2 DEF Keys
<1>4. IsConnection(before)
  BY NewTyped DEF TypedInv
<1>5. dir \in Directions
  BY DEF Direction, Directions
<1> HIDE DEF before, dir
<1>6. IsConnection(after) /\ after.last_active = clock
  BY <1>2, <1>4, <1>5, ProcessTyped
<1>7. connections' = IF IsClosed(after)
                     THEN [k \in table \ {key} |-> connections[k]]
                     ELSE [k \in table \cup {key} |-> IF k = key THEN after ELSE connections[k]]
  BY DEF Handle, Restrict, before, dir
<1>8. stats' = [stats EXCEPT
           !.total_segments          = @ + 1,
           !.total_connections       = @ + One(fresh),
           !.established_connections = @ + One(~IsEstablished(before) /\ IsEstablished(after)),
           !.closed_connections      = @ + One(IsClosed(after)),
           !.out_of_order_segments   = @ + ooo("c2s") + ooo("s2c"),
           !.duplicate_bytes         = @ + dup("c2s") + dup("s2c")]
  BY DEF Handle, before, dir
<1>9. ASSUME NEW d \in Directions PROVE ooo(d) \in Nat /\ dup(d) \in Nat
  BY <1>6 DEF IsConnection, Typed
<1> HIDE DEF tcp, key, after
<1>10. stats' \in [StatNames -> Nat]
  <2>1. stats \in [StatNames -> Nat]
    BY DEF TypedInv, TypeOK
  <2> DEFINE o1 == ooo("c2s")  o2 == ooo("s2c")  d1 == dup("c2s")  d2 == dup("s2c")
             f1 == One(fresh)  f2 == One(~IsEstablished(before) /\ IsEstablished(after))
             f3 == One(IsClosed(after))
  <2>2. o1 \in Nat /\ o2 \in Nat /\ d1 \in Nat /\ d2 \in Nat
    BY <1>9 DEF Directions
  <2>3. f1 \in Nat /\ f2 \in Nat /\ f3 \in Nat
    BY DEF One
  <2>4. stats' = [stats EXCEPT !.total_segments = @ + 1, !.total_connections = @ + f1,
                               !.established_connections = @ + f2, !.closed_connections = @ + f3,
                               !.out_of_order_segments = @ + o1 + o2,
                               !.duplicate_bytes = @ + d1 + d2]
    BY <1>8
  <2> HIDE DEF o1, o2, d1, d2, f1, f2, f3, fresh, ooo, dup
  <2>5. /\ stats.total_segments \in Nat /\ stats.total_connections \in Nat
        /\ stats.established_connections \in Nat /\ stats.closed_connections \in Nat
        /\ stats.out_of_order_segments \in Nat /\ stats.duplicate_bytes \in Nat
    BY <2>1 DEF StatNames
  <2>6. ASSUME NEW f \in [StatNames -> Nat], NEW x \in StatNames, NEW n \in Nat
        PROVE  [f EXCEPT ![x] = n] \in [StatNames -> Nat]
    OBVIOUS
  <2> DEFINE s1 == [stats EXCEPT !.total_segments = stats.total_segments + 1]
             s2 == [s1 EXCEPT !.total_connections = stats.total_connections + f1]
             s3 == [s2 EXCEPT !.established_connections = stats.established_connections + f2]
             s4 == [s3 EXCEPT !.closed_connections = stats.closed_connections + f3]
             s5 == [s4 EXCEPT !.out_of_order_segments = stats.out_of_order_segments + o1 + o2]
             s6 == [s5 EXCEPT !.duplicate_bytes = stats.duplicate_bytes + d1 + d2]
  <2>7. stats' = s6
    BY <2>1, <2>4 DEF StatNames
  <2>8. s1 \in [StatNames -> Nat]
    BY <2>1, <2>5, <2>6 DEF StatNames
  <2> HIDE DEF s1
  <2>9. s2 \in [StatNames -> Nat]
    BY <2>3, <2>5, <2>6, <2>8 DEF StatNames
  <2> HIDE DEF s2
  <2>10. s3 \in [StatNames -> Nat]
    BY <2>3, <2>5, <2>6, <2>9 DEF StatNames
  <2> HIDE DEF s3
  <2>11. s4 \in [StatNames -> Nat]
    BY <2>3, <2>5, <2>6, <2>10 DEF StatNames
  <2> HIDE DEF s4
  <2>12. s5 \in [StatNames -> Nat]
    BY <2>2, <2>5, <2>6, <2>11 DEF StatNames
  <2> HIDE DEF s5
  <2>13. s6 \in [StatNames -> Nat]
    BY <2>2, <2>5, <2>6, <2>12 DEF StatNames
  <2> QED BY <2>7, <2>13
<1>11. \A k \in DOMAIN connections' : \/ k \in table /\ connections'[k] = connections[k]
                                      \/ k = key /\ connections'[k] = after
  BY <1>7
<1>12. DOMAIN connections' \subseteq table \cup {key}
  BY <1>7
<1>13. IsFiniteSet(DOMAIN connections')
  <2>1. IsFiniteSet(table \cup {key})
    BY FS_AddElement DEF TypedInv
  <2> QED BY <1>12, <2>1, FS_Subset
<1>14. ASSUME NEW k \in DOMAIN connections'
       PROVE  IsConnection(connections'[k]) /\ connections'[k].last_active \in 0..clock
  <2>1. clock \in 0..clock
    BY <1>2
  <2>2. CASE k \in table /\ connections'[k] = connections[k]
    BY <2>2 DEF TypedInv, TypeOK
  <2>3. CASE k = key /\ connections'[k] = after
    BY <1>6, <2>1, <2>3
  <2> QED BY <1>11, <2>2, <2>3
<1>15. \A k \in DOMAIN connections' : connections'[k].state \in States
  BY <1>14 DEF IsConnection
<1>16. /\ pc' \in [Threads -> {"idle", "cleanup", "handle"}]
       /\ call' \in [Threads -> Packets \cup {NoCall}]
       /\ now' \in [Threads -> 0..clock']
       /\ \A u \in Threads : pc'[u] # "idle" => call'[u] \in Packets
  <2>1. 0 \in 0..clock
    BY <1>2
  <2> QED BY <1>1, <2>1 DEF TypedInv, TypeOK
<1>17. calls' \in 0..MaxCalls
  BY <1>1 DEF TypedInv, TypeOK
<1>18. TypeOK'
  BY <1>1, <1>2, <1>3, <1>10, <1>12, <1>14, <1>15, <1>16, <1>17 DEF TypeOK
<1> QED BY <1>13, <1>14, <1>16, <1>18 DEF TypedInv

\* Expiry takes connections out and counts them.
LEMMA CleanupTyped ==
  ASSUME TypedInv, NEW t \in Threads, CleanupExpired(t)
  PROVE  TypedInv'
<1> DEFINE table   == DOMAIN connections
           expired == {k \in table : Idle(connections[k], now[t])}
           n       == Cardinality(expired)
<1>1. /\ pc[t] = "cleanup" /\ UNCHANGED <<clock, call, now, calls>>
      /\ pc' = [pc EXCEPT ![t] = "handle"]
      /\ connections' = [k \in table \ expired |-> connections[k]]
      /\ stats' = [stats EXCEPT !.timed_out_connections = @ + n]
  BY DEF CleanupExpired, Restrict
<1>2. IsFiniteSet(table) /\ expired \subseteq table
  BY DEF TypedInv
<1>3. n \in Nat /\ IsFiniteSet(table \ expired)
  BY <1>2, FS_Subset, FS_CardinalityType, FS_Difference
<1> HIDE DEF n, expired
<1>4. stats' \in [StatNames -> Nat]
  <2>1. stats \in [StatNames -> Nat]
    BY DEF TypedInv, TypeOK
  <2> QED BY <1>1, <1>3, <2>1 DEF StatNames
<1>5. /\ DOMAIN connections' = table \ expired
      /\ \A k \in DOMAIN connections' : k \in table /\ connections'[k] = connections[k]
  BY <1>1
<1>6. /\ pc' \in [Threads -> {"idle", "cleanup", "handle"}]
      /\ \A u \in Threads : pc'[u] # "idle" => call'[u] \in Packets
  BY <1>1 DEF TypedInv, TypeOK
<1>7. /\ clock' \in 0..MaxTime /\ calls' \in 0..MaxCalls
      /\ call' \in [Threads -> Packets \cup {NoCall}] /\ now' \in [Threads -> 0..clock']
  BY <1>1 DEF TypedInv, TypeOK
<1>8. /\ DOMAIN connections' \subseteq Keys
      /\ \A k \in DOMAIN connections' : /\ connections'[k].state \in States
                                        /\ connections'[k].last_active \in 0..clock'
                                        /\ IsConnection(connections'[k])
  BY <1>1, <1>5 DEF TypedInv, TypeOK
<1>9. TypeOK'
  BY <1>4, <1>6, <1>7, <1>8 DEF TypeOK
<1> QED BY <1>3, <1>5, <1>6, <1>8, <1>9 DEF TypedInv

\* Every step keeps the invariant.
LEMMA StepTyped == TypedInv /\ [Next]_vars => TypedInv'
<1> SUFFICES ASSUME TypedInv, [Next]_vars PROVE TypedInv'
  OBVIOUS
<1>1. clock \in Nat /\ clock \in 0..MaxTime /\ calls \in 0..MaxCalls /\ MaxTime \in Nat /\ MaxCalls \in Nat
  BY ReassemblerAssumption DEF TypedInv, TypeOK
<1>2. CASE Tick
  <2>1. /\ clock' = clock + 1 /\ clock < MaxTime
        /\ UNCHANGED <<connections, stats, pc, call, now, calls>>
    BY <1>2 DEF Tick
  <2>2. clock' \in 0..MaxTime /\ \A i \in 0..clock : i \in 0..clock'
    BY <1>1, <2>1
  <2>3. now' \in [Threads -> 0..clock']
    BY <2>1, <2>2 DEF TypedInv, TypeOK
  <2>4. \A k \in DOMAIN connections : connections[k].last_active \in 0..clock'
    BY <2>2 DEF TypedInv, TypeOK
  <2>5. TypeOK'
    BY <2>1, <2>2, <2>3, <2>4 DEF TypedInv, TypeOK
  <2> QED BY <2>1, <2>5 DEF TypedInv
<1>3. CASE Reset
  <2>1. DOMAIN connections' = {} /\ stats' = ZeroStats /\ UNCHANGED <<clock, pc, call, now, calls>>
    BY <1>3 DEF Reset
  <2>2. stats' \in [StatNames -> Nat] /\ IsFiniteSet(DOMAIN connections')
    BY <2>1, FS_EmptySet DEF ZeroStats
  <2> QED BY <2>1, <2>2 DEF TypedInv, TypeOK
<1>4. ASSUME NEW t \in Threads, NEW p \in Packets, Call(t, p) PROVE TypedInv'
  <2>1. /\ calls < MaxCalls /\ calls' = calls + 1 /\ call' = [call EXCEPT ![t] = p]
        /\ now' = [now EXCEPT ![t] = clock] /\ pc' = [pc EXCEPT ![t] = "cleanup"]
        /\ UNCHANGED <<clock, connections, stats>>
    BY <1>4 DEF Call
  <2>2. calls' \in 0..MaxCalls /\ clock \in 0..clock
    BY <1>1, <2>1
  <2>3. /\ pc' \in [Threads -> {"idle", "cleanup", "handle"}]
        /\ call' \in [Threads -> Packets \cup {NoCall}]
        /\ now' \in [Threads -> 0..clock']
        /\ \A u \in Threads : pc'[u] # "idle" => call'[u] \in Packets
    BY <2>1, <2>2 DEF TypedInv, TypeOK
  <2> QED BY <2>1, <2>2, <2>3 DEF TypedInv, TypeOK
<1>5. ASSUME NEW t \in Threads, CleanupExpired(t) PROVE TypedInv'
  BY <1>5, CleanupTyped
<1>6. ASSUME NEW t \in Threads, Handle(t) PROVE TypedInv'
  BY <1>6, HandleTyped
<1>7. CASE UNCHANGED vars
  BY <1>7 DEF vars, TypedInv, TypeOK
<1> QED BY <1>2, <1>3, <1>4, <1>5, <1>6, <1>7 DEF Next

\* Clock readings, counters and the table keep their types; no counter ever goes below zero,
\* though overlaps are computed by subtraction and segments come in any order.
THEOREM TableTyped == Spec => []TypeOK
<1>1. TypedInv => TypeOK
  BY DEF TypedInv
<1> QED BY TypedInit, StepTyped, <1>1, PTL DEF Spec
=============================================================================
