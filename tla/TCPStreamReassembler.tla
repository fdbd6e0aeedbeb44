------------------------- MODULE TCPStreamReassembler -------------------------
(***************************************************************************)
(* The table of connections: class TCPStreamReassembler of                 *)
(* stream/tcp_reassembly.py, called by several threads.  A call of process *)
(* is three steps: it reads the clock before it takes the lock, expires    *)
(* idle connections in one critical section, and handles the segment in a  *)
(* second one.  Other calls, reset and the clock move in between.          *)
(***************************************************************************)
EXTENDS TCPConnection

CONSTANTS Threads,
          Packets,       \* the segments on the wire
          Timeout,       \* idle time after which a connection is dropped
          MaxTime,       \* bound: the clock
          MaxCalls       \* bound: calls of process

\* Bytes are numbers.  Segments of one connection need not belong to one stream.
ASSUME ReassemblerAssumption ==
  /\ Timeout \in Nat /\ MaxTime \in Nat /\ MaxCalls \in Nat
  /\ \A p \in Packets : /\ p.src \in Int /\ p.dst \in Int
                         /\ p.seq \in Nat /\ p.payload \in Seq(Nat)

VARIABLES clock,
          connections,   \* partial function from endpoint pairs to connections
          stats,         \* the counters of _stats
          pc,            \* where each thread is in process
          call,          \* the segment it was called with
          now,           \* the time it read before expiring connections
          calls,         \* calls so far
          delivered      \* what callers were given, per endpoint pair and direction

vars == <<clock, connections, stats, pc, call, now, calls, delivered>>

Keys == {FiveTuple(p.src, p.dst) : p \in Packets}

NoCall == [src |-> 0, dst |-> 0]     \* a thread outside process

StatNames ==
  {"total_segments", "total_connections", "established_connections", "closed_connections",
   "timed_out_connections", "out_of_order_segments", "duplicate_bytes"}

ZeroStats == [name \in StatNames |-> 0]

NothingDelivered == [k \in Keys |-> [d \in Directions |-> <<>>]]

Init ==
  /\ clock = 0
  /\ connections = <<>>
  /\ stats = ZeroStats
  /\ pc = [t \in Threads |-> "idle"]
  /\ call = [t \in Threads |-> NoCall]
  /\ now = [t \in Threads |-> 0]
  /\ calls = 0
  /\ delivered = NothingDelivered

Tick ==
  /\ clock < MaxTime
  /\ clock' = clock + 1
  /\ UNCHANGED <<connections, stats, pc, call, now, calls, delivered>>

\* process starts: _cleanup_expired reads the clock, then waits for the lock.
Call(t, p) ==
  /\ pc[t] = "idle"
  /\ calls < MaxCalls
  /\ calls' = calls + 1
  /\ call' = [call EXCEPT ![t] = p]
  /\ now' = [now EXCEPT ![t] = clock]
  /\ pc' = [pc EXCEPT ![t] = "cleanup"]
  /\ UNCHANGED <<clock, connections, stats, delivered>>

Idle(conn, time) == time - conn.last_active > Timeout

\* Mutant: only the connection of the segment at hand is expired.
CleanupExpiredOwn(t) ==
  LET expired == {k \in DOMAIN connections :
                    /\ k = FiveTuple(call[t].src, call[t].dst)
                    /\ Idle(connections[k], now[t])}
  IN  /\ pc[t] = "cleanup"
      /\ connections' = Restrict(connections, DOMAIN connections \ expired)
      /\ stats' = [stats EXCEPT !.timed_out_connections = @ + Cardinality(expired)]
      /\ pc' = [pc EXCEPT ![t] = "handle"]
      /\ UNCHANGED <<clock, call, now, calls, delivered>>

\* Mutant: expired connections are counted once per cleanup.
CleanupExpiredUncounted(t) ==
  LET expired == {k \in DOMAIN connections : Idle(connections[k], now[t])}
  IN  /\ pc[t] = "cleanup"
      /\ connections' = Restrict(connections, DOMAIN connections \ expired)
      /\ stats' = IF expired = {} THEN stats
                  ELSE [stats EXCEPT !.timed_out_connections = @ + 1]
      /\ pc' = [pc EXCEPT ![t] = "handle"]
      /\ UNCHANGED <<clock, call, now, calls, delivered>>

\* Mutant: expiry one moment too early.
CleanupExpiredEarly(t) ==
  LET expired == {k \in DOMAIN connections : now[t] - connections[k].last_active >= Timeout}
  IN  /\ pc[t] = "cleanup"
      /\ connections' = Restrict(connections, DOMAIN connections \ expired)
      /\ stats' = [stats EXCEPT !.timed_out_connections = @ + Cardinality(expired)]
      /\ pc' = [pc EXCEPT ![t] = "handle"]
      /\ UNCHANGED <<clock, call, now, calls, delivered>>

CleanupExpired(t) ==
  LET expired == {k \in DOMAIN connections : Idle(connections[k], now[t])}
  IN  /\ pc[t] = "cleanup"
      /\ connections' = Restrict(connections, DOMAIN connections \ expired)
      /\ stats' = [stats EXCEPT !.timed_out_connections = @ + Cardinality(expired)]
      /\ pc' = [pc EXCEPT ![t] = "handle"]
      /\ UNCHANGED <<clock, call, now, calls, delivered>>

One(condition) == IF condition THEN 1 ELSE 0

\* The second critical section of process.  The two data counters add the
\* connection's running totals again with every segment.
Handle(t) ==
  LET tcp    == call[t]
      key    == FiveTuple(tcp.src, tcp.dst)
      fresh  == key \notin DOMAIN connections
      before == IF fresh THEN NewConnection ELSE connections[key]
      dir    == Direction(key, tcp.src)
      result == ProcessSegment(before, dir, tcp, clock)
      after  == result.conn
  IN  /\ pc[t] = "handle"
      /\ connections' = IF IsClosed(after)
                        THEN Restrict(connections, DOMAIN connections \ {key})
                        ELSE [k \in DOMAIN connections \cup {key} |->
                                IF k = key THEN after ELSE connections[k]]
      /\ stats' = [stats EXCEPT
           !.total_segments          = @ + 1,
           !.total_connections       = @ + One(fresh),
           !.established_connections = @ + One(~IsEstablished(before) /\ IsEstablished(after)),
           !.closed_connections      = @ + One(IsClosed(after)),
           !.out_of_order_segments   = @ + after.half["c2s"].out_of_order_count
                                         + after.half["s2c"].out_of_order_count,
           !.duplicate_bytes         = @ + after.half["c2s"].duplicate_bytes
                                         + after.half["s2c"].duplicate_bytes]
      /\ delivered' = [delivered EXCEPT ![key][dir] = @ \o result.delivered]
      /\ pc' = [pc EXCEPT ![t] = "idle"]
      /\ call' = [call EXCEPT ![t] = NoCall]
      /\ now' = [now EXCEPT ![t] = 0]
      /\ UNCHANGED <<clock, calls>>

\* reset() from any thread, at any time the lock is free.
Reset ==
  /\ connections' = <<>>
  /\ stats' = ZeroStats
  /\ delivered' = NothingDelivered
  /\ UNCHANGED <<clock, pc, call, now, calls>>

Next ==
  \/ Tick
  \/ Reset
  \/ \E t \in Threads :
       \/ \E p \in Packets : Call(t, p)
       \/ CleanupExpired(t)
       \/ Handle(t)

Spec == Init /\ [][Next]_vars

-----------------------------------------------------------------------------
TypeOK ==
  /\ clock \in 0..MaxTime
  /\ DOMAIN connections \subseteq Keys
  /\ \A k \in DOMAIN connections :
       /\ connections[k].state \in States
       /\ connections[k].last_active \in 0..clock
  /\ stats \in [StatNames -> Nat]
  /\ pc \in [Threads -> {"idle", "cleanup", "handle"}]
  /\ call \in [Threads -> Packets \cup {NoCall}]
  /\ now \in [Threads -> 0..clock]
  /\ calls \in 0..MaxCalls

Active == DOMAIN connections

\* Every connection ever counted is in the table, was closed, or timed out, exactly
\* once: however calls, expiry and reset interleave, no connection is counted twice
\* on its way out and none leaves uncounted.
ConnectionBalance ==
  stats.total_connections =
    Cardinality(Active) + stats.closed_connections + stats.timed_out_connections

\* A connection is counted as established at most once, and not while it is still
\* in its handshake.
EstablishedBound ==
  stats.established_connections
    + Cardinality({k \in Active : connections[k].state \in {"SYN_SENT", "SYN_RECV"}})
    <= stats.total_connections

\* What is in the table between segments was opened by a SYN: one of its halves is
\* positioned by it.  A connection that is not, is dropped by the segment that made it.
OpenedBySyn ==
  \A k \in Active :
    /\ ~IsClosed(connections[k])
    /\ \E d \in Directions : connections[k].half[d].has_syn

\* A thread about to handle its segment finds no connection that was idle for too
\* long when the thread entered process, although other threads ran since.
NoneExpiredOnEntry ==
  \A t \in Threads, k \in Active : pc[t] = "handle" => ~Idle(connections[k], now[t])

\* A connection in use is never timed out: one that leaves the table was closed by
\* its own segment, was reset, or has been idle for longer than Timeout by the clock
\* at that moment, although the expiring thread's clock reading is older.
NeverExpiredEarly ==
  [][\A k \in DOMAIN connections \ DOMAIN connections' :
       \/ stats'.closed_connections > stats.closed_connections
       \/ stats'.total_segments = 0
       \/ Idle(connections[k], clock)]_vars

\* The data given to callers in one direction of a connection contains no byte
\* twice: retransmissions are ignored (tcp_reassembly.py:11).
NoRedelivery ==
  \A k \in Keys, d \in Directions : IsInjective(delivered[k][d])

\* The state tells which side has sent its FIN: a connection that is being closed by its
\* client alone is in FIN_WAIT, "FIN sent", not in CLOSE_WAIT, "FIN received"
\* (tcp_reassembly.py:24-25).
ClosingSideTracked ==
  \A k \in Active :
    LET conn == connections[k]
    IN  conn.state = "CLOSE_WAIT" => conn.half["s2c"].has_fin
=============================================================================
