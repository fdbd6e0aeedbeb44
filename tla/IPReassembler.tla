----------------------------- MODULE IPReassembler -----------------------------
(***************************************************************************)
(* The table of partial datagrams: class IPReassembler of                  *)
(* stream/ip_reassembly.py, called by several threads.  process expires    *)
(* stale buffers in one critical section, counts the fragment outside the  *)
(* lock (a load and a store), and adds it in a second critical section.    *)
(*                                                                         *)
(* Packets on the wire are [key, offset, data, is_last, sent]: key stands  *)
(* for (src_ip, dst_ip, protocol, identification), sent is when the        *)
(* datagram was sent, and a fragment, or a duplicate of it, can be         *)
(* captured for Lifetime after that.                                       *)
(***************************************************************************)
EXTENDS IPBuffer

CONSTANTS Threads,
          Packets,       \* what can be captured
          Lifetime,      \* how long after it was sent
          Timeout,       \* idle time after which a buffer is dropped
          CallsTakeTime, \* whether the clock may advance while process runs
          HeaderLen,     \* IP header, in blocks
          MaxTotalLen,   \* what the 16-bit total length field can hold, in blocks
          MaxTime,       \* bound: the clock
          MaxCalls,      \* bound: calls of process with a fragment
          MaxResets      \* bound: calls of reset

Labels == UNION {ToSet(p.data) : p \in Packets}

ASSUME IPReassemblerAssumption ==
  /\ {Lifetime, Timeout, HeaderLen, MaxTotalLen, MaxTime, MaxCalls, MaxResets} \subseteq Nat
  /\ CallsTakeTime \in BOOLEAN
  /\ \A p \in Packets : /\ p.offset \in Nat /\ p.sent \in Nat /\ p.is_last \in BOOLEAN
                        /\ p.data \in Seq(Labels)

VARIABLES clock,
          buffers,       \* partial function from keys to buffers
          stats,         \* the counters of the current _stats
          epoch,         \* which _stats object that is: reset makes a new one
          pc,            \* where each thread is in process
          call,          \* the fragment it was called with
          loaded,        \* the _stats object and the count it has loaded
          calls,         \* calls so far
          entered,       \* calls that reached the count since the last reset
          returned       \* the datagrams process returned

vars == <<clock, buffers, stats, epoch, pc, call, loaded, calls, entered, returned>>

Keys == {p.key : p \in Packets}

IsFragmented(p) == p.offset > 0 \/ ~p.is_last

StatNames == {"total_fragments", "reassembled_datagrams", "timed_out_datagrams"}

ZeroStats == [name \in StatNames |-> 0]

NoCall == [key |-> 0]

Init ==
  /\ clock = 0
  /\ buffers = <<>>
  /\ stats = ZeroStats
  /\ epoch = 0
  /\ pc = [t \in Threads |-> "idle"]
  /\ call = [t \in Threads |-> NoCall]
  /\ loaded = [t \in Threads |-> <<0, 0>>]
  /\ calls = 0
  /\ entered = 0
  /\ returned = {}

Tick ==
  /\ clock < MaxTime
  /\ CallsTakeTime \/ \A t \in Threads : pc[t] = "idle"
  /\ clock' = clock + 1
  /\ UNCHANGED <<buffers, stats, epoch, pc, call, loaded, calls, entered, returned>>

OnTheWire(p) == clock \in p.sent..(p.sent + Lifetime)

\* A packet that is not a fragment is returned as it is.
PassThrough(p) ==
  /\ OnTheWire(p)
  /\ ~IsFragmented(p)
  /\ returned' = returned \cup {[key |-> p.key, data |-> p.data]}
  /\ UNCHANGED <<clock, buffers, stats, epoch, pc, call, loaded, calls, entered>>

Call(t, p) ==
  /\ OnTheWire(p)
  /\ IsFragmented(p)
  /\ pc[t] = "idle"
  /\ calls < MaxCalls
  /\ calls' = calls + 1
  /\ call' = [call EXCEPT ![t] = p]
  /\ pc' = [pc EXCEPT ![t] = "expire"]
  /\ UNCHANGED <<clock, buffers, stats, epoch, loaded, entered, returned>>

\* Mutant: expiry one moment too late.
IsExpiredLate(buffer) == clock - buffer.last_update > Timeout + 1

IsExpired(buffer) == clock - buffer.last_update > Timeout

\* The clock is read inside the critical section.
CleanupExpired(t) ==
  LET expired == {k \in DOMAIN buffers : IsExpired(buffers[k])}
  IN  /\ pc[t] = "expire"
      /\ buffers' = Restrict(buffers, DOMAIN buffers \ expired)
      /\ stats' = [stats EXCEPT !.timed_out_datagrams = @ + Cardinality(expired)]
      /\ pc' = [pc EXCEPT ![t] = "load"]
      /\ UNCHANGED <<clock, epoch, call, loaded, calls, entered, returned>>

\* _stats["total_fragments"] += 1, without the lock: the counter is read ...
LoadCount(t) ==
  /\ pc[t] = "load"
  /\ loaded' = [loaded EXCEPT ![t] = <<epoch, stats.total_fragments>>]
  /\ entered' = entered + 1
  /\ pc' = [pc EXCEPT ![t] = "store"]
  /\ UNCHANGED <<clock, buffers, stats, epoch, call, calls, returned>>

\* Mutant: the count is written to whatever _stats is by now.
StoreCountCurrent(t) ==
  /\ pc[t] = "store"
  /\ stats' = [stats EXCEPT !.total_fragments = loaded[t][2] + 1]
  /\ loaded' = [loaded EXCEPT ![t] = <<0, 0>>]
  /\ pc' = [pc EXCEPT ![t] = "add"]
  /\ UNCHANGED <<clock, buffers, epoch, call, calls, entered, returned>>

\* ... and written to the object it was read from, which reset may have replaced.
StoreCount(t) ==
  /\ pc[t] = "store"
  /\ stats' = IF loaded[t][1] = epoch
              THEN [stats EXCEPT !.total_fragments = loaded[t][2] + 1]
              ELSE stats
  /\ loaded' = [loaded EXCEPT ![t] = <<0, 0>>]
  /\ pc' = [pc EXCEPT ![t] = "add"]
  /\ UNCHANGED <<clock, buffers, epoch, call, calls, entered, returned>>

Store(key, buffer) ==
  buffers' = [k \in DOMAIN buffers \cup {key} |-> IF k = key THEN buffer ELSE buffers[k]]

\* get_reassembled_packet writes the length into the first fragment's header, or raises.
LengthFits(data) == HeaderLen + Len(data) <= MaxTotalLen

\* The second critical section.  A complete datagram is counted, then built, then
\* removed: building it raises when its length does not fit the header field.
Add(t) ==
  LET p      == call[t]
      before == IF p.key \in DOMAIN buffers THEN buffers[p.key] ELSE NewBuffer(clock)
      buffer == AddFragment(before, Fragment(p.offset, p.data, p.is_last), clock)
      ready  == IsComplete(buffer.fragments)
      data   == AssembleData(buffer.fragments)
      fits   == LengthFits(data)
  IN  /\ pc[t] = "add"
      /\ \/ /\ ~ready
            /\ Store(p.key, buffer)
            /\ UNCHANGED <<stats, returned>>
         \/ /\ ready /\ fits
            /\ buffers' = Restrict(buffers, DOMAIN buffers \ {p.key})
            /\ returned' = returned \cup {[key |-> p.key, data |-> data]}
            /\ stats' = [stats EXCEPT !.reassembled_datagrams = @ + 1]
         \/ /\ ready /\ ~fits
            /\ Store(p.key, buffer)
            /\ stats' = [stats EXCEPT !.reassembled_datagrams = @ + 1]
            /\ UNCHANGED returned
      /\ call' = [call EXCEPT ![t] = NoCall]
      /\ pc' = [pc EXCEPT ![t] = "idle"]
      /\ UNCHANGED <<clock, epoch, loaded, calls, entered>>

Reset ==
  /\ epoch < MaxResets
  /\ epoch' = epoch + 1
  /\ buffers' = <<>>
  /\ stats' = ZeroStats
  /\ entered' = 0
  /\ UNCHANGED <<clock, pc, call, loaded, calls, returned>>

Next ==
  \/ Tick
  \/ Reset
  \/ \E p \in Packets : PassThrough(p)
  \/ \E t \in Threads :
       \/ \E p \in Packets : Call(t, p)
       \/ CleanupExpired(t)
       \/ LoadCount(t)
       \/ StoreCount(t)
       \/ Add(t)

Spec == Init /\ [][Next]_vars

-----------------------------------------------------------------------------
\* The datagrams the sender sent with a key, as label sequences from offset 0.
Datagram(key, sent) ==
  LET mine == {p \in Packets : p.key = key /\ p.sent = sent}
      size == Max({FragmentEnd(p) : p \in mine})
      at(i) == CHOOSE x \in UNION {ToSet(p.data) : p \in mine} :
                 \E p \in mine : i - p.offset \in DOMAIN p.data /\ p.data[i - p.offset] = x
  IN  [i \in 1..size |-> at(i)]

\* What a sender does: the fragments of a datagram are cuts of it, which may overlap, the
\* ones that reach its end say so, and an identification is used again only when neither a
\* fragment nor a buffer of the datagram before can be left.
IsCut(frag, data) ==
  /\ FragmentEnd(frag) <= Len(data)
  /\ frag.data = SubSeq(data, frag.offset + 1, FragmentEnd(frag))
  /\ frag.is_last <=> FragmentEnd(frag) = Len(data)

HonestSenders ==
  /\ \A p \in Packets : /\ Datagram(p.key, p.sent) \in Seq(Labels)
                        /\ IsCut(p, Datagram(p.key, p.sent))
  /\ \A p, q \in Packets :
       p.key = q.key /\ p.sent < q.sent => p.sent + Lifetime + Timeout < q.sent

\* Whatever is returned is one datagram that was sent, whole and in order, never a
\* blend of two that used the same identification one after the other, although
\* duplicates of the first open a new buffer after it was reassembled: if the sender
\* waits for Lifetime + Timeout before it reuses an identification, that buffer is
\* expired by the very call that brings the first fragment of the second datagram.
Intact ==
  \A r \in returned : \E p \in Packets : r = [key |-> p.key, data |-> Datagram(p.key, p.sent)]

\* The buffer keeps sorted fragments that neither overlap nor touch, whatever way
\* the datagram was cut: merging in one pass after the sort is enough.
BuffersCanonical ==
  \A k \in DOMAIN buffers :
    LET fragments == buffers[k].fragments
    IN  /\ fragments # <<>>
        /\ \A i \in 1..(Len(fragments) - 1) :
             FragmentEnd(fragments[i]) < fragments[i + 1].offset

Blocks(frag) == frag.offset..(FragmentEnd(frag) - 1)

\* When every block of the datagram has been captured the buffer is gone: completion
\* is noticed at the fragment that fills the last hole, in whatever order fragments
\* that overlap come (the last-fragment mark survives every merge).  Not so for a
\* datagram too long for its length field: process raises, and the buffer stays.
CoverageCompletes ==
  \A k \in DOMAIN buffers, p \in {q \in Packets : q.is_last} :
    /\ p.key = k /\ buffers[k].last_update \in p.sent..(p.sent + Lifetime)
    /\ HeaderLen + FragmentEnd(p) <= MaxTotalLen
    => UNION {Blocks(f) : f \in ToSet(buffers[k].fragments)} # 0..(FragmentEnd(p) - 1)

\* The unlocked count may lose fragments but never invents one: a reset between its
\* load and its store does not bring the old count back.
NeverOvercounted == stats.total_fragments <= entered
=============================================================================
