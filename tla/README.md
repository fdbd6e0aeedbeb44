# Verification of network_analyzer

TLA+ models of the `network_analyzer` Python package, TLC configurations that check them on
small instances, and TLAPS proofs of their main safety properties. Paths are relative to
`src/network_analyzer/`. `PROJECT.json` maps every definition to the lines it translates.

## 1. The system

`NetworkAnalyzer.analyze(frame, timestamp)` takes a captured Ethernet frame through the layers:

    frame -> Ethernet -> IPv4 -> [IPReassembler] -> TCP/UDP -> [TCPStreamReassembler]
          -> AppProtocolIdentifier -> PacketFilter -> StatisticsCollector -> callbacks

Calls are synchronous. The analyzer, the two reassemblers and the statistics each have a lock of
their own (`threading.Lock`, not reentrant) and may be called by several threads; nothing is
persisted and nothing is sent.

| component | state | operations | what makes it correct |
|---|---|---|---|
| `stream/tcp_reassembly.py`, `TCPStreamHalf` | `next_seq`, sorted list of out-of-order segments, byte counters, SYN/FIN seen | `add_segment` (drop, trim and deliver, buffer and merge, flush) | delivers a prefix of the stream, loses no byte, accounts for each byte once |
| same, `TCPConnection`, `TCPStreamReassembler` | state of each connection, table by five-tuple, counters | `process` (read clock, expire, handle), `reset`, getters | a connection is counted in and out once, expires when idle and only then, changes state only for the segments that allow it |
| `stream/ip_reassembly.py`, `IPReassembler` | buffer of merged fragments for each (src, dst, protocol, id), counters | `process` (expire, count, add and assemble), `reset` | returns exactly the datagram that was sent, as soon as all of it has come |
| same, `fragment_ip_packet` | local loop | one call | fragments tile the payload and reassemble to it |
| `analyzer.py`, `NetworkAnalyzer` | lock, filter, callbacks, packet count, `StreamData` by five-tuple | `analyze`, `set_filter`, `clear_filter`, callbacks, `reset`, queries | every packet is recorded, filtered or failed; the filter decides; every callback is called |
| `application/protocol_identification.py` | result for each connection | `identify`, `reset` | what is confirmed is justified by data and stays |
| `stats/statistics.py` | totals, tables by protocol, port, connection and host, time windows | `record_packet`, `set_time_window`, `reset`, listings, exports | the tables agree with one another |
| `filter/filter.py`, `PacketFilter` | expression and rules | lexer, parser, `set_expression`, `match` | an expression means what its documentation says, anything else is rejected and changes nothing |
| `layers/*.py` | none | decoding of frames, captured whole or not | payloads hold the bytes that were sent, missing ones are reported |
| `utils/packet_utils.py` | none | checksum, address conversion | built packets verify, damaged ones do not |

The hard parts: segments and fragments that overlap, are cut differently on retransmission, or
come in any order; idle expiry with a clock that is read before the lock is taken; counters updated
outside a lock; the filter and the list of callbacks, changed without the lock while `analyze` runs;
verdicts that are cached in two places; field names of several words, signs and nesting in filter
expressions; frames cut short, whose damage reaches a later report through a buffer; tables in the statistics that are updated from different
places and must add up. `PROJECT.json` lists them as hazards, each at its line and with the
properties that cover it.

## 2. Modules

    ByteStream            what the application is promised: a prefix of the stream that grows
      ^ implemented by (checked, proved)
    StreamReassembly      one direction on byte positions: next, a set of held positions, output
      ^ implemented by (checked, proved)
    TCPStream             a sender's SYN, FIN and segments, fed to
      TCPHalf             TCPStreamHalf as operators on a record: the list, sequence numbers, counters
    TCPStreamReassembler  the table, called by threads; each connection is
      TCPConnection       the state machine of a connection with two TCPHalf records
    IPReassembler         the table of buffers, called by threads; each buffer is
      IPBuffer            IPReassemblyBuffer as operators on a record
    Wire                  a packet from fragment_ip_packet through frames, parsers and buffer to a report:
      Fragmenter          fragment_ip_packet
      Layers              the parsers of Ethernet, IPv4, TCP and UDP as operators on captured bytes
      IPBuffer
    Checksum              the Internet checksum, as operators
    PacketFilter          a filter and the expressions given to it
      FilterExpression    lexer, parser and matcher as operators
    Analyzer              lock, filter, callbacks
    AppIdentification     identifier and StreamData
    Statistics            record_packet and its tables

`TCPHalf`, `TCPConnection`, `IPBuffer`, `Layers` and `FilterExpression` have no variables: the code's
objects are records, its methods operators with the methods' names (`AddSegment`, `MergeStep`,
`UpdateState`, `ParseIPv4`, ...). The other
modules are state machines, with one action for each stretch of code between two points where
another thread can run. The proofs about module `M` are in `M_proofs`; those about `Fragmenter`
and `Checksum` are in `Wire_proofs`.

**TCPHalf, TCPStream.** `ReceiveSegment` is `TCPConnection.process_segment` for one direction: note
the SYN, note the FIN, then `AddSegment`, which drops a retransmission, trims and delivers data that
reaches `next_seq`, flushing the head of the list behind it, or inserts the segment and merges the
list in one pass. The payload of a segment is a sequence of labels, one for each byte, and byte p of
the stream has sequence number (ISN + p) % SeqSpace. The SYN is captured first in `TCPStream`; it and
everything else may be lost, repeated and reordered afterwards.

**StreamReassembly.** The same without lists and sequence numbers: `Old`, `InOrder` and `OutOfOrder`
are the three branches of `add_segment`. `Flushed` keeps what the code does when a segment reaches
past the start of a buffered one: nothing is flushed. The refinement maps the list to the set of
positions it holds.

**TCPStreamReassembler.** `process` is three actions: `Call` reads the clock (`_cleanup_expired`
does, before it takes the lock), `CleanupExpired` and `Handle` are the two critical sections.
`Tick` and `Reset` come in between, and so do the actions of other threads. The five-tuple is
`FiveTuple`: the smaller endpoint first, which is also the side called client.

**IPReassembler.** `Call`, `CleanupExpired`, `LoadCount`, `StoreCount` and `Add`: the counter of
fragments is incremented outside the lock, on a dictionary that `reset` replaces. `Add` includes
assembly, the exception for a length that does not fit 16 bits, and the removal of the buffer.
Which packets are captured is a constant; `HonestSenders` says that they are cuts of what was sent.

**Fragmenter.** The state is the loop's: `CutFragment` is one turn, `Return` the end.

**Layers, Wire.** A byte of an IP payload is its position there, every other byte 0, so that a
payload shows where each of its bytes comes from. `Capture` takes a fragment, or the packet that was
not cut, with or without VLAN tag, padding and the total length that offloading leaves at 0, and
keeps as many bytes of the frame as `Snaps` says. `Analyze` is `_parse_layer2` to `_parse_layer4`
with the reassembly between them. `parsed` is the report of the last call; `whole`, `damaged` and
`longest` record what was captured and reported, for the properties.

**FilterExpression, PacketFilter.** A text is a sequence of lexemes, and the parsed tree the set of
contexts that it matches, which is all that `match` tells. `Reads` is the recursive descent, one rule
and position at a time, `ParseField` a field name with what follows it, `Holds` a comparison.
`PacketFilter` writes texts, of the documented rules (filter.py:7-37, with every sign of :39-41)
joined, negated and enclosed, and broken off at every point by `Erase`; `Beginnings`, `Extensions` and
`Operators` say which rules a text begins with, which follow, and how operators are spelt; `Create` and `SetExpression` give them to the filter. What they should mean
is `Meanings`: a text is divided at its operators, by the grammar, in every possible way, and the
rules' meanings come from the documentation's list, not from the parser.

**Checksum.** On the total of the 16-bit words; `Fold` is one of the two folds of the carries.

**Analyzer.** `Enter` takes the lock; `Parse`, `CheckFilter` (first read of `_filter`), `MatchFilter`
(second read), `Record`, `CallOne` (one turn of the loop over the live list) and `Return` follow.
`SetFilter`, `AddCallback` and `RemoveCallback` need no lock, `Reset` does. A frame stands for what
parsing makes of it. The variables `in_force`, `called`, `expected`, `removals` and `spurious` record
the past for the properties; no action's guard reads them, except for the bound on removals.

**AppIdentification.** A payload is the word it opens with and the marks the checks find in it
(a TLS handshake, a DNS header). `SignatureChecks` are the fifteen checks in their order, `Combine`
and `MergeResults` are `_merge_results`, `HandleData` is `_handle_tcp_reassembly` with
`_identify_app_protocol`. Confidences are in hundredths; the floats compare alike at every sum the
code can form (0.5+0.1 is not above 0.6, 0.7+0.1 and 0.6+0.2 are not above 0.8).

**Statistics.** `Capture` is the beginning of `analyze`: the timestamp is the caller's, one of
`Timestamps` in any order, or the clock's, read before the lock is taken. `Record` is `record_packet`,
whose six parts are operators with the methods' names. The nine parallel lists of `TimeWindowStats`
are one sequence of records. `dropped` and `unsized` count, for the properties, the packets of windows
that are gone and those that no window takes because their length is 0.

## 3. What is checked

| run | instance | what it shows |
|---|---|---|
| `stream_reassembly` | 7 bytes, all segments of 1 to 3 bytes | prefix, nothing forgotten, contiguous data waits only behind a segment cut anew, refinement of `ByteStream` |
| `tcp_stream` | 6 bytes, segments of 1 to 3 bytes, 7 arrivals, SYN and FIN | the list is sorted and merged, bytes are accounted for, only retransmissions are ignored; refinement of `StreamReassembly` |
| `tcp_overlap` (violated) | same | contiguous data can stay in the buffer |
| `tcp_reassembler` | 2 threads, 2 sessions of 8 segments, 5 calls, clock 0..2, timeout 1 | connections balance, a handshake counts once, only a SYN keeps a connection, expiry is neither early nor late |
| `tcp_midstream` (violated) | 2 segments of an open connection, 4 calls | a retransmission is delivered again |
| `ip_reassembler` | 2 threads, 10 fragments of 3 datagrams and a whole packet, 4 calls, clock 0..5, timeout 2, 1 reset | datagrams come back intact, buffers are merged, a covered datagram completes, the counter never exceeds the calls |
| `wire` | payloads of 0 to 33 bytes around the multiples of 8, headers 20 and 24, MTUs 33 and 36, TCP and UDP with and without checksum, 4 captures of up to 5 fragments kept to 15, 34, 40 or all bytes | fragments tile the payload and fit; reported payloads begin what was sent; missing bytes are reported, whole frames are not; the data comes back whole; the call returns |
| `filter` | 7 packets, texts of up to 7 lexemes, all documented rules but orders on two ports, of which 3 can follow others | documented expressions match what they should, the rest is rejected, a rejected text changes nothing |
| `analyzer` | 2 threads, 4 kinds of frames, 2 filters, callbacks of which one removes itself, 2 packets | every packet accounted for, what is recorded passed a filter in force, a removal skips at most one callback, `analyze` returns |
| `analyzer_clear_filter` (violated) | 1 thread, 1 packet | `clear_filter` makes a good packet a fatal error |
| `app_identification` | 2 streams, 8 payloads, 4 deliveries | the two caches agree; a protocol has a signature behind it; weak signatures confirm only in twos |
| `statistics` | 2 threads, 6 kinds of frames, 3 records, timestamps 0 or the clock's 1 and 2, windows of 2, at most 2 windows | totals of hosts, ports, connections and windows agree |

Each violated run is a finding: a statement of the module's documentation that the code does not keep.
Every property of a passing run has a mutant, a plausible bug in a definition under which TLC finds it
violated; the operators marked `Mutant` stand for them and nothing else uses them.

The other findings, and one case in which the code does better than `tcp_overlap`, have a configuration
that is not among the runs of `PROJECT.json`:

| configuration | property | instance | what it shows |
|---|---|---|---|
| `MCTCPStream_Uncut.cfg` | `ContiguousDelivered`, holds | 8 bytes in segments that are never cut anew, 8 arrivals | contiguous data is delivered at once |
| `MCPacketFilter_Symbols.cfg` | `DocumentedMeaning`, violated | `tcp`, `udp`, all spellings of the operators | `&&`, `\|\|` and `!` are not operators |
| `MCPacketFilter_Ports.cfg` | `DocumentedMeaning`, violated | orders on `port`, `tcp port`, `udp port` | both ports have to compare so, not one |
| `MCPacketFilter_Value.cfg` | `ValueAfterSign`, violated | `ip ttl > 64` and `tcp`, `udp` behind it | an operator is taken for a value |
| `MCTCPStream_Wrap.cfg` | `OnlyRetransmissionsIgnored`, violated | 6 bytes, numbers modulo 16 that wrap | new data is dropped as a retransmission |
| `MCTCPStreamReassembler_FinWait.cfg` | `ClosingSideTracked`, violated | the connection of one session | a FIN of the client leads to CLOSE_WAIT, FIN_WAIT is never entered |
| `MCAppIdentification_Single.cfg` | `ConfirmedBySeveral`, violated | as `app_identification`, 2 deliveries | one packet confirms a protocol |
| `MCStatistics_Self.cfg` | `ConnectionsOfEachHost`, violated | as `statistics`, 2 records | a host's connection with itself counts twice |
| `MCStatistics_Length.cfg` | `EveryPacketInAWindow`, violated | as `statistics`, 2 records | a packet of length 0 is in no window |
| `MCStatistics_Order.cfg` | `OneEntryPerWindow`, violated | as `statistics`, clock only, 4 records, 3 windows | a window gets a second entry |

The finding of `fragment_ip_packet` with IP options has none (section 5).

**Bounds.** Merging, trimming and flushing compare a segment with its two neighbours in the list, so
three separated segments and one that bridges or contains them are the cases there are; 6 or 7 bytes
have room for them (holes at two places, a bridging segment of three). The tables treat keys
independently but for expiry and the counters: two keys and two threads show one thread acting on
another's key, and three steps to a call mean that five calls include every overlap of two calls and
a later one that sees the outcome. A datagram in three blocks has all the shapes of overlap: equal,
contained, at either end, touching. `MaxTime` lets a buffer be made, expire and be made again. Two
windows of statistics show the limit being reached and passed; three records, of times in any order,
make a third one. Four deliveries allow two payloads
for each of two streams, and more data after a confirmation. Seven lexemes hold two rules with values
and a sign, three bare ones with `and` and `or`, or a rule with `not` and parentheses (`MaxLexemes`; 2
once the filter has been used, `MaxInUse`, since what an old expression leaves behind does not depend
on how long it is). Four captures complete three fragments with a damaged or repeated one between
them; the lengths kept end in the Ethernet or the IP header, right behind it, in the data and beyond.

**Fairness.** Safety runs have none, and nothing is assumed of senders: a capture cannot count on a
retransmission, so the stream models say nothing of completion, only of what is delivered of the data
captured so far. `wire` assumes that a sequential loop goes on (weak fairness of `Send`). `analyzer` assumes weak fairness for
each thread's own steps in `analyze`: the holder of the lock is scheduled; no fairness is assumed of
those that wait for it or of the callers that change the filter and the callbacks.

**Deadlock.** It is disabled where a run really may stop: all calls made, the clock at its bound, a
stream complete. In `app_identification` reset is always possible, and deadlock is checked.

**Assumptions on the environment.**
- `TCPStream`: the SYN is the first thing captured, and sequence numbers do not wrap (`MCTCPStream_Wrap.cfg` shows
  what happens when they do).
- `IPReassembler`: a fragment, or a copy of it, is captured within `Lifetime` of its datagram being
  sent, and an identification is reused only later than the buffer's timeout (RFC 791); a call takes
  no time that matters against the timeout (`CallsTakeTime` is FALSE: the clock does not advance
  between a call's expiry and its addition). `CoverageCompletes` speaks of buffers last touched
  within `Lifetime` of the datagram: one left over from its predecessor has nothing to do with it.
- `Fragmenter`: the MTU leaves room for the header and 8 bytes.
- `Wire`: a TCP segment has a checksum, and a UDP header is 8 bytes long; bytes are lost at the end of
  a frame, not changed; a checksum tells whether all bytes of a
  segment are there (`DamageDetected` says how far a checksum can tell); fragments of packets with IP
  options are not captured (section 5).
- Callbacks that raise are caught by the code and count as called; callbacks do not call back into
  the analyzer.

## 4. What is proved

TLAPS checks these for every value of the constants that satisfies the modules' assumptions.

`StreamReassembly_proofs`, for every length of stream and every set of segments:
- `TypeCorrect`, `DeliversPrefix`, `ForgetsNothing`, `OnlyOverlapsStrand`: consequences of the inductive
  invariant `SafeDelivery`, the conjunction of `TypeOK`, `PrefixDelivered`, `NothingForgotten` and
  `HeadNotReady`. The prefix alone is not inductive: the flush appends held positions, and which ones
  these are is `Flushed`; that they are the next ones, and the lengths agree, is
  `DeliveryExtendsPrefix`. That the buffer does not hold the next byte, unless a byte was stranded,
  is what keeps the two branches apart (`FlushTarget`).
- `UncutIsDelivered`: if any two segments are equal or apart (`Uncut`), `ContiguousDelivered` holds. The
  invariant is `Aligned`: the next position is where no segment goes on, and the held positions are
  whole segments, so no segment reaches past the start of what is held.
- `KeepsPromise`: the specification implements `ByteStream`. `StepKeepsPromise` maps each arrival to
  a growth of the prefix or a stutter.

`TCPStream_proofs`, for every stream, every set of segments cut from it and every order of arrival, if
sequence numbers do not wrap (`NoWrap`: `ISN + StreamLen < SeqSpace`; when they do the code fails,
section 5):
- `StreamIsReassembled`: the specification implements `StreamReassembly`, hence by `KeepsPromise` the
  byte stream. `BufferStaysCanonical`, `BytesAccounted` and `DuplicatesAreRepeats` are the runs'
  invariants. All come from `StreamInv`: before the SYN nothing is held; afterwards there is a position n
  such that bytes 1 to n - 1 are the output, the list is canonical and behind n, what arrived is
  what was delivered and what the list covers, and the counters add up. The list being sorted and
  apart is what makes one pass of merging enough; what it covers is what the refinement maps it to.
- `RepeatsAreDelivered`: through the refinement, `UncutIsDelivered` holds of the code's lists.
- The merge is a fold over the list. `MergeUnrolled` turns the fold into the list of its intermediate
  results, and what holds of all of them follows from the one before the first that would fail
  (`LeastNumber`): so a merge keeps the segments sorted and apart (`MergeAll`), and covers what its
  segments covered. `Inserted` does the sorting, `Flushes` says what one flush takes off the list.

`TCPStreamReassembler_proofs`, for any threads, segments, timeout and bounds:
- `ConnectionsBalance` and `EstablishedAtMostOnce`, from the inductive invariant `Balanced`: the
  balances, that the table is finite and holds only connections that are not closed (else a closed
  one would be counted again when it leaves), and that the counters are natural numbers. `StateSteps`
  is what the argument needs of `_update_state`: where ESTABLISHED and the handshake states can be
  entered from.
- `TrackedFromSyn`, from `Opened`: each half in the table is a complete record, which the update of
  a half needs, and one of the two has seen a SYN. A connection that no SYN opened stays CLOSED
  (`OnlyOpen`), so the segment that created it removes it.
- `ExpiredBeforeHandling` and `NoneExpiresEarly`, from `Fresh`: no thread's reading of the clock and no
  connection's last activity is ahead of the clock. So a connection another thread creates or
  touches after the reading was taken is never older than the reading.
- `TableTyped`, from `TypedInv`, which types the halves as well (`Typed`). Segments are arbitrary here,
  of no common stream, so nothing is said of the list but that it holds segments; that the counters
  stay natural numbers still needs every branch of `add_segment`, as overlaps are subtractions.

`IPReassembler_proofs`, for any packets, threads, timeout and bounds:
- `CountNeverInvents`, from `CountInv`: a thread between load and store holds a count below that of
  the calls that have entered, or one of a dictionary that reset has replaced.
- `BuffersStayCanonical`, from `TableInv`: each buffer's list is not empty and canonical
  (`Canonical`), which the merge after each insertion keeps.
- `DatagramsIntact` and `CoveredIsReturned`, from `DatagramInv`, if senders are honest
  (`HonestSenders`) and calls take no time (`~CallsTakeTime`); the run's instance satisfies both, the
  first by an assumption in `MCIPReassembler`. Each buffer holds cuts of one datagram that are merged,
  in order and not older than the datagram's lifetime (`HeldFrom`), and is not complete, unless the
  datagram does not fit. A datagram with the same identification is sent when its predecessor's
  lifetime and the timeout have passed, so the expiry at the start of its first fragment's call
  removes what is left of it; that no time passes between that expiry and the addition is what
  `~CallsTakeTime` is for. Merged cuts that cover the datagram are one fragment, which is the
  datagram, last-fragment mark included.

`Wire_proofs`, for every payload, header length and MTU that `FragmenterAssumption` allows, every
transport header that `WireAssumption` allows, and any number of captures of any lengths:
- `FragmentsTile`: `[]Tiles`, from the inductive invariant `Tiling`. Each cut is in place (`CutOK`),
  and what `Tiles` does not say makes it inductive: the loop's offset is where the last cut ends, and a
  multiple of 8 equal to the block counter as long as something is left (`RoomForData`: the room for
  data is a positive multiple of 8). `EveryTurnCuts`: each turn of the loop moves the offset on and not past
  the end, which is the part of `Returns` that needs no fairness.
- `ReportsAreFaithful`, `LossShows`, `WholeFramesAreClean` and `AllFragmentsDeliver`, the four
  invariants of the run, from `WireInv`. None of them is inductive, as a report depends on fragments
  captured long before. `Held` says what is in the buffer: a canonical list (sorted, with a gap
  between any two) of runs of the payload, each with the bytes that belong at its offset (`Runs`), and not
  complete; as long as no last fragment was cut short, a fragment is marked as last exactly when it reaches
  the payload's end (`MarkedRuns`). `Kept` says what is not lost: every byte of a fragment captured to
  its end is in the buffer, until the data has been reported whole. When a canonical list of runs is
  complete it is one run from the first byte (`Assembled`), all of the payload when the marks are right;
  and a list with right marks that holds every byte is complete (`AllHeldIsComplete`).
- Two kinds of lemmas carry the step. `MergeAll` and `InsertedSorted`, as in `IPReassembler_proofs` but
  on bytes and cuts of any length: adding a fragment keeps the list canonical and of its kind (`Closed`,
  `RunsClosed`), and loses no byte. `EthernetRead`, `IPv4Read` (together `FrameRead`) and `Layer4Reports` say what
  each parser makes of the first bytes of a frame, wherever the capture ended: the fragment as far
  as it is there and no padding (`Read`), and a payload that is whole, or short with an error or a wrong
  checksum (`ReportOK`). The latter needs that TCP always has a checksum and that UDP's header has 8
  bytes, which `WireAssumption` therefore says.
- Of `Checksum`, for every total below 65536 * 65535, which no packet of 65535 bytes and a
  pseudo-header exceeds: `BuiltVerifies`, a packet with the checksum computed over its other words
  verifies, and `DamageDetected`, with other words it verifies only if the totals differ by a
  multiple of 65535. Both rest on `Folding`: two folds leave the total modulo 65535, and no carry is
  left after them.

`Analyzer_proofs`, for any threads, frames, filters and callbacks:
- `PacketsAccounted`, `SomeFilterAccepts` and `MissesAtMostRemovals`, from `AnalyzerInv`. Whoever is inside
  `analyze` holds the lock (`LockHeld`), so at most one packet is undecided. Between the two reads of
  the filter whatever is set has been in force during the call (`FilterSeen`). `MissedBound` makes the
  bound on skipped callbacks inductive: at every turn of the loop, no more expected callbacks are
  behind the index without having been called than were removed (`RemovalMissesOne`: a removal moves at
  most one past it).

`AppIdentification_proofs`, for any ports, payloads and streams:
- `TablesWellFormed`, `VerdictsAgree`, `VerdictsCarried` and `WeakSignaturesAddUp`, from `TablesInv`.
  The caches agree because of more than their agreement: the identifier's confirmed result is the
  stream's, and what either holds, confirmed or not, some payload of the stream or the port speaks
  for. The next payload is merged with these, and two that agree confirm.

`Statistics_proofs`, for any hosts, frames, windows and bounds:
- `HostsAgreeWithProtocols`, `ConnectionsAgreeWithPorts`, `ConnectionsCreditedOnce` and
  `PacketsStayInWindows`, for any number of threads and timestamps in any order. A table's total is a
  fold over its domain; `TotalUpdated` says what one changed entry does to it, for all the tables. The
  balances are inductive with the shape of the tables, except one: `ConnectionsInv` says of every
  address, host or not, at how many connections it is the one end and at how many the other, since a
  new connection's hosts may be new too. For a host that does not talk to itself the two sets are
  disjoint (`EndsTogether`), which gives the promised count.

**Model-checked only.** Liveness (`Returns`, `AnalyzeReturns`), which needs fairness and
ENABLED. `PacketFilter`'s three properties: lexer, parser and `Meanings` are recursive functions over
texts and positions, and what they compute for every text takes induction over data.
`NoRedelivery`, `ClosingSideTracked`, `ValueAfterSign`, `OnlyBadFramesFail`, `ConfirmedBySeveral`,
`ConnectionsOfEachHost`, `EveryPacketInAWindow` and `OneEntryPerWindow` are violated;
`ContiguousDelivered`, `OnlyRetransmissionsIgnored` and `DocumentedMeaning` hold under the
assumptions of one configuration and are violated in another without them.

## 5. Known limits

What the models leave out on purpose or exclude by an assumption, because the code does not keep it:

- A SYN captured after data of its stream sets `next_seq` back, and delivered data is delivered again
  (`stream/tcp_reassembly.py:294`); a FIN captured first sets `next_seq` one past its own number, and
  the first byte of its payload counts as a retransmission (`:301`).
- Sequence numbers are compared as integers (`:111`): after 2^32 the stream stops (a finding,
  `MCTCPStream_Wrap.cfg`).
- FIN_WAIT, documented in `:24` and in `analyzer.py:16`, is never entered: a FIN of either side leads to
  CLOSE_WAIT (`:340`, a finding, `MCTCPStreamReassembler_FinWait.cfg`).
- A FIN during SYN_RECV leads to ESTABLISHED, not to CLOSE_WAIT, as the ACK is looked at first.
- `out_of_order_segments` and `duplicate_bytes` of the reassembler add a connection's running totals
  again with each segment.
- "Client" is the smaller endpoint, not the initiator (`:239`, and in `stats/statistics.py`).
- A datagram longer than 16 bits can say raises in every later fragment until its buffer expires
  (`stream/ip_reassembly.py:264`); `CoverageCompletes` promises completion only to datagrams that fit.
- A callback that removes itself makes the loop skip its successor (`analyzer.py:616`);
  `SkipsAtMostRemovals` bounds the damage.
- A callback that calls `get_stream`, `get_all_streams` or `reset` waits for its own thread's lock.
- `StreamData` is removed by `reset` only: a new connection between the same endpoints adds to the
  old one's data and inherits its confirmed protocol.
- The MQTT check matches nearly any printable text with 0.6; a second such payload makes an unknown
  text protocol "mqtt". `220 ` is SMTP (0.85) before it is FTP (0.8), on port 21 as well, and is
  confirmed by that one packet, although `application/protocol_identification.py:38` calls the state
  "confirmed by several packets" (a finding, `MCAppIdentification_Single.cfg`). Signature "tls" never agrees with port protocol "https".
- Packets, filters and statistics go by each packet's own payload (`analyzer.py:342`), not by the
  stream's verdict: `http` does not match an ACK of an HTTP connection on an unknown port, and such a
  packet sets the connection's protocol in the statistics back to unknown
  (`stats/statistics.py:429`, `ConnectionAfter`).
- Timestamps reach the statistics out of order, from two capturing threads or a caller's own: a window
  gets several entries (`analyzer.py:184`, a finding, `MCStatistics_Order.cfg`) and durations become negative.
- A packet whose IP header says length 0 is in no time window (`stats/statistics.py:473`, a finding,
  `MCStatistics_Length.cfg`), and adds no bytes to its hosts and connection.
- A connection of a host with itself counts twice for the host (`:431-433`, a finding,
  `MCStatistics_Self.cfg`). A packet between equal ports counts twice for its port (`:458-459`), although `:31`
  of the documentation speaks of each port's packets; `TransportBalance` counts it so.
- `fragment_ip_packet` with an MTU below header + 8 does not end. With IP options it packs headers of
  20 bytes that claim to be longer (`stream/ip_reassembly.py:361`, a finding): the fragments' data is
  then read from the wrong place.
- The lexer drops `&`, `|`, `!` and `=`: `! tcp` means tcp (`filter/filter.py:664`, a finding,
  `MCPacketFilter_Symbols.cfg`). A dropped `=` does no harm, as equality is what no sign means.
- A comparison with a number takes both ports: `tcp port > 1000` asks for two ports above 1000 (`:383`,
  a finding, `MCPacketFilter_Ports.cfg`). `!=` asks for neither port, as its opposite should.
- Behind a comparison sign any word is a value, `or` and `)` too (`:744`, a finding, `MCPacketFilter_Value.cfg`): `Misread` is the
  exception of `RejectsTheRest` for it, `Unfinished` the one for rules without their value, which the
  parser takes for fields that are never set.
- `ether type 0x0800` compares with a word, never equal to a number; write 2048. `icmp`, and names
  of words that do not belong together (`arp port 53`), match nothing.
- `set_expression("")` stores rules that match nothing, which `match` ignores while the expression is
  empty; when a later text is rejected, its text is stored and these rules apply.
- A last fragment cut by the capture ends the datagram early: the datagram is complete for the buffer
  and reported short. Only UDP's length or the checksum tells, for a UDP datagram without a checksum
  the length alone (`DeliveredWhole` excludes it, `DamageShows` covers it).
- `build_udp` writes a computed checksum of 0 as 0, which `parse_udp` takes for unchecked.

Not modelled: address conversion and the header builders used by tests; from the modelled files, getters,
listings, exports, `validate` and details of results, which change no state; callbacks that call back
into the analyzer.

## 6. Plan

Done, in this order: `TCPHalf` with `StreamReassembly` and `ByteStream`; the connection table; IP
reassembly and the fragmenter; the analyzer; statistics; application protocols; the filter; the
layers, composed with fragmentation and reassembly; the checksum; the proofs above.

Next, by weight:
1. The analyzer composed with the stream reassembler, for data that is delivered while `reset` runs.
2. `FollowsLastAccepted` as a theorem, which needs of the parser only that it accepts the empty text
   and that what it accepts is a set of contexts.

## 7. Running

    tlc -config MCTCPStream.cfg MCTCPStream.tla
    tlapm StreamReassembly_proofs.tla
