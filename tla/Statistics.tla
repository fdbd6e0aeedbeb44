------------------------------ MODULE Statistics ------------------------------
(***************************************************************************)
(* The statistics of captured packets: class StatisticsCollector and the   *)
(* dataclasses of stats/statistics.py.  record_packet updates every table  *)
(* in one critical section; the timestamp it is given is the caller's, or  *)
(* was read by analyze before it took any lock.                            *)
(*                                                                         *)
(* A packet is what the filter context says of it: [frame, layers, proto,  *)
(* src, dst, sport, dport, total_length, payload, segment, app, truncated, *)
(* errors].  frame is the length of the raw frame (of the last fragment,   *)
(* if the datagram was reassembled), proto the IP header's protocol (a     *)
(* fragment has one and no transport layer), total_length, payload and     *)
(* segment the lengths of the IP packet, of what it holds, and of its TCP  *)
(* segment or UDP datagram; layers, truncated and errors are sets.         *)
(* Left out: the exports and filtered listings, which read the tables      *)
(* under the same lock.                                                    *)
(***************************************************************************)
EXTENDS Integers, Sequences, SequencesExt

CONSTANTS Threads,        \* threads that call analyze
          Packets,
          Unknown,        \* the application protocol "unknown"
          Timestamps,     \* times that callers give to analyze
          WindowSeconds,
          MaxWindows,     \* max_windows, 1000 in the code
          MaxTime,        \* bound: the clock
          MaxRecorded     \* bound: packets recorded between two resets

ASSUME StatisticsAssumption ==
  /\ WindowSeconds \in Nat \ {0} /\ MaxWindows \in Nat \ {0}
  /\ MaxTime \in Nat /\ MaxRecorded \in Nat /\ Timestamps \subseteq Nat
  /\ \A p \in Packets :
       /\ p.frame \in Nat \ {0} /\ p.total_length \in Nat /\ p.payload \in Nat /\ p.segment \in Nat
       /\ p.layers \subseteq {"ip", "tcp", "udp"} /\ Cardinality(p.layers \ {"ip"}) <= 1
       /\ p.layers # {} => "ip" \in p.layers
       /\ p.truncated \cup p.errors \subseteq {"ethernet", "ip"}

VARIABLES clock,
          global,         \* GlobalStats
          ethertypes, ip_protos, apps, tcp_ports, udp_ports,   \* keys to ProtocolStats
          connections,    \* five tuples to ConnectionStats
          hosts,          \* addresses to HostStats
          windows,        \* the parallel lists of TimeWindowStats, as one list
          dropped,        \* packets in windows that are gone
          unsized,        \* packets of length 0, which no window counts
          pending         \* the packet each thread is about to record, with its timestamp, if any

protocols == <<ethertypes, ip_protos, apps, tcp_ports, udp_ports>>
tables == <<global, protocols, connections, hosts, windows, dropped, unsized>>
vars == <<clock, tables, pending>>

NewGlobal == [total_packets |-> 0, total_bytes |-> 0, truncated_packets |-> 0, error_packets |-> 0,
              min_packet_size |-> 0, max_packet_size |-> 0, total_payload_bytes |-> 0]

NewConnection == [packet_count |-> 0, byte_count |-> 0, client_packets |-> 0, client_bytes |-> 0,
                  server_packets |-> 0, server_bytes |-> 0, start_time |-> 0, last_time |-> 0,
                  app_protocol |-> Unknown]

NewHost == [packets_sent |-> 0, packets_received |-> 0, bytes_sent |-> 0, bytes_received |-> 0,
            connections |-> 0]

Init ==
  /\ clock = 1
  /\ global = NewGlobal
  /\ ethertypes = <<>> /\ ip_protos = <<>> /\ apps = <<>> /\ tcp_ports = <<>> /\ udp_ports = <<>>
  /\ connections = <<>>
  /\ hosts = <<>>
  /\ windows = <<>>
  /\ dropped = 0 /\ unsized = 0
  /\ pending = [t \in Threads |-> <<>>]

\* A defaultdict entry, made on first use.
Lookup(table, key, default) == IF key \in DOMAIN table THEN table[key] ELSE default

Update(table, key, value) == [k \in DOMAIN table \cup {key} |-> IF k = key THEN value ELSE table[k]]

AddPacket(table, key, size) ==
  LET old == Lookup(table, key, [packet_count |-> 0, byte_count |-> 0])
  IN  Update(table, key, [packet_count |-> old.packet_count + 1, byte_count |-> old.byte_count + size])

Has(p, layer) == layer \in p.layers

Transported(p) == Has(p, "tcp") \/ Has(p, "udp")

-----------------------------------------------------------------------------
(* The six parts of record_packet.                                         *)

\* Truncation is counted once per truncated layer, an error once per packet.
RecordGlobal(p) ==
  global' = [global EXCEPT
    !.total_packets = @ + 1,
    !.total_bytes = @ + p.frame,
    !.truncated_packets = @ + Cardinality(p.truncated),
    !.min_packet_size = IF @ = 0 \/ p.frame < @ THEN p.frame ELSE @,
    !.max_packet_size = IF p.frame > @ THEN p.frame ELSE @,
    !.total_payload_bytes = IF Has(p, "ip") THEN @ + p.payload ELSE @,
    !.error_packets = IF p.errors = {} THEN @ ELSE @ + 1]

RecordProtocols(p) ==
  /\ ethertypes' = AddPacket(ethertypes, Has(p, "ip"), p.frame)
  /\ ip_protos' = IF Has(p, "ip") THEN AddPacket(ip_protos, p.proto, p.total_length)
                                  ELSE ip_protos
  /\ apps' = IF Transported(p) /\ p.app # Unknown /\ p.segment > 0
             THEN AddPacket(apps, p.app, p.segment) ELSE apps

\* The smaller endpoint first; it is taken for the client.
FiveTuple(p) ==
  LET smaller == p.src < p.dst \/ (p.src = p.dst /\ p.sport < p.dport)
  IN  [ client |-> IF smaller THEN <<p.src, p.sport>> ELSE <<p.dst, p.dport>>,
        server |-> IF smaller THEN <<p.dst, p.dport>> ELSE <<p.src, p.sport>>,
        proto  |-> p.proto ]

IsClientSide(p) == <<p.src, p.sport>> = FiveTuple(p).client

\* The protocol is the one of this packet, unknown included.
ConnectionAfter(conn, p, timestamp) ==
  LET counted == [conn EXCEPT !.packet_count = @ + 1, !.byte_count = @ + p.total_length,
                              !.last_time = timestamp, !.app_protocol = p.app]
  IN  IF IsClientSide(p)
      THEN [counted EXCEPT !.client_packets = @ + 1, !.client_bytes = @ + p.total_length]
      ELSE [counted EXCEPT !.server_packets = @ + 1, !.server_bytes = @ + p.total_length]

RecordConnection(p, timestamp) ==
  LET key  == FiveTuple(p)
      conn == Lookup(connections, key, [NewConnection EXCEPT !.start_time = timestamp])
  IN  connections' = IF Transported(p)
                     THEN Update(connections, key, ConnectionAfter(conn, p, timestamp))
                     ELSE connections

IsNewConnection(p) == Transported(p) /\ FiveTuple(p) \notin DOMAIN connections

\* _record_hosts, and the end of _record_connection, which credits a new connection to
\* both hosts: to one host twice when it talks to itself.
Credit(table, host, field, count) ==
  LET old == Lookup(table, host, NewHost)
  IN  Update(table, host, [old EXCEPT ![field] = @ + count])

\* Mutant: only packets with a transport layer count for the hosts.
RecordHostsTransported(p) ==
  LET new      == IF IsNewConnection(p) THEN 1 ELSE 0
      opened   == Credit(Credit(hosts, p.src, "connections", new), p.dst, "connections", new)
      sent     == Credit(Credit(opened, p.src, "packets_sent", 1), p.src, "bytes_sent", p.total_length)
      received == Credit(Credit(sent, p.dst, "packets_received", 1),
                         p.dst, "bytes_received", p.total_length)
  IN  hosts' = IF Transported(p) THEN received ELSE hosts

RecordHosts(p) ==
  LET new      == IF IsNewConnection(p) THEN 1 ELSE 0
      opened   == Credit(Credit(hosts, p.src, "connections", new), p.dst, "connections", new)
      sent     == Credit(Credit(opened, p.src, "packets_sent", 1), p.src, "bytes_sent", p.total_length)
      received == Credit(Credit(sent, p.dst, "packets_received", 1),
                         p.dst, "bytes_received", p.total_length)
  IN  hosts' = IF Has(p, "ip") THEN received ELSE hosts

\* Mutant: only packets with data count for the ports.
RecordPortsData(p) ==
  LET both(table) == IF p.segment = 0 THEN table
                     ELSE AddPacket(AddPacket(table, p.sport, p.segment), p.dport, p.segment)
  IN  /\ tcp_ports' = IF Has(p, "tcp") THEN both(tcp_ports) ELSE tcp_ports
      /\ udp_ports' = IF Has(p, "udp") THEN both(udp_ports) ELSE udp_ports

\* A packet between equal ports counts twice for the port.
RecordPorts(p) ==
  LET both(table) == AddPacket(AddPacket(table, p.sport, p.segment), p.dport, p.segment)
  IN  /\ tcp_ports' = IF Has(p, "tcp") THEN both(tcp_ports) ELSE tcp_ports
      /\ udp_ports' = IF Has(p, "udp") THEN both(udp_ports) ELSE udp_ports

WindowStart(timestamp) == (timestamp \div WindowSeconds) * WindowSeconds

NewWindow(timestamp) ==
  [ timestamp |-> WindowStart(timestamp), packets |-> 0, bytes |-> 0, tcp_packets |-> 0,
    tcp_bytes |-> 0, udp_packets |-> 0, udp_bytes |-> 0, app_packets |-> <<>>, app_bytes |-> <<>> ]

WindowAfter(window, p, size) ==
  LET tcp == IF Has(p, "tcp") THEN 1 ELSE 0
      udp == IF Has(p, "udp") THEN 1 ELSE 0
  IN  [window EXCEPT !.packets     = @ + 1,   !.bytes     = @ + size,
                     !.tcp_packets = @ + tcp, !.tcp_bytes = @ + tcp * size,
                     !.udp_packets = @ + udp, !.udp_bytes = @ + udp * size,
                     !.app_packets = IF p.app = Unknown THEN @
                                     ELSE Update(@, p.app, Lookup(@, p.app, 0) + 1),
                     !.app_bytes   = IF p.app = Unknown THEN @
                                     ELSE Update(@, p.app, Lookup(@, p.app, 0) + size)]

WindowSize(p) == IF Has(p, "ip") THEN p.total_length ELSE p.frame

\* Mutant: a new window starts out empty, as if the packet were added later.
RecordTimeWindowEmpty(p, timestamp) ==
  LET current == windows # <<>> /\ Last(windows).timestamp = WindowStart(timestamp)
      added   == IF current THEN Append(Front(windows), WindowAfter(Last(windows), p, WindowSize(p)))
                            ELSE Append(windows, NewWindow(timestamp))
  IN  /\ UNCHANGED unsized
      /\ IF Len(added) > MaxWindows
         THEN windows' = Tail(added) /\ dropped' = dropped + Head(added).packets
         ELSE windows' = added /\ UNCHANGED dropped

\* Only the last window is looked at.  A window too many drops the oldest.
RecordTimeWindow(p, timestamp) ==
  LET size    == WindowSize(p)
      current == windows # <<>> /\ Last(windows).timestamp = WindowStart(timestamp)
      added   == IF current THEN Append(Front(windows), WindowAfter(Last(windows), p, size))
                            ELSE Append(windows, WindowAfter(NewWindow(timestamp), p, size))
  IN  IF size = 0 THEN unsized' = unsized + 1 /\ UNCHANGED <<windows, dropped>>
      ELSE /\ UNCHANGED unsized
           /\ IF Len(added) > MaxWindows
              THEN windows' = Tail(added) /\ dropped' = dropped + Head(added).packets
              ELSE windows' = added /\ UNCHANGED dropped

RecordPacket(p, timestamp) ==
  /\ RecordGlobal(p)
  /\ RecordProtocols(p)
  /\ RecordConnection(p, timestamp)
  /\ RecordHosts(p)
  /\ RecordPorts(p)
  /\ RecordTimeWindow(p, timestamp)

-----------------------------------------------------------------------------
Tick ==
  /\ clock < MaxTime
  /\ clock' = clock + 1
  /\ UNCHANGED <<tables, pending>>

\* analyze is given a time, in any order, or reads the clock; then it waits for its lock.
Capture(t, p) ==
  /\ pending[t] = <<>>
  /\ \E timestamp \in {clock} \cup Timestamps :
       pending' = [pending EXCEPT ![t] = <<[packet |-> p, timestamp |-> timestamp]>>]
  /\ UNCHANGED <<clock, tables>>

Record(t) ==
  /\ pending[t] # <<>>
  /\ global.total_packets < MaxRecorded
  /\ RecordPacket(Head(pending[t]).packet, Head(pending[t]).timestamp)
  /\ pending' = [pending EXCEPT ![t] = <<>>]
  /\ UNCHANGED clock

\* Mutant: the connections survive.
ResetKeepsConnections ==
  /\ global' = NewGlobal
  /\ ethertypes' = <<>> /\ ip_protos' = <<>> /\ apps' = <<>> /\ tcp_ports' = <<>> /\ udp_ports' = <<>>
  /\ hosts' = <<>>
  /\ windows' = <<>>
  /\ dropped' = 0 /\ unsized' = 0
  /\ UNCHANGED <<clock, connections, pending>>

Reset ==
  /\ global' = NewGlobal
  /\ ethertypes' = <<>> /\ ip_protos' = <<>> /\ apps' = <<>> /\ tcp_ports' = <<>> /\ udp_ports' = <<>>
  /\ connections' = <<>>
  /\ hosts' = <<>>
  /\ windows' = <<>>
  /\ dropped' = 0 /\ unsized' = 0
  /\ UNCHANGED <<clock, pending>>

WindowedPackets == FoldLeft(LAMBDA n, w : n + w.packets, 0, windows)

\* Starts over with empty windows, here of the same size.
SetTimeWindow ==
  /\ windows' = <<>>
  /\ dropped' = dropped + WindowedPackets
  /\ UNCHANGED <<clock, global, protocols, connections, hosts, unsized, pending>>

Next ==
  \/ Tick
  \/ \E t \in Threads : Record(t) \/ \E p \in Packets : Capture(t, p)
  \/ Reset
  \/ SetTimeWindow

Spec == Init /\ [][Next]_vars

-----------------------------------------------------------------------------
Total(table, field) == MapThenSumSet(LAMBDA k : table[k][field], DOMAIN table)

\* Every packet sent by a host was received by a host, and the hosts together saw what
\* the protocol table saw: the two tables are updated from different places.
HostsBalance ==
  /\ Total(hosts, "packets_sent") = Total(ip_protos, "packet_count")
  /\ Total(hosts, "packets_received") = Total(ip_protos, "packet_count")
  /\ Total(hosts, "bytes_sent") = Total(ip_protos, "byte_count")
  /\ Total(hosts, "bytes_received") = Total(hosts, "bytes_sent")

ConnectionsOf(h) == {c \in DOMAIN connections : h \in {c.client[1], c.server[1]}}

TalksToItself(h) == \E c \in ConnectionsOf(h) : c.client[1] = c.server[1]

\* Both ends of every connection are hosts, and each host is credited with its connections,
\* each when its first packet is seen and never again.  A connection of a host with itself
\* is left to ConnectionsOfEachHost.
ConnectionsCredited ==
  /\ \A c \in DOMAIN connections : {c.client[1], c.server[1]} \subseteq DOMAIN hosts
  /\ \A h \in DOMAIN hosts :
       ~TalksToItself(h) => hosts[h].connections = Cardinality(ConnectionsOf(h))

\* What statistics.py:28 promises of every host: its number of connections.  The code counts
\* a connection of a host with itself twice (431-433).
ConnectionsOfEachHost ==
  \A h \in DOMAIN hosts : hosts[h].connections = Cardinality(ConnectionsOf(h))

\* The two directions of a connection add up to it, and connections and ports to the
\* packets that have a transport layer.
TransportBalance ==
  /\ \A c \in DOMAIN connections :
       LET conn == connections[c]
       IN  /\ conn.packet_count = conn.client_packets + conn.server_packets
           /\ conn.byte_count = conn.client_bytes + conn.server_bytes
  /\ 2 * Total(connections, "packet_count") =
       Total(tcp_ports, "packet_count") + Total(udp_ports, "packet_count")

\* Every recorded packet of a length above 0 was counted in one window, which is there or
\* was dropped by the limit or by set_time_window; none is in two protocols of its window.
\* There are no more windows than the limit.
WindowsHoldEverything ==
  /\ Len(windows) <= MaxWindows
  /\ WindowedPackets + dropped + unsized = global.total_packets
  /\ \A w \in ToSet(windows) :
       /\ w.tcp_packets + w.udp_packets <= w.packets
       /\ w.tcp_bytes + w.udp_bytes <= w.bytes
       /\ MapThenSumSet(LAMBDA a : w.app_packets[a], DOMAIN w.app_packets) <= w.packets
       /\ MapThenSumSet(LAMBDA a : w.app_bytes[a], DOMAIN w.app_bytes) <= w.bytes

\* The windows count the packets (statistics.py:35).  A packet whose IP header gives no length,
\* as the network card's offload leaves it, is recorded and in no window (473).
EveryPacketInAWindow == WindowedPackets + dropped = global.total_packets

\* The packets of a stretch of time are counted in one window (statistics.py:35).  A thread that
\* waits for the lock with an earlier time makes a second one of a window that is over.
OneEntryPerWindow ==
  \A i, j \in DOMAIN windows : windows[i].timestamp = windows[j].timestamp => i = j
=============================================================================
