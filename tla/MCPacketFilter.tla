---------------------------- MODULE MCPacketFilter ----------------------------
(* Packets and rules for TLC.                                                *)
EXTENDS PacketFilter

Packet(type, hosts, ttl, layer, protocol, ports, flags, app) ==
  [ ethertype |-> type, src_mac |-> hosts[1], dst_mac |-> hosts[2],
    ip |-> type = 2048, src_ip |-> hosts[1], dst_ip |-> hosts[2], ttl |-> ttl,
    protocol |-> protocol, identification |-> ttl, total_length |-> 60, ip_flags |-> {},
    tcp |-> layer = "tcp", udp |-> layer = "udp", src_port |-> ports[1], dst_port |-> ports[2],
    seq |-> 0, ack |-> 0, window |-> 0, length |-> 0, flags |-> flags, app_protocol |-> app ]

\* A request and its answer, a query, a last segment and a reset, an ARP request and a packet of
\* neither transport.
Packets ==
  { Packet(2048, <<"a", "b">>, 64, "tcp", 6, <<4000, 80>>, {"syn"}, "http"),
    Packet(2048, <<"b", "a">>, 128, "tcp", 6, <<80, 4000>>, {"syn", "ack"}, "unknown"),
    Packet(2048, <<"a", "b">>, 64, "udp", 17, <<80, 53>>, {}, "dns"),
    Packet(2048, <<"b", "a">>, 64, "tcp", 6, <<443, 4000>>, {"fin", "psh", "ack"}, "https"),
    Packet(2048, <<"b", "a">>, 63, "tcp", 6, <<80, 1000>>, {"rst", "urg"}, "unknown"),
    Packet(2054, <<"a", "c">>, 0, "none", 0, <<0, 0>>, {}, "unknown"),
    Packet(2048, <<"c", "a">>, 1, "none", 1, <<0, 0>>, {}, "unknown") }

Nets == [n \in {"net"} |-> {"a"}]

\* How everybody writes: operators are words, and either port is only tested for equality.
AsWords == {Sign("and"), Sign("or"), Sign("not")}
Tested == Rules \ OrderedPortRules

\* All of the documented spellings, on two rules.
AsSymbols == AsWords \cup {Skipped("&&"), Skipped("||"), Skipped("!")}
Transports == { r \in Rules : r.words \in {Words(<<"tcp">>), Words(<<"udp">>)} }

\* A rule with a comparison.
TimeRules == { r \in NumberRules : r.words = Words(<<"ip", "ttl">>) \o <<Sign(">"), Number(64)>> }

\* Rules that stand behind others: short, with a value, and with words a field name could take.
Followers ==
  { r \in Rules : r.words \in { Words(<<"tcp">>), Words(<<"port">>) \o <<Number(80)>>,
                                Words(<<"tcp", "flags", "ack">>) } }
=============================================================================
