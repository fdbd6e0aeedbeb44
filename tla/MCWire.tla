-------------------------------- MODULE MCWire --------------------------------
(* Payloads for TLC: headers without data, and up to five fragments of the    *)
(* smallest size, ending on a multiple of 8 and around it.                    *)
EXTENDS Wire

Payloads == {0, 8, 17, 20, 24, 25, 33}

Carried(proto, header, summed) ==
  [protocol |-> proto, header_len |-> header, checksummed |-> summed]

\* A TCP header with options, one that is too short, and datagrams with and without checksum.
Carriers ==
  { Carried("tcp", 20, TRUE), Carried("tcp", 24, TRUE), Carried("tcp", 16, TRUE),
    Carried("udp", 8, TRUE), Carried("udp", 8, FALSE), Carried("other", 0, FALSE) }

\* In the Ethernet or IP header, right behind it or in a tagged one, in the data of a
\* fragment with and without a tag, and beyond all frames.
Lengths == {15, 34, 40, 200}
=============================================================================
