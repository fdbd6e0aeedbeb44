----------------------------- MODULE TCPConnection -----------------------------
(***************************************************************************)
(* A tracked connection: class TCPConnection of stream/tcp_reassembly.py.  *)
(* An endpoint (ip, port) is an integer whose order stands for the         *)
(* lexicographic order of the pair; a connection is identified by its two  *)
(* endpoints, the smaller first, and "c2s" is the direction that starts at *)
(* the smaller one, whoever opened the connection.                         *)
(*                                                                         *)
(* A segment is [src, dst, seq, syn, ack, fin, rst, payload].              *)
(***************************************************************************)
EXTENDS TCPHalf

\* The states the module documents; no code assigns FIN_WAIT.
States == {"CLOSED", "SYN_SENT", "SYN_RECV", "ESTABLISHED", "FIN_WAIT", "CLOSE_WAIT"}

FiveTuple(src, dst) == IF src < dst THEN <<src, dst>> ELSE <<dst, src>>

Directions == {"c2s", "s2c"}

Direction(key, src) == IF src = key[1] THEN "c2s" ELSE "s2c"

NewConnection ==
  [ half        |-> [d \in Directions |-> NewHalf],
    state       |-> "CLOSED",
    last_active |-> 0 ]          \* overwritten before anyone reads it

\* Mutant: a state that TCP has and the enumeration does not use.
HandshakeLastAck(state, tcp) ==
  CASE state = "CLOSED"      /\ tcp.syn -> "SYN_SENT"
    [] state = "SYN_SENT"    /\ tcp.ack -> "ESTABLISHED"
    [] state = "ESTABLISHED" /\ tcp.fin -> "CLOSE_WAIT"
    [] state = "CLOSE_WAIT"  /\ tcp.fin -> "LAST_ACK"
    [] OTHER                            -> state

\* Mutant: a SYN restarts the handshake in any state.
HandshakeRestarts(state, tcp) ==
  CASE tcp.syn /\ ~tcp.ack                           -> "SYN_SENT"
    [] state = "SYN_SENT"    /\ tcp.syn /\ tcp.ack   -> "SYN_RECV"
    [] state = "SYN_SENT"    /\ ~tcp.syn /\ tcp.ack  -> "ESTABLISHED"
    [] state = "SYN_RECV"    /\ tcp.ack              -> "ESTABLISHED"
    [] OTHER                                         -> state

\* The state a segment without RST leads to while the connection is open.
Handshake(state, tcp) ==
  CASE state = "CLOSED"      /\ tcp.syn /\ ~tcp.ack -> "SYN_SENT"
    [] state = "CLOSED"      /\ tcp.syn /\ tcp.ack  -> "SYN_RECV"
    [] state = "SYN_SENT"    /\ tcp.syn /\ tcp.ack  -> "SYN_RECV"
    [] state = "SYN_SENT"    /\ ~tcp.syn /\ tcp.ack -> "ESTABLISHED"
    [] state = "SYN_RECV"    /\ tcp.ack             -> "ESTABLISHED"
    [] state = "ESTABLISHED" /\ tcp.fin             -> "CLOSE_WAIT"
    [] OTHER                                        -> state

BothFinished(conn) == \A d \in Directions : conn.half[d].has_fin

\* Mutant: an ACK on an unknown connection counts as established.
UpdateStateMidStream(conn, tcp) ==
  IF tcp.rst \/ BothFinished(conn) THEN "CLOSED"
  ELSE IF conn.state = "CLOSED" /\ tcp.ack THEN "ESTABLISHED"
  ELSE Handshake(conn.state, tcp)

\* Evaluated before the segment's own FIN is noted: the second FIN does not close
\* the connection, the segment after it does.
UpdateState(conn, tcp) ==
  IF tcp.rst \/ BothFinished(conn) THEN "CLOSED" ELSE Handshake(conn.state, tcp)

IsClosed(conn) == conn.state = "CLOSED"

IsEstablished(conn) == conn.state = "ESTABLISHED"

\* The connection after the segment, and the data newly delivered in its direction.
ProcessSegment(conn, direction, tcp, time) ==
  LET received == ReceiveSegment(conn.half[direction], tcp)
  IN  [ conn |-> [ half        |-> [conn.half EXCEPT ![direction] = received.half],
                   state       |-> UpdateState(conn, tcp),
                   last_active |-> time ],
        delivered |-> received.delivered ]
=============================================================================
