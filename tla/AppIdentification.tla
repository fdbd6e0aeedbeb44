--------------------------- MODULE AppIdentification ---------------------------
(***************************************************************************)
(* Which application protocol a TCP stream carries:                        *)
(* application/protocol_identification.py (AppProtocolIdentifier) and the  *)
(* analyzer's StreamData with _handle_tcp_reassembly and                   *)
(* _identify_app_protocol.  Two tables keep a verdict for each stream: the *)
(* identifier's _connections and the stream's own app_protocol fields.     *)
(*                                                                         *)
(* A payload is what the signature checks look at: the word it opens with  *)
(* and the marks they find in it.  A confidence is in hundredths.  The     *)
(* code adds and compares floats: 0.7 + 0.1 is not above 0.8 there, 0.5 +  *)
(* 0.1 is not above 0.6 and 0.6 + 0.2 is not above 0.8, as in hundredths.  *)
(* What process returned as the data of a segment is the input here.       *)
(***************************************************************************)
EXTENDS Integers, Sequences, FiniteSets, SequencesExt

CONSTANTS Ports,          \* streams, as pairs of client port and server port
          Payloads,       \* the data a segment can deliver
          MaxDeliveries   \* bound: segments with data since the last reset

ASSUME IdentificationAssumption ==
  /\ Ports \subseteq Nat \X Nat
  /\ MaxDeliveries \in Nat

VARIABLES connections,    \* the identifier's verdict for each stream it has seen
          stream_data     \* StreamData of each stream

vars == <<connections, stream_data>>

Unknown == "unknown"

Result(protocol, method, confidence) ==
  [protocol |-> protocol, method |-> method, confidence |-> confidence]

Lesser(a, b) == IF a < b THEN a ELSE b

-----------------------------------------------------------------------------
(* The signature checks: the confidence of the match, 0 when there is none.  *)

HTTPMethods ==
  {"GET ", "POST ", "PUT ", "DELETE ", "HEAD ", "OPTIONS ", "PATCH ", "TRACE ", "CONNECT "}

FTPWords ==
  {"USER ", "PASS ", "LIST", "RETR ", "STOR ", "QUIT", "PASV", "PORT ", "SYST", "TYPE "}
    \cup {"220 ", "230 ", "331 ", "530 ", "150 ", "226 ", "221 "}

SMTPWords ==
  {"EHLO ", "HELO ", "MAIL FROM:", "RCPT TO:", "DATA", "QUIT", "RSET", "NOOP"}
    \cup {"220 ", "250 ", "221 ", "354 ", "550 "}

POP3Words ==
  {"USER ", "PASS ", "LIST", "RETR ", "DELE ", "QUIT", "STAT", "TOP "}
    \cup {"+OK ", "-ERR ", "+OK\r\n"}

CheckHTTP(data) ==
  IF data.word \in HTTPMethods \cup {"HTTP/1."} THEN 90
  ELSE IF "host header" \in data.marks THEN 60 ELSE 0

CheckTLS(data) ==
  IF "tls handshake" \notin data.marks THEN 0
  ELSE IF "hello" \in data.marks THEN 95
  ELSE IF "handshake type" \in data.marks THEN 80 ELSE 70

CheckSSH(data) ==
  IF data.word # "SSH-" THEN 0 ELSE IF "line" \in data.marks THEN 90 ELSE 70

CheckFTP(data) == IF data.word \in FTPWords THEN 80 ELSE 0

CheckSMTP(data) == IF data.word \in SMTPWords THEN 85 ELSE 0

CheckPOP3(data) == IF data.word \in POP3Words THEN 80 ELSE 0

\* Its words are looked for anywhere in the first few hundred bytes.
CheckIMAP(data) ==
  IF "imap words" \in data.marks \/ data.word \in {"* OK ", "* BAD ", "* NO "} THEN 70 ELSE 0

CheckDNS(data) == IF "dns header" \in data.marks THEN 60 ELSE 0

CheckDHCP(data) ==
  IF "dhcp cookie" \notin data.marks THEN 0 ELSE IF "dhcp type" \in data.marks THEN 90 ELSE 80

CheckNTP(data) ==
  IF "ntp header" \notin data.marks THEN 0
  ELSE IF "ntp server" \in data.marks THEN 80
  ELSE IF "ntp client" \in data.marks THEN 75 ELSE 70

CheckSNMP(data) == IF "snmp pdu" \in data.marks THEN 85 ELSE 0

CheckRedis(data) ==
  IF data.word \in {"+OK ", "+OK\r\n", "-ERR ", "+", "-", ":"} THEN 60
  ELSE IF data.word = "$" THEN 70
  ELSE IF "redis count" \in data.marks THEN 80
  ELSE IF data.word \in {"PING", "SET ", "GET ", "INCR"} THEN 70 ELSE 0

\* Any printable text passes: its first byte has a packet type in its upper half and
\* its second is a short remaining length.
CheckMQTT(data) == IF data.word # "" \/ "mqtt type" \in data.marks THEN 60 ELSE 0

CheckMySQL(data) ==
  IF "mysql greeting" \in data.marks THEN 70
  ELSE IF "mysql response" \in data.marks THEN 60 ELSE 0

CheckPostgres(data) ==
  IF "postgres startup" \in data.marks THEN 80
  ELSE IF "postgres message" \in data.marks THEN 70 ELSE 0

\* _signature_checks, in the order they are tried.
SignatureChecks(data) ==
  << <<"http", CheckHTTP(data)>>, <<"tls", CheckTLS(data)>>, <<"ssh", CheckSSH(data)>>,
     <<"ftp", CheckFTP(data)>>, <<"smtp", CheckSMTP(data)>>, <<"pop3", CheckPOP3(data)>>,
     <<"imap", CheckIMAP(data)>>, <<"dns", CheckDNS(data)>>, <<"dhcp", CheckDHCP(data)>>,
     <<"ntp", CheckNTP(data)>>, <<"snmp", CheckSNMP(data)>>, <<"redis", CheckRedis(data)>>,
     <<"mqtt", CheckMQTT(data)>>, <<"mysql", CheckMySQL(data)>>,
     <<"postgres", CheckPostgres(data)>> >>

\* The first of the best matches.
IdentifyBySignature(data) ==
  LET checks == SignatureChecks(data)
      matches == {i \in DOMAIN checks : checks[i][2] > 0}
      best == CHOOSE i \in matches : \A j \in matches :
                \/ checks[i][2] > checks[j][2]
                \/ checks[i][2] = checks[j][2] /\ i <= j
  IN  IF matches = {} THEN Result(Unknown, "signature_based", 0)
      ELSE Result(checks[best][1], "signature_based", checks[best][2])

-----------------------------------------------------------------------------
(* Ports, and the two kinds of evidence together.                            *)

PortsTCP ==
  [ftp |-> {21}, ssh |-> {22}, telnet |-> {23}, smtp |-> {25, 465}, dns |-> {53},
   http |-> {80, 8080}, pop3 |-> {110, 995}, imap |-> {143, 993}, https |-> {443, 8443},
   mysql |-> {3306}, rdp |-> {3389}, postgres |-> {5432}, redis |-> {6379}, mqtt |-> {1883},
   sip |-> {5060}, rtsp |-> {554}, smb |-> {445, 139}]

\* WELL_KNOWN_PORTS_TCP.get(port)
PortProtocol(port) ==
  LET owners == {p \in DOMAIN PortsTCP : port \in PortsTCP[p]}
  IN  IF owners = {} THEN Unknown ELSE CHOOSE p \in owners : TRUE

\* The destination port's protocol, or else the source port's.
IdentifyByPort(src_port, dst_port) ==
  LET protocol == IF PortProtocol(dst_port) # Unknown
                  THEN PortProtocol(dst_port) ELSE PortProtocol(src_port)
  IN  Result(protocol, "port_based", IF protocol = Unknown THEN 0 ELSE 50)

\* Mutant: the bonus for a matching port is not capped.
CombineUncapped(port_result, sig_result) ==
  IF sig_result.protocol # Unknown
  THEN IF port_result.protocol = sig_result.protocol
       THEN Result(sig_result.protocol, "confirmed", sig_result.confidence + 20)
       ELSE sig_result
  ELSE IF port_result.protocol # Unknown THEN port_result
  ELSE Result(Unknown, "unknown", 0)

Combine(port_result, sig_result) ==
  IF sig_result.protocol # Unknown
  THEN IF port_result.protocol = sig_result.protocol
       THEN Result(sig_result.protocol, "confirmed", Lesser(100, sig_result.confidence + 20))
       ELSE sig_result
  ELSE IF port_result.protocol # Unknown THEN port_result
  ELSE Result(Unknown, "unknown", 0)

Confirm(result) ==
  IF result.confidence > 80 THEN [result EXCEPT !.method = "confirmed"] ELSE result

\* Mutant: any previous result adds to the confidence, not only one for the same protocol.
MergeResultsAnyPrevious(port_result, sig_result, previous) ==
  LET merged == Combine(port_result, sig_result)
  IN  IF previous # {}
      THEN Confirm([merged EXCEPT !.confidence = Lesser(100, @ + 10)])
      ELSE merged

\* _merge_results; previous is the set of the earlier result, if there is one.
MergeResults(port_result, sig_result, previous) ==
  LET merged == Combine(port_result, sig_result)
  IN  IF \E earlier \in previous : earlier.protocol = merged.protocol
      THEN Confirm([merged EXCEPT !.confidence = Lesser(100, @ + 10)])
      ELSE merged

\* identify with a connection key: the result it returns and stores.
Identify(data, src_port, dst_port, previous) ==
  IF \E earlier \in previous : earlier.method = "confirmed"
  THEN CHOOSE earlier \in previous : TRUE
  ELSE Confirm(MergeResults(IdentifyByPort(src_port, dst_port),
                            IdentifyBySignature(data), previous))

-----------------------------------------------------------------------------
(* The analyzer's streams.                                                   *)

\* table[key] = value
Store(table, key, value) ==
  [k \in DOMAIN table \cup {key} |-> IF k = key THEN value ELSE table[k]]

NewStream == [c2s |-> <<>>, s2c |-> <<>>, app |-> Result(Unknown, "unknown", 0)]

Init == connections = <<>> /\ stream_data = <<>>

IsConfirmed(stream) == stream.app.protocol # Unknown /\ stream.app.method = "confirmed"

Previous(s) == IF s \in DOMAIN connections THEN {connections[s]} ELSE {}

\* Mutant: a confidence of 0.6 is enough.
VerdictAtLeast(app, result) == IF result.confidence >= 60 THEN result ELSE app

\* The stream takes over a result that is confident enough.
Verdict(app, result) == IF result.confidence > 60 THEN result ELSE app

Stream(s) == IF s \in DOMAIN stream_data THEN stream_data[s] ELSE NewStream

Deliveries == {x \in Ports \X (1..MaxDeliveries) \X {"c2s", "s2c"} :
                 x[1] \in DOMAIN stream_data /\ x[2] \in DOMAIN stream_data[x[1]][x[3]]}

\* A segment without data only creates the stream.
OpenStream(s) ==
  /\ stream_data' = Store(stream_data, s, Stream(s))
  /\ UNCHANGED connections

\* _handle_tcp_reassembly with data in one direction, then _identify_app_protocol.
HandleData(s, direction, data) ==
  LET src_port == IF direction = "c2s" THEN s[1] ELSE s[2]
      dst_port == IF direction = "c2s" THEN s[2] ELSE s[1]
      extended == [Stream(s) EXCEPT ![direction] = Append(@, data)]
      result   == Identify(data, src_port, dst_port, Previous(s))
  IN  /\ Cardinality(Deliveries) < MaxDeliveries
      /\ IF IsConfirmed(Stream(s))
         THEN /\ stream_data' = Store(stream_data, s, extended)
              /\ UNCHANGED connections
         ELSE /\ connections' = Store(connections, s, result)
              /\ stream_data' = Store(stream_data, s, [extended EXCEPT !.app = Verdict(@, result)])

\* Mutant: reset leaves the identifier's table.
ResetKeepsIdentifier ==
  /\ stream_data' = <<>>
  /\ UNCHANGED connections

\* NetworkAnalyzer.reset, as far as the two tables go.
Reset ==
  /\ connections' = <<>>
  /\ stream_data' = <<>>

Next ==
  \/ \E s \in Ports : OpenStream(s)
  \/ \E s \in Ports, direction \in {"c2s", "s2c"}, data \in Payloads :
       HandleData(s, direction, data)
  \/ Reset

Spec == Init /\ [][Next]_vars

-----------------------------------------------------------------------------
Protocols == {Unknown, "tls", "dhcp", "ntp", "snmp"} \cup DOMAIN PortsTCP

Results == [protocol : Protocols, confidence : 0..100,
            method : {"unknown", "port_based", "signature_based", "confirmed"}]

\* Both tables hold well-formed results, with confidences from 0 to 1.
TypeOK ==
  /\ DOMAIN connections \subseteq DOMAIN stream_data /\ DOMAIN stream_data \subseteq Ports
  /\ \A s \in DOMAIN connections : connections[s] \in Results
  /\ \A s \in DOMAIN stream_data :
       /\ stream_data[s].app \in Results
       /\ {stream_data[s].c2s, stream_data[s].s2c} \subseteq Seq(Payloads)

\* The data the stream has been given.
Data(s) == ToSet(stream_data[s].c2s) \cup ToSet(stream_data[s].s2c)

\* The confirmation is kept twice, in the identifier and in the stream, and each keeps its
\* own from changing: the two never disagree, so neither is stuck on a verdict the other
\* has lost or never saw.
CachesAgree ==
  \A s \in DOMAIN stream_data :
    LET confirmed == {c \in Previous(s) : c.method = "confirmed"}
    IN  /\ IsConfirmed(stream_data[s]) <=> confirmed # {}
        /\ confirmed \subseteq {stream_data[s].app}

\* A stream is given a protocol only when data it has delivered carries that protocol's
\* signature: the port it runs on, however often seen, is not enough.
SignatureBacked ==
  \A s \in DOMAIN stream_data : stream_data[s].app.protocol # Unknown =>
    \E data \in Data(s) : IdentifyBySignature(data).protocol = stream_data[s].app.protocol

\* How many payloads of a stream carry its protocol's signature.
Votes(s) ==
  LET votes(d) == Cardinality({i \in DOMAIN stream_data[s][d] :
                    IdentifyBySignature(stream_data[s][d][i]).protocol = stream_data[s].app.protocol})
  IN  votes("c2s") + votes("s2c")

\* A payload whose signature is above the threshold by itself.
StrongSignature(s) ==
  \E data \in Data(s) : /\ IdentifyBySignature(data).protocol = stream_data[s].app.protocol
                        /\ IdentifyBySignature(data).confidence > 80

\* Weak signatures add up to a confirmation only if there are two of them: as long as no
\* payload has a strong one and neither port is the protocol's, no sum of bonuses, earlier
\* results and ports lifts a single payload over the threshold.
WeakConfirmedByTwo ==
  \A s \in DOMAIN stream_data :
    /\ IsConfirmed(stream_data[s])
    /\ ~StrongSignature(s)
    /\ stream_data[s].app.protocol \notin {PortProtocol(s[1]), PortProtocol(s[2])}
    => Votes(s) >= 2

\* A confirmed protocol is one that several payloads confirmed
\* (protocol_identification.py:38).  One is enough: with a strong signature, or a weak one on
\* the protocol's own port.
ConfirmedBySeveral ==
  \A s \in DOMAIN stream_data : IsConfirmed(stream_data[s]) => Votes(s) >= 2
=============================================================================
