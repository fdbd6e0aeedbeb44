------------------------ MODULE AppIdentification_proofs ------------------------
(***************************************************************************)
(* The verdicts on application protocols, for any streams and any payloads *)
(* in any order.                                                           *)
(***************************************************************************)
EXTENDS AppIdentification, FiniteSetTheorems, WellFoundedInduction, TLAPS

-----------------------------------------------------------------------------
(* What one identification returns.                                        *)

\* The confidence of a signature check: no match, or one from 0.6 to 0.95.
Score(c) == c \in Nat /\ (c = 0 \/ (60 <= c /\ c <= 95))

\* Every check is named for a protocol, and none is more certain than 0.95.
LEMMA Scores ==
  ASSUME NEW data
  PROVE  LET checks == SignatureChecks(data)
         IN  /\ DOMAIN checks = 1..15
             /\ \A i \in 1..15 : checks[i][1] \in Protocols \ {Unknown} /\ Score(checks[i][2])
<1>1. /\ Score(CheckHTTP(data)) /\ Score(CheckTLS(data)) /\ Score(CheckSSH(data))
      /\ Score(CheckFTP(data)) /\ Score(CheckSMTP(data)) /\ Score(CheckPOP3(data))
  BY DEF Score, CheckHTTP, CheckTLS, CheckSSH, CheckFTP, CheckSMTP, CheckPOP3
<1>2. /\ Score(CheckIMAP(data)) /\ Score(CheckDNS(data)) /\ Score(CheckDHCP(data))
      /\ Score(CheckNTP(data)) /\ Score(CheckSNMP(data)) /\ Score(CheckRedis(data))
  BY DEF Score, CheckIMAP, CheckDNS, CheckDHCP, CheckNTP, CheckSNMP, CheckRedis
<1>3. Score(CheckMQTT(data)) /\ Score(CheckMySQL(data)) /\ Score(CheckPostgres(data))
  BY DEF Score, CheckMQTT, CheckMySQL, CheckPostgres
<1>4. {"http", "tls", "ssh", "ftp", "smtp", "pop3", "imap", "dns", "dhcp", "ntp", "snmp",
       "redis", "mqtt", "mysql", "postgres"} \subseteq Protocols \ {Unknown}
  BY DEF Protocols, PortsTCP, Unknown
<1> DEFINE checks == SignatureChecks(data)
<1>5. DOMAIN checks = 1..15
  BY DEF SignatureChecks
<1>6. ASSUME NEW i \in 1..15 PROVE checks[i][1] \in Protocols \ {Unknown} /\ Score(checks[i][2])
  <2> HIDE DEF Unknown
  <2>1. \/ i = 1 \/ i = 2 \/ i = 3 \/ i = 4 \/ i = 5 \/ i = 6 \/ i = 7 \/ i = 8 \/ i = 9
        \/ i = 10 \/ i = 11 \/ i = 12 \/ i = 13 \/ i = 14 \/ i = 15
    OBVIOUS
  <2> QED BY <1>1, <1>2, <1>3, <1>4, <2>1 DEF SignatureChecks
<1> QED BY <1>5, <1>6

\* A set of natural numbers that is not empty has a least element.
LEMMA LeastNumber ==
  ASSUME NEW S \in SUBSET Nat, S # {}
  PROVE  \E m \in S : \A n \in S : m <= n
<1> DEFINE R == OpToRel(<, Nat)
<1>1. IsWellFoundedOn(R, Nat)
  BY NatLessThanWellFounded DEF OpToRel
<1>2. R = {ss \in Nat \X Nat : ss[1] < ss[2]}
  BY DEF OpToRel
<1> HIDE DEF R
<1>3. PICK m \in S : \A n \in S : ~ (<<n, m>> \in R)
  BY <1>1, WFMin
<1>4. \A n \in S : m <= n
  <2> TAKE n \in S
  <2>1. <<n, m>> \in Nat \X Nat
    OBVIOUS
  <2>2. ~ (n < m)
    BY <1>2, <1>3, <2>1
  <2> QED BY <2>2
<1> QED BY <1>3, <1>4

\* Of several scores one comes first: the best, and of equal ones the one tried first.
LEMMA BestExists ==
  ASSUME NEW score, NEW matches \in SUBSET (1..15), matches # {},
         \A i \in matches : Score(score[i])
  PROVE  \E i \in matches : \A j \in matches :
           score[i] > score[j] \/ (score[i] = score[j] /\ i <= j)
<1> DEFINE rank(i) == 16 * (95 - score[i]) + i
           ranks   == {rank(i) : i \in matches}
<1>1. \A i \in matches : i \in Nat /\ 1 <= i /\ i <= 15 /\ score[i] \in Nat /\ score[i] <= 95
  BY DEF Score
<1>2. ranks \in SUBSET Nat /\ ranks # {}
  <2>1. ASSUME NEW i \in matches PROVE rank(i) \in Nat
    <3>1. i \in Nat /\ score[i] \in Nat /\ score[i] <= 95
      BY <1>1
    <3> QED BY <3>1
  <2> HIDE DEF rank
  <2> QED BY <2>1
<1>3. PICK m \in ranks : \A n \in ranks : m <= n
  <2> HIDE DEF ranks
  <2> QED BY <1>2, LeastNumber
<1>4. PICK i \in matches : m = rank(i)
  BY <1>3
<1>5. \A j \in matches : rank(i) <= rank(j)
  BY <1>3, <1>4
<1>6. ASSUME NEW j \in matches PROVE score[i] > score[j] \/ (score[i] = score[j] /\ i <= j)
  <2>1. 16 * (95 - score[i]) + i <= 16 * (95 - score[j]) + j
    BY <1>5
  <2>2. /\ i \in Nat /\ 1 <= i /\ i <= 15 /\ score[i] \in Nat
        /\ j \in Nat /\ 1 <= j /\ j <= 15 /\ score[j] \in Nat
    BY <1>1
  <2> HIDE DEF ranks, rank
  <2> QED BY <2>1, <2>2
<1> QED BY <1>6

\* A signature names a protocol with a confidence from 0.6 to 0.95, or none.
LEMMA SignatureResult ==
  ASSUME NEW data
  PROVE  LET sig == IdentifyBySignature(data)
         IN  /\ sig = Result(sig.protocol, "signature_based", sig.confidence)
             /\ sig.protocol \in Protocols /\ Score(sig.confidence)
             /\ sig.protocol # Unknown <=> sig.confidence # 0
<1> DEFINE checks  == SignatureChecks(data)
           matches == {i \in DOMAIN checks : checks[i][2] > 0}
           first(i) == \A j \in matches : \/ checks[i][2] > checks[j][2]
                                          \/ checks[i][2] = checks[j][2] /\ i <= j
           best    == CHOOSE i \in matches : first(i)
           sig     == IdentifyBySignature(data)
<1>1. /\ DOMAIN checks = 1..15
      /\ \A i \in 1..15 : checks[i][1] \in Protocols \ {Unknown} /\ Score(checks[i][2])
  BY Scores
<1>2. sig = IF matches = {} THEN Result(Unknown, "signature_based", 0)
            ELSE Result(checks[best][1], "signature_based", checks[best][2])
  BY DEF IdentifyBySignature
<1> HIDE DEF sig, checks
<1>3. CASE matches = {}
  <2>1. sig = Result(Unknown, "signature_based", 0)
    BY <1>2, <1>3
  <2>2. sig.protocol = Unknown /\ sig.confidence = 0
    BY <2>1 DEF Result
  <2>3. Unknown \in Protocols /\ Score(0)
    BY DEF Protocols, Score
  <2>4. /\ sig = Result(sig.protocol, "signature_based", sig.confidence)
        /\ sig.protocol \in Protocols /\ Score(sig.confidence)
        /\ sig.protocol # Unknown <=> sig.confidence # 0
    BY <2>1, <2>2, <2>3
  <2> QED BY <2>4 DEF sig
<1>4. CASE matches # {}
  <2>1. \E i \in matches : first(i)
    <3> DEFINE score == [i \in 1..15 |-> checks[i][2]]
    <3>1. \A i \in 1..15 : score[i] = checks[i][2]
      OBVIOUS
    <3>2. matches \in SUBSET (1..15)
      BY <1>1
    <3>3. \A i \in matches : Score(score[i])
      BY <1>1, <3>1, <3>2
    <3> HIDE DEF score, matches
    <3>4. \E i \in matches : \A j \in matches :
            score[i] > score[j] \/ (score[i] = score[j] /\ i <= j)
      BY <1>4, <3>2, <3>3, BestExists
    <3> QED BY <3>1, <3>2, <3>4
  <2>2. best \in matches
    BY <2>1
  <2> HIDE DEF best
  <2>3. /\ best \in 1..15 /\ checks[best][2] > 0
        /\ checks[best][1] \in Protocols \ {Unknown} /\ Score(checks[best][2])
    BY <1>1, <2>2
  <2>4. sig = Result(checks[best][1], "signature_based", checks[best][2])
    BY <1>2, <1>4
  <2> QED BY <2>3, <2>4 DEF Result, Score, sig
<1> QED BY <1>3, <1>4

\* A port names a protocol with a confidence of one half, or none.
LEMMA PortResult ==
  ASSUME NEW src_port, NEW dst_port
  PROVE  LET port == IdentifyByPort(src_port, dst_port)
         IN  /\ port = Result(port.protocol, "port_based", port.confidence)
             /\ port.protocol \in Protocols \cap {PortProtocol(src_port), PortProtocol(dst_port)}
             /\ port.confidence = IF port.protocol = Unknown THEN 0 ELSE 50
<1>1. ASSUME NEW p PROVE PortProtocol(p) \in Protocols
  <2> DEFINE owners == {q \in DOMAIN PortsTCP : p \in PortsTCP[q]}
  <2>1. PortProtocol(p) = IF owners = {} THEN Unknown ELSE CHOOSE q \in owners : TRUE
    BY DEF PortProtocol
  <2>2. owners # {} => (CHOOSE q \in owners : TRUE) \in DOMAIN PortsTCP
    OBVIOUS
  <2> HIDE DEF owners
  <2> QED BY <2>1, <2>2 DEF Protocols
<1> QED BY <1>1 DEF IdentifyByPort, Result

\* The result for a stream without a confirmed one: whose protocol it names, that a verdict
\* needs a signature, and what a confirmation rests on.
LEMMA IdentifyResult ==
  ASSUME NEW data, NEW src_port, NEW dst_port, NEW previous \in SUBSET Results,
         \A earlier \in previous : earlier.method # "confirmed"
  PROVE  LET sig    == IdentifyBySignature(data)
             port   == IdentifyByPort(src_port, dst_port)
             result == Identify(data, src_port, dst_port, previous)
         IN  /\ result \in Results
             /\ result.protocol = IF sig.protocol # Unknown THEN sig.protocol ELSE port.protocol
             /\ result.confidence > 60 => sig.protocol # Unknown
             /\ result.method = "confirmed" =>
                  /\ result.confidence > 60
                  /\ \/ sig.confidence > 80
                     \/ sig.protocol = port.protocol
                     \/ \E earlier \in previous : earlier.protocol = sig.protocol
<1> DEFINE sig    == IdentifyBySignature(data)
           port   == IdentifyByPort(src_port, dst_port)
           merged == Combine(port, sig)
           again  == \E earlier \in previous : earlier.protocol = merged.protocol
           repeat == IF again THEN Confirm([merged EXCEPT !.confidence = Lesser(100, @ + 10)])
                     ELSE merged
           result == Confirm(repeat)
<1>1. Identify(data, src_port, dst_port, previous) = result
  BY DEF Identify, MergeResults
<1>2. /\ sig = Result(sig.protocol, "signature_based", sig.confidence)
      /\ sig.protocol \in Protocols /\ Score(sig.confidence)
      /\ sig.protocol # Unknown <=> sig.confidence # 0
  BY SignatureResult
<1>3. /\ port = Result(port.protocol, "port_based", port.confidence)
      /\ port.protocol \in Protocols
      /\ port.confidence = IF port.protocol = Unknown THEN 0 ELSE 50
  BY PortResult
<1> HIDE DEF sig, port
<1>4. /\ merged = Result(merged.protocol, merged.method, merged.confidence)
      /\ merged.protocol = IF sig.protocol # Unknown THEN sig.protocol ELSE port.protocol
      /\ merged.protocol \in Protocols
      /\ merged.confidence \in Nat /\ merged.confidence <= 100
      /\ merged.method \in {"unknown", "port_based", "signature_based", "confirmed"}
  BY <1>2, <1>3 DEF Combine, Result, Lesser, Score
<1>5. /\ sig.protocol = Unknown => merged.confidence <= 50 /\ merged.method # "confirmed"
      /\ merged.method = "confirmed" => sig.protocol = port.protocol /\ merged.confidence >= 80
      /\ merged.method # "confirmed" /\ sig.protocol # Unknown => merged.confidence = sig.confidence
  BY <1>2, <1>3 DEF Combine, Result, Lesser, Score
<1> HIDE DEF merged
<1> DEFINE raised == Result(merged.protocol, merged.method, Lesser(100, merged.confidence + 10))
<1>6. [merged EXCEPT !.confidence = Lesser(100, @ + 10)] = raised
  BY <1>4 DEF Result
<1>7. result = IF again
               THEN IF raised.confidence > 80 THEN [raised EXCEPT !.method = "confirmed"] ELSE raised
               ELSE IF merged.confidence > 80 THEN [merged EXCEPT !.method = "confirmed"] ELSE merged
  BY <1>4, <1>6, ZenonT(30) DEF Confirm, Result, Lesser
<1> HIDE DEF again
<1>8. CASE again
  <2>1. result = Result(merged.protocol,
                        IF raised.confidence > 80 THEN "confirmed" ELSE merged.method,
                        raised.confidence)
    BY <1>7, <1>8 DEF Result
  <2>2. /\ raised.confidence \in Nat /\ raised.confidence <= 100
        /\ raised.confidence <= merged.confidence + 10
        /\ merged.confidence <= raised.confidence
    BY <1>4 DEF Result, Lesser
  <2> HIDE DEF result, raised
  <2>3. result \in Results
    BY <1>4, <2>1, <2>2 DEF Results, Result
  <2>4. /\ result.confidence > 60 => sig.protocol # Unknown
        /\ result.method = "confirmed" => sig.protocol # Unknown
    BY <1>4, <1>5, <2>1, <2>2 DEF Result
  <2>5. result.method = "confirmed" => result.confidence > 60
    BY <1>4, <1>5, <2>1, <2>2 DEF Result
  <2>6. result.method = "confirmed" => \E earlier \in previous : earlier.protocol = sig.protocol
    BY <1>4, <1>8, <2>4 DEF again
  <2>7. result.protocol = merged.protocol
    BY <2>1 DEF Result
  <2> QED BY <1>1, <1>4, <2>3, <2>4, <2>5, <2>6, <2>7 DEF sig, port, result
<1>9. CASE ~again
  <2>1. result = Result(merged.protocol,
                        IF merged.confidence > 80 THEN "confirmed" ELSE merged.method,
                        merged.confidence)
    BY <1>4, <1>7, <1>9 DEF Result
  <2> HIDE DEF result, raised
  <2>2. result \in Results
    BY <1>4, <2>1 DEF Results, Result
  <2>3. /\ result.confidence > 60 => sig.protocol # Unknown
        /\ result.method = "confirmed" =>
             result.confidence > 60 /\ (sig.confidence > 80 \/ sig.protocol = port.protocol)
    BY <1>4, <1>5, <2>1 DEF Result
  <2>4. result.protocol = merged.protocol
    BY <2>1 DEF Result
  <2> QED BY <1>1, <1>4, <2>2, <2>3, <2>4 DEF sig, port, result
<1> QED BY <1>8, <1>9

-----------------------------------------------------------------------------
(* What the two tables say of one stream.                                  *)

Carries(data, protocol) == IdentifyBySignature(data).protocol = protocol

Given(stream) == ToSet(stream.c2s) \cup ToSet(stream.s2c)

VotesIn(list, protocol) == {i \in DOMAIN list : Carries(list[i], protocol)}

\* How many payloads of a stream carry the protocol.
Count(stream, protocol) ==
  Cardinality(VotesIn(stream.c2s, protocol)) + Cardinality(VotesIn(stream.s2c, protocol))

OwnPort(s, protocol) == protocol \in {PortProtocol(s[1]), PortProtocol(s[2])}

\* The stream with one more payload in a direction.
Longer(stream, direction, data) == [stream EXCEPT ![direction] = Append(@, data)]

Justified(s, stream) ==
  \/ \E data \in Given(stream) : Carries(data, stream.app.protocol)
                                   /\ IdentifyBySignature(data).confidence > 80
  \/ OwnPort(s, stream.app.protocol)
  \/ Count(stream, stream.app.protocol) >= 2

\* previous is what the identifier knows of the stream.  Its result, confirmed or not, is one
\* for a protocol that some payload or the port speaks for.
StreamInv(s, stream, previous) ==
  /\ stream \in [c2s : Seq(Payloads), s2c : Seq(Payloads), app : Results]
  /\ previous \in SUBSET Results
  /\ IsConfirmed(stream) <=> \E c \in previous : c.method = "confirmed"
  /\ \A c \in previous : c.method = "confirmed" => c = stream.app
  /\ stream.app.protocol # Unknown =>
       \E data \in Given(stream) : Carries(data, stream.app.protocol)
  /\ \A c \in previous : c.protocol # Unknown =>
       OwnPort(s, c.protocol) \/ \E data \in Given(stream) : Carries(data, c.protocol)
  /\ IsConfirmed(stream) => Justified(s, stream)

TablesInv ==
  /\ DOMAIN connections \subseteq DOMAIN stream_data /\ DOMAIN stream_data \subseteq Ports
  /\ \A s \in DOMAIN stream_data : StreamInv(s, stream_data[s], Previous(s))

\* A list with one more payload has one more vote for what it carries.
LEMMA VotesGrow ==
  ASSUME NEW list \in Seq(Payloads), NEW data \in Payloads, NEW protocol
  PROVE  /\ IsFiniteSet(VotesIn(list, protocol)) /\ Cardinality(VotesIn(list, protocol)) \in Nat
         /\ Cardinality(VotesIn(Append(list, data), protocol)) =
              Cardinality(VotesIn(list, protocol)) + IF Carries(data, protocol) THEN 1 ELSE 0
         /\ ToSet(Append(list, data)) = ToSet(list) \cup {data}
         /\ (\E d \in ToSet(list) : Carries(d, protocol)) => Cardinality(VotesIn(list, protocol)) >= 1
<1> DEFINE longer == Append(list, data)
           n      == Len(list)
<1>1. /\ n \in Nat /\ DOMAIN list = 1..n /\ DOMAIN longer = 1..(n + 1)
      /\ \A i \in 1..n : longer[i] = list[i]
      /\ longer[n + 1] = data
  OBVIOUS
<1>2. DOMAIN longer = DOMAIN list \cup {n + 1} /\ n + 1 \notin DOMAIN list
  BY <1>1
<1> HIDE DEF longer, n
<1>3. ToSet(longer) = ToSet(list) \cup {data}
  BY <1>1, <1>2 DEF ToSet
<1>4. IsFiniteSet(VotesIn(list, protocol)) /\ Cardinality(VotesIn(list, protocol)) \in Nat
  <2>1. IsFiniteSet(1..n)
    BY <1>1, FS_Interval
  <2>2. VotesIn(list, protocol) \in SUBSET (1..n)
    BY <1>1 DEF VotesIn
  <2> QED BY <2>1, <2>2, FS_Subset, FS_CardinalityType
<1>5. VotesIn(longer, protocol) =
        IF Carries(data, protocol) THEN VotesIn(list, protocol) \cup {n + 1} ELSE VotesIn(list, protocol)
  BY <1>1, <1>2 DEF VotesIn
<1>6. n + 1 \notin VotesIn(list, protocol)
  BY <1>2 DEF VotesIn
<1>7. Cardinality(VotesIn(list, protocol) \cup {n + 1}) = Cardinality(VotesIn(list, protocol)) + 1
  BY <1>4, <1>6, FS_AddElement
<1>8. ASSUME NEW d \in ToSet(list), Carries(d, protocol)
      PROVE  Cardinality(VotesIn(list, protocol)) >= 1
  <2>1. VotesIn(list, protocol) # {}
    BY <1>8 DEF ToSet, VotesIn
  <2>2. Cardinality(VotesIn(list, protocol)) # 0
    BY <1>4, <2>1, FS_EmptySet
  <2> QED BY <1>4, <2>2
<1> QED BY <1>3, <1>4, <1>5, <1>7, <1>8 DEF longer

\* Data in one direction adds to what the stream has been given, and to the votes.
LEMMA Extended ==
  ASSUME NEW stream \in [c2s : Seq(Payloads), s2c : Seq(Payloads), app : Results],
         NEW direction \in {"c2s", "s2c"}, NEW data \in Payloads, NEW protocol
  PROVE  LET longer == Longer(stream, direction, data)
         IN  /\ longer \in [c2s : Seq(Payloads), s2c : Seq(Payloads), app : Results]
             /\ longer.app = stream.app
             /\ Given(longer) = Given(stream) \cup {data}
             /\ Count(stream, protocol) \in Nat
             /\ Count(longer, protocol) =
                  Count(stream, protocol) + IF Carries(data, protocol) THEN 1 ELSE 0
             /\ (\E d \in Given(stream) : Carries(d, protocol)) => Count(stream, protocol) >= 1
<1> DEFINE longer == Longer(stream, direction, data)
           C == Cardinality(VotesIn(stream.c2s, protocol))
           S == Cardinality(VotesIn(stream.s2c, protocol))
           one == IF Carries(data, protocol) THEN 1 ELSE 0
<1>1. stream.c2s \in Seq(Payloads) /\ stream.s2c \in Seq(Payloads)
  OBVIOUS
<1>2. /\ C \in Nat /\ S \in Nat
      /\ Cardinality(VotesIn(Append(stream.c2s, data), protocol)) = C + one
      /\ Cardinality(VotesIn(Append(stream.s2c, data), protocol)) = S + one
      /\ ToSet(Append(stream.c2s, data)) = ToSet(stream.c2s) \cup {data}
      /\ ToSet(Append(stream.s2c, data)) = ToSet(stream.s2c) \cup {data}
      /\ (\E d \in ToSet(stream.c2s) : Carries(d, protocol)) => C >= 1
      /\ (\E d \in ToSet(stream.s2c) : Carries(d, protocol)) => S >= 1
  BY <1>1, VotesGrow
<1>3. /\ Append(stream.c2s, data) \in Seq(Payloads) /\ Append(stream.s2c, data) \in Seq(Payloads)
  BY <1>1
<1>4. /\ longer \in [c2s : Seq(Payloads), s2c : Seq(Payloads), app : Results]
      /\ longer.app = stream.app
      /\ longer.c2s = IF direction = "c2s" THEN Append(stream.c2s, data) ELSE stream.c2s
      /\ longer.s2c = IF direction = "s2c" THEN Append(stream.s2c, data) ELSE stream.s2c
  BY <1>3 DEF Longer
<1> HIDE DEF longer
<1>5. Given(longer) = Given(stream) \cup {data}
  BY <1>2, <1>4 DEF Given
<1>6. Cardinality(VotesIn(longer.c2s, protocol)) + Cardinality(VotesIn(longer.s2c, protocol)) = C + S + one
  <2>1. one \in Nat
    OBVIOUS
  <2> HIDE DEF one, C, S
  <2>2. CASE direction = "c2s"
    <3>1. Cardinality(VotesIn(longer.c2s, protocol)) = C + one /\ Cardinality(VotesIn(longer.s2c, protocol)) = S
      BY <1>2, <1>4, <2>2 DEF S
    <3> QED BY <1>2, <2>1, <3>1
  <2>3. CASE direction = "s2c"
    <3>1. Cardinality(VotesIn(longer.s2c, protocol)) = S + one /\ Cardinality(VotesIn(longer.c2s, protocol)) = C
      BY <1>2, <1>4, <2>3 DEF C
    <3> QED BY <1>2, <2>1, <3>1
  <2> QED BY <2>2, <2>3
<1>7. (\E d \in Given(stream) : Carries(d, protocol)) => C + S >= 1
  BY <1>2 DEF Given
<1>8. C + S \in Nat
  BY <1>2
<1>9. Count(stream, protocol) = C + S /\ Count(longer, protocol) = C + S + one
  BY <1>6 DEF Count
<1> QED BY <1>4, <1>5, <1>7, <1>8, <1>9 DEF longer

\* Data keeps what holds of a stream, as long as neither table changes.
LEMMA DataKeeps ==
  ASSUME NEW s, NEW stream, NEW previous, StreamInv(s, stream, previous),
         NEW direction \in {"c2s", "s2c"}, NEW data \in Payloads
  PROVE  StreamInv(s, Longer(stream, direction, data), previous)
<1> DEFINE longer == Longer(stream, direction, data)
           p      == stream.app.protocol
<1> HIDE DEF p
<1>1. stream \in [c2s : Seq(Payloads), s2c : Seq(Payloads), app : Results]
  BY DEF StreamInv
<1>2. /\ longer \in [c2s : Seq(Payloads), s2c : Seq(Payloads), app : Results]
      /\ longer.app = stream.app
      /\ Given(longer) = Given(stream) \cup {data}
      /\ Count(stream, p) \in Nat
      /\ Count(longer, p) = Count(stream, p) + IF Carries(data, p) THEN 1 ELSE 0
  BY <1>1, Extended
<1>3. Count(longer, p) \in Nat /\ Count(longer, p) >= Count(stream, p)
  <2> QED BY <1>2
<1> HIDE DEF longer
<1> USE DEF p
<1>4. IsConfirmed(longer) <=> IsConfirmed(stream)
  BY <1>2 DEF IsConfirmed
<1>5. Justified(s, stream) => Justified(s, longer)
  BY <1>2, <1>3 DEF Justified
<1>6. StreamInv(s, longer, previous)
  BY <1>1, <1>2, <1>4, <1>5 DEF StreamInv
<1> QED BY <1>6 DEF longer

\* Data that is identified: the verdict, and the result the identifier keeps.
LEMMA VerdictKeeps ==
  ASSUME NEW s, NEW stream, NEW previous, StreamInv(s, stream, previous), ~IsConfirmed(stream),
         NEW direction \in {"c2s", "s2c"}, NEW data \in Payloads,
         NEW src_port, NEW dst_port, {src_port, dst_port} = {s[1], s[2]}
  PROVE  LET longer == Longer(stream, direction, data)
             result == Identify(data, src_port, dst_port, previous)
         IN  StreamInv(s, [longer EXCEPT !.app = Verdict(@, result)], {result})
<1> DEFINE sig    == IdentifyBySignature(data)
           port   == IdentifyByPort(src_port, dst_port)
           result == Identify(data, src_port, dst_port, previous)
           longer == Longer(stream, direction, data)
           after  == [longer EXCEPT !.app = Verdict(@, result)]
           q      == result.protocol
<1>1. stream \in [c2s : Seq(Payloads), s2c : Seq(Payloads), app : Results] /\ previous \in SUBSET Results
  BY DEF StreamInv
<1>2. \A c \in previous : c.method # "confirmed"
  BY DEF StreamInv
<1>3. /\ result \in Results
      /\ q = IF sig.protocol # Unknown THEN sig.protocol ELSE port.protocol
      /\ result.confidence > 60 => sig.protocol # Unknown
      /\ result.method = "confirmed" =>
           /\ result.confidence > 60
           /\ \/ sig.confidence > 80
              \/ sig.protocol = port.protocol
              \/ \E c \in previous : c.protocol = sig.protocol
  BY <1>1, <1>2, IdentifyResult
<1>4. port.protocol \in {PortProtocol(s[1]), PortProtocol(s[2])}
  BY PortResult
<1> HIDE DEF result
<1>5. /\ longer \in [c2s : Seq(Payloads), s2c : Seq(Payloads), app : Results]
      /\ longer.app = stream.app
      /\ Given(longer) = Given(stream) \cup {data}
      /\ Count(stream, q) \in Nat
      /\ Count(longer, q) = Count(stream, q) + IF Carries(data, q) THEN 1 ELSE 0
      /\ (\E d \in Given(stream) : Carries(d, q)) => Count(stream, q) >= 1
  BY <1>1, Extended, SMTT(30)
<1> HIDE DEF longer
<1>6. /\ after \in [c2s : Seq(Payloads), s2c : Seq(Payloads), app : Results]
      /\ after.app = IF result.confidence > 60 THEN result ELSE stream.app
      /\ after.c2s = longer.c2s /\ after.s2c = longer.s2c
      /\ Given(after) = Given(longer)
  BY <1>1, <1>3, <1>5 DEF Verdict, Given
<1> HIDE DEF after, sig, port
<1>7. IsConfirmed(after) <=> result.method = "confirmed"
  <2>1. CASE result.confidence > 60
    <3>1. sig.protocol # Unknown /\ q = sig.protocol
      BY <1>3, <2>1
    <3> QED BY <1>6, <2>1, <3>1 DEF IsConfirmed
  <2>2. CASE ~(result.confidence > 60)
    BY <1>3, <1>6, <2>2 DEF IsConfirmed
  <2> QED BY <2>1, <2>2
<1>8. result.method = "confirmed" => result = after.app
  BY <1>3, <1>6
<1>9. ASSUME after.app.protocol # Unknown
      PROVE  \E d \in Given(after) : Carries(d, after.app.protocol)
  <2>1. CASE result.confidence > 60
    <3>1. Carries(data, q)
      BY <1>3, <2>1 DEF Carries, sig
    <3> QED BY <1>5, <1>6, <2>1, <3>1
  <2>2. CASE ~(result.confidence > 60)
    BY <1>5, <1>6, <1>9, <2>2 DEF StreamInv
  <2> QED BY <2>1, <2>2
<1>10. q # Unknown => OwnPort(s, q) \/ \E d \in Given(after) : Carries(d, q)
  <2>1. CASE sig.protocol # Unknown
    BY <1>3, <1>5, <1>6, <2>1 DEF Carries, sig
  <2>2. CASE sig.protocol = Unknown
    BY <1>3, <1>4, <2>2 DEF OwnPort
  <2> QED BY <2>1, <2>2
<1>11. ASSUME result.method = "confirmed" PROVE Justified(s, after)
  <2>1. sig.protocol # Unknown /\ q = sig.protocol /\ after.app = result
    BY <1>3, <1>6, <1>11
  <2>2. Carries(data, q) /\ data \in Given(after)
    BY <1>5, <1>6, <2>1 DEF Carries, sig
  <2>3. CASE sig.confidence > 80
    BY <2>1, <2>2, <2>3 DEF Justified, Carries, sig
  <2>4. CASE sig.protocol = port.protocol
    BY <1>4, <2>1, <2>4 DEF Justified, OwnPort
  <2>5. CASE \E c \in previous : c.protocol = sig.protocol
    <3>1. OwnPort(s, q) \/ \E d \in Given(stream) : Carries(d, q)
      BY <2>1, <2>5 DEF StreamInv
    <3>2. CASE OwnPort(s, q)
      BY <2>1, <3>2 DEF Justified
    <3>3. CASE \E d \in Given(stream) : Carries(d, q)
      <4>1. Count(longer, q) >= 2
        <5> HIDE DEF Count
        <5> QED BY <1>5, <2>2, <3>3
      <4>2. Count(after, q) = Count(longer, q)
        BY <1>6 DEF Count
      <4> QED BY <2>1, <4>1, <4>2 DEF Justified
    <3> QED BY <3>1, <3>2, <3>3
  <2> QED BY <1>3, <1>11, <2>3, <2>4, <2>5
<1>12. StreamInv(s, after, {result})
  BY <1>3, <1>6, <1>7, <1>8, <1>9, <1>10, <1>11 DEF StreamInv
<1> QED BY <1>12 DEF after, longer, result

-----------------------------------------------------------------------------
(* The tables, from step to step.                                          *)

\* A stream, or the one it is created as, is what it should be.
LEMMA StreamNow ==
  ASSUME TablesInv, NEW s \in Ports
  PROVE  StreamInv(s, Stream(s), Previous(s))
<1>1. CASE s \in DOMAIN stream_data
  BY <1>1 DEF TablesInv, Stream
<1>2. CASE s \notin DOMAIN stream_data
  <2>1. Previous(s) = {} /\ Stream(s) = NewStream
    BY <1>2 DEF TablesInv, Previous, Stream
  <2>2. NewStream.app \in Results /\ NewStream.app.protocol = Unknown
    BY DEF NewStream, Result, Results, Protocols
  <2>3. <<>> \in Seq(Payloads)
    OBVIOUS
  <2>4. NewStream \in [c2s : Seq(Payloads), s2c : Seq(Payloads), app : Results]
    BY <2>2, <2>3 DEF NewStream
  <2>5. ~IsConfirmed(NewStream)
    BY <2>2 DEF IsConfirmed
  <2> QED BY <2>1, <2>2, <2>4, <2>5 DEF StreamInv
<1> QED BY <1>1, <1>2

\* Writing a stream, and perhaps the identifier's result for it, leaves the others alone.
LEMMA Written ==
  ASSUME TablesInv, NEW s \in Ports, NEW stream, NEW previous, StreamInv(s, stream, previous),
         stream_data' = Store(stream_data, s, stream),
         \/ UNCHANGED connections /\ previous = Previous(s)
         \/ \E result : connections' = Store(connections, s, result) /\ previous = {result}
  PROVE  TablesInv'
<1>1. /\ DOMAIN stream_data' = DOMAIN stream_data \cup {s}
      /\ stream_data'[s] = stream
      /\ \A k \in DOMAIN stream_data : k # s => stream_data'[k] = stream_data[k]
  BY DEF Store
<1>2. /\ DOMAIN connections' \subseteq DOMAIN connections \cup {s}
      /\ Previous(s)' = previous
      /\ \A k : k # s => Previous(k)' = Previous(k)
  <2>1. CASE UNCHANGED connections /\ previous = Previous(s)
    BY <2>1 DEF Previous
  <2>2. CASE \E result : connections' = Store(connections, s, result) /\ previous = {result}
    <3>1. PICK result : connections' = Store(connections, s, result) /\ previous = {result}
      BY <2>2
    <3>2. /\ DOMAIN connections' = DOMAIN connections \cup {s}
          /\ connections'[s] = result
          /\ \A k \in DOMAIN connections : k # s => connections'[k] = connections[k]
      BY <3>1 DEF Store
    <3> QED BY <3>1, <3>2 DEF Previous
  <2> QED BY <2>1, <2>2
<1>3. ASSUME NEW k \in DOMAIN stream_data' PROVE StreamInv(k, stream_data'[k], Previous(k)')
  BY <1>1, <1>2 DEF TablesInv
<1>4. DOMAIN connections' \subseteq DOMAIN stream_data' /\ DOMAIN stream_data' \subseteq Ports
  BY <1>1, <1>2 DEF TablesInv
<1> QED BY <1>3, <1>4 DEF TablesInv

\* Data: appended, and identified unless the stream's protocol is confirmed.
LEMMA DataStep ==
  ASSUME TablesInv, NEW s \in Ports, NEW direction \in {"c2s", "s2c"}, NEW data \in Payloads,
         HandleData(s, direction, data)
  PROVE  TablesInv'
<1> DEFINE src_port == IF direction = "c2s" THEN s[1] ELSE s[2]
           dst_port == IF direction = "c2s" THEN s[2] ELSE s[1]
           longer   == Longer(Stream(s), direction, data)
           result   == Identify(data, src_port, dst_port, Previous(s))
           after    == [longer EXCEPT !.app = Verdict(@, result)]
<1>1. StreamInv(s, Stream(s), Previous(s))
  BY StreamNow
<1>2. CASE IsConfirmed(Stream(s))
  <2>1. stream_data' = Store(stream_data, s, longer) /\ UNCHANGED connections
    BY <1>2 DEF HandleData, Longer
  <2>2. StreamInv(s, longer, Previous(s))
    BY <1>1, DataKeeps
  <2> QED BY <2>1, <2>2, Written
<1>3. CASE ~IsConfirmed(Stream(s))
  <2>1. stream_data' = Store(stream_data, s, after) /\ connections' = Store(connections, s, result)
    BY <1>3 DEF HandleData, Longer
  <2>2. {src_port, dst_port} = {s[1], s[2]}
    OBVIOUS
  <2> HIDE DEF src_port, dst_port
  <2>3. StreamInv(s, after, {result})
    BY <1>1, <1>3, <2>2, VerdictKeeps
  <2> HIDE DEF after, result
  <2> QED BY <2>1, <2>3, Written
<1> QED BY <1>2, <1>3

\* No step leaves a table with a result its streams do not account for.
LEMMA StepTables == TablesInv /\ [Next]_vars => TablesInv'
<1> SUFFICES ASSUME TablesInv, [Next]_vars PROVE TablesInv'
  OBVIOUS
<1>1. ASSUME NEW s \in Ports, OpenStream(s) PROVE TablesInv'
  <2>1. StreamInv(s, Stream(s), Previous(s))
    BY StreamNow
  <2> QED BY <1>1, <2>1, Written DEF OpenStream
<1>2. ASSUME NEW s \in Ports, NEW direction \in {"c2s", "s2c"}, NEW data \in Payloads,
             HandleData(s, direction, data)
      PROVE  TablesInv'
  BY <1>2, DataStep
<1>3. CASE Reset
  <2>1. DOMAIN connections' = {} /\ DOMAIN stream_data' = {}
    BY <1>3 DEF Reset
  <2> QED BY <2>1 DEF TablesInv
<1>4. CASE UNCHANGED vars
  BY <1>4 DEF vars, TablesInv, Previous, StreamInv
<1> QED BY <1>1, <1>2, <1>3, <1>4 DEF Next

\* Every reachable state has the two tables in order.
LEMMA AlwaysTables == Spec => []TablesInv
<1>1. Init => TablesInv
  <2> SUFFICES ASSUME Init PROVE TablesInv
    OBVIOUS
  <2>1. DOMAIN connections = {} /\ DOMAIN stream_data = {}
    BY DEF Init
  <2> QED BY <2>1 DEF TablesInv
<1> QED BY <1>1, StepTables, PTL DEF Spec

\* Both tables hold well-formed results, whatever data the streams deliver.
THEOREM TablesWellFormed == Spec => []TypeOK
<1>1. TablesInv => TypeOK
  <2> SUFFICES ASSUME TablesInv PROVE TypeOK
    OBVIOUS
  <2>1. ASSUME NEW s \in DOMAIN connections PROVE connections[s] \in Results
    BY <2>1 DEF TablesInv, StreamInv, Previous
  <2>2. ASSUME NEW s \in DOMAIN stream_data
        PROVE  /\ stream_data[s].app \in Results
               /\ {stream_data[s].c2s, stream_data[s].s2c} \subseteq Seq(Payloads)
    BY <2>2 DEF TablesInv, StreamInv
  <2> QED BY <2>1, <2>2 DEF TablesInv, TypeOK
<1> QED BY AlwaysTables, <1>1, PTL

\* The identifier and the stream agree on what is confirmed.
THEOREM VerdictsAgree == Spec => []CachesAgree
<1>1. TablesInv => CachesAgree
  BY DEF TablesInv, StreamInv, CachesAgree
<1> QED BY AlwaysTables, <1>1, PTL

\* No stream is given a protocol whose signature none of its payloads carries.
THEOREM VerdictsCarried == Spec => []SignatureBacked
<1>1. TablesInv => SignatureBacked
  BY DEF TablesInv, StreamInv, SignatureBacked, Data, Given, Carries
<1> QED BY AlwaysTables, <1>1, PTL

\* Without a strong signature, and on foreign ports, a protocol is confirmed by two payloads
\* at least.
THEOREM WeakSignaturesAddUp == Spec => []WeakConfirmedByTwo
<1>1. TablesInv => WeakConfirmedByTwo
  <2> SUFFICES ASSUME TablesInv, NEW s \in DOMAIN stream_data, IsConfirmed(stream_data[s]),
                      ~StrongSignature(s),
                      stream_data[s].app.protocol \notin {PortProtocol(s[1]), PortProtocol(s[2])}
               PROVE  Votes(s) >= 2
    BY DEF WeakConfirmedByTwo
  <2>1. Justified(s, stream_data[s])
    BY DEF TablesInv, StreamInv
  <2> QED BY <2>1 DEF Justified, StrongSignature, Votes, Data, Given, Carries, OwnPort, VotesIn, Count
<1> QED BY AlwaysTables, <1>1, PTL
=============================================================================
