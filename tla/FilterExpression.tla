--------------------------- MODULE FilterExpression ---------------------------
(***************************************************************************)
(* Filter expressions: the lexer's choice of tokens, the recursive descent *)
(* of FilterParser and the matching of filter/filter.py.                   *)
(*                                                                         *)
(* A text is a sequence of lexemes [type, word, num], one for each word,   *)
(* number, address or sign.  A parsed expression is the set of contexts it *)
(* matches: evaluate has no effect and its exceptions are caught, so that  *)
(* is all match can tell of the tree.                                      *)
(*                                                                         *)
(* Left out: upper case, which the code folds, words that float() takes    *)
(* for numbers, addresses that are empty because their header was cut      *)
(* short, and branches that no expression reaches (values of tcp.flags.*,  *)
(* which _is_boolean_field takes first).                                   *)
(***************************************************************************)
EXTENDS Integers, Sequences, SequencesExt

CONSTANTS Contexts,      \* what analyze makes of packets, records as NewContext
          Networks       \* the addresses of each network written in a text

Lexeme(type, word, num) == [type |-> type, word |-> word, num |-> num]
Word(w)    == Lexeme("IDENTIFIER", w, 0)
Number(n)  == Lexeme("NUMBER", "", n)
Address(a) == Lexeme("IP", a, 0)
Mac(a)     == Lexeme("MAC", a, 0)
Network(n) == Lexeme("NETWORK", n, 0)
Sign(s)    == Lexeme(s, "", 0)             \* keywords, comparison signs, ( ) and -

\* The lexer steps over what it does not know: "&&", "||", "!" and "=" among others.
Skipped(w) == Lexeme("SKIPPED", w, 0)
Tokenize(text) == SelectSeq(text, LAMBDA t : t.type # "SKIPPED")

-----------------------------------------------------------------------------
(* Field names                                                             *)

FlagNames == {"syn", "ack", "fin", "rst", "psh", "urg", "cwr", "ece"}

CombineKeywords ==
  { "src", "dst", "host", "port", "flags", "srcport", "dstport", "sport", "dport",
    "proto", "protocol", "ttl", "id", "len", "length", "type", "net" } \cup FlagNames

TransportFields ==
  [ port |-> "port", portrange |-> "portrange",
    src |-> "srcport", srcport |-> "srcport", sport |-> "srcport",
    dst |-> "dstport", dstport |-> "dstport", dport |-> "dstport" ]

IPFields ==
  [ src |-> "src", dst |-> "dst", host |-> "host", proto |-> "proto", protocol |-> "proto",
    ttl |-> "ttl", id |-> "id", len |-> "len", length |-> "len" ]

Joined(parts) == FoldLeft(LAMBDA name, part : name \o "." \o part, Head(parts), Tail(parts))

\* Flags and their names after tcp, udp or ip.
FlagField(parts) ==
  IF Len(parts) = 3 /\ parts[3] \in FlagNames THEN Joined(parts) ELSE parts[1]

NormalizeTransport(parts) ==
  LET first == parts[1]
      rest  == Tail(parts)
  IN  CASE Len(rest) = 1 /\ rest[1] \in DOMAIN TransportFields -> first \o "." \o TransportFields[rest[1]]
        [] Len(rest) = 2 /\ rest[1] \in {"src", "dst"} /\ rest[2] \in {"port", "portrange"} ->
             first \o "." \o rest[1] \o rest[2]
        [] rest[1] = "flags" -> FlagField(parts)
        [] Len(rest) = 1 /\ rest[1] \in FlagNames -> first \o ".flags." \o rest[1]
        [] OTHER -> Joined(parts)

NormalizeFieldParts(parts) ==
  LET first == parts[1]
      two   == Len(parts) = 2
  IN  CASE Len(parts) = 1 -> first
        [] first \in {"ether", "eth"} /\ two /\ parts[2] \in {"src", "dst", "host", "type"} ->
             "ether." \o parts[2]
        [] first = "ip" /\ two /\ parts[2] \in DOMAIN IPFields -> "ip." \o IPFields[parts[2]]
        [] first = "ip" /\ parts[2] = "flags" -> FlagField(parts)
        [] first \in {"tcp", "udp"} -> NormalizeTransport(parts)
        [] first \in {"src", "dst"} ->
             first \o (IF two /\ parts[2] \in {"port", "portrange", "net"} THEN parts[2] ELSE "ip")
        [] first \in {"host", "net"} -> "ip." \o first
        [] first = "port" -> "port"
        [] first = "portrange" -> "port.portrange"
        [] OTHER -> Joined(parts)

\* Shortcuts that change the name.
ExpandFieldName(name) ==
  CASE name \in {"src", "dst"} -> name \o "ip"
    [] name \in {"host", "net"} -> "ip.host"
    [] name = "portrange" -> "port.portrange"
    [] name = "sport" -> "srcport"
    [] name = "dport" -> "dstport"
    [] name \in {"eth.src", "eth.dst", "eth.type", "eth.host"} -> "ether." \o SubSeq(name, 5, Len(name))
    [] name = "ip.protocol" -> "ip.proto"
    [] name = "ip.length" -> "ip.len"
    [] name = "tcp.flags" -> "tcp"
    [] OTHER -> name

AppFields == {"http", "https", "dns", "ssh", "ftp", "smtp"}

FlagFields == { l \o ".flags." \o f : l \in {"tcp", "ip"}, f \in FlagNames \cup {"df", "mf"} }

IsBooleanField(f) == f \in {"ip", "tcp", "udp", "ether", "arp", "icmp"} \cup AppFields \cup FlagFields

-----------------------------------------------------------------------------
(* Matching                                                                *)

\* The fields that src, dst and net without a layer stand for.
ShortAddresses(f, c) ==
  CASE f \in {"srcip", "srcnet"} /\ c.ip -> {c.src_ip}
    [] f \in {"dstip", "dstnet"} /\ c.ip -> {c.dst_ip}
    [] f = "ip.net" /\ c.ip -> {c.src_ip, c.dst_ip}
    [] OTHER -> {}

\* Addresses and numbers a field has in a context; none of either when the layer is not there.
Addresses(f, c) ==
  CASE f = "ether.src" -> {c.src_mac}
    [] f = "ether.dst" -> {c.dst_mac}
    [] f = "ether.host" -> {c.src_mac, c.dst_mac}
    [] f = "ip.src" /\ c.ip -> {c.src_ip}
    [] f = "ip.dst" /\ c.ip -> {c.dst_ip}
    [] f = "ip.host" /\ c.ip -> {c.src_ip, c.dst_ip}
    [] OTHER -> ShortAddresses(f, c)

\* A field of one layer is there only when the packet has the layer.
Layered(f, field, c) ==
  \/ f \in {field} /\ (c.tcp \/ c.udp)
  \/ f = "tcp." \o field /\ c.tcp
  \/ f = "udp." \o field /\ c.udp

Numbers(f, c) ==
  CASE f = "ether.type" -> {c.ethertype}
    [] f = "ip.proto" /\ c.ip -> {c.protocol}
    [] f = "ip.ttl" /\ c.ip -> {c.ttl}
    [] f = "ip.id" /\ c.ip -> {c.identification}
    [] f = "ip.len" /\ c.ip -> {c.total_length}
    [] Layered(f, "srcport", c) \/ Layered(f, "srcportrange", c) -> {c.src_port}
    [] Layered(f, "dstport", c) \/ Layered(f, "dstportrange", c) -> {c.dst_port}
    [] Layered(f, "port", c) \/ Layered(f, "portrange", c) -> {c.src_port, c.dst_port}
    [] f = "port.portrange" /\ (c.tcp \/ c.udp) -> {c.src_port, c.dst_port}
    [] f = "tcp.seq" /\ c.tcp -> {c.seq}
    [] f = "tcp.ack" /\ c.tcp -> {c.ack}
    [] f = "tcp.window" /\ c.tcp -> {c.window}
    [] f = "udp.length" /\ c.udp -> {c.length}
    [] OTHER -> {}

\* Mutant: != holds as soon as one of the two addresses or ports differs.
HoldsOneDiffers(f, op, v, c) ==
  LET as == Addresses(f, c)
      ns == Numbers(f, c)
      equal ==
        CASE v.type = "NUMBER" -> v.num \in ns
          [] v.type = "NETWORK" -> as \cap Networks[v.word] # {}
          [] v.type \in {"IP", "MAC", "STRING", "IDENTIFIER"} -> v.word \in as
          [] OTHER -> FALSE
      all(Test(_)) == v.type = "NUMBER" /\ ns # {} /\ \A n \in ns : Test(n)
  IN  /\ as # {} \/ ns # {}
      /\ CASE op = "==" -> equal
           [] op = "!=" -> \E n \in ns : n # v.num
           [] op \in {"<", "less"} -> all(LAMBDA n : n < v.num)
           [] op \in {">", "greater"} -> all(LAMBDA n : n > v.num)
           [] op = "<=" -> all(LAMBDA n : n <= v.num)
           [] op = ">=" -> all(LAMBDA n : n >= v.num)

\* SimpleFilter.evaluate.  A field with two values equals v when one of them does, and
\* is less or greater when both are.  Keywords and signs have no value of their own, and
\* asking whether a MAC address is in a network is an error, which counts as FALSE.
Holds(f, op, v, c) ==
  LET as == Addresses(f, c)
      ns == Numbers(f, c)
      equal ==
        CASE v.type = "NUMBER" -> v.num \in ns
          [] v.type = "NETWORK" -> as \cap Networks[v.word] # {}
          [] v.type \in {"IP", "MAC", "STRING", "IDENTIFIER"} -> v.word \in as
          [] OTHER -> FALSE
      all(Test(_)) == v.type = "NUMBER" /\ ns # {} /\ \A n \in ns : Test(n)
  IN  /\ as # {} \/ ns # {}
      /\ CASE op = "==" -> equal
           [] op = "!=" -> ~equal /\ ~(v.type = "NETWORK" /\ f \in {"ether.src", "ether.dst", "ether.host"})
           [] op \in {"<", "less"} -> all(LAMBDA n : n < v.num)
           [] op \in {">", "greater"} -> all(LAMBDA n : n > v.num)
           [] op = "<=" -> all(LAMBDA n : n <= v.num)
           [] op = ">=" -> all(LAMBDA n : n >= v.num)

InRange(f, low, high, c) == \E n \in Numbers(f, c) : low <= n /\ n <= high

\* BooleanFilter.evaluate: a name it does not know is false.
IsSet(f, c) ==
  CASE f = "ether" -> TRUE
    [] f = "arp" -> c.ethertype = 2054
    [] f = "ip" \/ f = "ip.flags" -> c.ip
    [] f = "tcp" -> c.tcp
    [] f = "udp" -> c.udp
    [] f \in AppFields -> c.app_protocol = f
    [] f \in FlagFields ->
         \/ c.tcp /\ \E flag \in c.flags : f = "tcp.flags." \o flag
         \/ c.ip /\ \E flag \in c.ip_flags : f = "ip.flags." \o flag
    [] OTHER -> FALSE

-----------------------------------------------------------------------------
(* Parsing                                                                 *)

Parsed(matches, pos) == [ok |-> TRUE, matches |-> matches, pos |-> pos]
Failed == [ok |-> FALSE, matches |-> {}, pos |-> 0]

Comparisons == {"==", "!=", "<", ">", "<=", ">=", "less", "greater"}
ValueTypes == {"NUMBER", "IP", "NETWORK", "MAC", "STRING", "IDENTIFIER"}

TypeAt(tokens, pos) == IF pos <= Len(tokens) THEN tokens[pos].type ELSE "END"

\* The position behind a field name that starts at pos: it goes on as long as the words
\* belong to field names, and ends with portrange.
NameEnd(tokens, pos) ==
  LET stop == Min({ k \in (pos + 1)..(Len(tokens) + 1) :
                      \/ TypeAt(tokens, k) # "IDENTIFIER"
                      \/ tokens[k].word \notin CombineKeywords })
  IN  IF TypeAt(tokens, stop) = "portrange" THEN stop + 1 ELSE stop

FieldName(tokens, pos) ==
  LET part(t) == IF t.type = "portrange" THEN "portrange" ELSE t.word
      parts   == SubSeq(tokens, pos, NameEnd(tokens, pos) - 1)
  IN  ExpandFieldName(NormalizeFieldParts([i \in DOMAIN parts |-> part(parts[i])]))

EndsInPortrange(name) == Len(name) >= 9 /\ SubSeq(name, Len(name) - 8, Len(name)) = "portrange"

\* A field with what is said of it.  Any token can be the value behind a comparison sign.
ParseField(tokens, pos) ==
  LET field == FieldName(tokens, pos)
      end   == NameEnd(tokens, pos)
      next  == TypeAt(tokens, end)
      Where(Test(_), after) == Parsed({c \in Contexts : Test(c)}, after)
  IN  CASE IsBooleanField(field) -> Where(LAMBDA c : IsSet(field, c), end)
        [] next \in Comparisons /\ end = Len(tokens) -> Failed
        [] next \in Comparisons /\ end < Len(tokens) ->
             Where(LAMBDA c : Holds(field, next, tokens[end + 1], c), end + 2)
        [] next = "NUMBER" /\ EndsInPortrange(field) /\ TypeAt(tokens, end + 1) = "-" ->
             IF TypeAt(tokens, end + 2) = "NUMBER"
             THEN Where(LAMBDA c : InRange(field, tokens[end].num, tokens[end + 2].num, c), end + 3)
             ELSE Failed
        [] next \in ValueTypes -> Where(LAMBDA c : Holds(field, "==", tokens[end], c), end + 1)
        [] OTHER -> Where(LAMBDA c : IsSet(field, c), end)

\* What is read from a position on, by the grammar's rules.  The loops of _parse_or and
\* _parse_and build left to right; union and intersection do not tell.
Reads(tokens) ==
  LET Read[rule \in {"or", "and", "not", "primary"}, pos \in 1..(Len(tokens) + 1)] ==
        LET next == TypeAt(tokens, pos)
            List(operand, Join(_, _)) ==
              LET first == Read[operand, pos]
                  rest  == Read[rule, first.pos + 1]
              IN  IF ~first.ok \/ TypeAt(tokens, first.pos) # rule THEN first
                  ELSE IF rest.ok THEN Parsed(Join(first.matches, rest.matches), rest.pos)
                  ELSE Failed
            Inner(operand) == Read[operand, pos + 1]
        IN  CASE rule = "or" -> List("and", LAMBDA a, b : a \cup b)
              [] rule = "and" -> List("not", LAMBDA a, b : a \cap b)
              [] rule = "not" /\ next = "not" ->
                   IF Inner("not").ok THEN Parsed(Contexts \ Inner("not").matches, Inner("not").pos)
                   ELSE Failed
              [] rule = "not" /\ next # "not" -> Read["primary", pos]
              [] rule = "primary" /\ next = "(" ->
                   IF Inner("or").ok /\ TypeAt(tokens, Inner("or").pos) = ")"
                   THEN Parsed(Inner("or").matches, Inner("or").pos + 1) ELSE Failed
              [] rule = "primary" /\ next \in {"IDENTIFIER", "portrange"} -> ParseField(tokens, pos)
              [] rule = "primary" /\ next = "NUMBER" ->
                   Parsed({c \in Contexts : Holds("port", "==", tokens[pos], c)}, pos + 1)
              [] OTHER -> Failed
  IN  Read

\* Mutant: what is left over is not an error.
ParsePrefix(text) ==
  LET tokens == Tokenize(text)
      all    == Reads(tokens)["or", 1]
  IN  IF tokens = <<>> THEN Parsed({}, 1) ELSE all

\* FilterParser(text).parse(): everything has to be read.
Parse(text) ==
  LET tokens == Tokenize(text)
      all    == Reads(tokens)["or", 1]
  IN  CASE tokens = <<>> -> Parsed({}, 1)
        [] tokens # <<>> /\ all.pos = Len(tokens) + 1 -> all
        [] OTHER -> Failed
=============================================================================
