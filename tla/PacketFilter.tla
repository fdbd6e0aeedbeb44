------------------------------ MODULE PacketFilter ------------------------------
(***************************************************************************)
(* A packet filter whose expression somebody edits: class PacketFilter of  *)
(* filter/filter.py, and what its documentation says expressions mean.     *)
(***************************************************************************)
EXTENDS FilterExpression

CONSTANTS Ports, Times, Ids, Hosts, Macs, Types, Flags,  \* values the rules name
          Beginnings,   \* rules that a text begins with, among Rules
          Extensions,   \* rules that text is extended with, among Rules
          Operators,    \* spellings of and, or and not in use
          MaxLexemes,   \* bound: length of a text
          MaxInUse,     \* bound: the same, once the filter has been used
          NoRules

ASSUME PacketFilterAssumption ==
  /\ Ports \cup Times \cup Ids \cup Types \subseteq Nat
  /\ Flags \subseteq FlagNames \ {"cwr", "ece"}
  /\ {MaxLexemes, MaxInUse} \subseteq Nat
  /\ \A c \in Contexts : c.flags \subseteq FlagNames \ {"cwr", "ece"} /\ c.ip_flags \subseteq {"df", "mf"}

VARIABLES text,         \* what is being written
          expression,   \* whether the filter's expression is empty
          ast,          \* its rules: the contexts they match, or NoRules
          accepted      \* what the last text it took without an error should match

vars == <<text, expression, ast, accepted>>

-----------------------------------------------------------------------------
(* The documented language: the fields of filter.py:7-37, the signs and   *)
(* operators of :39-46 and the grammar of :489-499.                        *)

Plain(words, Test(_)) == [words |-> words, matches |-> {c \in Contexts : Test(c)}]

Words(s) == [i \in DOMAIN s |-> Word(s[i])]

LayerRules ==
  { Plain(Words(<<"ip">>), LAMBDA c : c.ip),
    Plain(Words(<<"tcp">>), LAMBDA c : c.tcp),
    Plain(Words(<<"udp">>), LAMBDA c : c.udp),
    Plain(Words(<<"arp">>), LAMBDA c : c.ethertype = 2054),
    Plain(Words(<<"http">>), LAMBDA c : c.app_protocol = "http"),
    Plain(Words(<<"https">>), LAMBDA c : c.app_protocol = "https") }
  \cup { Plain(Words(<<"tcp", "flags", f>>), LAMBDA c : c.tcp /\ f \in c.flags) :
           f \in Flags }

AddressRules ==
  UNION { { Plain(Words(<<"ether", "src">>) \o <<Mac(m)>>, LAMBDA c : c.src_mac = m),
            Plain(Words(<<"ether", "dst">>) \o <<Mac(m)>>, LAMBDA c : c.dst_mac = m),
            Plain(Words(<<"ether", "host">>) \o <<Mac(m)>>, LAMBDA c : m \in {c.src_mac, c.dst_mac}) } :
          m \in Macs }
  \cup UNION { { Plain(Words(<<"ip", "src">>) \o <<Address(a)>>, LAMBDA c : c.ip /\ c.src_ip = a),
                 Plain(Words(<<"ip", "dst">>) \o <<Address(a)>>, LAMBDA c : c.ip /\ c.dst_ip = a),
                 Plain(Words(<<"ip", "host">>) \o <<Address(a)>>,
                       LAMBDA c : c.ip /\ a \in {c.src_ip, c.dst_ip}) } : a \in Hosts }

\* What may stand between a field and its value, and how it compares them.
Signed == { [sign |-> <<>>, test |-> "="], [sign |-> <<Skipped("=")>>, test |-> "="],
            [sign |-> <<Sign("==")>>, test |-> "="],
            [sign |-> <<Sign("!=")>>, test |-> "#"], [sign |-> <<Sign("<")>>, test |-> "<"],
            [sign |-> <<Sign("<=")>>, test |-> "<="], [sign |-> <<Sign(">")>>, test |-> ">"],
            [sign |-> <<Sign(">=")>>, test |-> ">="] }

Compares(x, test, y) ==
  CASE test = "=" -> x = y [] test = "#" -> x # y [] test = "<" -> x < y
    [] test = "<=" -> x <= y [] test = ">" -> x > y [] test = ">=" -> x >= y

\* One field, one value: a packet matches if it has the field and the field compares so.
NumberRules ==
  LET Compared(words, values, Has(_), Field(_)) ==
        { Plain(Words(words) \o s.sign \o <<Number(n)>>,
                LAMBDA c : Has(c) /\ Compares(Field(c), s.test, n)) : s \in Signed, n \in values }
  IN  Compared(<<"ether", "type">>, Types, LAMBDA c : TRUE, LAMBDA c : c.ethertype)
      \cup Compared(<<"ip", "ttl">>, Times, LAMBDA c : c.ip, LAMBDA c : c.ttl)
      \cup Compared(<<"ip", "id">>, Ids, LAMBDA c : c.ip, LAMBDA c : c.identification)
      \cup Compared(<<"ip", "proto">>, {6}, LAMBDA c : c.ip, LAMBDA c : c.protocol)
      \cup Compared(<<"tcp", "src", "port">>, Ports, LAMBDA c : c.tcp, LAMBDA c : c.src_port)
      \cup Compared(<<"tcp", "dst", "port">>, Ports, LAMBDA c : c.tcp, LAMBDA c : c.dst_port)
      \cup Compared(<<"udp", "src", "port">>, Ports, LAMBDA c : c.udp, LAMBDA c : c.src_port)
      \cup Compared(<<"udp", "dst", "port">>, Ports, LAMBDA c : c.udp, LAMBDA c : c.dst_port)

\* Either port: one of the two compares so, and with != neither equals.
EitherPort(signed) ==
  LET Compared(words, Has(_)) ==
        { Plain(Words(words) \o s.sign \o <<Number(n)>>,
                LAMBDA c : Has(c) /\ IF s.test = "#" THEN n \notin {c.src_port, c.dst_port}
                                     ELSE \E x \in {c.src_port, c.dst_port} : Compares(x, s.test, n)) :
            s \in signed, n \in Ports }
  IN  Compared(<<"port">>, LAMBDA c : c.tcp \/ c.udp)
      \cup Compared(<<"tcp", "port">>, LAMBDA c : c.tcp)
      \cup Compared(<<"udp", "port">>, LAMBDA c : c.udp)

PortRules == EitherPort({s \in Signed : s.test \in {"=", "#"}})

OrderedPortRules == EitherPort({s \in Signed : s.test \notin {"=", "#"}})

Rules == LayerRules \cup AddressRules \cup NumberRules \cup PortRules \cup OrderedPortRules

\* How the documentation spells the operators.
Spellings(operator) ==
  CASE operator = "and" -> {Sign("and"), Skipped("&&")}
    [] operator = "or" -> {Sign("or"), Skipped("||")}
    [] operator = "not" -> {Sign("not"), Skipped("!")}

\* Texts beyond the language.  The beginning of a rule: the value of a field is missing, and
\* nothing matches; or it is the bare name of a layer, which may match.
Unfinished ==
  LET begins == UNION { { SubSeq(r.words, 1, n) : n \in DOMAIN r.words } : r \in Rules }
                  \ { r.words : r \in Rules }
      Bare(w) == CASE w = Words(<<"ether">>) -> Contexts
                   [] w = Words(<<"tcp", "flags">>) -> {c \in Contexts : c.tcp}
                   [] OTHER -> {}
  IN  { [words |-> w, matches |-> Bare(w)] :
          w \in { w \in begins : \A i \in DOMAIN w : w[i].type \in {"IDENTIFIER", "SKIPPED"} } }

\* And a rule whose comparison has taken a sign of the grammar for its value: only != holds,
\* of the packets that have the field.
Misread ==
  LET compared == { r \in Rules : Len(r.words) > 1 /\ Last(Front(r.words)).type \in Comparisons }
      field(r)  == Front(Front(r.words))
      having(r) == UNION { q.matches : q \in { q \in Rules : IsPrefix(field(r), q.words) } }
  IN  { [ words |-> Append(Front(r.words), Sign(s)),
          matches |-> IF Last(Front(r.words)) = Sign("!=") THEN having(r) ELSE {} ] :
          r \in compared, s \in {"and", "or", ")"} }

\* What a text may mean by the grammar, part by part: the sets of contexts that some way
\* to divide it at its operators gives.
Meanings(t, rules) ==
  LET Is(i, sign) == t[i] = Sign(sign)
      IsOperator(i, operator) == t[i] \in Spellings(operator)
      Means[rule \in {"or", "and", "not", "primary"}, i \in DOMAIN t, j \in DOMAIN t] ==
        LET divided(sign, operand, Join(_, _)) ==
              UNION { { Join(a, b) : a \in Means[rule, i, k - 1], b \in Means[operand, k + 1, j] } :
                      k \in { k \in (i + 1)..(j - 1) : IsOperator(k, sign) } }
        IN  CASE rule = "or" ->
                   Means["and", i, j] \cup divided("or", "and", LAMBDA a, b : a \cup b)
              [] rule = "and" ->
                   Means["not", i, j] \cup divided("and", "not", LAMBDA a, b : a \cap b)
              [] rule = "not" ->
                   IF IsOperator(i, "not") THEN IF i < j THEN { Contexts \ m : m \in Means["not", i + 1, j] } ELSE {}
                   ELSE Means["primary", i, j]
              [] rule = "primary" ->
                   IF Is(i, "(") THEN IF Is(j, ")") /\ i + 1 < j THEN Means["or", i + 1, j - 1] ELSE {}
                   ELSE { r.matches : r \in { r \in rules : r.words = SubSeq(t, i, j) } }
  IN  IF t = <<>> THEN {} ELSE Means["or", 1, Len(t)]

-----------------------------------------------------------------------------
(* Writing: by the grammar's rules, and by taking away the last word.      *)

Write(t) ==
  /\ Len(t) <= IF expression = "empty" /\ ast = NoRules THEN MaxLexemes ELSE MaxInUse
  /\ text' = t
  /\ UNCHANGED <<expression, ast, accepted>>

Begin == text = <<>> /\ \E r \in Beginnings : Write(r.words)
Extend ==
  /\ text # <<>>
  /\ \E r \in Extensions, operator \in (Spellings("and") \cup Spellings("or")) \cap Operators :
       Write(text \o <<operator>> \o r.words)
Negate == \E operator \in Spellings("not") \cap Operators : Write(<<operator>> \o text)
Enclose == Write(<<Sign("(")>> \o text \o <<Sign(")")>>)
Erase == text # <<>> /\ Write(Front(text))

-----------------------------------------------------------------------------
(* The filter                                                              *)

Stored == IF text = <<>> THEN "empty" ELSE "text"

Intended == IF text = <<>> THEN Contexts ELSE Parse(text).matches

\* PacketFilter(text), as set_filter calls it: an exception leaves the old filter in place.
Create ==
  /\ text = <<>> \/ Parse(text).ok
  /\ expression' = Stored
  /\ ast' = IF text = <<>> THEN NoRules ELSE Parse(text).matches
  /\ accepted' = Intended
  /\ UNCHANGED text

\* Mutant: the old rules go before the new ones are parsed.
SetExpressionClears ==
  /\ expression' = Stored
  /\ IF Parse(text).ok
     THEN ast' = Parse(text).matches /\ accepted' = Intended
     ELSE ast' = NoRules /\ UNCHANGED accepted
  /\ UNCHANGED text

\* The expression is stored, then parsed; an exception of the parser leaves the old rules.
SetExpression ==
  /\ expression' = Stored
  /\ IF Parse(text).ok
     THEN ast' = Parse(text).matches /\ accepted' = Intended
     ELSE UNCHANGED <<ast, accepted>>
  /\ UNCHANGED text

\* match
Matched == IF expression = "empty" \/ ast = NoRules THEN Contexts ELSE ast

Init ==
  /\ text = <<>>
  /\ expression = "empty" /\ ast = NoRules /\ accepted = Contexts

Next == Begin \/ Extend \/ Negate \/ Enclose \/ Erase \/ Create \/ SetExpression

Spec == Init /\ [][Next]_vars

-----------------------------------------------------------------------------
\* An expression of the documented language is accepted, and matches the packets it is
\* documented to match: not binds more than and, and more than or, parentheses group, no
\* rule swallows a word of the next one, and a rule about a layer that a packet lacks does
\* not match it, whatever the sign (filter.py:4-53, :489-499).  It holds of the expressions
\* whose operators are words and which do not order a field of two ports; for the others see
\* MCPacketFilter_Symbols.cfg and MCPacketFilter_Ports.cfg.
DocumentedMeaning ==
  \A m \in Meanings(text, Rules) : Parse(text).ok /\ Parse(text).matches = m

\* Behind a comparison sign there has to be a value (filter.py:497): what is accepted is an
\* expression of the language, but for fields without anything behind them.
ValueAfterSign ==
  Parse(text).ok /\ text # <<>> => Parse(text).matches \in Meanings(text, Rules \cup Unfinished)

\* Nothing else is accepted than rules without their value, which match nothing, and
\* comparisons with a sign for a value: the parser takes no text with a dangling operator or
\* parenthesis, or with words left over, wherever in the text they are (filter.py:666-676,
\* :706-825).
RejectsTheRest ==
  Parse(text).ok /\ text # <<>> =>
    Parse(text).matches \in Meanings(text, Rules \cup Unfinished \cup Misread)

\* Whatever was rejected since, match goes by the text accepted last, and by none when that
\* is empty.  The exception is an empty text given to set_expression: its rules match
\* nothing, which shows once a later text has been rejected (filter.py:1090-1093).
FollowsLastAccepted ==
  \/ Matched = accepted
  \/ accepted = Contexts /\ expression = "text" /\ Matched = {}
=============================================================================
