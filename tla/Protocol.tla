------------------------------ MODULE Protocol ------------------------------
(***************************************************************************)
(* Passive replies (src/protocol/reply.rs), the address a data connection  *)
(* goes to (src/pasv/relay.rs) and command lines                           *)
(* (src/protocol/command.rs).  A reply line is a sequence of tokens:       *)
(* numbers and marks, "x" standing for any other character; a digit as the *)
(* delimiter of a 229 and a "+" before a number are left out.  A command   *)
(* line is a sequence of words, blanks and line breaks.                    *)
(* Base is 256 in the code: an octet is below Base, a u16 below Base^2.    *)
(* An Option is a set of at most one element.                              *)
(***************************************************************************)
EXTENDS Lists

CONSTANT Base

ASSUME ProtocolAssumption == Base \in Nat \ {0, 1}

Num(n)  == <<"num", n>>
Mark(c) == <<c>>

Octet == 0 .. Base - 1
U16   == 0 .. Base * Base - 1

-----------------------------------------------------------------------------
InBrackets(tokens) == <<Mark("x"), Mark("(")>> \o tokens \o <<Mark(")"), Mark("x")>>

pasv_reply(ip, port) ==
  LET fields == ip \o <<port \div Base, port % Base>>
  IN  InBrackets([k \in 1 .. 11 |-> IF k % 2 = 0 THEN Mark(",") ELSE Num(fields[k \div 2 + 1])])

epsv_reply(port) ==
  InBrackets(<<Mark("|"), Mark("|"), Mark("|"), Num(port), Mark("|")>>)

-----------------------------------------------------------------------------
(* What is between the first "(" and the first ")" behind it.                *)
Inner(line) ==
  LET start == FirstOf({i \in DOMAIN line : line[i] = Mark("(")})
      end   == FirstOf({i \in start + 1 .. Len(line) : line[i] = Mark(")")})
  IN  IF start = 0 \/ end = 0 THEN {} ELSE {SubSeq(line, start + 1, end - 1)}

(* str::parse of a u16: nothing but a number, and one that fits.             *)
ParseU16(part) ==
  IF Len(part) = 1 /\ part[1][1] = "num" THEN {part[1][2]} \cap U16 ELSE {}

(* The parts hold no blank but at their ends, and trim takes those away.     *)
Trim(part) == reject(part, {Mark("SP")})

AllNumbers(fields) == \A k \in DOMAIN fields : fields[k] # {}

(* Six fields, each of which fits in an octet.                               *)
IsAddress_AnyU16(fields) == Len(fields) = 6 /\ AllNumbers(fields)
IsAddress(fields) ==
  Len(fields) = 6 /\ AllNumbers(fields) /\ \A k \in 1 .. 6 : fields[k] \subseteq Octet

Address(fields) ==
  IF IsAddress(fields)
  THEN LET n == [k \in 1 .. 6 |-> CHOOSE x \in fields[k] : TRUE]
       IN  {[ip |-> SubSeq(n, 1, 4), port |-> (n[5] * Base + n[6]) % (Base * Base)]}
  ELSE {}

Fields(inner) ==
  LET parts == split(inner, Mark(","))
  IN  [k \in DOMAIN parts |-> ParseU16(Trim(parts[k]))]

parse_pasv_reply(line) == UNION {Address(Fields(inner)) : inner \in Inner(line)}

(* The delimiter is whatever comes first; a blank is not a graphic character.*)
Port(inner) ==
  LET fields == split(inner, inner[1])
  IN  IF /\ inner[1] # Mark("SP")
         /\ Len(fields) = 5
         /\ \A k \in {1, 2, 3, 5} : fields[k] = <<>>
      THEN ParseU16(fields[4]) \ {0}
      ELSE {}

parse_epsv_reply(line) == UNION {Port(inner) : inner \in Inner(line) \ {<<>>}}

-----------------------------------------------------------------------------
Unspecified == <<0, 0, 0, 0>>

(* data_ip: `control` is the control connection's IPv4 address, if it has    *)
(* one.                                                                      *)
data_ip(announced, control, fallback) ==
  IF fallback /\ announced = Unspecified /\ control # {}
  THEN CHOOSE c \in control : TRUE
  ELSE announced

(* Where the data connection goes for a reply to EPSV or to PASV, if the     *)
(* reply is usable.                                                          *)
DataAddr(command, line, control, fallback) ==
  IF command = "EPSV"
  THEN {[ip |-> c, port |-> p] : c \in control, p \in parse_epsv_reply(line)}
  ELSE {[ip |-> data_ip(a.ip, control, fallback), port |-> a.port] : a \in parse_pasv_reply(line)}

-----------------------------------------------------------------------------
(* The supported verbs (two stand for all twelve), in two cases.             *)
Upper  == [stor |-> "STOR", pasv |-> "PASV", word |-> "WORD"]
Verbs  == {"STOR", "PASV"}
Breaks == {"CR", "LF"}
Blanks == {"SP", "TAB"} \cup Breaks

to_ascii_uppercase(w) == IF w \in DOMAIN Upper THEN Upper[w] ELSE w

trim_end_matches(line, set) == SubSeq(line, 1, LastOf({i \in DOMAIN line : line[i] \notin set}))

trim(line) ==
  LET kept == {i \in DOMAIN line : line[i] \notin Blanks}
  IN  IF kept = {} THEN <<>> ELSE SubSeq(line, FirstOf(kept), LastOf(kept))

has_embedded_line_break(body) == \E k \in DOMAIN body : body[k] \in Breaks

(* FtpCommand::parse: the verb ends at the first space, and only there.      *)
parse(line) ==
  LET body  == trim(line)
      space == FirstOf({i \in DOMAIN body : body[i] = "SP"})
      verb  == IF space = 0 THEN body ELSE SubSeq(body, 1, space - 1)
      known == Len(verb) = 1 /\ to_ascii_uppercase(verb[1]) \in Verbs
  IN  [verb |-> IF known THEN to_ascii_uppercase(verb[1]) ELSE "Unknown",
       arg  |-> IF space = 0 THEN <<>> ELSE trim(SubSeq(body, space + 1, Len(body)))]

(* What the session does with a line: 501, 502, or it takes the command.     *)
Command(line) == parse(trim_end_matches(line, Breaks))
Handle(line) ==
  IF has_embedded_line_break(trim_end_matches(line, Breaks)) THEN "501"
  ELSE IF Command(line).verb = "Unknown" THEN "502" ELSE "taken"

(* A line that is taken is one command, as the server behind the gateway     *)
(* will read it: no line break but at its end, its first word a supported    *)
(* verb in any case, and the rest its argument, inner blanks kept.  Any line *)
(* that is so is taken.                                                      *)
CommandsRight(line) ==
  LET words == reject(line, Blanks)
      start == FirstOf({i \in DOMAIN line : line[i] \notin Blanks})
  IN  /\ Handle(line) = "taken" <=>
           /\ \A i, j \in DOMAIN line : i < j /\ line[i] \in Breaks => line[j] \in Breaks
           /\ words # <<>> /\ to_ascii_uppercase(Head(words)) \in Verbs
           /\ start < Len(line) =>
                line[start + 1] = "SP" \/ \A k \in start + 1 .. Len(line) : line[k] \in Blanks
      /\ Handle(line) = "taken" =>
           /\ Command(line).verb = to_ascii_uppercase(Head(words))
           /\ reject(Command(line).arg, Blanks) = Tail(words)

-----------------------------------------------------------------------------
(* What a line says in its first pair of brackets.                           *)
Announced(line) ==
  {SubSeq(line, b.from + 1, b.to - 1) : b \in
     {b \in [from : DOMAIN line, to : DOMAIN line] :
        /\ b.from < b.to /\ line[b.from] = Mark("(") /\ line[b.to] = Mark(")")
        /\ \A k \in 1 .. b.to - 1 : line[k] = Mark("(") => k >= b.from
        /\ \A k \in b.from .. b.to - 1 : line[k] # Mark(")")}}

Says227(a)    == Announced(pasv_reply(a.ip, a.port))
Says229(p, d) == {<<Mark(d), Mark(d), Mark(d), Num(p), Mark(d)>>}

Addresses   == [ip : [1 .. 4 -> Octet], port : U16]
AllOf227    == UNION {Says227(a) : a \in Addresses}
Delimiter   == {"|", "!", ",", "(", "x"}
AllOf229    == UNION {Says229(p, d) : p \in U16 \ {0}, d \in Delimiter}

(* A reply line: a number is all of its digits, so no two are side by side.  *)
IsToken(x) ==
  \/ x \in {Mark(c) : c \in Delimiter \cup {")", "SP"}}
  \/ x = Num(x[2]) /\ x[2] \in Nat
IsReply(line) ==
  /\ IsList(line)
  /\ \A k \in DOMAIN line : IsToken(line[k])
  /\ \A k \in 1 .. Len(line) - 1 : ~(line[k][1] = "num" /\ line[k + 1][1] = "num")

(* The gateway reads a backend's passive reply as exactly what a server      *)
(* writes for an address and a port: every address and port is read back     *)
(* from the reply that announces it, whatever the text around the brackets   *)
(* and the blanks in a 227, and no other text is taken for one: too few or   *)
(* too many fields, an octet or a port out of range, mixed delimiters.  And  *)
(* "which would reach the gateway's own host" (relay.rs:74): with the        *)
(* fallback, no data connection goes to 0.0.0.0.                             *)
RepliesRight(line, control, fallback) ==
  /\ LET said == Announced(reject(line, {Mark("SP")}))
     IN  /\ parse_pasv_reply(line) = {} <=> said \cap AllOf227 = {}
         /\ \A a \in parse_pasv_reply(line) : said = Says227(a)
  /\ parse_epsv_reply(line) = {} <=> Announced(line) \cap AllOf229 = {}
  /\ \A p \in parse_epsv_reply(line) :
       \E d \in Delimiter : Announced(line) = Says229(p, d)
  /\ fallback /\ control # {} =>
       \A command \in {"EPSV", "PASV"} :
         \A a \in DataAddr(command, line, control, fallback) : a.ip # Unspecified
=============================================================================
