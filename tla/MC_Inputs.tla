----------------------------- MODULE MC_Inputs -----------------------------
(* Inputs with bounded sets of inputs, listed by what they are for.           *)
EXTENDS Inputs, SequencesExt

-----------------------------------------------------------------------------
(* Replies: what servers write, with other delimiters, with wrong fields and *)
(* blanks, and short lines of any tokens.                                    *)
Joined(fields, d) ==
  FlattenSeq([k \in DOMAIN fields |-> IF k = 1 THEN <<Num(fields[k])>> ELSE <<Mark(d), Num(fields[k])>>])
Numbers == {0, Base - 1, Base, Base * Base}
Token   == {Mark("("), Mark(")"), Mark("|"), Mark("SP"), Num(1)}
ReplyLines ==
  UNION {
    {pasv_reply(a.ip, a.port) : a \in Addresses},
    {epsv_reply(p) : p \in U16},
    {InBrackets(Joined(f, ",")) : f \in UNION {[1 .. n -> Numbers] : n \in 5 .. 6}},
    {InBrackets(Joined(f, ",")) : f \in [1 .. 7 -> {0, 1}]},
    {InBrackets(FlattenSeq([k \in 1 .. 6 |-> <<Mark("SP"), Num(1), Mark(IF k = 6 THEN "SP" ELSE ",")>>]))},
    {InBrackets(<<Mark(d), Mark(e), Mark(d), Num(p), Mark(d)>>) :
       d, e \in {"|", "!", ",", "(", "x", "SP"}, p \in U16 \cup {Base * Base}},
    {line \in BoundedSeq(Token, 5) : \A k \in 1 .. Len(line) - 1 : <<line[k], line[k + 1]>> # <<Num(1), Num(1)>>}}

(* Command lines as read_line returns them: nothing behind a line feed.      *)
MCCommands ==
  {line \in BoundedSeq({"stor", "PASV", "word", "SP", "TAB", "CR", "LF"}, 5) :
     \A k \in 1 .. Len(line) - 1 :
       /\ line[k] # "LF"
       /\ ~({line[k], line[k + 1]} \subseteq {"stor", "PASV", "word"})}

(* With the control connection's address, if it is an IPv4 one.              *)
MCReplies ==
  [of : {"reply"}, line : ReplyLines, control : {{}, {<<1, 0, 0, 1>>}}, fallback : BOOLEAN]

-----------------------------------------------------------------------------
(* Patterns of up to four characters, texts of up to five; listings of up to *)
(* two addresses on interfaces, aliases and virtual interfaces.              *)
MCPatterns == BoundedSeq({"a", "b", "*", "?"}, 4)
MCTexts    == BoundedSeq({"a", "b"}, 5)

Names == {<<"e">>, <<"e", ":", "1">>, <<"f">>, <<"l", "o">>, <<"d", "0">>}
MCVirtual == {<<"l", "o">>, <<"d", "*">>}
MCListings == BoundedSeq([interface : Names, ip : 0 .. 4], 2)
MCIncludes == {{}, {<<"e">>}, {<<"e", ":", "*">>}, {<<"?">>, <<"l", "o">>}}
MCExcludes == {{}, {<<"e">>}, {<<"e", ":", "1">>}, {<<"*">>}}

-----------------------------------------------------------------------------
(* Up to three lines around the limits; only the last may lack a newline.    *)
Line ==
  {l \in [len : 1 .. 5, words : {0, 2}, newline : BOOLEAN, blank : BOOLEAN] :
     l.blank => l.len <= 2 /\ l.words = 0 /\ l.newline}
MCRequests ==
  {lines \in BoundedSeq(Line, 3) : \A k \in 1 .. Len(lines) - 1 : lines[k].newline}

-----------------------------------------------------------------------------
(* Files and environments: the ranges and the backends, the TLS settings,    *)
(* the source settings.                                                      *)
NoEnv ==
  [bad |-> FALSE, start |-> {}, end |-> {}, backends |-> {}, tls |-> {}, ca_file |-> {},
   server_name |-> {}, mode |-> {}, refresh_secs |-> {}, include |-> {}, exclude |-> {}]
MCRange == [start |-> 1, end |-> 2]
Forms == [text : BOOLEAN, first : {{1}, {}}, last : {{0}, {1}, {2}}]
Entry == [address : BOOLEAN, range : {{}} \cup {{r} : r \in [first : {{1}, {}}, last : {{0}, {1}}]}]
AnyBackend == <<[text |-> FALSE, first |-> {1}, last |-> {1}]>>

MCLoads ==
  UNION {
    [of : {"load"},
     file : [sets : {<<>>} \cup [port_range : [start : 1 .. 2, end : 1 .. 2]],
             backends : {<<>>} \cup {<<f>> : f \in Forms}],
     env : {[NoEnv EXCEPT !.start = a, !.end = b, !.backends = c] :
              a \in {{}, {1}, {3}}, b \in {{}, {1}, {2}},
              c \in {{}, {<<>>}} \cup {{<<e>>} : e \in Entry} \cup {{<<e, e>>} : e \in Entry}}],
    [of : {"load"},
     file : [sets : [tls : {"off", "explicit"}, ca_file : {{}, {"file"}, {"missing"}},
                     server_name : {{}, {"empty"}, {"name"}}],
             backends : {AnyBackend}],
     env : {[NoEnv EXCEPT !.bad = d, !.tls = a, !.ca_file = b, !.server_name = c] :
              a \in {{}, {"off"}, {"explicit"}}, b \in {{}, {"file"}, {"missing"}},
              c \in {{}, {"empty"}, {"name"}}, d \in BOOLEAN}],
    [of : {"load"},
     file : [sets : [mode : {"off", "rotate"}, refresh_secs : 0 .. 1,
                     include : {{}, {"blank"}, {"blank", "eth"}}, exclude : {{}, {"blank"}}],
             backends : {AnyBackend}],
     env : {[NoEnv EXCEPT !.mode = a, !.refresh_secs = b, !.include = c, !.exclude = d] :
              a \in {{}, {"off"}, {"rotate"}}, b \in {{}, {0}, {1}},
              c \in {{}, {{"blank"}}, {{"eth"}}}, d \in {{}, {{"blank"}}}}]}

=============================================================================
