------------------------------- MODULE Source -------------------------------
(***************************************************************************)
(* The choice of source addresses (src/backend/source.rs): which of the    *)
(* host's interface addresses the rotation uses.  A name or a pattern is a *)
(* sequence of characters; the lists of patterns are sets, since only      *)
(* whether some pattern matches counts.                                    *)
(***************************************************************************)
EXTENDS Lists

CONSTANTS UnspecifiedIps, LoopbackIps, LinkLocalIps,
          BUILT_IN_VIRTUAL_INTERFACES

-----------------------------------------------------------------------------
(* One iteration of the loop of glob_match: p and t index the pattern and    *)
(* the text, star_p is where the last "*" was, -1 if there was none, star_t  *)
(* how much text it has swallowed; `failed` is the early return.             *)
At(p, t, star_p, star_t) ==
  [p |-> p, t |-> t, star_p |-> star_p, star_t |-> star_t, failed |-> FALSE]

Iterate(pattern, text, l) ==
  LET left == l.p < Len(pattern)
  IN  IF l.failed \/ l.t >= Len(text) THEN l
      ELSE IF left /\ pattern[l.p + 1] \in {"?", text[l.t + 1]}
           THEN At(l.p + 1, l.t + 1, l.star_p, l.star_t)
      ELSE IF left /\ pattern[l.p + 1] = "*" THEN At(l.p + 1, l.t, l.p, l.t)
      ELSE IF l.star_p >= 0 THEN At(l.star_p + 1, l.star_t + 1, l.star_p, l.star_t + 1)
      ELSE [l EXCEPT !.failed = TRUE]

(* More iterations than the loop ever needs.                                 *)
Iterations(pattern, text) == (Len(text) + 1) * (Len(pattern) + 1)

glob_match(pattern, text) ==
  LET loop[k \in 0 .. Iterations(pattern, text)] ==
        IF k = 0 THEN At(0, 0, -1, 0) ELSE Iterate(pattern, text, loop[k - 1])
      last == loop[Iterations(pattern, text)]
  IN  ~last.failed /\ \A k \in last.p + 1 .. Len(pattern) : pattern[k] = "*"

(* split_once(':'): the interface that an alias is of.                       *)
InterfaceOf(name) ==
  {SubSeq(name, 1, k - 1) :
     k \in {k \in DOMAIN name : name[k] = ":" /\ \A i \in 1 .. k - 1 : name[i] # ":"}}

(* The name an address is reported under, or the interface it is an alias of.*)
matches_name_exact(pattern, name) == glob_match(pattern, name)
matches_name(pattern, name) ==
  glob_match(pattern, name) \/ \E interface \in InterfaceOf(name) : glob_match(pattern, interface)

matches_any(patterns, name) == \E pattern \in patterns : matches_name(pattern, name)

Candidate(addr, include) ==
  IF include # {} THEN matches_any(include, addr.interface)
  ELSE /\ addr.ip \notin LoopbackIps \cup LinkLocalIps
       /\ ~matches_any(BUILT_IN_VIRTUAL_INTERFACES, addr.interface)

Elements(list) == {list[k] : k \in DOMAIN list}

(* select_sources: filtered, sorted, without duplicates.                     *)
select_sources(addrs, include, exclude) ==
  sorted({a.ip : a \in {a \in Elements(addrs) :
                          /\ a.ip \notin UnspecifiedIps
                          /\ Candidate(a, include)
                          /\ ~matches_any(exclude, a.interface)}})

-----------------------------------------------------------------------------
(* Names as the system lists them: any characters but a star.  (glob_match   *)
(* would take a star of the text for the one of the pattern.)                *)
IsName(text) == IsList(text) /\ \A k \in DOMAIN text : text[k] # "*"

IsListing(addrs) ==
  IsList(addrs) /\ \A k \in DOMAIN addrs : IsName(addrs[k].interface) /\ addrs[k].ip \in Nat

(* Where in the text a character of the pattern can start, if what is behind *)
(* it can start at one of `next`.                                            *)
Starts(c, text, next) ==
  IF c = "*" THEN {n \in 0 .. Len(text) : \E m \in next : n <= m}
  ELSE {n \in 0 .. Len(text) - 1 : c \in {"?", text[n + 1]} /\ n + 1 \in next}

(* What a pattern matches, by its structure, from its end.                   *)
Matches(pattern, text) ==
  LET starts[j \in 0 .. Len(pattern)] ==
        IF j = 0 THEN {Len(text)} ELSE Starts(pattern[Len(pattern) - j + 1], text, starts[j - 1])
  IN  0 \in starts[Len(pattern)]

(* "`*` is any run of characters (including none) and `?` is exactly one"    *)
(* (source.rs:120): the loop, which goes back only to the last star, decides *)
(* that for every pattern.                                                   *)
GlobRight(pattern, text) == glob_match(pattern, text) <=> Matches(pattern, text)

(* An address on an interface, or on an alias of it; an interface that is no *)
(* alias has no colon in its name.                                           *)
OnInterface(addr, interface) ==
  \/ addr.interface = interface
  \/ /\ \A k \in DOMAIN interface : interface[k] # ":"
     /\ \E k \in DOMAIN addr.interface :
          addr.interface[k] = ":" /\ SubSeq(addr.interface, 1, k - 1) = interface

(* "so the rotation order stays the same from one refresh to the next"       *)
(* (source.rs:65): the result is in ascending order, has no address twice,   *)
(* and only addresses that were listed.  "include ... covers every address   *)
(* on ens5, labeled or not" (source.rs:111): naming an interface takes in,   *)
(* or leaves out, all its aliases' addresses too, and what is excluded is    *)
(* out even if it is included.                                               *)
SelectionRight(addrs, include, exclude) ==
  LET chosen == select_sources(addrs, include, exclude)
  IN  /\ \A i, j \in DOMAIN chosen : i < j => chosen[i] < chosen[j]
      /\ \A k \in DOMAIN chosen : \E a \in Elements(addrs) :
           a.ip = chosen[k] /\ \A name \in exclude : ~OnInterface(a, name)
      /\ \A a \in Elements(addrs) :
           /\ \E name \in include : OnInterface(a, name)
           /\ a.ip \notin UnspecifiedIps
           /\ ~matches_any(exclude, a.interface)
           => \E k \in DOMAIN chosen : chosen[k] = a.ip
      /\ include = {} => \A k \in DOMAIN chosen : chosen[k] \notin LoopbackIps \cup LinkLocalIps
=============================================================================
