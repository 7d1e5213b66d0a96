------------------------------ MODULE Connect ------------------------------
(***************************************************************************)
(* Connecting to a backend (src/backend/connection.rs) through the DNS     *)
(* cache (src/backend/dns_cache.rs).  Sessions connect concurrently and    *)
(* share the cache; the cache holds one entry here, that of one host:port, *)
(* since entries never touch each other.  What the host's name resolves to *)
(* changes over time: Answers is the list of its successive answers.  An   *)
(* attempt is one call of `connect`: a session makes one without rotation, *)
(* and one for each candidate source address with it.                      *)
(***************************************************************************)
EXTENDS Lists

CONSTANTS Sessions,
          Answers,     \* the successive answers, each a sequence of addresses
          V4,          \* the addresses that are IPv4
          Ttl,         \* DNS_CACHE_TTL in ticks
          Timeout,     \* connection_timeout in ticks
          MaxTime      \* the clock's bound

ASSUME ConnectAssumption ==
  /\ IsList(Answers) /\ Answers # <<>>
  /\ \A k \in DOMAIN Answers : IsList(Answers[k])
  /\ Ttl \in Nat \ {0} /\ Timeout \in Nat \ {0} /\ MaxTime \in Nat

VARIABLES
  clock,
  source,     \* is `source` given, that is, is rotation on?
  zone,       \* which answer the name has now
  replaced,   \* when each earlier answer was replaced
  entry,      \* the cache's entries for the key: none, or one
  pc,         \* where each session's attempt is, and how it ended
  deadline,   \* when the attempt's timeout fires
  answer,     \* the answer the resolver gave the attempt, 0 before it did
  addrs,      \* the addresses left to try
  tried       \* those that failed

attempt == <<pc, deadline, answer, addrs, tried>>
vars    == <<clock, source, zone, replaced, entry, attempt>>

Init ==
  /\ clock = 0
  /\ source \in BOOLEAN
  /\ zone = 1
  /\ replaced = <<>>
  /\ entry = {}
  /\ pc = [s \in Sessions |-> "idle"]
  /\ deadline = [s \in Sessions |-> 0]
  /\ answer = [s \in Sessions |-> 0]
  /\ addrs = [s \in Sessions |-> <<>>]
  /\ tried = [s \in Sessions |-> <<>>]

-----------------------------------------------------------------------------
(* retain(is_ipv4): an IPv4 source reaches only IPv4 destinations.           *)
Usable(k) == IF source THEN retain(Answers[k], V4) ELSE Answers[k]

TryFrom_Always(s, rest) ==
  /\ addrs' = [addrs EXCEPT ![s] = rest]
  /\ pc' = [pc EXCEPT ![s] = "connecting"]

(* The loop over the addresses, from the resolved answer or from an error:   *)
(* it awaits the next address, or returns the last error, or if there was no *)
(* address to try, AddrNotAvailable.                                         *)
TryFrom(s, rest) ==
  /\ addrs' = [addrs EXCEPT ![s] = rest]
  /\ pc' = [pc EXCEPT ![s] = IF rest = <<>> THEN "failed" ELSE "connecting"]

(* `cached`: the addresses of an entry that is not too old.                  *)
Fresh_Inclusive == {e \in entry : clock - e.resolved_at <= Ttl}
Fresh == {e \in entry : clock - e.resolved_at < Ttl}

(* `connect`: the timeout starts to run; a cached answer is used at once, or *)
(* else a lookup starts.                                                     *)
Begin(s) ==
  /\ pc[s] \in {"idle", "failed", "timedOut"}
  /\ clock + Timeout <= MaxTime
  /\ deadline' = [deadline EXCEPT ![s] = clock + Timeout]
  /\ tried' = [tried EXCEPT ![s] = <<>>]
  /\ \/ /\ Fresh = {}
        /\ pc' = [pc EXCEPT ![s] = "lookup"]
        /\ answer' = [answer EXCEPT ![s] = 0]
        /\ addrs' = [addrs EXCEPT ![s] = <<>>]
     \/ \E e \in Fresh :
          answer' = [answer EXCEPT ![s] = e.answer] /\ TryFrom(s, Usable(e.answer))
  /\ UNCHANGED <<clock, source, zone, replaced, entry>>

(* The resolver answers (external); the task runs only later.                *)
Resolved(s) ==
  /\ pc[s] = "lookup" /\ answer[s] = 0
  /\ answer' = [answer EXCEPT ![s] = zone]
  /\ UNCHANGED <<clock, source, zone, replaced, entry, pc, deadline, addrs, tried>>

(* lookup_host returned: insert replaces whatever a concurrent lookup put    *)
(* there, dated now.                                                         *)
Insert(s) ==
  /\ pc[s] = "lookup" /\ answer[s] # 0
  /\ entry' = {[answer |-> answer[s], resolved_at |-> clock]}
  /\ TryFrom(s, Usable(answer[s]))
  /\ UNCHANGED <<clock, source, zone, replaced, deadline, answer, tried>>

(* The future is dropped, with all it held.                                  *)
Forget(s, end) ==
  /\ pc' = [pc EXCEPT ![s] = end]
  /\ deadline' = [deadline EXCEPT ![s] = 0]
  /\ answer' = [answer EXCEPT ![s] = 0]
  /\ addrs' = [addrs EXCEPT ![s] = <<>>]
  /\ tried' = [tried EXCEPT ![s] = <<>>]
  /\ UNCHANGED <<clock, source, zone, replaced, entry>>

(* lookup_host failed: nothing is cached.                                    *)
LookupFails(s) ==
  /\ pc[s] = "lookup"
  /\ Forget(s, "failed")

(* connect_from succeeded.                                                   *)
Connected(s) ==
  /\ pc[s] = "connecting"
  /\ pc' = [pc EXCEPT ![s] = "connected"]
  /\ UNCHANGED <<clock, source, zone, replaced, entry, deadline, answer, addrs, tried>>

FailAnd(s, rest) ==
  /\ pc[s] = "connecting"
  /\ tried' = [tried EXCEPT ![s] = Append(@, Head(addrs[s]))]
  /\ TryFrom(s, rest)
  /\ UNCHANGED <<clock, source, zone, replaced, entry, deadline, answer>>

Refused_GivesUp(s) == FailAnd(s, <<>>)

(* connect_from failed: on to the next address.                              *)
Refused(s) == FailAnd(s, Tail(addrs[s]))

Cancel(s, where) ==
  /\ pc[s] \in where
  /\ clock = deadline[s]
  /\ Forget(s, "timedOut")

TimedOut_ConnectOnly(s) == Cancel(s, {"connecting"})

(* The one timeout around all of it: the lookup or the connect in progress   *)
(* is dropped, and a lookup that is dropped is not cached.                   *)
TimedOut(s) == Cancel(s, {"lookup", "connecting"})

(* The session is over, and its backend connection with it.                  *)
Close(s) ==
  /\ pc[s] = "connected"
  /\ Forget(s, "idle")

-----------------------------------------------------------------------------
(* The backend moves to other addresses (external).                          *)
Moves ==
  /\ zone < Len(Answers)
  /\ zone' = zone + 1
  /\ replaced' = Append(replaced, clock)
  /\ UNCHANGED <<clock, source, entry, attempt>>

(* A timer that is due fires before more time passes.                        *)
Tick ==
  /\ clock < MaxTime
  /\ \A s \in Sessions : pc[s] \in {"lookup", "connecting"} => clock < deadline[s]
  /\ clock' = clock + 1
  /\ UNCHANGED <<source, zone, replaced, entry, attempt>>

Next ==
  \/ Moves \/ Tick
  \/ \E s \in Sessions :
       \/ Begin(s) \/ Resolved(s) \/ Insert(s) \/ LookupFails(s)
       \/ Connected(s) \/ Refused(s) \/ TimedOut(s) \/ Close(s)

Spec == Init /\ [][Next]_vars

(* The clock goes on and a timer that is due fires; neither the resolver nor *)
(* the backend need ever answer.                                             *)
FairSpec == Spec /\ WF_vars(Tick) /\ \A s \in Sessions : WF_vars(TimedOut(s))

-----------------------------------------------------------------------------
(* Every variable has its type.                                              *)
TypeOK ==
  /\ clock \in 0 .. MaxTime /\ source \in BOOLEAN
  /\ zone \in 1 .. Len(Answers)
  /\ replaced \in [1 .. zone - 1 -> 0 .. clock]
  /\ entry \subseteq [answer : 1 .. zone, resolved_at : 0 .. clock]
  /\ pc \in [Sessions -> {"idle", "lookup", "connecting", "connected", "failed", "timedOut"}]
  /\ deadline \in [Sessions -> 0 .. MaxTime]
  /\ answer \in [Sessions -> 0 .. zone]
  /\ \A s \in Sessions : pc[s] = "connecting" => answer[s] # 0 /\ addrs[s] # <<>>

(* How long ago the answer a session uses ceased to be the name's.           *)
Staleness(s) == IF answer[s] = zone THEN 0 ELSE clock - replaced[answer[s]]

(* "keeping backend IP changes (failover, rotation) visible within a bounded *)
(* delay" (dns_cache.rs:10): no session tries an address that its name has   *)
(* not had for the time to live and two timeouts.  Not only the time to live:*)
(* a lookup may be answered just before the change, returned and dated only  *)
(* a timeout later, overwrite a newer entry, and be used until the end of an *)
(* attempt that began just before it expired.                                *)
BoundedDelay ==
  \A s \in Sessions : pc[s] = "connecting" => Staleness(s) < Ttl + 2 * Timeout

(* "tries each returned address in turn until one connects"                  *)
(* (connection.rs:29): an attempt has tried, and has yet to try, all that    *)
(* the answer holds and the source can reach, in the resolver's order; it    *)
(* fails only when it tried them all, or had no answer, and no IPv6 address  *)
(* is tried from an IPv4 source.                                             *)
InTurn ==
  \A s \in Sessions :
    /\ pc[s] \in {"connecting", "connected"} => tried[s] \o addrs[s] = Usable(answer[s])
    /\ pc[s] = "failed" /\ tried[s] # <<>> => tried[s] = Usable(answer[s])
    /\ source => \A k \in DOMAIN addrs[s] : addrs[s][k] \in V4

(* "connecting takes at most timeouts.connection_timeout_secs" (README.md):  *)
(* no attempt goes on for ever, though the resolver or the backend never     *)
(* answers.                                                                  *)
AttemptEnds ==
  \A s \in Sessions : pc[s] \in {"lookup", "connecting"} ~> pc[s] \notin {"lookup", "connecting"}
=============================================================================
