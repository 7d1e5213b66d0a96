------------------------------ MODULE Listener ------------------------------
(***************************************************************************)
(* The accept loop and the shutdown (src/server/listener.rs), with the     *)
(* per-address connection limit (src/server/ip_limiter.rs) and the choice  *)
(* of a backend (src/backend/selector.rs).  The loop runs concurrently     *)
(* with the session tasks, which end at any time; an action is a step of   *)
(* the loop, or the end of a task.                                         *)
(***************************************************************************)
EXTENDS Integers, FiniteSets, Functions

CONSTANTS Connections,   \* the connections clients ever make
          Ips,           \* the clients
          Limits,        \* values of limits.max_connections_per_ip
          Backends       \* how many backends are configured

ASSUME ListenerAssumption ==
  /\ IsFiniteSet(Connections)
  /\ Limits \subseteq Nat
  /\ Backends \in Nat \ {0}

VARIABLES
  max_per_ip,
  counts,     \* IpConnectionLimiter.counts: the HashMap
  next,       \* BackendSelector.next
  phase,      \* where `run` is, and how it returned
  task,       \* the session of each connection
  ip,         \* the client of each connection that has a session
  backend     \* the index of its backend

listenerVars == <<max_per_ip, counts, next, phase, task, ip, backend>>

Live == {c \in Connections : task[c] = "live"}

ListenerInit ==
  /\ max_per_ip \in Limits
  /\ counts = [i \in {} |-> 0]
  /\ next = 0
  /\ phase = "accepting"
  /\ task = [c \in Connections |-> "none"]
  /\ ip = [c \in {} |-> CHOOSE i \in Ips : TRUE]
  /\ backend = [c \in {} |-> 0]

Put(f, x, v) == [y \in DOMAIN f \cup {x} |-> IF y = x THEN v ELSE f[y]]

-----------------------------------------------------------------------------
Held(i) == IF i \in DOMAIN counts THEN counts[i] ELSE 0

(* try_acquire of the limiter: does the address get a guard?                 *)
HasRoom_OneMore(i) == max_per_ip = 0 \/ Held(i) <= max_per_ip
HasRoom(i) == max_per_ip = 0 \/ Held(i) < max_per_ip

AfterDrop_KeepsEntry(i) ==
  IF max_per_ip = 0 \/ i \notin DOMAIN counts THEN counts ELSE [counts EXCEPT ![i] = @ - 1]

(* Drop of an IpConnectionGuard.                                             *)
AfterDrop(i) ==
  IF max_per_ip = 0 \/ i \notin DOMAIN counts THEN counts
  ELSE IF counts[i] = 1 THEN Restrict(counts, DOMAIN counts \ {i})
  ELSE [counts EXCEPT ![i] = @ - 1]

(* BackendSelector::next: round robin.                                       *)
Selected == next % Backends

(* accept() returned connection c from address i, which gets a session.      *)
Accept(c, i) ==
  /\ phase = "accepting"
  /\ task[c] = "none"
  /\ HasRoom(i)
  /\ counts' = IF max_per_ip = 0 THEN counts ELSE Put(counts, i, Held(i) + 1)
  /\ next' = next + 1
  /\ task' = [task EXCEPT ![c] = "live"]
  /\ ip' = Put(ip, c, i)
  /\ backend' = Put(backend, c, Selected)
  /\ UNCHANGED <<max_per_ip, phase>>

Refuse(c, i, n) ==
  /\ phase = "accepting"
  /\ task[c] = "none"
  /\ ~HasRoom(i)
  /\ task' = [task EXCEPT ![c] = "refused"]
  /\ next' = n
  /\ UNCHANGED <<max_per_ip, counts, phase, ip, backend>>

Reject_AfterSelecting(c, i) == Refuse(c, i, next + 1)

(* It already has as many as it may have: the connection is closed.          *)
Reject(c, i) == Refuse(c, i, next)

(* A session returns, with success, an error or a panic, and drops its guard.*)
SessionEnds(c) ==
  /\ phase \in {"accepting", "draining"}
  /\ task[c] = "live"
  /\ task' = [task EXCEPT ![c] = "ended"]
  /\ counts' = AfterDrop(ip[c])
  /\ UNCHANGED <<max_per_ip, next, phase, ip, backend>>

-----------------------------------------------------------------------------
(* The tasks of the JoinSet: those that ended stay in it until they are      *)
(* joined.                                                                   *)
InSet == {c \in Connections : task[c] \in {"live", "ended"}}

(* The shutdown signal.  `run` returns at once if it never had a session.    *)
Shutdown ==
  /\ phase = "accepting"
  /\ phase' = IF InSet = {} THEN "drained" ELSE "draining"
  /\ UNCHANGED <<max_per_ip, counts, next, task, ip, backend>>

JoinAndStop(c, stop) ==
  /\ phase = "draining"
  /\ task[c] = "ended"
  /\ task' = [task EXCEPT ![c] = "joined"]
  /\ phase' = IF stop THEN "drained" ELSE phase
  /\ UNCHANGED <<max_per_ip, counts, next, ip, backend>>

JoinNext_Once(c) == JoinAndStop(c, TRUE)

(* join_next, until it returns None.                                         *)
JoinNext(c) == JoinAndStop(c, InSet = {c})

Abandon(c) ==
  /\ phase = "draining"
  /\ task[c] = "live"
  /\ phase' = "abandoned"
  /\ counts' = [i \in {} |-> 0]
  /\ task' = [d \in Connections |-> IF d \in Live THEN "aborted" ELSE task[d]]
  /\ UNCHANGED <<max_per_ip, next, ip, backend>>

DrainTimeout_Never == FALSE

(* SHUTDOWN_DRAIN_TIMEOUT is over; `run` returns and its tasks are aborted,  *)
(* which drops their guards.                                                 *)
DrainTimeout == \E c \in Connections : Abandon(c)

Drain == DrainTimeout \/ \E c \in Connections : JoinNext(c)

Exited == phase \in {"drained", "abandoned"} /\ UNCHANGED listenerVars

ListenerNext ==
  \/ \E c \in Connections : SessionEnds(c) \/ \E i \in Ips : Accept(c, i) \/ Reject(c, i)
  \/ Shutdown \/ Drain \/ Exited

ListenerSpec == ListenerInit /\ [][ListenerNext]_listenerVars
ListenerFairSpec == ListenerSpec /\ WF_listenerVars(Drain)

-----------------------------------------------------------------------------
(* Every variable has its type; the index of a backend is one of a backend.  *)
ListenerTypeOK ==
  /\ max_per_ip \in Limits
  /\ DOMAIN counts \subseteq Ips /\ \A i \in DOMAIN counts : counts[i] \in Nat \ {0}
  /\ next \in Nat
  /\ phase \in {"accepting", "draining", "drained", "abandoned"}
  /\ task \in [Connections -> {"none", "live", "refused", "ended", "joined", "aborted"}]
  /\ ip \in [DOMAIN backend -> Ips]
  /\ backend \in [{c \in Connections : task[c] \notin {"none", "refused"}} -> 0 .. Backends - 1]

Of(i) == {c \in Live : ip[c] = i}

(* "so one ... source can't exhaust the gateway's file descriptors"          *)
(* (ip_limiter.rs): the limiter counts exactly the live sessions of every    *)
(* address, has no entry for an address that has none, and no address ever   *)
(* has more than the limit.                                                  *)
LimitAccounted ==
  max_per_ip # 0 =>
    /\ DOMAIN counts = {i \in Ips : Of(i) # {}}
    /\ \A i \in DOMAIN counts : counts[i] = Cardinality(Of(i)) /\ counts[i] <= max_per_ip

(* Round robin: the sessions are spread evenly, the refused connections not  *)
(* counted.                                                                  *)
SpreadEvenly ==
  LET Load(b) == Cardinality({c \in DOMAIN backend : backend[c] = b})
  IN  \A a, b \in 0 .. Backends - 1 : Load(a) <= Load(b) + 1

(* "all sessions drained" is said only when none is left, those that were    *)
(* accepted last included.                                                   *)
DrainedMeansDone == phase = "drained" => InSet = {}

(* "before exiting regardless of what is still running": after the signal    *)
(* the gateway exits, even if a session never ends.                          *)
ShutdownEnds == phase = "draining" ~> phase \in {"drained", "abandoned"}
=============================================================================
