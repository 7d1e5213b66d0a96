------------------------------ MODULE Rotator ------------------------------
(***************************************************************************)
(* Source address rotation (src/backend/rotator.rs) and its use by the     *)
(* sessions (src/server/session.rs): which local address a session         *)
(* connects to its backend from, how many transfers one address has open   *)
(* at once, and which addresses are left out after a failure.  The state   *)
(* is behind one mutex, so an action is a critical section, or an await    *)
(* between two.  One backend is modelled: backends share only the list of  *)
(* addresses and their health.                                             *)
(***************************************************************************)
EXTENDS Lists

CONSTANTS Sessions,
          Addresses,     \* the addresses an interface listing may ever show
          Capacity,      \* passive_ports.len(): transfers per address
          MaxAdvances,   \* bound on the rotations looked at
          NoAddress

ASSUME RotatorAssumption ==
  /\ IsFiniteSet(Sessions) /\ IsFiniteSet(Addresses)
  /\ Addresses \subseteq Nat /\ Addresses # {}
  /\ Capacity \in Nat \ {0}
  /\ MaxAdvances \in Nat
  /\ NoAddress \notin Addresses

VARIABLES
  sources,           \* State.sources, sorted: the set of them
  unhealthy,         \* State.unhealthy, the entries that are not yet over
  advances,          \* BackendState.advances
  started_in_cycle,  \* BackendState.started_in_cycle
  started_total,     \* SlotState.started_total of each address
  permits,           \* SlotState.semaphore: the permits that are free
  pc,                \* where each session is
  candidates,        \* the addresses the session has still to try
  source             \* the address the session keeps

shared == <<sources, unhealthy, advances, started_in_cycle, started_total, permits>>
vars   == <<shared, pc, candidates, source>>

Init ==
  /\ sources \in (SUBSET Addresses) \ {{}}
  /\ unhealthy = {}
  /\ advances = 0
  /\ started_in_cycle = 0
  /\ started_total = [a \in Addresses |-> 0]
  /\ permits = [a \in Addresses |-> Capacity]
  /\ pc = [s \in Sessions |-> "idle"]
  /\ candidates = [s \in Sessions |-> <<>>]
  /\ source = [s \in Sessions |-> NoAddress]

Move(s, from, to) ==
  /\ pc[s] = from
  /\ pc' = [pc EXCEPT ![s] = to]

-----------------------------------------------------------------------------
Ordered ==
  LET len == Cardinality(sources)
  IN  [i \in 1 .. len |-> Nth(sources, (advances + i - 1) % len)]

Candidates_Unordered ==
  retain([i \in 1 .. Cardinality(sources) |-> Nth(sources, i - 1)], sources \ unhealthy)

(* candidates_at: the current address first, without the unhealthy ones      *)
(* unless there are no others.                                               *)
Candidates ==
  LET healthy == retain(Ordered, sources \ unhealthy)
  IN  IF healthy = <<>> THEN Ordered ELSE healthy

(* A new session lists its candidates.                                       *)
Start(s) ==
  /\ Move(s, "idle", "connecting")
  /\ candidates' = [candidates EXCEPT ![s] = Candidates]
  /\ UNCHANGED <<shared, source>>

ConnectOk(s) ==
  /\ Move(s, "connecting", "open")
  /\ source' = [source EXCEPT ![s] = Head(candidates[s])]
  /\ candidates' = [candidates EXCEPT ![s] = <<>>]
  /\ UNCHANGED shared

(* report_connect_failure: a failure that is the address's fault.            *)
Report(a, fault) == unhealthy' = IF fault THEN unhealthy \cup {a} ELSE unhealthy

(* The next candidate, or 421 when there is none left.                       *)
ConnectErr(s, fault) ==
  /\ Move(s, "connecting", IF Len(candidates[s]) = 1 THEN "idle" ELSE "connecting")
  /\ Report(Head(candidates[s]), fault)
  /\ candidates' = [candidates EXCEPT ![s] = Tail(@)]
  /\ UNCHANGED <<sources, advances, started_in_cycle, started_total, permits, source>>

-----------------------------------------------------------------------------
(* acquire_data_slot: the semaphore is looked up, and waited on.             *)
Request(s) ==
  /\ Move(s, "open", "waiting")
  /\ advances < MaxAdvances
  /\ UNCHANGED <<shared, candidates, source>>

TakePermit(s) ==
  /\ Move(s, "waiting", "granted")
  /\ permits' = [permits EXCEPT ![source[s]] = @ - 1]
  /\ UNCHANGED <<sources, unhealthy, advances, started_in_cycle, started_total,
                 candidates, source>>

Permit_Unlimited(s) == TakePermit(s)

Permit(s) == pc[s] = "waiting" /\ permits[source[s]] > 0 /\ TakePermit(s)

(* The wait is over; slot_timeouts_total, which is only reported, is left    *)
(* out.                                                                      *)
SlotTimeout(s) ==
  /\ Move(s, "waiting", "open")
  /\ UNCHANGED <<shared, candidates, source>>

Count(s, cycled) ==
  /\ Move(s, "granted", "transfer")
  /\ started_total' = [started_total EXCEPT ![source[s]] = @ + 1]
  /\ IF cycled THEN advances' = advances + 1 /\ started_in_cycle' = 0
     ELSE started_in_cycle' = started_in_cycle + 1 /\ UNCHANGED advances
  /\ UNCHANGED <<sources, unhealthy, permits, candidates, source>>

Started_OneLate(s) == Count(s, started_in_cycle >= Capacity)

(* The lock is taken again: the transfer counts towards the cycle.           *)
Started(s) == Count(s, started_in_cycle + 1 >= Capacity)

FreeSlot(s) ==
  /\ Move(s, "transfer", "open")
  /\ permits' = [permits EXCEPT ![source[s]] = @ + 1]
  /\ UNCHANGED <<sources, advances, started_in_cycle, started_total, candidates, source>>

(* Connecting the data connection from the address failed.                   *)
DataConnectErr(s, fault) == FreeSlot(s) /\ Report(source[s], fault)

(* The DataSlot is dropped.                                                  *)
Drop(s) == FreeSlot(s) /\ UNCHANGED unhealthy

Close(s) ==
  /\ Move(s, "open", "idle")
  /\ source' = [source EXCEPT ![s] = NoAddress]
  /\ UNCHANGED <<shared, candidates>>

-----------------------------------------------------------------------------
(* resolve_sources: the addresses the interface patterns leave of a listing.  *)
Listings == SUBSET Addresses

(* refresh_once with a listing that is usable and new: set_sources.          *)
SetSources(new) ==
  /\ new # {} /\ new # sources
  /\ sources' = new
  /\ unhealthy' = unhealthy \cap new
  /\ UNCHANGED <<advances, started_in_cycle, started_total, permits, pc, candidates, source>>

(* UNHEALTHY_FOR is over.                                                    *)
Recover(a) ==
  /\ a \in unhealthy
  /\ unhealthy' = unhealthy \ {a}
  /\ UNCHANGED <<sources, advances, started_in_cycle, started_total, permits,
                 pc, candidates, source>>

(* snapshot_at: what /metrics reports of each source.  One that was never    *)
(* used has no entry in the code, and an idle one here.                      *)
snapshot_at ==
  [a \in Addresses |-> [active |-> Capacity - permits[a], started_total |-> started_total[a]]]

Step(s) ==
  \/ Start(s) \/ ConnectOk(s) \/ Request(s) \/ Permit(s) \/ SlotTimeout(s)
  \/ Started(s) \/ Drop(s) \/ Close(s)
  \/ \E fault \in BOOLEAN : ConnectErr(s, fault) \/ DataConnectErr(s, fault)

Next ==
  \/ \E s \in Sessions : Step(s)
  \/ \E new \in Listings : SetSources(new)
  \/ \E a \in Addresses : Recover(a)

Spec == Init /\ [][Next]_vars

-----------------------------------------------------------------------------
(* Every variable has its type, and a session that connects has a candidate  *)
(* to connect from.                                                          *)
TypeOK ==
  /\ sources \in (SUBSET Addresses) \ {{}}
  /\ unhealthy \subseteq Addresses
  /\ advances \in Nat
  /\ started_in_cycle \in 0 .. Capacity - 1
  /\ started_total \in [Addresses -> Nat]
  /\ permits \in [Addresses -> 0 .. Capacity]
  /\ pc \in [Sessions -> {"idle", "connecting", "open", "waiting", "granted", "transfer"}]
  /\ candidates \in [Sessions -> Seq(Addresses)]
  /\ source \in [Sessions -> Addresses \cup {NoAddress}]
  /\ \A s \in Sessions : pc[s] = "connecting" => candidates[s] # <<>>
  /\ \A s \in Sessions : source[s] = NoAddress <=> pc[s] \in {"idle", "connecting"}

Holders(a) == {s \in Sessions : pc[s] \in {"granted", "transfer"} /\ source[s] = a}

(* "At most that many data transfers run at once from one source address"    *)
(* (README), and as many as /metrics shows: no slot is leaked or added for   *)
(* any address, listed or no longer listed, through timeouts, failures and   *)
(* refreshes.                                                                *)
CapacityKept ==
  \A a \in Addresses :
    /\ Cardinality(Holders(a)) <= Capacity
    /\ snapshot_at[a].active = Cardinality(Holders(a))

(* Every transfer the sources report: each one's first, second, ...          *)
Transfers == UNION {{a} \X (1 .. snapshot_at[a].started_total) : a \in Addresses}

(* The rotation counts every transfer once: the cycles and what is started   *)
(* in the current one are the transfers the sources report, so the current   *)
(* source moves on after exactly as many as the backend has ports.           *)
CycleAccounted ==
  advances * Capacity + started_in_cycle = Cardinality(Transfers)

(* The candidates are the listed addresses that are not left out, or all of  *)
(* them when every one is, each once, and the current one first if it is     *)
(* among them.                                                               *)
CandidatesRight ==
  LET usable == IF sources \subseteq unhealthy THEN sources ELSE sources \ unhealthy
      list   == Candidates
  IN  /\ {list[i] : i \in DOMAIN list} = usable
      /\ Len(list) = Cardinality(usable)
      /\ Ordered[1] \in usable => list[1] = Ordered[1]
=============================================================================
