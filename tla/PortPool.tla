------------------------------ MODULE PortPool ------------------------------
(***************************************************************************)
(* The passive data port pool (src/pasv/port_manager.rs): PortManager      *)
(* hands every PASV/EPSV a bound listener on a port of the configured      *)
(* range.  allocate() is an async fn that many sessions run at once on a   *)
(* multi-threaded runtime; its atomic steps are the fetch_add on the       *)
(* shared cursor, the insertion in the locked in_use set, the bind, and    *)
(* the removal of the reservation.  A guard is dropped in two steps: the   *)
(* body of Drop::drop takes the port out of in_use, and only then is the   *)
(* listener field closed.  A port is represented by its offset in the      *)
(* range.                                                                  *)
(***************************************************************************)
EXTENDS Integers

CONSTANTS Sessions,        \* the sessions that call allocate()
          RangeSize,       \* end - start + 1 of passive.port_range
          OffsetModulus,   \* 2^32: next_offset is an AtomicU32 and wraps
          BindFaults,      \* can bind() fail on a free port (out of descriptors)?
          ForeignPorts,    \* the ports of the range other processes also use
          Nobody, Foreign  \* owners of a socket that are not sessions

(* Config::validate refuses start >= end, so a range has two ports at least;  *)
(* a range of u16 ports is far smaller than 2^32.                             *)
ASSUME PoolAssumption ==
  /\ RangeSize \in Nat /\ RangeSize >= 2
  /\ OffsetModulus \in Nat /\ OffsetModulus >= RangeSize
  /\ BindFaults \in BOOLEAN
  /\ ForeignPorts \subseteq 0 .. RangeSize - 1
  /\ Nobody # Foreign
  /\ Nobody \notin Sessions /\ Foreign \notin Sessions

Ports  == 0 .. RangeSize - 1
NoPort == -1

VARIABLES
  in_use,        \* PortManager.in_use: the reserved ports
  next_offset,   \* PortManager.next_offset
  socket,        \* who has a socket bound on each port of the range (the OS)
  pc,            \* where each session is in allocate() or in its guard's life
  port,          \* the candidate, or the port of the guard; NoPort without one
  tries          \* iterations of the loop of this allocate() call so far

vars == <<in_use, next_offset, socket, pc, port, tries>>

Probing  == {"next", "insert", "bind", "remove"}
Location == Probing \cup {"idle", "held", "close"}

Init ==
  /\ in_use = {}
  /\ next_offset = 0
  /\ socket = [p \in Ports |-> Nobody]
  /\ pc = [s \in Sessions |-> "idle"]
  /\ port = [s \in Sessions |-> NoPort]
  /\ tries = [s \in Sessions |-> 0]

Move(s, from, to) ==
  /\ pc[s] = from
  /\ pc' = [pc EXCEPT ![s] = to]

-----------------------------------------------------------------------------
(* allocate() is called; a session never calls it while it holds a guard.    *)
Allocate(s) ==
  /\ Move(s, "idle", "next")
  /\ UNCHANGED <<in_use, next_offset, socket, port, tries>>

Probe(s, i, candidate) ==
  /\ Move(s, "next", "insert")
  /\ i <= RangeSize
  /\ tries' = [tries EXCEPT ![s] = i]
  /\ next_offset' = (next_offset + 1) % OffsetModulus
  /\ port' = [port EXCEPT ![s] = candidate]
  /\ UNCHANGED <<in_use, socket>>

NextCandidate_Endless(s) == Probe(s, tries[s], next_offset % RangeSize)

NextCandidate_OffByOne(s) == Probe(s, tries[s] + 1, next_offset % (RangeSize + 1))

NextCandidate_LastMissed(s) == Probe(s, tries[s] + 1, next_offset % (RangeSize - 1))

(* One turn of the loop: fetch_add the shared cursor, derive the candidate.  *)
NextCandidate(s) == Probe(s, tries[s] + 1, next_offset % RangeSize)

GiveUpAfter(s, n) ==
  /\ Move(s, "next", "idle")
  /\ tries[s] = n
  /\ tries' = [tries EXCEPT ![s] = 0]
  /\ UNCHANGED <<in_use, next_offset, socket, port>>

(* The loop ran out: allocate() returns None.                                *)
GiveUp(s) == GiveUpAfter(s, RangeSize)

Reserve(s) ==
  /\ Move(s, "insert", "bind")
  /\ in_use' = in_use \cup {port[s]}
  /\ UNCHANGED <<next_offset, socket, port, tries>>

Insert_Unchecked(s) == Reserve(s)

(* Under the lock: insert() is false when the port is reserved already, and  *)
(* the loop moves on to its next candidate.                                  *)
Insert(s) ==
  \/ Reserve(s) /\ port[s] \notin in_use
  \/ /\ Move(s, "insert", "next")
     /\ port[s] \in in_use
     /\ port' = [port EXCEPT ![s] = NoPort]
     /\ UNCHANGED <<in_use, next_offset, socket, tries>>

Bind(s) ==
  /\ Move(s, "bind", "held")
  /\ socket' = [socket EXCEPT ![port[s]] = s]
  /\ tries' = [tries EXCEPT ![s] = 0]
  /\ UNCHANGED <<in_use, next_offset, port>>

BindOk_SharedPort(s) == Bind(s)

(* bind() succeeded: the guard owns the reservation and the listener.        *)
BindOk(s) == Bind(s) /\ socket[port[s]] = Nobody

(* bind() failed: the port is bound by somebody else, or the host is out of  *)
(* a resource.                                                               *)
BindErr(s) ==
  /\ Move(s, "bind", "remove")
  /\ socket[port[s]] # Nobody \/ BindFaults
  /\ UNCHANGED <<in_use, next_offset, socket, port, tries>>

TryNext(s) ==
  /\ Move(s, "remove", "next")
  /\ port' = [port EXCEPT ![s] = NoPort]
  /\ UNCHANGED <<next_offset, socket, tries>>

Unreserve_Forgotten(s) == TryNext(s) /\ UNCHANGED in_use

(* The Err arm takes the lock again and gives the reservation back.          *)
Unreserve(s) == TryNext(s) /\ in_use' = in_use \ {port[s]}

-----------------------------------------------------------------------------
(* Drop of a PasvPortGuard.  Release is the body of Drop::drop, Close the    *)
(* drop of the listener field that follows it.                               *)
Release(s) ==
  /\ Move(s, "held", "close")
  /\ in_use' = in_use \ {port[s]}
  /\ UNCHANGED <<next_offset, socket, port, tries>>

CloseListener(s) ==
  /\ Move(s, "close", "idle")
  /\ socket' = [socket EXCEPT ![port[s]] = Nobody]
  /\ port' = [port EXCEPT ![s] = NoPort]
  /\ UNCHANGED <<next_offset, tries>>

Close_ReleasesAgain(s) == CloseListener(s) /\ in_use' = in_use \ {port[s]}

Close(s) == CloseListener(s) /\ UNCHANGED in_use

-----------------------------------------------------------------------------
(* Another process of the host binds or closes a port of the range.          *)
ForeignBind(p) ==
  /\ socket[p] = Nobody
  /\ socket' = [socket EXCEPT ![p] = Foreign]
  /\ UNCHANGED <<in_use, next_offset, pc, port, tries>>

ForeignClose(p) ==
  /\ socket[p] = Foreign
  /\ socket' = [socket EXCEPT ![p] = Nobody]
  /\ UNCHANGED <<in_use, next_offset, pc, port, tries>>

(* The steps the runtime keeps taking for a task that is not waiting.        *)
Run(s) ==
  \/ NextCandidate(s) \/ GiveUp(s) \/ Insert(s) \/ BindOk(s) \/ BindErr(s)
  \/ Unreserve(s) \/ Close(s)

Next ==
  \/ \E s \in Sessions : Allocate(s) \/ Run(s) \/ Release(s)
  \/ \E p \in ForeignPorts : ForeignBind(p) \/ ForeignClose(p)

Spec == Init /\ [][Next]_vars

(* tokio polls a task that is ready, and bind() to a numeric address waits   *)
(* for no peer.  Nothing makes a session drop its guard.                     *)
FairSpec == Spec /\ \A s \in Sessions : WF_vars(Run(s))

-----------------------------------------------------------------------------
Reserving(s) == pc[s] \in {"bind", "remove", "held"}

(* Every variable has its type; a candidate is a port of the range.          *)
TypeOK ==
  /\ in_use \subseteq Ports
  /\ next_offset \in 0 .. OffsetModulus - 1
  /\ socket \in [Ports -> Sessions \cup {Nobody, Foreign}]
  /\ pc \in [Sessions -> Location]
  /\ port \in [Sessions -> Ports \cup {NoPort}]
  /\ tries \in [Sessions -> 0 .. RangeSize]
  /\ \A s \in Sessions : port[s] = NoPort <=> pc[s] \in {"idle", "next"}

(* No port is reserved by two sessions, whether they are still binding it,   *)
(* giving it back after a failed bind, or holding its guard.                 *)
ReservedOnce ==
  \A s, t \in Sessions :
    Reserving(s) /\ Reserving(t) /\ s # t => port[s] # port[t]

(* in_use holds the ports of those sessions and nothing else: a failed bind, *)
(* a dropped guard and the late close of a listener neither leak a port out  *)
(* of the pool nor free one that another session has reserved meanwhile      *)
(* (active_count() and every later allocate() read this set).                *)
ReservedExactly == in_use = {port[s] : s \in {t \in Sessions : Reserving(t)}}

(* A session's guard is for a port whose socket is its own, until the socket *)
(* is closed; no other socket of the range belongs to it.                    *)
GuardOwnsSocket ==
  \A s \in Sessions, p \in Ports :
    socket[p] = s <=> (pc[s] \in {"held", "close"} /\ port[s] = p)

(* What a session sees of the pool is a lease with its own listening socket. *)
Lease == INSTANCE PortLease WITH
           lease <- [s \in Sessions |-> IF pc[s] = "held" THEN port[s] ELSE NoPort]

ImplementsLease == Lease!Spec

(* Every allocate() returns, however the sessions' probes interleave: the    *)
(* loop is bounded by the size of the range and not by finding a free port.  *)
AllocationEnds ==
  \A s \in Sessions : pc[s] \in Probing ~> pc[s] \in {"held", "idle"}
=============================================================================
