----------------------------- MODULE PortLease -----------------------------
(***************************************************************************)
(* What the passive port pool promises its sessions, without saying how it *)
(* searches: a session leases at most one port of the range at a time, and *)
(* for as long as it does the socket bound on that port is its own, so     *)
(* that no other session and no other process of the host can be reached   *)
(* there.  PortPool implements this specification.                         *)
(***************************************************************************)
EXTENDS Integers

CONSTANTS Sessions, Ports, Nobody, Foreign

NoPort == -1

VARIABLES lease,    \* the port each session holds a guard for, or NoPort
          socket    \* who has a socket bound on each port

Init ==
  /\ lease = [s \in Sessions |-> NoPort]
  /\ socket = [p \in Ports |-> Nobody]

(* allocate() returned Some(guard). *)
Grant(s, p) ==
  /\ lease[s] = NoPort
  /\ socket[p] = Nobody
  /\ lease' = [lease EXCEPT ![s] = p]
  /\ socket' = [socket EXCEPT ![p] = s]

(* The guard was dropped; its listener closes a moment later. *)
Return(s) ==
  /\ lease[s] # NoPort
  /\ lease' = [lease EXCEPT ![s] = NoPort]
  /\ UNCHANGED socket

Close(p) ==
  /\ socket[p] # Nobody
  /\ socket[p] \in Sessions => lease[socket[p]] # p
  /\ socket' = [socket EXCEPT ![p] = Nobody]
  /\ UNCHANGED lease

ForeignBind(p) ==
  /\ socket[p] = Nobody
  /\ socket' = [socket EXCEPT ![p] = Foreign]
  /\ UNCHANGED lease

Next ==
  \/ \E s \in Sessions : Return(s) \/ \E p \in Ports : Grant(s, p)
  \/ \E p \in Ports : Close(p) \/ ForeignBind(p)

Spec == Init /\ [][Next]_<<lease, socket>>
=============================================================================
