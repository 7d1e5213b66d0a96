----------------------------- MODULE PortSearch -----------------------------
(***************************************************************************)
(* PortPool with history variables that remember, for the allocate() call  *)
(* a session is in, what the call probed and what happened around it.  They *)
(* only observe: no action of PortPool reads them.                         *)
(***************************************************************************)
EXTENDS PortPool

VARIABLES
  probed,       \* the candidates of this call so far
  undisturbed,  \* the cursor was moved by this call only, and did not wrap
  exhausted     \* at some moment of this call no port of the range was free

hvars == <<probed, undisturbed, exhausted>>

(* The ports nobody has a claim on: not reserved, not bound, and not the     *)
(* candidate of a call that is about to reserve it.                          *)
FreePorts ==
  {p \in Ports : /\ p \notin in_use
                 /\ socket[p] = Nobody
                 /\ \A s \in Sessions : port[s] # p}

Fetches(s) == pc[s] = "next" /\ pc'[s] = "insert"

HInit ==
  /\ Init
  /\ probed = [s \in Sessions |-> {}]
  /\ undisturbed = [s \in Sessions |-> TRUE]
  /\ exhausted = [s \in Sessions |-> FALSE]

HNext ==
  /\ Next
  /\ probed' = [s \in Sessions |->
       IF pc'[s] \notin Probing THEN {}
       ELSE IF Fetches(s) THEN probed[s] \cup {port'[s]} ELSE probed[s]]
  /\ undisturbed' = [s \in Sessions |->
       \/ pc'[s] \notin Probing \/ pc[s] \notin Probing
       \/ /\ undisturbed[s]
          /\ \A t \in Sessions \ {s} : ~Fetches(t)
          /\ next_offset' >= next_offset]
  /\ exhausted' = [s \in Sessions |->
       pc'[s] \in Probing /\ (exhausted[s] \/ FreePorts = {} \/ FreePorts' = {})]

HSpec == HInit /\ [][HNext]_<<vars, hvars>>

HFairSpec == HSpec /\ \A s \in Sessions : WF_vars(Run(s))

AboutToGiveUp(s) == pc[s] = "next" /\ tries[s] = RangeSize

(* A call that nobody disturbs probes the whole range before it returns      *)
(* None: the rotating start point skips no port.                             *)
UndisturbedSearchIsComplete ==
  \A s \in Sessions : AboutToGiveUp(s) /\ undisturbed[s] => probed[s] = Ports

(* "Returns None if the range has no free port" (port_manager.rs:34): a call *)
(* that returns None did so after a moment at which no port was free.        *)
NoneOnlyIfExhausted ==
  \A s \in Sessions : AboutToGiveUp(s) => exhausted[s]
=============================================================================
