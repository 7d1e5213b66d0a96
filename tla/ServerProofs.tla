---------------------------- MODULE ServerProofs ----------------------------
(***************************************************************************)
(* Theorems about the accept loop (Listener), an upload's data relay       *)
(* (Relay, Upload) and the passive ports (PortPool, PortSearch).           *)
(*                                                                         *)
(* Listener: the accounting of the per-address limit, the end of the drain *)
(* and the spreading over the backends, for any number of connections,     *)
(* clients and backends and any limit.                                     *)
(*                                                                         *)
(* Relay: whole streams and the idle timeout, for any number of chunks,    *)
(* any window and any timeout.  RelayInv adds to the three properties of   *)
(* Relay what makes them inductive: a loop has written all it has read but *)
(* the chunk it is writing, a loop that returned had nothing left to read, *)
(* and in select! the timer has run exactly as long as the direction was   *)
(* quiet.                                                                  *)
(*                                                                         *)
(* PortPool: for every set of sessions, every range and every width of the *)
(* cursor.  None of the four parts of PoolInv is inductive alone.          *)
(* ReservedExactly needs ReservedOnce (a reservation that is given back    *)
(* must not have been somebody else's too), ReservedOnce needs             *)
(* ReservedExactly (insert() can only refuse what in_use holds), and both  *)
(* need the types.  SearchInv is the one for the search: the probes of a   *)
(* call cover what the cursor swept during it.                             *)
(***************************************************************************)
EXTENDS Listener, Upload, PortSearch, FiniteSetTheorems, TLAPS

(* The limiter's count of an address, an entry or none, is the number of its *)
(* live sessions, and within the limit.                                      *)
CountInv ==
  max_per_ip # 0 => \A i \in Ips : Held(i) = Cardinality(Of(i)) /\ Held(i) <= max_per_ip

ListenerInv == ListenerTypeOK /\ CountInv /\ DrainedMeansDone

(* The sessions of an address are finitely many.                             *)
LEMMA OfFinite ==
  ASSUME NEW i PROVE IsFiniteSet(Of(i)) /\ Cardinality(Of(i)) \in Nat
BY ListenerAssumption, FS_Subset, FS_CardinalityType DEF Of, Live

(* The initial states satisfy the invariant.                                 *)
LEMMA InitListenerInv == ListenerInit => ListenerInv
<1> SUFFICES ASSUME ListenerInit PROVE ListenerInv
  OBVIOUS
<1>1. ListenerTypeOK
  BY ListenerAssumption DEF ListenerInit, ListenerTypeOK
<1>2. CountInv
  <2>1. ASSUME NEW i \in Ips PROVE Of(i) = {} /\ Held(i) = 0
    BY DEF ListenerInit, Of, Live, Held
  <2> QED
    BY <1>1, <2>1, FS_EmptySet, ListenerAssumption DEF CountInv, ListenerTypeOK
<1> QED
  BY <1>1, <1>2 DEF ListenerInv, ListenerInit, DrainedMeansDone

(* Types are kept.                                                           *)
LEMMA NextListenerTypeOK == ListenerTypeOK /\ [ListenerNext]_listenerVars => ListenerTypeOK'
<1> SUFFICES ASSUME ListenerTypeOK, [ListenerNext]_listenerVars PROVE ListenerTypeOK'
  OBVIOUS
<1> USE ListenerAssumption DEF ListenerTypeOK
<1>1. ASSUME NEW c \in Connections, NEW i \in Ips, Accept(c, i) PROVE ListenerTypeOK'
  <2>1. c \notin DOMAIN backend /\ Selected \in 0 .. Backends - 1
    BY <1>1 DEF Accept, Selected
  <2>2. DOMAIN counts' \subseteq Ips /\ \A j \in DOMAIN counts' : counts'[j] \in Nat \ {0}
    BY <1>1 DEF Accept, Put, Held
  <2>3. /\ ip' \in [DOMAIN backend' -> Ips]
        /\ backend' \in [DOMAIN backend \cup {c} -> 0 .. Backends - 1]
    BY <1>1, <2>1 DEF Accept, Put
  <2>4. {d \in Connections : task'[d] \notin {"none", "refused"}} = DOMAIN backend \cup {c}
    BY <1>1 DEF Accept
  <2>5. task' \in [Connections -> {"none", "live", "refused", "ended", "joined", "aborted"}]
    BY <1>1 DEF Accept
  <2> QED
    BY <1>1, <2>2, <2>3, <2>4, <2>5 DEF Accept
<1>2. ASSUME NEW c \in Connections, NEW i \in Ips, Reject(c, i) PROVE ListenerTypeOK'
  BY <1>2 DEF Reject, Refuse
<1>3. ASSUME NEW c \in Connections, SessionEnds(c) PROVE ListenerTypeOK'
  <2>1. DOMAIN counts' \subseteq Ips /\ \A j \in DOMAIN counts' : counts'[j] \in Nat \ {0}
    BY <1>3 DEF SessionEnds, AfterDrop, Restrict
  <2> QED
    BY <1>3, <2>1 DEF SessionEnds
<1>4. CASE Shutdown \/ Exited \/ UNCHANGED listenerVars
  BY <1>4 DEF Shutdown, Exited, listenerVars
<1>5. ASSUME NEW c \in Connections, JoinNext(c) PROVE ListenerTypeOK'
  BY <1>5 DEF JoinNext, JoinAndStop
<1>6. CASE DrainTimeout
  BY <1>6 DEF DrainTimeout, Abandon, Live
<1> QED
  BY <1>1, <1>2, <1>3, <1>4, <1>5, <1>6, Zenon DEF ListenerNext, Drain

(* A session that starts or ends changes the count of its own address only,  *)
(* and by the one it changes the number of sessions by.                      *)
LEMMA NextCountInv == ListenerTypeOK /\ CountInv /\ [ListenerNext]_listenerVars => CountInv'
<1> SUFFICES ASSUME ListenerTypeOK, CountInv, [ListenerNext]_listenerVars, max_per_ip' # 0, NEW j \in Ips
             PROVE  (Held(j) = Cardinality(Of(j)) /\ Held(j) <= max_per_ip)'
  BY DEF CountInv
<1>0. /\ max_per_ip' = max_per_ip /\ max_per_ip \in Nat
      /\ Held(j) = Cardinality(Of(j)) /\ Held(j) <= max_per_ip /\ Held(j) \in Nat
      /\ DOMAIN task = Connections /\ DOMAIN ip = DOMAIN backend
      /\ \A d \in Live : d \in DOMAIN ip
  <2>1. max_per_ip' = max_per_ip
    BY DEF ListenerNext, Accept, Reject, Refuse, SessionEnds, Shutdown, Drain, JoinNext, JoinAndStop,
           DrainTimeout, Abandon, Exited, listenerVars
  <2> QED
    BY <2>1, ListenerAssumption, OfFinite DEF ListenerTypeOK, CountInv, Live
<1>1. ASSUME NEW c \in Connections, NEW i \in Ips, Accept(c, i)
      PROVE  (Held(j) = Cardinality(Of(j)) /\ Held(j) <= max_per_ip)'
  <2>1. c \notin Live /\ c \notin DOMAIN ip /\ Live' = Live \cup {c}
    BY <1>0, <1>1 DEF Accept, Live, ListenerTypeOK
  <2>2. ip'[c] = i /\ \A d \in Live : ip'[d] = ip[d]
    BY <1>0, <1>1, <2>1 DEF Accept, Put
  <2>3. CASE j = i
    <3>1. Of(j)' = Of(j) \cup {c} /\ c \notin Of(j)
      BY <2>1, <2>2, <2>3 DEF Of
    <3>2. Held(j)' = Held(j) + 1 /\ Held(j) < max_per_ip
      BY <1>0, <1>1, <2>3 DEF Accept, Put, Held, HasRoom
    <3>3. Cardinality(Of(j)') = Cardinality(Of(j)) + 1
      BY <3>1, OfFinite, FS_AddElement, Zenon
    <3> QED
      BY <1>0, <3>2, <3>3
  <2>4. CASE j # i
    <3>1. Of(j)' = Of(j)
      BY <2>1, <2>2, <2>4 DEF Of
    <3>2. Held(j)' = Held(j)
      BY <1>0, <1>1, <2>4 DEF Accept, Put, Held
    <3> QED
      BY <1>0, <3>1, <3>2
  <2> QED
    BY <2>3, <2>4
<1>2. ASSUME NEW c \in Connections, SessionEnds(c)
      PROVE  (Held(j) = Cardinality(Of(j)) /\ Held(j) <= max_per_ip)'
  <2>1. c \in Live /\ Live' = Live \ {c} /\ ip' = ip /\ ip[c] \in Ips
    BY <1>0, <1>2 DEF SessionEnds, Live, ListenerTypeOK
  <2>2. CASE j = ip[c]
    <3>1. Of(j)' = Of(j) \ {c} /\ c \in Of(j)
      BY <2>1, <2>2 DEF Of
    <3>2. Cardinality(Of(j)') = Cardinality(Of(j)) - 1
      BY <3>1, OfFinite, FS_RemoveElement, Zenon
    <3>3. Held(j) # 0
      BY <1>0, <3>1, OfFinite, FS_EmptySet
    <3>4. j \in DOMAIN counts /\ Held(j) = counts[j]
      BY <3>3 DEF Held
    <3>5. Held(j)' = Held(j) - 1
      BY <1>0, <1>2, <2>2, <3>4 DEF SessionEnds, AfterDrop, Held, Restrict
    <3> QED
      BY <1>0, <3>2, <3>5
  <2>3. CASE j # ip[c]
    <3>1. Of(j)' = Of(j)
      BY <2>1, <2>3 DEF Of
    <3>2. Held(j)' = Held(j)
      BY <1>0, <1>2, <2>3 DEF SessionEnds, AfterDrop, Held, Restrict
    <3> QED
      BY <1>0, <3>1, <3>2
  <2> QED
    BY <2>2, <2>3
<1>3. ASSUME Live' = Live, ip' = ip, counts' = counts
      PROVE  (Held(j) = Cardinality(Of(j)) /\ Held(j) <= max_per_ip)'
  <2>1. Of(j)' = Of(j) /\ Held(j)' = Held(j)
    BY <1>3 DEF Of, Held
  <2> QED
    BY <1>0, <2>1
<1>4. ASSUME NEW c \in Connections, NEW i \in Ips, Reject(c, i)
      PROVE  (Held(j) = Cardinality(Of(j)) /\ Held(j) <= max_per_ip)'
  BY <1>0, <1>3, <1>4 DEF Reject, Refuse, Live
<1>5. CASE Shutdown \/ Exited \/ UNCHANGED listenerVars
  BY <1>3, <1>5 DEF Shutdown, Exited, listenerVars, Live
<1>6. ASSUME NEW c \in Connections, JoinNext(c)
      PROVE  (Held(j) = Cardinality(Of(j)) /\ Held(j) <= max_per_ip)'
  BY <1>0, <1>3, <1>6 DEF JoinNext, JoinAndStop, Live
<1>7. CASE DrainTimeout
  <2>1. Of(j)' = {} /\ Held(j)' = 0
    BY <1>7 DEF DrainTimeout, Abandon, Live, Of, Held
  <2> QED
    BY <1>0, <2>1, FS_EmptySet
<1> QED
  BY <1>1, <1>2, <1>4, <1>5, <1>6, <1>7 DEF ListenerNext, Drain

(* Once the drain is over nothing starts any more.                           *)
LEMMA NextDrained == ListenerTypeOK /\ DrainedMeansDone /\ [ListenerNext]_listenerVars => DrainedMeansDone'
BY DEF ListenerTypeOK, DrainedMeansDone, InSet, ListenerNext, Accept, Reject, Refuse, SessionEnds, Shutdown, Drain,
       JoinNext, JoinAndStop, DrainTimeout, Abandon, Live, Exited, listenerVars

(* The invariant is inductive.                                               *)
LEMMA NextListenerInv == ListenerInv /\ [ListenerNext]_listenerVars => ListenerInv'
BY NextListenerTypeOK, NextCountInv, NextDrained DEF ListenerInv

-----------------------------------------------------------------------------
(* Round robin: every backend has had the same number of sessions, those     *)
(* before the next one in turn one more.                                     *)

ServedBy(b) == {c \in DOMAIN backend : backend[c] = b}

Turn(b) == IF b < Selected THEN 1 ELSE 0

SpreadInv ==
  \E rounds \in Nat : \A b \in 0 .. Backends - 1 : Cardinality(ServedBy(b)) = rounds + Turn(b)

(* Division with remainder has one answer.                                   *)
LEMMA Remainder ==
  ASSUME NEW n \in Nat \ {0}, NEW quotient \in Nat, NEW rest \in 0 .. n - 1
  PROVE  (n * quotient + rest) % n = rest
OBVIOUS

(* What the next number leaves over.                                         *)
LEMMA NextRemainder ==
  ASSUME NEW m \in Nat, NEW n \in Nat \ {0}
  PROVE  (m + 1) % n = IF (m % n) + 1 = n THEN 0 ELSE (m % n) + 1
<1> DEFINE q == m \div n
           r == m % n
<1>1. q \in Nat /\ r \in 0 .. n - 1 /\ m = n * q + r
  OBVIOUS
<1> HIDE DEF q, r
<1>2. CASE r + 1 = n
  <2>1. m + 1 = n * (q + 1) + 0
    BY <1>1, <1>2
  <2>2. (n * (q + 1) + 0) % n = 0
    BY <1>1, Remainder
  <2> QED
    BY <1>2, <2>1, <2>2 DEF r
<1>3. CASE r + 1 # n
  <2>1. m + 1 = n * q + (r + 1) /\ r + 1 \in 0 .. n - 1
    BY <1>1, <1>3
  <2>2. (n * q + (r + 1)) % n = r + 1
    BY <1>1, <2>1, Remainder
  <2> QED
    BY <1>3, <2>1, <2>2 DEF r
<1> QED
  BY <1>2, <1>3

(* Only accepting a connection takes a backend's turn.                       *)
LEMMA NextSpreadInv == ListenerTypeOK /\ SpreadInv /\ [ListenerNext]_listenerVars => SpreadInv'
<1> SUFFICES ASSUME ListenerTypeOK, SpreadInv, [ListenerNext]_listenerVars PROVE SpreadInv'
  OBVIOUS
<1>1. CASE UNCHANGED <<next, backend>>
  BY <1>1 DEF SpreadInv, ServedBy, Turn, Selected
<1>2. ASSUME NEW c \in Connections, NEW i \in Ips, Accept(c, i) PROVE SpreadInv'
  <2> DEFINE r == next % Backends
  <2>1. Backends \in Nat \ {0} /\ next \in Nat /\ next' = next + 1 /\ r \in 0 .. Backends - 1
    BY <1>2, ListenerAssumption DEF ListenerTypeOK, Accept
  <2>2. next' % Backends = IF r + 1 = Backends THEN 0 ELSE r + 1
    BY <2>1, NextRemainder, Zenon
  <2>3. c \notin DOMAIN backend /\ DOMAIN backend' = DOMAIN backend \cup {c}
        /\ backend'[c] = r /\ \A d \in DOMAIN backend : backend'[d] = backend[d]
    BY <1>2 DEF ListenerTypeOK, Accept, Put, Selected
  <2>4. PICK rounds \in Nat : \A b \in 0 .. Backends - 1 :
                                Cardinality(ServedBy(b)) = rounds + Turn(b)
    BY DEF SpreadInv
  <2>5. ASSUME NEW b \in 0 .. Backends - 1
        PROVE  Cardinality(ServedBy(b))' = rounds + IF b <= r THEN 1 ELSE 0
    <3>1. Cardinality(ServedBy(b)) = rounds + IF b < r THEN 1 ELSE 0
      BY <2>4 DEF Turn, Selected
    <3>2. CASE b = r
      <4>1. ServedBy(b)' = ServedBy(b) \cup {c} /\ c \notin ServedBy(b)
        BY <2>3, <3>2 DEF ServedBy
      <4>2. IsFiniteSet(ServedBy(b))
        <5>1. ServedBy(b) \subseteq Connections
          BY DEF ServedBy, ListenerTypeOK
        <5> QED
          BY <5>1, ListenerAssumption, FS_Subset
      <4>3. Cardinality(ServedBy(b)') = Cardinality(ServedBy(b)) + 1
        BY <4>1, <4>2, FS_AddElement
      <4> QED
        BY <2>1, <3>1, <3>2, <4>3
    <3>3. CASE b # r
      <4>1. ServedBy(b)' = ServedBy(b)
        BY <2>3, <3>3 DEF ServedBy
      <4> QED
        BY <2>1, <3>1, <3>3, <4>1
    <3> QED
      BY <3>2, <3>3
  <2> HIDE DEF r
  <2>6. CASE r + 1 = Backends
    <3>1. \A b \in 0 .. Backends - 1 : Cardinality(ServedBy(b))' = rounds + 1 + Turn(b)'
      <4> TAKE b \in 0 .. Backends - 1
      <4>1. Turn(b)' = 0 /\ b <= r
        BY <2>1, <2>2, <2>6 DEF Turn, Selected
      <4> QED
        BY <2>5, <4>1
    <3>2. rounds + 1 \in Nat
      OBVIOUS
    <3> QED
      BY <3>1, <3>2 DEF SpreadInv
  <2>7. CASE r + 1 # Backends
    <3>1. \A b \in 0 .. Backends - 1 : Cardinality(ServedBy(b))' = rounds + Turn(b)'
      <4> TAKE b \in 0 .. Backends - 1
      <4>1. Turn(b)' = IF b < r + 1 THEN 1 ELSE 0
        BY <2>2, <2>7, ListenerAssumption DEF Turn, Selected
      <4>2. b < r + 1 <=> b <= r
        BY <2>1
      <4> QED
        BY <2>5, <4>1, <4>2
    <3> QED
      BY <3>1 DEF SpreadInv
  <2> QED
    BY <2>6, <2>7
<1> QED
  BY <1>1, <1>2 DEF ListenerNext, Reject, Refuse, SessionEnds, Shutdown, Drain, JoinNext, JoinAndStop,
                    DrainTimeout, Abandon, Exited, listenerVars

(* The limiter's bookkeeping is exact, no address exceeds the limit, and the *)
(* listener says it is drained only when no session is left.                 *)
THEOREM ListenerSafe == ListenerSpec => [](ListenerTypeOK /\ LimitAccounted /\ DrainedMeansDone)
<1>1. ListenerInv => ListenerTypeOK /\ LimitAccounted /\ DrainedMeansDone
  <2> SUFFICES ASSUME ListenerTypeOK, CountInv, max_per_ip # 0
               PROVE  /\ DOMAIN counts = {i \in Ips : Of(i) # {}}
                      /\ \A i \in DOMAIN counts :
                           counts[i] = Cardinality(Of(i)) /\ counts[i] <= max_per_ip
    BY DEF ListenerInv, LimitAccounted
  <2>1. ASSUME NEW i \in Ips PROVE i \in DOMAIN counts <=> Of(i) # {}
    BY <2>1, OfFinite, FS_EmptySet DEF ListenerTypeOK, CountInv, Held
  <2> QED
    BY <2>1, Zenon DEF ListenerTypeOK, CountInv, Held
<1> QED
  BY <1>1, InitListenerInv, NextListenerInv, PTL DEF ListenerSpec

(* Round robin spreads the sessions evenly over any number of backends, the  *)
(* refused connections taking no turn (selector.rs, next).                   *)
THEOREM ListenerSpreads == ListenerSpec => []SpreadEvenly
<1>1. ListenerInit => SpreadInv
  <2> SUFFICES ASSUME ListenerInit PROVE SpreadInv
    OBVIOUS
  <2>1. Selected = 0
    <3>1. (Backends * 0 + 0) % Backends = 0
      BY ListenerAssumption, Remainder
    <3> QED
      BY <3>1, ListenerAssumption DEF ListenerInit, Selected
  <2>2. \A b \in 0 .. Backends - 1 : Cardinality(ServedBy(b)) = 0 /\ Turn(b) = 0
    <3> TAKE b \in 0 .. Backends - 1
    <3>1. ServedBy(b) = {}
      BY DEF ListenerInit, ServedBy
    <3> QED
      BY <2>1, <3>1, FS_EmptySet DEF Turn
  <2> QED
    BY <2>2 DEF SpreadInv
<1>2. SpreadInv => SpreadEvenly
  <2> SUFFICES ASSUME SpreadInv, NEW a \in 0 .. Backends - 1, NEW b \in 0 .. Backends - 1
               PROVE  Cardinality(ServedBy(a)) <= Cardinality(ServedBy(b)) + 1
    BY DEF SpreadEvenly, ServedBy
  <2>1. PICK rounds \in Nat : /\ Cardinality(ServedBy(a)) = rounds + Turn(a)
                              /\ Cardinality(ServedBy(b)) = rounds + Turn(b)
    BY DEF SpreadInv
  <2>2. Turn(a) \in 0 .. 1 /\ Turn(b) \in 0 .. 1
    BY DEF Turn
  <2> QED
    BY <2>1, <2>2
<1>3. ListenerInv => ListenerTypeOK
  BY DEF ListenerInv
<1> QED
  BY <1>1, <1>2, <1>3, InitListenerInv, NextListenerInv, NextSpreadInv, PTL DEF ListenerSpec

-----------------------------------------------------------------------------
(* How far a loop is, by the place it is at.                                 *)
LoopInv ==
  \A d \in Direction :
    /\ taken[d] = put[d] + (IF at[d] = "write" THEN 1 ELSE 0)
    /\ at[d] = "done" => eof[d] /\ taken[d] = sent[d]
    /\ at[d] = "select" => quiet[d] = idle[d]

(* The inductive invariant of the relay.                                     *)
RelayInv == RelayTypeOK /\ LoopInv /\ WholeStreams /\ GivesUpOnSilence

(* relay_bidirectional starts in it.                                         *)
LEMMA InitRelayInv == RelayInit => RelayInv
BY RelayAssumption
   DEF RelayInit, RelayInv, RelayTypeOK, LoopInv, WholeStreams, GivesUpOnSilence, Direction

(* Every step of the loops, of the peers and of time keeps it.               *)
LEMMA NextRelayInv == RelayInv /\ [RelayNext]_relayVars => RelayInv'
<1> SUFFICES ASSUME RelayInv, [RelayNext]_relayVars PROVE RelayInv'
  OBVIOUS
<1> USE RelayAssumption DEF RelayInv, RelayTypeOK, LoopInv, WholeStreams, GivesUpOnSilence, Direction
<1>1. ASSUME NEW d \in Direction, SourceSends(d) PROVE RelayInv'
  BY <1>1 DEF SourceSends
<1>2. ASSUME NEW d \in Direction, SourceCloses(d) PROVE RelayInv'
  BY <1>2 DEF SourceCloses
<1>3. ASSUME NEW d \in Direction, SinkReceives(d) PROVE RelayInv'
  BY <1>3 DEF SinkReceives
<1>4. ASSUME NEW d \in Direction, Read(d) PROVE RelayInv'
  BY <1>4 DEF Read, ReadNext, Running, peers
<1>5. ASSUME NEW d \in Direction, Write(d) PROVE RelayInv'
  BY <1>5 DEF Write, WriteTo, Running, peers
<1>6. ASSUME NEW d \in Direction, ReadEof(d) PROVE RelayInv'
  BY <1>6 DEF ReadEof, Finish, Running, peers
<1>7. ASSUME NEW d \in Direction, TimerFires(d) PROVE RelayInv'
  BY <1>7 DEF TimerFires, Expire, Running, peers
<1>8. ASSUME NEW d \in Direction, IoError(d) PROVE RelayInv'
  BY <1>8 DEF IoError, peers
<1>9. CASE Tick
  BY <1>9 DEF Tick, Bump, peers
<1>10. CASE UNCHANGED relayVars
  BY <1>10 DEF relayVars, peers
<1> QED
  BY <1>1, <1>2, <1>3, <1>4, <1>5, <1>6, <1>7, <1>8, <1>9, <1>10, Zenon DEF RelayNext, Loop

(* The relay never shows a peer an end of file before the other one's last   *)
(* byte, returns Ok only when both streams were relayed whole, and gives up  *)
(* only after a direction was silent for the whole idle timeout.             *)
THEOREM RelaySafe == RelaySpec => [](RelayTypeOK /\ WholeStreams /\ GivesUpOnSilence)
<1>1. RelayInv => RelayTypeOK /\ WholeStreams /\ GivesUpOnSilence
  BY DEF RelayInv
<1> QED
  BY <1>1, InitRelayInv, NextRelayInv, PTL DEF RelaySpec

-----------------------------------------------------------------------------
(* What the stages of an upload have to do with the relay: the stage moves   *)
(* on when the relay has returned, the bytes are counted then, and a 2yz     *)
(* report is on the whole file unless the relay failed.                      *)
StageInv ==
  /\ stage = "relaying" => outcome = "none"
  /\ stage # "relaying" =>
       result # "running" /\ counted = IF result = "ok" THEN put["up"] ELSE 0
  /\ outcome = "completed" => stage = "over" /\ report = "2"
  /\ report = "2" => \/ at["up"] = "done" /\ stored = sent["up"]
                     \/ result \in {"timedOut", "error"}

UploadInv == RelayInv /\ UploadTypeOK /\ StageInv

(* An upload starts in it.                                                   *)
LEMMA InitUploadInv == UploadInit => UploadInv
BY InitRelayInv, RelayAssumption DEF UploadInit, UploadInv, UploadTypeOK, RelayInv, StageInv

(* Every step of an upload keeps it; the steps of the relay come first.      *)
LEMMA NextUploadInv == UploadInv /\ [UploadNext]_allVars => UploadInv'
<1> SUFFICES ASSUME UploadInv, [UploadNext]_allVars PROVE UploadInv'
  OBVIOUS
<1>1. [RelayNext]_relayVars
  BY DEF UploadNext, allVars, RelayReturns, AwaitCompletion, Completion, CompletionLost, Over,
         BackendReports
<1>2. RelayInv'
  BY <1>1, NextRelayInv DEF UploadInv
<1> USE RelayAssumption DEF UploadInv, RelayInv, UploadTypeOK, RelayTypeOK, LoopInv, WholeStreams,
        StageInv, Direction
<1>3. ASSUME NEW c \in {"2", "5"}, BackendReports(c) PROVE UploadInv'
  BY <1>2, <1>3 DEF BackendReports, BackendSeesEnd, relayVars, peers
<1>4. CASE RelayReturns
  BY <1>2, <1>4, SMTT(20) DEF RelayReturns, relayVars, peers
<1>5. CASE AwaitCompletion
  BY <1>2, <1>5, Zenon DEF AwaitCompletion, Completion, CompletionLost, Over, relayVars, peers
<1>6. CASE RelayNext /\ UNCHANGED upload
  <2>1. stage' = stage /\ report' = report /\ stored' = stored /\ counted' = counted
        /\ outcome' = outcome
    BY <1>6 DEF upload
  <2>2. result # "running" => result' = result /\ put' = put
    BY <1>6, Zenon DEF RelayNext, Loop, SourceSends, SourceCloses, SinkReceives, Read, ReadNext, Write, WriteTo,
         ReadEof, Finish, TimerFires, Expire, IoError, Tick, Running
  <2>3. at["up"] = "done" => at'["up"] = "done" /\ sent'["up"] = sent["up"]
    BY <1>6, Zenon DEF RelayNext, Loop, SourceSends, SourceCloses, SinkReceives, Read, ReadNext, Write, WriteTo,
         ReadEof, Finish, TimerFires, Expire, IoError, Tick, Running, peers
  <2> QED
    BY <1>2, <2>1, <2>2, <2>3
<1>7. CASE UNCHANGED allVars
  BY <1>2, <1>7, Zenon DEF allVars, upload, relayVars, peers
<1> QED
  BY <1>3, <1>4, <1>5, <1>6, <1>7, Zenon DEF UploadNext

(* The relay keeps its promises inside an upload, and an upload that counts  *)
(* as completed after a relay that succeeded is the file the client sent,    *)
(* stored and counted to the last byte.                                      *)
THEOREM UploadSafe ==
  UploadSpec => [](UploadTypeOK /\ WholeStreams /\ GivesUpOnSilence /\ ConfirmedIsWhole)
<1>1. UploadInv => UploadTypeOK /\ WholeStreams /\ GivesUpOnSilence /\ ConfirmedIsWhole
  BY DEF UploadInv, RelayInv, LoopInv, StageInv, ConfirmedIsWhole, WholeStreams, UploadTypeOK,
         RelayTypeOK, Direction
<1> QED
  BY <1>1, InitUploadInv, NextUploadInv, PTL DEF UploadSpec

-----------------------------------------------------------------------------

(* The inductive invariant of the pool: what in_use, the guards and the      *)
(* sockets have to do with each other between any two steps.                 *)
PoolInv == TypeOK /\ ReservedOnce /\ ReservedExactly /\ GuardOwnsSocket

(* The candidate and the wrapped cursor are in range: the two uses of %.     *)
LEMMA ModRange ==
  ASSUME NEW a \in Nat, NEW n \in Nat, n > 0
  PROVE  a % n \in 0 .. n - 1
OBVIOUS

(* The empty pool of PortManager::new satisfies the invariant.               *)
LEMMA InitPoolInv == Init => PoolInv
<1> SUFFICES ASSUME Init PROVE PoolInv
  OBVIOUS
<1>1. TypeOK
  BY PoolAssumption DEF Init, TypeOK, Location, Probing, Ports, NoPort
<1>2. ReservedOnce /\ ReservedExactly /\ GuardOwnsSocket
  BY PoolAssumption DEF Init, ReservedOnce, ReservedExactly, GuardOwnsSocket, Reserving
<1> QED
  BY <1>1, <1>2 DEF PoolInv

(* Every step of allocate() and of a guard's drop keeps the invariant.        *)
LEMMA NextPoolInv == PoolInv /\ [Next]_vars => PoolInv'
<1> SUFFICES ASSUME PoolInv, [Next]_vars PROVE PoolInv'
  OBVIOUS
<1> USE PoolAssumption DEF PoolInv, TypeOK, Ports, NoPort, Location, Probing
<1> USE DEF Move, Reserving, ReservedOnce, ReservedExactly, GuardOwnsSocket
<1>1. ASSUME NEW s \in Sessions, Allocate(s) PROVE PoolInv'
  BY <1>1 DEF Allocate
<1>2. ASSUME NEW s \in Sessions, NextCandidate(s) PROVE PoolInv'
  <2>1. next_offset % RangeSize \in Ports
    BY ModRange
  <2>2. (next_offset + 1) % OffsetModulus \in 0 .. OffsetModulus - 1
    BY ModRange
  <2>3. tries' \in [Sessions -> 0 .. RangeSize]
    BY <1>2 DEF NextCandidate, Probe
  <2> QED
    BY <1>2, <2>1, <2>2, <2>3, SMTT(20) DEF NextCandidate, Probe
<1>3. ASSUME NEW s \in Sessions, GiveUp(s) PROVE PoolInv'
  BY <1>3 DEF GiveUp, GiveUpAfter
<1>4. ASSUME NEW s \in Sessions, Insert(s) PROVE PoolInv'
  <2>1. CASE Reserve(s) /\ port[s] \notin in_use
    <3>1. TypeOK'
      BY <2>1 DEF Reserve
    <3>2. ReservedOnce'
      BY <2>1 DEF Reserve
    <3>3. ReservedExactly'
      <4>1. \A p : p \in in_use' <=> p \in in_use \/ p = port[s]
        BY <2>1 DEF Reserve
      <4>2. \A t \in Sessions : Reserving(t)' <=> Reserving(t) \/ t = s
        BY <2>1 DEF Reserve
      <4> QED
        BY <4>1, <4>2, <2>1 DEF Reserve
    <3>4. GuardOwnsSocket'
      BY <2>1 DEF Reserve
    <3> QED
      BY <3>1, <3>2, <3>3, <3>4
  <2>2. CASE ~Reserve(s)
    <3>1. /\ pc[s] = "insert" /\ pc' = [pc EXCEPT ![s] = "next"]
          /\ port' = [port EXCEPT ![s] = NoPort]
          /\ UNCHANGED <<in_use, next_offset, socket, tries>>
      BY <1>4, <2>2 DEF Insert
    <3>2. \A t \in Sessions : Reserving(t)' <=> Reserving(t)
      BY <3>1
    <3>3. \A t \in Sessions : Reserving(t) => port'[t] = port[t]
      BY <3>1
    <3>4. TypeOK' /\ GuardOwnsSocket'
      BY <3>1
    <3>5. ReservedOnce' /\ ReservedExactly'
      BY <3>1, <3>2, <3>3
    <3> QED
      BY <3>4, <3>5
  <2> QED
    BY <1>4, <2>1, <2>2, SMTT(20) DEF Insert, Reserve
<1>5. ASSUME NEW s \in Sessions, BindOk(s) PROVE PoolInv'
  BY <1>5 DEF BindOk, Bind
<1>6. ASSUME NEW s \in Sessions, BindErr(s) PROVE PoolInv'
  BY <1>6 DEF BindErr
<1>7. ASSUME NEW s \in Sessions, Unreserve(s) PROVE PoolInv'
  BY <1>7 DEF Unreserve, TryNext
<1>8. ASSUME NEW s \in Sessions, Release(s) PROVE PoolInv'
  BY <1>8 DEF Release
<1>9. ASSUME NEW s \in Sessions, Close(s) PROVE PoolInv'
  BY <1>9 DEF Close, CloseListener
<1>10. ASSUME NEW p \in ForeignPorts, ForeignBind(p) \/ ForeignClose(p) PROVE PoolInv'
  BY <1>10 DEF ForeignBind, ForeignClose
<1>11. CASE UNCHANGED vars
  BY <1>11 DEF vars
<1> QED
  BY <1>1, <1>2, <1>3, <1>4, <1>5, <1>6, <1>7, <1>8, <1>9, <1>10, <1>11, Zenon DEF Next, Run

(* Every behaviour of the pool keeps the four invariants that the runs check *)
(* on two sessions and three ports: types, one reservation per port, in_use  *)
(* exact, and every guard's socket its session's own.                        *)
THEOREM PoolSafe == Spec => [](TypeOK /\ ReservedOnce /\ ReservedExactly /\ GuardOwnsSocket)
<1>1. PoolInv => TypeOK /\ ReservedOnce /\ ReservedExactly /\ GuardOwnsSocket
  BY DEF PoolInv
<1> QED
  BY InitPoolInv, NextPoolInv, <1>1, PTL DEF Spec

-----------------------------------------------------------------------------
(* The refinement: what each step of the pool is for a session's lease.      *)
LEMMA InitLease == Init => Lease!Init
BY DEF Init, Lease!Init, NoPort, Lease!NoPort

LeaseOf == [s \in Sessions |-> IF pc[s] = "held" THEN port[s] ELSE NoPort]

(* A step of allocate() or of a drop is a step of the lease, or none.         *)
LEMMA StepLease ==
  PoolInv /\ [Next]_vars => [Lease!Next]_<<LeaseOf, socket>>
<1> SUFFICES ASSUME PoolInv, [Next]_vars PROVE [Lease!Next]_<<LeaseOf, socket>>
  OBVIOUS
<1> USE PoolAssumption DEF PoolInv, TypeOK, Ports, NoPort, Location, Probing, Move, LeaseOf
<1>1. ASSUME NEW s \in Sessions, BindOk(s) PROVE \E p \in Ports : Lease!Grant(s, p)
  <2>1. PICK p \in Ports : p = port[s]
    BY <1>1 DEF BindOk, Bind
  <2> QED
    BY <1>1, <2>1, Zenon DEF BindOk, Bind, Lease!Grant, Lease!NoPort
<1>2. ASSUME NEW s \in Sessions, Release(s) PROVE Lease!Return(s)
  BY <1>2, Zenon DEF Release, Lease!Return, Lease!NoPort
<1>3. ASSUME NEW s \in Sessions, Close(s) PROVE \E p \in Ports : Lease!Close(p)
  <2>0. pc[s] = "close" /\ port[s] \in Ports /\ LeaseOf[s] = NoPort
    BY <1>3 DEF Close, CloseListener
  <2>1. PICK p \in Ports : p = port[s] /\ socket[p] = s /\ LeaseOf[s] = NoPort
    <3> HIDE DEF Ports, TypeOK, LeaseOf
    <3> QED
      BY <2>0 DEF GuardOwnsSocket
  <2>2. LeaseOf' = LeaseOf
    BY <1>3 DEF Close, CloseListener
  <2> QED
    BY <1>3, <2>1, <2>2, Zenon DEF Close, CloseListener, Lease!Close
<1>4. ASSUME NEW p \in ForeignPorts, ForeignBind(p) PROVE Lease!ForeignBind(p)
  BY <1>4 DEF ForeignBind, Lease!ForeignBind
<1>5. ASSUME NEW p \in ForeignPorts, ForeignClose(p) PROVE Lease!Close(p)
  BY <1>5 DEF ForeignClose, Lease!Close
<1>6. ASSUME NEW s \in Sessions,
             Allocate(s) \/ NextCandidate(s) \/ GiveUp(s) \/ Insert(s) \/ BindErr(s) \/ Unreserve(s)
      PROVE  UNCHANGED <<LeaseOf, socket>>
  BY <1>6 DEF Allocate, NextCandidate, Probe, GiveUp, GiveUpAfter, Insert, Reserve,
              BindErr, Unreserve, TryNext
<1>7. CASE UNCHANGED vars
  BY <1>7 DEF vars
<1> HIDE DEF PoolInv, TypeOK, LeaseOf, Move
<1>8. CASE \E s \in Sessions : BindOk(s) \/ Release(s) \/ Close(s)
  <2>1. ASSUME NEW s \in Sessions, BindOk(s) PROVE Lease!Next
    BY <1>1, <2>1 DEF Lease!Next
  <2>2. ASSUME NEW s \in Sessions, Release(s) PROVE Lease!Next
    BY <1>2, <2>2 DEF Lease!Next
  <2>3. ASSUME NEW s \in Sessions, Close(s) PROVE Lease!Next
    BY <1>3, <2>3 DEF Lease!Next
  <2> QED
    BY <1>8, <2>1, <2>2, <2>3
<1>9. CASE \E p \in ForeignPorts : ForeignBind(p) \/ ForeignClose(p)
  BY <1>4, <1>5, <1>9 DEF Lease!Next
<1> QED
  BY <1>6, <1>7, <1>8, <1>9 DEF Next, Run

(* The pool implements PortLease: whatever the interleaving of the searches, *)
(* a session is only ever granted a port whose socket is free, and the       *)
(* socket of a leased port is closed by nobody.                              *)
THEOREM PoolImplementsLease == Spec => ImplementsLease
<1> QED
  BY InitPoolInv, NextPoolInv, InitLease, StepLease, PTL
  DEF Spec, ImplementsLease, Lease!Spec, LeaseOf

-----------------------------------------------------------------------------
(* The search: the candidates of a call are consecutive values of the cursor *)
(* as long as nobody else moves it.                                          *)
Swept(s) == {n % RangeSize : n \in (next_offset - tries[s]) .. (next_offset - 1)}

(* What an undisturbed call has probed is the window of the cursor's last    *)
(* tries[s] values; a session that is not searching has counted none.        *)
SearchInv ==
  \A s \in Sessions :
    /\ probed[s] \subseteq Ports
    /\ pc[s] \notin Probing => tries[s] = 0 /\ probed[s] = {}
    /\ pc[s] \in Probing /\ undisturbed[s] =>
         tries[s] <= next_offset /\ probed[s] = Swept(s)

(* As many consecutive numbers as the range has ports meet every remainder.  *)
LEMMA WindowCovers ==
  ASSUME NEW a \in Nat, NEW m \in Ports
  PROVE  \E n \in a .. (a + RangeSize - 1) : n % RangeSize = m
<1> USE PoolAssumption DEF Ports
<1> DEFINE q == a % RangeSize
<1> DEFINE k == a \div RangeSize
<1>1. q \in 0 .. RangeSize - 1 /\ k \in Nat /\ a = RangeSize * k + q
  OBVIOUS
<1> HIDE DEF q, k
<1>2. CASE m >= q
  <2>1. a + (m - q) = RangeSize * k + m
    BY <1>1, <1>2
  <2>2. (RangeSize * k + m) % RangeSize = m
    BY <1>1
  <2>3. a + (m - q) \in a .. (a + RangeSize - 1)
    BY <1>1, <1>2
  <2> QED
    BY <2>1, <2>2, <2>3
<1>3. CASE m < q
  <2>1. a + (m - q + RangeSize) = RangeSize * (k + 1) + m
    BY <1>1, <1>3
  <2>2. (RangeSize * (k + 1) + m) % RangeSize = m
    BY <1>1
  <2>3. a + (m - q + RangeSize) \in a .. (a + RangeSize - 1)
    BY <1>1, <1>3
  <2> QED
    BY <2>1, <2>2, <2>3
<1> QED
  BY <1>1, <1>2, <1>3

(* A fetch that does not wrap adds the candidate to the window.              *)
LEMMA WindowGrows ==
  ASSUME NEW c \in Nat, NEW n \in Nat, n <= c
  PROVE  {i % RangeSize : i \in (c + 1 - (n + 1)) .. (c + 1 - 1)} =
           {i % RangeSize : i \in (c - n) .. (c - 1)} \cup {c % RangeSize}
<1>1. c + 1 - (n + 1) = c - n /\ c + 1 - 1 = c
  OBVIOUS
<1>2. \A i : i \in (c - n) .. c <=> i \in (c - n) .. (c - 1) \/ i = c
  OBVIOUS
<1>3. {i % RangeSize : i \in (c - n) .. c} =
        {i % RangeSize : i \in (c - n) .. (c - 1)} \cup {c % RangeSize}
  BY <1>2, Zenon
<1> QED
  BY <1>1, <1>3

(* A search that is about to give up has a window as long as the range.      *)
LEMMA SearchDone == PoolInv /\ SearchInv => UndisturbedSearchIsComplete
<1> SUFFICES ASSUME PoolInv, SearchInv, NEW s \in Sessions,
                    AboutToGiveUp(s), undisturbed[s]
             PROVE  probed[s] = Ports
  BY DEF UndisturbedSearchIsComplete
<1>1. /\ pc[s] = "next" /\ pc[s] \in Probing /\ tries[s] = RangeSize
      /\ probed[s] \subseteq Ports /\ next_offset \in Nat
      /\ tries[s] <= next_offset /\ probed[s] = Swept(s)
  BY PoolAssumption DEF AboutToGiveUp, SearchInv, Probing, PoolInv, TypeOK
<1>2. next_offset - RangeSize \in Nat
  BY <1>1, PoolAssumption
<1>3. (next_offset - RangeSize) + RangeSize - 1 = next_offset - 1
  BY <1>1, PoolAssumption
<1>4. ASSUME NEW m \in Ports PROVE m \in probed[s]
  BY <1>1, <1>2, <1>3, WindowCovers DEF Swept
<1> QED
  BY <1>1, <1>4, Zenon

(* No session is searching at first.                                         *)
LEMMA InitSearchInv == HInit => SearchInv
BY PoolAssumption DEF HInit, Init, SearchInv, Probing

(* What a step does to the cursor: a fetch adds one, or wraps.               *)
LEMMA CursorMoves ==
  ASSUME PoolInv, NEW s \in Sessions, NextCandidate(s)
  PROVE  /\ Fetches(s) /\ \A t \in Sessions \ {s} : ~Fetches(t)
         /\ tries' = [tries EXCEPT ![s] = tries[s] + 1]
         /\ pc' = [pc EXCEPT ![s] = "insert"] /\ pc[s] = "next"
         /\ port'[s] = next_offset % RangeSize /\ port'[s] \in Ports
         /\ next_offset' >= next_offset => next_offset' = next_offset + 1
<1>1. /\ pc \in [Sessions -> Location] /\ port \in [Sessions -> Ports \cup {NoPort}]
      /\ next_offset \in 0 .. OffsetModulus - 1
  BY DEF PoolInv, TypeOK
<1>2. /\ pc[s] = "next" /\ pc' = [pc EXCEPT ![s] = "insert"]
      /\ tries' = [tries EXCEPT ![s] = tries[s] + 1]
      /\ port' = [port EXCEPT ![s] = next_offset % RangeSize]
      /\ next_offset' = (next_offset + 1) % OffsetModulus
  BY DEF NextCandidate, Probe, Move
<1>3. Fetches(s) /\ \A t \in Sessions \ {s} : ~Fetches(t)
  BY <1>1, <1>2 DEF Fetches
<1>4. port'[s] = next_offset % RangeSize /\ port'[s] \in Ports
  BY <1>1, <1>2, PoolAssumption DEF Ports
<1>5. next_offset' >= next_offset => next_offset' = next_offset + 1
  <2>1. CASE next_offset + 1 < OffsetModulus
    BY <1>1, <1>2, <2>1, PoolAssumption
  <2>2. CASE next_offset + 1 = OffsetModulus
    <3>1. next_offset' = 0 /\ next_offset >= 1
      BY <1>1, <1>2, <2>2, PoolAssumption
    <3> QED
      BY <3>1, <1>1
  <2> QED
    BY <1>1, <2>1, <2>2, PoolAssumption
<1> QED
  BY <1>2, <1>3, <1>4, <1>5

(* A step that is not a fetch moves neither the cursor nor the count of a    *)
(* search that goes on, and a search starts and ends with a count of 0.      *)
LEMMA OtherMoves ==
  ASSUME PoolInv, SearchInv, Next, ~ \E s \in Sessions : NextCandidate(s)
  PROVE  /\ next_offset' = next_offset
         /\ \A s \in Sessions :
              /\ ~Fetches(s)
              /\ pc'[s] \in Probing /\ pc[s] \in Probing => tries'[s] = tries[s]
              /\ pc'[s] \in Probing /\ pc[s] \notin Probing => tries'[s] = 0
              /\ pc'[s] \notin Probing => tries'[s] = 0
<1> USE DEF PoolInv, TypeOK, SearchInv, Probing, Location, Move, Fetches
<1>1. ASSUME NEW t \in Sessions,
             Allocate(t) \/ GiveUp(t) \/ Release(t) \/ Close(t) \/ BindErr(t)
      PROVE  /\ next_offset' = next_offset
             /\ \A s \in Sessions :
                  /\ ~Fetches(s)
                  /\ pc'[s] \in Probing /\ pc[s] \in Probing => tries'[s] = tries[s]
                  /\ pc'[s] \in Probing /\ pc[s] \notin Probing => tries'[s] = 0
                  /\ pc'[s] \notin Probing => tries'[s] = 0
  BY <1>1 DEF Allocate, GiveUp, GiveUpAfter, Release, Close, CloseListener, BindErr
<1>2. ASSUME NEW t \in Sessions, Insert(t) \/ BindOk(t) \/ Unreserve(t)
      PROVE  /\ next_offset' = next_offset
             /\ \A s \in Sessions :
                  /\ ~Fetches(s)
                  /\ pc'[s] \in Probing /\ pc[s] \in Probing => tries'[s] = tries[s]
                  /\ pc'[s] \in Probing /\ pc[s] \notin Probing => tries'[s] = 0
                  /\ pc'[s] \notin Probing => tries'[s] = 0
  BY <1>2 DEF Insert, Reserve, BindOk, Bind, Unreserve, TryNext
<1>3. ASSUME NEW p \in ForeignPorts, ForeignBind(p) \/ ForeignClose(p)
      PROVE  UNCHANGED <<next_offset, pc, tries>>
  BY <1>3 DEF ForeignBind, ForeignClose
<1> QED
  BY <1>1, <1>2, <1>3, Zenon DEF Next, Run

(* The invariant of the searches is inductive.                               *)
LEMMA NextSearchInv ==
  PoolInv /\ SearchInv /\ [HNext]_<<vars, hvars>> => SearchInv'
<1> SUFFICES ASSUME PoolInv, SearchInv, HNext PROVE SearchInv'
  <2>1. CASE UNCHANGED <<vars, hvars>>
    BY <2>1, Zenon DEF vars, hvars, SearchInv, Swept
  <2> QED
    BY <2>1
<1>0. \A s \in Sessions :
        /\ pc'[s] \notin Probing => probed'[s] = {}
        /\ pc'[s] \in Probing /\ Fetches(s) => probed'[s] = probed[s] \cup {port'[s]}
        /\ pc'[s] \in Probing /\ ~Fetches(s) => probed'[s] = probed[s]
  BY DEF HNext
<1>1. ASSUME NEW s \in Sessions, undisturbed'[s], pc'[s] \in Probing, pc[s] \in Probing
      PROVE  /\ undisturbed[s] /\ next_offset' >= next_offset
             /\ \A t \in Sessions \ {s} : ~Fetches(t)
  BY <1>1, Zenon DEF HNext
<1>2. /\ next_offset \in Nat /\ tries \in [Sessions -> 0 .. RangeSize]
      /\ pc \in [Sessions -> Location]
  BY PoolAssumption DEF PoolInv, TypeOK
<1>3. CASE ~ \E s \in Sessions : NextCandidate(s)
  <2>1. /\ next_offset' = next_offset
        /\ \A s \in Sessions :
             /\ ~Fetches(s)
             /\ pc'[s] \in Probing /\ pc[s] \in Probing => tries'[s] = tries[s]
             /\ pc'[s] \in Probing /\ pc[s] \notin Probing => tries'[s] = 0
             /\ pc'[s] \notin Probing => tries'[s] = 0
    BY <1>3, OtherMoves DEF HNext
  <2>2. \A t \in Sessions : probed'[t] \subseteq Ports
    BY <1>0, <2>1 DEF SearchInv
  <2>3. ASSUME NEW s \in Sessions, pc'[s] \in Probing, undisturbed'[s]
        PROVE  tries'[s] <= next_offset' /\ probed'[s] = Swept(s)'
    <3>1. CASE pc[s] \in Probing
      <4>1. tries[s] <= next_offset /\ probed[s] = Swept(s)
        BY <1>1, <2>3, <3>1 DEF SearchInv
      <4> QED
        BY <1>0, <2>1, <2>3, <3>1, <4>1 DEF Swept
    <3>2. CASE pc[s] \notin Probing
      <4>1. tries'[s] = 0 /\ next_offset' \in Nat /\ probed'[s] = {}
        BY <1>0, <1>2, <2>1, <2>3, <3>2, Zenon DEF SearchInv
      <4>2. (next_offset' - tries'[s]) .. (next_offset' - 1) = {}
        <5>1. \A n \in Nat : (n - 0) .. (n - 1) = {}
          OBVIOUS
        <5> QED
          BY ONLY <4>1, <5>1, Zenon
      <4>3. Swept(s)' = {}
        BY <4>2, Zenon DEF Swept
      <4>4. tries'[s] <= next_offset'
        BY ONLY <4>1
      <4> QED
        BY <4>1, <4>3, <4>4, Zenon
    <3> QED
      BY <3>1, <3>2
  <2> QED
    BY <1>0, <2>1, <2>2, <2>3 DEF SearchInv
<1>4. ASSUME NEW s \in Sessions, NextCandidate(s) PROVE SearchInv'
  <2>1. /\ Fetches(s) /\ \A t \in Sessions \ {s} : ~Fetches(t)
        /\ tries' = [tries EXCEPT ![s] = tries[s] + 1]
        /\ pc' = [pc EXCEPT ![s] = "insert"] /\ pc[s] = "next"
        /\ port'[s] = next_offset % RangeSize /\ port'[s] \in Ports
        /\ next_offset' >= next_offset => next_offset' = next_offset + 1
    BY <1>4, CursorMoves
  <2>2. /\ pc[s] \in Probing /\ pc'[s] \in Probing /\ tries'[s] = tries[s] + 1
        /\ \A t \in Sessions \ {s} : pc'[t] = pc[t] /\ tries'[t] = tries[t]
    BY <1>2, <2>1 DEF Probing
  <2>3. \A t \in Sessions : probed'[t] \subseteq Ports
    BY <1>0, <2>1 DEF SearchInv
  <2>4. ASSUME NEW t \in Sessions, pc'[t] \notin Probing
        PROVE  tries'[t] = 0 /\ probed'[t] = {}
    BY <1>0, <2>2, <2>4 DEF SearchInv
  <2>5. ASSUME NEW t \in Sessions \ {s}, pc'[t] \in Probing PROVE ~undisturbed'[t]
    BY <1>1, <2>1, <2>2, <2>5
  <2>6. ASSUME undisturbed'[s]
        PROVE  tries'[s] <= next_offset' /\ probed'[s] = Swept(s)'
    <3>1. /\ undisturbed[s] /\ next_offset' = next_offset + 1
      BY <1>1, <2>1, <2>2, <2>6
    <3>2. tries[s] <= next_offset /\ probed[s] = Swept(s)
      BY <2>2, <3>1 DEF SearchInv
    <3>3. probed'[s] = Swept(s) \cup {next_offset % RangeSize}
      BY <1>0, <2>1, <2>2, <3>2
    <3>4. tries[s] \in Nat
      BY <1>2
    <3>5. Swept(s)' = Swept(s) \cup {next_offset % RangeSize}
      BY <1>2, <2>2, <3>1, <3>2, <3>4, WindowGrows, SMTT(20) DEF Swept
    <3>6. next_offset \in Nat
      BY <1>2
    <3>7. tries'[s] <= next_offset'
      BY ONLY <2>2, <3>1, <3>2, <3>4, <3>6
    <3> QED
      BY <3>3, <3>5, <3>7, Zenon
  <2> QED
    BY <1>0, <2>2, <2>3, <2>4, <2>5, <2>6 DEF SearchInv
<1> QED
  BY <1>3, <1>4

(* A call to allocate() that nobody disturbs has probed every port of the    *)
(* range when it returns None: the rotating start skips none, whatever the   *)
(* range, the cursor and the other sessions' guards.                         *)
THEOREM SearchComplete == HSpec => []UndisturbedSearchIsComplete
<1>1. HInit => PoolInv /\ SearchInv
  BY InitPoolInv, InitSearchInv DEF HInit
<1>2. [HNext]_<<vars, hvars>> => [Next]_vars
  BY DEF HNext
<1> QED
  BY <1>1, <1>2, NextPoolInv, NextSearchInv, SearchDone, PTL DEF HSpec
=============================================================================
