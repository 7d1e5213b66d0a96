--------------------------- MODULE ConnectProofs ---------------------------
(***************************************************************************)
(* The delay with which a change of a backend's addresses is seen, and the  *)
(* order in which they are tried, for any number of sessions, any answers,  *)
(* any time to live and any timeout.                                        *)
(***************************************************************************)
EXTENDS Connect, FiniteSetTheorems, SequenceTheorems, TLAPS

Active(s) == pc[s] \in {"lookup", "connecting"}

(* Was answer k still the name's at time t?                                  *)
CurrentAfter(k, t) == k = zone \/ replaced[k] >= t

(* An attempt is not past its deadline, which is a timeout ahead at most.    *)
InTime ==
  \A s \in Sessions : Active(s) => clock <= deadline[s] /\ deadline[s] <= clock + Timeout

(* How long before its deadline an attempt's answer may have been replaced.   *)
Oldest == Ttl + Timeout + Timeout

(* How old what each part holds can be: what a lookup was answered was the   *)
(* name's after the attempt began; the cache's entry, a timeout before it    *)
(* was dated; what an attempt uses, a timeout and the time to live before    *)
(* the attempt began, or after it did.                                       *)
Ages ==
  /\ \A e \in entry : CurrentAfter(e.answer, e.resolved_at - Timeout)
  /\ \A s \in Sessions :
       /\ pc[s] = "lookup" /\ answer[s] # 0 => CurrentAfter(answer[s], deadline[s] - Timeout)
       /\ pc[s] = "connecting" =>
            CurrentAfter(answer[s], deadline[s] - Oldest + 1)

Types == TypeOK /\ DOMAIN addrs = Sessions

DelayInv == Types /\ InTime /\ Ages

(* The initial states satisfy the invariant.                                 *)
LEMMA InitDelayInv == Init => DelayInv
BY ConnectAssumption DEF Init, DelayInv, Types, TypeOK, InTime, Ages, Active

(* What the proofs use of the assumption and of the types.                   *)
LEMMA Numbers ==
  ASSUME TypeOK
  PROVE  /\ clock \in Nat /\ zone \in Nat \ {0} /\ Timeout \in Nat \ {0} /\ Ttl \in Nat \ {0}
         /\ Oldest \in Nat /\ Oldest > Timeout /\ Oldest > Ttl + Timeout
         /\ Oldest = Ttl + 2 * Timeout
         /\ replaced \in [1 .. zone - 1 -> Nat]
         /\ \A s \in Sessions : deadline[s] \in Nat /\ answer[s] \in 0 .. zone
BY ConnectAssumption DEF TypeOK, Oldest

(* What was the name's at a time, was so at any earlier one.                 *)
LEMMA Earlier ==
  ASSUME TypeOK, NEW k \in 1 .. zone, NEW t \in Int, NEW u \in Int, u <= t, CurrentAfter(k, t)
  PROVE  CurrentAfter(k, u)
<1>1. CASE k = zone
  BY <1>1 DEF CurrentAfter
<1>2. CASE k # zone
  <2>1. zone \in Nat \ {0} /\ replaced \in [1 .. zone - 1 -> Nat]
    BY Numbers
  <2>2. k \in 1 .. zone - 1
    BY <1>2, <2>1
  <2>3. replaced[k] \in Nat
    BY <2>1, <2>2
  <2>4. replaced[k] >= t
    BY <1>2 DEF CurrentAfter
  <2> QED
    BY <2>3, <2>4 DEF CurrentAfter
<1> QED
  BY <1>1, <1>2

(* The times at which the answers were replaced, after one more was.         *)
LEMMA MovesReplaced ==
  ASSUME TypeOK, Moves
  PROVE  /\ replaced' \in [1 .. zone -> 0 .. clock]
         /\ replaced'[zone] = clock
         /\ \A i \in 1 .. zone - 1 : replaced'[i] = replaced[i]
<1>1. zone \in Nat \ {0} /\ clock \in Nat /\ replaced \in [1 .. zone - 1 -> 0 .. clock]
  BY ConnectAssumption DEF TypeOK
<1>2. replaced \in Seq(0 .. clock) /\ Len(replaced) = zone - 1 /\ clock \in 0 .. clock
  BY <1>1
<1>3. replaced' = Append(replaced, clock)
  BY DEF Moves
<1>4. /\ replaced' \in Seq(0 .. clock) /\ Len(replaced') = zone
      /\ \A i \in 1 .. Len(replaced) : replaced'[i] = replaced[i]
      /\ replaced'[Len(replaced) + 1] = clock
  BY <1>1, <1>2, <1>3, AppendProperties
<1> QED
  BY <1>1, <1>2, <1>4

(* Types are kept.                                                           *)
LEMMA NextTypes == Types /\ [Next]_vars => Types'
<1> SUFFICES ASSUME Types, [Next]_vars PROVE Types'
  OBVIOUS
<1> USE ConnectAssumption DEF Types, TypeOK
<1>1. CASE Moves
  <2>1. replaced' \in [1 .. zone' - 1 -> 0 .. clock']
    <3>1. zone' - 1 = zone /\ clock' = clock
      BY <1>1 DEF Moves
    <3>2. replaced' \in [1 .. zone -> 0 .. clock]
      BY <1>1, MovesReplaced
    <3> QED
      BY <3>1, <3>2
  <2> QED
    BY <1>1, <2>1 DEF Moves, attempt
<1>2. CASE Tick
  BY <1>2 DEF Tick, attempt
<1>3. ASSUME NEW s \in Sessions, Begin(s) PROVE Types'
  <2>1. CASE Fresh = {} /\ pc' = [pc EXCEPT ![s] = "lookup"]
             /\ answer' = [answer EXCEPT ![s] = 0] /\ addrs' = [addrs EXCEPT ![s] = <<>>]
    BY <1>3, <2>1 DEF Begin
  <2>2. ASSUME NEW e \in Fresh, answer' = [answer EXCEPT ![s] = e.answer],
               TryFrom(s, Usable(e.answer))
        PROVE  Types'
    <3>1. e.answer \in 1 .. zone
      BY <2>2 DEF Fresh
    <3> QED
      BY <1>3, <2>2, <3>1 DEF Begin, TryFrom
  <2> QED
    BY <1>3, <2>1, <2>2 DEF Begin
<1>4. ASSUME NEW s \in Sessions, Resolved(s) PROVE Types'
  BY <1>4 DEF Resolved
<1>5. ASSUME NEW s \in Sessions, Insert(s) PROVE Types'
  <2>1. entry' \subseteq [answer : 1 .. zone, resolved_at : 0 .. clock]
    BY <1>5 DEF Insert
  <2> QED
    BY <1>5, <2>1 DEF Insert, TryFrom
<1>6. ASSUME NEW s \in Sessions, NEW end \in {"idle", "failed", "timedOut"}, Forget(s, end)
      PROVE  Types'
  BY <1>6 DEF Forget
<1>7. ASSUME NEW s \in Sessions, Connected(s) PROVE Types'
  BY <1>7 DEF Connected
<1>8. ASSUME NEW s \in Sessions, Refused(s) PROVE Types'
  BY <1>8 DEF Refused, FailAnd, TryFrom
<1>9. CASE UNCHANGED vars
  BY <1>9 DEF vars, attempt
<1> QED
  BY <1>1, <1>2, <1>3, <1>4, <1>5, <1>6, <1>7, <1>8, <1>9
     DEF Next, LookupFails, TimedOut, Cancel, Close

(* A timer that is due fires before time passes.                             *)
LEMMA NextInTime == Types /\ InTime /\ [Next]_vars => InTime'
<1> SUFFICES ASSUME Types, InTime, [Next]_vars, NEW r \in Sessions, Active(r)'
             PROVE  (clock <= deadline[r] /\ deadline[r] <= clock + Timeout)'
  BY DEF InTime
<1>0. /\ clock \in Nat /\ Timeout \in Nat /\ \A s \in Sessions : deadline[s] \in Nat
      /\ pc = [s \in Sessions |-> pc[s]] /\ deadline = [s \in Sessions |-> deadline[s]]
  BY Numbers DEF Types, TypeOK
<1>1. CASE Tick
  BY <1>0, <1>1 DEF Tick, attempt, InTime, Active
<1>2. ASSUME NEW s \in Sessions, Begin(s)
      PROVE (clock <= deadline[r] /\ deadline[r] <= clock + Timeout)'
  BY <1>0, <1>2 DEF Begin, TryFrom, InTime, Active
<1>3. ASSUME UNCHANGED <<clock, deadline>>, Active(r)
      PROVE (clock <= deadline[r] /\ deadline[r] <= clock + Timeout)'
  BY <1>3 DEF InTime
<1>4. ASSUME NEW s \in Sessions, NEW end \in {"idle", "failed", "timedOut"}, Forget(s, end)
      PROVE (clock <= deadline[r] /\ deadline[r] <= clock + Timeout)'
  BY <1>0, <1>4, Zenon DEF Forget, InTime, Active
<1>5. CASE Moves \/ UNCHANGED vars
  BY <1>3, <1>5 DEF Moves, vars, attempt, Active
<1>6. ASSUME NEW s \in Sessions, Resolved(s) \/ Insert(s) \/ Connected(s) \/ Refused(s)
      PROVE (clock <= deadline[r] /\ deadline[r] <= clock + Timeout)'
  BY <1>0, <1>3, <1>6 DEF Resolved, Insert, Connected, Refused, FailAnd, TryFrom, Active
<1> QED
  BY <1>1, <1>2, <1>4, <1>5, <1>6 DEF Next, LookupFails, TimedOut, Cancel, Close

(* A new answer ages the earlier ones, and is itself the name's.             *)
LEMMA MovesAges == Types /\ InTime /\ Ages /\ Moves => Ages'
<1> SUFFICES ASSUME Types, InTime, Ages, Moves PROVE Ages'
  OBVIOUS
<1>1. TypeOK /\ UNCHANGED <<clock, entry, pc, deadline, answer>> /\ zone' = zone + 1
  BY DEF Types, Moves, attempt
<1>2. ASSUME NEW k \in 1 .. zone, NEW t \in Int, t <= clock, CurrentAfter(k, t)
      PROVE  k = zone' \/ replaced'[k] >= t
  <2>1. /\ replaced'[zone] = clock /\ clock \in Nat /\ zone \in Nat
        /\ \A i \in 1 .. zone - 1 : replaced'[i] = replaced[i]
    BY <1>1, Numbers, MovesReplaced
  <2>2. CASE k = zone
    BY <1>2, <2>1, <2>2
  <2>3. CASE k # zone
    BY <1>2, <2>1, <2>3 DEF CurrentAfter
  <2> QED
    BY <2>2, <2>3
<1>3. ASSUME NEW e \in entry
      PROVE  e.answer = zone' \/ replaced'[e.answer] >= e.resolved_at - Timeout
  <2>1. e.answer \in 1 .. zone /\ e.resolved_at \in 0 .. clock
    BY <1>1 DEF TypeOK
  <2>2. e.resolved_at - Timeout \in Int /\ e.resolved_at - Timeout <= clock
    BY <1>1, <2>1, Numbers
  <2> QED
    BY <1>2, <2>1, <2>2 DEF Ages
<1>4. ASSUME NEW s \in Sessions, pc[s] = "lookup", answer[s] # 0
      PROVE  answer[s] = zone' \/ replaced'[answer[s]] >= deadline[s] - Timeout
  <2>1. answer[s] \in 1 .. zone /\ deadline[s] \in Nat /\ clock \in Nat /\ Timeout \in Nat
    BY <1>1, <1>4, Numbers
  <2>2. deadline[s] <= clock + Timeout
    BY <1>4 DEF InTime, Active
  <2>3. deadline[s] - Timeout \in Int /\ deadline[s] - Timeout <= clock
    BY <2>1, <2>2
  <2> QED
    BY <1>2, <1>4, <2>1, <2>3 DEF Ages
<1>5. ASSUME NEW s \in Sessions, pc[s] = "connecting"
      PROVE  answer[s] = zone' \/ replaced'[answer[s]] >= deadline[s] - Oldest + 1
  <2>1. answer[s] \in 1 .. zone
    BY <1>1, <1>5, Numbers DEF TypeOK
  <2>2. /\ deadline[s] \in Nat /\ clock \in Nat /\ Timeout \in Nat /\ Oldest \in Nat
        /\ Oldest > Timeout
    BY <1>1, Numbers
  <2>3. deadline[s] <= clock + Timeout
    BY <1>5 DEF InTime, Active
  <2>4. deadline[s] - Oldest + 1 \in Int /\ deadline[s] - Oldest + 1 <= clock
    BY <2>2, <2>3
  <2> QED
    BY <1>2, <1>5, <2>1, <2>4 DEF Ages
<1> QED
  BY <1>1, <1>3, <1>4, <1>5 DEF Ages, CurrentAfter

(* Neither time nor an attempt makes what is held older than it may be: an   *)
(* entry is dated a timeout after its answer came at most, and used before   *)
(* the time to live is over.                                                 *)
LEMMA NextAges == Types /\ InTime /\ Ages /\ [Next]_vars => Ages'
<1> SUFFICES ASSUME Types, InTime, Ages, [Next]_vars PROVE Ages'
  OBVIOUS
<1>0. /\ TypeOK
      /\ DOMAIN pc = Sessions /\ DOMAIN answer = Sessions /\ DOMAIN deadline = Sessions
  BY DEF Types, TypeOK
<1>1. CASE Moves
  BY <1>1, MovesAges
<1>2. CASE Tick
  BY <1>2 DEF Tick, attempt, Ages, CurrentAfter
<1>3. ASSUME NEW s \in Sessions, Begin(s) PROVE Ages'
  <2>1. /\ UNCHANGED <<zone, replaced, entry>>
        /\ deadline' = [deadline EXCEPT ![s] = clock + Timeout]
    BY <1>3 DEF Begin
  <2>2. CASE pc' = [pc EXCEPT ![s] = "lookup"] /\ answer' = [answer EXCEPT ![s] = 0]
    BY <1>0, <2>1, <2>2 DEF Ages, CurrentAfter
  <2>3. ASSUME NEW e \in Fresh, answer' = [answer EXCEPT ![s] = e.answer],
               TryFrom(s, Usable(e.answer))
        PROVE  Ages'
    <3>1. e \in entry /\ clock - e.resolved_at < Ttl
      BY DEF Fresh
    <3>2. e.answer \in 1 .. zone /\ e.resolved_at \in Nat
      <4>1. e \in [answer : 1 .. zone, resolved_at : 0 .. clock] /\ clock \in Nat
        BY <1>0, <3>1 DEF TypeOK
      <4> QED
        BY ONLY <4>1
    <3>3. CurrentAfter(e.answer, e.resolved_at - Timeout)
      BY <3>1 DEF Ages
    <3>4. e.resolved_at - Timeout \in Int /\ clock + Timeout - Oldest + 1 \in Int
          /\ clock + Timeout - Oldest + 1 <= e.resolved_at - Timeout
      <4>1. clock \in Nat /\ Timeout \in Nat /\ Ttl \in Nat /\ Oldest = Ttl + Timeout + Timeout
        BY <1>0, Numbers DEF Oldest
      <4> QED
        BY <3>1, <3>2, <4>1
    <3>5. CurrentAfter(e.answer, clock + Timeout - Oldest + 1)
      BY <1>0, <3>2, <3>3, <3>4, Earlier
    <3>6. answer'[s] = e.answer /\ deadline'[s] = clock + Timeout /\ pc'[s] # "lookup"
          /\ \A r \in Sessions \ {s} :
               pc'[r] = pc[r] /\ answer'[r] = answer[r] /\ deadline'[r] = deadline[r]
      BY <1>0, <2>1, <2>3 DEF TryFrom
    <3>7. ASSUME NEW r \in Sessions, pc'[r] = "lookup", answer'[r] # 0
          PROVE  CurrentAfter(answer'[r], deadline'[r] - Timeout)
      BY <3>6, <3>7 DEF Ages
    <3>8. ASSUME NEW r \in Sessions, pc'[r] = "connecting"
          PROVE  CurrentAfter(answer'[r], deadline'[r] - Oldest + 1)
      <4>1. CASE r = s
        <5>1. clock \in Nat /\ Timeout \in Nat /\ Oldest \in Nat
          BY <1>0, Numbers
        <5>2. answer'[r] = e.answer /\ deadline'[r] = clock + Timeout
          BY <3>6, <4>1
        <5> QED
          BY <3>5, <5>1, <5>2 DEF CurrentAfter
      <4>2. CASE r # s
        BY <3>6, <3>8, <4>2 DEF Ages
      <4> QED
        BY <4>1, <4>2
    <3> QED
      BY <2>1, <3>7, <3>8 DEF Ages, CurrentAfter
  <2> QED
    BY <1>3, <2>2, <2>3 DEF Begin
<1>4. ASSUME NEW s \in Sessions, Resolved(s) PROVE Ages'
  BY <1>0, <1>4 DEF Resolved, Ages, CurrentAfter
<1>5. ASSUME NEW s \in Sessions, Insert(s) PROVE Ages'
  <2>1. /\ UNCHANGED <<zone, replaced, deadline, answer>>
        /\ entry' = {[answer |-> answer[s], resolved_at |-> clock]}
        /\ pc[s] = "lookup" /\ answer[s] # 0
    BY <1>5 DEF Insert
  <2>2. answer[s] \in 1 .. zone /\ CurrentAfter(answer[s], deadline[s] - Timeout)
    BY <1>0, <2>1, Numbers DEF Ages
  <2>3. /\ clock - Timeout \in Int /\ clock - Timeout <= deadline[s] - Timeout
        /\ deadline[s] - Oldest + 1 \in Int /\ deadline[s] - Oldest + 1 <= deadline[s] - Timeout
        /\ deadline[s] - Timeout \in Int
    <3>1. /\ deadline[s] \in Nat /\ clock \in Nat /\ Timeout \in Nat /\ Oldest \in Nat
          /\ Oldest > Timeout
      BY <1>0, Numbers
    <3>2. clock <= deadline[s]
      BY <2>1 DEF InTime, Active
    <3> QED
      BY <3>1, <3>2
  <2>4. /\ CurrentAfter(answer[s], clock - Timeout)
        /\ CurrentAfter(answer[s], deadline[s] - Oldest + 1)
    BY <1>0, <2>2, <2>3, Earlier
  <2>5. \A e \in entry' : e.answer = answer[s] /\ e.resolved_at = clock
    BY <2>1
  <2>6. clock' = clock
    BY <1>5 DEF Insert
  <2> QED
    BY <1>0, <1>5, <2>1, <2>4, <2>5, <2>6 DEF Insert, TryFrom, Ages, CurrentAfter
<1>6. ASSUME NEW s \in Sessions, NEW end \in {"idle", "failed", "timedOut"}, Forget(s, end)
      PROVE  Ages'
  BY <1>0, <1>6 DEF Forget, Ages, CurrentAfter
<1>7. ASSUME NEW s \in Sessions, Connected(s) \/ Refused(s) PROVE Ages'
  BY <1>0, <1>7 DEF Connected, Refused, FailAnd, TryFrom, Ages, CurrentAfter
<1>8. CASE UNCHANGED vars
  BY <1>8 DEF vars, attempt, Ages, CurrentAfter
<1> QED
  BY <1>1, <1>2, <1>3, <1>4, <1>5, <1>6, <1>7, <1>8 DEF Next, LookupFails, TimedOut, Cancel, Close

(* "keeping backend IP changes ... visible within a bounded delay"           *)
(* (dns_cache.rs:10): no attempt uses an answer that the name has not had    *)
(* for the time to live and two timeouts.                                    *)
THEOREM DelayBounded == Spec => [](TypeOK /\ BoundedDelay)
<1>1. DelayInv => TypeOK /\ BoundedDelay
  <2> SUFFICES ASSUME DelayInv, NEW s \in Sessions, pc[s] = "connecting"
               PROVE  Staleness(s) < Ttl + 2 * Timeout
    BY DEF DelayInv, Types, BoundedDelay
  <2>1. TypeOK /\ InTime /\ CurrentAfter(answer[s], deadline[s] - Oldest + 1)
    BY DEF DelayInv, Types, Ages
  <2>2. answer[s] \in 1 .. zone /\ clock <= deadline[s]
    BY <2>1, Numbers DEF TypeOK, InTime, Active
  <2>3. CASE answer[s] = zone
    BY <2>1, <2>3, Numbers DEF Staleness
  <2>4. CASE answer[s] # zone
    <3>1. replaced[answer[s]] \in Nat /\ replaced[answer[s]] >= deadline[s] - Oldest + 1
      <4>1. zone \in Nat \ {0} /\ replaced \in [1 .. zone - 1 -> Nat]
        BY <2>1, Numbers
      <4>2. answer[s] \in 1 .. zone - 1
        BY <2>2, <2>4, <4>1
      <4> QED
        BY <2>1, <2>4, <4>1, <4>2 DEF CurrentAfter
    <3>2. /\ clock \in Nat /\ deadline[s] \in Nat /\ Oldest \in Nat
          /\ Oldest = Ttl + 2 * Timeout
      BY <2>1, Numbers
    <3>3. clock - replaced[answer[s]] < Oldest
      BY <2>2, <3>1, <3>2
    <3> QED
      BY <2>4, <3>2, <3>3 DEF Staleness
  <2> QED
    BY <2>3, <2>4
<1>2. DelayInv /\ [Next]_vars => DelayInv'
  BY NextTypes, NextInTime, NextAges DEF DelayInv
<1> QED
  BY <1>1, <1>2, InitDelayInv, PTL DEF Spec
-----------------------------------------------------------------------------
(* The addresses in turn.  All addresses of all answers:                     *)
Hosts == UNION {{Answers[k][i] : i \in DOMAIN Answers[k]} : k \in DOMAIN Answers}

(* The numbers of a finite set that have a given number of smaller ones: for *)
(* each number below the size of the set there is one.                       *)
LEMMA NthIn ==
  ASSUME NEW S \in SUBSET Nat, IsFiniteSet(S), NEW k \in 0 .. Cardinality(S) - 1
  PROVE  Nth(S, k) \in S
<1> DEFINE n == Cardinality(S)
<1> DEFINE below(a) == {b \in S : b < a}
<1> DEFINE rank == [a \in S |-> Cardinality(below(a))]
<1>1. /\ n \in Nat /\ IsFiniteSet(0 .. n - 1)
      /\ Cardinality(0 .. n - 1) = IF 0 > n - 1 THEN 0 ELSE (n - 1) - 0 + 1
  <2>1. n \in Nat
    BY FS_CardinalityType
  <2>2. 0 \in Int /\ n - 1 \in Int
    BY <2>1
  <2> HIDE DEF n
  <2> QED
    BY <2>1, <2>2, FS_Interval
<1>2. ASSUME NEW a \in S, NEW T \in SUBSET S, below(a) \subseteq T, a \in T
      PROVE  /\ Cardinality(below(a)) < Cardinality(T)
             /\ Cardinality(below(a)) \in Nat /\ Cardinality(T) \in Nat
  <2>0. a \notin below(a)
    OBVIOUS
  <2>1. IsFiniteSet(T) /\ below(a) \in SUBSET T /\ below(a) # T
    BY <1>2, <2>0, FS_Subset, Zenon
  <2>2. /\ IsFiniteSet(below(a)) /\ Cardinality(below(a)) <= Cardinality(T)
        /\ Cardinality(T) # Cardinality(below(a))
    BY <2>1, FS_Subset
  <2>3. Cardinality(below(a)) \in Nat /\ Cardinality(T) \in Nat
    BY <2>1, <2>2, FS_CardinalityType
  <2> HIDE DEF below
  <2> QED
    BY <2>2, <2>3
<1>3. ASSUME NEW a \in S, NEW c \in S, a < c
      PROVE  Cardinality(below(a)) < Cardinality(below(c))
  <2>1. below(c) \in SUBSET S /\ a \in below(c)
    BY <1>3
  <2>2. \A b \in S : b < a => b < c
    <3>1. a \in Nat /\ c \in Nat /\ \A b \in S : b \in Nat
      OBVIOUS
    <3> QED
      BY <1>3, <3>1
  <2>3. below(a) \subseteq below(c)
    BY <2>2, Zenon
  <2> QED
    BY <1>2, <2>1, <2>3
<1>4. \A a \in S : below(a) \in SUBSET S
  OBVIOUS
<1>5. \A a \in S : Cardinality(below(a)) \in 0 .. n - 1
  <2> HIDE DEF below
  <2> QED
    BY <1>1, <1>2, <1>4
<1> HIDE DEF n, below
<1>6. rank \in [S -> 0 .. n - 1]
  BY <1>5
<1>7. ASSUME NEW a \in S, NEW c \in S, rank[a] = rank[c] PROVE a = c
  <2>1. Cardinality(below(a)) = Cardinality(below(c)) /\ Cardinality(below(a)) \in Nat
    BY <1>5, <1>7
  <2>2. a \in Nat /\ c \in Nat /\ ~(a < c) /\ ~(c < a)
    BY <1>3, <2>1
  <2> QED
    BY <2>2
<1>8. rank \in Injection(S, 0 .. n - 1)
  BY <1>6, <1>7 DEF Injection, IsInjective
<1>9. Cardinality(0 .. n - 1) = n
  BY <1>1
<1>10. rank \in Surjection(S, 0 .. n - 1)
  BY <1>1, <1>8, <1>9, FS_Injection DEF n
<1>11. PICK a \in S : rank[a] = k
  BY <1>10, Zenon DEF Surjection, n
<1>12. \E c \in S : Cardinality(below(c)) = k
  BY <1>11
<1> QED
  BY <1>12, Zenon DEF Nth, below

(* What the assumption says of the answers.                                  *)
LEMMA AnswersOK ==
  /\ Len(Answers) \in Nat \ {0}
  /\ \A k \in 1 .. Len(Answers) : Answers[k] \in Seq(Hosts)
<1>1. Answers \in Seq({Answers[k] : k \in DOMAIN Answers}) /\ Answers # <<>>
  BY ConnectAssumption DEF IsList
<1>2. Len(Answers) \in Nat \ {0} /\ DOMAIN Answers = 1 .. Len(Answers)
  BY <1>1, EmptySeq, LenProperties
<1>3. ASSUME NEW k \in 1 .. Len(Answers) PROVE Answers[k] \in Seq(Hosts)
  <2>1. Answers[k] \in Seq({Answers[k][i] : i \in DOMAIN Answers[k]})
    BY <1>2, ConnectAssumption DEF IsList
  <2>2. {Answers[k][i] : i \in DOMAIN Answers[k]} \subseteq Hosts
    BY <1>2 DEF Hosts
  <2> QED
    BY <2>1, <2>2, SeqMonotonic
<1> QED
  BY <1>2, <1>3

(* An answer without what the source cannot reach.                           *)
LEMMA UsableOK ==
  ASSUME NEW k \in 1 .. Len(Answers), source \in BOOLEAN
  PROVE  /\ Usable(k) \in Seq(Hosts)
         /\ source => \A i \in DOMAIN Usable(k) : Usable(k)[i] \in V4
<1> DEFINE list == Answers[k]
<1> DEFINE kept == {i \in DOMAIN list : list[i] \in V4}
<1>1. list \in Seq(Hosts) /\ Len(list) \in Nat /\ list \in [1 .. Len(list) -> Hosts]
  BY AnswersOK, LenProperties
<1>2. kept \in SUBSET (1 .. Len(list)) /\ kept \in SUBSET Nat
  BY <1>1
<1>3. IsFiniteSet(kept) /\ Cardinality(kept) \in Nat
  <2>1. IsFiniteSet(1 .. Len(list))
    BY <1>1, FS_Interval
  <2> HIDE DEF kept, list
  <2> QED
    BY <1>2, <2>1, FS_Subset, FS_CardinalityType, Zenon
<1>4. retain(list, V4) = [j \in 1 .. Cardinality(kept) |-> list[Nth(kept, j - 1)]]
  BY DEF retain
<1>5. \A i \in kept : list[i] \in V4 /\ list[i] \in Hosts
  BY <1>1
<1> HIDE DEF kept, list
<1>6. \A j \in 1 .. Cardinality(kept) : Nth(kept, j - 1) \in kept
  <2>1. \A j \in 1 .. Cardinality(kept) : j - 1 \in 0 .. Cardinality(kept) - 1
    BY <1>3
  <2> QED
    BY <1>2, <1>3, <2>1, NthIn
<1>7. /\ retain(list, V4) \in [1 .. Cardinality(kept) -> Hosts]
      /\ \A j \in 1 .. Cardinality(kept) : retain(list, V4)[j] \in V4
  BY <1>4, <1>5, <1>6
<1>8. retain(list, V4) \in Seq(Hosts) /\ DOMAIN retain(list, V4) = 1 .. Cardinality(kept)
  BY <1>3, <1>7, SeqDef
<1> QED
  BY <1>1, <1>7, <1>8, Zenon DEF Usable, list

(* What was tried and what is left stay the same list when one is refused.   *)
LEMMA OneTried ==
  ASSUME NEW S, NEW t \in Seq(S), NEW a \in Seq(S), a # <<>>
  PROVE  /\ Append(t, Head(a)) \in Seq(S) /\ Tail(a) \in Seq(S)
         /\ Append(t, Head(a)) \o Tail(a) = t \o a
         /\ Tail(a) = <<>> => Append(t, Head(a)) = t \o a
         /\ \A i \in DOMAIN Tail(a) : i + 1 \in DOMAIN a /\ Tail(a)[i] = a[i + 1]
<1>1. /\ Head(a) \in S /\ Tail(a) \in Seq(S) /\ Len(Tail(a)) = Len(a) - 1
      /\ \A i \in 1 .. Len(Tail(a)) : Tail(a)[i] = a[i + 1]
  BY HeadTailProperties
<1>2. Len(t) \in Nat /\ Len(a) \in Nat \ {0} /\ DOMAIN Tail(a) = 1 .. Len(Tail(a))
      /\ DOMAIN a = 1 .. Len(a)
  BY <1>1, LenProperties, EmptySeq
<1>3. Head(a) = a[1]
  BY <1>2
<1> DEFINE u == Append(t, Head(a))
<1>4. /\ u \in Seq(S) /\ Len(u) = Len(t) + 1 /\ u[Len(t) + 1] = Head(a)
      /\ \A i \in 1 .. Len(t) : u[i] = t[i]
  BY <1>1, AppendProperties
<1> HIDE DEF u
<1>5. /\ u \o Tail(a) \in Seq(S) /\ Len(u \o Tail(a)) = Len(t) + Len(a)
      /\ t \o a \in Seq(S) /\ Len(t \o a) = Len(t) + Len(a)
  <2>1. u \o Tail(a) \in Seq(S) /\ Len(u \o Tail(a)) = Len(u) + Len(Tail(a))
    BY <1>1, <1>4, ConcatProperties, Zenon
  <2>2. t \o a \in Seq(S) /\ Len(t \o a) = Len(t) + Len(a)
    BY ConcatProperties
  <2> QED
    BY <1>1, <1>2, <1>4, <2>1, <2>2
<1>6. ASSUME NEW i \in 1 .. Len(t) + Len(a) PROVE (u \o Tail(a))[i] = (t \o a)[i]
  <2>0. i \in Nat /\ Len(t) \in Nat
    BY <1>2
  <2>1. (t \o a)[i] = IF i <= Len(t) THEN t[i] ELSE a[i - Len(t)]
    BY ConcatProperties
  <2>2. (u \o Tail(a))[i] = IF i <= Len(t) + 1 THEN u[i] ELSE Tail(a)[i - (Len(t) + 1)]
    <3>1. i \in 1 .. Len(u) + Len(Tail(a))
      BY <1>1, <1>2, <1>4
    <3>2. (u \o Tail(a))[i] = IF i <= Len(u) THEN u[i] ELSE Tail(a)[i - Len(u)]
      BY <1>1, <1>4, <3>1, ConcatProperties, Zenon
    <3> QED
      BY <1>4, <3>2
  <2>3. CASE i <= Len(t)
    BY <1>2, <1>4, <2>1, <2>2, <2>3
  <2>4. CASE i = Len(t) + 1
    <3>1. i - Len(t) = 1
      BY <1>2, <2>4
    <3> QED
      BY <1>2, <1>3, <1>4, <2>1, <2>2, <2>4, <3>1
  <2>5. CASE i > Len(t) + 1
    <3>1. i - (Len(t) + 1) \in 1 .. Len(Tail(a)) /\ (i - (Len(t) + 1)) + 1 = i - Len(t)
      BY <1>1, <1>2, <2>5
    <3>2. Tail(a)[i - (Len(t) + 1)] = a[i - Len(t)]
      BY <1>1, <3>1
    <3>3. ~(i <= Len(t)) /\ ~(i <= Len(t) + 1)
      BY <2>0, <2>5
    <3> QED
      BY <2>1, <2>2, <3>2, <3>3, Zenon
  <2>6. i <= Len(t) \/ i = Len(t) + 1 \/ i > Len(t) + 1
    BY <2>0
  <2> QED
    BY <2>3, <2>4, <2>5, <2>6, Zenon
<1>7. u \o Tail(a) = t \o a
  BY <1>5, <1>6, SeqEqual, Zenon
<1>8. Tail(a) = <<>> => u \o Tail(a) = u
  BY <1>4, ConcatEmptySeq, Zenon
<1>9. \A i \in DOMAIN Tail(a) : i + 1 \in DOMAIN a /\ Tail(a)[i] = a[i + 1]
  BY <1>1, <1>2
<1> QED
  BY <1>1, <1>4, <1>7, <1>8, <1>9, Zenon DEF u

(* InTurn, and that an attempt that waits for its answer has tried nothing.  *)
TurnOf(s) ==
  /\ addrs[s] \in Seq(Hosts) /\ tried[s] \in Seq(Hosts)
  /\ pc[s] = "lookup" => tried[s] = <<>>
  /\ pc[s] \in {"connecting", "connected"} => tried[s] \o addrs[s] = Usable(answer[s])
  /\ pc[s] = "failed" /\ tried[s] # <<>> => tried[s] = Usable(answer[s])
  /\ source => \A k \in DOMAIN addrs[s] : addrs[s][k] \in V4

TurnInv ==
  /\ DOMAIN addrs = Sessions /\ DOMAIN tried = Sessions
  /\ \A s \in Sessions : TurnOf(s)

(* No attempt has begun at first.                                            *)
LEMMA InitTurnInv == Init => TurnInv
BY EmptySeq DEF Init, TurnInv, TurnOf

(* A step that changes no more than one session's attempt keeps the others'. *)
LEMMA OthersTurn ==
  ASSUME TypeOK, TurnInv, NEW s \in Sessions, source' = source,
         DOMAIN addrs' = Sessions, DOMAIN tried' = Sessions,
         \A r \in Sessions \ {s} :
           /\ pc'[r] = pc[r] /\ answer'[r] = answer[r]
           /\ addrs'[r] = addrs[r] /\ tried'[r] = tried[r],
         TurnOf(s)'
  PROVE  TurnInv'
<1>1. \A k : Usable(k)' = Usable(k)
  BY DEF Usable
<1>2. ASSUME NEW r \in Sessions \ {s} PROVE TurnOf(r)'
  <2>1. TurnOf(r)
    BY DEF TurnInv
  <2> QED
    BY <1>1, <2>1, Zenon DEF TurnOf, Usable
<1> QED
  BY <1>2 DEF TurnInv

(* The loop starts on an answer, from the cache or from the resolver.        *)
LEMMA TurnStarts ==
  ASSUME TypeOK, TurnInv, NEW s \in Sessions, source' = source, DOMAIN tried' = Sessions,
         NEW k \in 1 .. zone, answer'[s] = k, tried'[s] = <<>>, TryFrom(s, Usable(k)),
         \A r \in Sessions \ {s} : answer'[r] = answer[r] /\ tried'[r] = tried[r]
  PROVE  TurnInv'
<1>1. k \in 1 .. Len(Answers) /\ source \in BOOLEAN
  <2>1. Len(Answers) \in Nat \ {0} /\ zone \in 1 .. Len(Answers) /\ source \in BOOLEAN
    BY AnswersOK DEF TypeOK
  <2> QED
    BY ONLY <2>1, k \in 1 .. zone
<1>2. /\ Usable(k) \in Seq(Hosts)
      /\ source => \A i \in DOMAIN Usable(k) : Usable(k)[i] \in V4
  BY <1>1, UsableOK
<1>3. /\ addrs' = [addrs EXCEPT ![s] = Usable(k)]
      /\ pc' = [pc EXCEPT ![s] = IF Usable(k) = <<>> THEN "failed" ELSE "connecting"]
      /\ DOMAIN addrs = Sessions /\ DOMAIN pc = Sessions
  BY DEF TryFrom, TurnInv, TypeOK
<1>4. /\ addrs'[s] = Usable(k) /\ pc'[s] \in {"failed", "connecting"}
      /\ DOMAIN addrs' = Sessions
      /\ \A r \in Sessions \ {s} : addrs'[r] = addrs[r] /\ pc'[r] = pc[r]
  BY <1>3
<1>5. <<>> \o Usable(k) = Usable(k) /\ <<>> \in Seq(Hosts)
  BY <1>2, ConcatEmptySeq, EmptySeq
<1>6. Usable(k)' = Usable(k)
  BY DEF Usable
<1>7. Usable(answer[s])' = Usable(k)
  BY <1>6 DEF Usable
<1>8. TurnOf(s)'
  BY <1>2, <1>4, <1>5, <1>7 DEF TurnOf
<1> QED
  BY <1>4, <1>8, OthersTurn

(* An attempt that is over, or waits for the resolver, has nothing to try.   *)
LEMMA TurnCleared ==
  ASSUME TypeOK, TurnInv, NEW s \in Sessions, source' = source, NEW to,
         to \notin {"connecting", "connected"},
         pc' = [pc EXCEPT ![s] = to],
         addrs' = [addrs EXCEPT ![s] = <<>>], tried' = [tried EXCEPT ![s] = <<>>],
         \A r \in Sessions \ {s} : answer'[r] = answer[r]
  PROVE  TurnInv'
<1>1. DOMAIN pc = Sessions /\ DOMAIN addrs = Sessions /\ DOMAIN tried = Sessions
  BY DEF TypeOK, TurnInv
<1>2. /\ DOMAIN addrs' = Sessions /\ DOMAIN tried' = Sessions
      /\ pc'[s] = to /\ addrs'[s] = <<>> /\ tried'[s] = <<>>
      /\ \A r \in Sessions \ {s} : pc'[r] = pc[r] /\ addrs'[r] = addrs[r] /\ tried'[r] = tried[r]
  BY <1>1
<1>3. <<>> \in Seq(Hosts) /\ \A i \in DOMAIN <<>> : <<>>[i] \in V4
  BY EmptySeq
<1>4. TurnOf(s)'
  BY <1>2, <1>3 DEF TurnOf
<1> QED
  BY <1>2, <1>4, OthersTurn

(* A refused address moves from those left to those tried.                   *)
LEMMA TurnRefused ==
  ASSUME TypeOK, TurnInv, NEW s \in Sessions, Refused(s)
  PROVE  TurnInv'
<1> DEFINE left == addrs[s]
<1> DEFINE done == tried[s]
<1>1. /\ pc[s] = "connecting" /\ UNCHANGED <<source, answer>>
      /\ tried' = [tried EXCEPT ![s] = Append(done, Head(left))]
      /\ addrs' = [addrs EXCEPT ![s] = Tail(left)]
      /\ pc' = [pc EXCEPT ![s] = IF Tail(left) = <<>> THEN "failed" ELSE "connecting"]
  BY DEF Refused, FailAnd, TryFrom
<1>2. /\ left \in Seq(Hosts) /\ left # <<>> /\ done \in Seq(Hosts)
      /\ done \o left = Usable(answer[s])
      /\ source => \A k \in DOMAIN left : left[k] \in V4
      /\ DOMAIN pc = Sessions /\ DOMAIN addrs = Sessions /\ DOMAIN tried = Sessions
  BY <1>1 DEF TypeOK, TurnInv, TurnOf
<1>3. /\ Append(done, Head(left)) \in Seq(Hosts) /\ Tail(left) \in Seq(Hosts)
      /\ Append(done, Head(left)) \o Tail(left) = done \o left
      /\ Tail(left) = <<>> => Append(done, Head(left)) = done \o left
      /\ \A i \in DOMAIN Tail(left) : i + 1 \in DOMAIN left /\ Tail(left)[i] = left[i + 1]
  BY <1>2, OneTried, Zenon
<1> HIDE DEF left, done
<1>4. /\ DOMAIN addrs' = Sessions /\ DOMAIN tried' = Sessions
      /\ addrs'[s] = Tail(left) /\ tried'[s] = Append(done, Head(left))
      /\ pc'[s] = IF Tail(left) = <<>> THEN "failed" ELSE "connecting"
      /\ \A r \in Sessions \ {s} : pc'[r] = pc[r] /\ addrs'[r] = addrs[r] /\ tried'[r] = tried[r]
  BY <1>1, <1>2
<1>5. Usable(answer[s])' = Usable(answer[s])
  BY <1>1 DEF Usable
<1>6. source => \A k \in DOMAIN Tail(left) : Tail(left)[k] \in V4
  BY <1>2, <1>3
<1>7. pc'[s] # "lookup" /\ pc'[s] # "connected" /\ (pc'[s] = "failed" => Tail(left) = <<>>)
  BY <1>4
<1>8. TurnOf(s)'
  BY <1>1, <1>2, <1>3, <1>4, <1>5, <1>6, <1>7, Zenon DEF TurnOf
<1> QED
  BY <1>1, <1>4, <1>8, OthersTurn

(* Every step keeps the turns; those of the cache and of the clock leave the *)
(* attempts alone.                                                           *)
LEMMA NextTurnInv == TypeOK /\ TurnInv /\ [Next]_vars => TurnInv'
<1> SUFFICES ASSUME TypeOK, TurnInv, [Next]_vars PROVE TurnInv'
  OBVIOUS
<1>0. /\ DOMAIN pc = Sessions /\ DOMAIN addrs = Sessions /\ DOMAIN tried = Sessions
      /\ DOMAIN answer = Sessions
  BY DEF TypeOK, TurnInv
<1>1. CASE UNCHANGED <<source, pc, answer, addrs, tried>>
  BY <1>1 DEF TurnInv, TurnOf, Usable
<1>2. ASSUME NEW s \in Sessions, Begin(s) PROVE TurnInv'
  <2>1. UNCHANGED source /\ tried' = [tried EXCEPT ![s] = <<>>]
    BY <1>2 DEF Begin
  <2>2. CASE /\ pc' = [pc EXCEPT ![s] = "lookup"] /\ answer' = [answer EXCEPT ![s] = 0]
             /\ addrs' = [addrs EXCEPT ![s] = <<>>]
    BY <1>0, <2>1, <2>2, TurnCleared, Zenon
  <2>3. ASSUME NEW e \in Fresh, answer' = [answer EXCEPT ![s] = e.answer],
               TryFrom(s, Usable(e.answer))
        PROVE  TurnInv'
    <3>1. e.answer \in 1 .. zone
      BY DEF Fresh, TypeOK
    <3>2. /\ DOMAIN tried' = Sessions /\ tried'[s] = <<>> /\ answer'[s] = e.answer
          /\ \A r \in Sessions \ {s} : answer'[r] = answer[r] /\ tried'[r] = tried[r]
      BY <1>0, <2>1, <2>3
    <3> QED
      BY <2>1, <2>3, <3>1, <3>2, TurnStarts
  <2> QED
    BY <1>2, <2>2, <2>3 DEF Begin
<1>3. ASSUME NEW s \in Sessions, Resolved(s) PROVE TurnInv'
  <2>1. /\ pc[s] = "lookup" /\ UNCHANGED <<source, pc, addrs, tried>>
        /\ \A r \in Sessions \ {s} : answer'[r] = answer[r]
    BY <1>0, <1>3 DEF Resolved
  <2>2. TurnOf(s)'
    <3>1. TurnOf(s)
      BY DEF TurnInv
    <3> QED
      BY <2>1, <3>1, Zenon DEF TurnOf
  <2> QED
    BY <1>0, <2>1, <2>2, OthersTurn
<1>4. ASSUME NEW s \in Sessions, Insert(s) PROVE TurnInv'
  <2>1. /\ pc[s] = "lookup" /\ answer[s] # 0 /\ TryFrom(s, Usable(answer[s]))
        /\ UNCHANGED <<source, answer, tried>>
    BY <1>4 DEF Insert
  <2>2. answer[s] \in 1 .. zone
    BY <2>1, Numbers
  <2>3. tried'[s] = <<>>
    BY <2>1 DEF TurnInv, TurnOf
  <2> QED
    BY <1>0, <2>1, <2>2, <2>3, TurnStarts
<1>5. ASSUME NEW s \in Sessions, NEW end \in {"idle", "failed", "timedOut"}, Forget(s, end)
      PROVE  TurnInv'
  <2>1. /\ UNCHANGED source /\ pc' = [pc EXCEPT ![s] = end]
        /\ addrs' = [addrs EXCEPT ![s] = <<>>] /\ tried' = [tried EXCEPT ![s] = <<>>]
        /\ \A r \in Sessions \ {s} : answer'[r] = answer[r]
    BY <1>0, <1>5 DEF Forget
  <2> QED
    BY <2>1, TurnCleared, Zenon
<1>6. ASSUME NEW s \in Sessions, Connected(s) PROVE TurnInv'
  <2>1. /\ pc[s] = "connecting" /\ UNCHANGED <<source, answer, addrs, tried>>
        /\ pc'[s] = "connected" /\ \A r \in Sessions \ {s} : pc'[r] = pc[r]
    BY <1>0, <1>6 DEF Connected
  <2>2. TurnOf(s)'
    <3>1. TurnOf(s) /\ Usable(answer[s])' = Usable(answer[s])
      BY <2>1 DEF TurnInv, Usable
    <3> QED
      BY <2>1, <3>1, Zenon DEF TurnOf
  <2> QED
    BY <1>0, <2>1, <2>2, OthersTurn
<1>7. Moves \/ Tick \/ UNCHANGED vars => UNCHANGED <<source, pc, answer, addrs, tried>>
  BY DEF Moves, Tick, vars, attempt
<1> QED
  BY <1>1, <1>2, <1>3, <1>4, <1>5, <1>6, <1>7, TurnRefused
     DEF Next, LookupFails, TimedOut, Cancel, Close

(* "tries each returned address in turn until one connects"                  *)
(* (connection.rs:29): for any answers and any number of sessions, what an   *)
(* attempt has tried and has left is what its answer holds and its source    *)
(* can reach, in order, and an attempt that fails has tried it all.          *)
THEOREM TriedInTurn == Spec => []InTurn
<1>1. TurnInv => InTurn
  BY DEF TurnInv, TurnOf, InTurn
<1>2. Types => TypeOK
  BY DEF Types
<1>3. Init => Types
  BY InitDelayInv DEF DelayInv
<1> QED
  BY <1>1, <1>2, <1>3, InitTurnInv, NextTypes, NextTurnInv, PTL DEF Spec
=============================================================================
