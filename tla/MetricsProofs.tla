--------------------------- MODULE MetricsProofs ---------------------------
(***************************************************************************)
(* What the answers of the metrics endpoint show and what the counters add  *)
(* up to, for any number of sessions, uploads and any width of the counters.*)
(***************************************************************************)
EXTENDS Metrics, FiniteSetTheorems, TLAPS

Completed == "uploads_completed_total"

(* The uploads that are counted as completed and not yet told to the client. *)
Untold == {s \in Sessions : at[s] = "confirmed"}

Numbers ==
  /\ counters \in [Counters -> 0 .. MaxCount]
  /\ DOMAIN at = Sessions
  /\ told \in Nat /\ toldBefore \in Nat

(* An answer lies between the last one and the counters as they are now.     *)
Between ==
  /\ DOMAIN shown \subseteq Watched
  /\ \A c \in Watched : scraped[c] \in Nat /\ scraped[c] <= counters[c]
  /\ \A c \in DOMAIN shown :
       shown[c] \in Nat /\ scraped[c] <= shown[c] /\ shown[c] <= counters[c]

(* Each upload told or about to be told is counted, until the counter is at  *)
(* its maximum.                                                              *)
CountedFirst ==
  /\ \/ told + Cardinality(Untold) <= counters[Completed]
     \/ counters[Completed] = MaxCount
  /\ toldBefore <= told
  /\ Completed \in DOMAIN shown =>
       shown[Completed] >= toldBefore \/ shown[Completed] = MaxCount
  /\ request \notin {"rendering"} => DOMAIN shown = {}

ScrapeInv == Numbers /\ Between /\ CountedFirst

-----------------------------------------------------------------------------
(* Of the totals, a step leaves alone or increases each, and keeps the type. *)
LEMMA BumpRaises ==
  ASSUME Numbers, NEW c \in Totals, Bump(c)
  PROVE  /\ counters' \in [Counters -> 0 .. MaxCount]
         /\ \A d \in Totals : counters'[d] >= counters[d]
         /\ \A d \in Totals \ {c} : counters'[d] = counters[d]
         /\ counters'[c] = counters[c] + 1 \/ counters'[c] = MaxCount
BY MetricsAssumption DEF Numbers, Bump, saturating_add, Counters

(* A gauge wraps within its width and leaves the totals alone.               *)
LEMMA GaugeLeaves ==
  ASSUME Numbers, NEW c \in Counters \ Totals, NEW delta \in {1, -1}, Gauge(c, delta)
  PROVE  /\ counters' \in [Counters -> 0 .. MaxCount]
         /\ \A d \in Totals : counters'[d] = counters[d]
<1>1. (counters[c] + delta) % (MaxCount + 1) \in 0 .. MaxCount
  <2>1. counters[c] + delta \in Int /\ MaxCount + 1 \in Nat \ {0}
    BY MetricsAssumption DEF Numbers
  <2> QED
    BY <2>1, MetricsAssumption
<1> QED
  BY <1>1 DEF Numbers, Gauge, Counters

(* The set of uploads not yet told changes by one at most.                   *)
LEMMA UntoldMoves ==
  ASSUME Numbers, NEW s \in Sessions, NEW from, NEW to, Goes(s, from, to)
  PROVE  /\ Cardinality(Untold) \in Nat /\ Cardinality(Untold') \in Nat
         /\ "confirmed" \notin from /\ to = "confirmed" =>
              Cardinality(Untold') = Cardinality(Untold) + 1
         /\ to # "confirmed" => Cardinality(Untold') <= Cardinality(Untold)
         /\ from = {"confirmed"} /\ to # "confirmed" =>
              Cardinality(Untold') = Cardinality(Untold) - 1
<1>1. IsFiniteSet(Untold) /\ IsFiniteSet(Untold')
  BY MetricsAssumption, FS_Subset DEF Untold
<1>2. CASE "confirmed" \notin from /\ to = "confirmed"
  <2>1. Untold' = Untold \cup {s} /\ s \notin Untold
    BY <1>2 DEF Numbers, Goes, Untold
  <2> QED
    BY <1>1, <1>2, <2>1, FS_AddElement, FS_CardinalityType
<1>3. CASE to # "confirmed"
  <2>1. Untold' = Untold \ {s}
    BY <1>3 DEF Numbers, Goes, Untold
  <2>2. from = {"confirmed"} => s \in Untold
    BY DEF Goes, Untold
  <2>3. Cardinality(Untold') = IF s \in Untold THEN Cardinality(Untold) - 1 ELSE Cardinality(Untold)
    BY <1>1, <2>1, FS_RemoveElement
  <2> QED
    BY <1>1, <1>3, <2>2, <2>3, FS_CardinalityType
<1> QED
  BY <1>1, <1>2, <1>3, FS_CardinalityType

(* The initial states satisfy the invariant.                                 *)
LEMMA InitScrapeInv == Init => ScrapeInv
<1> SUFFICES ASSUME Init PROVE ScrapeInv
  OBVIOUS
<1>1. Numbers
  BY MetricsAssumption DEF Init, Numbers
<1>2. Between
  BY MetricsAssumption, WatchedAssumption DEF Init, Between, Counters
<1>3. CountedFirst
  <2>1. Untold = {}
    BY DEF Init, Untold
  <2> QED
    BY <2>1, FS_EmptySet DEF Init, CountedFirst, Completed, Counters, Totals
<1> QED
  BY <1>1, <1>2, <1>3 DEF ScrapeInv

(* A step that raises totals and changes nothing of the endpoint keeps what  *)
(* an answer lies between.                                                   *)
LEMMA BetweenKept ==
  ASSUME Numbers, Between, UNCHANGED <<shown, scraped>>,
         counters' \in [Counters -> 0 .. MaxCount],
         \A d \in Totals : counters'[d] >= counters[d]
  PROVE  Between'
<1>1. \A d \in Watched : counters[d] \in Nat /\ counters'[d] \in Nat /\ counters'[d] >= counters[d]
  BY MetricsAssumption, WatchedAssumption DEF Numbers, Counters
<1> QED
  BY <1>1 DEF Between

(* A step of a session: it may raise the totals, and what it adds to those   *)
(* told or to be told it adds to the completed ones.                         *)
LEMMA SessionStep ==
  ASSUME ScrapeInv, NEW s \in Sessions, NEW from, NEW to, Goes(s, from, to),
         UNCHANGED endpoint, told' \in Nat, told' >= told,
         counters' \in [Counters -> 0 .. MaxCount],
         \A d \in Totals : counters'[d] >= counters[d],
         \/ told' + Cardinality(Untold') - told - Cardinality(Untold)
              <= counters'[Completed] - counters[Completed]
         \/ counters'[Completed] = MaxCount
  PROVE  ScrapeInv'
<1>1. Numbers'
  BY DEF ScrapeInv, Numbers, Goes, endpoint
<1>2. Between'
  BY BetweenKept DEF ScrapeInv, endpoint
<1>3. CountedFirst'
  <2>1. /\ counters[Completed] \in 0 .. MaxCount /\ counters'[Completed] \in 0 .. MaxCount
        /\ counters'[Completed] >= counters[Completed] /\ MaxCount \in Nat
    BY MetricsAssumption DEF ScrapeInv, Numbers, Counters, Totals, Completed
  <2>2. Cardinality(Untold) \in Nat /\ Cardinality(Untold') \in Nat
    BY UntoldMoves DEF ScrapeInv
  <2>3. told \in Nat /\ toldBefore \in Nat /\ toldBefore <= told
    BY DEF ScrapeInv, Numbers, CountedFirst
  <2>4. \/ told' + Cardinality(Untold') <= counters'[Completed]
        \/ counters'[Completed] = MaxCount
    <3> DEFINE done == counters[Completed]
               doneNext == counters'[Completed]
               waiting == Cardinality(Untold)
               waitingNext == Cardinality(Untold')
    <3>1. told + waiting <= done \/ done = MaxCount
      BY DEF ScrapeInv, CountedFirst
    <3>2. \/ told' + waitingNext - told - waiting <= doneNext - done
          \/ doneNext = MaxCount
      OBVIOUS
    <3>3. /\ done \in 0 .. MaxCount /\ doneNext \in 0 .. MaxCount /\ doneNext >= done
          /\ MaxCount \in Nat /\ waiting \in Nat /\ waitingNext \in Nat
          /\ told \in Nat /\ told' \in Nat
      BY <2>1, <2>2, <2>3
    <3> HIDE DEF done, doneNext, waiting, waitingNext
    <3>4. told' + waitingNext <= doneNext \/ doneNext = MaxCount
      <4>1. \A a, b, c, d, e, f \in Nat : a + b - c - d <= e - f /\ c + d <= f => a + b <= e
        OBVIOUS
      <4>2. CASE done = MaxCount
        <5>1. \A n \in Nat : \A a \in 0 .. n : a >= n => a = n
          OBVIOUS
        <5> QED
          BY <3>3, <4>2, <5>1, Zenon
      <4>3. CASE told + waiting <= done /\ told' + waitingNext - told - waiting <= doneNext - done
        <5>1. done \in Nat /\ doneNext \in Nat
          BY <3>3
        <5> QED
          BY <3>3, <4>1, <4>3, <5>1, Zenon
      <4> QED
        BY <3>1, <3>2, <4>2, <4>3, Zenon
    <3> QED
      BY <3>4 DEF doneNext, waitingNext
  <2>5. UNCHANGED <<toldBefore, shown, request>>
    BY DEF endpoint
  <2>6. toldBefore' <= told'
    BY <2>3, <2>5
  <2>7. /\ Completed \in DOMAIN shown' =>
             shown'[Completed] >= toldBefore' \/ shown'[Completed] = MaxCount
        /\ request' \notin {"rendering"} => DOMAIN shown' = {}
    BY <2>5 DEF ScrapeInv, CountedFirst
  <2> QED
    BY <2>4, <2>6, <2>7 DEF CountedFirst
<1> QED
  BY <1>1, <1>2, <1>3 DEF ScrapeInv

(* Every step of a session is such a step.                                   *)
LEMMA SessionKeeps ==
  ASSUME ScrapeInv, NEW s \in Sessions,
         \/ CountSession(s) \/ RaiseSessions(s) \/ EndSession(s)
         \/ Attempt(s) \/ RaiseUploads(s) \/ Confirmed(s) \/ LeaveArm(s)
         \/ DropUploadGuard(s) \/ DropAttempt(s)
  PROVE  ScrapeInv'
<1>0. /\ Numbers /\ Completed \in Totals /\ told \in Nat
      /\ \A d \in Totals : counters[d] \in Nat
  BY MetricsAssumption DEF ScrapeInv, Numbers, Counters, Totals, Completed
<1>1. ASSUME NEW from, NEW to, Goes(s, from, to), to # "confirmed",
             UNCHANGED <<told, endpoint>>,
             counters' \in [Counters -> 0 .. MaxCount],
             \A d \in Totals : counters'[d] >= counters[d]
      PROVE  ScrapeInv'
  <2>1. /\ Cardinality(Untold) \in Nat /\ Cardinality(Untold') \in Nat
        /\ Cardinality(Untold') <= Cardinality(Untold)
    BY <1>0, <1>1, UntoldMoves
  <2>2. counters'[Completed] \in Nat /\ counters'[Completed] >= counters[Completed]
    BY <1>0, <1>1, MetricsAssumption DEF Counters
  <2>3. told' + Cardinality(Untold') - told - Cardinality(Untold)
          <= counters'[Completed] - counters[Completed]
    BY <1>0, <1>1, <2>1, <2>2
  <2> QED
    BY <1>0, <1>1, <2>3, SessionStep
<1>2. ASSUME NEW from, NEW to, Goes(s, from, to), to # "confirmed",
             UNCHANGED <<told, endpoint>>,
             \/ \E c \in Totals : Bump(c)
             \/ \E c \in Counters \ Totals : \E delta \in {1, -1} : Gauge(c, delta)
             \/ UNCHANGED counters
      PROVE  ScrapeInv'
  <2>1. /\ counters' \in [Counters -> 0 .. MaxCount]
        /\ \A d \in Totals : counters'[d] >= counters[d]
    <3>1. CASE \E c \in Totals : Bump(c)
      BY <1>0, <3>1, BumpRaises
    <3>2. CASE \E c \in Counters \ Totals : \E delta \in {1, -1} : Gauge(c, delta)
      BY <1>0, <3>2, GaugeLeaves
    <3>3. CASE UNCHANGED counters
      BY <1>0, <3>3 DEF Numbers
    <3> QED
      BY <1>2, <3>1, <3>2, <3>3
  <2> QED
    BY <1>1, <1>2, <2>1
<1>3. CASE CountSession(s)
  BY <1>2, <1>3 DEF CountSession, Totals
<1>4. CASE RaiseSessions(s) \/ EndSession(s)
  BY <1>2, <1>4 DEF RaiseSessions, EndSession, Counters, Totals
<1>5. CASE Attempt(s)
  BY <1>2, <1>5 DEF Attempt, Totals
<1>6. CASE RaiseUploads(s) \/ DropUploadGuard(s)
  BY <1>2, <1>6 DEF RaiseUploads, DropUploadGuard, Counters, Totals
<1>7. CASE LeaveArm(s)
  BY <1>2, <1>7 DEF LeaveArm
<1>8. CASE DropAttempt(s)
  BY <1>2, <1>8 DEF DropAttempt, Fail, Totals
<1>9. CASE Succeed(s, {"moving"}, "confirmed")
  <2>1. Goes(s, {"moving"}, "confirmed") /\ Bump(Completed) /\ UNCHANGED <<told, endpoint>>
    BY <1>9 DEF Succeed, Completed
  <2>2. /\ counters' \in [Counters -> 0 .. MaxCount]
        /\ \A d \in Totals : counters'[d] >= counters[d]
        /\ counters'[Completed] = counters[Completed] + 1 \/ counters'[Completed] = MaxCount
    BY <1>0, <2>1, BumpRaises
  <2>3. /\ Cardinality(Untold) \in Nat /\ Cardinality(Untold') \in Nat
        /\ Cardinality(Untold') = Cardinality(Untold) + 1
    BY <1>0, <2>1, UntoldMoves
  <2>4. \/ told' + Cardinality(Untold') - told - Cardinality(Untold)
             <= counters'[Completed] - counters[Completed]
        \/ counters'[Completed] = MaxCount
    BY <1>0, <2>1, <2>2, <2>3
  <2> QED
    BY <1>0, <2>1, <2>2, <2>4, SessionStep
<1>10. CASE Tell(s, {"confirmed"}, "leaving")
  <2>1. /\ Goes(s, {"confirmed"}, "leaving") /\ told' = told + 1
        /\ UNCHANGED <<counters, endpoint>>
    BY <1>10 DEF Tell
  <2>2. /\ Cardinality(Untold) \in Nat /\ Cardinality(Untold') \in Nat
        /\ Cardinality(Untold') = Cardinality(Untold) - 1
    BY <1>0, <2>1, UntoldMoves
  <2>3. told' + Cardinality(Untold') - told - Cardinality(Untold)
          <= counters'[Completed] - counters[Completed]
    BY <1>0, <2>1, <2>2
  <2>4. /\ counters' \in [Counters -> 0 .. MaxCount]
        /\ \A d \in Totals : counters'[d] >= counters[d]
        /\ told' \in Nat /\ told' >= told
    BY <1>0, <2>1 DEF Numbers
  <2> QED
    BY <2>1, <2>3, <2>4, SessionStep
<1> QED
  BY <1>3, <1>4, <1>5, <1>6, <1>7, <1>8, <1>9, <1>10 DEF Confirmed

(* So does every step of the endpoint.                                       *)
LEMMA EndpointKeeps ==
  ASSUME ScrapeInv,
         AcceptRequest \/ ReadRequest \/ Refuse \/ WriteResponse \/ \E c \in Watched : Load(c)
  PROVE  ScrapeInv'
<1>0. UNCHANGED <<counters, session>>
  BY Zenon DEF AcceptRequest, ReadRequest, Refuse, WriteResponse, Load
<1>1. Untold' = Untold
  BY <1>0 DEF Untold, session
<1> USE DEF ScrapeInv, Numbers, Between, CountedFirst, session
<1>2. CASE AcceptRequest
  BY <1>0, <1>1, <1>2 DEF AcceptRequest
<1>3. CASE ReadRequest
  BY <1>0, <1>1, <1>3 DEF ReadRequest
<1>4. CASE Refuse
  BY <1>0, <1>1, <1>4 DEF Refuse
<1>5. CASE WriteResponse
  BY <1>0, <1>1, <1>5 DEF WriteResponse
<1>6. ASSUME NEW c \in Watched, Load(c) PROVE ScrapeInv'
  <2>1. /\ DOMAIN shown' = DOMAIN shown \cup {c} /\ shown'[c] = counters[c]
        /\ \A d \in DOMAIN shown : shown'[d] = shown[d]
    BY <1>6 DEF Load
  <2>2. counters[c] \in 0 .. MaxCount /\ MaxCount \in Nat
    BY MetricsAssumption, WatchedAssumption DEF Counters
  <2>3. Cardinality(Untold) \in Nat
    BY MetricsAssumption, FS_Subset, FS_CardinalityType DEF Untold
  <2>4. UNCHANGED <<request, toldBefore, scraped>> /\ request = "rendering"
    BY <1>6 DEF Load
  <2>5. Between'
    BY <1>0, <2>1, <2>2, <2>4
  <2>6. c = Completed => counters[c] >= toldBefore \/ counters[c] = MaxCount
    BY <2>2, <2>3
  <2>7. CountedFirst'
    BY <1>0, <1>1, <2>1, <2>4, <2>6
  <2> QED
    BY <1>0, <2>4, <2>5, <2>7
<1> QED
  BY <1>2, <1>3, <1>4, <1>5, <1>6

(* The invariant is inductive.                                               *)
LEMMA NextScrapeInv == ScrapeInv /\ [Next]_vars => ScrapeInv'
<1> SUFFICES ASSUME ScrapeInv, [Next]_vars PROVE ScrapeInv'
  OBVIOUS
<1>1. CASE UNCHANGED vars
  <2>1. UNCHANGED <<counters, at, told, toldBefore, request, shown, scraped>> /\ Untold' = Untold
    BY <1>1 DEF vars, session, endpoint, Untold
  <2> QED
    BY <2>1 DEF ScrapeInv, Numbers, Between, CountedFirst
<1> QED
  BY <1>1, SessionKeeps, EndpointKeeps DEF Next

(* "cumulative counters that must never decrease" (metrics.rs:304): from one *)
(* answer of the endpoint to the next no total goes down.                    *)
THEOREM AnswersNeverDecrease == Spec => NeverDecreases
<1>1. ScrapeInv /\ [Next]_vars => [\A c \in Watched : scraped'[c] >= scraped[c]]_vars
  <2> SUFFICES ASSUME ScrapeInv, Next, NEW c \in Watched PROVE scraped'[c] >= scraped[c]
    OBVIOUS
  <2>1. scraped[c] \in Nat
    BY DEF ScrapeInv, Between
  <2>2. CASE UNCHANGED scraped
    BY <2>1, <2>2
  <2>3. CASE WriteResponse
    BY <2>1, <2>3 DEF WriteResponse, ScrapeInv, Between
  <2>4. UNCHANGED scraped \/ WriteResponse
    BY Zenon DEF Next, CountSession, RaiseSessions, EndSession, Attempt, RaiseUploads, Confirmed,
           Succeed, Tell, LeaveArm, DropUploadGuard, DropAttempt, Fail, AcceptRequest,
           ReadRequest, Refuse, Load, endpoint
  <2> QED
    BY <2>2, <2>3, <2>4
<1> QED
  BY <1>1, InitScrapeInv, NextScrapeInv, PTL DEF Spec, NeverDecreases

(* A client that was told its upload is complete finds it counted in the     *)
(* answer to any request made after that: session.rs counts a completion     *)
(* before it tells the client.                                               *)
THEOREM ToldUploadsCounted == Spec => []ToldIsCounted
<1>1. ScrapeInv => ToldIsCounted
  BY DEF ScrapeInv, CountedFirst, ToldIsCounted, Completed
<1> QED
  BY <1>1, InitScrapeInv, NextScrapeInv, PTL DEF Spec

-----------------------------------------------------------------------------
(* The accounts: the sessions that hold each guard, the attempts not yet     *)
(* counted as completed or failed, and all attempts.                         *)
Active  == Sessions \ In({"accepted", "counted", "gone"})
Moving  == In({"moving", "confirmed", "leaving"})
Pending == {s \in Sessions : ~Ended(s) /\ ~succeeded[s]}
Tried   == {u \in Sessions \X (1 .. MaxUploads) : u[2] <= uploads[u[1]]}

Settled == counters["uploads_completed_total"] + counters["uploads_failed_total"]

(* CountersAccounted with the flag it needs: an attempt whose backend has not *)
(* confirmed it cannot have succeeded.                                        *)
AccountInv ==
  /\ counters \in [Counters -> 0 .. MaxCount]
  /\ DOMAIN at = Sessions /\ DOMAIN succeeded = Sessions
  /\ uploads \in [Sessions -> 0 .. MaxUploads]
  /\ \A s \in Sessions : at[s] \in {"attempted", "moving"} => ~succeeded[s]
  /\ counters["sessions_active"] = Cardinality(Active)
  /\ counters["uploads_active"] = Cardinality(Moving)
  /\ Cardinality(Tried) <= MaxCount =>
       /\ counters["uploads_started_total"] = Cardinality(Tried)
       /\ Cardinality(Tried) = Settled + Cardinality(Pending)

(* The four sets are finite, whatever the state.                             *)
LEMMA FiniteAccounts ==
  /\ IsFiniteSet(Active) /\ IsFiniteSet(Moving)
  /\ IsFiniteSet(Pending) /\ IsFiniteSet(Tried)
<1>1. Active \subseteq Sessions /\ Moving \subseteq Sessions /\ Pending \subseteq Sessions
  BY DEF Active, Moving, Pending, In
<1>2. IsFiniteSet(1 .. MaxUploads)
  BY MetricsAssumption, FS_Interval
<1>3. IsFiniteSet(Sessions \X (1 .. MaxUploads))
  BY <1>2, MetricsAssumption, FS_Product
<1>4. Tried \subseteq Sessions \X (1 .. MaxUploads)
  BY DEF Tried
<1> QED
  BY <1>1, <1>3, <1>4, MetricsAssumption, FS_Subset

(* One more or one less in a finite set.                                     *)
LEMMA OneMore ==
  ASSUME NEW S, IsFiniteSet(S), NEW x, NEW T
  PROVE  /\ Cardinality(S) \in Nat
         /\ T = S \cup {x} /\ x \notin S => Cardinality(T) = Cardinality(S) + 1
         /\ T = S \ {x} /\ x \in S => Cardinality(T) = Cardinality(S) - 1
BY FS_AddElement, FS_RemoveElement, FS_CardinalityType

(* A gauge goes up and down with the set it counts: it never wraps, because  *)
(* there are no more sessions than it can hold.                              *)
LEMMA GaugeCounts ==
  ASSUME counters \in [Counters -> 0 .. MaxCount], NEW c \in Counters,
         NEW S, S \subseteq Sessions, NEW T, T \subseteq Sessions,
         counters[c] = Cardinality(S), NEW s \in Sessions,
         \/ Gauge(c, 1) /\ T = S \cup {s} /\ s \notin S
         \/ Gauge(c, -1) /\ T = S \ {s} /\ s \in S
  PROVE  /\ counters' \in [Counters -> 0 .. MaxCount]
         /\ counters'[c] = Cardinality(T)
         /\ \A d \in Counters \ {c} : counters'[d] = counters[d]
<1>1. IsFiniteSet(S) /\ IsFiniteSet(T) /\ Cardinality(T) <= Cardinality(Sessions)
  BY MetricsAssumption, FS_Subset
<1>2. /\ Cardinality(S) \in 0 .. MaxCount /\ Cardinality(T) \in Nat
      /\ Cardinality(Sessions) \in Nat /\ MaxCount \in Nat
      /\ Cardinality(T) <= MaxCount
  BY <1>1, MetricsAssumption, FS_CardinalityType
<1>3. CASE Gauge(c, 1) /\ T = S \cup {s} /\ s \notin S
  <2>1. Cardinality(T) = Cardinality(S) + 1
    BY <1>1, <1>3, OneMore
  <2>2. (Cardinality(S) + 1) % (MaxCount + 1) = Cardinality(T)
    BY <1>2, <2>1
  <2> QED
    BY <1>2, <1>3, <2>2 DEF Gauge
<1>4. CASE Gauge(c, -1) /\ T = S \ {s} /\ s \in S
  <2>1. Cardinality(T) = Cardinality(S) - 1
    BY <1>1, <1>4, OneMore
  <2>2. (Cardinality(S) + -1) % (MaxCount + 1) = Cardinality(T)
    BY <1>2, <2>1
  <2> QED
    BY <1>2, <1>4, <2>2 DEF Gauge
<1> QED
  BY <1>3, <1>4

(* A total below its maximum is bumped by one, and nothing else changes.     *)
LEMMA BumpCounts ==
  ASSUME counters \in [Counters -> 0 .. MaxCount], NEW c \in Counters, Bump(c)
  PROVE  /\ counters' \in [Counters -> 0 .. MaxCount]
         /\ counters[c] < MaxCount => counters'[c] = counters[c] + 1
         /\ \A d \in Counters \ {c} : counters'[d] = counters[d]
BY MetricsAssumption DEF Bump, saturating_add

(* No session has been counted at first.                                     *)
LEMMA InitAccountInv == Init => AccountInv
<1> SUFFICES ASSUME Init PROVE AccountInv
  OBVIOUS
<1>1. Active = {} /\ Moving = {} /\ Pending = {}
  BY DEF Init, Active, Moving, Pending, In, Ended
<1>2. Tried = {}
  BY MetricsAssumption DEF Init, Tried
<1>3. \A c \in Counters : counters[c] = 0
  BY DEF Init
<1> QED
  BY <1>1, <1>2, <1>3, FS_EmptySet, MetricsAssumption DEF Init, AccountInv, Counters, Totals, Settled

(* A step of one session that leaves every total alone and its attempt as    *)
(* pending as it was keeps the accounts if it keeps the two gauges.          *)
LEMMA AccountGauges ==
  ASSUME AccountInv, counters' \in [Counters -> 0 .. MaxCount],
         DOMAIN at' = Sessions, UNCHANGED <<succeeded, uploads>>,
         \A s \in Sessions : at'[s] \in {"attempted", "moving"} => ~succeeded[s],
         \A d \in Totals \ {"sessions_total"} : counters'[d] = counters[d],
         Pending' = Pending,
         counters'["sessions_active"] = Cardinality(Active'),
         counters'["uploads_active"] = Cardinality(Moving')
  PROVE  AccountInv'
<1>1. Tried' = Tried
  BY DEF Tried
<1>2. /\ counters'["uploads_started_total"] = counters["uploads_started_total"]
      /\ counters'["uploads_completed_total"] = counters["uploads_completed_total"]
      /\ counters'["uploads_failed_total"] = counters["uploads_failed_total"]
  BY DEF Totals
<1> QED
  BY <1>1, <1>2 DEF AccountInv, Settled

(* The steps that change no gauge and settle no attempt.                     *)
LEMMA QuietAccounts ==
  ASSUME AccountInv, NEW s \in Sessions,
         CountSession(s) \/ Tell(s, {"confirmed"}, "leaving") \/ LeaveArm(s)
  PROVE  AccountInv'
<1>1. /\ counters' \in [Counters -> 0 .. MaxCount]
      /\ \A d \in Counters \ {"sessions_total"} : counters'[d] = counters[d]
  <2>1. CASE CountSession(s)
    BY <2>1, BumpCounts DEF CountSession, AccountInv, Counters, Totals
  <2>2. CASE UNCHANGED counters
    BY <2>2 DEF AccountInv
  <2> QED
    BY <2>1, <2>2 DEF Tell, LeaveArm
<1>2. UNCHANGED <<succeeded, uploads>>
  BY DEF CountSession, Tell, LeaveArm
<1>3. /\ DOMAIN at' = Sessions
      /\ \A t \in Sessions : at'[t] \in {"attempted", "moving"} => ~succeeded[t]
      /\ Active' = Active /\ Moving' = Moving
      /\ \A t \in Sessions : Ended(t)' <=> Ended(t)
  BY DEF CountSession, Tell, LeaveArm, Goes, AccountInv, Active, Moving, In, Ended
<1>4. Pending' = Pending
  BY <1>2, <1>3, Zenon DEF Pending
<1>5. /\ counters'["sessions_active"] = Cardinality(Active')
      /\ counters'["uploads_active"] = Cardinality(Moving')
  BY <1>1, <1>3 DEF AccountInv, Counters, Totals
<1>6. \A d \in Totals \ {"sessions_total"} : counters'[d] = counters[d]
  BY <1>1 DEF Counters
<1> QED
  BY <1>1, <1>2, <1>3, <1>4, <1>5, <1>6, AccountGauges

(* The steps of the SessionGuard.                                            *)
LEMMA SessionGuardAccounts ==
  ASSUME AccountInv, NEW s \in Sessions, RaiseSessions(s) \/ EndSession(s)
  PROVE  AccountInv'
<1> DEFINE c == "sessions_active"
<1>1. /\ UNCHANGED <<succeeded, uploads>> /\ DOMAIN at' = Sessions
      /\ \A t \in Sessions : at'[t] \in {"attempted", "moving"} => ~succeeded[t]
      /\ Moving' = Moving
      /\ \A t \in Sessions : Ended(t)' <=> Ended(t)
  BY DEF RaiseSessions, EndSession, Goes, AccountInv, Moving, In, Ended
<1>2. \/ Gauge(c, 1) /\ Active' = Active \cup {s} /\ s \notin Active
      \/ Gauge(c, -1) /\ Active' = Active \ {s} /\ s \in Active
  BY DEF RaiseSessions, EndSession, Goes, AccountInv, Active, In
<1>3. /\ Active \subseteq Sessions /\ Active' \subseteq Sessions
      /\ counters \in [Counters -> 0 .. MaxCount] /\ c \in Counters
      /\ counters[c] = Cardinality(Active)
  BY DEF Active, AccountInv, Counters
<1>4. /\ counters' \in [Counters -> 0 .. MaxCount] /\ counters'[c] = Cardinality(Active')
      /\ \A d \in Counters \ {c} : counters'[d] = counters[d]
  <2> HIDE DEF c
  <2> QED
    BY <1>2, <1>3, GaugeCounts
<1>5. Pending' = Pending
  BY <1>1, Zenon DEF Pending
<1>6. /\ counters'["uploads_active"] = Cardinality(Moving')
      /\ \A d \in Totals \ {"sessions_total"} : counters'[d] = counters[d]
  BY <1>1, <1>4 DEF AccountInv, Counters, Totals
<1> QED
  BY <1>1, <1>4, <1>5, <1>6, AccountGauges

(* The steps of the UploadGuard.                                             *)
LEMMA UploadGuardAccounts ==
  ASSUME AccountInv, NEW s \in Sessions, RaiseUploads(s) \/ DropUploadGuard(s)
  PROVE  AccountInv'
<1> DEFINE c == "uploads_active"
<1>1. /\ UNCHANGED <<succeeded, uploads>> /\ DOMAIN at' = Sessions
      /\ \A t \in Sessions : at'[t] \in {"attempted", "moving"} => ~succeeded[t]
      /\ Active' = Active
      /\ \A t \in Sessions : Ended(t)' <=> Ended(t)
  BY DEF RaiseUploads, DropUploadGuard, Goes, AccountInv, Active, In, Ended
<1>2. \/ Gauge(c, 1) /\ Moving' = Moving \cup {s} /\ s \notin Moving
      \/ Gauge(c, -1) /\ Moving' = Moving \ {s} /\ s \in Moving
  BY DEF RaiseUploads, DropUploadGuard, Goes, AccountInv, Moving, In
<1>3. /\ Moving \subseteq Sessions /\ Moving' \subseteq Sessions
      /\ counters \in [Counters -> 0 .. MaxCount] /\ c \in Counters
      /\ counters[c] = Cardinality(Moving)
  BY DEF Moving, In, AccountInv, Counters
<1>4. /\ counters' \in [Counters -> 0 .. MaxCount] /\ counters'[c] = Cardinality(Moving')
      /\ \A d \in Counters \ {c} : counters'[d] = counters[d]
  <2> HIDE DEF c
  <2> QED
    BY <1>2, <1>3, GaugeCounts
<1>5. Pending' = Pending
  BY <1>1, Zenon DEF Pending
<1>6. /\ counters'["sessions_active"] = Cardinality(Active')
      /\ \A d \in Totals \ {"sessions_total"} : counters'[d] = counters[d]
  BY <1>1, <1>4 DEF AccountInv, Counters, Totals
<1> QED
  BY <1>1, <1>4, <1>5, <1>6, AccountGauges

(* An attempt is counted as started and becomes pending.                     *)
LEMMA AttemptAccounts ==
  ASSUME AccountInv, NEW s \in Sessions, Attempt(s)
  PROVE  AccountInv'
<1> DEFINE c == "uploads_started_total"
<1>1. /\ at[s] = "idle" /\ at' = [at EXCEPT ![s] = "attempted"]
      /\ Bump(c) /\ uploads[s] < MaxUploads
      /\ succeeded' = [succeeded EXCEPT ![s] = FALSE]
      /\ uploads' = [uploads EXCEPT ![s] = uploads[s] + 1]
  BY DEF Attempt, Goes
<1>2. /\ DOMAIN at = Sessions /\ DOMAIN succeeded = Sessions
      /\ uploads \in [Sessions -> 0 .. MaxUploads] /\ MaxUploads \in Nat
      /\ counters \in [Counters -> 0 .. MaxCount] /\ c \in Counters
  BY MetricsAssumption DEF AccountInv, Counters, Totals
<1>3. /\ DOMAIN at' = Sessions /\ DOMAIN succeeded' = Sessions
      /\ uploads' \in [Sessions -> 0 .. MaxUploads]
      /\ Active' = Active /\ Moving' = Moving
  BY <1>1, <1>2 DEF Active, Moving, In
<1>4. /\ at'[s] = "attempted" /\ ~succeeded'[s]
      /\ \A t \in Sessions \ {s} : at'[t] = at[t] /\ succeeded'[t] = succeeded[t]
  BY <1>1, <1>2
<1>5. \A t \in Sessions : at'[t] \in {"attempted", "moving"} => ~succeeded'[t]
  BY <1>4, Zenon DEF AccountInv
<1>6. Pending' = Pending \cup {s} /\ s \notin Pending
  BY <1>1, <1>4 DEF Pending, Ended
<1>7. Tried' = Tried \cup {<<s, uploads[s] + 1>>} /\ <<s, uploads[s] + 1>> \notin Tried
  <2>1. uploads[s] + 1 \in 1 .. MaxUploads /\ uploads'[s] = uploads[s] + 1
    BY <1>1, <1>2
  <2>2. \A t \in Sessions \ {s} : uploads'[t] = uploads[t]
    BY <1>1, <1>2
  <2>3. \A k \in 1 .. MaxUploads : k <= uploads'[s] <=> k <= uploads[s] \/ k = uploads[s] + 1
    BY <1>2, <2>1
  <2>4. ASSUME NEW t \in Sessions, NEW k \in 1 .. MaxUploads
        PROVE  <<t, k>> \in Tried' <=> <<t, k>> \in Tried \/ <<t, k>> = <<s, uploads[s] + 1>>
    BY <2>2, <2>3 DEF Tried
  <2>5. <<s, uploads[s] + 1>> \in Sessions \X (1 .. MaxUploads)
    BY <2>1
  <2>6. /\ Tried' \subseteq Sessions \X (1 .. MaxUploads)
        /\ Tried \subseteq Sessions \X (1 .. MaxUploads)
    BY DEF Tried
  <2>7. ASSUME NEW u \in Sessions \X (1 .. MaxUploads)
        PROVE  u \in Tried' <=> u \in Tried \/ u = <<s, uploads[s] + 1>>
    BY <2>4
  <2>8. <<s, uploads[s] + 1>> \notin Tried
    BY <1>2 DEF Tried
  <2> QED
    BY <2>5, <2>6, <2>7, <2>8
<1>8. /\ Cardinality(Pending) \in Nat /\ Cardinality(Tried) \in Nat
      /\ Cardinality(Pending') = Cardinality(Pending) + 1
      /\ Cardinality(Tried') = Cardinality(Tried) + 1
  BY <1>6, <1>7, FiniteAccounts, OneMore
<1>9. /\ counters' \in [Counters -> 0 .. MaxCount]
      /\ counters[c] < MaxCount => counters'[c] = counters[c] + 1
      /\ \A d \in Counters \ {c} : counters'[d] = counters[d]
  BY <1>1, <1>2, BumpCounts
<1>10. /\ counters'["sessions_active"] = Cardinality(Active')
       /\ counters'["uploads_active"] = Cardinality(Moving')
       /\ Settled' = Settled /\ Settled \in Nat
  BY <1>2, <1>3, <1>9, MetricsAssumption DEF AccountInv, Counters, Totals, Settled
<1>11. ASSUME Cardinality(Tried') <= MaxCount
       PROVE  /\ counters'[c] = Cardinality(Tried')
              /\ Cardinality(Tried') = Settled' + Cardinality(Pending')
  <2>1. counters[c] = Cardinality(Tried) /\ Cardinality(Tried) = Settled + Cardinality(Pending)
    BY <1>8, <1>11, MetricsAssumption DEF AccountInv
  <2> QED
    BY <1>8, <1>9, <1>10, <1>11, <2>1, MetricsAssumption
<1> QED
  BY <1>3, <1>5, <1>9, <1>10, <1>11 DEF AccountInv

(* A pending attempt is settled by one bump of one of two totals, which is   *)
(* below its maximum as long as the attempts are.                            *)
LEMMA SettleAccounts ==
  ASSUME AccountInv, NEW s \in Sessions, s \in Pending, Pending' = Pending \ {s},
         NEW c \in {"uploads_completed_total", "uploads_failed_total"}, Bump(c),
         DOMAIN at' = Sessions, DOMAIN succeeded' = Sessions, UNCHANGED uploads,
         \A t \in Sessions : at'[t] \in {"attempted", "moving"} => ~succeeded'[t],
         Active' = Active, Moving' = Moving
  PROVE  AccountInv'
<1>1. counters \in [Counters -> 0 .. MaxCount] /\ c \in Counters
  BY DEF AccountInv, Counters, Totals
<1>2. /\ counters' \in [Counters -> 0 .. MaxCount]
      /\ counters[c] < MaxCount => counters'[c] = counters[c] + 1
      /\ \A d \in Counters \ {c} : counters'[d] = counters[d]
  BY <1>1, BumpCounts
<1>3. Tried' = Tried
  BY DEF Tried
<1>4. /\ Cardinality(Pending) \in Nat /\ Cardinality(Tried) \in Nat
      /\ Cardinality(Pending') = Cardinality(Pending) - 1
      /\ Cardinality(Pending') \in Nat
  <2>1. IsFiniteSet(Pending')
    BY FiniteAccounts, FS_Subset
  <2> QED
    BY <2>1, FiniteAccounts, OneMore
<1>5. /\ counters'["sessions_active"] = Cardinality(Active')
      /\ counters'["uploads_active"] = Cardinality(Moving')
      /\ counters'["uploads_started_total"] = counters["uploads_started_total"]
  BY <1>2 DEF AccountInv, Counters, Totals
<1>6. /\ counters["uploads_completed_total"] \in Nat
      /\ counters["uploads_failed_total"] \in Nat
  BY <1>1, MetricsAssumption DEF Counters, Totals
<1>7. ASSUME Cardinality(Tried) <= MaxCount
      PROVE  Cardinality(Tried) = Settled' + Cardinality(Pending')
  <2>1. Cardinality(Tried) = Settled + Cardinality(Pending)
    BY <1>7 DEF AccountInv
  <2>2. counters[c] < MaxCount
    BY <1>4, <1>6, <1>7, <2>1, MetricsAssumption DEF Settled
  <2>3. Settled' = Settled + 1
    BY <1>2, <1>6, <2>2 DEF Settled, Counters, Totals
  <2>4. Settled \in Nat
    BY <1>6 DEF Settled
  <2> QED
    BY <1>4, <2>1, <2>3, <2>4
<1> QED
  BY <1>2, <1>3, <1>5, <1>7 DEF AccountInv

(* A confirmation settles an attempt.                                        *)
LEMMA SucceedAccounts ==
  ASSUME AccountInv, NEW s \in Sessions, Succeed(s, {"moving"}, "confirmed")
  PROVE  AccountInv'
<1>1. /\ at[s] = "moving" /\ at' = [at EXCEPT ![s] = "confirmed"]
      /\ Bump("uploads_completed_total") /\ UNCHANGED uploads
      /\ succeeded' = [succeeded EXCEPT ![s] = TRUE]
  BY DEF Succeed, Goes
<1>2. /\ DOMAIN at = Sessions /\ DOMAIN succeeded = Sessions /\ ~succeeded[s]
  BY <1>1 DEF AccountInv
<1>3. /\ at'[s] = "confirmed" /\ succeeded'[s]
      /\ \A t \in Sessions \ {s} : at'[t] = at[t] /\ succeeded'[t] = succeeded[t]
      /\ DOMAIN at' = Sessions /\ DOMAIN succeeded' = Sessions
  BY <1>1, <1>2
<1>4. Active' = Active /\ Moving' = Moving
  BY <1>1, <1>3 DEF Active, Moving, In
<1>5. s \in Pending /\ Pending' = Pending \ {s}
  BY <1>1, <1>2, <1>3 DEF Pending, Ended
<1>6. \A t \in Sessions : at'[t] \in {"attempted", "moving"} => ~succeeded'[t]
  BY <1>3 DEF AccountInv
<1> QED
  BY <1>1, <1>3, <1>4, <1>5, <1>6, SettleAccounts

(* The drop of an UploadAttempt settles it unless it has succeeded.          *)
LEMMA DropAccounts ==
  ASSUME AccountInv, NEW s \in Sessions, DropAttempt(s)
  PROVE  AccountInv'
<1>1. /\ at[s] = "dropping" /\ at' = [at EXCEPT ![s] = "idle"]
      /\ UNCHANGED <<succeeded, uploads>>
      /\ DOMAIN at = Sessions /\ DOMAIN succeeded = Sessions
  BY DEF DropAttempt, Fail, Goes, AccountInv
<1>2. /\ at'[s] = "idle" /\ DOMAIN at' = Sessions /\ DOMAIN succeeded' = Sessions
      /\ \A t \in Sessions \ {s} : at'[t] = at[t]
  BY <1>1
<1>3. Active' = Active /\ Moving' = Moving
  BY <1>1, <1>2 DEF Active, Moving, In
<1>4. Pending' = Pending \ {s}
  BY <1>1, <1>2 DEF Pending, Ended
<1>5. \A t \in Sessions : at'[t] \in {"attempted", "moving"} => ~succeeded'[t]
  BY <1>1, <1>2 DEF AccountInv
<1>6. CASE ~succeeded[s]
  <2>1. s \in Pending
    BY <1>1, <1>6 DEF Pending, Ended
  <2>2. Bump("uploads_failed_total")
    BY <1>6 DEF DropAttempt, Fail
  <2> QED
    BY <1>1, <1>2, <1>3, <1>4, <1>5, <2>1, <2>2, SettleAccounts
<1>7. CASE succeeded[s]
  <2>1. Pending' = Pending
    BY <1>4, <1>7 DEF Pending
  <2>2. UNCHANGED counters
    BY <1>7 DEF DropAttempt, Fail
  <2> QED
    BY <1>1, <1>2, <1>3, <1>5, <2>1, <2>2, AccountGauges DEF AccountInv
<1> QED
  BY <1>6, <1>7

(* The accounts are inductive; the endpoint changes none of them.            *)
LEMMA NextAccountInv == AccountInv /\ [Next]_vars => AccountInv'
<1> SUFFICES ASSUME AccountInv, [Next]_vars PROVE AccountInv'
  OBVIOUS
<1>1. CASE UNCHANGED <<counters, session>>
  BY <1>1 DEF session, AccountInv, Active, Moving, Pending, Tried, Settled, In, Ended
<1>2. AcceptRequest \/ ReadRequest \/ Refuse \/ WriteResponse \/ (\E c \in Watched : Load(c))
        => UNCHANGED <<counters, session>>
  BY Zenon DEF AcceptRequest, ReadRequest, Refuse, WriteResponse, Load
<1>3. UNCHANGED vars => UNCHANGED <<counters, session>>
  BY DEF vars
<1> QED
  BY <1>1, <1>2, <1>3, QuietAccounts, SessionGuardAccounts, UploadGuardAccounts,
     AttemptAccounts, SucceedAccounts, DropAccounts DEF Next, Confirmed

(* "no exit path can forget to" (metrics.rs:87): the gauges are the sessions *)
(* and uploads that hold their guards, and every attempt is in progress or   *)
(* counted once as completed or failed, for any number of sessions.          *)
THEOREM AccountsBalance == Spec => []CountersAccounted
<1>1. AccountInv => CountersAccounted
  BY DEF AccountInv, CountersAccounted, Attempts, Active, Moving, Pending, Tried, Settled
<1> QED
  BY <1>1, InitAccountInv, NextAccountInv, PTL DEF Spec
=============================================================================
