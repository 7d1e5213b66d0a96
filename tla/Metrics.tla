------------------------------ MODULE Metrics ------------------------------
(***************************************************************************)
(* The counters (src/metrics.rs) as the sessions change them and as the    *)
(* metrics endpoint (src/server/metrics_server.rs) reads them.  Every      *)
(* action on a counter is one atomic operation.  All are Relaxed, so a     *)
(* request may see the counters in any order, whatever order render names  *)
(* them in.  The counters left out (the bytes, the failures by kind) are   *)
(* bumped alone and read alike.  The port pool's and the rotator's figures *)
(* are read under their own locks before.                                  *)
(***************************************************************************)
EXTENDS Integers, FiniteSets

CONSTANTS Sessions,     \* the session tasks
          MaxUploads,   \* uploads a session makes at most
          MaxCount,     \* u64::MAX
          Watched       \* the totals whose values in an answer are kept; a load
                        \* of one has nothing to do with that of another

ASSUME MetricsAssumption ==
  /\ IsFiniteSet(Sessions)
  /\ MaxUploads \in Nat /\ MaxCount \in Nat
  /\ Cardinality(Sessions) <= MaxCount

Totals   == {"sessions_total", "uploads_started_total", "uploads_completed_total",
             "uploads_failed_total"}
Counters == Totals \cup {"sessions_active", "uploads_active"}

ASSUME WatchedAssumption == Watched \subseteq Totals

VARIABLES
  counters,
  at,         \* the step each session task is at
  succeeded,  \* the flag of its UploadAttempt
  uploads,    \* how many uploads it has attempted
  told,       \* how many confirmations clients have received
  request,    \* the step the endpoint's request is at
  toldBefore, \* `told` when the request came
  shown,      \* the counters render has loaded so far
  scraped     \* what the last answer showed

session  == <<at, succeeded, uploads, told>>
endpoint == <<request, toldBefore, shown, scraped>>
vars     == <<counters, session, endpoint>>

Init ==
  /\ counters = [c \in Counters |-> 0]
  /\ at = [s \in Sessions |-> "accepted"]
  /\ succeeded = [s \in Sessions |-> FALSE]
  /\ uploads = [s \in Sessions |-> 0]
  /\ told = 0
  /\ request = "none"
  /\ toldBefore = 0
  /\ shown = <<>>
  /\ scraped = [c \in Watched |-> 0]

-----------------------------------------------------------------------------
saturating_add_wraps(n, delta) == (n + delta) % (MaxCount + 1)
saturating_add(n, delta) == IF n + delta > MaxCount THEN MaxCount ELSE n + delta

Bump(c) == counters' = [counters EXCEPT ![c] = saturating_add(@, 1)]

(* fetch_add and fetch_sub of a gauge.                                       *)
Gauge(c, delta) == counters' = [counters EXCEPT ![c] = (@ + delta) % (MaxCount + 1)]

Goes(s, from, to) == at[s] \in from /\ at' = [at EXCEPT ![s] = to]

-----------------------------------------------------------------------------
(* session_started: two operations.                                          *)
CountSession(s) ==
  /\ Goes(s, {"accepted"}, "counted")
  /\ Bump("sessions_total")
  /\ UNCHANGED <<succeeded, uploads, told, endpoint>>

RaiseSessions(s) ==
  /\ Goes(s, {"counted"}, "idle")
  /\ Gauge("sessions_active", 1)
  /\ UNCHANGED <<succeeded, uploads, told, endpoint>>

(* upload_attempted: STOR is about to be sent.                               *)
Attempt(s) ==
  /\ uploads[s] < MaxUploads
  /\ Goes(s, {"idle"}, "attempted")
  /\ Bump("uploads_started_total")
  /\ succeeded' = [succeeded EXCEPT ![s] = FALSE]
  /\ uploads' = [uploads EXCEPT ![s] = @ + 1]
  /\ UNCHANGED <<told, endpoint>>

(* upload_started: the backend said 150.                                     *)
RaiseUploads(s) ==
  /\ Goes(s, {"attempted"}, "moving")
  /\ Gauge("uploads_active", 1)
  /\ UNCHANGED <<succeeded, uploads, told, endpoint>>

(* A 2yz completion: UploadAttempt::succeeded.                               *)
Succeed(s, from, to) ==
  /\ Goes(s, from, to)
  /\ Bump("uploads_completed_total")
  /\ succeeded' = [succeeded EXCEPT ![s] = TRUE]
  /\ UNCHANGED <<uploads, told, endpoint>>

Tell(s, from, to) ==
  /\ Goes(s, from, to)
  /\ told' = told + 1
  /\ UNCHANGED <<counters, succeeded, uploads, endpoint>>

Confirmed_TellsFirst(s) == Tell(s, {"moving"}, "confirmed") \/ Succeed(s, {"confirmed"}, "leaving")

(* It is counted first; then the client is told, or its connection is gone.  *)
Confirmed(s) == Succeed(s, {"moving"}, "confirmed") \/ Tell(s, {"confirmed"}, "leaving")

(* Any other way out of the STOR arm: another completion, an error, a break, *)
(* a client that cannot be told, a panic.                                    *)
LeaveArm(s) ==
  /\ \/ Goes(s, {"attempted"}, "dropping")
     \/ Goes(s, {"moving", "confirmed"}, "leaving")
  /\ UNCHANGED <<counters, succeeded, uploads, told, endpoint>>

(* Drop of the UploadGuard ...                                               *)
DropUploadGuard(s) ==
  /\ Goes(s, {"leaving"}, "dropping")
  /\ Gauge("uploads_active", -1)
  /\ UNCHANGED <<succeeded, uploads, told, endpoint>>

Fail(s, failed) ==
  /\ Goes(s, {"dropping"}, "idle")
  /\ IF failed THEN Bump("uploads_failed_total") ELSE UNCHANGED counters
  /\ UNCHANGED <<succeeded, uploads, told, endpoint>>

DropAttempt_Always(s) == Fail(s, TRUE)

(* ... and then of the UploadAttempt.                                        *)
DropAttempt(s) == Fail(s, ~succeeded[s])

(* Drop of the SessionGuard.                                                 *)
EndSession(s) ==
  /\ Goes(s, {"idle"}, "gone")
  /\ Gauge("sessions_active", -1)
  /\ UNCHANGED <<succeeded, uploads, told, endpoint>>

-----------------------------------------------------------------------------
(* `run`: a client of the endpoint is accepted and gets a task.              *)
AcceptRequest ==
  /\ request = "none"
  /\ request' = "reading"
  /\ toldBefore' = told
  /\ UNCHANGED <<counters, session, shown, scraped>>

(* handle_request: the client closes, fails or takes too long; the request   *)
(* is malformed, not a GET, or not for /metrics; or it is one to answer.     *)
ReadRequest ==
  /\ request = "reading"
  /\ request' \in {"none", "refusing", "rendering"}
  /\ toldBefore' = IF request' = "rendering" THEN toldBefore ELSE 0
  /\ UNCHANGED <<counters, session, shown, scraped>>

(* 400, 404 or 405.                                                          *)
Refuse ==
  /\ request = "refusing"
  /\ request' = "none"
  /\ UNCHANGED <<counters, session, toldBefore, shown, scraped>>

(* render_gateway_metrics loads a counter.                                   *)
Load(c) ==
  /\ request = "rendering"
  /\ c \notin DOMAIN shown
  /\ shown' = [d \in DOMAIN shown \cup {c} |-> IF d = c THEN counters[c] ELSE shown[d]]
  /\ UNCHANGED <<counters, session, request, toldBefore, scraped>>

(* write_response, which may fail.                                           *)
WriteResponse ==
  /\ request = "rendering"
  /\ DOMAIN shown = Watched
  /\ request' = "none"
  /\ scraped' \in {shown, scraped}
  /\ shown' = <<>> /\ toldBefore' = 0
  /\ UNCHANGED <<counters, session>>

-----------------------------------------------------------------------------
Next ==
  \/ \E s \in Sessions :
       \/ CountSession(s) \/ RaiseSessions(s) \/ EndSession(s)
       \/ Attempt(s) \/ RaiseUploads(s) \/ Confirmed(s) \/ LeaveArm(s)
       \/ DropUploadGuard(s) \/ DropAttempt(s)
  \/ AcceptRequest \/ ReadRequest \/ Refuse \/ WriteResponse
  \/ \E c \in Watched : Load(c)

Spec == Init /\ [][Next]_vars

-----------------------------------------------------------------------------
(* Every variable has its type.                                              *)
TypeOK ==
  /\ counters \in [Counters -> 0 .. MaxCount]
  /\ at \in [Sessions -> {"accepted", "counted", "idle", "attempted", "moving",
                          "confirmed", "leaving", "dropping", "gone"}]
  /\ succeeded \in [Sessions -> BOOLEAN]
  /\ uploads \in [Sessions -> 0 .. MaxUploads]
  /\ told \in Nat /\ toldBefore \in 0 .. told
  /\ request \in {"none", "reading", "refusing", "rendering"}
  /\ DOMAIN shown \subseteq Watched
  /\ scraped \in [Watched -> 0 .. MaxCount]

In(places) == {s \in Sessions : at[s] \in places}

Ended(s) == at[s] \notin {"attempted", "moving", "confirmed", "leaving", "dropping"}

(* The uploads attempted: each session's first, second, ...                  *)
Attempts == Cardinality({u \in Sessions \X (1 .. MaxUploads) : u[2] <= uploads[u[1]]})

(* "The counters on `/metrics` must reflect what really happened to a        *)
(* session" (tests/metrics_outcomes.rs) and "no exit path can forget to"     *)
(* (metrics.rs:87): a gauge is the number of sessions or uploads that hold   *)
(* its guard, and every upload started is either in progress or counted once,*)
(* as completed or as failed.                                                *)
CountersAccounted ==
  /\ counters["sessions_active"] = Cardinality(Sessions \ In({"accepted", "counted", "gone"}))
  /\ counters["uploads_active"] = Cardinality(In({"moving", "confirmed", "leaving"}))
  /\ Attempts <= MaxCount =>
       /\ counters["uploads_started_total"] = Attempts
       /\ Attempts = counters["uploads_completed_total"] + counters["uploads_failed_total"]
                     + Cardinality({s \in Sessions : ~Ended(s) /\ ~succeeded[s]})

(* "cumulative counters that must never decrease" (metrics.rs:304): from one *)
(* answer to the next no total goes down, at u64::MAX either.                *)
NeverDecreases ==
  [][\A c \in Watched : scraped'[c] >= scraped[c]]_vars

(* A client that has been told its upload is complete finds it in the next   *)
(* scrape: the answer to a request shows every upload that had been          *)
(* confirmed to a client when the request came.                              *)
ToldIsCounted ==
  request = "rendering" /\ "uploads_completed_total" \in DOMAIN shown =>
    \/ shown["uploads_completed_total"] >= toldBefore
    \/ shown["uploads_completed_total"] = MaxCount
=============================================================================
