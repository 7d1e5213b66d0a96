------------------------------- MODULE Upload -------------------------------
(***************************************************************************)
(* One upload from the backend's 150 on: the data relay (Relay) composed   *)
(* with what session.rs does around it, the byte count, the wait for the   *)
(* backend's completion reply and the outcome.  The backend stores what    *)
(* reaches it on the data connection and reports on it.                    *)
(***************************************************************************)
EXTENDS Relay

VARIABLES
  stage,     \* relaying, waiting for the completion reply, or over
  report,    \* the backend's completion reply, once it is sent
  stored,    \* chunks the backend has stored when it sends it
  counted,   \* chunks added to upload_bytes_total
  outcome    \* what the UploadAttempt records

upload  == <<stage, report, stored, counted, outcome>>
allVars == <<relayVars, upload>>

UploadInit ==
  /\ RelayInit
  /\ stage = "relaying"
  /\ report = "none"
  /\ stored = 0
  /\ counted = 0
  /\ outcome = "none"

-----------------------------------------------------------------------------
(* The data connection ends for the backend: the relay shut it down, or      *)
(* failed, and the BackendStream was dropped.                                *)
BackendSeesEnd ==
  /\ got["up"] = put["up"]
  /\ at["up"] = "done" \/ stage # "relaying"

(* The backend's reply (external): it confirms only a file that has ended,   *)
(* and may give up at any time.                                              *)
BackendReports(c) ==
  /\ report = "none"
  /\ c = "2" => BackendSeesEnd
  /\ report' = c
  /\ stored' = got["up"]
  /\ UNCHANGED <<relayVars, stage, counted, outcome>>

(* relay_bidirectional returned; the bytes count only if it did with Ok.     *)
RelayReturns ==
  /\ stage = "relaying" /\ result # "running"
  /\ stage' = "completion"
  /\ counted' = IF result = "ok" THEN put["up"] ELSE 0
  /\ UNCHANGED <<relayVars, report, stored, outcome>>

Over(how) ==
  /\ stage = "completion"
  /\ stage' = "over"
  /\ outcome' = how
  /\ UNCHANGED <<relayVars, report, stored, counted>>

(* The completion reply is read: a 2yz is a success, whatever the relay was. *)
Completion == report # "none" /\ Over(IF report = "2" THEN "completed" ELSE "failed")

(* No completion in command_timeout, end of file (426), or an I/O error.     *)
CompletionLost == Over("failed")

AwaitCompletion == Completion \/ CompletionLost

-----------------------------------------------------------------------------
UploadNext ==
  \/ RelayNext /\ UNCHANGED upload
  \/ RelayReturns \/ AwaitCompletion
  \/ \E c \in {"2", "5"} : BackendReports(c)

UploadSpec == UploadInit /\ [][UploadNext]_allVars

(* The task is polled, its timers fire, and the peers read what they are     *)
(* sent.  Without the last, a blocked write_all holds the upload for ever.   *)
FairUploadSpec ==
  /\ UploadSpec
  /\ WF_allVars(Loop /\ UNCHANGED upload)
  /\ WF_allVars(Tick /\ UNCHANGED upload)
  /\ \A d \in Direction : WF_allVars(SinkReceives(d) /\ UNCHANGED upload)
  /\ WF_allVars(RelayReturns)
  /\ WF_allVars(AwaitCompletion)

-----------------------------------------------------------------------------
(* Every variable has its type, those of the relay included.                 *)
UploadTypeOK ==
  /\ RelayTypeOK
  /\ stage \in {"relaying", "completion", "over"}
  /\ report \in {"none", "2", "5"}
  /\ stored \in 0 .. Chunks /\ counted \in 0 .. Chunks
  /\ outcome \in {"none", "completed", "failed"}

(* An upload counted as completed after a relay that succeeded is whole: the *)
(* backend confirmed it with all the client sent in store, and that is what  *)
(* upload_bytes_total was raised by.  Nothing of the kind holds after a      *)
(* relay that failed: the backend sees end of file and may confirm what it   *)
(* has, which is then counted as completed with no bytes (metrics.rs:339).   *)
ConfirmedIsWhole ==
  outcome = "completed" =>
    IF result = "ok" THEN stored = sent["up"] /\ counted = sent["up"] ELSE counted = 0

(* An upload is over some day, its port and slot given back, though the      *)
(* client or the backend falls silent at any point.                          *)
UploadEnds == <>(stage = "over")
=============================================================================
