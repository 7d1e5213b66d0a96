--------------------------- MODULE SessionProofs ---------------------------
(***************************************************************************)
(* A session, for every configuration and any number of uploads.  What it  *)
(* holds, counts and secures does not depend on the lines the backend      *)
(* sends (SessionSafe); that replies stay in step is proved for a backend  *)
(* whose replies have one line each (RepliesSafe); the types are kept with *)
(* either backend (SessionTypes).                                          *)
(***************************************************************************)
EXTENDS Session, SequenceTheorems, TLAPS

(* The places of the STOR arm, where the task owns the guard of a port.      *)
Storing == {"accept", "slot", "epsv", "pasv", "connectData"} \cup Uploading

HeldSpace == [active_pasv : BOOLEAN, guard : BOOLEAN, slot : BOOLEAN,
              client_data : {"none", "own", "other"}, backend_data : {"none", "plain", "tls"}]

CountSpace == [started : Nat, completed : Nat, failed : Nat, attempt : BOOLEAN, active : Nat]

Types ==
  /\ conf \in ConfigSpace /\ pc \in Location
  /\ held \in HeldSpace /\ uploads \in CountSpace

(* Outside the STOR arm the task owns no more than the port it announced;    *)
(* inside it has given that up for the guard, and the slot comes last.       *)
Ownership ==
  /\ pc \in Storing => held.guard /\ ~held.active_pasv
  /\ pc \notin Storing => ~held.guard /\ ~held.slot /\ held.client_data = "none"
                          /\ held.backend_data = "none"
  /\ pc \in Storing \ {"accept"} => held.client_data # "none"
  /\ pc \in {"accept", "slot"} => ~held.slot
  /\ pc = "slot" \/ held.slot => conf.rotation
  /\ pc \in {"connect", "banner", "done"} \cup Negotiating => ~held.active_pasv

(* Where the control connection is encrypted, and what the transfer waits    *)
(* for.                                                                      *)
Secured ==
  /\ conf.tls /\ pc \in Serving \cup {"pbsz", "prot"} => control = "tls"
  /\ conf.tls /\ pc \in {"dataTls", "relay"} => backend_reply = "1"
  /\ conf.tls /\ pc = "relay" => held.backend_data = "tls"
  /\ conf.ipMatch => held.client_data # "other"

SessionInv == Types /\ Ownership /\ Secured /\ UploadsAccounted

-----------------------------------------------------------------------------
(* What is held is told by its fields.                                       *)
LEMMA SameHeld ==
  ASSUME NEW h \in HeldSpace, NEW g \in HeldSpace,
         h.active_pasv = g.active_pasv, h.guard = g.guard, h.slot = g.slot,
         h.client_data = g.client_data, h.backend_data = g.backend_data
  PROVE  h = g
BY DEF HeldSpace

(* The initial states satisfy the invariant.                                 *)
LEMMA InitSessionInv == Init => SessionInv
<1> SUFFICES ASSUME Init PROVE SessionInv
  OBVIOUS
<1> USE SessionAssumption DEF Init
<1>1. Types
  BY DEF Types, HeldSpace, CountSpace, NothingHeld, Location
<1>2. Ownership
  BY DEF Ownership, NothingHeld, Storing, Uploading
<1>3. Secured
  BY DEF Secured, NothingHeld, Serving, Uploading, Reading
<1>4. UploadsAccounted
  BY DEF UploadsAccounted, Uploading
<1> QED
  BY <1>1, <1>2, <1>3, <1>4 DEF SessionInv

(* Dropping an attempt counts it as failed, once, and lowers the gauge.      *)
LEMMA DroppedCounts ==
  ASSUME SessionInv
  PROVE  /\ Dropped \in CountSpace /\ ~Dropped.attempt /\ Dropped.active = 0
         /\ Dropped.started = Dropped.completed + Dropped.failed
<1>1. CASE uploads.attempt
  <2>1. /\ uploads.started \in Nat /\ uploads.completed \in Nat /\ uploads.failed \in Nat
        /\ uploads.active = Guarded /\ Guarded \in Nat
        /\ uploads.started = uploads.completed + uploads.failed + 1
    BY <1>1 DEF SessionInv, Types, CountSpace, UploadsAccounted, Guarded
  <2>2. uploads.active - Guarded = 0
    BY <2>1
  <2>3. Dropped = [started |-> uploads.started, completed |-> uploads.completed,
                   failed |-> uploads.failed + 1, attempt |-> FALSE, active |-> 0]
    BY <1>1, <2>2, Zenon DEF SessionInv, Types, CountSpace, Dropped
  <2> QED
    BY <2>1, <2>3 DEF CountSpace
<1>2. CASE ~uploads.attempt
  BY <1>2 DEF SessionInv, Types, CountSpace, UploadsAccounted, Dropped, Uploading
<1> QED
  BY <1>1, <1>2

(* The task returns.                                                         *)
LEMMA EndKeeps == ASSUME SessionInv, End PROVE SessionInv'
<1>1. Types'
  BY DroppedCounts DEF SessionInv, Types, End, NothingHeld, HeldSpace, Location
<1>2. Ownership'
  BY DEF Ownership, SessionInv, Types, End, NothingHeld, Storing, Uploading
<1>3. Secured'
  BY DEF Secured, SessionInv, End, NothingHeld, Serving, Uploading, Reading
<1>4. UploadsAccounted'
  BY DroppedCounts DEF UploadsAccounted, End, Uploading, CountSpace
<1> QED
  BY <1>1, <1>2, <1>3, <1>4 DEF SessionInv

(* The loop goes round, with the control connection secured.                 *)
LEMMA ContinueKeeps ==
  ASSUME SessionInv, Continue, conf.tls => control = "tls" PROVE SessionInv'
<1>1. Types'
  BY DroppedCounts, Zenon DEF SessionInv, Types, Continue, NothingHeld, HeldSpace, Location, Serving
<1>2. Ownership'
  BY DEF Ownership, SessionInv, Types, HeldSpace, Continue, NothingHeld, Storing, Uploading,
         Negotiating
<1>3. Secured'
  BY DEF Secured, SessionInv, Continue, NothingHeld
<1>4. UploadsAccounted'
  BY DroppedCounts DEF UploadsAccounted, Continue, Uploading, CountSpace
<1> QED
  BY <1>1, <1>2, <1>3, <1>4 DEF SessionInv

(* A location where the loop or the session may go next.                     *)
LEMMA AnswerKeeps ==
  ASSUME SessionInv, pc \in Serving \cup {"pbsz", "prot"}, Continue \/ End PROVE SessionInv'
BY EndKeeps, ContinueKeeps DEF SessionInv, Secured

(* A step of the task within the session: it stays where the same is held,   *)
(* counted and required.                                                     *)
LEMMA StepKeeps ==
  ASSUME SessionInv, UNCHANGED conf, pc' \in Location, held' \in HeldSpace,
         UNCHANGED uploads, pc' \in Uploading <=> pc \in Uploading,
         pc' \in {"relay", "completion"} <=> pc \in {"relay", "completion"},
         Ownership', Secured'
  PROVE  SessionInv'
BY DEF SessionInv, Types, UploadsAccounted

(* The steps that change neither what is held nor what is counted.           *)
LEMMA PlainStepsKeep ==
  ASSUME SessionInv, UNCHANGED <<held, uploads>>,
         \/ ConnectOk \/ BannerTls \/ AuthOk \/ HandshakeOk \/ PbszOk
         \/ ForwardOther \/ ForwardQuit \/ ForwardStor \/ EpsvRejected \/ PassiveAddress
  PROVE  SessionInv'
<1> USE DEF Goto, Forward, GotLine, Expected
<1>1. UNCHANGED conf /\ \/ UNCHANGED control
                        \/ control' = "tls"
  BY DEF ConnectOk, BannerTls, AuthOk, HandshakeOk, PbszOk, ForwardOther, ForwardQuit, ForwardStor,
         EpsvRejected, PassiveAddress
<1>2. \/ pc = "connect" /\ pc' = "banner"
      \/ pc = "banner" /\ pc' = "auth"
      \/ pc = "auth" /\ pc' = "handshake"
      \/ pc = "handshake" /\ pc' = "pbsz" /\ control' = "tls"
      \/ pc = "pbsz" /\ pc' = "prot"
      \/ pc = "ready" /\ pc' \in {"reply", "goodbye"}
      \/ pc = "epsv" /\ pc' = "pasv"
      \/ pc \in {"epsv", "pasv"} /\ pc' = "connectData"
  BY DEF ConnectOk, BannerTls, AuthOk, HandshakeOk, PbszOk, ForwardOther, ForwardQuit, ForwardStor,
         EpsvRejected, PassiveAddress
<1>3. Ownership'
  BY <1>1, <1>2 DEF SessionInv, Ownership, Storing, Uploading, Negotiating
<1>4. Secured'
  BY <1>1, <1>2 DEF SessionInv, Secured, Serving, Uploading, Reading
<1>5. /\ pc' \in Location /\ held' \in HeldSpace
      /\ pc' \in Uploading <=> pc \in Uploading
      /\ pc' \in {"relay", "completion"} <=> pc \in {"relay", "completion"}
  BY <1>2 DEF SessionInv, Types, Location, Serving, Negotiating, Reading, Uploading
<1> QED
  BY <1>1, <1>3, <1>4, <1>5, StepKeeps

(* The steps that take or give up what the task holds.                       *)
LEMMA HoldingStepsKeep ==
  ASSUME SessionInv,
         \/ Pasv \/ Stor \/ SlotAcquired \/ RelayEnds
         \/ \E peer \in {"own", "other"} : AcceptData(peer)
         \/ /\ Goto("alloc", "ready") /\ held' = [held EXCEPT !.active_pasv = TRUE]
            /\ UNCHANGED <<control, uploads>>
  PROVE  SessionInv'
<1> USE DEF Goto, SessionInv, Types, HeldSpace, ConfigSpace
<1>1. CASE Pasv
  <2>1. Ownership'
    BY <1>1 DEF Pasv, StartAllocate, Ownership, Storing, Uploading, Negotiating
  <2>2. Secured'
    BY <1>1 DEF Pasv, StartAllocate, Secured, Serving, Uploading, Reading
  <2> QED
    BY <1>1, <2>1, <2>2, StepKeeps, Zenon
       DEF Pasv, StartAllocate, Location, Serving, Reading, Uploading
<1>2. CASE Stor
  <2>1. Ownership'
    BY <1>2 DEF Stor, Ownership, Storing, Uploading, Negotiating
  <2>2. Secured'
    BY <1>2 DEF Stor, Secured, Serving, Uploading, Reading
  <2> QED
    BY <1>2, <2>1, <2>2, StepKeeps, Zenon DEF Stor, Location, Serving, Reading, Uploading
<1>3. CASE SlotAcquired
  <2>1. Ownership'
    BY <1>3 DEF SlotAcquired, PassiveCommand, Ownership, Storing, Uploading, Negotiating
  <2>2. Secured'
    BY <1>3 DEF SlotAcquired, PassiveCommand, Secured, Serving, Uploading, Reading
  <2> QED
    BY <1>3, <2>1, <2>2, StepKeeps, Zenon
       DEF SlotAcquired, PassiveCommand, Location, Serving, Reading, Uploading
<1>4. CASE RelayEnds
  <2>1. Ownership'
    BY <1>4 DEF RelayEnds, Ownership, Storing, Uploading, Negotiating
  <2>2. Secured'
    BY <1>4 DEF RelayEnds, Secured, Serving, Uploading, Reading
  <2> QED
    BY <1>4, <2>1, <2>2, StepKeeps DEF RelayEnds, Location, Serving, Reading, Uploading
<1>5. ASSUME NEW peer \in {"own", "other"}, AcceptData(peer) PROVE SessionInv'
  <2>1. /\ pc = "accept" /\ UNCHANGED <<conf, control, uploads>>
        /\ (pc' = "slot" /\ conf.rotation) \/ pc' \in {"epsv", "pasv"}
        /\ held' = [held EXCEPT !.client_data = peer]
        /\ conf.ipMatch => peer = "own"
    BY <1>5 DEF AcceptData, PassiveCommand
  <2>2. Ownership'
    BY <2>1 DEF Ownership, Storing, Uploading, Negotiating
  <2>3. Secured'
    BY <2>1 DEF Secured, Serving, Uploading, Reading
  <2> QED
    BY <2>1, <2>2, <2>3, StepKeeps DEF Location, Serving, Reading, Uploading
<1>6. CASE /\ Goto("alloc", "ready") /\ held' = [held EXCEPT !.active_pasv = TRUE]
           /\ UNCHANGED <<control, uploads>>
  <2>1. Ownership'
    BY <1>6 DEF Ownership, Storing, Uploading, Negotiating
  <2>2. Secured'
    BY <1>6 DEF Secured, Serving, Uploading, Reading
  <2> QED
    BY <1>6, <2>1, <2>2, StepKeeps, Zenon DEF Location, Serving, Reading, Uploading
<1> QED
  BY <1>1, <1>2, <1>3, <1>4, <1>5, <1>6

(* The steps of an upload, from the attempt to the backend's report.         *)
LEMMA UploadStepsKeep ==
  ASSUME SessionInv,
         \/ ConnectedData \/ DataTlsOk \/ DataTlsErr
         \/ /\ GotLine("stor") /\ StartTransfer
            /\ ~(conf.tls /\ Head(out).class # "1")
  PROVE  SessionInv'
<1> USE DEF Goto, SessionInv, Types, HeldSpace, ConfigSpace
<1>0. /\ uploads.started \in Nat /\ uploads.completed \in Nat /\ uploads.failed \in Nat
      /\ uploads.active \in Nat /\ uploads.attempt \in BOOLEAN
  BY DEF CountSpace
<1>1. CASE ConnectedData
  <2>1. /\ UNCHANGED <<conf, control>> /\ pc = "connectData" /\ pc' = "stor"
        /\ held' = [held EXCEPT !.backend_data = "plain"]
        /\ uploads' = [uploads EXCEPT !.started = @ + 1, !.attempt = TRUE]
    BY <1>1 DEF ConnectedData
  <2>2. ~uploads.attempt /\ uploads.active = 0
        /\ uploads.started = uploads.completed + uploads.failed
    BY <1>0, <2>1 DEF UploadsAccounted, Uploading
  <2>3. uploads' \in CountSpace /\ UploadsAccounted'
    <3>1. uploads' = [started |-> uploads.started + 1, completed |-> uploads.completed,
                      failed |-> uploads.failed, attempt |-> TRUE, active |-> 0]
      BY <2>1, <2>2, Zenon DEF CountSpace
    <3>2. uploads.started + 1 = uploads.completed + uploads.failed + 1
      BY <1>0, <2>2
    <3>3. uploads' \in CountSpace
      BY <1>0, <3>1 DEF CountSpace
    <3>4. UploadsAccounted'
      BY <1>0, <2>1, <3>1, <3>2 DEF UploadsAccounted, Uploading
    <3> QED
      BY <3>3, <3>4
  <2>4. Ownership'
    BY <2>1 DEF Ownership, Storing, Uploading, Negotiating
  <2>5. Secured'
    BY <2>1 DEF Secured, Serving, Uploading, Reading
  <2> QED
    BY <2>1, <2>3, <2>4, <2>5 DEF Location, Serving, Uploading
<1>2. ASSUME uploads' = [uploads EXCEPT !.active = @ + 1], pc \in {"stor", "dataTls"},
             pc' \in {"relay", "completion"}
      PROVE  uploads' \in CountSpace /\ UploadsAccounted'
  <2>1. uploads.attempt /\ uploads.active = 0
        /\ uploads.started = uploads.completed + uploads.failed + 1
    BY <1>0, <1>2 DEF UploadsAccounted, Uploading
  <2> QED
    BY <1>0, <1>2, <2>1 DEF CountSpace, UploadsAccounted, Uploading
<1>3. CASE DataTlsOk
  <2>1. /\ UNCHANGED <<conf, control, backend_reply>> /\ pc = "dataTls" /\ pc' = "relay"
        /\ held' = [held EXCEPT !.backend_data = "tls"]
        /\ uploads' = [uploads EXCEPT !.active = @ + 1]
    BY <1>3 DEF DataTlsOk, DataHandshake, quiet
  <2>2. Ownership'
    BY <2>1 DEF Ownership, Storing, Uploading, Negotiating
  <2>3. Secured'
    BY <2>1 DEF Secured, Serving, Uploading, Reading
  <2> QED
    BY <1>2, <2>1, <2>2, <2>3 DEF Location, Serving, Uploading
<1>4. CASE DataTlsErr
  <2>1. /\ UNCHANGED <<conf, control>> /\ pc = "dataTls" /\ pc' = "completion"
        /\ held' = [held EXCEPT !.backend_data = "none"]
        /\ uploads' = [uploads EXCEPT !.active = @ + 1]
    BY <1>4 DEF DataTlsErr
  <2>2. Ownership'
    BY <2>1 DEF Ownership, Storing, Uploading, Negotiating
  <2>3. Secured'
    BY <2>1 DEF Secured, Serving, Uploading, Reading
  <2> QED
    BY <1>2, <2>1, <2>2, <2>3 DEF Location, Serving, Uploading
<1>5. CASE GotLine("stor") /\ StartTransfer /\ ~(conf.tls /\ Head(out).class # "1")
  <2>1. /\ UNCHANGED <<conf, control, held>> /\ pc = "stor"
        /\ conf.tls => backend_reply' = "1"
        /\ \/ conf.tls /\ pc' = "dataTls" /\ UNCHANGED uploads
           \/ ~conf.tls /\ pc' = "relay" /\ uploads' = [uploads EXCEPT !.active = @ + 1]
    BY <1>5 DEF GotLine, StartTransfer
  <2>2. Ownership'
    BY <2>1 DEF Ownership, Storing, Uploading, Negotiating
  <2>3. Secured'
    BY <2>1 DEF Secured, Serving, Uploading, Reading
  <2>4. CASE UNCHANGED uploads /\ pc' = "dataTls"
    BY <2>1, <2>2, <2>3, <2>4, StepKeeps DEF Location, Serving, Uploading
  <2>5. CASE pc' = "relay" /\ uploads' = [uploads EXCEPT !.active = @ + 1]
    BY <1>2, <2>1, <2>2, <2>3, <2>5 DEF Location, Serving, Uploading
  <2> QED
    BY <2>1, <2>4, <2>5
<1> QED
  BY <1>1, <1>3, <1>4, <1>5

(* The backend's report ends the attempt, as a success or a failure.         *)
LEMMA CompletionKeeps == ASSUME SessionInv, Completion PROVE SessionInv'
<1>1. /\ pc = "completion" /\ UNCHANGED <<conf, control>>
      /\ uploads' \in {Succeeded, Dropped}
      /\ \/ pc' = "ready" /\ held' = [NothingHeld EXCEPT !.active_pasv = held.active_pasv]
         \/ pc' = "done" /\ held' = NothingHeld
  BY DEF Completion, Completed, GotLine
<1>2. /\ uploads'.attempt = FALSE /\ uploads'.active = 0 /\ uploads' \in CountSpace
      /\ uploads'.started = uploads'.completed + uploads'.failed
  <2>1. CASE uploads' = Dropped
    BY <2>1, DroppedCounts DEF CountSpace
  <2>2. CASE uploads' = Succeeded
    <3>1. /\ uploads.started \in Nat /\ uploads.completed \in Nat /\ uploads.failed \in Nat
          /\ uploads.active = 1 /\ Guarded = 1
          /\ uploads.started = uploads.completed + uploads.failed + 1
      BY <1>1 DEF SessionInv, Types, CountSpace, UploadsAccounted, Guarded, Uploading
    <3>2. uploads.active - Guarded = 0
      BY <3>1
    <3>3. uploads' = [started |-> uploads.started, completed |-> uploads.completed + 1,
                      failed |-> uploads.failed, attempt |-> FALSE, active |-> 0]
      BY <2>2, <3>2, Zenon DEF SessionInv, Types, CountSpace, Succeeded
    <3> QED
      BY <3>1, <3>3 DEF CountSpace
  <2> QED
    BY <1>1, <2>1, <2>2, Zenon
<1>3. held' \in HeldSpace /\ pc' \in Location
  <2>1. held.active_pasv \in BOOLEAN
    BY DEF SessionInv, Types, HeldSpace
  <2>2. ASSUME held' = NothingHeld PROVE held' \in HeldSpace
    BY <2>2 DEF HeldSpace, NothingHeld
  <2>3. ASSUME held' = [NothingHeld EXCEPT !.active_pasv = held.active_pasv]
        PROVE  held' \in HeldSpace
    BY <2>1, <2>3, Zenon DEF HeldSpace, NothingHeld
  <2>4. pc' \in Location
    BY <1>1 DEF Location, Serving
  <2> QED
    BY <1>1, <2>2, <2>3, <2>4
<1>4. Ownership'
  BY <1>1 DEF SessionInv, Types, HeldSpace, NothingHeld, Ownership, Storing, Uploading, Negotiating
<1>5. Secured'
  BY <1>1 DEF SessionInv, Secured, NothingHeld, Serving, Uploading, Reading
<1>6. UploadsAccounted'
  BY <1>1, <1>2 DEF UploadsAccounted, Uploading, CountSpace
<1> QED
  BY <1>1, <1>2, <1>3, <1>4, <1>5, <1>6 DEF SessionInv, Types

(* The invariant is inductive.                                               *)
LEMMA NextSessionInv == SessionInv /\ [Next]_vars => SessionInv'
<1> SUFFICES ASSUME SessionInv, [Next]_vars PROVE SessionInv'
  OBVIOUS
<1>1. ASSUME UNCHANGED <<conf, pc, held, control, backend_reply, uploads>> PROVE SessionInv'
  BY <1>1 DEF SessionInv, Types, Ownership, Secured, UploadsAccounted
<1>2. CASE Backend \/ Terminated \/ UNCHANGED vars
  BY <1>1, <1>2 DEF Backend, BackendCloses, BackendReports, Terminated, vars
<1>3. CASE Deadline
  <2>1. CASE ConnectErr \/ NegotiationFails \/ ControlLost \/ BackendIo
    BY <2>1, EndKeeps DEF ConnectErr, NegotiationFails, ControlLost, BackendIo, LostAt, TellAndEnd
  <2>2. CASE AllocateSome
    BY <2>2, EndKeeps, HoldingStepsKeep DEF AllocateSome, ClientLost
  <2>3. CASE AllocateNone \/ NoChannel
    BY <2>3, AnswerKeeps DEF AllocateNone, NoChannel, Answer, ClientLost, Serving
  <2> QED
    BY <1>3, <2>1, <2>2, <2>3, UploadStepsKeep DEF Deadline
<1>4. CASE Event
  <2>1. CASE \/ ConnectOk \/ BannerTls \/ AuthOk \/ HandshakeOk \/ PbszOk
             \/ ForwardOther \/ ForwardQuit \/ ForwardStor \/ EpsvRejected \/ PassiveAddress
    <3>1. UNCHANGED <<held, uploads>>
      BY <2>1 DEF ConnectOk, BannerTls, AuthOk, HandshakeOk, PbszOk, ForwardOther, ForwardQuit,
                  ForwardStor, Forward, EpsvRejected, PassiveAddress
    <3> QED
      BY <2>1, <3>1, PlainStepsKeep
  <2>2. CASE BannerPlain
    BY <2>2, EndKeeps, ContinueKeeps DEF BannerPlain, ClientLost
  <2>3. CASE ProtOk
    BY <2>3, AnswerKeeps DEF ProtOk, Expected, GotLine, ClientLost
  <2>4. CASE LineTooLongOrIdle \/ ClientEof \/ Goodbye \/ BackendEof
    BY <2>4, EndKeeps DEF LineTooLongOrIdle, ClientEof, Goodbye, BackendEof, TellAndEnd, ClientLost
  <2>5. CASE Reject \/ Reply \/ UnusableReply
    BY <2>5, AnswerKeeps DEF Reject, Reply, UnusableReply, Answer, GotLine, ClientLost, Serving,
                             Reading
  <2>6. CASE \/ Pasv \/ Stor \/ SlotAcquired \/ RelayEnds
             \/ \E peer \in {"own", "other"} : AcceptData(peer)
    BY <2>6, HoldingStepsKeep
  <2>7. CASE StorReply
    BY <2>7, UploadStepsKeep, AnswerKeeps DEF StorReply, GotLine, ClientLost, Serving, Reading
  <2>8. CASE ConnectedData \/ DataTlsOk
    BY <2>8, UploadStepsKeep
  <2> QED
    BY <1>4, <2>1, <2>2, <2>3, <2>4, <2>5, <2>6, <2>7, <2>8, CompletionKeeps DEF Event
<1> QED
  BY <1>2, <1>3, <1>4 DEF Next

(* On every path a session counts each of its uploads once ("no exit path    *)
(* can forget to", metrics.rs:87), moves no byte that the configuration      *)
(* forbids, and holds no port or slot it has no use for.                     *)
THEOREM SessionSafe == Spec => [](UploadsAccounted /\ FailsClosed /\ HoldsOnlyWhatItNeeds)
<1>1. SessionInv => UploadsAccounted /\ FailsClosed /\ HoldsOnlyWhatItNeeds
  <2> SUFFICES ASSUME SessionInv PROVE FailsClosed /\ HoldsOnlyWhatItNeeds
    BY DEF SessionInv
  <2>1. FailsClosed
    BY DEF SessionInv, Secured, FailsClosed
  <2>2. ~(held.active_pasv /\ held.guard)
    BY DEF SessionInv, Ownership
  <2>3. held.slot => conf.rotation /\ held.guard /\ held.client_data # "none"
    BY DEF SessionInv, Ownership
  <2>4. pc = "ready" => held = [NothingHeld EXCEPT !.active_pasv = held.active_pasv]
    <3> SUFFICES ASSUME pc = "ready"
                 PROVE  held = [NothingHeld EXCEPT !.active_pasv = held.active_pasv]
      OBVIOUS
    <3>1. /\ held \in HeldSpace /\ held.guard = FALSE /\ held.slot = FALSE
          /\ held.client_data = "none" /\ held.backend_data = "none"
      BY DEF SessionInv, Types, HeldSpace, Ownership, Storing, Uploading
    <3> DEFINE announced == [NothingHeld EXCEPT !.active_pasv = held.active_pasv]
    <3>2. /\ announced \in HeldSpace /\ announced.active_pasv = held.active_pasv
          /\ announced.guard = FALSE /\ announced.slot = FALSE
          /\ announced.client_data = "none" /\ announced.backend_data = "none"
      BY <3>1, Zenon DEF HeldSpace, NothingHeld
    <3> HIDE DEF announced
    <3>3. held = announced
      BY <3>1, <3>2, SameHeld, Zenon
    <3> QED
      BY <3>3 DEF announced
  <2> QED
    BY <2>1, <2>2, <2>3, <2>4 DEF HoldsOnlyWhatItNeeds
<1> QED
  BY <1>1, InitSessionInv, NextSessionInv, PTL DEF Spec

-----------------------------------------------------------------------------
(* The queue of a backend whose replies have one line each.                  *)

FinalLine == {line \in LineSet : line.last /\ ~line.stale /\ line.class # "1"}
Accepting == {line \in LineSet : line.last /\ ~line.stale /\ line.class = "1"}

(* Where nothing was asked of the backend, and where one answer is awaited.  *)
Idle   == {"connect", "handshake", "ready", "alloc", "accept", "slot", "connectData"}
Asking == {"banner", "auth", "pbsz", "prot", "epsv", "pasv", "reply", "goodbye"}

(* The backend has sent one final reply, or will send one, or none at all.   *)
Owing == transfer = "none" /\ (out = <<>> \/ \E line \in FinalLine : out = <<line>>)

(* It accepted the STOR, and its report may be behind the acceptance.        *)
Accepted ==
  \/ transfer \in {"none", "current"} /\ \E first \in Accepting : out = <<first>>
  \/ transfer = "none" /\ \E first \in Accepting, line \in FinalLine : out = <<first, line>>

Reporting == Owing \/ (transfer = "current" /\ out = <<>>)

(* Without TLS a refused STOR is carried on with, and nothing is owed.       *)
Refused == ~conf.tls /\ due = 0 /\ finals = 1 /\ transfer = "none" /\ out = <<>>

ReplyInv ==
  /\ pc \in Idle => transfer = "none" /\ out = <<>> /\ due = 0
                    /\ finals = IF pc = "ready" THEN 1 ELSE 0
  /\ pc \in Asking => due = 1 /\ finals = 0 /\ Owing
  /\ pc = "stor" => due = 1 /\ finals = 0 /\ (Owing \/ Accepted)
  /\ pc \in {"dataTls", "relay", "completion"} =>
       (due = 1 /\ finals = 0 /\ Reporting) \/ Refused
  /\ pc = "done" => finals \in 0 .. 1 \/ (~conf.tls /\ finals = 2)

(* A queue of one line.                                                      *)
LEMMA OneLine ==
  ASSUME NEW line
  PROVE  /\ <<line>> # <<>> /\ Head(<<line>>) = line /\ Tail(<<line>>) = <<>>
         /\ Append(<<>>, line) = <<line>>
OBVIOUS

(* A queue of two lines.                                                     *)
LEMMA TwoLines ==
  ASSUME NEW first, NEW line
  PROVE  /\ <<first, line>> # <<>> /\ Head(<<first, line>>) = first
         /\ Tail(<<first, line>>) = <<line>> /\ Append(<<first>>, line) = <<first, line>>
<1>1. Append(<<first>>, line) = <<first, line>>
  <2> DEFINE S == {first, line}
  <2>1. <<first>> \in Seq(S) /\ Len(<<first>>) = 1 /\ line \in S /\ <<first, line>> \in Seq(S)
    OBVIOUS
  <2>2. /\ Append(<<first>>, line) \in Seq(S) /\ Len(Append(<<first>>, line)) = 2
        /\ Append(<<first>>, line)[1] = first /\ Append(<<first>>, line)[2] = line
    BY <2>1, AppendProperties
  <2> DEFINE both == Append(<<first>>, line)
             pair == <<first, line>>
  <2>3. pair \in Seq(S) /\ Len(pair) = 2 /\ pair[1] = first /\ pair[2] = line
    BY <2>1
  <2> HIDE DEF both, pair, S
  <2>4. Len(both) = Len(pair) /\ \A i \in 1 .. Len(both) : both[i] = pair[i]
    BY <2>2, <2>3 DEF both
  <2>5. both = pair
    BY <2>2, <2>3, <2>4, SeqEqual DEF both
  <2> QED
    BY <2>5 DEF both, pair
<1> QED
  BY <1>1

(* A command that is sent when nothing is owed makes one final reply due.    *)
LEMMA Asks ==
  ASSUME ~MultiLine, transfer = "none", NEW command, NEW queue, queue = <<>>, NEW owed, owed = 0,
         Send(command, queue, owed)
  PROVE  due' = 1 /\ (Owing' \/ (command = "upload" /\ Accepted'))
<1>1. due' = 1
  BY DEF Send
<1>2. Aged(queue) = <<>>
  BY DEF Aged
<1>3. CASE out' = Aged(queue) /\ transfer' = IF transfer = "none" THEN "none" ELSE "stale"
  BY <1>1, <1>2, <1>3 DEF Owing
<1>4. ASSUME NEW c \in Answers(command), NEW lines \in Lines(c), out' = Aged(queue) \o lines,
             transfer' = IF c = "1" THEN "current"
                         ELSE IF transfer = "none" THEN "none" ELSE "stale"
      PROVE  Owing' \/ (command = "upload" /\ Accepted')
  <2> DEFINE line == [class |-> c, stale |-> FALSE, last |-> TRUE]
  <2>1. out' = <<line>>
    BY <1>2, <1>4 DEF Lines
  <2>2. c \in Class
    BY DEF Answers, Class
  <2>3. CASE c = "1"
    <3>1. line \in Accepting
      BY <2>3, <2>2 DEF Accepting, LineSet
    <3>2. command = "upload"
      BY <2>3 DEF Answers
    <3> QED
      BY <1>4, <2>1, <2>3, <3>1, <3>2, Zenon DEF Accepted
  <2>4. CASE c # "1"
    <3>1. line \in FinalLine
      BY <2>4, <2>2 DEF FinalLine, LineSet
    <3> QED
      BY <1>4, <2>1, <2>4, <3>1, Zenon DEF Owing
  <2> QED
    BY <2>3, <2>4
<1> QED
  BY <1>1, <1>3, <1>4 DEF Send

(* The one line that is owed is read, and nothing is owed any more.          *)
LEMMA ReadsLast ==
  ASSUME Owing, out # <<>>, due = 1
  PROVE  /\ Head(out) \in FinalLine /\ Tail(out) = <<>> /\ AfterReply = <<>>
         /\ Finals(Head(out)) = 1 /\ due - Finals(Head(out)) = 0
<1>1. PICK line \in FinalLine : out = <<line>>
  BY DEF Owing
<1>2. Head(out) = line /\ Tail(out) = <<>>
  BY <1>1, OneLine
<1>3. line.last /\ line.class # "1"
  BY DEF FinalLine
<1>4. Finals(Head(out)) = 1
  BY <1>2, <1>3 DEF Finals, IsFinal
<1> QED
  BY <1>2, <1>3, <1>4 DEF AfterReply

(* Where a step may lead, and what the invariant asks there: at the end, at  *)
(* most one final reply, or two on a plain connection.                       *)
LEMMA AtDone ==
  ASSUME pc' = "done", UNCHANGED conf, finals' \in 0 .. 1 \/ (~conf.tls /\ finals' = 2)
  PROVE  ReplyInv'
BY DEF ReplyInv, Idle, Asking

(* Between commands: nothing due, nothing on the way, the reply given.       *)
LEMMA AtIdle ==
  ASSUME pc' \in Idle, transfer' = "none", out' = <<>>, due' = 0,
         finals' = IF pc' = "ready" THEN 1 ELSE 0
  PROVE  ReplyInv'
BY DEF ReplyInv, Idle, Asking

(* While a reply is awaited: it is due, and the client has none yet.         *)
LEMMA AtAsking ==
  ASSUME pc' \in Asking, due' = 1, finals' = 0, Owing' PROVE ReplyInv'
BY DEF ReplyInv, Idle, Asking

(* During an upload: its outcome is due, or the backend has refused it.      *)
LEMMA AtUpload ==
  ASSUME pc' \in {"dataTls", "relay", "completion"},
         (due' = 1 /\ finals' = 0 /\ Reporting') \/ Refused'
  PROVE  ReplyInv'
BY DEF ReplyInv, Idle, Asking

(* Wherever the session ends, it has told the client of one failure at most  *)
(* after what the invariant says of the place it ends at.                    *)
LEMMA EndsInStep ==
  ASSUME ReplyInv, pc \in Location, End,
         \/ UNCHANGED finals
         \/ finals' = finals + 1 /\ pc \notin {"ready", "done"}
         \/ finals' = 1
  PROVE  ReplyInv'
<1>1. CASE UNCHANGED finals
  BY <1>1, AtDone DEF End, ReplyInv, Refused, Location, Serving, Uploading, Reading, Negotiating,
                      Idle, Asking
<1>2. CASE finals' = finals + 1 /\ pc \notin {"ready", "done"}
  <2>1. finals = 0 \/ (finals = 1 /\ ~conf.tls)
    BY <1>2 DEF ReplyInv, Refused, Location, Serving, Uploading, Reading, Negotiating, Idle, Asking
  <2> QED
    BY <1>2, <2>1, AtDone DEF End
<1>3. CASE finals' = 1
  BY <1>3, AtDone DEF End
<1> QED
  BY <1>1, <1>2, <1>3

(* The loop goes round with the gateway's own answer, nothing being owed.    *)
LEMMA AnswersInStep ==
  ASSUME ReplyInv, pc \in Idle \ {"ready", "handshake", "connect"}, UNCHANGED quiet,
         \/ Answer
         \/ pc' = "ready" /\ finals' = finals + 1
  PROVE  ReplyInv'
<1>1. pc \in Location /\ pc \notin {"ready", "done"}
  BY DEF Idle, Location, Serving
<1>2. transfer' = "none" /\ out' = <<>> /\ due' = 0 /\ finals = 0
  BY DEF ReplyInv, quiet, backendVars, Idle
<1>3. CASE pc' = "ready" /\ finals' = finals + 1
  BY <1>2, <1>3, AtIdle DEF Idle
<1>4. CASE ClientLost
  BY <1>1, <1>4, EndsInStep DEF ClientLost
<1> QED
  BY <1>3, <1>4 DEF Answer, Continue

(* What the timers end.                                                      *)
LEMMA DeadlineInStep == ASSUME ReplyInv, Deadline PROVE ReplyInv'
<1>1. CASE ConnectErr \/ NegotiationFails \/ ControlLost
  <2>1. pc \in Location \ {"ready", "done"} /\ End /\ finals' = finals + 1
    BY <1>1 DEF ConnectErr, NegotiationFails, ControlLost, TellAndEnd, Location, Negotiating,
                Serving, Reading
  <2> QED
    BY <2>1, EndsInStep
<1>2. CASE BackendIo
  BY <1>2, EndsInStep DEF BackendIo, LostAt, Location, Serving, Reading
<1>3. CASE AllocateSome \/ AllocateNone \/ NoChannel
  BY <1>3, AnswersInStep DEF AllocateSome, AllocateNone, NoChannel, Answer, Goto, Idle
<1>4. CASE DataTlsErr
  <2>1. /\ pc = "dataTls" /\ pc' = "completion"
        /\ UNCHANGED <<conf, finals, due, out, transfer>>
    BY <1>4 DEF DataTlsErr, Goto, quiet, backendVars
  <2> QED
    BY <2>1, AtUpload DEF ReplyInv, Reporting, Refused, Owing
<1> QED
  BY <1>1, <1>2, <1>3, <1>4 DEF Deadline

(* The backend reports on a transfer, or closes the connection.              *)
LEMMA BackendInStep == ASSUME ReplyInv, Backend PROVE ReplyInv'
<1>1. UNCHANGED <<conf, pc, finals, due>>
  BY DEF Backend, BackendCloses, BackendReports
<1>2. CASE pc = "done"
  BY <1>1, <1>2, AtDone DEF ReplyInv
<1>3. CASE BackendCloses /\ pc # "done"
  <2>1. transfer' = "none" /\ UNCHANGED out
    BY <1>3 DEF BackendCloses
  <2>2. /\ Owing => Owing'
        /\ Accepted => Accepted'
        /\ Reporting => Owing'
        /\ Refused => Refused'
    BY <1>1, <2>1 DEF Owing, Accepted, Reporting, Refused
  <2> QED
    BY <1>1, <2>1, <2>2 DEF ReplyInv, Reporting
<1>4. ASSUME NEW c \in {"2", "4", "5"}, BackendReports(c), pc # "done" PROVE ReplyInv'
  <2> DEFINE line == [class |-> c, stale |-> transfer = "stale", last |-> TRUE]
  <2>1. transfer # "none" /\ out' = Append(out, line) /\ transfer' = "none"
    BY <1>4 DEF BackendReports
  <2>2. ASSUME transfer = "current" PROVE line \in FinalLine
    BY <2>2, Zenon DEF FinalLine, LineSet, Class
  <2> HIDE DEF line
  <2>3. CASE pc = "stor"
    <3>1. transfer = "current" /\ \E first \in Accepting : out = <<first>>
      BY <2>1, <2>3 DEF ReplyInv, Owing, Accepted
    <3>2. PICK first \in Accepting : out = <<first>>
      BY <3>1
    <3>3. out' = <<first, line>>
      BY <2>1, <3>2, TwoLines, Zenon
    <3>4. Accepted'
      BY <2>1, <2>2, <3>1, <3>3, Zenon DEF Accepted
    <3> QED
      BY <1>1, <2>3, <3>4 DEF ReplyInv, Idle, Asking
  <2>4. CASE pc \in {"dataTls", "relay", "completion"}
    <3>1. transfer = "current" /\ out = <<>> /\ due = 1 /\ finals = 0
      BY <2>1, <2>4 DEF ReplyInv, Owing, Reporting, Refused
    <3>2. Owing'
      BY <2>1, <2>2, <3>1, OneLine DEF Owing
    <3> QED
      BY <1>1, <2>4, <3>1, <3>2, AtUpload DEF Reporting
  <2>5. CASE pc \notin {"stor", "dataTls", "relay", "completion"}
    BY <1>1, <1>4, <2>1, <2>5 DEF ReplyInv, Owing
  <2> QED
    BY <2>3, <2>4, <2>5
<1> QED
  BY <1>2, <1>3, <1>4 DEF Backend

(* The steps that send a command with nothing owed before it.                *)
LEMMA SendsInStep ==
  ASSUME ReplyInv, ~MultiLine,
         \/ ConnectOk \/ BannerTls \/ HandshakeOk \/ PbszOk
         \/ ForwardOther \/ ForwardQuit \/ ForwardStor
         \/ SlotAcquired \/ EpsvRejected
  PROVE  ReplyInv'
<1> USE DEF Goto, Forward, GotLine, Expected
<1>1. CASE ConnectOk \/ HandshakeOk \/ SlotAcquired \/ ForwardOther \/ ForwardQuit \/ ForwardStor
  <2>1. /\ pc \in Idle /\ pc' \in Asking
        /\ finals' = 0 \/ (UNCHANGED finals /\ pc # "ready")
        /\ \E command \in {"banner", "pbsz", "epsv", "pasv", "other", "quit", "stray"} :
             Send(command, out, due)
    BY <1>1 DEF ConnectOk, HandshakeOk, SlotAcquired, ForwardOther, ForwardQuit, ForwardStor,
                PassiveCommand, Idle, Asking
  <2>2. transfer = "none" /\ out = <<>> /\ due = 0 /\ finals' = 0
    BY <2>1 DEF ReplyInv
  <2>3. due' = 1 /\ Owing'
    BY <2>1, <2>2, Asks
  <2> QED
    BY <2>1, <2>2, <2>3, AtAsking
<1>2. CASE BannerTls \/ PbszOk \/ EpsvRejected
  <2>1. /\ pc \in Asking /\ pc' \in Asking /\ out # <<>> /\ UNCHANGED finals
        /\ \E command \in {"auth", "prot", "pasv"} :
             \/ Send(command, Tail(out), due - Finals(Head(out)))
             \/ Send(command, AfterReply, due - 1)
    BY <1>2 DEF BannerTls, PbszOk, EpsvRejected, Asking
  <2>2. due = 1 /\ finals' = 0 /\ Owing /\ transfer = "none"
    BY <2>1 DEF ReplyInv, Owing
  <2>3. Tail(out) = <<>> /\ AfterReply = <<>> /\ due - Finals(Head(out)) = 0 /\ due - 1 = 0
    BY <2>1, <2>2, ReadsLast
  <2>4. due' = 1 /\ Owing'
    BY <2>1, <2>2, <2>3, Asks, Zenon
  <2> QED
    BY <2>1, <2>2, <2>4, AtAsking
<1> QED
  BY <1>1, <1>2

(* The client's data connection: a slot is waited for, or EPSV or PASV sent. *)
LEMMA AcceptInStep ==
  ASSUME ReplyInv, ~MultiLine, NEW peer, AcceptData(peer) PROVE ReplyInv'
<1>1. pc = "accept" /\ UNCHANGED finals
  BY DEF AcceptData, Goto
<1>2. transfer = "none" /\ out = <<>> /\ due = 0 /\ finals = 0
  BY <1>1 DEF ReplyInv, Idle
<1>3. CASE pc' = "slot" /\ UNCHANGED quiet
  BY <1>1, <1>2, <1>3, AtIdle DEF quiet, backendVars, Idle
<1>4. CASE pc' = PassiveCommand /\ Send(PassiveCommand, out, due)
  <2>1. PassiveCommand \in Asking /\ PassiveCommand # "upload"
    BY DEF PassiveCommand, Asking
  <2>2. due' = 1 /\ Owing'
    BY <1>2, <1>4, <2>1, Asks
  <2> QED
    BY <1>1, <1>2, <1>4, <2>1, <2>2, AtAsking
<1> QED
  BY <1>3, <1>4 DEF AcceptData, Goto

(* The steps that read the answer the session waits for.                     *)
LEMMA ReadsInStep ==
  ASSUME ReplyInv,
         \/ BannerPlain \/ AuthOk \/ ProtOk \/ Reply \/ Goodbye
         \/ PassiveAddress \/ UnusableReply
  PROVE  ReplyInv'
<1> USE DEF Goto, GotLine, Expected
<1>1. /\ pc \in Asking /\ out # <<>> /\ UNCHANGED transfer
      /\ \/ out' = Tail(out) /\ due' = due - Finals(Head(out))
         \/ out' \in {AfterReply, <<>>} /\ due' = due - 1
  BY DEF BannerPlain, AuthOk, ProtOk, Reply, Goodbye, PassiveAddress, UnusableReply, JustRead,
         Asking
<1>2. due = 1 /\ finals = 0 /\ Owing /\ pc \in Location
  BY <1>1 DEF ReplyInv, Asking, Location, Serving, Reading, Negotiating
<1>3. /\ transfer' = "none" /\ out' = <<>> /\ due' = 0
      /\ Finals(Head(out)) = 1
  BY <1>1, <1>2, ReadsLast DEF Owing
<1>4. \/ pc' = "ready" /\ finals' \in {finals + 1, finals + Finals(Head(out))}
      \/ pc' \in {"handshake", "connectData"} /\ UNCHANGED finals
      \/ End /\ finals' \in {finals, finals + 1, finals + Finals(Head(out))}
  BY DEF BannerPlain, AuthOk, ProtOk, Reply, Goodbye, PassiveAddress, UnusableReply,
         Answer, Continue, ClientLost, Relayed
<1>5. CASE End
  BY <1>1, <1>2, <1>3, <1>4, <1>5, EndsInStep DEF Asking, End
<1>6. CASE ~End
  BY <1>2, <1>3, <1>4, <1>6, AtIdle DEF Idle
<1> QED
  BY <1>5, <1>6

(* Between two commands nothing is owed, and the client's count starts anew. *)
LEMMA ReadyInStep ==
  ASSUME ReplyInv, LineTooLongOrIdle \/ ClientEof \/ Reject \/ Pasv \/ Stor
  PROVE  ReplyInv'
<1>1. pc = "ready" /\ UNCHANGED quiet
  BY DEF LineTooLongOrIdle, ClientEof, Reject, Pasv, StartAllocate, Stor, Goto
<1>2. transfer' = "none" /\ out' = <<>> /\ due' = 0 /\ finals = 1 /\ pc \in Location
  BY <1>1 DEF ReplyInv, Idle, quiet, backendVars, Location, Serving
<1>3. \/ End /\ finals' \in {1, finals}
      \/ pc' = "ready" /\ finals' = 1
      \/ pc' \in {"alloc", "accept"} /\ finals' = 0
  BY DEF LineTooLongOrIdle, ClientEof, Reject, Pasv, StartAllocate, Stor, Goto, ClientLost, Continue
<1>4. CASE End /\ finals' \in {1, finals}
  BY <1>2, <1>4, EndsInStep
<1>5. CASE \/ pc' = "ready" /\ finals' = 1
           \/ pc' \in {"alloc", "accept"} /\ finals' = 0
  BY <1>2, <1>5, AtIdle DEF Idle
<1> QED
  BY <1>3, <1>4, <1>5

(* STOR is sent, answered, and reported on.                                  *)
LEMMA UploadInStep ==
  ASSUME ReplyInv, ~MultiLine,
         ConnectedData \/ StorReply \/ DataTlsOk \/ RelayEnds \/ Completion
  PROVE  ReplyInv'
<1>1. CASE ConnectedData
  <2>1. pc = "connectData" /\ pc' = "stor" /\ UNCHANGED finals /\ Send("upload", out, due)
    BY <1>1 DEF ConnectedData, Goto
  <2>2. transfer = "none" /\ out = <<>> /\ due = 0 /\ finals = 0
    BY <2>1 DEF ReplyInv, Idle
  <2>3. due' = 1 /\ (Owing' \/ Accepted')
    BY <2>1, <2>2, Asks
  <2> QED
    BY <2>1, <2>2, <2>3 DEF ReplyInv, Idle, Asking
<1>2. CASE DataTlsOk \/ RelayEnds
  <2>1. /\ pc \in {"dataTls", "relay"} /\ pc' \in {"relay", "completion"}
        /\ UNCHANGED <<conf, finals, due, out, transfer>>
    BY <1>2 DEF DataTlsOk, DataHandshake, RelayEnds, Goto, quiet, backendVars
  <2> QED
    BY <2>1, AtUpload DEF ReplyInv, Reporting, Refused, Owing
<1>3. CASE Completion
  <2>1. /\ pc = "completion" /\ out # <<>> /\ UNCHANGED <<conf, transfer>>
        /\ out' = Tail(out) /\ due' = due - Finals(Head(out))
        /\ \/ pc' = "ready" /\ finals' = finals + Finals(Head(out))
           \/ pc' = "done" /\ UNCHANGED finals
    BY <1>3 DEF Completion, Completed, GotLine, JustRead, Relayed
  <2>2. due = 1 /\ finals = 0 /\ Owing
    BY <2>1 DEF ReplyInv, Refused, Reporting
  <2>3. transfer' = "none" /\ out' = <<>> /\ due' = 0 /\ Finals(Head(out)) = 1
    BY <2>1, <2>2, ReadsLast DEF Owing
  <2> QED
    BY <2>1, <2>2, <2>3, AtIdle, AtDone DEF Idle
<1>4. CASE StorReply
  <2>1. /\ pc = "stor" /\ out # <<>> /\ UNCHANGED <<conf, transfer>>
        /\ out' = Tail(out) /\ due' = due - Finals(Head(out))
        /\ \/ /\ pc' \in {"dataTls", "relay"} /\ finals' = finals + Finals(Head(out))
              /\ ~(conf.tls /\ Head(out).class # "1")
           \/ /\ pc' = "ready" /\ finals' = finals + Finals(Head(out))
              /\ conf.tls /\ Head(out).class # "1"
           \/ pc' = "done" /\ UNCHANGED finals
    BY <1>4 DEF StorReply, GotLine, JustRead, Relayed, StartTransfer, Continue, ClientLost, End,
                Goto
  <2>2. due = 1 /\ finals = 0 /\ (Owing \/ Accepted)
    BY <2>1 DEF ReplyInv
  <2>3. CASE Owing
    <3>1. /\ transfer' = "none" /\ out' = <<>> /\ due' = 0 /\ Finals(Head(out)) = 1
          /\ Head(out).class # "1"
      BY <2>1, <2>2, <2>3, ReadsLast DEF Owing, FinalLine
    <3>2. CASE pc' \in {"dataTls", "relay"}
      <4>1. Refused'
        BY <2>1, <2>2, <3>1, <3>2 DEF Refused
      <4> QED
        BY <3>2, <4>1, AtUpload
    <3>3. CASE pc' \in {"ready", "done"}
      BY <2>1, <2>2, <3>1, <3>3, AtIdle, AtDone DEF Idle
    <3> QED
      BY <2>1, <3>2, <3>3
  <2>4. CASE Accepted
    <3>1. /\ Head(out) \in Accepting
          /\ \/ Tail(out) = <<>> /\ transfer \in {"none", "current"}
             \/ transfer = "none" /\ \E line \in FinalLine : Tail(out) = <<line>>
      <4>1. CASE transfer \in {"none", "current"} /\ \E first \in Accepting : out = <<first>>
        BY <4>1, OneLine
      <4>2. ASSUME transfer = "none", NEW first \in Accepting, NEW line \in FinalLine,
                   out = <<first, line>>
            PROVE  Head(out) = first /\ Tail(out) = <<line>>
        BY <4>2, TwoLines
      <4> QED
        BY <2>4, <4>1, <4>2 DEF Accepted
    <3>2. Head(out).class = "1" /\ Finals(Head(out)) = 0
      BY <3>1 DEF Accepting, Finals, IsFinal
    <3>3. due' = 1 /\ finals' = 0 /\ Reporting'
      BY <2>1, <2>2, <3>1, <3>2 DEF Reporting, Owing
    <3> QED
      BY <2>1, <3>2, <3>3, AtUpload, AtDone
  <2> QED
    BY <2>2, <2>3, <2>4
<1> QED
  BY <1>1, <1>2, <1>3, <1>4

(* The invariant of the queue is inductive.                                  *)
LEMMA NextReplyInv == ASSUME ~MultiLine, ReplyInv, [Next]_vars PROVE ReplyInv'
<1>1. CASE Terminated \/ UNCHANGED vars
  BY <1>1 DEF Terminated, vars, backendVars, ReplyInv, Owing, Accepted, Reporting, Refused
<1>2. CASE BackendEof
  <2>1. pc \in Location \ {"ready", "done"} /\ End /\ finals' = finals + 1
    BY <1>2 DEF BackendEof, TellAndEnd, Location, Serving, Reading
  <2> QED
    BY <2>1, EndsInStep
<1>3. CASE Event
  BY <1>2, <1>3, SendsInStep, AcceptInStep, ReadsInStep, ReadyInStep, UploadInStep DEF Event
<1> QED
  BY <1>1, <1>3, DeadlineInStep, BackendInStep DEF Next

(* With a backend whose replies have one line each, a session reads the      *)
(* reply to the command it sent last and no other, waits only for a reply    *)
(* that is owed when the backend is reached over TLS, and gives its client   *)
(* one final reply to each command (session.rs, the STOR arm and the loop).  *)
THEOREM RepliesSafe ==
  ASSUME ~MultiLine
  PROVE  Spec => [](RepliesInStep /\ WaitsOnlyIfDueTls /\ AnsweredOnce)
<1>1. Init => ReplyInv
  BY DEF Init, ReplyInv, Idle, Asking
<1>2. SessionInv /\ ReplyInv => RepliesInStep /\ WaitsOnlyIfDueTls /\ AnsweredOnce
  <2> SUFFICES ASSUME pc \in Location, ReplyInv
               PROVE  RepliesInStep /\ WaitsOnlyIfDueTls /\ AnsweredOnce
    BY DEF SessionInv, Types
  <2>1. RepliesInStep
    <3> SUFFICES ASSUME pc \in Reading, out # <<>> PROVE ~Head(out).stale
      BY DEF RepliesInStep
    <3>1. Owing \/ Accepted
      BY DEF ReplyInv, Reading, Asking, Reporting, Refused
    <3>2. Head(out) \in FinalLine \cup Accepting
      BY <3>1, OneLine, TwoLines DEF Owing, Accepted
    <3> QED
      BY <3>2 DEF FinalLine, Accepting
  <2>2. WaitsOnlyIfDueTls
    BY DEF WaitsOnlyIfDueTls, WaitsOnlyIfDue, ReplyInv, Refused, Reading, Asking, Idle
  <2>3. AnsweredOnce
    <3>1. pc = "ready" => finals = 1
      BY DEF ReplyInv, Idle
    <3>2. finals \in {0, 1} \/ (~conf.tls /\ pc = "done")
      BY DEF ReplyInv, Refused, Location, Serving, Uploading, Reading, Negotiating, Idle, Asking
    <3> QED
      BY <3>1, <3>2 DEF AnsweredOnce
  <2> QED
    BY <2>1, <2>2, <2>3
<1> QED
  BY <1>1, <1>2, NextReplyInv, InitSessionInv, NextSessionInv, PTL DEF Spec

-----------------------------------------------------------------------------
(* The types, for a backend that may send replies of several lines.  That a  *)
(* reply read whole leaves a queue behind rests on the last line of the      *)
(* queue being the last line of a reply.                                     *)

Queue == {queue \in Seq(LineSet) : queue # <<>> => queue[Len(queue)].last}

QueueTypes ==
  /\ control \in {"plain", "tls"}
  /\ backend_reply \in Class \cup {"none"}
  /\ finals \in Nat /\ due \in Int
  /\ out \in Queue /\ transfer \in {"none", "current", "stale"} /\ backendUp \in BOOLEAN

(* A line is read from the queue.                                            *)
LEMMA ReadQueue ==
  ASSUME NEW queue \in Queue, queue # <<>>
  PROVE  /\ Head(queue) \in LineSet /\ Tail(queue) \in Queue
         /\ ~Head(queue).last => Tail(queue) # <<>>
<1>1. /\ queue \in Seq(LineSet) /\ Len(queue) \in Nat \ {0} /\ queue[Len(queue)].last
      /\ Head(queue) = queue[1]
  BY EmptySeq DEF Queue
<1>2. /\ Head(queue) \in LineSet /\ Tail(queue) \in Seq(LineSet) /\ Len(Tail(queue)) = Len(queue) - 1
      /\ \A i \in 1 .. Len(Tail(queue)) : Tail(queue)[i] = queue[i + 1]
  BY <1>1, HeadTailProperties
<1>3. ASSUME Tail(queue) # <<>> PROVE Tail(queue)[Len(Tail(queue))].last
  <2>1. Len(Tail(queue)) \in Nat \ {0}
    BY <1>2, <1>3, EmptySeq
  <2>2. Tail(queue)[Len(Tail(queue))] = queue[Len(queue)]
    BY <1>1, <1>2, <2>1
  <2> QED
    BY <1>1, <2>2, Zenon
<1>4. ASSUME ~Head(queue).last PROVE Tail(queue) # <<>>
  <2>1. Len(queue) # 1
    BY <1>1, <1>4
  <2>2. Len(Tail(queue)) # 0
    BY <1>1, <1>2, <2>1
  <2> QED
    BY <2>2, EmptySeq, Zenon
<1> QED
  BY <1>2, <1>3, <1>4, Zenon DEF Queue

(* A line, or the lines of a reply, are put behind the queue.                *)
LEMMA ExtendQueue ==
  ASSUME NEW queue \in Queue, NEW lines \in Queue
  PROVE  queue \o lines \in Queue
<1>1. /\ queue \in Seq(LineSet) /\ lines \in Seq(LineSet)
      /\ queue # <<>> => queue[Len(queue)].last
      /\ lines # <<>> => lines[Len(lines)].last
  BY DEF Queue
<1>2. CASE lines = <<>>
  BY <1>1, <1>2, ConcatEmptySeq
<1>3. CASE lines # <<>>
  <2>1. Len(queue) \in Nat /\ Len(lines) \in Nat \ {0}
    BY <1>1, <1>3, EmptySeq, LenProperties
  <2> DEFINE whole == queue \o lines
  <2>2. /\ whole \in Seq(LineSet) /\ Len(whole) = Len(queue) + Len(lines)
        /\ \A i \in 1 .. Len(queue) + Len(lines) :
             whole[i] = IF i <= Len(queue) THEN queue[i] ELSE lines[i - Len(queue)]
    BY <1>1, ConcatProperties
  <2> HIDE DEF whole
  <2>3. whole[Len(whole)] = lines[Len(lines)]
    BY <2>1, <2>2
  <2>4. whole \in Queue
    BY <1>1, <1>3, <2>2, <2>3 DEF Queue
  <2> QED
    BY <2>4 DEF whole
<1> QED
  BY <1>2, <1>3

(* Sending a command makes the lines before its answer stale, no more.       *)
LEMMA AgeQueue == ASSUME NEW queue \in Queue PROVE Aged(queue) \in Queue
<1>1. queue \in Seq(LineSet) /\ Len(queue) \in Nat /\ \A i \in 1 .. Len(queue) : queue[i] \in LineSet
  BY LenProperties, ElementOfSeq DEF Queue
<1>2. ASSUME NEW i \in 1 .. Len(queue)
      PROVE  /\ [queue[i] EXCEPT !.stale = TRUE] \in LineSet
             /\ [queue[i] EXCEPT !.stale = TRUE].last = queue[i].last
  BY <1>1, Zenon DEF LineSet
<1>3. /\ Aged(queue) \in Seq(LineSet) /\ Len(Aged(queue)) = Len(queue)
      /\ \A i \in 1 .. Len(queue) : Aged(queue)[i].last = queue[i].last
  <2>1. /\ Aged(queue) \in [1 .. Len(queue) -> LineSet]
        /\ \A i \in 1 .. Len(queue) : Aged(queue)[i] = [queue[i] EXCEPT !.stale = TRUE]
    BY <1>2 DEF Aged
  <2>2. Aged(queue) \in Seq(LineSet)
    BY <1>1, <2>1, SeqDef
  <2>3. Len(Aged(queue)) = Len(queue)
    BY <1>1, <2>1, <2>2, LenProperties
  <2> QED
    BY <1>2, <2>1, <2>2, <2>3, Zenon
<1>4. ASSUME Aged(queue) # <<>> PROVE Aged(queue)[Len(Aged(queue))].last
  <2>1. Len(queue) \in 1 .. Len(queue)
    BY <1>1, <1>3, <1>4, EmptySeq
  <2>2. queue[Len(queue)].last
    BY <2>1, <1>1 DEF Queue
  <2> QED
    BY <1>3, <2>1, <2>2
<1> QED
  BY <1>3, <1>4 DEF Queue

(* A single last line, and the lines of a reply.                             *)
LEMMA LineQueue ==
  ASSUME NEW c \in Class
  PROVE  /\ \A stale \in BOOLEAN : <<[class |-> c, stale |-> stale, last |-> TRUE]>> \in Queue
         /\ Lines(c) \subseteq Queue
<1>1. ASSUME NEW isLast \in BOOLEAN, NEW stale \in BOOLEAN
      PROVE  [class |-> c, stale |-> stale, last |-> isLast] \in LineSet
  BY DEF LineSet
<1>2. ASSUME NEW stale \in BOOLEAN
      PROVE  <<[class |-> c, stale |-> stale, last |-> TRUE]>> \in Queue
  <2> DEFINE line == [class |-> c, stale |-> stale, last |-> TRUE]
  <2>1. line \in LineSet /\ line.last
    BY <1>1, Zenon
  <2> HIDE DEF line
  <2>2. <<line>> \in Queue
    BY <2>1 DEF Queue
  <2> QED
    BY <2>2 DEF line
<1>3. <<[class |-> c, stale |-> FALSE, last |-> FALSE],
        [class |-> c, stale |-> FALSE, last |-> TRUE]>> \in Queue
  <2> DEFINE first == [class |-> c, stale |-> FALSE, last |-> FALSE]
             line  == [class |-> c, stale |-> FALSE, last |-> TRUE]
  <2>1. first \in LineSet /\ line \in LineSet /\ line.last
    BY <1>1, Zenon
  <2> HIDE DEF first, line
  <2>2. <<first, line>> \in Queue
    BY <2>1 DEF Queue
  <2> QED
    BY <2>2 DEF first, line
<1> QED
  BY <1>2, <1>3, Zenon DEF Lines

(* A command is sent behind any queue.                                       *)
LEMMA SendTypes ==
  ASSUME QueueTypes, NEW command, NEW queue \in Queue, NEW owed \in Int, Send(command, queue, owed)
  PROVE  /\ out' \in Queue /\ due' \in Int /\ transfer' \in {"none", "current", "stale"}
         /\ backendUp' \in BOOLEAN
<1>1. /\ due' \in Int /\ backendUp' \in BOOLEAN /\ transfer' \in {"none", "current", "stale"}
  BY DEF Send, QueueTypes
<1>2. CASE out' = Aged(queue)
  BY <1>1, <1>2, AgeQueue
<1>3. ASSUME NEW c \in Answers(command), NEW lines \in Lines(c), out' = Aged(queue) \o lines
      PROVE  out' \in Queue
  <2>1. c \in Class
    BY DEF Answers, Class
  <2>2. lines \in Queue /\ Aged(queue) \in Queue
    BY <2>1, LineQueue, AgeQueue
  <2> QED
    BY <1>3, <2>2, ExtendQueue
<1> QED
  BY <1>1, <1>2, <1>3 DEF Send

(* What is read leaves a queue.                                              *)
LEMMA ReadTypes ==
  ASSUME QueueTypes, out # <<>>
  PROVE  /\ Head(out).class \in Class /\ Tail(out) \in Queue /\ AfterReply \in Queue
         /\ Finals(Head(out)) \in {0, 1} /\ due - Finals(Head(out)) \in Int /\ due - 1 \in Int
<1>1. Head(out) \in LineSet /\ Tail(out) \in Queue /\ (~Head(out).last => Tail(out) # <<>>)
  BY ReadQueue DEF QueueTypes
<1>2. AfterReply \in Queue
  BY <1>1, ReadQueue, Zenon DEF AfterReply
<1> QED
  BY <1>1, <1>2 DEF LineSet, Finals, QueueTypes

(* The types are kept by every step.                                         *)
LEMMA NextQueueTypes == ASSUME QueueTypes, [Next]_vars PROVE QueueTypes'
<1> USE DEF Goto, GotLine, Expected
<1>1. CASE Deadline \/ LineTooLongOrIdle \/ ClientEof \/ Reject \/ Pasv \/ Stor
           \/ DataTlsOk \/ RelayEnds \/ BackendEof \/ Terminated \/ UNCHANGED vars
  <2>1. UNCHANGED <<control, backend_reply, due, out, transfer, backendUp>>
        /\ finals' \in {finals, finals + 1, 0, 1}
    BY <1>1 DEF Deadline, ConnectErr, NegotiationFails, AllocateSome, AllocateNone, ControlLost,
         NoChannel, DataTlsErr, BackendIo, LostAt, LineTooLongOrIdle, ClientEof, Reject, Pasv,
         StartAllocate, Stor, DataTlsOk, DataHandshake, RelayEnds, BackendEof, Terminated, vars,
         backendVars, quiet, Answer, TellAndEnd, ClientLost, End, Continue
  <2> QED
    BY <2>1 DEF QueueTypes
<1>2. CASE \/ ConnectOk \/ HandshakeOk \/ ForwardOther \/ ForwardQuit \/ ForwardStor
           \/ SlotAcquired \/ ConnectedData
  <2>1. /\ control' \in {control, "tls"} /\ UNCHANGED backend_reply /\ finals' \in {finals, 0}
        /\ \E command : Send(command, out, due)
    BY <1>2 DEF ConnectOk, HandshakeOk, ForwardOther, ForwardQuit, ForwardStor, Forward,
                SlotAcquired, ConnectedData
  <2>2. out' \in Queue /\ due' \in Int /\ transfer' \in {"none", "current", "stale"}
        /\ backendUp' \in BOOLEAN
    BY <2>1, SendTypes DEF QueueTypes
  <2> QED
    BY <2>1, <2>2 DEF QueueTypes
<1>3. CASE \E peer \in {"own", "other"} : AcceptData(peer)
  <2>1. /\ UNCHANGED <<control, backend_reply, finals>>
        /\ UNCHANGED quiet \/ Send(PassiveCommand, out, due)
    BY <1>3 DEF AcceptData, quiet
  <2>2. out' \in Queue /\ due' \in Int /\ transfer' \in {"none", "current", "stale"}
        /\ backendUp' \in BOOLEAN
    BY <2>1, SendTypes DEF QueueTypes, quiet, backendVars
  <2> QED
    BY <2>1, <2>2 DEF QueueTypes
<1>4. CASE BannerTls \/ PbszOk \/ EpsvRejected
  <2>1. /\ out # <<>> /\ backend_reply' = Head(out).class /\ UNCHANGED <<control, finals>>
        /\ \E command : \/ Send(command, Tail(out), due - Finals(Head(out)))
                        \/ Send(command, AfterReply, due - 1)
    BY <1>4 DEF BannerTls, PbszOk, EpsvRejected
  <2>2. out' \in Queue /\ due' \in Int /\ transfer' \in {"none", "current", "stale"}
        /\ backendUp' \in BOOLEAN /\ backend_reply' \in Class
    BY <2>1, SendTypes, ReadTypes
  <2> QED
    BY <2>1, <2>2 DEF QueueTypes
<1>5. CASE \/ BannerPlain \/ AuthOk \/ ProtOk \/ Reply \/ Goodbye \/ PassiveAddress
           \/ UnusableReply \/ StorReply \/ Completion
  <2>1. /\ out # <<>> /\ backend_reply' = Head(out).class
        /\ UNCHANGED <<control, transfer, backendUp>>
        /\ out' \in {Tail(out), AfterReply, <<>>}
        /\ due' \in {due - Finals(Head(out)), due - 1}
        /\ finals' \in {finals, finals + 1, finals + Finals(Head(out))}
    BY <1>5 DEF BannerPlain, AuthOk, ProtOk, Reply, Goodbye, PassiveAddress, UnusableReply,
         StorReply, Completion, Completed, JustRead, Relayed, StartTransfer, Answer, ClientLost,
         End, Continue
  <2>2. <<>> \in Queue
    BY DEF Queue
  <2>3. /\ backend_reply' \in Class /\ out' \in Queue /\ due' \in Int
        /\ Finals(Head(out)) \in Nat
    <3>1. /\ Head(out).class \in Class /\ Tail(out) \in Queue /\ AfterReply \in Queue
          /\ Finals(Head(out)) \in {0, 1} /\ due - Finals(Head(out)) \in Int /\ due - 1 \in Int
      BY <2>1, ReadTypes
    <3>2. backend_reply' \in Class /\ out' \in Queue
      BY <2>1, <2>2, <3>1, Zenon
    <3>3. due' \in Int /\ Finals(Head(out)) \in Nat
      BY <2>1, <3>1
    <3> QED
      BY <3>2, <3>3
  <2> QED
    BY <2>1, <2>3 DEF QueueTypes
<1>6. CASE BackendCloses
  BY <1>6, Zenon DEF BackendCloses, QueueTypes
<1>7. ASSUME NEW c \in {"2", "4", "5"}, BackendReports(c) PROVE QueueTypes'
  <2> DEFINE line == [class |-> c, stale |-> transfer = "stale", last |-> TRUE]
  <2>1. <<line>> \in Queue /\ line \in LineSet
    BY LineQueue, Zenon DEF Class, LineSet
  <2> HIDE DEF line
  <2>2. /\ out' = Append(out, line) /\ transfer' = "none"
        /\ UNCHANGED <<control, backend_reply, finals, due, backendUp>>
    BY <1>7 DEF BackendReports, line
  <2>3. out' = out \o <<line>>
    BY <2>1, <2>2, AppendIsConcat DEF QueueTypes, Queue
  <2>4. out' \in Queue
    BY <2>1, <2>3, ExtendQueue DEF QueueTypes
  <2> QED
    BY <2>2, <2>4 DEF QueueTypes
<1> QED
  BY <1>1, <1>2, <1>3, <1>4, <1>5, <1>6, <1>7 DEF Next, Event, Backend

(* Every variable keeps its type, also when the backend sends replies of     *)
(* several lines: no read of the session finds half a reply in the buffer.   *)
THEOREM SessionTypes == Spec => []TypeOK
<1>1. Init => QueueTypes /\ conf \in Configs
  BY DEF Init, QueueTypes, Queue
<1>2. conf \in Configs /\ [Next]_vars => (conf \in Configs)'
  BY DEF Next, Deadline, Event, Backend, Terminated, vars,
         ConnectErr, NegotiationFails, AllocateSome, AllocateNone, ControlLost, NoChannel,
         DataTlsErr, BackendIo, LostAt, TellAndEnd, ClientLost, Answer, End, Continue, Goto,
         ConnectOk, BannerPlain, BannerTls, AuthOk, HandshakeOk, PbszOk, ProtOk,
         LineTooLongOrIdle, ClientEof, Reject, Pasv, StartAllocate, Stor, ForwardOther,
         ForwardQuit, ForwardStor, Forward, Reply, Goodbye, AcceptData, SlotAcquired, EpsvRejected,
         PassiveAddress, UnusableReply, ConnectedData, StorReply, StartTransfer, DataTlsOk,
         DataHandshake, RelayEnds, Completion, Completed, BackendEof, BackendCloses, BackendReports
<1>3. SessionInv /\ QueueTypes /\ conf \in Configs => TypeOK
  BY DEF SessionInv, Types, QueueTypes, Queue, TypeOK, HeldSpace, CountSpace
<1> QED
  BY <1>1, <1>2, <1>3, NextQueueTypes, InitSessionInv, NextSessionInv, PTL DEF Spec
=============================================================================
