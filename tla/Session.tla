------------------------------ MODULE Session ------------------------------
(***************************************************************************)
(* One FTP session of the gateway: session::handle (src/server/session.rs) *)
(* with the helpers it awaits, relay::open_backend_data_connection and     *)
(* tls::negotiate_explicit_ftps.  A location (pc) is a place where the     *)
(* task awaits its client, its backend, a port or a slot; an action is     *)
(* what the task does from there to the next await.                        *)
(*                                                                         *)
(* The client and the backend are the environment.  The client may send    *)
(* any line, and its connection may fail at any write.  The backend may    *)
(* answer, refuse, stay silent, or go away; what it answers to a command   *)
(* is put in `out` when the command is sent, and is "not here yet" for as  *)
(* long as the session does not read it, so that a timeout can race every  *)
(* answer.                                                                 *)
(***************************************************************************)
EXTENDS Integers, Sequences

CONSTANTS
  Configs,      \* the configurations looked at, records as in ConfigSpace
  MaxUploads,   \* bound on the uploads a session attempts
  MultiLine     \* does the backend send replies of several lines (RFC 959)?

ConfigSpace == [tls      : BOOLEAN,   \* backend_tls is Some
                rotation : BOOLEAN,   \* source_rotator is Some
                ipMatch  : BOOLEAN,   \* limits.require_data_ip_match
                epsv     : BOOLEAN]   \* limits.backend_passive_mode = Epsv

ASSUME SessionAssumption ==
  /\ Configs \subseteq ConfigSpace
  /\ MaxUploads \in Nat
  /\ MultiLine \in BOOLEAN

VARIABLES
  conf,          \* the configuration, fixed at the start
  pc,            \* what the task awaits
  held,          \* what the task owns and drops: ports, slot, data connections
  control,       \* the BackendStream of the control connection: Plain or Tls
  backend_reply, \* the class of the reply read last
  uploads,       \* this session's share of the upload metrics
  finals,        \* final replies written to the client for its last command
  due,           \* final replies the backend owes for what it was sent
  out,           \* backend: reply lines sent or to be sent, not yet read
  transfer,      \* backend: the STOR it still has to report on
  backendUp      \* backend: has it kept the control connection open?

backendVars == <<out, transfer, backendUp>>
vars == <<conf, pc, held, control, backend_reply, uploads, finals, due, backendVars>>

Negotiating == {"auth", "handshake", "pbsz", "prot"}
Uploading   == {"stor", "dataTls", "relay", "completion"}
(* Where the task awaits one line of the control connection.                 *)
Reading     == {"banner", "epsv", "pasv", "stor", "completion", "reply", "goodbye"}
Serving     == {"ready", "alloc", "accept", "slot", "connectData"}
                 \cup Uploading \cup (Reading \ {"banner"})
Location    == {"connect", "banner", "done"} \cup Negotiating \cup Serving

(* Reply classes: the banner, 1yz, 2yz/3yz, a passive reply with an address, *)
(* 4yz and 5yz.  A reply is one line, or two with MultiLine; a line is stale *)
(* once another command was sent after the one it answers.                   *)
Class   == {"banner", "1", "2", "addr", "4", "5"}
LineSet == [class : Class, stale : BOOLEAN, last : BOOLEAN]

NothingHeld == [active_pasv |-> FALSE, guard |-> FALSE, slot |-> FALSE,
                client_data |-> "none", backend_data |-> "none"]

Init ==
  /\ conf \in Configs
  /\ pc = "connect"
  /\ held = NothingHeld
  /\ control = "plain"
  /\ backend_reply = "none"
  /\ uploads = [started |-> 0, completed |-> 0, failed |-> 0,
                attempt |-> FALSE, active |-> 0]
  /\ finals = 0
  /\ due = 0
  /\ out = <<>>
  /\ transfer = "none"
  /\ backendUp = TRUE

-----------------------------------------------------------------------------
(* The backend (external): what a command makes it do.                       *)
Answers(command) ==
  CASE command = "banner"           -> {"banner"}
    [] command \in {"epsv", "pasv"} -> {"addr", "4", "5"}
    [] command = "upload"           -> {"1", "4", "5"}
    [] command = "stray"            -> {"4", "5"}
    [] OTHER                        -> {"2", "4", "5"}

Lines(c) ==
  LET Line(isLast) == [class |-> c, stale |-> FALSE, last |-> isLast]
  IN  {<<Line(TRUE)>>} \cup IF MultiLine THEN {<<Line(FALSE), Line(TRUE)>>} ELSE {}

Aged(queue) == [i \in 1 .. Len(queue) |-> [queue[i] EXCEPT !.stale = TRUE]]

(* write_all of a command line to the backend, which has yet to send `queue` *)
(* and owes `owed` final replies: it answers, or never will.  A write that   *)
(* fails shows as the failure of the read that follows it.                   *)
Send(command, queue, owed) ==
  /\ due' = owed + 1
  /\ UNCHANGED backendUp
  /\ \/ /\ backendUp
        /\ \E c \in Answers(command) :
             /\ \E lines \in Lines(c) : out' = Aged(queue) \o lines
             /\ transfer' = IF c = "1" THEN "current"
                            ELSE IF transfer = "none" THEN "none" ELSE "stale"
     \/ /\ out' = Aged(queue)
        /\ transfer' = IF transfer = "none" THEN "none" ELSE "stale"

(* The report on a transfer: 2yz only once there were bytes to report on.    *)
BackendReports(c) ==
  /\ transfer # "none"
  /\ c = "2" => pc \in {"relay", "completion"}
  /\ out' = Append(out, [class |-> c, stale |-> transfer = "stale", last |-> TRUE])
  /\ transfer' = "none"
  /\ UNCHANGED <<conf, pc, held, control, backend_reply, uploads, finals, due,
                 backendUp>>

(* The backend closes the control connection.                                *)
BackendCloses ==
  /\ pc \notin {"connect", "done"}
  /\ backendUp
  /\ backendUp' = FALSE
  /\ transfer' = "none"
  /\ UNCHANGED <<conf, pc, held, control, backend_reply, uploads, finals, due, out>>

-----------------------------------------------------------------------------
(* What the actions of the task are made of.                                 *)

Guarded_Always == 1

(* Is there an UploadGuard?  It is made when the bytes are to be moved.      *)
Guarded == IF pc \in {"relay", "completion"} THEN 1 ELSE 0

(* Drop of an UploadAttempt that was not told succeeded(), and of the guard. *)
Dropped ==
  IF uploads.attempt
  THEN [uploads EXCEPT !.failed = @ + 1, !.attempt = FALSE, !.active = @ - Guarded]
  ELSE uploads

(* handle() returns: everything it owns is dropped.                          *)
End ==
  /\ pc' = "done"
  /\ held' = NothingHeld
  /\ uploads' = Dropped
  /\ UNCHANGED <<conf, control>>

(* `let _ = client_conn.write_all(...)`, then return or break.               *)
TellAndEnd == End /\ finals' = finals + 1

(* The loop goes round: the locals of the STOR arm are dropped.              *)
Continue ==
  /\ pc' = "ready"
  /\ held' = [NothingHeld EXCEPT !.active_pasv = held.active_pasv]
  /\ uploads' = Dropped
  /\ UNCHANGED <<conf, control>>

(* client_io!: a client that cannot be written to ends the session.          *)
ClientLost == End /\ UNCHANGED finals

(* client_io!(a final reply of the gateway's own), continue.                 *)
Answer == (Continue /\ finals' = finals + 1) \/ ClientLost

quiet == <<backend_reply, due, backendVars>>

Goto(from, to) ==
  /\ pc = from
  /\ pc' = to
  /\ UNCHANGED conf

IsFinal(line) == line.last /\ line.class # "1"

Finals(line) == IF IsFinal(line) THEN 1 ELSE 0

(* read_line_with_timeout: one line of the backend is here.                  *)
GotLine(at) ==
  /\ pc = at
  /\ out # <<>>
  /\ backend_reply' = Head(out).class

(* ... and no command follows it.                                            *)
JustRead ==
  /\ out' = Tail(out)
  /\ due' = due - Finals(Head(out))
  /\ UNCHANGED <<transfer, backendUp>>

(* client_io!(the line that was read).                                       *)
Relayed == finals' = finals + Finals(Head(out))

(* read_reply_code: a reply of one or more lines.                            *)
AfterReply == IF Head(out).last THEN Tail(out) ELSE Tail(Tail(out))

-----------------------------------------------------------------------------
(* Connecting, the banner, and explicit FTPS.                                *)

(* No source address, or no attempt from any of them, connects.              *)
ConnectErr == pc = "connect" /\ TellAndEnd /\ UNCHANGED quiet

(* One of the backend's addresses answered within the connection timeout.    *)
ConnectOk ==
  /\ Goto("connect", "banner")
  /\ Send("banner", out, due)
  /\ UNCHANGED <<held, control, backend_reply, uploads, finals>>

(* Without TLS the line is relayed at once.                                  *)
BannerPlain ==
  /\ ~conf.tls
  /\ GotLine("banner") /\ JustRead
  /\ (Continue /\ finals' = finals + 1) \/ ClientLost

(* With TLS it is kept, and AUTH TLS is sent first.                          *)
BannerTls ==
  /\ conf.tls
  /\ GotLine("banner")
  /\ Send("auth", Tail(out), due - Finals(Head(out)))
  /\ Goto("banner", "auth")
  /\ UNCHANGED <<held, control, uploads, finals>>

Expected(at) == GotLine(at) /\ Head(out).class = "2"

(* 234, and nothing in the buffer behind it.                                 *)
AuthOk ==
  /\ Expected("auth")
  /\ AfterReply = <<>>
  /\ out' = <<>> /\ due' = due - 1
  /\ Goto("auth", "handshake")
  /\ UNCHANGED <<held, control, uploads, finals, transfer, backendUp>>

HandshakeOk ==
  /\ Goto("handshake", "pbsz")
  /\ control' = "tls"
  /\ Send("pbsz", out, due)
  /\ UNCHANGED <<held, backend_reply, uploads, finals>>

PbszOk ==
  /\ Expected("pbsz")
  /\ Send("prot", AfterReply, due - 1)
  /\ Goto("pbsz", "prot")
  /\ UNCHANGED <<held, control, uploads, finals>>

(* Only now does the client see the banner.                                  *)
ProtOk ==
  /\ Expected("prot")
  /\ out' = AfterReply /\ due' = due - 1
  /\ UNCHANGED <<transfer, backendUp>>
  /\ (Continue /\ finals' = finals + 1) \/ ClientLost

NegotiationFails_FallsBack ==
  /\ pc = "auth" /\ out # <<>>
  /\ Continue /\ finals' = finals + 1
  /\ JustRead /\ UNCHANGED backend_reply

(* A refusal, an error or a timeout on the way: 421 and no plain session.    *)
NegotiationFails == pc \in Negotiating /\ TellAndEnd /\ UNCHANGED quiet

-----------------------------------------------------------------------------
(* The command loop.  finals counts from each client line on.                *)

(* 500 for an overlong line, 421 at the idle timeout: the session ends.      *)
LineTooLongOrIdle ==
  /\ pc = "ready"
  /\ End /\ finals' = 1
  /\ UNCHANGED quiet

(* End of file, or an error, on the client's connection.                     *)
ClientEof == pc = "ready" /\ ClientLost /\ UNCHANGED quiet

(* 501 for an embedded line break, 502 for an unknown verb: not forwarded.   *)
Reject ==
  /\ pc = "ready"
  /\ (Continue /\ finals' = 1) \/ ClientLost
  /\ UNCHANGED quiet

StartAllocate(owned) ==
  /\ Goto("ready", "alloc")
  /\ held' = owned
  /\ finals' = 0
  /\ UNCHANGED <<control, uploads, quiet>>

Pasv_KeepsOld == StartAllocate([held EXCEPT !.guard = held.active_pasv])

(* PASV or EPSV: the old port is dropped before a new one is asked for.      *)
Pasv == StartAllocate([held EXCEPT !.active_pasv = FALSE])

(* allocate() returned Some: announced, and kept once it was announced.      *)
AllocateSome ==
  /\ pc = "alloc"
  /\ \/ /\ Goto("alloc", "ready")
        /\ held' = [held EXCEPT !.active_pasv = TRUE]
        /\ finals' = finals + 1
        /\ UNCHANGED <<control, uploads>>
     \/ ClientLost
  /\ UNCHANGED quiet

AllocateNone_Silent == pc = "alloc" /\ Continue /\ UNCHANGED <<finals, quiet>>

AllocateNone == pc = "alloc" /\ Answer /\ UNCHANGED quiet

Forward(command, to) ==
  /\ Goto("ready", to)
  /\ Send(command, out, due)
  /\ finals' = 0
  /\ UNCHANGED <<held, control, backend_reply, uploads>>

(* A supported command with nothing for the gateway to do, and a STOR        *)
(* without a port of the gateway's: the backend's business.                  *)
ForwardOther == Forward("other", "reply")

ForwardQuit == Forward("quit", "goodbye")

ForwardStor == ~held.active_pasv /\ Forward("stray", "reply")

Reply ==
  /\ GotLine("reply") /\ JustRead
  /\ (Continue /\ Relayed) \/ ClientLost

Goodbye ==
  /\ GotLine("goodbye") /\ JustRead
  /\ (End /\ Relayed) \/ ClientLost

-----------------------------------------------------------------------------
(* STOR with a port: the data channel, then the transfer.                    *)
Stor ==
  /\ held.active_pasv
  /\ uploads.started < MaxUploads
  /\ Goto("ready", "accept")
  /\ held' = [held EXCEPT !.active_pasv = FALSE, !.guard = TRUE]
  /\ finals' = 0
  /\ UNCHANGED <<control, uploads, quiet>>

PassiveCommand == IF conf.epsv THEN "epsv" ELSE "pasv"

(* accept_client_data: with require_data_ip_match a connection from another  *)
(* address is closed and the wait, and its deadline, go on.                  *)
AcceptData(peer) ==
  /\ conf.ipMatch => peer = "own"
  /\ held' = [held EXCEPT !.client_data = peer]
  /\ \/ /\ conf.rotation
        /\ Goto("accept", "slot")
        /\ UNCHANGED quiet
     \/ /\ ~conf.rotation
        /\ Goto("accept", PassiveCommand)
        /\ Send(PassiveCommand, out, due)
        /\ UNCHANGED backend_reply
  /\ UNCHANGED <<control, uploads, finals>>

(* acquire_data_slot returned Some.                                          *)
SlotAcquired ==
  /\ Goto("slot", PassiveCommand)
  /\ held' = [held EXCEPT !.slot = TRUE]
  /\ Send(PassiveCommand, out, due)
  /\ UNCHANGED <<control, backend_reply, uploads, finals>>

(* A 5yz to EPSV: ask again with PASV.                                       *)
EpsvRejected ==
  /\ GotLine("epsv") /\ Head(out).class = "5"
  /\ Send("pasv", Tail(out), due - Finals(Head(out)))
  /\ Goto("epsv", "pasv")
  /\ UNCHANGED <<held, control, uploads, finals>>

PassiveAddress ==
  /\ GotLine("epsv") \/ GotLine("pasv")
  /\ Head(out).class = "addr"
  /\ JustRead
  /\ Goto(pc, "connectData")
  /\ UNCHANGED <<held, control, uploads, finals>>

(* DataConnectError::UnusableReply: 425, the session goes on.                *)
UnusableReply ==
  /\ GotLine("epsv") \/ GotLine("pasv")
  /\ Head(out).class # "addr"
  /\ ~(pc = "epsv" /\ Head(out).class = "5")
  /\ JustRead
  /\ Answer

ControlLost_Continues == pc \in {"epsv", "pasv"} /\ Answer /\ UNCHANGED quiet

(* DataConnectError::ControlConnection: no reply in time, or a broken one.   *)
ControlLost == pc \in {"epsv", "pasv"} /\ TellAndEnd /\ UNCHANGED quiet

NoChannel_NoAcceptTimeout == pc \in {"slot", "connectData"} /\ Answer /\ UNCHANGED quiet

(* Nobody connected in time, no slot came free in time, or the backend's     *)
(* data port could not be reached (ConnectFailed): 425.                      *)
NoChannel == pc \in {"accept", "slot", "connectData"} /\ Answer /\ UNCHANGED quiet

(* Both data connections are up: the upload is attempted, STOR is sent.      *)
ConnectedData ==
  /\ Goto("connectData", "stor")
  /\ held' = [held EXCEPT !.backend_data = "plain"]
  /\ uploads' = [uploads EXCEPT !.started = @ + 1, !.attempt = TRUE]
  /\ Send("upload", out, due)
  /\ UNCHANGED <<control, backend_reply, finals>>

(* The reply to STOR is relayed; then come the data connection's handshake   *)
(* with TLS, and the bytes without.                                          *)
StartTransfer ==
  /\ IF conf.tls THEN Goto("stor", "dataTls") /\ UNCHANGED uploads
     ELSE Goto("stor", "relay") /\ uploads' = [uploads EXCEPT !.active = @ + 1]
  /\ UNCHANGED <<held, control>>

StorReply_NoRefusal ==
  /\ GotLine("stor") /\ JustRead
  /\ (StartTransfer /\ Relayed) \/ ClientLost

(* A refusal goes back to the loop with TLS only.                            *)
StorReply ==
  /\ GotLine("stor") /\ JustRead
  /\ \/ ~(conf.tls /\ Head(out).class # "1") /\ StartTransfer /\ Relayed
     \/ conf.tls /\ Head(out).class # "1" /\ Continue /\ Relayed
     \/ ClientLost

DataHandshake(stream) ==
  /\ Goto("dataTls", "relay")
  /\ held' = [held EXCEPT !.backend_data = stream]
  /\ uploads' = [uploads EXCEPT !.active = @ + 1]
  /\ UNCHANGED <<control, finals, quiet>>

DataTlsOk_Skipped == DataHandshake("plain")

DataTlsOk == DataHandshake("tls")

(* The handshake failed or timed out: the stream is gone, and the backend's  *)
(* report is still waited for.                                               *)
DataTlsErr ==
  /\ Goto("dataTls", "completion")
  /\ held' = [held EXCEPT !.backend_data = "none"]
  /\ uploads' = [uploads EXCEPT !.active = @ + 1]
  /\ UNCHANGED <<control, finals, quiet>>

(* relay_bidirectional returned, Ok or Err; the backend's stream is dropped. *)
RelayEnds ==
  /\ Goto("relay", "completion")
  /\ held' = [held EXCEPT !.backend_data = "none"]
  /\ UNCHANGED <<control, uploads, finals, quiet>>

Completed(outcome) ==
  /\ GotLine("completion") /\ JustRead
  /\ pc' \in {"ready", "done"}
  /\ uploads' = outcome
  /\ UNCHANGED <<conf, control>>
  /\ \/ /\ pc' = "ready"
        /\ held' = [NothingHeld EXCEPT !.active_pasv = held.active_pasv]
        /\ Relayed
     \/ /\ pc' = "done"
        /\ held' = NothingHeld
        /\ UNCHANGED finals

Succeeded == [uploads EXCEPT !.completed = @ + 1, !.attempt = FALSE, !.active = @ - Guarded]

Completion_CountedTwice == Completed([Dropped EXCEPT !.completed = @ + 1])

(* The backend's report: 2yz is the only success.                            *)
Completion ==
  Completed(IF Head(out).class \in {"2", "addr", "banner"} THEN Succeeded ELSE Dropped)

-----------------------------------------------------------------------------
(* The backend fails while a line is awaited.                                *)

(* End of file: 421, or 426 after the bytes.                                 *)
BackendEof ==
  /\ pc \in Reading \ {"epsv", "pasv"}
  /\ ~backendUp /\ out = <<>>
  /\ TellAndEnd
  /\ UNCHANGED quiet

LostAt(places) ==
  /\ pc \in places
  /\ End
  /\ UNCHANGED <<finals, quiet>>

BackendIo_NoReplyTimeout == LostAt(Reading \ {"epsv", "pasv", "reply"})

(* backend_io!: an error, an overlong line or the command timeout ends the   *)
(* session without a word to the client.                                     *)
BackendIo == LostAt(Reading \ {"epsv", "pasv"})

-----------------------------------------------------------------------------
(* Where a tokio timeout ends the wait (allocate() ends by itself: PortPool). *)
Deadline ==
  \/ ConnectErr \/ NegotiationFails \/ AllocateSome \/ AllocateNone
  \/ ControlLost \/ NoChannel \/ DataTlsErr \/ BackendIo

(* What the client and the backend make the task do.                         *)
Event ==
  \/ ConnectOk \/ BannerPlain \/ BannerTls
  \/ AuthOk \/ HandshakeOk \/ PbszOk \/ ProtOk
  \/ LineTooLongOrIdle \/ ClientEof \/ Reject \/ Pasv \/ Stor
  \/ ForwardOther \/ ForwardQuit \/ ForwardStor \/ Reply \/ Goodbye
  \/ \E peer \in {"own", "other"} : AcceptData(peer)
  \/ SlotAcquired \/ EpsvRejected \/ PassiveAddress \/ UnusableReply \/ ConnectedData
  \/ StorReply \/ DataTlsOk \/ RelayEnds \/ Completion \/ BackendEof

Backend == BackendCloses \/ \E c \in {"2", "4", "5"} : BackendReports(c)

Terminated == pc = "done" /\ UNCHANGED vars

Next == Deadline \/ Event \/ Backend \/ Terminated

Spec == Init /\ [][Next]_vars

(* Nothing is assumed of the client or the backend; a timer that has run out *)
(* is polled.                                                                *)
FairSpec == Spec /\ WF_vars(Deadline)

-----------------------------------------------------------------------------
(* Every variable has its type.                                              *)
TypeOK ==
  /\ conf \in Configs
  /\ pc \in Location
  /\ held \in [active_pasv : BOOLEAN, guard : BOOLEAN, slot : BOOLEAN,
               client_data : {"none", "own", "other"},
               backend_data : {"none", "plain", "tls"}]
  /\ control \in {"plain", "tls"}
  /\ backend_reply \in Class \cup {"none"}
  /\ uploads \in [started : Nat, completed : Nat, failed : Nat,
                  attempt : BOOLEAN, active : Nat]
  /\ finals \in Nat
  /\ due \in Int
  /\ out \in Seq(LineSet)
  /\ transfer \in {"none", "current", "stale"}
  /\ backendUp \in BOOLEAN

(* Every upload that was counted as started is counted once as completed or  *)
(* as failed, on whichever of the exits of the STOR arm it leaves by ("no    *)
(* exit path can forget to", metrics.rs), and is in the gauge while bytes    *)
(* are moved and reported on.                                                *)
UploadsAccounted ==
  /\ uploads.started = uploads.completed + uploads.failed + IF uploads.attempt THEN 1 ELSE 0
  /\ uploads.attempt <=> pc \in Uploading
  /\ uploads.active = IF pc \in {"relay", "completion"} THEN 1 ELSE 0

(* The line the session is about to read answers the command it sent last:   *)
(* no exit of the STOR arm leaves a reply behind for the next command.       *)
RepliesInStep == pc \in Reading /\ out # <<>> => ~Head(out).stale

(* The session waits for a reply only when the backend owes one, and is      *)
(* ready for the next command only when it owes none.                        *)
WaitsOnlyIfDue == (pc \in Reading => due > 0) /\ (pc = "ready" => due = 0)

(* ... which holds of every session with TLS to the backend.                 *)
WaitsOnlyIfDueTls == conf.tls => WaitsOnlyIfDue

(* The client has one final reply for every command when the session is      *)
(* ready for the next one, and never a second one; the second one can come   *)
(* only after a refused STOR on a plain connection (WaitsOnlyIfDue).         *)
AnsweredOnce ==
  /\ pc = "ready" => finals = 1
  /\ finals <= 1 \/ (~conf.tls /\ pc = "done")

(* With backend TLS no client command is served, nothing is relayed and no   *)
(* byte is moved before the control connection, and then the data            *)
(* connection, is secured and the transfer accepted; and with                *)
(* require_data_ip_match the bytes are those of the client's own address.    *)
FailsClosed ==
  /\ conf.tls /\ (pc \in Serving) => control = "tls"
  /\ conf.tls /\ pc = "relay" => held.backend_data = "tls" /\ backend_reply = "1"
  /\ conf.ipMatch => held.client_data # "other"

(* A session holds one port of the pool at most, a slot only together with   *)
(* the port and the client's connection it is for, and between commands      *)
(* nothing but the port it announced.                                        *)
HoldsOnlyWhatItNeeds ==
  /\ ~(held.active_pasv /\ held.guard)
  /\ held.slot => conf.rotation /\ held.guard /\ held.client_data # "none"
  /\ pc = "ready" => held = [NothingHeld EXCEPT !.active_pasv = held.active_pasv]

(* Every wait comes to an end, the transfer of the bytes excepted: a client  *)
(* that never connects and a backend that never answers cannot hold the      *)
(* session, its port and its slot.                                           *)
EveryWaitEnds == (pc \notin {"ready", "relay", "done"}) ~> (pc \in {"ready", "relay", "done"})
=============================================================================
