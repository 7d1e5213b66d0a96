------------------------------- MODULE Relay -------------------------------
(***************************************************************************)
(* The data relay (src/pasv/relay.rs): relay_bidirectional joins two       *)
(* copy_with_idle_timeout loops, "up" from the client to the backend and   *)
(* "down" the other way, each with a timer of its own.  Bytes are counted  *)
(* in chunks; a chunk is what one read returns.  Time is a tick that       *)
(* passes only when neither loop can run, since a ready task is polled     *)
(* much sooner than a timeout of seconds.                                  *)
(***************************************************************************)
EXTENDS Integers

CONSTANTS Chunks,        \* most chunks a peer sends in a direction
          Window,        \* chunks the sockets hold between gateway and sink
          IdleTimeout    \* data_idle_timeout in ticks

ASSUME RelayAssumption ==
  /\ Chunks \in Nat
  /\ Window \in Nat \ {0}
  /\ IdleTimeout \in Nat \ {0}

Direction == {"up", "down"}

VARIABLES
  sent,    \* chunks the source of each direction has sent
  eof,     \* has the source shut its side down?
  taken,   \* chunks the loop has read
  put,     \* chunks the loop has written
  got,     \* chunks the sink has received
  at,      \* where the loop is: select!, write_all, or returned Ok
  idle,    \* ticks on the loop's Sleep since it was reset
  result,  \* what relay_bidirectional returned
  quiet    \* ticks since a chunk was last moved in each direction

peers == <<sent, eof, got>>
relayVars == <<peers, taken, put, at, idle, result, quiet>>

RelayInit ==
  /\ sent = [d \in Direction |-> 0]
  /\ eof = [d \in Direction |-> FALSE]
  /\ taken = [d \in Direction |-> 0]
  /\ put = [d \in Direction |-> 0]
  /\ got = [d \in Direction |-> 0]
  /\ at = [d \in Direction |-> "select"]
  /\ idle = [d \in Direction |-> 0]
  /\ result = "running"
  /\ quiet = [d \in Direction |-> 0]

Bump(n) == IF n < IdleTimeout THEN n + 1 ELSE n

-----------------------------------------------------------------------------
(* The peers (external).                                                     *)
SourceSends(d) ==
  /\ ~eof[d] /\ sent[d] < Chunks
  /\ sent' = [sent EXCEPT ![d] = @ + 1]
  /\ UNCHANGED <<eof, got, taken, put, at, idle, result, quiet>>

(* An orderly close; a TLS peer that drops the connection reads the same.    *)
SourceCloses(d) ==
  /\ ~eof[d]
  /\ eof' = [eof EXCEPT ![d] = TRUE]
  /\ UNCHANGED <<sent, got, taken, put, at, idle, result, quiet>>

SinkReceives(d) ==
  /\ got[d] < put[d]
  /\ got' = [got EXCEPT ![d] = @ + 1]
  /\ UNCHANGED <<sent, eof, taken, put, at, idle, result, quiet>>

-----------------------------------------------------------------------------
(* copy_with_idle_timeout.                                                   *)
Running(d, place) == result = "running" /\ at[d] = place

ReadNext(d) ==
  /\ Running(d, "select")
  /\ taken' = [taken EXCEPT ![d] = @ + 1]
  /\ at' = [at EXCEPT ![d] = "write"]
  /\ quiet' = [quiet EXCEPT ![d] = 0]
  /\ UNCHANGED <<peers, put, idle, result>>

Read_ZeroIsData(d) == (taken[d] < sent[d] \/ eof[d]) /\ ReadNext(d)

Read(d) == taken[d] < sent[d] /\ ReadNext(d)

CanWrite(d) == put[d] - got[d] < Window

WriteTo(d, timers) ==
  /\ Running(d, "write")
  /\ CanWrite(d)
  /\ put' = [put EXCEPT ![d] = @ + 1]
  /\ at' = [at EXCEPT ![d] = "select"]
  /\ idle' = timers
  /\ quiet' = [quiet EXCEPT ![d] = 0]
  /\ UNCHANGED <<peers, taken, result>>

Write_NoReset(d) == WriteTo(d, idle)

(* write_all returned: this loop's timer, and only this one's, is reset.     *)
Write(d) == WriteTo(d, [idle EXCEPT ![d] = 0])

Finish_Any(d) ==
  /\ at' = [at EXCEPT ![d] = "done"]
  /\ result' = "ok"
  /\ UNCHANGED <<peers, taken, put, idle, quiet>>

Finish(d) ==
  /\ at' = [at EXCEPT ![d] = "done"]
  /\ result' = IF \A e \in Direction \ {d} : at[e] = "done" THEN "ok" ELSE "running"
  /\ UNCHANGED <<peers, taken, put, idle, quiet>>

ReadEof_Early(d) == Running(d, "select") /\ eof[d] /\ Finish(d)

(* End of file: shutdown() of the writer, the other direction runs on; when  *)
(* both have returned, so does try_join!.                                    *)
ReadEof(d) == Running(d, "select") /\ eof[d] /\ taken[d] = sent[d] /\ Finish(d)

Silent(d) == taken[d] = sent[d] /\ ~eof[d]

(* The timer is polled after the read, in select! only: not during a write.  *)
Expire(d) ==
  /\ Running(d, "select")
  /\ idle[d] = IdleTimeout
  /\ Silent(d)
  /\ result' = "timedOut"
  /\ UNCHANGED <<peers, taken, put, at, idle, quiet>>

TimerFires_UploadOnly(d) == d = "up" /\ Expire(d)

TimerFires(d) == Expire(d)

(* A read or a write fails: try_join! drops the other direction.             *)
IoError(d) ==
  /\ result = "running" /\ at[d] # "done"
  /\ result' = "error"
  /\ UNCHANGED <<peers, taken, put, at, idle, quiet>>

CanRun(d) ==
  \/ at[d] = "select" /\ (~Silent(d) \/ idle[d] = IdleTimeout)
  \/ at[d] = "write" /\ CanWrite(d)

Tick ==
  /\ result = "running"
  /\ \A d \in Direction : ~CanRun(d)
  /\ idle' = [d \in Direction |-> Bump(idle[d])]
  /\ quiet' = [d \in Direction |-> Bump(quiet[d])]
  /\ UNCHANGED <<peers, taken, put, at, result>>

-----------------------------------------------------------------------------
Loop == \E d \in Direction : Read(d) \/ Write(d) \/ ReadEof(d) \/ TimerFires(d)

RelayNext ==
  \/ Loop \/ Tick
  \/ \E d \in Direction :
       SourceSends(d) \/ SourceCloses(d) \/ SinkReceives(d) \/ IoError(d)

RelaySpec == RelayInit /\ [][RelayNext]_relayVars

-----------------------------------------------------------------------------
(* Every variable has its type, and chunks are read after they were sent,    *)
(* written after they were read and received after they were written.        *)
RelayTypeOK ==
  /\ sent \in [Direction -> 0 .. Chunks]
  /\ eof \in [Direction -> BOOLEAN]
  /\ \A f \in {taken, put, got} : f \in [Direction -> 0 .. Chunks]
  /\ at \in [Direction -> {"select", "write", "done"}]
  /\ idle \in [Direction -> 0 .. IdleTimeout]
  /\ result \in {"running", "ok", "timedOut", "error"}
  /\ quiet \in [Direction -> 0 .. IdleTimeout]
  /\ \A d \in Direction : got[d] <= put[d] /\ put[d] <= taken[d] /\ taken[d] <= sent[d]

(* A peer sees end of file only behind the last byte the other one sent,     *)
(* and the relay is Ok only when both directions were relayed whole: half    *)
(* closing one direction neither cuts off nor outlives the other.            *)
WholeStreams ==
  /\ \A d \in Direction : at[d] = "done" => eof[d] /\ put[d] = sent[d]
  /\ result = "ok" <=> \A d \in Direction : at[d] = "done"

(* "a slow-but-active upload is never cut off" (relay.rs:220): the idle      *)
(* timeout strikes only when nothing was moved in either direction for that  *)
(* long.                                                                     *)
ActiveNeverCutOff ==
  result = "timedOut" => \A d \in Direction : quiet[d] = IdleTimeout

(* What the code does guarantee: one direction was silent that long.         *)
GivesUpOnSilence ==
  result = "timedOut" => \E d \in Direction : quiet[d] = IdleTimeout
=============================================================================
