------------------------------ MODULE Request ------------------------------
(***************************************************************************)
(* Reading a request of the metrics endpoint (read_request of              *)
(* src/server/metrics_server.rs).  What a client sends until it closes is  *)
(* a sequence of lines; a line is its length in bytes, its number of       *)
(* words, whether a newline ends it, which only the last one may lack, and *)
(* whether it is nothing but a line end.                                   *)
(***************************************************************************)
EXTENDS Lists

CONSTANTS MAX_REQUEST_LINE_BYTES, MAX_HEADER_BYTES

ASSUME RequestAssumption ==
  MAX_REQUEST_LINE_BYTES \in Nat \ {0} /\ MAX_HEADER_BYTES \in Nat \ {0}

-----------------------------------------------------------------------------
Smaller(a, b) == IF a < b THEN a ELSE b

(* take(cap).read_line: at most cap bytes of the line are read.              *)
TooLong(line, cap) == line.len > cap \/ (line.len = cap /\ ~line.newline)

Outcome(is, bytes) == [is |-> is, bytes |-> bytes]

(* One iteration of the loop over the header lines: `is` is "Reading" until  *)
(* it is left, `bytes` what was read so far.                                 *)
NextHeader_PerLine(loop, line) ==
  IF loop.is # "Reading" THEN loop
  ELSE IF TooLong(line, MAX_REQUEST_LINE_BYTES)
       THEN [loop EXCEPT !.is = "Malformed", !.bytes = @ + MAX_REQUEST_LINE_BYTES]
  ELSE [loop EXCEPT !.is = IF line.blank THEN "Ok" ELSE @, !.bytes = @ + line.len]

NextHeader(loop, line) ==
  LET cap == Smaller(loop.budget, MAX_REQUEST_LINE_BYTES)
  IN  IF loop.is # "Reading" THEN loop
      ELSE IF loop.budget = 0 \/ TooLong(line, cap)
           THEN [is     |-> "Malformed",
                 budget |-> loop.budget,
                 bytes  |-> loop.bytes + cap]
      ELSE [is     |-> IF line.blank THEN "Ok" ELSE "Reading",
            budget |-> loop.budget - line.len,
            bytes  |-> loop.bytes + line.len]

(* The loop, behind a request line of `first` bytes; the client may close    *)
(* before the blank line.                                                    *)
ReadHeaders(lines, first) ==
  LET loop[k \in 0 .. Len(lines)] ==
        IF k = 0 THEN [is |-> "Reading", budget |-> MAX_HEADER_BYTES, bytes |-> first]
        ELSE NextHeader(loop[k - 1], lines[k])
      last == loop[Len(lines)]
  IN  Outcome(IF last.is = "Reading" /\ last.budget # 0 THEN "Ok"
              ELSE IF last.is = "Reading" THEN "Malformed"
              ELSE last.is,
              last.bytes)

read_request(lines) ==
  IF lines = <<>> THEN Outcome("ConnectionClosed", 0)
  ELSE IF TooLong(Head(lines), MAX_REQUEST_LINE_BYTES) THEN Outcome("Malformed", MAX_REQUEST_LINE_BYTES)
  ELSE LET headers == ReadHeaders(Tail(lines), Head(lines).len)
       IN  IF headers.is = "Ok" /\ Head(lines).words = 0 THEN Outcome("Malformed", headers.bytes)
           ELSE headers

-----------------------------------------------------------------------------
(* What a client sends: no line is empty, and only the last lacks a newline. *)
IsRequest(lines) ==
  /\ IsList(lines)
  /\ \A k \in DOMAIN lines : lines[k].len \in Nat \ {0} /\ lines[k].words \in Nat
  /\ \A k \in 1 .. Len(lines) - 1 : lines[k].newline

Bytes(lines) ==
  LET sum[k \in 0 .. Len(lines)] == IF k = 0 THEN 0 ELSE sum[k - 1] + lines[k].len
  IN  sum[Len(lines)]

(* A request as HTTP has it: a request line, header lines, a blank line.     *)
WellFormed(lines) ==
  /\ Len(lines) >= 2
  /\ \A k \in DOMAIN lines : lines[k].newline
  /\ Head(lines).words > 0
  /\ \A k \in 2 .. Len(lines) : lines[k].blank <=> k = Len(lines)

(* "Bounded on every axis" and yet "generous headroom"                       *)
(* (metrics_server.rs:14, 129): whatever is sent, no more than the two       *)
(* limits together is read; a request whose line and headers are within the  *)
(* limits, the limits included, is answered, and one that is beyond is not.  *)
RequestsRight(lines) ==
  LET outcome == read_request(lines)
  IN  /\ outcome.bytes <= MAX_REQUEST_LINE_BYTES + MAX_HEADER_BYTES
      /\ WellFormed(lines) =>
           (outcome.is = "Ok" <=>
              /\ \A k \in DOMAIN lines : lines[k].len <= MAX_REQUEST_LINE_BYTES
              /\ Bytes(Tail(lines)) <= MAX_HEADER_BYTES)
=============================================================================
