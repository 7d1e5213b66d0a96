------------------------------- MODULE Inputs -------------------------------
(***************************************************************************)
(* The pure functions of the gateway, each called with any input of a set: *)
(* interface patterns and listings, requests of the metrics endpoint,      *)
(* files and environments, and the lines of the control connections.       *)
(***************************************************************************)
EXTENDS Source, Request, Config, Protocol

CONSTANTS Patterns, Texts,
          Listings, Includes, Excludes,
          Requests,
          Loads,                         \* files with environments
          Replies,                       \* lines with the peer's address
          Commands

ASSUME InputsAssumption ==
  /\ \A pattern \in Patterns : IsList(pattern)
  /\ \A text \in Texts : IsName(text)
  /\ \A addrs \in Listings : IsListing(addrs)
  /\ \A lines \in Requests : IsRequest(lines)
  /\ \A line \in Commands : IsList(line)
  /\ \A l \in Loads : l.of = "load" /\ IsFile(l.file) /\ IsEnv(l.env)
  /\ \A l \in Replies : l.of = "reply" /\ IsReply(l.line) /\ Unspecified \notin l.control

VARIABLES input, called
vars == <<input, called>>

Init ==
  /\ \/ input \in [of : {"glob"}, pattern : Patterns, text : Texts]
     \/ input \in [of : {"select"}, addrs : Listings, include : Includes, exclude : Excludes]
     \/ input \in [of : {"request"}, lines : Requests]
     \/ input \in [of : {"command"}, line : Commands]
     \/ input \in Loads \cup Replies
  /\ called = FALSE

Call == ~called /\ called' = TRUE /\ UNCHANGED input

Spec == Init /\ [][Call]_vars

-----------------------------------------------------------------------------
(* A pattern matches what its stars and question marks say, and the addresses*)
(* selected are those of the interfaces that are named, in order: GlobRight  *)
(* and SelectionRight of Source.                                             *)
SourcesSelected ==
  /\ input.of = "glob" /\ called => GlobRight(input.pattern, input.text)
  /\ input.of = "select" /\ called => SelectionRight(input.addrs, input.include, input.exclude)

(* No more of a request is read than the limits allow, and every request     *)
(* within them is answered: RequestsRight of Request.                        *)
RequestsRead == input.of = "request" /\ called => RequestsRight(input.lines)

(* What loads is usable, the environment over the file, and only what is not *)
(* usable is refused: LoadsRight of Config.                                  *)
ConfigsLoad == input.of = "load" /\ called => LoadsRight(input.file, input.env)

(* A passive reply is read as the address it announces and nothing else is   *)
(* taken for one, and a line that is taken is one command: RepliesRight and  *)
(* CommandsRight of Protocol.                                                *)
LinesRead ==
  /\ input.of = "reply" /\ called => RepliesRight(input.line, input.control, input.fallback)
  /\ input.of = "command" /\ called => CommandsRight(input.line)
=============================================================================
