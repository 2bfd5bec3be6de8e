---------------------------- MODULE SubmitServer ----------------------------
(***************************************************************************)
(* mcpsubmit: the MCP server a provider starts to hand in its dossier.  It  *)
(* answers one request line at a time; a submission is parsed, written to a *)
(* temporary file, renamed over the submission file, and only then          *)
(* answered.  It is a member of the provider's process group.               *)
(***************************************************************************)
EXTENDS Dossiers

CONSTANTS
  MaxCalls,   \* bound on the calls of one provider
  Removed     \* the submission file is not there

VARIABLES
  server,   \* the process: step of the current request, argument, submitted
  file,     \* the submission file: a packet, NoPacket (empty) or Removed
  replies   \* what the provider was answered, in order

serverVars == <<server, file, replies>>

ServerTypeOK ==
  /\ server.pc \in {"down", "reading", "writing", "renamed", "over"}
  /\ server.submitted \in BOOLEAN
  /\ server.pc \in {"writing", "renamed"} <=> server.arg # NoPacket
  /\ \A i \in 1..Len(replies) : replies[i].accepted \in BOOLEAN

ServerInit ==
  /\ server = [pc |-> "down", arg |-> NoPacket, submitted |-> FALSE]
  /\ file = NoPacket
  /\ replies = <<>>

\* Run: the server starts reading request lines.
Serve ==
  /\ server.pc = "down"
  /\ server' = [server EXCEPT !.pc = "reading"]
  /\ UNCHANGED <<file, replies>>

Reply(p, accepted) == replies' = Append(replies, [packet |-> p, accepted |-> accepted])

\* handle and handleToolCall up to the write; other methods change nothing.
\* A second submission and an argument that
\* does not parse are tool errors; what is written is the encoded dossier.
ToolCall(schema, p) ==
  LET d == Parse(schema, <<p>>) IN
  /\ server.pc = "reading"
  /\ Len(replies) < MaxCalls
  /\ IF server.submitted \/ d = NoPacket
       THEN Reply(NoPacket, FALSE) /\ UNCHANGED server
       ELSE server' = [server EXCEPT !.pc = "writing", !.arg = d] /\ UNCHANGED replies
  /\ UNCHANGED file

\* Mutant: the answer is given before the file is in place.
WriteAtomicLate ==
  /\ server.pc = "writing"
  /\ \/ /\ Reply(server.arg, TRUE)
        /\ server' = [server EXCEPT !.pc = "reading", !.arg = NoPacket, !.submitted = TRUE]
        /\ UNCHANGED file
     \/ /\ Reply(server.arg, FALSE)
        /\ server' = [server EXCEPT !.pc = "reading", !.arg = NoPacket]
        /\ UNCHANGED file

\* writeAtomic: the temporary file is renamed over the submission file, or an
\* error is the answer and the provider may call again.
WriteAtomic ==
  /\ server.pc = "writing"
  /\ \/ /\ file' = server.arg
        /\ server' = [server EXCEPT !.pc = "renamed", !.submitted = TRUE]
        /\ UNCHANGED replies
     \/ /\ Reply(server.arg, FALSE)
        /\ server' = [server EXCEPT !.pc = "reading", !.arg = NoPacket]
        /\ UNCHANGED file

\* respond
RespondAccepted ==
  /\ server.pc = "renamed"
  /\ Reply(server.arg, TRUE)
  /\ server' = [server EXCEPT !.pc = "reading", !.arg = NoPacket]
  /\ UNCHANGED file

\* The provider closed its end, or the context is done before the next line.
ServerEnds ==
  /\ server.pc = "reading"
  /\ server' = [server EXCEPT !.pc = "over"]
  /\ UNCHANGED <<file, replies>>

\* SIGKILL in any step: a temporary file may stay, the submission file is
\* whole or untouched.
ServerKilled ==
  /\ server.pc \notin {"down", "over"}
  /\ server' = [server EXCEPT !.pc = "over", !.arg = NoPacket]
  /\ UNCHANGED <<file, replies>>
=============================================================================
