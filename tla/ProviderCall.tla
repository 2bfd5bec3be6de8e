---------------------------- MODULE ProviderCall ----------------------------
(***************************************************************************)
(* One call of an external reviewer or hardener, from the choice of the     *)
(* provider to the dossier its command works with: the provider runs under  *)
(* the ProcessRunner, claude and gemini hand in their dossier through the   *)
(* SubmitServer they start, codex writes an output file, a custom command   *)
(* prints, and the local provider answers without a process.  What a        *)
(* provider does, and when, is open.                                        *)
(***************************************************************************)
EXTENDS ProcessRunner, SubmitServer

CONSTANTS
  Requests,   \* [schema, provider, command, declared, markers, fallback, available]
  Outputs,    \* provider -> bound on what it prints
  Raw,        \* schema -> the JSON objects a provider can produce
  ExitCodes

ASSUME DossiersAssumption ==
  /\ Raw["review"] \subseteq ReviewDossier /\ Raw["harden"] \subseteq HardenDossier
  /\ Dossier \cap {Noise, NoPacket, Removed} = {} /\ NoPacket # Removed
  /\ \A r \in Requests : r.schema \in {"review", "harden"}

VARIABLE call  \* the goroutine of the command: step, provider, outcome

vars == <<runnerVars, serverVars, call>>

NoOutcome == [kind |-> "none", dossier |-> NoPacket, rejected |-> <<>>, unread |-> FALSE, artifact |-> FALSE]

Init ==
  /\ RunnerInit
  /\ ServerInit
  /\ call = [pc |-> "select", agent |-> "none", schema |-> "review", heard |-> 0,
             text |-> <<>>, outcome |-> NoOutcome]

-----------------------------------------------------------------------------
(* The provider. *)

AutoProviderOrder(host) ==
  CASE host = "codex"  -> <<"claude", "gemini", "codex">>
    [] host = "claude" -> <<"codex", "gemini", "claude">>
    [] OTHER           -> <<"codex", "claude", "gemini">>

\* The first installed provider; with fallback disabled never the host itself.
AutoProviderInfo(host, fallback, available) ==
  LET usable == SelectSeq(AutoProviderOrder(host),
                          LAMBDA p : p \in available /\ ~(fallback = "disable" /\ p = host))
  IN  IF usable = <<>> THEN "none" ELSE usable[1]

\* DetectHostAgent: what the environment declares, or else its first marker.
DetectHostAgent(r) ==
  IF r.declared # "undeclared" THEN r.declared ELSE IF r.markers = <<>> THEN "" ELSE r.markers[1]

\* Select: an explicit command wins, an explicit provider is taken as it is.
SelectProvider(r) ==
  IF r.command THEN "command"
  ELSE IF r.provider \in {"", "auto"} THEN AutoProviderInfo(DetectHostAgent(r), r.fallback, r.available)
  ELSE IF r.provider \in {"claude", "codex", "gemini", "local"} THEN r.provider
  ELSE "none"

\* codex may think in silence until its absolute timeout.
ProviderIdleTimeout(agent) == IF agent = "codex" THEN 0 ELSE IdleTimeout

HasServer == call.agent \in {"claude", "gemini"}
HasFile == call.agent \notin {"command", "local"}

Failed(rejected) == [NoOutcome EXCEPT !.kind = "failed", !.rejected = rejected]
Answered(d) == [NoOutcome EXCEPT !.kind = "dossier", !.dossier = d]

Choose ==
  /\ call.pc = "select"
  /\ \E r \in Requests :
       LET agent == SelectProvider(r) IN
       IF agent = "none"
         THEN call' = [call EXCEPT !.pc = "over", !.outcome = Failed(<<>>)]
         ELSE call' = [call EXCEPT !.pc = "run", !.agent = agent, !.schema = r.schema]
  /\ UNCHANGED <<runnerVars, serverVars>>

\* What the local provider answers: a pass without findings, a shape to keep.
LocalDossier(schema) ==
  IF schema = "review"
    THEN [verdict |-> "pass", summary |-> TRUE, attacks |-> 1, findings |-> <<>>]
    ELSE LET dims == <<"design", "scope", "path", "command", "timing", "rollback">>
         IN  [summary |-> TRUE, decision |-> "keep", edits |-> 0,
              observations |-> [i \in 1..6 |-> [dimension |-> dims[i], result |-> "clean",
                                                 grounded |-> TRUE, status |-> ""]]]

\* LocalProvider.InvokeAgent: no process is started.
InvokeLocal ==
  /\ call.pc = "run"
  /\ call.agent = "local"
  /\ call' = [call EXCEPT !.pc = "judge", !.text = <<LocalDossier(call.schema)>>]
  /\ UNCHANGED <<runnerVars, serverVars>>

Invoke ==
  /\ call.pc = "run"
  /\ call.agent # "local"
  /\ Start(ProviderIdleTimeout(call.agent))
  /\ call' = [call EXCEPT !.pc = "wait"]
  /\ UNCHANGED serverVars

-----------------------------------------------------------------------------
(* What came back. *)

\* slidingBuffer.String: a truncated text starts with a line that says so.
Stdout == IF runner.result.dropped > 0 THEN <<Noise>> \o runner.result.text ELSE runner.result.text

\* noSubmissionRepairText: the first printed object in dossier shape.
NoSubmissionRepairText ==
  LET shaped == SelectSeq(runner.result.text, LAMBDA l : l # Noise)
  IN  IF shaped = <<>> THEN <<>> ELSE <<shaped[1]>>

HasSubmission == file \notin {NoPacket, Removed}

\* claude and gemini hand in through the server: without a submission there is
\* no answer, and reading the file can fail.
ReadSubmission ==
  /\ HasServer
  /\ call' = [call EXCEPT !.pc = IF HasSubmission THEN "judge" ELSE "clean",
                !.text = IF HasSubmission THEN <<file>> ELSE @,
                !.outcome = IF HasSubmission THEN @ ELSE Failed(NoSubmissionRepairText)]

SubmissionUnreadable ==
  /\ HasServer
  /\ call' = [call EXCEPT !.pc = "clean", !.outcome = [Failed(<<>>) EXCEPT !.unread = TRUE]]

\* codex: the output file, if it can be read and is not empty, or what it printed.
ReadCodexOutput ==
  /\ call.agent = "codex"
  /\ \/ call' = [call EXCEPT !.pc = "judge", !.text = Stdout]
     \/ HasSubmission /\ call' = [call EXCEPT !.pc = "judge", !.text = <<file>>]

ReadCommandOutput ==
  /\ call.agent = "command"
  /\ call' = [call EXCEPT !.pc = "judge", !.text = Stdout]

\* InvokeAgent after the run.
ReadResponse ==
  /\ call.pc = "wait"
  /\ runner.pc = "returned"
  /\ ReadSubmission \/ SubmissionUnreadable \/ ReadCodexOutput \/ ReadCommandOutput
  /\ UNCHANGED <<runnerVars, serverVars>>

\* Mutant: a dossier that parses is enough.
DossierThatParses(result, text, schema) ==
  LET d == Parse(schema, text) IN
  IF d = NoPacket THEN Failed(IF result.diagnostic THEN text ELSE <<>>)
  ELSE Answered(d)

\* dossierFromProviderResult and its twin for harden: a stopped run gives no
\* dossier whatever it handed in, and a non-zero exit only a refusal.
DossierFromProviderResult(result, text, schema) ==
  LET d == Parse(schema, text) IN
  IF result.err # "" THEN Failed(<<>>)
  ELSE IF d = NoPacket THEN Failed(IF result.diagnostic THEN text ELSE <<>>)
  ELSE IF result.exit # 0 /\ ~Refuses(schema, d) THEN Failed(<<>>)
  ELSE Answered(d)

\* The deferred removal of the temporary file, and the judgement.
Judge ==
  /\ call.pc \in {"judge", "clean"}
  /\ call' = [call EXCEPT !.pc = "report",
                !.outcome = IF call.pc = "judge"
                              THEN DossierFromProviderResult(runner.result, call.text, call.schema) ELSE @]
  /\ file' = IF HasFile THEN Removed ELSE file
  /\ UNCHANGED <<runnerVars, server, replies>>

\* packetrepair.WriteArtifact: only for a rejected text, and writing may fail.
Report ==
  /\ call.pc = "report"
  /\ \E written \in BOOLEAN :
       call' = [call EXCEPT !.pc = "over",
                  !.outcome.artifact = written /\ call.outcome.rejected # <<>>]
  /\ UNCHANGED <<runnerVars, serverVars>>

-----------------------------------------------------------------------------
(* The provider at work. *)

Alive == child.state = "running" /\ ~child.killed

ProviderPrints ==
  /\ call.agent # "none" /\ Len(printed) < Outputs[call.agent]
  /\ \E c \in Chunks : c \in Raw[call.schema] \cup {Noise} /\ Prints(c)
  /\ UNCHANGED <<serverVars, call>>

CodexWrites ==
  /\ call.agent = "codex" /\ Alive
  /\ file = NoPacket
  /\ \E p \in Raw[call.schema] : file' = p
  /\ UNCHANGED <<runnerVars, server, replies, call>>

ProviderCallsTool ==
  /\ HasServer /\ Alive
  /\ \/ Serve
     \/ \E p \in Raw[call.schema] : ToolCall(call.schema, p)
  /\ UNCHANGED <<runnerVars, call>>

ProviderForks == Forks /\ UNCHANGED <<serverVars, call>>

\* The answers given until now are the ones the provider knew.
ProviderExits(code) ==
  /\ Exits(code)
  /\ call' = [call EXCEPT !.heard = Len(replies)]
  /\ UNCHANGED serverVars

DescendantEnds == HelperEnds /\ UNCHANGED <<serverVars, call>>
OperatorInterrupts == Interrupt /\ UNCHANGED <<serverVars, call>>

ServerWorks == (WriteAtomic \/ RespondAccepted) /\ UNCHANGED <<runnerVars, call>>

ServerStops ==
  /\ \/ ServerEnds /\ ~(child.state = "running" /\ ~child.termed)
     \/ ServerKilled /\ child.killed
  /\ UNCHANGED <<runnerVars, call>>

Runs == (RunnerStep \/ Tick) /\ UNCHANGED <<serverVars, call>>

Over == call.pc = "over" /\ UNCHANGED vars

Next ==
  \/ Choose \/ Invoke \/ InvokeLocal \/ Runs \/ ReadResponse \/ Judge \/ Report
  \/ ProviderPrints \/ CodexWrites \/ ProviderCallsTool \/ ProviderForks
  \/ \E code \in ExitCodes : ProviderExits(code)
  \/ DescendantEnds \/ OperatorInterrupts \/ ServerWorks \/ ServerStops
  \/ Over

Spec == Init /\ [][Next]_vars

\* The runner is scheduled, the clock runs, and a killed process ends.  The
\* provider need not ever do anything.
FairSpec ==
  /\ Spec
  /\ WF_vars(Choose) /\ WF_vars(Invoke) /\ WF_vars(InvokeLocal)
  /\ WF_vars(ReadResponse) /\ WF_vars(Judge) /\ WF_vars(Report)
  /\ WF_vars(RunnerStep /\ UNCHANGED <<serverVars, call>>)
  /\ WF_vars(Tick /\ UNCHANGED <<serverVars, call>>)
  /\ WF_vars(child.killed /\ ProviderExits(-1))
  /\ WF_vars(HelperKilled /\ UNCHANGED <<serverVars, call>>)

-----------------------------------------------------------------------------
(* Properties. *)

\* The steps of the runner, the server and the capture fit together.
TypeOK ==
  /\ RunnerTypeOK
  /\ ServerTypeOK
  /\ call.pc \in {"select", "run", "wait", "clean", "judge", "report", "over"}
  /\ call.outcome.kind \in {"none", "dossier", "failed"}

\* A dossier the gates will count comes from a process that ended by itself
\* and said what its exit code allows, it is well formed, and a pass has no
\* finding that still blocks: a provider stopped after a submission was
\* accepted, or one that ended within its grace period, gives no verdict
\* (dossierFromProviderResult, validateDossier).
VerdictIsEarned ==
  call.outcome.kind = "dossier" =>
    LET d == call.outcome.dossier IN
    /\ ~child.termed
    /\ child.exit # 0 => Refuses(call.schema, d)
    /\ IF call.schema = "review"
         THEN ValidReview(d) /\ (d.verdict = "pass" => \A i \in DOMAIN d.findings :
                                   d.findings[i].blocks => d.findings[i].status \in Resolved)
         ELSE ValidHarden(d)

\* If the server told the provider that its submission is accepted, and the
\* provider then ended well, the call ends with that submission and no other,
\* unless the file cannot be read (mcpsubmit writes before it answers).
HeardSubmissionDecides ==
  call.outcome.kind # "none" /\ HasServer /\ runner.result.err = "" /\ child.exit = 0 =>
    \A i \in 1..call.heard : replies[i].accepted =>
      call.outcome.unread \/ call.outcome.dossier = replies[i].packet

\* When Run returns, everything the child and its descendants ever printed was
\* read, nobody can print any more, and the result is the newest part of it
\* with the rest counted (the pumps end before the process is reaped).
OutputComplete ==
  runner.pc = "returned" /\ child.state # "none" =>
    /\ pipe = <<>> /\ ~PipeHeld
    /\ runner.result.dropped + Len(runner.result.text) = Len(printed)
    /\ IsSuffix(runner.result.text, printed)

\* Every call ends: the absolute timeout stops a provider that never answers,
\* except for a descendant that left the process group and keeps the output.
CallEnds == (call.pc # "select") ~> (call.pc = "over" \/ child.helper = "outside")
=============================================================================
