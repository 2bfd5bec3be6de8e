----------------------------- MODULE Acceptance -----------------------------
(***************************************************************************)
(* How one acceptance criterion is judged (app/acceptance, shared by build *)
(* and finalize; core/acceptance), and which recorded evidence counts for  *)
(* the criterion a spec declares now (core/reconcile, core/session).       *)
(*                                                                         *)
(* A criterion is its id, the kind of result it expects and its command.   *)
(* Its type follows from the kind (core/spec validateCriterion).           *)
(***************************************************************************)
EXTENDS Naturals, Sequences

CONSTANTS
  Ids,        \* ids of criteria: unique in a spec, whatever their phase
  Phases,     \* ids of phases
  Commands,   \* acceptance commands
  NoCommand,  \* the command of a manual criterion
  Final,      \* where the criteria of the task itself stand: no phase
  None        \* no evidence

CommandKinds == {"exit_code_zero", "exit_code_nonzero", "no_matches", "browser_evidence"}

Criterion ==
  [id : Ids, kind : CommandKinds, command : Commands]
  \cup [id : Ids, kind : {"manual"}, command : {NoCommand}]

\* What a command left behind: its exit code, what it printed (nothing, text,
\* a complete browser packet), and whether the runner failed or timed out.
Execution == [exit : 0..1, output : {"nothing", "text", "packet"}, error : BOOLEAN]

\* coreacceptance.Evaluate.
Expected(kind, execution) ==
  CASE kind = "exit_code_zero"    -> execution.exit = 0
    [] kind = "exit_code_nonzero" -> execution.exit # 0
    [] kind = "no_matches"        -> execution.output = "nothing"
    [] kind = "browser_evidence"  -> execution.exit = 0 /\ execution.output = "packet"

\* evaluateCriterion: a command that could not be run to its end fails, even
\* where a nonzero exit is what the criterion wants.
Judge(kind, execution) ==
  IF ~execution.error /\ Expected(kind, execution) THEN "pass" ELSE "fail"

\* What evaluating a criterion can say.  A manual one without evidence waits.
Verdicts(criterion) ==
  IF criterion.kind = "manual" THEN {"pending"}
  ELSE {Judge(criterion.kind, e) : e \in Execution}

-----------------------------------------------------------------------------
(* What a spec declares.                                                   *)

\* A contract lists its phases and, per phase and for the task, its criteria.
CriteriaOf(contract, phase) == {contract.criteria[phase][i] : i \in DOMAIN contract.criteria[phase]}

\* The phases with something to judge that a contract puts before a phase: for
\* Final, which is no phase, all of them.
Earlier(contract, phase) ==
  {p \in Phases :
     /\ CriteriaOf(contract, p) # {}
     /\ \E i \in DOMAIN contract.phases :
          contract.phases[i] = p /\ \A j \in 1..i : contract.phases[j] # phase}

-----------------------------------------------------------------------------
(* The session's indexes, as every append advances them: the newest record *)
(* of each criterion id, the newest state of each phase, the lifecycle     *)
(* status, the newest disposition an operator attached to a manual         *)
(* criterion of a phase.  Two more fields are history: `done`, the phases  *)
(* that have ever been recorded as completed, and `before`, what stood     *)
(* before a phase when it was first recorded (any phase, until it is).     *)

Session ==
  [status : {"approved", "active", "blocked", "review"},
   states : [Ids -> [phase : Phases \cup {Final}, status : {"pass", "fail", "pending"},
                     kind : CommandKinds \cup {"manual"}, command : Commands \cup {NoCommand}]
                    \cup {None}],
   blocks : [Phases -> {"pending", "active", "blocked", "completed"}],
   manual : [Ids \X (Phases \cup {Final}) -> {"pass", "fail", None}],
   done   : SUBSET Phases,
   before : [Phases -> SUBSET Phases]]

\* A task right after its approval.
Approved ==
  [status |-> "approved",
   states |-> [k \in Ids |-> None],
   blocks |-> [p \in Phases |-> "pending"],
   manual |-> [x \in Ids \X (Phases \cup {Final}) |-> None],
   done   |-> {},
   before |-> [p \in Phases |-> Phases]]

WithBuild(s, status) == [s EXCEPT !.status = status]

\* A process that goes by `contract` records the state of a phase.
WithPhase(s, contract, phase, status) ==
  [s EXCEPT !.blocks[phase] = status,
            !.done = IF status = "completed" THEN @ \cup {phase} ELSE @,
            !.before[phase] = IF s.blocks[phase] = "pending" THEN Earlier(contract, phase)
                              ELSE @]

WithState(s, phase, criterion, status) ==
  [s EXCEPT !.states[criterion.id] =
     [phase |-> phase, status |-> status, kind |-> criterion.kind,
      command |-> criterion.command]]

WithManual(s, phase, criterion, disposition) ==
  [WithState(s, phase, criterion, disposition)
     EXCEPT !.manual[<<criterion.id, phase>>] = disposition]

-----------------------------------------------------------------------------
(* core/reconcile: what a spec's criteria and phases look like from there. *)

\* criterionEvidenceMatches: the newest record is evidence for this criterion
\* only while phase, kind, type and command are what the spec declares.
EvidenceMatches(criterion, phase, r) ==
  /\ r # None
  /\ r.phase = phase
  /\ r.kind = criterion.kind
  /\ r.command = criterion.command

Passed(s, criterion, phase) ==
  LET r == s.states[criterion.id]
  IN  EvidenceMatches(criterion, phase, r) /\ r.status = "pass"

\* phaseAcceptancePassed.
AllPassed(contract, s, phase) ==
  \A k \in CriteriaOf(contract, phase) : Passed(s, k, phase)

\* A completed phase is active again when its criteria are no longer passed.
PhaseStatus(contract, s, phase) ==
  IF s.blocks[phase] = "completed" /\ ~AllPassed(contract, s, phase)
  THEN "active" ELSE s.blocks[phase]

\* projectAcceptanceFreshness.
Stale(contract, s, phase) ==
  /\ CriteriaOf(contract, phase) # {}
  /\ phase # Final => PhaseStatus(contract, s, phase) # "completed"
  /\ phase = Final => ~AllPassed(contract, s, phase)

Status(contract, s) ==
  IF /\ s.status = "review"
     /\ \E p \in Phases \cup {Final} : Stale(contract, s, p)
  THEN "active" ELSE s.status

\* The first phase, in the contract's order, in one of the given states;
\* Final when there is none.
FirstPhase(contract, s, states) ==
  LET hits == {i \in DOMAIN contract.phases :
                 PhaseStatus(contract, s, contract.phases[i]) \in states}
  IN  IF hits = {} THEN Final
      ELSE contract.phases[CHOOSE i \in hits : \A j \in hits : i <= j]

\* Mutant: a phase that was opened is not pending any more.
NeverOpenedPhase(contract, s) == FirstPhase(contract, s, {"pending"})

\* firstPendingPhase: the first that is not completed.
PendingPhase(contract, s) == FirstPhase(contract, s, {"pending", "active", "blocked"})

ActivePhase(contract, s) ==
  LET p == FirstPhase(contract, s, {"active"})
  IN  IF p # Final THEN p ELSE PendingPhase(contract, s)

BlockedPhase(contract, s) ==
  LET p == FirstPhase(contract, s, {"blocked"})
  IN  IF p # Final THEN p ELSE ActivePhase(contract, s)

\* applyStaleAcceptanceState: the phase a task that fell back from review is at.
StalePhase(contract, s) ==
  IF Stale(contract, s, Final) THEN PendingPhase(contract, s)
  ELSE LET stale == {i \in DOMAIN contract.phases : Stale(contract, s, contract.phases[i])}
       IN  contract.phases[CHOOSE i \in stale : \A j \in stale : i <= j]

\* currentPhaseID, of the current phase the projection names.
CurrentPhase(contract, s) ==
  CASE s.status = "active"  -> ActivePhase(contract, s)
    [] s.status = "blocked" -> BlockedPhase(contract, s)
    [] s.status = "review" /\ Status(contract, s) = "active" -> StalePhase(contract, s)
    [] OTHER -> PendingPhase(contract, s)
=============================================================================
