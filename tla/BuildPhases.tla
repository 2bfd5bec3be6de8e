----------------------------- MODULE BuildPhases -----------------------------
(***************************************************************************)
(* scafld build on a task with several phases (internal/app/build): open a *)
(* phase, run its acceptance, open the next one, run the task's own        *)
(* acceptance, hand the task to review; from review, run all of it again.  *)
(* TaskCommands has the same command for a task without phases, among the  *)
(* other commands; here it is alone, in full.                              *)
(*                                                                         *)
(* Several build processes may run at once.  Every append returns the      *)
(* session as it then is, and the process goes on with that (`seen`).  The *)
(* operator edits the spec's acceptance and attaches manual evidence, and  *)
(* a process may die between any two steps.                                *)
(***************************************************************************)
EXTENDS Acceptance

CONSTANTS
  Builders,      \* processes
  Contracts,     \* what the spec may declare
  FirstContract, \* what it declares when the task is approved
  MaxTrouble     \* bound on edits of the spec, commands that fail, dispositions
                 \* that say fail, and processes that die: all of them together

Contract ==
  [phases : Seq(Phases), criteria : [Phases \cup {Final} -> Seq(Criterion)]]

\* A criterion stands in a phase the contract lists, or with the task itself.
ASSUME ContractsAreContracts ==
  /\ FirstContract \in Contracts
  /\ Contracts \subseteq Contract
  /\ \A c \in Contracts : \A p \in Phases :
       CriteriaOf(c, p) # {} => \E i \in DOMAIN c.phases : c.phases[i] = p

ASSUME FinalIsNoPhase == Final \notin Phases

ASSUME BoundIsNatural == MaxTrouble \in Nat

VARIABLES
  session, \* the indexes of the session ledger
  spec,    \* the acceptance contract in the spec file
  pc,      \* per builder: its next step
  call,    \* per builder: what the process holds
  trouble  \* edits, failures and crashes so far

vars == <<session, spec, pc, call, trouble>>

NoEvidence == [id |-> None, status |-> "pass"]

\* `rerun`: the task was at review at the first look.  `through`: how far in
\* the contract's phases the rerun is; `queue`: the criteria the current list has
\* left; `ran`: the criteria this rerun has judged.
Call(contract, evidence) ==
  [contract |-> contract, evidence |-> evidence, seen |-> Approved, rerun |-> FALSE,
   through |-> 0, phase |-> Final, queue |-> << >>, failed |-> FALSE, ran |-> {}]

Idle == Call(FirstContract, NoEvidence)

Init ==
  /\ session = Approved
  /\ spec = FirstContract
  /\ pc = [b \in Builders |-> "idle"]
  /\ call = [b \in Builders |-> Idle]
  /\ trouble = 0

Goto(b, step, c) == pc' = [pc EXCEPT ![b] = step] /\ call' = [call EXCEPT ![b] = c]
Done(b) == Goto(b, "idle", Idle)

\* What happens, and whether it is trouble.
Bounded(bad) ==
  /\ bad => trouble < MaxTrouble
  /\ trouble' = trouble + (IF bad THEN 1 ELSE 0)

\* An append, after which the process holds the session it made.
Append1(s) == session' = s
Seen(b) == [call[b] EXCEPT !.seen = session']

\* The process is done with what it has seen of the session, ...
Forget(c) == [c EXCEPT !.seen = Approved, !.evidence = NoEvidence]

\* ... or from now on uses the dispositions in it only.
Attached(s) == [Approved EXCEPT !.manual = s.manual]

-----------------------------------------------------------------------------
(* Run: two looks at the session, and the evidence of --criterion.         *)

\* A process starts, perhaps with a disposition for a manual criterion, and
\* loads the spec.
Begin(b, evidence) ==
  /\ pc[b] = "idle"
  /\ Bounded(evidence.status = "fail")
  /\ Goto(b, "look", Call(spec, evidence))
  /\ UNCHANGED <<session, spec>>

\* Whether everything is to be run again is decided by the first look.
Look(b) ==
  /\ pc[b] = "look"
  /\ Goto(b, "reload",
          [call[b] EXCEPT !.rerun = Status(call[b].contract, session) = "review"])
  /\ UNCHANGED <<session, spec, trouble>>

\* Mutant: a task back from review goes on like any other.
AfterEvidenceForgetsReview(c) ==
  IF Status(c.contract, c.seen) = "approved" THEN "open" ELSE "continue"

\* What comes after the evidence, by what the process has seen.
AfterEvidence(c) ==
  CASE Status(c.contract, c.seen) = "approved"              -> "open"
    [] Status(c.contract, c.seen) # "approved" /\ c.rerun  -> "rerun"
    [] OTHER                                                -> "continue"

\* recordManualEvidence needs a manual criterion of the contract.
Manual(contract, id) ==
  {x \in (Phases \cup {Final}) \X Criterion :
     x[2].id = id /\ x[2].kind = "manual" /\ x[2] \in CriteriaOf(contract, x[1])}

Reload(b) ==
  /\ pc[b] = "reload"
  /\ LET c        == [call[b] EXCEPT !.seen = session]
         attaches == c.evidence # NoEvidence
     IN  CASE ~attaches -> Goto(b, AfterEvidence(c), c)
           [] attaches /\ Manual(c.contract, c.evidence.id) # {} -> Goto(b, "attach", c)
           [] OTHER -> Done(b)
  /\ UNCHANGED <<session, spec, trouble>>

\* A disposition that is already the newest one of the criterion is not recorded
\* again, and at review that is all the call does.  Whether the same verdict comes
\* with the same digest, actor and reason (`repeats`) is open.
Attach(b) ==
  /\ pc[b] = "attach"
  /\ \E x \in Manual(call[b].contract, call[b].evidence.id), repeats \in BOOLEAN :
       LET c == call[b]
       IN  IF repeats /\ c.seen.manual[<<x[2].id, x[1]>>] = c.evidence.status
           THEN /\ UNCHANGED session
                /\ IF Status(c.contract, c.seen) = "review" THEN Done(b)
                   ELSE Goto(b, AfterEvidence(c), c)
           ELSE /\ Append1(WithManual(session, x[1], x[2], c.evidence.status))
                /\ Goto(b, AfterEvidence(Seen(b)), Seen(b))
  /\ UNCHANGED <<spec, trouble>>

-----------------------------------------------------------------------------
(* openBuild.  Without evidence the call ends there.                       *)

Opened(b) ==
  IF call[b].evidence = NoEvidence THEN Done(b) ELSE Goto(b, "reopen", Forget(call[b]))

OpenPhase(b) ==
  /\ pc[b] = "open"
  /\ LET p == PendingPhase(call[b].contract, call[b].seen)
     IN  IF p = Final
         THEN Append1(WithBuild(session, "active")) /\ Opened(b)
         ELSE Append1(WithPhase(session, call[b].contract, p, "active"))
              /\ Goto(b, "opened", [call[b] EXCEPT !.seen = Approved])
  /\ UNCHANGED <<spec, trouble>>

OpenBuild(b) ==
  /\ pc[b] = "opened"
  /\ Append1(WithBuild(session, "active"))
  /\ Opened(b)
  /\ UNCHANGED <<spec, trouble>>

Reopen(b) ==
  /\ pc[b] = "reopen"
  /\ Goto(b, IF call[b].rerun THEN "rerun" ELSE "continue", [call[b] EXCEPT !.seen = session])
  /\ UNCHANGED <<session, spec, trouble>>

-----------------------------------------------------------------------------
(* continueBuild, rerunAcceptanceForReviewRepair, runFinalAcceptance.      *)

\* Mutant: a task with no acceptance of its own is left where it is.
ToFinalIfAny(b, c) ==
  IF CriteriaOf(c.contract, Final) = {} THEN Done(b)
  ELSE Goto(b, "final", [Forget(c) EXCEPT !.phase = Final, !.failed = FALSE])

\* To the task's own acceptance, which may be empty.
ToFinal(b, c) ==
  Goto(b, IF CriteriaOf(c.contract, Final) = {} THEN "final verdict" ELSE "final",
       [Forget(c) EXCEPT !.phase = Final, !.failed = FALSE])

Continue(b) ==
  /\ pc[b] = "continue"
  /\ LET p == CurrentPhase(call[b].contract, call[b].seen)
     IN  IF p = Final
         THEN ToFinal(b, call[b]) /\ UNCHANGED session
         ELSE /\ Append1(WithBuild(session, "active"))
              /\ Goto(b, "list", [Forget(call[b]) EXCEPT !.phase = p])
  /\ UNCHANGED <<spec, trouble>>

\* The phases a rerun has left, by where they stand: the empty ones are skipped.
Ahead(c) ==
  {i \in DOMAIN c.contract.phases : i > c.through /\ CriteriaOf(c.contract, c.contract.phases[i]) # {}}

\* The next phase of a rerun, or the end of it.
RerunNext(b, c) ==
  \/ Ahead(c) = {} /\ ToFinal(b, c)
  \/ \E i \in Ahead(c) :
       /\ \A j \in Ahead(c) : i <= j
       /\ Goto(b, "list", [Forget(c) EXCEPT !.phase = c.contract.phases[i], !.through = i])

Rerun(b) ==
  /\ pc[b] = "rerun"
  /\ Append1(WithBuild(session, "active"))
  /\ RerunNext(b, call[b])
  /\ UNCHANGED <<spec, trouble>>

FinalBuild(b) ==
  /\ pc[b] = "final"
  /\ Append1(WithBuild(session, "active"))
  /\ Goto(b, "list", call[b])
  /\ UNCHANGED <<spec, trouble>>

\* runCriterionList looks at the session once, before its first criterion.
ListCriteria(b) ==
  /\ pc[b] = "list"
  /\ LET queue == call[b].contract.criteria[call[b].phase]
     IN  Goto(b, IF queue = << >> THEN "verdict" ELSE "criterion",
              [call[b] EXCEPT !.seen = Attached(session), !.queue = queue, !.failed = FALSE])
  /\ UNCHANGED <<session, spec, trouble>>

\* One criterion is through: on to the next one, or to the verdict.
Judged(b, c, status) ==
  LET rest == Tail(c.queue)
      judged == [c EXCEPT !.queue = rest, !.failed = @ \/ status # "pass",
                          !.ran = IF c.rerun THEN @ \cup {Head(c.queue).id} ELSE @]
  IN  CASE rest # << >>                     -> Goto(b, "criterion", judged)
        [] rest = << >> /\ c.phase # Final -> Goto(b, "verdict", Forget(judged))
        [] OTHER                            -> Goto(b, "final verdict", Forget(judged))

\* A disposition the process has seen stands for the criterion, and nothing
\* is appended...
ReuseEvidence(b) ==
  /\ pc[b] = "criterion"
  /\ LET k == Head(call[b].queue)
         m == call[b].seen.manual[<<k.id, call[b].phase>>]
     IN  /\ k.kind = "manual" /\ m # None
         /\ Judged(b, call[b], m)
  /\ UNCHANGED <<session, spec, trouble>>

\* ... otherwise the criterion is evaluated, and what it said is appended to
\* whatever the session has become.
Evaluate(b) ==
  /\ pc[b] = "criterion"
  /\ LET k == Head(call[b].queue)
     IN  /\ k.kind = "manual" => call[b].seen.manual[<<k.id, call[b].phase>>] = None
         /\ \E verdict \in Verdicts(k) :
              /\ Bounded(verdict = "fail")
              /\ Append1(WithState(session, call[b].phase, k, verdict))
              /\ Judged(b, [call[b] EXCEPT !.seen = Attached(session')], verdict)
  /\ UNCHANGED spec

\* The phase is blocked, or completed.
PhaseVerdict(b) ==
  /\ pc[b] = "verdict"
  /\ LET c == call[b]
     IN  \/ /\ c.failed
            /\ Append1(WithPhase(session, c.contract, c.phase, "blocked"))
            /\ Goto(b, "block", c)
         \/ /\ ~c.failed
            /\ Append1(WithPhase(session, c.contract, c.phase, "completed"))
            /\ IF c.rerun THEN RerunNext(b, c)
               ELSE LET next == PendingPhase(c.contract, session')
                    IN  IF next = Final THEN ToFinal(b, c)
                        ELSE Goto(b, "advance", [c EXCEPT !.phase = next])
  /\ UNCHANGED <<spec, trouble>>

BlockBuild(b) ==
  /\ pc[b] = "block"
  /\ Append1(WithBuild(session, "blocked"))
  /\ Done(b)
  /\ UNCHANGED <<spec, trouble>>

AdvancePhase(b) ==
  /\ pc[b] = "advance"
  /\ Append1(WithPhase(session, call[b].contract, call[b].phase, "active"))
  /\ Goto(b, "advanced", call[b])
  /\ UNCHANGED <<spec, trouble>>

AdvanceBuild(b) ==
  /\ pc[b] = "advanced"
  /\ Append1(WithBuild(session, "active"))
  /\ Done(b)
  /\ UNCHANGED <<spec, trouble>>

FinalVerdict(b) ==
  /\ pc[b] = "final verdict"
  /\ Append1(WithBuild(session, IF call[b].failed THEN "blocked" ELSE "review"))
  /\ Done(b)
  /\ UNCHANGED <<spec, trouble>>

-----------------------------------------------------------------------------
(* The world around the builds.                                            *)

EditSpec ==
  /\ Bounded(TRUE)
  /\ \E c \in Contracts \ {spec} : spec' = c
  /\ UNCHANGED <<session, pc, call>>

\* A process dies, or the store refuses its append.
Crash(b) ==
  /\ pc[b] # "idle"
  /\ Bounded(TRUE)
  /\ Done(b)
  /\ UNCHANGED <<session, spec>>

Step(b) ==
  \/ Look(b) \/ Reload(b) \/ Attach(b)
  \/ OpenPhase(b) \/ OpenBuild(b) \/ Reopen(b)
  \/ Continue(b) \/ Rerun(b) \/ FinalBuild(b)
  \/ ListCriteria(b) \/ ReuseEvidence(b) \/ Evaluate(b)
  \/ PhaseVerdict(b) \/ BlockBuild(b) \/ AdvancePhase(b) \/ AdvanceBuild(b) \/ FinalVerdict(b)

\* What an operator may say of a criterion that is manual in some version of
\* the spec.
Dispositions ==
  [id : {k \in Ids : \E c \in Contracts : Manual(c, k) # {}}, status : {"pass", "fail"}]

Next ==
  \/ \E b \in Builders : \E e \in Dispositions \cup {NoEvidence} : Begin(b, e)
  \/ \E b \in Builders : Step(b) \/ Crash(b)
  \/ EditSpec

Spec == Init /\ [][Next]_vars

\* "Repeat build until review": a process that has started goes on, builds are
\* started again and again, and the operator repeats the command that says that
\* what a manual criterion asks for is verified.
FairSpec ==
  /\ Spec
  /\ \A b \in Builders :
       /\ WF_vars(Step(b))
       /\ SF_vars(Begin(b, NoEvidence))
       /\ \A e \in Dispositions : e.status = "pass" => SF_vars(Begin(b, e))

-----------------------------------------------------------------------------

Steps == {"idle", "look", "reload", "attach", "open", "opened", "reopen", "continue", "rerun",
          "final", "list", "criterion", "verdict", "block", "advance", "advanced",
          "final verdict"}

\* What a process may hold.
Calls ==
  [contract : Contracts, evidence : Dispositions \cup {NoEvidence}, seen : Session,
   rerun : BOOLEAN, through : Nat, phase : Phases \cup {Final}, queue : Seq(Criterion),
   failed : BOOLEAN, ran : SUBSET Ids]

\* Every variable has its type.
TypeOK ==
  /\ session \in Session
  /\ spec \in Contracts
  /\ pc \in [Builders -> Steps]
  /\ call \in [Builders -> Calls]
  /\ trouble \in 0..MaxTrouble

\* build.go, continueBuild: "the first build call opens the first phase without
\* running future acceptance".  Whichever builds race, die or are repeated, and
\* whatever is edited meanwhile, a phase is judged only when each phase with
\* criteria before it has been completed at some time, and the task's own
\* acceptance only when all of them have.  The exception is a phase that an edit
\* puts, or gives criteria, before one that is recorded already: the recorded one
\* goes on.
PhasesInOrder ==
  \A b \in Builders :
    LET p       == call[b].phase
        earlier == Earlier(call[b].contract, p)
    IN  pc[b] = "criterion" =>
          (IF p = Final THEN earlier ELSE earlier \cap session.before[p]) \subseteq session.done

\* rerunAcceptanceForReviewRepair: a build of a task that was at review gives it
\* back to review only when this very call has gone through every criterion of the
\* contract: each command was run by this call, whatever it had said before the
\* review, and each manual criterion was looked up again; the disposition that
\* lookup finds may be from before the review.
RerunJudgesAll ==
  [][\A b \in Builders :
       (pc[b] = "final verdict" /\ call[b].rerun /\ ~call[b].failed /\ session' # session)
         => \A p \in Phases \cup {Final} : \A k \in CriteriaOf(call[b].contract, p) :
              k.id \in call[b].ran]_vars

\* A pass the operator attached to a criterion the spec declares as it was, and
\* that the newest record of the criterion hides all the same.
Hidden(p, k) ==
  /\ k.kind = "manual"
  /\ session.manual[<<k.id, p>>] = "pass"
  /\ ~Passed(session, k, p)

EvidenceIsHidden == \E p \in Phases \cup {Final} : \E k \in CriteriaOf(spec, p) : Hidden(p, k)

AtReview == Status(spec, session) = "review"

\* Builds that are repeated get the task to review again and again once commands
\* have stopped failing: no order of appends, no crash and no edit leaves a
\* phase that is opened for ever or a block that nothing lifts.  The exception
\* is a disposition that stays hidden.
BuildsConverge == []<>AtReview \/ <>[]EvidenceIsHidden

-----------------------------------------------------------------------------
(* What the documentation says and builds do not keep.                     *)

\* docs/execution.md:102: manual criteria "are intentionally pending until an
\* operator records their evidence"; docs/lifecycle.md:45: "repeat build until
\* review".  So with the evidence attached, builds get the task to review.
EvidenceIsConsumed == []<>AtReview
=============================================================================
