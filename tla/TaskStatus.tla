----------------------------- MODULE TaskStatus -----------------------------
(***************************************************************************)
(* What scafld status tells the operator to do next (internal/app/status), *)
(* and where that leads.  Status reads what the commands of TaskCommands   *)
(* write: the ledger, the spec file, the task's material, the clock.       *)
(*                                                                         *)
(* A view is those four things.  `Carry` is what one command, run by       *)
(* itself, makes of a view: it decides by its own gate, not by the advice. *)
(* Hardening (HardenRounds has it) and reading failures are left out.      *)
(***************************************************************************)
EXTENDS TaskCommands

View == [es : Seq(Entry), spec : [contract : Contracts, status : Statuses],
         work : Nat, now : Nat]

Now == [es |-> ledger, spec |-> spec, work |-> work, now |-> now]

\* RunWithOptions: the spec reconciled with the ledger, and the gate projected
\* with a seal of the material wherever the projection asks for one.
StatusOf(v) == FromSession(v.es, v.spec.status, v.spec.contract)
KindOf(v)   == Project(v.es, StatusOf(v), v.spec.contract, v.work, v.now)

\* LatestReview in the state of a failed attempt: the review that attempts only
\* follow.  The projection returns before it looks for one that a repair followed.
VerdictOf(v) ==
  LET visible == LatestVisibleReview(v.es)
  IN  IF visible # 0 THEN v.es[visible].status ELSE "none"

\* Mutant: whatever authorises completion may be finalized, fresh or not.
ReviewAdviceByAuthority(v) ==
  IF CurrentReviewGate(v.es).valid THEN "finalize" ELSE "review"

\* repairContract, applyReviewGateState and nextAction at the review gate: the
\* command of the action, or the one it leads up to.
ReviewAdvice(v) ==
  LET kind == KindOf(v)
  IN  CASE kind = "attempt_running"                              -> "status"
        [] kind = "needs_operator_decision"                      -> "force_review"
        [] kind = "review_failed"                                -> "build"
        [] kind = "attempt_failed" /\ VerdictOf(v) = "fail"      -> "build"
        [] kind = "review_passed"                                -> "finalize"
        [] OTHER                                                 -> "review"

\* nextAction.
NextAction(v) ==
  LET status == StatusOf(v)
  IN  CASE status = "draft"                             -> "approve"
        [] status \in {"approved", "active", "blocked"} -> "build"
        [] status = "review"                            -> ReviewAdvice(v)
        [] OTHER                                        -> "none"

-----------------------------------------------------------------------------
(* The commands, run by themselves: acceptance and the reviewer pass.      *)

Extended(v, es) == [v EXCEPT !.es = @ \o es]

CarryApprove(v) ==
  IF v.spec.status # "draft" THEN v
  ELSE [Extended(v, <<Baseline, Approval>>) EXCEPT !.spec.status = "approved"]

\* The operator may have repaired something first: other material then.
CarryBuild(v, repairs) ==
  LET status == StatusOf(v)
      judged == <<Build("active"), Criterion("pass", v.spec.contract), Build("review")>>
      before == IF repairs THEN [v EXCEPT !.work = MaxEdits + 1] ELSE v
  IN  CASE status = "approved"               -> Extended(before, <<Build("active")>>)
        [] status \in {"active", "blocked"} -> Extended(before, judged)
        [] status = "review"                 -> Extended(before, <<Build("active")>> \o judged)
        [] OTHER                             -> v

\* The preflight goes without the material, the start with it.
CarryReview(v, forced) ==
  LET kind     == KindOf(v)
      running  == {"attempt_running", "review_failed"}
      refused  == running \cup
                  IF forced THEN {} ELSE {"review_passed", "needs_operator_decision"}
      abandons == IF kind = "attempt_stale"
                  THEN <<CloseAttempt(v.es[LatestAttempt(v.es)], "abandoned")>> ELSE << >>
      attempt  == RunningAttempt(v.now + Lease, v.spec.contract, v.work, v.work)
  IN  IF \/ StatusOf(v) # "review"
         \/ Project(v.es, "review", v.spec.contract, NoMaterial, v.now) \in running
         \/ kind \in refused
      THEN v
      ELSE Extended(v, abandons \o <<attempt, CloseAttempt(attempt, "accepted"),
                         Review("pass", "provider", v.spec.contract, v.work, v.work)>>)

\* A receipt that is there is recovered, otherwise one is minted; the
\* transaction adds what is missing, and the spec is archived.
CarryFinalize(v) ==
  LET terminal == TerminalAuthority(v.es)
      current  == CurrentReviewGate(v.es)
      has      == HasReceipt(v.es, terminal) \/ HasReceipt(v.es, current)
      minted   == [type |-> "receipt", digest |-> CHOOSE n \in Commands : TRUE,
                   head |-> << >>, review |-> current.at, contract |-> v.spec.contract,
                   material |-> v.work]
      complete == IF LastOf(v.es, {"complete"}) # 0 THEN << >> ELSE <<Completion("finalize")>>
      archived == [v EXCEPT !.spec.status = "completed"]
  IN  CASE has -> Extended(archived, complete)
        [] ~has /\ KindOf(v) = "review_passed" /\ Receipts(v.es) = {} ->
             Extended(archived, <<Criterion("pass", v.spec.contract), minted>> \o complete)
        [] OTHER -> v

\* Nothing to run: a running attempt answers, or its lease ends.
Wait(v) == [v EXCEPT !.now = IF LatestAttempt(v.es) = 0 THEN @ ELSE v.es[LatestAttempt(v.es)].lease]

Carry(v, repairs) ==
  LET next == NextAction(v)
  IN  CASE next = "approve"      -> CarryApprove(v)
        [] next = "build"        -> CarryBuild(v, repairs)
        [] next = "review"       -> CarryReview(v, FALSE)
        [] next = "force_review" -> CarryReview(v, TRUE)
        [] next = "finalize"     -> CarryFinalize(v)
        [] next = "status"       -> Wait(v)
        [] next = "none"         -> v

-----------------------------------------------------------------------------

\* The task is over: terminal, or archived with its receipt.
Settled(v) ==
  \/ StatusOf(v) \in {"completed", "failed", "cancelled"}
  \/ v.spec.status = "completed" /\ HasReceipt(v.es, TerminalAuthority(v.es))

\* Status is asked again after each command it advised.
Follow(v, repairs) == IF Settled(v) THEN v ELSE Carry(v, repairs)

\* Longest: approve, two builds, review, finalize, and one to spare.
Advices == 6

Followed(v, repairs) ==
  LET followed[k \in 0..Advices] == IF k = 0 THEN v ELSE Follow(followed[k - 1], repairs)
  IN  followed[Advices]

\* Whatever commands, edits and crashes did to the task: once no command runs, an
\* operator who runs what status advises, one command after the other, gets it
\* completed.  No command refuses what status advised, and no advice goes round
\* in circles, with or without a repair before each build.  The exception is a
\* legacy complete that raced with the others.
AdviceLeadsOn ==
  (/\ \A n \in Commands : pc[n] \in {"idle", "done"}
   /\ \A i \in DOMAIN ledger : ledger[i].type = "complete" => ledger[i].by = "finalize")
    => \A repairs \in BOOLEAN : Settled(Followed(Now, repairs))
=============================================================================
