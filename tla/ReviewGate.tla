----------------------------- MODULE ReviewGate -----------------------------
(***************************************************************************)
(* The read models every scafld command decides by: the lifecycle status a *)
(* session ledger projects onto a spec (core/reconcile) and the review gate *)
(* (core/reviewgate: authority.go, projection.go).  All of them are pure    *)
(* functions of a sequence of evidence entries.                             *)
(*                                                                          *)
(* The code scans entries from the newest to the oldest and stops at the    *)
(* first one of certain types: here, LastOf(es, types).  Positions stand for *)
(* entries, 0 for "none".                                                    *)
(*                                                                           *)
(* A review packet, its hash and the seal of the reviewed head are written   *)
(* whole by the command that records a review, so the checks that they agree *)
(* are left out; so is a receipt rejected by trust (SessionStore has it).    *)
(* Task material is the scoped content digest, one version number.  The task *)
(* has no phases and one final acceptance criterion.                         *)
(***************************************************************************)
EXTENDS Naturals, Sequences

CONSTANTS
  Contracts,   \* the digests a spec's contract can have
  CriterionOf, \* the acceptance criterion each contract declares
  NoMaterial   \* the caller projected the gate without a material seal

-----------------------------------------------------------------------------
(* Entries, by the constructors the commands use.                          *)

Approval == [type |-> "approval"]
Baseline == [type |-> "workspace_baseline"]
Build(status) == [type |-> "build", status |-> status]
Criterion(status, contract) ==
  [type |-> "criterion", status |-> status, criterion |-> CriterionOf[contract]]
Terminal(type) == [type |-> type]

\* A completion names the command that recorded it, in its reason.
Completion(by) == [type |-> "complete", by |-> by]

Override == [type |-> "review_override"]
Stage == [type |-> "review_stage"]

\* RunningAttemptEntry: `out` lists the changes the packet was built from.
RunningAttempt(lease, contract, material, out) ==
  [type |-> "review_attempt", status |-> "running", lease |-> lease,
   contract |-> contract, material |-> material, out |-> out]

\* closeAttemptEntry: the same attempt, accepted, failed or abandoned.
CloseAttempt(attempt, status) == [attempt EXCEPT !.status = status]

Review(status, by, contract, material, packet) ==
  [type |-> "review", status |-> status, by |-> by,
   contract |-> contract, material |-> material, packet |-> packet]

\* The position of the newest entry of one of the given types.
LastOf(es, types) ==
  CHOOSE i \in 0..Len(es) :
    /\ i # 0 => es[i].type \in types
    /\ \A j \in (i + 1)..Len(es) : es[j].type \notin types

Before(es, i) == SubSeq(es, 1, i - 1)

-----------------------------------------------------------------------------
(* core/reconcile: what the ledger says of the lifecycle.                  *)

LifecycleTypes == {"approval", "build", "review", "complete", "fail", "cancel"}

\* The newest criterion evidence passed, and for the criterion the contract
\* declares now.
AcceptancePassed(es, contract) ==
  LET i == LastOf(es, {"criterion"})
  IN  i # 0 /\ es[i].status = "pass" /\ es[i].criterion = CriterionOf[contract]

\* projectLifecycle: without lifecycle evidence the file keeps its status.
Lifecycle(es, fileStatus) ==
  LET i == LastOf(es, LifecycleTypes)
  IN  IF i = 0 THEN fileStatus
      ELSE CASE es[i].type = "approval" -> "approved"
             [] es[i].type = "build"    -> es[i].status
             [] es[i].type = "review"   -> "review"
             [] es[i].type = "complete" -> "completed"
             [] es[i].type = "fail"     -> "failed"
             [] es[i].type = "cancel"   -> "cancelled"

\* FromSession: stale acceptance evidence takes a task back out of review.
FromSession(es, fileStatus, contract) ==
  IF Lifecycle(es, fileStatus) = "review" /\ ~AcceptancePassed(es, contract)
  THEN "active" ELSE Lifecycle(es, fileStatus)

-----------------------------------------------------------------------------
(* core/reviewgate/authority.go: what authorises completion.               *)

Repairs == {"build", "criterion", "phase"}
Resets == {"approval", "workspace_baseline", "fail", "cancel", "complete"}
Verdicts == {"review"} \cup Repairs \cup Resets
Attempts == {"review_attempt"} \cup Verdicts
Gates == {"receipt"} \cup Attempts
Windows == {"review"} \cup Resets

NoAuthority == [found |-> FALSE, valid |-> FALSE, at |-> 0]

\* latestReviewAttemptBefore, and LatestAttempt when i is past the end: the
\* attempt of the window that position i closes.
AttemptBefore(es, i) ==
  LET a == LastOf(Before(es, i), Attempts)
  IN  IF a # 0 /\ es[a].type = "review_attempt" THEN a ELSE 0

LatestAttempt(es) == AttemptBefore(es, Len(es) + 1)

\* The attempts behind two reviews listed different changes.
AttemptChangedBetween(es, failed, passing) ==
  LET a == AttemptBefore(es, failed)
      b == AttemptBefore(es, passing)
  IN  a # 0 /\ b # 0 /\ es[a].out # es[b].out

\* Mutant: a pass stands whatever came before it.
NothingBlocks(es, i) == FALSE

\* priorBlockingReviewWithoutRepairEvidence: the pass at i directly follows a
\* failed review, with nothing repaired in between.
UnrepairedFailureBefore(es, i) ==
  LET r == LastOf(Before(es, i), Verdicts)
  IN  /\ r # 0
      /\ es[r].type = "review"
      /\ es[r].status = "fail"
      /\ ~AttemptChangedBetween(es, r, i)

AuditedOverride(es, i) == i > 1 /\ es[i - 1].type = "review_override"

\* validateReviewEntry.
ReviewAuthority(es, i) ==
  [found |-> TRUE,
   at    |-> i,
   valid |-> /\ es[i].status = "pass"
             /\ IF es[i].by = "human" THEN AuditedOverride(es, i)
                                      ELSE ~UnrepairedFailureBefore(es, i)]

\* reviewGateBefore: a receipt or a review authorises until anything else
\* that matters follows it.
ReviewGateBefore(es, i) ==
  LET g == LastOf(Before(es, i), Gates)
  IN  CASE g # 0 /\ es[g].type = "receipt" -> [found |-> TRUE, valid |-> TRUE, at |-> g]
        [] g # 0 /\ es[g].type = "review"  -> ReviewAuthority(es, g)
        [] OTHER                           -> NoAuthority

CurrentReviewGate(es) == ReviewGateBefore(es, Len(es) + 1)

\* What authorised the newest completion, whatever followed it.
TerminalAuthority(es) ==
  LET c == LastOf(es, {"complete"})
  IN  IF c = 0 THEN NoAuthority ELSE ReviewGateBefore(es, c)

HasReceipt(es, authority) == authority.valid /\ es[authority.at].type = "receipt"

-----------------------------------------------------------------------------
(* core/reviewgate/projection.go: the state of the gate.                   *)

\* Mutant: an attempt never gets stale.
NeverStale(attempt, now) == FALSE

\* DecodeAttempt: an attempt is stale from the instant its lease ends.
Stale(attempt, now) == attempt.status = "running" /\ now >= attempt.lease

LatestVisibleReview(es) ==
  LET r == LastOf(es, Verdicts)
  IN  IF r # 0 /\ es[r].type = "review" THEN r ELSE 0

\* latestReviewRepairWindow: the review that the newest repair evidence
\* followed, when no other review or reset came after.
RepairedReview(es) ==
  LET w == LastOf(es, Verdicts)
      r == LastOf(Before(es, w), Windows)
  IN  IF w # 0 /\ es[w].type \in Repairs /\ r # 0 /\ es[r].type = "review" THEN r ELSE 0

\* reviewRepairEvidenceChanged: the repair touched the contract or the task's
\* material.  A human review records neither, which counts as changed.
RepairEvidenceChanged(review, contract, material) ==
  \/ review.by = "human"
  \/ review.contract # contract
  \/ material = NoMaterial
  \/ review.material # material

\* Mutant: only the files are compared, not the contract.
StaleByMaterial(review, contract, material) ==
  /\ review.by # "human"
  /\ material # NoMaterial
  /\ review.material # material

\* staleReviewAuthority.
StaleAuthority(review, contract, material) ==
  /\ review.by # "human"
  /\ \/ review.contract # contract
     \/ material # NoMaterial /\ review.material # material

\* Project, for a task whose reconciled status is `status`.
Project(es, status, contract, material, now) ==
  LET a         == LatestAttempt(es)
      repaired  == RepairedReview(es)
      visible   == LatestVisibleReview(es)
      authority == CurrentReviewGate(es)
  IN  CASE status = "completed" ->
             IF TerminalAuthority(es).valid THEN "completed_authorized" ELSE "invalid"
        [] status \notin {"completed", "review"} -> "not_at_gate"
        [] OTHER ->
      CASE a # 0 /\ Stale(es[a], now)                           -> "attempt_stale"
        [] a # 0 /\ es[a].status = "running" /\ ~Stale(es[a], now) -> "attempt_running"
        [] a # 0 /\ es[a].status \in {"failed", "accepted"}     -> "attempt_failed"
        [] OTHER ->
      CASE repaired # 0 ->
             IF /\ es[repaired].status = "fail"
                /\ ~RepairEvidenceChanged(es[repaired], contract, material)
             THEN "needs_operator_decision" ELSE "stale_after_build"
        [] repaired = 0 /\ visible # 0 /\ es[visible].status = "fail" -> "review_failed"
        [] OTHER ->
      CASE authority.valid ->
             IF /\ es[authority.at].type = "review"
                /\ StaleAuthority(es[authority.at], contract, material)
             THEN "stale_after_change" ELSE "review_passed"
        [] authority.found /\ ~authority.valid -> "invalid"
        [] OTHER -> "ready_for_review"
=============================================================================
