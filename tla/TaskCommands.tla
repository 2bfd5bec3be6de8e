---------------------------- MODULE TaskCommands ----------------------------
(***************************************************************************)
(* The commands that move one task through its lifecycle (internal/app and *)
(* adapters/cli/finalize), run by several scafld processes at once.        *)
(*                                                                         *)
(* Each command loads the spec file, loads the session ledger, decides by  *)
(* the read models of ReviewGate, and appends evidence.  Between its reads *)
(* and its appends other processes append, the operator edits the spec and *)
(* the workspace, the clock moves and the process may die: every read and  *)
(* every append is a step of its own.  One append, or one transaction, is  *)
(* atomic and never lost: that is what SessionStore shows of the store.    *)
(*                                                                         *)
(* Stage entries (appendReviewStage) are kept only where a reader can tell *)
(* them from nothing: right behind a review_override.                      *)
(***************************************************************************)
EXTENDS ReviewGate

CONSTANTS
  Commands,      \* the command invocations, each a process
  Kinds,         \* what they may be
  Histories,     \* ledgers the task may start from
  FirstContract, \* the contract it starts with
  Lease,         \* how long a review attempt is leased, in clock ticks
  MaxTime,       \* bound on the clock
  MaxEdits,      \* bound on edits of the spec and of the workspace
  MaxCrashes,    \* bound on processes that die
  NoReceipt      \* no receipt file, or a call that has minted none

ASSUME BoundsAreNumbers ==
  {Lease, MaxTime, MaxEdits, MaxCrashes} \subseteq Nat

ASSUME LeaseEndsInTime == Lease \in 1..MaxTime

ASSUME FirstContractIsOne == FirstContract \in Contracts

VARIABLES
  ledger,   \* the entries of session.json
  spec,     \* the Markdown spec: its contract and the status written in it
  work,     \* the task's material: the version of the files in its scope
  now,      \* the clock
  files,    \* .scafld/receipts: <task>.json and latest.json
  pc, call, \* per command: the next step, and what the process holds
  spent     \* edits and crashes so far

vars == <<ledger, spec, work, now, files, pc, call, spent>>

\* What the process of one command holds in memory.  `seen` is how much of
\* the ledger it loaded: a ledger only grows, so a loaded one is a prefix.
NoCall == [kind |-> "none", contract |-> "none", status |-> "none", now |-> 0,
           seen |-> 0, packet |-> 0, material |-> 0, attempt |-> 0,
           verdict |-> "none", review |-> 0, receipt |-> NoReceipt]

Loaded(n) == SubSeq(ledger, 1, call[n].seen)

\* The status the command sees after reconciling its spec with the ledger.
Status(n, es) == FromSession(es, call[n].status, call[n].contract)

Goto(n, step, c) == pc' = [pc EXCEPT ![n] = step] /\ call' = [call EXCEPT ![n] = c]
Finish(n) == Goto(n, "done", NoCall)
Log(es) == ledger' = ledger \o es

\* appendReviewStage.
StageEntries == IF ledger # << >> /\ ledger[Len(ledger)] = Override THEN <<Stage>> ELSE << >>

\* The ledger of a draft, of a task that approve and two builds brought to
\* review, and of one that a provider has reviewed since.
Drafted == << >>
Built   == <<Baseline, Approval, Build("active"), Build("active"),
             Criterion("pass", FirstContract), Build("review")>>
Reviewed(verdict) ==
  LET attempt == RunningAttempt(0, FirstContract, 0, 0)
  IN  Built \o <<attempt, CloseAttempt(attempt, "accepted"),
                Review(verdict, "provider", FirstContract, 0, 0)>>

Init ==
  /\ ledger \in Histories
  /\ spec = [contract |-> FirstContract,
             status   |-> IF ledger = Drafted THEN "draft" ELSE "approved"]
  /\ work = 0
  /\ now = 0
  /\ files = [task |-> NoReceipt, latest |-> NoReceipt]
  /\ pc = [n \in Commands |-> "idle"]
  /\ call = [n \in Commands |-> NoCall]
  /\ spent = [edits |-> 0, crashes |-> 0]

\* A process starts and loads the spec file.  A review attempt must be able
\* to outlive its lease within the bound on the clock.
Begin(n) ==
  /\ pc[n] = "idle"
  /\ now + Lease <= MaxTime
  /\ \E kind \in Kinds :
       Goto(n, "load", [NoCall EXCEPT !.kind = kind, !.contract = spec.contract,
                                      !.status = spec.status])
  /\ UNCHANGED <<ledger, spec, work, now, files, spent>>

At(n, kinds, step) == pc[n] = step /\ call[n].kind \in kinds

-----------------------------------------------------------------------------
(* approve                                                                 *)

\* Only a draft is approved, by what its file says.
ApproveBaseline(n) ==
  /\ At(n, {"approve"}, "load")
  /\ IF call[n].status = "draft"
     THEN Log(<<Baseline>>) /\ Goto(n, "append", call[n])
     ELSE UNCHANGED ledger /\ Finish(n)
  /\ UNCHANGED <<spec, work, now, files, spent>>

\* Mutant: an approval the store refused is saved all the same.
ApproveAppendIgnored(n) ==
  /\ At(n, {"approve"}, "append")
  /\ Goto(n, "save", call[n])
  /\ UNCHANGED <<ledger, spec, work, now, files, spent>>

ApproveAppend(n) ==
  /\ At(n, {"approve"}, "append")
  /\ Log(<<Approval>>)
  /\ Goto(n, "save", call[n])
  /\ UNCHANGED <<spec, work, now, files, spent>>

\* Save moves the file out of drafts/: it fails when another process has.
ApproveSave(n) ==
  /\ At(n, {"approve"}, "save")
  /\ spec' = IF spec.status = "draft" THEN [spec EXCEPT !.status = "approved"] ELSE spec
  /\ Finish(n)
  /\ UNCHANGED <<ledger, work, now, files, spent>>

-----------------------------------------------------------------------------
(* build                                                                   *)

\* The ledger is loaded twice, around ensureWorkspaceBaseline, which finds the
\* baseline approve left.  Whether a task back from review has to run all of
\* its acceptance again is decided by the first look...
BuildLoad(n) ==
  /\ At(n, {"build"}, "load")
  /\ LET status == Status(n, ledger)
     IN  CASE status = "review"                           -> Goto(n, "reload review", call[n])
           [] status \in {"approved", "active", "blocked"} -> Goto(n, "reload", call[n])
           [] OTHER                                       -> Finish(n)
  /\ UNCHANGED <<ledger, spec, work, now, files, spent>>

\* ... and whether it is still to be opened by the second.
BuildReload(n) ==
  /\ pc[n] \in {"reload", "reload review"}
  /\ CASE Status(n, ledger) = "approved"                             -> Goto(n, "open", call[n])
       [] Status(n, ledger) # "approved" /\ pc[n] = "reload review" -> Goto(n, "repair", call[n])
       [] OTHER                                                      -> Goto(n, "run", call[n])
  /\ UNCHANGED <<ledger, spec, work, now, files, spent>>

BuildOpen(n) ==
  /\ At(n, {"build"}, "open")
  /\ Log(<<Build("active")>>)
  /\ Finish(n)
  /\ UNCHANGED <<spec, work, now, files, spent>>

BuildRepair(n) ==
  /\ At(n, {"build"}, "repair")
  /\ Log(<<Build("active")>>)
  /\ Goto(n, "run", call[n])
  /\ UNCHANGED <<spec, work, now, files, spent>>

BuildRun(n) ==
  /\ At(n, {"build"}, "run")
  /\ Log(<<Build("active")>>)
  /\ Goto(n, "criterion", call[n])
  /\ UNCHANGED <<spec, work, now, files, spent>>

BuildCriterion(n) ==
  /\ At(n, {"build"}, "criterion")
  /\ \E result \in {"pass", "fail"} :
       /\ Log(<<Criterion(result, call[n].contract)>>)
       /\ Goto(n, "verdict", [call[n] EXCEPT !.verdict = result])
  /\ UNCHANGED <<spec, work, now, files, spent>>

BuildVerdict(n) ==
  /\ At(n, {"build"}, "verdict")
  /\ Log(<<Build(IF call[n].verdict = "pass" THEN "review" ELSE "blocked")>>)
  /\ Finish(n)
  /\ UNCHANGED <<spec, work, now, files, spent>>

-----------------------------------------------------------------------------
(* review                                                                  *)

ProviderReviews == {"review", "force_review"}

ReviewLoad(n) ==
  /\ At(n, ProviderReviews, "load")
  /\ IF Status(n, ledger) = "review"
     THEN Goto(n, "preflight", [call[n] EXCEPT !.seen = Len(ledger), !.now = now])
     ELSE Finish(n)
  /\ UNCHANGED <<ledger, spec, work, now, files, spent>>

\* Mutant: wait for the running attempt instead of refusing.
ReviewPreflightWaits(n) ==
  /\ At(n, ProviderReviews, "preflight")
  /\ LET es   == Loaded(n)
         kind == Project(es, "review", call[n].contract, NoMaterial, call[n].now)
     IN  /\ kind # "attempt_running"
         /\ Goto(n, "prepare", call[n])
  /\ UNCHANGED <<ledger, spec, work, now, files, spent>>

\* preflightReviewStart projects the ledger it loaded, and abandons a stale
\* attempt by an append to whatever the ledger has become.
ReviewPreflight(n) ==
  /\ At(n, ProviderReviews, "preflight")
  /\ LET es   == Loaded(n)
         kind == Project(es, "review", call[n].contract, NoMaterial, call[n].now)
     IN  \/ /\ kind = "attempt_stale"
            /\ Log(<<CloseAttempt(es[LatestAttempt(es)], "abandoned")>>)
            /\ Goto(n, "prepare", [call[n] EXCEPT !.seen = Len(ledger')])
         \/ /\ kind \in {"attempt_running", "review_failed"}
            /\ UNCHANGED ledger
            /\ Finish(n)
         \/ /\ kind \notin {"attempt_stale", "attempt_running", "review_failed"}
            /\ UNCHANGED ledger
            /\ Goto(n, "prepare", call[n])
  /\ UNCHANGED <<spec, work, now, files, spent>>

\* The spec must not have been edited meanwhile; then the packet is built
\* from the workspace as it is.
ReviewPrepare(n) ==
  /\ At(n, ProviderReviews, "prepare")
  /\ IF spec.contract = call[n].contract /\ Status(n, Loaded(n)) = "review"
     THEN /\ Log(StageEntries)
          /\ Goto(n, "seal", [call[n] EXCEPT !.packet = work])
     ELSE UNCHANGED ledger /\ Finish(n)
  /\ UNCHANGED <<spec, work, now, files, spent>>

ReviewSeal(n) ==
  /\ At(n, ProviderReviews, "seal")
  /\ IF spec.contract = call[n].contract
     THEN /\ Log(StageEntries)
          /\ Goto(n, "start", [call[n] EXCEPT !.material = work])
     ELSE UNCHANGED ledger /\ Finish(n)
  /\ UNCHANGED <<spec, work, now, files, spent>>

\* Mutant: the transaction decides by the ledger loaded before the set-up.
StartGateAsLoaded(n) ==
  Project(Loaded(n), "review", call[n].contract, call[n].material, call[n].now)

\* startReviewAttempt projects the current ledger inside its transaction,
\* for the model and the clock reading the command started with.
StartGate(n) ==
  Project(ledger, "review", call[n].contract, call[n].material, call[n].now)

ReviewStart(n) ==
  /\ At(n, ProviderReviews, "start")
  /\ LET refused  == {"attempt_running", "review_failed"} \cup
                     IF call[n].kind = "force_review" THEN {}
                     ELSE {"review_passed", "needs_operator_decision"}
         attempt  == RunningAttempt(call[n].now + Lease, call[n].contract,
                                    call[n].material, call[n].packet)
         abandons == IF StartGate(n) = "attempt_stale"
                     THEN <<CloseAttempt(ledger[LatestAttempt(ledger)], "abandoned")>>
                     ELSE << >>
     IN  IF StartGate(n) \in refused
         THEN UNCHANGED ledger /\ Finish(n)
         ELSE /\ Log(abandons \o <<attempt>>)
              /\ Goto(n, "provider", [call[n] EXCEPT !.attempt = Len(ledger')])
  /\ UNCHANGED <<spec, work, now, files, spent>>

\* The dossier says pass or fail; a workspace that changed under the review
\* turns it into a failure.
Answers(n) == IF work = call[n].packet THEN {"pass", "fail"} ELSE {"fail"}

ProviderAnswers(n) ==
  /\ At(n, ProviderReviews, "provider")
  /\ Log(StageEntries)
  /\ \E verdict \in Answers(n) : Goto(n, "record", [call[n] EXCEPT !.verdict = verdict])
  /\ UNCHANGED <<spec, work, now, files, spent>>

\* The provider fails or times out, its dossier is invalid, or recording it
\* fails: the attempt is closed as failed, whatever the ledger has become.
ReviewFails(n) ==
  /\ pc[n] \in {"provider", "record"}
  /\ call[n].kind \in ProviderReviews
  /\ Log(<<CloseAttempt(ledger[call[n].attempt], "failed")>>)
  /\ Finish(n)
  /\ UNCHANGED <<spec, work, now, files, spent>>

\* recordReviewDossier: the material is sealed once more, then the accepted
\* attempt and the review are appended in one transaction that does not look
\* at the ledger.
RecordDossier(n, material) ==
  LET attempt == ledger[call[n].attempt]
  IN  Log(<<CloseAttempt(attempt, "accepted"),
            Review(call[n].verdict, "provider", call[n].contract, material, attempt.out)>>)

ReviewRecord(n) ==
  /\ At(n, ProviderReviews, "record")
  /\ RecordDossier(n, work)
  /\ Finish(n)
  /\ UNCHANGED <<spec, work, now, files, spent>>

\* --repair-packet: the operator repaired the answer of the failed attempt,
\* and neither the contract nor the files have changed since.
RepairPacketLoad(n) ==
  /\ At(n, {"repair_packet"}, "load")
  /\ LET a == LatestAttempt(ledger)
     IN  IF /\ Status(n, ledger) = "review"
            /\ Project(ledger, "review", call[n].contract, NoMaterial, now) = "attempt_failed"
            /\ ledger[a].contract = call[n].contract
            /\ ledger[a].out = work
            /\ ledger[a].material = work
         THEN \E verdict \in {"pass", "fail"} :
                Goto(n, "record", [call[n] EXCEPT !.attempt = a, !.material = work,
                                                  !.verdict = verdict])
         ELSE Finish(n)
  /\ UNCHANGED <<ledger, spec, work, now, files, spent>>

RepairPacketRecord(n) ==
  /\ At(n, {"repair_packet"}, "record")
  /\ RecordDossier(n, call[n].material)
  /\ Finish(n)
  /\ UNCHANGED <<spec, work, now, files, spent>>

\* --human-reviewed: two appends, and no look at the gate.
HumanLoad(n) ==
  /\ At(n, {"human_review"}, "load")
  /\ IF Status(n, ledger) = "review" THEN Goto(n, "override", call[n]) ELSE Finish(n)
  /\ UNCHANGED <<ledger, spec, work, now, files, spent>>

HumanOverride(n) ==
  /\ At(n, {"human_review"}, "override")
  /\ Log(<<Override>>)
  /\ Goto(n, "sign", call[n])
  /\ UNCHANGED <<spec, work, now, files, spent>>

HumanSign(n) ==
  /\ At(n, {"human_review"}, "sign")
  /\ Log(<<Review("pass", "human", "none", NoMaterial, NoMaterial)>>)
  /\ Finish(n)
  /\ UNCHANGED <<spec, work, now, files, spent>>

-----------------------------------------------------------------------------
(* finalize                                                                *)

\* The receipt chain, as far as this ledger has come.
Receipts(es) == {i \in DOMAIN es : es[i].type = "receipt"}

LedgerHead(es) ==
  LET r == LastOf(es, {"receipt"}) IN IF r = 0 THEN << >> ELSE es[r].head

\* A digest tells two receipts apart: it is the command that minted it.
Receipt(n, head, review, contract, material) ==
  [type |-> "receipt", digest |-> n, head |-> Append(head, n),
   review |-> review, contract |-> contract, material |-> material]

\* projectFinalizeReviewGate, and the same projection in complete.
Gate(n, status) == Project(ledger, status, call[n].contract, work, now)

\* A receipt that already authorises the task is recovered, not minted again.
FinalizeLoad(n) ==
  /\ At(n, {"finalize"}, "load")
  /\ LET terminal  == TerminalAuthority(ledger)
         current   == CurrentReviewGate(ledger)
         authority == IF HasReceipt(ledger, terminal) THEN terminal ELSE current
         loaded    == [call[n] EXCEPT !.seen = Len(ledger)]
     IN  CASE HasReceipt(ledger, authority) ->
                Goto(n, "anchor", [loaded EXCEPT !.receipt = ledger[authority.at]])
           [] ~HasReceipt(ledger, authority) /\ Gate(n, Status(n, ledger)) = "review_passed" ->
                Goto(n, "snapshot", [loaded EXCEPT !.review = current.at])
           [] OTHER -> Finish(n)
  /\ UNCHANGED <<ledger, spec, work, now, files, spent>>

\* The tree facts the receipt will sign.  (The code takes a second snapshot
\* at once and refuses to mint when the two differ.)
FinalizeSnapshot(n) ==
  /\ At(n, {"finalize"}, "snapshot")
  /\ Goto(n, "accept", [call[n] EXCEPT !.material = work])
  /\ UNCHANGED <<ledger, spec, work, now, files, spent>>

\* Acceptance runs.  When it passes and left the material alone, a receipt is
\* minted on the head of the ledger as it was loaded.
FinalizeAccept(n) ==
  /\ At(n, {"finalize"}, "accept")
  /\ \/ /\ work = call[n].material
        /\ Goto(n, "anchor",
                [call[n] EXCEPT !.verdict = "pass",
                                !.receipt = Receipt(n, LedgerHead(Loaded(n)), call[n].review,
                                                    call[n].contract, call[n].material)])
     \/ \E result \in {"pass", "fail"} :
          /\ result = "pass" => work # call[n].material
          /\ Goto(n, "evidence", [call[n] EXCEPT !.verdict = result])
  /\ UNCHANGED <<ledger, spec, work, now, files, spent>>

\* No receipt: what acceptance found becomes criterion evidence.
FinalizeEvidence(n) ==
  /\ At(n, {"finalize"}, "evidence")
  /\ Log(<<Criterion(call[n].verdict, call[n].contract)>>)
  /\ Finish(n)
  /\ UNCHANGED <<spec, work, now, files, spent>>

\* Mutant: any receipt may be anchored.
AnchorBlindly(n) == TRUE

\* The anchor transaction refuses a second receipt, and one minted on a head
\* that is no longer the ledger's.
MayAnchor(n) ==
  LET receipt == call[n].receipt
      seen    == \E i \in Receipts(ledger) : ledger[i].digest = receipt.digest
  IN  /\ \A i \in Receipts(ledger) : ledger[i].digest = receipt.digest
      /\ ~seen => receipt.head = Append(LedgerHead(ledger), receipt.digest)

\* Mutant: the completion first, the receipt behind it.
AnchorEntriesReversed(n) ==
  LET receipt == call[n].receipt
  IN  (IF LastOf(ledger, {"complete"}) # 0 THEN << >> ELSE <<Completion("finalize")>>)
      \o (IF \E i \in Receipts(ledger) : ledger[i].digest = receipt.digest THEN << >>
          ELSE <<Criterion("pass", call[n].contract), receipt>>)

\* What acceptance found and the receipt, then the completion: each part unless
\* it is there.
AnchorEntries(n) ==
  LET receipt == call[n].receipt
  IN  (IF \E i \in Receipts(ledger) : ledger[i].digest = receipt.digest THEN << >>
       ELSE <<Criterion("pass", call[n].contract), receipt>>)
      \o (IF LastOf(ledger, {"complete"}) # 0 THEN << >> ELSE <<Completion("finalize")>>)

\* Mutant: the transaction's refusal is not an error.
FinalizeAnchorAnyway(n) ==
  /\ At(n, {"finalize"}, "anchor")
  /\ Log(IF MayAnchor(n) THEN AnchorEntries(n) ELSE << >>)
  /\ Goto(n, "task file", call[n])
  /\ UNCHANGED <<spec, work, now, files, spent>>

FinalizeAnchor(n) ==
  /\ At(n, {"finalize"}, "anchor")
  /\ IF MayAnchor(n)
     THEN Log(AnchorEntries(n)) /\ Goto(n, "task file", call[n])
     ELSE UNCHANGED ledger /\ Finish(n)
  /\ UNCHANGED <<spec, work, now, files, spent>>

FinalizeTaskFile(n) ==
  /\ At(n, {"finalize"}, "task file")
  /\ files' = [files EXCEPT !.task = call[n].receipt.digest]
  /\ Goto(n, "latest file", call[n])
  /\ UNCHANGED <<ledger, spec, work, now, spent>>

FinalizeLatestFile(n) ==
  /\ At(n, {"finalize"}, "latest file")
  /\ files' = [files EXCEPT !.latest = call[n].receipt.digest]
  /\ Goto(n, "archive", call[n])
  /\ UNCHANGED <<ledger, spec, work, now, spent>>

\* Save writes the status and moves the file; the contract in it stays.
FinalizeArchive(n) ==
  /\ At(n, {"finalize"}, "archive")
  /\ spec' = [spec EXCEPT !.status = "completed"]
  /\ Finish(n)
  /\ UNCHANGED <<ledger, work, now, files, spent>>

-----------------------------------------------------------------------------
(* complete (legacy), cancel and fail                                      *)

LegacyLoad(n) ==
  /\ At(n, {"complete"}, "load")
  /\ LET review == LastOf(ledger, {"review"})
     IN  IF /\ Gate(n, Status(n, ledger)) = "review_passed"
            /\ review # 0 /\ ledger[review].status = "pass"
         THEN Goto(n, "append", call[n])
         ELSE Finish(n)
  /\ UNCHANGED <<ledger, spec, work, now, files, spent>>

LegacyComplete(n) ==
  /\ At(n, {"complete"}, "append")
  /\ Log(<<Completion("complete")>>)
  /\ Finish(n)
  /\ UNCHANGED <<spec, work, now, files, spent>>

\* cancel and fail append whatever state the task is in, and leave the spec
\* file where it is.
Stop(n) ==
  /\ At(n, {"cancel", "fail"}, "load")
  /\ Log(<<Terminal(call[n].kind)>>)
  /\ Finish(n)
  /\ UNCHANGED <<spec, work, now, files, spent>>

-----------------------------------------------------------------------------
(* The world around the commands.                                          *)

\* The operator or an agent edits the spec's contract...
EditSpec ==
  /\ spent.edits < MaxEdits
  /\ \E c \in Contracts \ {spec.contract} : spec' = [spec EXCEPT !.contract = c]
  /\ spent' = [spent EXCEPT !.edits = @ + 1]
  /\ UNCHANGED <<ledger, work, now, files, pc, call>>

\* ... or files in the task's scope.
EditWork ==
  /\ spent.edits < MaxEdits
  /\ work' = work + 1
  /\ spent' = [spent EXCEPT !.edits = @ + 1]
  /\ UNCHANGED <<ledger, spec, now, files, pc, call>>

\* Time is only ever compared with the end of a lease: the clock moves while
\* one runs.
Tick ==
  /\ now < MaxTime
  /\ \E i \in DOMAIN ledger : ledger[i].type = "review_attempt" /\ ledger[i].lease > now
  /\ (\E n \in Commands : pc[n] = "load") => now + 1 + Lease <= MaxTime
  /\ now' = now + 1
  /\ UNCHANGED <<ledger, spec, work, files, pc, call, spent>>

\* A process dies between two steps; a store that fails an append ends the
\* command in the same state.
Crash(n) ==
  /\ pc[n] \notin {"idle", "done"}
  /\ spent.crashes < MaxCrashes
  /\ spent' = [spent EXCEPT !.crashes = @ + 1]
  /\ Finish(n)
  /\ UNCHANGED <<ledger, spec, work, now, files>>

Step(n) ==
  \/ ApproveBaseline(n) \/ ApproveAppend(n) \/ ApproveSave(n)
  \/ BuildLoad(n) \/ BuildReload(n) \/ BuildOpen(n) \/ BuildRepair(n)
  \/ BuildRun(n) \/ BuildCriterion(n) \/ BuildVerdict(n)
  \/ ReviewLoad(n) \/ ReviewPreflight(n) \/ ReviewPrepare(n) \/ ReviewSeal(n)
  \/ ReviewStart(n) \/ ProviderAnswers(n) \/ ReviewFails(n) \/ ReviewRecord(n)
  \/ RepairPacketLoad(n) \/ RepairPacketRecord(n)
  \/ HumanLoad(n) \/ HumanOverride(n) \/ HumanSign(n)
  \/ FinalizeLoad(n) \/ FinalizeSnapshot(n) \/ FinalizeAccept(n) \/ FinalizeEvidence(n)
  \/ FinalizeAnchor(n) \/ FinalizeTaskFile(n) \/ FinalizeLatestFile(n) \/ FinalizeArchive(n)
  \/ LegacyLoad(n) \/ LegacyComplete(n) \/ Stop(n)

Next ==
  \/ \E n \in Commands : Begin(n) \/ Step(n) \/ Crash(n)
  \/ EditSpec \/ EditWork \/ Tick

Spec == Init /\ [][Next]_vars

\* Commands go on unless their process dies (a provider that never answers is
\* killed at its timeout), and time passes.
FairSpec == Spec /\ WF_vars(Tick) /\ \A n \in Commands : WF_vars(Step(n))

-----------------------------------------------------------------------------
(* What the task's evidence promises.                                      *)

Statuses == {"draft", "approved", "active", "blocked", "review", "completed", "failed", "cancelled"}
Materials == 0..MaxEdits
ReceiptEntry == [type : {"receipt"}, digest : Commands, head : Seq(Commands), review : Nat,
                 contract : Contracts, material : Materials]
Entry ==
  [type : {"approval", "workspace_baseline", "review_override", "review_stage",
           "cancel", "fail"}]
  \cup [type : {"complete"}, by : {"finalize", "complete"}]
  \cup [type : {"build"}, status : {"active", "blocked", "review"}]
  \cup [type : {"criterion"}, status : {"pass", "fail"}, criterion : {CriterionOf[c] : c \in Contracts}]
  \cup [type : {"review_attempt"}, status : {"running", "accepted", "failed", "abandoned"},
        lease : 0..MaxTime, contract : Contracts, material : Materials, out : Materials]
  \cup [type : {"review"}, status : {"pass", "fail"}, by : {"provider", "human"},
        contract : Contracts \cup {"none"}, material : Materials \cup {NoMaterial},
        packet : Materials \cup {NoMaterial}]
  \cup ReceiptEntry
Call == [kind : Kinds \cup {"none"}, contract : Contracts \cup {"none"},
         status : Statuses \cup {"none"}, now : 0..MaxTime, seen : Nat, packet : Materials,
         material : Materials, attempt : Nat, verdict : {"none", "pass", "fail"},
         review : Nat, receipt : ReceiptEntry \cup {NoReceipt}]

\* How reviews are recorded: a provider's right behind its accepted attempt,
\* whose packet it judged; a human's as a pass.
ReviewsAreRecorded(es) ==
  \A i \in DOMAIN es :
    es[i].type = "review" =>
      \/ es[i].by = "human" /\ es[i].status = "pass"
      \/ i > 1 /\ es[i - 1].type = "review_attempt" /\ es[i - 1].out = es[i].packet

\* A ledger a task may start from: without a receipt or a completion, and
\* approved when it is not a draft's.
IsHistory(es) ==
  /\ es \in Seq(Entry)
  /\ \A i \in DOMAIN es : es[i].type \notin {"receipt", "complete"}
  /\ es # Drafted => \E i \in DOMAIN es : es[i].type = "approval"
  /\ ReviewsAreRecorded(es)

ASSUME HistoriesAreLedgers == \A es \in Histories : IsHistory(es)

ASSUME NoReceiptIsNone == NoReceipt \notin Commands

\* Every variable has its type, and what a process points at is in the ledger.
TypeOK ==
  /\ ledger \in Seq(Entry)
  /\ spec \in [contract : Contracts, status : {"draft", "approved", "completed"}]
  /\ work \in Materials
  /\ now \in 0..MaxTime
  /\ files \in [task : Commands \cup {NoReceipt}, latest : Commands \cup {NoReceipt}]
  /\ call \in [Commands -> Call]
  /\ spent \in [edits : 0..MaxEdits, crashes : 0..MaxCrashes]
  /\ \A n \in Commands : {call[n].seen, call[n].attempt, call[n].review} \subseteq 0..Len(ledger)

\* startReviewAttempt: whoever starts a provider finds no attempt in the
\* current review window that is running on a lease that has not ended, by the
\* clock of that moment and not by what was loaded before the set-up.
StartsWhenFree ==
  [][\A n \in Commands :
       LET a == LatestAttempt(ledger)
       IN  (pc[n] = "start" /\ pc'[n] = "provider")
             => (a # 0 /\ ledger[a].status = "running" => now >= ledger[a].lease)]_vars

\* A provider's pass that authorises completion right after a failed review
\* is backed by something new: evidence of a build in between, or a packet
\* made from other files (validateReviewEntry, whichever commands raced).
PassAfterFailIsNew ==
  LET gate == CurrentReviewGate(ledger)
      pass == ledger[gate.at]
      fail == LastOf(Before(ledger, gate.at), {"review"})
  IN  (gate.valid /\ pass.type = "review" /\ pass.by = "provider" /\ fail # 0)
        => \/ ledger[fail].status = "pass"
           \/ ledger[fail].packet # pass.packet
           \/ \E i \in fail..gate.at : ledger[i].type \in Repairs \cup Resets

\* No two receipts: of several finalize processes at most one anchors its own
\* (finalizeWithArchive's transaction).
OneReceipt == \A i, j \in Receipts(ledger) : i = j

\* The receipt files name the anchored receipt, and the archived spec comes
\* last: a process that lost the race, or died on the way, leaves nothing
\* behind that the ledger does not vouch for.
NothingUnanchored ==
  LET anchored == {ledger[i].digest : i \in Receipts(ledger)}
  IN  /\ files.task # NoReceipt   => files.task \in anchored /\ LastOf(ledger, {"complete"}) # 0
      /\ files.latest # NoReceipt => files.latest = files.task
      /\ spec.status = "completed" => files.latest # NoReceipt

\* Whatever is appended later (a late dossier, a cancellation, a build), a
\* finalize run again finds the anchored receipt and can finish the archive.
\* The exception: a legacy complete that raced with it left its own completion.
ReceiptRecoverable ==
  (/\ Receipts(ledger) # {}
   /\ \A i \in DOMAIN ledger : ledger[i].type = "complete" => ledger[i].by = "finalize")
    => HasReceipt(ledger, TerminalAuthority(ledger))

\* The receipt rests on a passing review that was the gate's authority in
\* some earlier state of the ledger, and signs the contract it reviewed.
ReceiptRestsOnReview ==
  \A i \in Receipts(ledger) :
    LET r == ledger[i].review
    IN  /\ r \in 1..(i - 1)
        /\ ledger[r].by = "human" \/ ledger[r].contract = ledger[i].contract
        /\ \E k \in r..(i - 1) :
             CurrentReviewGate(SubSeq(ledger, 1, k)) = [found |-> TRUE, valid |-> TRUE, at |-> r]

\* "Session first": a spec says approved only when the ledger holds the
\* approval (approve.go appends, then saves).
ApprovalIsLogged == spec.status = "approved" => LastOf(ledger, {"approval"}) # 0

\* A reviewer that died does not hold the gate for ever: its lease ends, and
\* from then on the gate reports a stale attempt instead of a running one.
LeaseEnds ==
  [](LET a == LatestAttempt(ledger)
     IN a # 0 /\ ledger[a].status = "running"
          => <>(Project(ledger, "review", spec.contract, NoMaterial, now) # "attempt_running"))

\* Every command ends, unless its process is killed.
CommandsEnd == \A n \in Commands : pc[n] = "load" ~> pc[n] = "done"

-----------------------------------------------------------------------------
(* What the documentation says and the commands do not keep.               *)

\* docs/review.md: an unexpired running attempt blocks duplicate provider
\* spend (two provider runs at once, both on a lease that has not ended).
NoDuplicateSpend ==
  \A m, n \in Commands :
    (/\ pc[m] = "provider" /\ now < ledger[call[m].attempt].lease
     /\ pc[n] = "provider" /\ now < ledger[call[n].attempt].lease) => m = n
=============================================================================
