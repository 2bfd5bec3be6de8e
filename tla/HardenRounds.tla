--------------------------- MODULE HardenRounds ---------------------------
(***************************************************************************)
(* scafld harden (app/harden), its gate (core/hardengate) and the commands  *)
(* that save the same spec: plan, approve and the archiving of finalize.    *)
(* A harden round lives in the spec file; a command loads the spec, changes *)
(* its copy and saves it, and everybody else can save in between.           *)
(*                                                                          *)
(* A round is [id, status, digest, obs, by, seen].  The digest of a         *)
(* contract is the contract.  obs stands for the observations: "none" (an   *)
(* empty skeleton), "bad" (a dimension or an anchor that holds is missing), *)
(* "open" (a block that nobody resolved) or "ok".  by and seen are history: *)
(* who judged the round, and the contract it was shown.                     *)
(***************************************************************************)
EXTENDS SpecStore

CONSTANTS
  Scenarios,    \* [commands, files]: which commands run together, a function
                \* Procs -> [kind, now], and what the directories hold at the start
  MaxEdits,     \* bound on what the operator writes into the spec
  MaxActs       \* bound on the operator's edits and interrupts together

Kinds == {"provider", "manual", "mark", "repair", "approve", "approve_reason", "archive", "plan"}

\* A round and a spec: HardenStatus and Status, of what the model tells apart.
Contract == [text : Nat, shape : Nat]

RoundStatus == {"in_progress", "passed", "needs_revision", "overridden", "error"}

Round ==
  [id : Nat, status : RoundStatus, digest : Contract, obs : {"none", "bad", "open", "ok"},
   by : {"operator", "provider", "repair"}, seen : Contract]

SpecStatus == {"draft", "approved", "active", "blocked", "review", "completed", "failed", "cancelled"}

Document ==
  [status : SpecStatus, contract : Contract, harden : RoundStatus \cup {"not_run"},
   rounds : Seq(Round), updated : Nat, notes : Nat]

HasRound(doc) == doc.rounds # <<>>
LatestRound(doc) == Last(doc.rounds)

\* No round is followed by another one for the same draft, unless it failed.
Unstacked(doc) ==
  \A i \in 1..(Len(doc.rounds) - 1) :
    doc.rounds[i].digest = doc.rounds[i + 1].digest => doc.rounds[i].status = "error"

\* A provider was started on the latest round, and the round is still open.
LeftOpen(doc) ==
  HasRound(doc) /\ LatestRound(doc).by = "provider" /\ LatestRound(doc).status = "in_progress"

\* Contracts are numbered in the order in which the operator wrote them.
Newer(contract, digest) == contract = digest \/ contract.text > digest.text

\* The latest round was opened for the contract or for an earlier one, and where
\* it passed the contract, it saw the contract.
Covered(doc) ==
  HasRound(doc) =>
    /\ Newer(doc.contract, LatestRound(doc).digest)
    /\ LatestRound(doc).status = "passed" /\ LatestRound(doc).digest = doc.contract =>
         LatestRound(doc).seen = doc.contract

Overridden(doc) ==
  doc.harden = "overridden" \/ (HasRound(doc) /\ LatestRound(doc).status = "overridden")

\* Before the commands start there is one spec, in the directory of its status;
\* nobody has overridden the gate for it yet, no provider is at work on it, and
\* a pass it has is one of its contract.
Starts(start) ==
  /\ start \in [Dir -> Document \cup {Absent}]
  /\ \E d \in Dir :
       /\ start[d] \in Document /\ Target(start[d]) = d /\ start[d].notes = 0
       /\ Unstacked(start[d]) /\ ~LeftOpen(start[d]) /\ ~Overridden(start[d])
       /\ Covered(start[d])
       /\ \A e \in Dir \ {d} : start[e] = Absent

ASSUME HardenAssumption ==
  /\ Absent \notin Document
  /\ \A s \in Scenarios :
       /\ s.commands \in [Procs -> [kind : Kinds, now : Nat]]
       /\ Starts(s.files)

VARIABLES
  proc,       \* process -> the command it runs
  ledger,     \* entries of approve
  artifacts,  \* rounds with a packet repair artifact
  edits,      \* what the operator has written
  overlapped  \* whether some of it fell between a command's load and its
              \* write, with nothing that checks in between (history)

vars == <<storeVars, proc, ledger, artifacts, edits, overlapped>>

Command(pc, kind, now) ==
  [kind |-> kind, now |-> now, pc |-> pc, doc |-> Absent, path |-> "drafts", round |-> 0, dossier |-> "none"]

Init ==
  /\ \E s \in Scenarios :
       /\ StoreInit(s.files)
       /\ proc = [p \in Procs |-> Command("start", s.commands[p].kind, s.commands[p].now)]
  /\ ledger = IF Find = "drafts" THEN {} ELSE {"approval"}
  /\ artifacts = {}
  /\ edits = [contract |-> 0, notes |-> 0, filled |-> 0]
  /\ overlapped = FALSE

-----------------------------------------------------------------------------
(* hardengate.Project *)

SameDraft(round, contract) == round.digest = contract

\* projectLegacyStatus: a spec with a harden status and no round.
LegacyKind(status) ==
  CASE status = "not_run" -> "not_run"
    [] status = "in_progress" -> "round_open"
    [] status = "passed" -> "stale_after_draft"
    [] status = "needs_revision" -> "needs_operator_decision"
    [] status = "overridden" -> "overridden"
    [] status = "error" -> "error"
    [] OTHER -> "invalid"

\* Mutant: a pass is a pass, whatever the draft says now.
RoundKindIgnoresDigest(doc) ==
  LET r == LatestRound(doc) IN
  IF r.status = "passed" THEN "passed" ELSE LegacyKind(r.status)

\* projectRoundState
RoundKind(doc) ==
  LET r == LatestRound(doc) IN
  IF r.status = "passed" /\ SameDraft(r, doc.contract) THEN "passed" ELSE LegacyKind(r.status)

Kind(doc) == IF HasRound(doc) THEN RoundKind(doc) ELSE LegacyKind(doc.harden)

ApprovalReasonRequired(doc) == Kind(doc) \notin {"not_run", "passed", "overridden"}

\* Mutant: needs_revision does not block another provider.
RerunBlockedByOpenRound(doc) == HasRound(doc) /\ Kind(doc) \in {"round_open", "passed"}

\* guardExistingHardenRound: an open round is finished first, a pass stands,
\* and findings stay until the draft changes.
RerunBlocked(doc) ==
  /\ HasRound(doc)
  /\ \/ Kind(doc) \in {"round_open", "passed"}
     \/ Kind(doc) = "needs_operator_decision" /\ SameDraft(LatestRound(doc), doc.contract)

-----------------------------------------------------------------------------
(* What commands make of a spec. *)

\* nextRoundID
NextRoundID(doc) ==
  LET used == {doc.rounds[i].id : i \in DOMAIN doc.rounds}
      free == {n \in 1..(2 * Len(doc.rounds) + 1) : n > Len(doc.rounds) /\ n \notin used}
  IN  CHOOSE n \in free : \A k \in free : n <= k

\* runProviderHarden and openRound: a new round, bound to the draft.
WithRound(doc, by, now) ==
  [doc EXCEPT !.harden = "in_progress", !.updated = now,
     !.rounds = Append(@, [id |-> NextRoundID(doc), status |-> "in_progress", digest |-> doc.contract,
                           obs |-> "none", by |-> by, seen |-> doc.contract])]

WithLatest(doc, round, now) ==
  [doc EXCEPT !.harden = round.status, !.updated = now, !.rounds[Len(doc.rounds)] = round]

\* closeProviderHardenRound
Errored(doc, now) == WithLatest(doc, [LatestRound(doc) EXCEPT !.status = "error"], now)

\* verifyHardenObservations finds nothing to warn about.
Grounded(obs, allowOpenBlocks) == obs = "ok" \/ (allowOpenBlocks /\ obs = "open")

\* roundFromDossier
Observed(dossier) ==
  CASE dossier = "pass" -> "ok"
    [] dossier = "needs_revision" -> "open"
    [] dossier = "ungrounded" -> "bad"

\* Mutant: the provider's verdict is taken for the status of the round.
RecordedDossierVerbatim(doc, dossier, seen, by, now) ==
  WithLatest(doc, [LatestRound(doc) EXCEPT !.by = by, !.seen = seen, !.status = dossier, !.obs = Observed(dossier)], now)

\* recordHardenDossier: a dossier whose anchors do not hold is an error.
RecordedDossier(doc, dossier, seen, by, now) ==
  LET obs == Observed(dossier)
      status == IF ~Grounded(obs, TRUE) THEN "error" ELSE IF dossier = "pass" THEN "passed" ELSE "needs_revision"
  IN  WithLatest(doc, [LatestRound(doc) EXCEPT !.by = by, !.seen = seen, !.status = status, !.obs = obs], now)

\* markPassed
MarkedPassed(doc, now) ==
  WithLatest(doc, [LatestRound(doc) EXCEPT !.status = "passed", !.by = "operator", !.seen = doc.contract], now)

\* approve's Save, with markHardenOverridden where a reason was needed.
Approved(doc, now) ==
  LET over == ApprovalReasonRequired(doc) IN
  [doc EXCEPT !.status = "approved", !.updated = now,
     !.harden = IF over THEN "overridden" ELSE @,
     !.rounds = IF over /\ HasRound(doc) THEN [@ EXCEPT ![Len(doc.rounds)].status = "overridden"] ELSE @]

-----------------------------------------------------------------------------
(* The commands. *)

Goes(p, pc) == proc' = [proc EXCEPT ![p].pc = pc]
Leaves(p) == proc' = [proc EXCEPT ![p] = Command("over", @.kind, @.now)]
Unsaved == UNCHANGED <<files, saving, cancelled, faults>>
Quiet == UNCHANGED <<ledger, artifacts, edits, overlapped>>
Saves(p, doc, terminal) == Save(p, Find, doc, terminal) /\ UNCHANGED <<files, cancelled, faults>>

At(p, kind, pc) == proc[p].kind = kind /\ proc[p].pc = pc
InDrafts(p) == Loads(p, FALSE) /\ Find = "drafts"

\* specsource.ReloadUnchanged: same place, same bytes.
Unchanged(p, terminal) == Loads(p, terminal) /\ Find = proc[p].path /\ Visible = proc[p].doc
Sourced(p, pc) == proc' = [proc EXCEPT ![p].pc = pc, ![p].path = Find, ![p].doc = Visible]

\* What each command refuses before it changes anything.
Accepts(p) ==
  CASE proc[p].kind = "provider" -> InDrafts(p) /\ ~RerunBlocked(Visible)
    [] proc[p].kind = "manual" -> InDrafts(p) /\ ~RerunBlocked(Visible)
    [] proc[p].kind = "mark" -> InDrafts(p) /\ HasRound(Visible) /\ Grounded(LatestRound(Visible).obs, FALSE)
    [] proc[p].kind = "repair" -> /\ InDrafts(p) /\ HasRound(Visible) /\ Kind(Visible) = "error"
                                  /\ SameDraft(LatestRound(Visible), Visible.contract)
                                  /\ LatestRound(Visible).id \in artifacts
    [] proc[p].kind = "approve" -> Loads(p, FALSE) /\ Visible.status = "draft" /\ ~ApprovalReasonRequired(Visible)
    [] proc[p].kind = "approve_reason" -> Loads(p, FALSE) /\ Visible.status = "draft"
    [] proc[p].kind = "archive" -> Loads(p, FALSE) /\ Visible.status = "approved"
    [] proc[p].kind = "plan" -> p \notin cancelled /\ files["drafts"] = Absent

Refuses(p) ==
  /\ proc[p].pc = "start" /\ ~Accepts(p)
  /\ Leaves(p)
  /\ Unsaved /\ Quiet

\* Run of a provider harden: the spec it loaded is verified once more.
HardenStart(p) ==
  /\ At(p, "provider", "start") /\ Accepts(p)
  /\ Sourced(p, "verify")
  /\ Unsaved /\ Quiet

\* Everything that can end a provider harden before it has a round, and the
\* round it opens.
HardenVerify(p) ==
  /\ At(p, "provider", "verify")
  /\ IF Unchanged(p, FALSE)
       THEN /\ proc' = [proc EXCEPT ![p].pc = "opened", ![p].round = NextRoundID(proc[p].doc)]
            /\ Saves(p, WithRound(proc[p].doc, "provider", proc[p].now), FALSE)
       ELSE Leaves(p) /\ Unsaved
  /\ Quiet

\* The packet is built from a second load; building it can fail.
HardenPacket(p) ==
  /\ At(p, "provider", "opened")
  /\ \/ SaveFailed(p) /\ Leaves(p)
     \/ Saved(p) /\ Loads(p, FALSE) /\ Sourced(p, "check")
     \/ Saved(p) /\ Goes(p, "close")
  /\ Unsaved /\ Quiet

HardenCheck(p) ==
  /\ At(p, "provider", "check")
  /\ Goes(p, IF Unchanged(p, FALSE) THEN "invoke" ELSE "close")
  /\ Unsaved /\ Quiet

\* The provider answers or fails; a failure may leave a repair artifact.
HardenInvoke(p) ==
  /\ At(p, "provider", "invoke")
  /\ \/ /\ \E dossier \in {"pass", "needs_revision", "ungrounded"} :
             proc' = [proc EXCEPT ![p].pc = "reload", ![p].dossier = dossier]
        /\ UNCHANGED artifacts
     \/ /\ Goes(p, "close")
        /\ artifacts' \in {artifacts, artifacts \cup {proc[p].round}}
  /\ Unsaved /\ UNCHANGED <<ledger, edits, overlapped>>

\* The provider has been paid: from here on the operator's interrupt no
\* longer counts (TerminalEvidenceContext).
HardenReload(p) ==
  /\ At(p, "provider", "reload")
  /\ Goes(p, IF Unchanged(p, TRUE) THEN "record" ELSE "close")
  /\ Unsaved /\ Quiet

\* packetrepair.Load: the repaired packets of the artifact of this task, gate and
\* round, a dossier each
RepairedPackets == {"pass", "needs_revision", "ungrounded"}

\* runRepairedHardenPacket
RepairPacket(p) ==
  /\ At(p, "repair", "start") /\ Accepts(p)
  /\ \E dossier \in RepairedPackets :
       proc' = [proc EXCEPT ![p].pc = "record", ![p].round = LatestRound(Visible).id, ![p].dossier = dossier,
                            ![p].doc = Visible]
  /\ Unsaved /\ Quiet

IsMine(p) == HasRound(Visible) /\ LatestRound(Visible).id = proc[p].round

\* recordHardenDossier
Record(p) ==
  /\ proc[p].pc = "record"
  /\ IF Find = "none" \/ ~IsMine(p) THEN Leaves(p) /\ Unsaved /\ UNCHANGED artifacts
     ELSE /\ Goes(p, "recorded")
          /\ Saves(p, RecordedDossier(Visible, proc[p].dossier, proc[p].doc.contract, proc[p].kind, proc[p].now), TRUE)
          /\ artifacts' \in IF proc[p].dossier = "ungrounded"
                             THEN {artifacts, artifacts \cup {proc[p].round}} ELSE {artifacts}
  /\ UNCHANGED <<ledger, edits, overlapped>>

Recorded(p) ==
  /\ proc[p].pc = "recorded"
  /\ \/ Saved(p) /\ Leaves(p)
     \/ SaveFailed(p) /\ Goes(p, "close")
  /\ Unsaved /\ Quiet

\* Mutant: the interrupt that stopped the provider stops the closing too.
CloseInterrupted(p) ==
  /\ proc[p].pc = "close"
  /\ IF Loads(p, FALSE) /\ IsMine(p)
       THEN Goes(p, "ended") /\ Saves(p, Errored(Visible, proc[p].now), FALSE)
       ELSE Leaves(p) /\ Unsaved
  /\ Quiet

\* closeProviderHardenRound: whatever state the round is in by now.
Close(p) ==
  /\ proc[p].pc = "close"
  /\ IF Find # "none" /\ IsMine(p)
       THEN Goes(p, "ended") /\ Saves(p, Errored(Visible, proc[p].now), TRUE)
       ELSE Leaves(p) /\ Unsaved
  /\ Quiet

\* A command whose last step was its Save.
Ends(p) ==
  /\ proc[p].pc = "ended" /\ (Saved(p) \/ SaveFailed(p))
  /\ Leaves(p)
  /\ Unsaved /\ Quiet

\* openRound and markPassed: load, change, save.
LoadAndSave(p, kind, doc) ==
  /\ At(p, kind, "start") /\ Accepts(p)
  /\ Goes(p, "ended")
  /\ Saves(p, doc, FALSE)
  /\ Quiet

OpenRound(p) == LoadAndSave(p, "manual", WithRound(Visible, "operator", proc[p].now))
MarkPassed(p) == LoadAndSave(p, "mark", MarkedPassed(Visible, proc[p].now))

\* A finalize saves the spec it loaded when it began.
ArchiveLoad(p) ==
  /\ At(p, "archive", "start") /\ Accepts(p)
  /\ Sourced(p, "archive")
  /\ Unsaved /\ Quiet

SaveSourced(p, doc) ==
  /\ Goes(p, "ended")
  /\ Save(p, proc[p].path, doc, FALSE)

ArchiveSpec(p) ==
  /\ At(p, "archive", "archive")
  /\ SaveSourced(p, [proc[p].doc EXCEPT !.status = "completed", !.updated = proc[p].now])
  /\ UNCHANGED <<files, cancelled, faults>> /\ Quiet

Approves(p) == proc[p].kind \in {"approve", "approve_reason"}

ApproveLoad(p) ==
  /\ Approves(p) /\ proc[p].pc = "start" /\ Accepts(p)
  /\ Sourced(p, IF ApprovalReasonRequired(Visible) THEN "override" ELSE "approval")
  /\ Unsaved /\ Quiet

\* The append fails when the context is done.
ApproveOverride(p) ==
  /\ proc[p].pc = "override"
  /\ IF p \in cancelled THEN Leaves(p) /\ UNCHANGED ledger
     ELSE Goes(p, "approval") /\ ledger' = ledger \cup {"override"}
  /\ Unsaved /\ UNCHANGED <<artifacts, edits, overlapped>>

\* Mutant: the spec is saved before the approval is in the ledger.
ApproveSaveUnlogged(p) ==
  /\ proc[p].pc = "approval"
  /\ SaveSourced(p, Approved(proc[p].doc, proc[p].now))
  /\ UNCHANGED <<files, cancelled, faults, ledger, artifacts, edits, overlapped>>

ApproveSave(p) ==
  /\ proc[p].pc = "approval"
  /\ IF p \in cancelled THEN Leaves(p) /\ UNCHANGED <<ledger, saving>>
     ELSE /\ ledger' = ledger \cup {"approval"}
          /\ SaveSourced(p, Approved(proc[p].doc, proc[p].now))
  /\ UNCHANGED <<files, cancelled, faults, artifacts, edits, overlapped>>

\* CreateDraft looks for a draft only, and then writes.
PlanLook(p) ==
  /\ At(p, "plan", "start") /\ Accepts(p)
  /\ Goes(p, "create")
  /\ Unsaved /\ Quiet

NewDraft(now) ==
  [status |-> "draft", contract |-> [text |-> 0, shape |-> 0], harden |-> "not_run", rounds |-> <<>>,
   updated |-> now, notes |-> 0]

PlanCreate(p) ==
  /\ At(p, "plan", "create")
  /\ files' = IF p \in cancelled THEN files ELSE [files EXCEPT !["drafts"] = NewDraft(proc[p].now)]
  /\ Leaves(p)
  /\ UNCHANGED <<saving, cancelled, faults>> /\ Quiet

-----------------------------------------------------------------------------
(* The operator. *)

\* A process that saves a model without looking again, and one whose Save has
\* merged what it read.
Stale == \E p \in Procs : Busy(p) \/ proc[p].pc \in {"override", "approval", "archive"}
Merged == \E p \in Procs : Busy(p) /\ saving[p].step # "read"

Acts == edits.contract + edits.notes + edits.filled + Cardinality(cancelled)

Cancel(p) ==
  /\ proc[p].pc # "over" /\ p \notin cancelled /\ Acts < MaxActs
  /\ cancelled' = cancelled \cup {p}
  /\ UNCHANGED <<files, saving, faults, proc>> /\ Quiet

\* The process is killed at any step, a Save it is in included.
Crash(p) ==
  /\ proc[p].pc # "over" /\ faults < MaxFaults
  /\ faults' = faults + 1
  /\ Leaves(p)
  /\ saving' = [saving EXCEPT ![p] = Idle]
  /\ UNCHANGED <<files, cancelled>> /\ Quiet

Writes(doc, lost) ==
  /\ files' = [files EXCEPT ![Find] = doc]
  /\ overlapped' = (overlapped \/ lost)
  /\ UNCHANGED <<saving, cancelled, faults, proc, ledger, artifacts>>

\* The operator rewrites the draft, the shape of its phases included, adds
\* prose, or fills the observations of an open round.
EditContract ==
  /\ Find = "drafts" /\ edits.contract < MaxEdits.contract /\ Acts < MaxActs
  /\ edits' = [edits EXCEPT !.contract = @ + 1]
  /\ \E shape \in {Visible.contract.shape, Visible.contract.shape + 1} :
       Writes([Visible EXCEPT !.contract = [text |-> Visible.contract.text + 1, shape |-> shape]], Stale)

EditNotes ==
  /\ Find # "none" /\ edits.notes < MaxEdits.notes /\ Acts < MaxActs
  /\ edits' = [edits EXCEPT !.notes = @ + 1]
  /\ Writes([Visible EXCEPT !.notes = edits.notes + 1], Merged)

FillObservations ==
  /\ Find = "drafts" /\ HasRound(Visible)
  /\ LatestRound(Visible).status = "in_progress" /\ LatestRound(Visible).obs = "none"
  /\ edits.filled < MaxEdits.filled /\ Acts < MaxActs
  /\ edits' = [edits EXCEPT !.filled = @ + 1]
  /\ \E obs \in {"ok", "open", "bad"} : Writes([Visible EXCEPT !.rounds[Len(Visible.rounds)].obs = obs], Stale)

Saving(p) == SaveStep(p) /\ UNCHANGED proc /\ Quiet

AllOver == \A p \in Procs : proc[p].pc = "over"
Over == AllOver /\ UNCHANGED vars

Step(p) ==
  \/ Refuses(p) \/ Saving(p)
  \/ HardenStart(p) \/ HardenVerify(p) \/ HardenPacket(p) \/ HardenCheck(p) \/ HardenInvoke(p) \/ HardenReload(p)
  \/ RepairPacket(p) \/ Record(p) \/ Recorded(p) \/ Close(p) \/ Ends(p)
  \/ OpenRound(p) \/ MarkPassed(p) \/ ArchiveLoad(p) \/ ArchiveSpec(p)
  \/ ApproveLoad(p) \/ ApproveOverride(p) \/ ApproveSave(p)
  \/ PlanLook(p) \/ PlanCreate(p)

Operator ==
  \/ \E p \in Procs : Cancel(p) \/ Crash(p)
  \/ EditContract \/ EditNotes \/ FillObservations

Next == (\E p \in Procs : Step(p)) \/ Operator \/ Over

Spec == Init /\ [][Next]_vars

-----------------------------------------------------------------------------
(* Properties. *)

\* Rounds, Saves and commands keep their types, whatever they overtake.
Waits == {"opened", "recorded", "ended"}
Holds == {"verify", "check", "invoke", "reload", "record", "archive", "override", "approval"}

SaveState == [step : SaveSteps, path : Dir, doc : Document \cup {Absent}, terminal : BOOLEAN]

CommandState ==
  [kind : Kinds, now : Nat, pc : {"start", "close", "create", "over"} \cup Waits \cup Holds,
   doc : Document \cup {Absent}, path : Dir, round : Nat,
   dossier : {"none", "pass", "needs_revision", "ungrounded"}]

TypeOK ==
  /\ StoreTypeOK
  /\ files \in [Dir -> Document \cup {Absent}]
  /\ saving \in [Procs -> SaveState]
  /\ proc \in [Procs -> CommandState]
  /\ \A p \in Procs :
       /\ Busy(p) => proc[p].pc \in Waits
       /\ proc[p].pc \in Holds => proc[p].doc # Absent
       /\ proc[p].pc \in {"reload", "record"} => proc[p].dossier # "none"
       /\ proc[p].pc = "record" => proc[p].kind \in {"provider", "repair"}
  /\ ledger \subseteq {"override", "approval"}
  /\ artifacts \subseteq Nat
  /\ edits \in [contract : Nat, notes : Nat, filled : Nat]
  /\ overlapped \in BOOLEAN

\* Two commands that both move the spec to the same directory.
TwoMoves ==
  \E p, q \in Procs :
    /\ p # q
    /\ \/ Approves(p) /\ Approves(q)
       \/ proc[p].kind = "archive" /\ proc[q].kind = "archive"

\* Whatever is killed, interrupted or fails in the middle of a move, the task
\* keeps a spec that a command can find (writeMovedSpec).  Not so when two
\* approvals, or two finalizes that archive, move it at once: the second finds
\* the old file gone and takes back the new one, which is the first one's.
SpecSurvives == Find # "none" \/ TwoMoves

\* What the gate calls a pass was judged against the contract the draft has
\* now: nobody's edit, before, during or after a provider's run, is approved
\* on the strength of another contract's round.  Not so when an edit is taken
\* back: by the operator, who never does so in the model, or by a command that
\* saves what it had loaded before the edit; nor, of four commands at once, when a
\* provider answers after an approval moved the draft it was asked about away, and
\* a new plan's draft has got a round of the same id (see the README).
PassCoversDraft ==
  overlapped \/ \A d \in DOMAIN files :
    files[d] # Absent /\ HasRound(files[d]) /\ Kind(files[d]) = "passed" =>
      LatestRound(files[d]).seen = files[d].contract

\* docs/lifecycle.md: repeating harden without changing the draft reuses or
\* blocks on the existing round instead of stacking new rounds; only an error
\* is followed by another round for the same draft.
NoStackedRounds ==
  \A d \in DOMAIN files : files[d] # Absent => Unstacked(files[d])

\* A spec that says approved has its approval in the ledger, and one whose
\* operator overrode the gate has the override (session first).
OverrideIsLogged ==
  \A d \in DOMAIN files : files[d] # Absent =>
    /\ (files[d].status = "approved" => "approval" \in ledger)
    /\ (files[d].status = "approved" /\ files[d].harden = "overridden" => "override" \in ledger)

\* The operator's latest prose outlives every command that saved the spec
\* from a model it had loaded before, as long as there is a spec, unless it was
\* written just then (updateSpec merges the sections it owns into the file as it
\* is).  Not so when a plan that had found no draft writes over the one that
\* another plan, or a Save of a third command, put there meanwhile.
NotesSurvive ==
  overlapped \/ Find = "none" \/ \E d \in DOMAIN files : files[d] # Absent /\ files[d].notes = edits.notes

\* When all commands have ended by themselves, no provider's round is left
\* open, also if they were interrupted (closeProviderHardenRound).
RoundsAreClosed ==
  AllOver /\ faults = 0 /\ ~overlapped /\ Find = "drafts" => ~LeftOpen(Visible)
=============================================================================
