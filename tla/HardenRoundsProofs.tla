------------------------ MODULE HardenRoundsProofs ------------------------
(***************************************************************************)
(* Proofs about the harden rounds of a spec, for any number of commands of  *)
(* any kind, any spec they start from, and any number of edits and faults.  *)
(***************************************************************************)
EXTENDS HardenRounds, NumberLemmas, FiniteSetTheorems

-----------------------------------------------------------------------------
(* The inductive invariants. *)

\* What every copy of the spec satisfies, wherever it is, with these entries
\* in the ledger.
Sound(doc, log) ==
  /\ Unstacked(doc)
  /\ doc.status = "draft" => ~Overridden(doc)
  /\ doc.status = "approved" => "approval" \in log
  /\ doc.status = "approved" /\ doc.harden = "overridden" => "override" \in log

\* The Save of p moves a spec from one directory to another.
Promotes(p) == Approves(p) /\ saving[p].path = "drafts" /\ saving[p].doc.status = "approved"
Archives(p) == proc[p].kind = "archive" /\ saving[p].path = "approved" /\ saving[p].doc.status = "completed"

\* The files, the models that are being saved and the models that commands hold
\* are sound, and belong where they are or where their command moves them.
FilesInv == \A d \in Dir : files[d] # Absent => Sound(files[d], ledger) /\ Target(files[d]) = d

SaveInv(p) ==
  Busy(p) =>
    /\ Sound(saving[p].doc, ledger)
    /\ Target(saving[p].doc) = saving[p].path \/ Promotes(p) \/ Archives(p)
    /\ saving[p].step \in {"stat", "remove"} => Target(saving[p].doc) # saving[p].path

CommandInv(p) ==
  /\ proc[p].pc \in Holds => Sound(proc[p].doc, ledger)
  /\ proc[p].pc \in Holds \ {"record"} => Target(proc[p].doc) = proc[p].path
  /\ proc[p].pc = "verify" => proc[p].path = "drafts" /\ ~RerunBlocked(proc[p].doc)
  /\ proc[p].pc = "archive" => proc[p].kind = "archive" /\ proc[p].doc.status = "approved"
  /\ proc[p].pc \in {"override", "approval"} => Approves(p) /\ proc[p].doc.status = "draft"
  /\ proc[p].pc = "approval" /\ ApprovalReasonRequired(proc[p].doc) => "override" \in ledger

DocumentsInv == FilesInv /\ \A p \in Procs : SaveInv(p) /\ CommandInv(p)

\* Nobody takes a file away before the one that replaces it is there: an approval
\* that copies the draft still has the draft, and while a finalize archives the
\* approved spec no approval is about to write or remove one.
Somewhere == \E d \in Dir : files[d] # Absent

PromoteInv(p) ==
  Busy(p) /\ Promotes(p) =>
    /\ saving[p].step # "read" => files["drafts"] # Absent
    /\ saving[p].step = "remove" => files["approved"] # Absent

Archiving(p) == proc[p].pc = "archive" \/ (Busy(p) /\ Archives(p))

ArchiveInv(p) ==
  Archiving(p) =>
    /\ files["approved"] # Absent
    /\ \A q \in Procs : Busy(q) /\ Promotes(q) => saving[q].step \in {"read", "stat"}
    /\ Busy(p) /\ saving[p].step = "remove" => files["archive"] # Absent

PlacesInv == Somewhere /\ \A p \in Procs : PromoteInv(p) /\ ArchiveInv(p)

-----------------------------------------------------------------------------
(* The spec store. *)

\* There are four directories.
LEMMA FourDirs ==
  /\ Dir = {"drafts", "approved", "active", "archive"}
  /\ DOMAIN Dirs = 1..4
  /\ Dirs[1] = "drafts" /\ Dirs[2] = "approved" /\ Dirs[3] = "active" /\ Dirs[4] = "archive"
BY DEF Dir, Dirs, ToSet

\* The directory of a spec is one of them, and its status says which.
LEMMA TargetType ==
  ASSUME NEW doc, doc.status \in SpecStatus
  PROVE  /\ Target(doc) \in Dir
         /\ Target(doc) = "drafts" <=> doc.status = "draft"
         /\ Target(doc) = "approved" <=> doc.status = "approved"
BY FourDirs DEF Target, SpecStatus

\* Find finds a spec when there is one, and the draft before any other.
LEMMA FindFirst ==
  /\ Find = "none" => \A d \in Dir : files[d] = Absent
  /\ Find # "none" => Find \in Dir /\ files[Find] # Absent
  /\ files["drafts"] # Absent => Find = "drafts"
<1> DEFINE there == {i \in DOMAIN Dirs : files[Dirs[i]] # Absent}
<1>1. Find = IF there = {} THEN "none" ELSE Dirs[Min(there)]
  BY DEF Find
<1>2. CASE there = {}
  BY <1>1, <1>2, FourDirs
<1>3. CASE there # {}
  <2>1. there \in SUBSET Nat
    BY FourDirs
  <2> HIDE DEF there
  <2>2. Min(there) \in there /\ \A i \in there : Min(there) <= i
    BY <2>1, <1>3, LeastNumber DEF Min
  <2> USE DEF there
  <2>3. Min(there) \in 1..4 /\ files[Dirs[Min(there)]] # Absent
    BY <2>2, FourDirs
  <2>4. files["drafts"] # Absent => Min(there) = 1
    <3>1. files["drafts"] # Absent => 1 \in there
      BY FourDirs
    <3> HIDE DEF there
    <3>2. QED
      BY <3>1, <2>2, <2>3
  <2>5. Dirs[Min(there)] \in Dir /\ Dirs[Min(there)] # "none"
    <3> HIDE DEF there
    <3>1. QED
      BY <2>3, FourDirs
  <2> HIDE DEF there
  <2>6. QED
    BY <1>1, <1>3, <2>3, <2>4, <2>5, FourDirs
<1>4. QED
  BY <1>2, <1>3

-----------------------------------------------------------------------------
(* What commands make of a spec. *)

\* next has the contract of doc and, as its latest round, the same one; if that
\* passed, it has seen the contract, or passed and saw what it saw in doc.
Keeps(next, doc) ==
  /\ next.contract = doc.contract /\ (HasRound(next) <=> HasRound(doc))
  /\ HasRound(doc) =>
       LatestRound(next).id = LatestRound(doc).id /\ LatestRound(next).digest = LatestRound(doc).digest

KeepsPass(next, doc) ==
  HasRound(next) /\ LatestRound(next).status = "passed" =>
    \/ LatestRound(next).seen = doc.contract
    \/ LatestRound(doc).status = "passed" /\ LatestRound(next).seen = LatestRound(doc).seen

\* doc has a round with that identifier.
Has(doc, id) == \E i \in DOMAIN doc.rounds : doc.rounds[i].id = id

\* The last round of a spec that has one.
LEMMA LatestType ==
  ASSUME NEW doc \in Document, HasRound(doc)
  PROVE  /\ Len(doc.rounds) \in Nat \ {0}
         /\ LatestRound(doc) = doc.rounds[Len(doc.rounds)]
         /\ LatestRound(doc) \in Round
<1>1. doc.rounds \in Seq(Round)
  BY DEF Document
<1>2. Len(doc.rounds) \in Nat /\ Len(doc.rounds) # 0
  BY <1>1 DEF HasRound
<1>3. QED
  BY <1>1, <1>2 DEF LatestRound, Last

\* The identifier of a new round is a number that no round of the spec has.
LEMMA NextRoundIDFresh ==
  ASSUME NEW doc \in Document
  PROVE  /\ NextRoundID(doc) \in Nat
         /\ \A i \in DOMAIN doc.rounds : doc.rounds[i].id # NextRoundID(doc)
<1> DEFINE n == Len(doc.rounds)
           used == {doc.rounds[i].id : i \in DOMAIN doc.rounds}
           free == {k \in 1..(2 * n + 1) : k > n /\ k \notin used}
<1>1. doc.rounds \in Seq(Round) /\ n \in Nat /\ DOMAIN doc.rounds = 1..n
  BY DEF Document
<1>2. IsFiniteSet(used) /\ Cardinality(used) <= n
  <2>1. IsFiniteSet(1..n) /\ Cardinality(1..n) = n
    <3> HIDE DEF n
    <3>1. n \in Int /\ ~(1 > n /\ n # 0) /\ n - 1 + 1 = n
      BY <1>1
    <3>2. IsFiniteSet(1..n) /\ Cardinality(1..n) = IF 1 > n THEN 0 ELSE n - 1 + 1
      BY <3>1, FS_Interval
    <3>3. QED
      BY <3>1, <3>2
  <2> DEFINE ids == [i \in 1..n |-> doc.rounds[i].id]
  <2>2. ids \in Surjection(1..n, used)
    BY <1>1 DEF Surjection
  <2> HIDE DEF n, ids, used
  <2>3. QED
    BY <2>1, <2>2, FS_Surjection
<1>3. free # {}
  <2> SUFFICES ASSUME free = {} PROVE FALSE
    OBVIOUS
  <2>1. (n + 1)..(2 * n + 1) \subseteq used
    BY <1>1
  <2>2. Cardinality((n + 1)..(2 * n + 1)) = n + 1
    <3> HIDE DEF n
    <3>1. n + 1 \in Int /\ 2 * n + 1 \in Int /\ n + 1 <= 2 * n + 1 /\ (2 * n + 1) - (n + 1) + 1 = n + 1
      BY <1>1
    <3>2. QED
      BY <3>1, FS_Interval
  <2>3. Cardinality((n + 1)..(2 * n + 1)) <= Cardinality(used)
    <3> HIDE DEF used, n
    <3>1. QED
      BY <1>2, <2>1, FS_Subset
  <2>4. Cardinality(used) \in Nat
    <3> HIDE DEF used
    <3>1. QED
      BY <1>2, FS_CardinalityType
  <2> HIDE DEF used, n
  <2>5. QED
    BY <1>1, <1>2, <2>2, <2>3, <2>4
<1>4. PICK k \in free : \A m \in free : k <= m
  <2>1. free \in SUBSET Nat
    OBVIOUS
  <2> HIDE DEF free
  <2>2. QED
    BY <1>3, <2>1, LeastNumber
<1>5. NextRoundID(doc) = CHOOSE m \in free : \A j \in free : m <= j
  BY DEF NextRoundID
<1>6. NextRoundID(doc) \in free
  <2> HIDE DEF free
  <2>1. QED
    BY <1>4, <1>5
<1>7. QED
  BY <1>6

\* Changing the last round, but not the draft it is bound to, keeps a spec whole.
LEMMA LatestReplaced ==
  ASSUME NEW doc \in Document, HasRound(doc), NEW round \in Round, round.digest = LatestRound(doc).digest,
         NEW next \in Document,
         next.rounds = [doc.rounds EXCEPT ![Len(doc.rounds)] = round]
  PROVE  /\ HasRound(next) /\ LatestRound(next) = round
         /\ Unstacked(doc) => Unstacked(next)
<1>1. doc.rounds \in Seq(Round) /\ Len(doc.rounds) \in Nat \ {0} /\ LatestRound(doc) = doc.rounds[Len(doc.rounds)]
  BY LatestType DEF Document
<1>2. Len(next.rounds) = Len(doc.rounds)
  BY <1>1
<1>3. HasRound(next) /\ LatestRound(next) = round
  BY <1>1, <1>2 DEF HasRound, LatestRound, Last
<1>4. ASSUME Unstacked(doc), NEW i \in 1..(Len(next.rounds) - 1), next.rounds[i].digest = next.rounds[i + 1].digest
      PROVE  next.rounds[i].status = "error"
  <2>1. next.rounds[i] = doc.rounds[i] /\ next.rounds[i + 1].digest = doc.rounds[i + 1].digest
    BY <1>1, <1>2
  <2>2. QED
    BY <1>2, <1>4, <2>1 DEF Unstacked
<1>5. QED
  BY <1>3, <1>4 DEF Unstacked

LEMMA WithLatestIs ==
  ASSUME NEW doc \in Document, HasRound(doc), NEW round \in Round, round.digest = LatestRound(doc).digest,
         NEW now \in Nat
  PROVE  LET next == WithLatest(doc, round, now) IN
         /\ next \in Document /\ next.status = doc.status /\ next.harden = round.status
         /\ HasRound(next) /\ LatestRound(next) = round
         /\ Unstacked(doc) => Unstacked(next)
<1> DEFINE next == WithLatest(doc, round, now)
<1>1. doc.rounds \in Seq(Round) /\ Len(doc.rounds) \in Nat \ {0}
  BY LatestType DEF Document
<1>2. [doc.rounds EXCEPT ![Len(doc.rounds)] = round] \in Seq(Round)
  BY <1>1
<1>3. round.status \in RoundStatus
  BY DEF Round
<1>4. next \in Document /\ next.status = doc.status /\ next.harden = round.status
      /\ next.rounds = [doc.rounds EXCEPT ![Len(doc.rounds)] = round]
  BY <1>2, <1>3 DEF WithLatest, Document
<1> HIDE DEF next
<1>5. HasRound(next) /\ LatestRound(next) = round /\ (Unstacked(doc) => Unstacked(next))
  BY <1>4, LatestReplaced
<1>6. QED
  BY <1>4, <1>5 DEF next

\* The rounds that harden closes and the ones it judges.
LEMMA ErroredIs ==
  ASSUME NEW doc \in Document, HasRound(doc), NEW now \in Nat
  PROVE  LET next == Errored(doc, now) IN
         /\ next \in Document /\ next.status = doc.status /\ next.harden = "error"
         /\ HasRound(next) /\ LatestRound(next).status = "error" /\ LatestRound(next).id = LatestRound(doc).id
         /\ next.contract = doc.contract /\ LatestRound(next).digest = LatestRound(doc).digest
         /\ Unstacked(doc) => Unstacked(next)
<1> DEFINE round == [LatestRound(doc) EXCEPT !.status = "error"]
<1>1. round \in Round /\ round.digest = LatestRound(doc).digest /\ round.status = "error" /\ round.id = LatestRound(doc).id
  BY LatestType DEF Round, RoundStatus
<1>2. Errored(doc, now) = WithLatest(doc, round, now)
  BY DEF Errored
<1>3. Errored(doc, now).contract = doc.contract
  BY DEF Errored, WithLatest, Document
<1> HIDE DEF round
<1>4. QED
  BY <1>1, <1>2, <1>3, WithLatestIs

Answers == {"pass", "needs_revision", "ungrounded"}
Answerers == {"provider", "repair"}

LEMMA RecordedIs ==
  ASSUME NEW doc \in Document, HasRound(doc), NEW dossier \in Answers,
         NEW seen \in Contract, NEW by \in Answerers, NEW now \in Nat,
         NEW next, next = RecordedDossier(doc, dossier, seen, by, now)
  PROVE  /\ next \in Document /\ next.status = doc.status
         /\ HasRound(next) /\ LatestRound(next).id = LatestRound(doc).id
         /\ ~Overridden(next) /\ ~LeftOpen(next)
         /\ next.contract = doc.contract /\ LatestRound(next).digest = LatestRound(doc).digest
         /\ LatestRound(next).seen = seen
         /\ Unstacked(doc) => Unstacked(next)
<1> DEFINE obs == Observed(dossier)
           status == IF ~Grounded(obs, TRUE) THEN "error" ELSE IF dossier = "pass" THEN "passed" ELSE "needs_revision"
           round == [LatestRound(doc) EXCEPT !.by = by, !.seen = seen, !.status = status, !.obs = obs]
<1>1. status \in {"passed", "needs_revision", "error"} /\ obs \in {"ok", "open", "bad"}
  BY DEF Observed, Answers
<1>2. next = WithLatest(doc, round, now)
  BY DEF RecordedDossier
<1>3. next.contract = doc.contract
  BY <1>2 DEF WithLatest, Document
<1> HIDE DEF status, obs
<1>4. round \in Round /\ round.digest = LatestRound(doc).digest /\ round.status = status
      /\ round.id = LatestRound(doc).id
  BY <1>1, LatestType DEF Round, RoundStatus, Answerers
<1>a. round.seen = seen
  BY LatestType DEF Round
<1> HIDE DEF round
<1>5. /\ next \in Document /\ next.status = doc.status /\ next.harden = status
      /\ HasRound(next) /\ LatestRound(next) = round
      /\ Unstacked(doc) => Unstacked(next)
  BY <1>2, <1>4, WithLatestIs
<1>6. QED
  BY <1>1, <1>3, <1>4, <1>a, <1>5 DEF Overridden, LeftOpen

LEMMA MarkedPassedIs ==
  ASSUME NEW doc \in Document, HasRound(doc), NEW now \in Nat
  PROVE  LET next == MarkedPassed(doc, now) IN
         /\ next \in Document /\ next.status = doc.status /\ next.harden = "passed"
         /\ HasRound(next) /\ LatestRound(next).status = "passed" /\ LatestRound(next).id = LatestRound(doc).id
         /\ next.contract = doc.contract /\ LatestRound(next).digest = LatestRound(doc).digest
         /\ LatestRound(next).seen = doc.contract
         /\ Unstacked(doc) => Unstacked(next)
<1> DEFINE round == [LatestRound(doc) EXCEPT !.status = "passed", !.by = "operator", !.seen = doc.contract]
<1>1. doc.contract \in Contract
  BY DEF Document
<1>2. /\ round \in Round /\ round.digest = LatestRound(doc).digest /\ round.status = "passed"
      /\ round.id = LatestRound(doc).id /\ round.seen = doc.contract
  BY <1>1, LatestType DEF Round, RoundStatus
<1>3. MarkedPassed(doc, now) = WithLatest(doc, round, now)
  BY DEF MarkedPassed
<1>a. MarkedPassed(doc, now).contract = doc.contract
  BY DEF MarkedPassed, WithLatest, Document
<1> HIDE DEF round
<1>4. QED
  BY <1>2, <1>3, <1>a, WithLatestIs

\* A round that is opened where the gate allows it does not stack up.
LEMMA WithRoundIs ==
  ASSUME NEW doc \in Document, NEW by \in {"operator", "provider"}, NEW now \in Nat
  PROVE  LET next == WithRound(doc, by, now) IN
         /\ next \in Document /\ next.status = doc.status /\ next.harden = "in_progress"
         /\ HasRound(next) /\ LatestRound(next).status = "in_progress"
         /\ LatestRound(next).id = NextRoundID(doc) /\ LatestRound(next).by = by
         /\ next.contract = doc.contract /\ LatestRound(next).digest = doc.contract
         /\ Unstacked(doc) /\ ~RerunBlocked(doc) /\ ~Overridden(doc) => Unstacked(next)
<1> DEFINE next == WithRound(doc, by, now)
           round == [id |-> NextRoundID(doc), status |-> "in_progress", digest |-> doc.contract,
                     obs |-> "none", by |-> by, seen |-> doc.contract]
<1>1. doc.rounds \in Seq(Round) /\ doc.contract \in Contract /\ Len(doc.rounds) \in Nat
  BY DEF Document
<1>2. round \in Round
  BY <1>1, NextRoundIDFresh DEF Round, RoundStatus
<1>3. round.status = "in_progress" /\ round.id = NextRoundID(doc) /\ round.by = by /\ round.digest = doc.contract
  OBVIOUS
<1>4. next = [doc EXCEPT !.harden = "in_progress", !.updated = now, !.rounds = Append(@, round)]
  BY DEF WithRound
<1> HIDE DEF round, next
<1>5. Append(doc.rounds, round) \in Seq(Round) /\ Len(Append(doc.rounds, round)) = Len(doc.rounds) + 1
      /\ Append(doc.rounds, round)[Len(doc.rounds) + 1] = round
      /\ \A i \in 1..Len(doc.rounds) : Append(doc.rounds, round)[i] = doc.rounds[i]
  BY <1>1, <1>2
<1>6. next \in Document /\ next.status = doc.status /\ next.harden = "in_progress" /\ next.contract = doc.contract
      /\ next.rounds = Append(doc.rounds, round)
  BY <1>4, <1>5 DEF Document, RoundStatus
<1>7. HasRound(next) /\ LatestRound(next) = round
  <2>1. Len(next.rounds) = Len(doc.rounds) + 1
    BY <1>5, <1>6
  <2>2. next.rounds # <<>>
    BY <1>1, <2>1
  <2>3. QED
    BY <1>5, <1>6, <2>1, <2>2 DEF HasRound, LatestRound, Last
<1>8. ASSUME Unstacked(doc), ~RerunBlocked(doc), ~Overridden(doc),
             NEW i \in 1..(Len(next.rounds) - 1), next.rounds[i].digest = next.rounds[i + 1].digest
      PROVE  next.rounds[i].status = "error"
  <2>1. i \in 1..Len(doc.rounds)
    BY <1>1, <1>5, <1>6
  <2>2. CASE i < Len(doc.rounds)
    <3>1. i \in 1..(Len(doc.rounds) - 1) /\ i + 1 \in 1..Len(doc.rounds)
      BY <1>1, <2>1, <2>2
    <3>2. next.rounds[i] = doc.rounds[i] /\ next.rounds[i + 1] = doc.rounds[i + 1]
      BY <1>5, <1>6, <2>1, <3>1
    <3>3. QED
      BY <1>8, <3>1, <3>2 DEF Unstacked
  <2>3. CASE i = Len(doc.rounds)
    <3>1. HasRound(doc) /\ LatestRound(doc) = next.rounds[i] /\ LatestRound(doc) \in Round
      <4>1. HasRound(doc)
        BY <1>1, <2>1, <2>3 DEF HasRound
      <4>2. QED
        BY <1>5, <1>6, <2>1, <2>3, <4>1, LatestType
    <3>2. LatestRound(doc).digest = doc.contract
      BY <1>3, <1>5, <1>6, <1>8, <2>3, <3>1
    <3>3. LatestRound(doc).status \in RoundStatus /\ LatestRound(doc).status # "overridden"
      BY <1>8, <3>1 DEF Overridden, Round
    <3>4. QED
      BY <1>8, <3>1, <3>2, <3>3 DEF RerunBlocked, Kind, RoundKind, LegacyKind, SameDraft, RoundStatus
  <2>4. QED
    BY <1>1, <2>1, <2>2, <2>3
<1>9. QED
  BY <1>3, <1>6, <1>7, <1>8 DEF next, Unstacked

\* Approving a spec overrides its latest round where a reason was needed.
LEMMA ApprovedIs ==
  ASSUME NEW doc \in Document, NEW now \in Nat
  PROVE  LET next == Approved(doc, now) IN
         /\ next \in Document /\ next.status = "approved"
         /\ next.harden = IF ApprovalReasonRequired(doc) THEN "overridden" ELSE doc.harden
         /\ Unstacked(doc) => Unstacked(next)
         /\ LeftOpen(next) => LeftOpen(doc)
         /\ Keeps(next, doc) /\ KeepsPass(next, doc)
<1> DEFINE next == Approved(doc, now)
           over == ApprovalReasonRequired(doc)
           round == [LatestRound(doc) EXCEPT !.status = "overridden"]
           changed == [doc.rounds EXCEPT ![Len(doc.rounds)].status = "overridden"]
<1>1. next = [doc EXCEPT !.status = "approved", !.updated = now,
               !.harden = IF over THEN "overridden" ELSE @,
               !.rounds = IF over /\ HasRound(doc) THEN changed ELSE @]
  BY DEF Approved
<1> HIDE DEF next, over
<1>2. CASE over /\ HasRound(doc)
  <2>1. doc.rounds \in Seq(Round) /\ Len(doc.rounds) \in Nat \ {0}
        /\ LatestRound(doc) = doc.rounds[Len(doc.rounds)] /\ LatestRound(doc) \in Round
    BY <1>2, LatestType DEF Document
  <2>2. round \in Round /\ round.digest = LatestRound(doc).digest /\ round.status = "overridden"
        /\ round.id = LatestRound(doc).id
    BY <2>1 DEF Round, RoundStatus
  <2>3. changed = [doc.rounds EXCEPT ![Len(doc.rounds)] = round]
    BY <2>1
  <2> HIDE DEF round
  <2>4. changed \in Seq(Round)
    BY <2>1, <2>2, <2>3
  <2> HIDE DEF changed
  <2>5. next \in Document /\ next.status = "approved" /\ next.harden = "overridden" /\ next.rounds = changed
        /\ next.contract = doc.contract
    BY <1>1, <1>2, <2>4 DEF Document, RoundStatus, SpecStatus
  <2>6. HasRound(next) /\ LatestRound(next) = round /\ (Unstacked(doc) => Unstacked(next))
    BY <1>2, <2>2, <2>3, <2>5, LatestReplaced
  <2>7. QED
    BY <1>2, <2>2, <2>5, <2>6 DEF next, over, LeftOpen, Keeps, KeepsPass
<1>3. CASE ~(over /\ HasRound(doc))
  <2> HIDE DEF changed
  <2>1. next \in Document /\ next.status = "approved" /\ next.rounds = doc.rounds /\ next.contract = doc.contract
        /\ next.harden = IF over THEN "overridden" ELSE doc.harden
    BY <1>1, <1>3 DEF Document, RoundStatus, SpecStatus
  <2>2. QED
    BY <2>1 DEF next, over, Unstacked, LeftOpen, Keeps, KeepsPass, HasRound, LatestRound
<1>4. QED
  BY <1>2, <1>3

\* A new draft has no round.
LEMMA NewDraftIs ==
  ASSUME NEW now \in Nat
  PROVE  /\ NewDraft(now) \in Document /\ NewDraft(now).status = "draft"
         /\ Unstacked(NewDraft(now)) /\ ~Overridden(NewDraft(now)) /\ ~LeftOpen(NewDraft(now))
<1>1. <<>> \in Seq(Round) /\ Len(<<>>) = 0
  OBVIOUS
<1>2. QED
  BY <1>1 DEF NewDraft, Document, Contract, SpecStatus, RoundStatus, Unstacked, Overridden, HasRound, LeftOpen

\* Prose, the contract and the time of a spec are not about its rounds.
LEMMA RoundsKept ==
  ASSUME NEW doc \in Document, NEW next \in Document, next.rounds = doc.rounds
  PROVE  /\ Unstacked(next) = Unstacked(doc)
         /\ LeftOpen(next) = LeftOpen(doc)
         /\ next.harden = doc.harden => Overridden(next) = Overridden(doc)
         /\ next.contract = doc.contract => Keeps(next, doc) /\ KeepsPass(next, doc)
BY DEF Unstacked, LeftOpen, Overridden, Keeps, KeepsPass, HasRound, LatestRound

\* Filling in the observations keeps the round.
LEMMA FilledIs ==
  ASSUME NEW doc \in Document, HasRound(doc), NEW obs \in {"ok", "open", "bad"}
  PROVE  LET next == [doc EXCEPT !.rounds[Len(doc.rounds)].obs = obs] IN
         /\ next \in Document /\ next.status = doc.status /\ next.contract = doc.contract
         /\ Keeps(next, doc) /\ KeepsPass(next, doc) /\ next.notes = doc.notes
         /\ \A id : Has(doc, id) => Has(next, id)
         /\ Unstacked(doc) => Unstacked(next)
         /\ Overridden(next) = Overridden(doc) /\ LeftOpen(next) = LeftOpen(doc)
         /\ next.harden = doc.harden
<1> DEFINE next == [doc EXCEPT !.rounds[Len(doc.rounds)].obs = obs]
           round == [LatestRound(doc) EXCEPT !.obs = obs]
<1>1. doc.rounds \in Seq(Round) /\ Len(doc.rounds) \in Nat \ {0}
      /\ LatestRound(doc) = doc.rounds[Len(doc.rounds)] /\ LatestRound(doc) \in Round
  BY LatestType DEF Document
<1>2. round \in Round /\ round.digest = LatestRound(doc).digest /\ round.status = LatestRound(doc).status
      /\ round.by = LatestRound(doc).by /\ round.id = LatestRound(doc).id /\ round.seen = LatestRound(doc).seen
  BY <1>1 DEF Round
<1>3. next = [doc EXCEPT !.rounds = [doc.rounds EXCEPT ![Len(doc.rounds)] = round]]
  BY <1>1 DEF Document
<1> HIDE DEF round, next
<1>4. [doc.rounds EXCEPT ![Len(doc.rounds)] = round] \in Seq(Round)
  BY <1>1, <1>2
<1>5. next \in Document /\ next.status = doc.status /\ next.harden = doc.harden /\ next.contract = doc.contract
      /\ next.rounds = [doc.rounds EXCEPT ![Len(doc.rounds)] = round] /\ next.notes = doc.notes
  BY <1>3, <1>4 DEF Document
<1>6. HasRound(next) /\ LatestRound(next) = round /\ (Unstacked(doc) => Unstacked(next))
  BY <1>2, <1>5, LatestReplaced
<1>7. ASSUME NEW id, Has(doc, id) PROVE Has(next, id)
  <2>1. PICK i \in DOMAIN doc.rounds : doc.rounds[i].id = id
    BY <1>7 DEF Has
  <2>2. i \in DOMAIN next.rounds /\ next.rounds[i].id = id
    BY <1>1, <1>2, <1>5, <2>1
  <2>3. QED
    BY <2>2 DEF Has
<1>8. QED
  BY <1>2, <1>5, <1>6, <1>7 DEF next, Overridden, LeftOpen, Keeps, KeepsPass

-----------------------------------------------------------------------------
(* Types. *)

\* Absent is not a spec.
LEMMA AbsentIsNone == Absent \notin Document
BY HardenAssumption

SaveOK(s) == s \in SaveState /\ (s.step \in {"read", "stat", "write", "remove"} => s.doc # Absent)

CommandOK(c) ==
  /\ c \in CommandState
  /\ c.pc \in Holds => c.doc # Absent
  /\ c.pc \in {"reload", "record"} => c.dossier # "none"
  /\ c.pc = "record" => c.kind \in {"provider", "repair"}

\* What a step of the process p leaves alone.
Frame(p) ==
  /\ proc' = [q \in Procs |-> proc'[q]] /\ saving' = [q \in Procs |-> saving'[q]]
  /\ \A q \in Procs \ {p} : proc'[q] = proc[q] /\ saving'[q] = saving[q]
  /\ cancelled' = cancelled /\ edits' = edits /\ overlapped' = overlapped

LEMMA StepFrame ==
  ASSUME TypeOK, NEW p \in Procs, Step(p)
  PROVE  Frame(p)
<1> USE DEF Frame, TypeOK, Leaves, Goes, Unsaved, Quiet, Sourced, Saves, Save, Command
<1>0. proc \in [Procs -> CommandState] /\ saving \in [Procs -> SaveState]
  BY DEF TypeOK
<1>1. CASE Refuses(p)
  BY <1>0, <1>1 DEF Refuses
<1>2. CASE Saving(p)
  BY <1>0, <1>2 DEF Saving, SaveStep, SaveRead, SaveStat, SaveWrite, SaveWriteFails, SaveRemove, Steps, Returns
<1>3. CASE HardenStart(p) \/ HardenVerify(p) \/ HardenPacket(p)
  BY <1>0, <1>3 DEF HardenStart, HardenVerify, HardenPacket
<1>4. CASE HardenCheck(p) \/ HardenInvoke(p) \/ HardenReload(p)
  BY <1>0, <1>4 DEF HardenCheck, HardenInvoke, HardenReload
<1>5. CASE RepairPacket(p) \/ Record(p) \/ Recorded(p)
  BY <1>0, <1>5 DEF RepairPacket, RepairedPackets, Record, Recorded
<1>6. CASE Close(p) \/ Ends(p) \/ OpenRound(p) \/ MarkPassed(p)
  BY <1>0, <1>6 DEF Close, Ends, OpenRound, MarkPassed, LoadAndSave
<1>7. CASE ArchiveLoad(p) \/ ArchiveSpec(p) \/ ApproveLoad(p)
  BY <1>0, <1>7 DEF ArchiveLoad, ArchiveSpec, ApproveLoad, SaveSourced
<1>8. CASE ApproveOverride(p) \/ ApproveSave(p) \/ PlanLook(p) \/ PlanCreate(p)
  BY <1>0, <1>8 DEF ApproveOverride, ApproveSave, PlanLook, PlanCreate, SaveSourced
<1>9. QED
  BY <1>1, <1>2, <1>3, <1>4, <1>5, <1>6, <1>7, <1>8 DEF Step

\* The spec that is found is a spec.
LEMMA VisibleIs ==
  ASSUME TypeOK, Find # "none"
  PROVE  Find \in Dir /\ Visible \in Document
BY FindFirst DEF TypeOK, Visible

\* What a step of p leaves is of its type.
Typed(p) ==
  /\ files' \in [Dir -> Document \cup {Absent}]
  /\ CommandOK(proc'[p]) /\ SaveOK(saving'[p])
  /\ saving'[p].step \in {"read", "stat", "write", "remove"} => proc'[p].pc \in Waits
  /\ ledger' \subseteq {"override", "approval"}
  /\ artifacts' \subseteq Nat
  /\ faults' \in 0..MaxFaults

LEMMA BeforeStep ==
  ASSUME TypeOK, NEW p \in Procs
  PROVE  /\ files \in [Dir -> Document \cup {Absent}]
         /\ proc \in [Procs -> CommandState] /\ CommandOK(proc[p])
         /\ saving \in [Procs -> SaveState] /\ SaveOK(saving[p])
         /\ Busy(p) <=> saving[p].step \in {"read", "stat", "write", "remove"}
         /\ Busy(p) => proc[p].pc \in Waits
         /\ ledger \subseteq {"override", "approval"} /\ artifacts \subseteq Nat /\ faults \in 0..MaxFaults
BY DEF TypeOK, StoreTypeOK, CommandOK, SaveOK, Busy

\* A command that ends, moves on or looks at the spec is of its type.
LEMMA LeavesType ==
  ASSUME TypeOK, NEW p \in Procs, Leaves(p)
  PROVE  CommandOK(proc'[p]) /\ proc'[p].kind = proc[p].kind /\ proc'[p].pc = "over"
<1>1. "drafts" \in Dir /\ 0 \in Nat
  BY FourDirs
<1>2. proc[p] \in CommandState /\ proc'[p] = Command("over", proc[p].kind, proc[p].now)
  BY BeforeStep DEF Leaves
<1>3. QED
  BY <1>1, <1>2 DEF Command, CommandOK, CommandState, Holds, Waits

LEMMA GoesType ==
  ASSUME TypeOK, NEW p \in Procs, NEW pc \in {"close", "create", "over"} \cup Waits \cup Holds, Goes(p, pc),
         pc \in Holds => proc[p].pc \in Holds,
         pc = "reload" => proc[p].dossier # "none",
         pc = "record" => proc[p].dossier # "none" /\ proc[p].kind \in {"provider", "repair"}
  PROVE  /\ CommandOK(proc'[p]) /\ proc'[p] = [proc[p] EXCEPT !.pc = pc]
         /\ proc'[p].pc = pc /\ proc'[p].kind = proc[p].kind /\ proc'[p].doc = proc[p].doc
         /\ proc'[p].path = proc[p].path /\ proc'[p].round = proc[p].round
<1>1. proc[p] \in CommandState /\ proc'[p] = [proc[p] EXCEPT !.pc = pc]
  BY BeforeStep DEF Goes
<1>2. CommandOK(proc[p])
  BY BeforeStep
<1>3. QED
  BY <1>1, <1>2 DEF CommandOK, CommandState

LEMMA SourcedType ==
  ASSUME TypeOK, NEW p \in Procs, NEW pc \in Holds \ {"reload", "record"}, Sourced(p, pc), Find # "none"
  PROVE  /\ CommandOK(proc'[p])
         /\ proc'[p].pc = pc /\ proc'[p].kind = proc[p].kind /\ proc'[p].doc = Visible
         /\ proc'[p].path = Find /\ proc'[p].round = proc[p].round
<1>1. proc[p] \in CommandState /\ proc'[p] = [proc[p] EXCEPT !.pc = pc, !.path = Find, !.doc = Visible]
  BY BeforeStep DEF Sourced
<1>2. Visible \in Document /\ Find \in Dir /\ Visible # Absent
  BY VisibleIs, AbsentIsNone
<1>3. QED
  BY <1>1, <1>2 DEF CommandOK, CommandState

\* A Save that begins.
LEMMA SaveType ==
  ASSUME TypeOK, NEW p \in Procs, NEW path \in Dir, NEW doc \in Document, NEW terminal \in BOOLEAN,
         Save(p, path, doc, terminal)
  PROVE  SaveOK(saving'[p]) /\ saving'[p].step = "read" /\ saving'[p].path = path /\ saving'[p].doc = doc
<1> DEFINE s == [step |-> "read", path |-> path, doc |-> doc, terminal |-> terminal]
<1>1. saving'[p] = s
  BY BeforeStep DEF Save
<1>2. s.step = "read" /\ s.path = path /\ s.doc = doc
  OBVIOUS
<1>3. "read" \in SaveSteps /\ doc \in Document \cup {Absent}
  BY DEF SaveSteps
<1>4. s \in SaveState
  BY <1>3, Zenon DEF SaveState
<1>5. doc # Absent
  BY AbsentIsNone
<1> HIDE DEF s
<1>6. QED
  BY <1>1, <1>2, <1>4, <1>5 DEF SaveOK

-----------------------------------------------------------------------------
(* What a step of a command amounts to. *)

\* Nothing changes but the command itself.
Silent(p) ==
  /\ ~Busy(p)
  /\ files' = files /\ saving' = saving /\ faults' = faults /\ ledger' = ledger
  /\ artifacts' \subseteq Nat
  /\ CommandOK(proc'[p]) /\ proc'[p].kind = proc[p].kind

\* It ends, waits for an answer or has nothing in hand.
Rests(p) ==
  /\ Silent(p) /\ proc'[p].pc \in {"over", "close", "create"}
  /\ proc'[p].pc = "close" => proc[p].pc \in {"opened", "check", "invoke", "reload", "recorded"}
  /\ proc'[p].pc = "create" => proc[p].pc = "start" /\ proc[p].kind = "plan" /\ files["drafts"] = Absent

\* It takes the spec that is there.
Looks(p) ==
  /\ Silent(p)
  /\ Find # "none" /\ proc'[p].doc = Visible
  /\ proc'[p].pc \in {"verify", "check", "record", "archive", "override", "approval"}
  /\ proc'[p].pc # "check" => proc[p].pc = "start"
  /\ proc'[p].pc # "record" => proc'[p].path = Find
  /\ proc'[p].pc = "verify" => proc[p].kind = "provider" /\ Find = "drafts" /\ ~RerunBlocked(Visible)
  /\ proc'[p].pc = "check" =>
       /\ proc[p].kind = "provider" /\ proc[p].pc = "opened" /\ Saved(p)
       /\ proc'[p].round = proc[p].round
  /\ proc'[p].pc = "record" =>
       /\ proc[p].kind = "repair" /\ Find = "drafts"
       /\ HasRound(Visible) /\ proc'[p].round = LatestRound(Visible).id
  /\ proc'[p].pc = "archive" => proc[p].kind = "archive" /\ Visible.status = "approved"
  /\ proc'[p].pc \in {"override", "approval"} => Approves(p) /\ Visible.status = "draft"
  /\ proc'[p].pc = "approval" => ~ApprovalReasonRequired(Visible)

\* It goes on with the spec it has.
Proceeds(p) ==
  /\ Silent(p)
  /\ proc[p].pc \in {"check", "invoke", "reload"} /\ proc'[p].pc \in {"invoke", "reload", "record"}
  /\ proc'[p].doc = proc[p].doc /\ proc'[p].path = proc[p].path /\ proc'[p].round = proc[p].round

\* It logs the override.
Overrides(p) ==
  /\ ~Busy(p)
  /\ proc[p].pc = "override" /\ proc'[p].pc = "approval"
  /\ proc'[p].doc = proc[p].doc /\ proc'[p].path = proc[p].path /\ proc'[p].kind = proc[p].kind
  /\ CommandOK(proc'[p])
  /\ files' = files /\ saving' = saving /\ faults' = faults /\ artifacts' = artifacts
  /\ ledger' = ledger \cup {"override"}

\* It begins to save doc as the spec at path.
Begins(p, path, doc) ==
  /\ ~Busy(p)
  /\ files' = files /\ faults' = faults /\ artifacts' \subseteq Nat
  /\ CommandOK(proc'[p]) /\ proc'[p].kind = proc[p].kind /\ proc'[p].pc \in Waits
  /\ path \in Dir /\ doc \in Document
  /\ SaveOK(saving'[p]) /\ saving'[p].step = "read" /\ saving'[p].path = path /\ saving'[p].doc = doc

Opens(p) ==
  /\ Find # "none" /\ ledger' = ledger
  /\ \E by \in {"operator", "provider"} :
       /\ Begins(p, Find, WithRound(Visible, by, proc[p].now))
       /\ by = "provider" => proc'[p].pc = "opened" /\ proc'[p].round = NextRoundID(Visible)
       /\ by = "operator" => proc'[p].pc = "ended"
  /\ \/ proc[p].pc = "start" /\ proc[p].kind = "manual" /\ Find = "drafts" /\ ~RerunBlocked(Visible)
     \/ proc[p].pc = "verify" /\ proc[p].doc = Visible /\ proc[p].path = Find

Judges(p) ==
  /\ Find # "none" /\ ledger' = ledger
  /\ \E doc \in Document :
       /\ Begins(p, Find, doc)
       /\ doc.status = Visible.status /\ ~Overridden(doc) /\ ~LeftOpen(doc)
       /\ Unstacked(Visible) => Unstacked(doc)
       /\ HasRound(Visible) /\ Keeps(doc, Visible)
       /\ LatestRound(doc).status = "passed" =>
            \/ LatestRound(doc).seen = Visible.contract
            \/ proc[p].pc = "record" /\ IsMine(p) /\ LatestRound(doc).seen = proc[p].doc.contract
  /\ proc[p].pc \in {"start", "record", "close"} /\ proc'[p].pc \in {"recorded", "ended"}
  /\ proc[p].pc = "start" => proc[p].kind = "mark" /\ Find = "drafts"

SavesApproved(p) ==
  /\ proc[p].pc = "approval" /\ proc'[p].pc = "ended" /\ ledger' = ledger \cup {"approval"}
  /\ Begins(p, proc[p].path, Approved(proc[p].doc, proc[p].now))

SavesArchived(p) ==
  /\ proc[p].pc = "archive" /\ proc'[p].pc = "ended" /\ ledger' = ledger
  /\ Begins(p, proc[p].path, [proc[p].doc EXCEPT !.status = "completed", !.updated = proc[p].now])

Creates(p) ==
  /\ ~Busy(p) /\ proc[p].kind = "plan" /\ proc[p].pc = "create"
  /\ files' = [files EXCEPT !["drafts"] = NewDraft(proc[p].now)]
  /\ CommandOK(proc'[p]) /\ proc'[p].kind = proc[p].kind /\ proc'[p].pc = "over"
  /\ saving' = saving /\ faults' = faults /\ ledger' = ledger /\ artifacts' = artifacts

Amounts(p) ==
  \/ Rests(p) \/ Looks(p) \/ Proceeds(p) \/ Overrides(p) \/ Creates(p)
  \/ Opens(p) \/ Judges(p) \/ SavesApproved(p) \/ SavesArchived(p)

LEMMA NotBusy ==
  ASSUME TypeOK, NEW p \in Procs, proc[p].pc \notin Waits \/ Saved(p) \/ SaveFailed(p)
  PROVE  ~Busy(p)
BY BeforeStep DEF Saved, SaveFailed, Busy

LEMMA RefusesIs ==
  ASSUME TypeOK, NEW p \in Procs, Refuses(p)
  PROVE  Rests(p)
BY LeavesType, NotBusy, BeforeStep DEF Refuses, Rests, Silent, Unsaved, Quiet, Waits, Holds

LEMMA HardenStartIs ==
  ASSUME TypeOK, NEW p \in Procs, HardenStart(p)
  PROVE  Looks(p)
<1>1. Find = "drafts" /\ ~RerunBlocked(Visible) /\ Sourced(p, "verify") /\ ~Busy(p)
  BY NotBusy DEF HardenStart, Accepts, At, InDrafts, Waits
<1>2. /\ CommandOK(proc'[p]) /\ proc'[p].pc = "verify" /\ proc'[p].kind = proc[p].kind /\ proc'[p].doc = Visible
      /\ proc'[p].path = Find
  BY <1>1, SourcedType DEF Holds
<1>3. QED
  BY <1>1, <1>2, BeforeStep DEF HardenStart, At, Looks, Silent, Unsaved, Quiet

LEMMA HardenVerifyIs ==
  ASSUME TypeOK, NEW p \in Procs, HardenVerify(p)
  PROVE  Opens(p) \/ Rests(p)
<1>1. proc[p].pc = "verify" /\ ~Busy(p)
  BY NotBusy DEF HardenVerify, At, Waits
<1>2. CASE Unchanged(p, FALSE)
  <2>1. Find # "none" /\ Find = proc[p].path /\ Visible = proc[p].doc /\ Find \in Dir /\ Visible \in Document
    BY <1>2, VisibleIs DEF Unchanged, Loads
  <2>2. proc[p].now \in Nat /\ proc[p] \in CommandState
    BY BeforeStep DEF CommandState
  <2>3. WithRound(Visible, "provider", proc[p].now) \in Document /\ NextRoundID(Visible) \in Nat
    BY <2>1, <2>2, WithRoundIs, NextRoundIDFresh
  <2>4. proc'[p] = [proc[p] EXCEPT !.pc = "opened", !.round = NextRoundID(Visible)]
    BY <1>2, <2>1, BeforeStep DEF HardenVerify
  <2>5. CommandOK(proc'[p]) /\ proc'[p].kind = proc[p].kind /\ proc'[p].pc \in Waits
        /\ proc'[p].pc = "opened" /\ proc'[p].round = NextRoundID(Visible)
    BY <2>2, <2>3, <2>4, BeforeStep DEF CommandOK, CommandState, Waits, Holds
  <2> DEFINE doc == WithRound(Visible, "provider", proc[p].now)
  <2>6. Save(p, Find, doc, FALSE) /\ doc \in Document
    BY <1>2, <2>1, <2>3 DEF HardenVerify, Saves
  <2>7. files' = files /\ faults' = faults /\ artifacts' \subseteq Nat /\ ledger' = ledger
    BY <1>2, BeforeStep DEF HardenVerify, Saves, Quiet
  <2> HIDE DEF doc
  <2>8. SaveOK(saving'[p]) /\ saving'[p].step = "read" /\ saving'[p].path = Find /\ saving'[p].doc = doc
    BY <2>1, <2>6, SaveType
  <2>9. Begins(p, Find, doc)
    BY <1>1, <2>1, <2>5, <2>6, <2>7, <2>8 DEF Begins
  <2>10. QED
    BY <1>1, <2>1, <2>5, <2>7, <2>9 DEF Opens, doc
<1>3. CASE ~Unchanged(p, FALSE)
  BY <1>1, <1>3, LeavesType, BeforeStep DEF HardenVerify, Rests, Silent, Unsaved, Quiet, Holds
<1>4. QED
  BY <1>2, <1>3

LEMMA HardenPacketIs ==
  ASSUME TypeOK, NEW p \in Procs, HardenPacket(p)
  PROVE  Looks(p) \/ Rests(p)
<1>1. ~Busy(p) /\ proc[p].pc = "opened" /\ proc[p].kind = "provider"
  BY NotBusy DEF HardenPacket, At
<1>2. files' = files /\ saving' = saving /\ faults' = faults /\ ledger' = ledger /\ artifacts' \subseteq Nat
  BY BeforeStep DEF HardenPacket, Unsaved, Quiet
<1>3. CASE Leaves(p)
  BY <1>1, <1>2, <1>3, LeavesType DEF Rests, Silent, Holds
<1>4. CASE Saved(p) /\ Loads(p, FALSE) /\ Sourced(p, "check")
  <2>1. /\ CommandOK(proc'[p]) /\ proc'[p].pc = "check" /\ proc'[p].kind = proc[p].kind /\ proc'[p].doc = Visible
        /\ proc'[p].path = Find /\ proc'[p].round = proc[p].round
    BY <1>4, SourcedType DEF Loads, Holds
  <2>2. QED
    BY <1>1, <1>2, <1>4, <2>1 DEF Looks, Silent, Loads
<1>5. CASE Goes(p, "close")
  <2>1. CommandOK(proc'[p]) /\ proc'[p].pc = "close" /\ proc'[p].kind = proc[p].kind
    BY <1>5, GoesType DEF Holds
  <2>2. QED
    BY <1>1, <1>2, <2>1 DEF Rests, Silent, Holds
<1>6. QED
  BY <1>3, <1>4, <1>5 DEF HardenPacket

LEMMA HardenWaitsIs ==
  ASSUME TypeOK, NEW p \in Procs, HardenCheck(p) \/ HardenInvoke(p) \/ HardenReload(p)
  PROVE  Proceeds(p) \/ Rests(p)
<1>1. /\ proc[p].pc \in Holds \ {"record", "archive", "override", "approval"} /\ proc[p].kind = "provider"
      /\ proc[p].pc \in {"check", "invoke", "reload"}
      /\ ~Busy(p) /\ proc[p] \in CommandState
  BY NotBusy, BeforeStep DEF HardenCheck, HardenInvoke, HardenReload, At, Waits, Holds
<1>2. files' = files /\ saving' = saving /\ faults' = faults /\ ledger' = ledger /\ artifacts' \subseteq Nat
  BY <1>1, BeforeStep DEF HardenCheck, HardenInvoke, HardenReload, Unsaved, Quiet, CommandState
<1>3. CASE Goes(p, "close")
  <2>1. CommandOK(proc'[p]) /\ proc'[p].pc = "close" /\ proc'[p].kind = proc[p].kind
    BY <1>3, GoesType DEF Holds
  <2>2. QED
    BY <1>1, <1>2, <2>1 DEF Rests, Silent, Holds
<1>4. CASE HardenCheck(p)
  <2>1. CASE Goes(p, "invoke")
    BY <1>1, <1>2, <2>1, GoesType DEF Proceeds, Silent, Holds
  <2>2. QED
    BY <1>3, <1>4, <2>1 DEF HardenCheck
<1>5. CASE HardenInvoke(p)
  <2>1. ASSUME NEW dossier \in {"pass", "needs_revision", "ungrounded"},
               proc' = [proc EXCEPT ![p].pc = "reload", ![p].dossier = dossier]
        PROVE  Proceeds(p)
    <3>1. proc'[p] = [proc[p] EXCEPT !.pc = "reload", !.dossier = dossier]
      BY <2>1, BeforeStep
    <3>2. CommandOK(proc'[p]) /\ proc'[p].kind = proc[p].kind /\ proc'[p].pc = "reload"
          /\ proc'[p].doc = proc[p].doc /\ proc'[p].path = proc[p].path /\ proc'[p].round = proc[p].round
      BY <1>1, <3>1, BeforeStep DEF CommandOK, CommandState, Holds
    <3>3. QED
      BY <1>1, <1>2, <3>2 DEF Proceeds, Silent
  <2>2. QED
    BY <1>3, <1>5, <2>1 DEF HardenInvoke
<1>6. CASE HardenReload(p)
  <2>1. CASE Goes(p, "record")
    <3>1. proc[p].dossier # "none"
      BY <1>6, BeforeStep DEF HardenReload, At, CommandOK
    <3>2. QED
      BY <1>1, <1>2, <2>1, <3>1, GoesType DEF Proceeds, Silent, Holds
  <2>2. QED
    BY <1>3, <1>6, <2>1 DEF HardenReload
<1>7. QED
  BY <1>4, <1>5, <1>6

LEMMA RepairPacketIs ==
  ASSUME TypeOK, NEW p \in Procs, RepairPacket(p)
  PROVE  Looks(p)
<1>1. /\ Find = "drafts" /\ Find # "none" /\ Find \in Dir /\ Visible \in Document /\ HasRound(Visible)
      /\ proc[p].kind = "repair" /\ proc[p].pc = "start" /\ ~Busy(p)
  BY VisibleIs, NotBusy DEF RepairPacket, RepairedPackets, At, Accepts, InDrafts, Loads, Waits
<1>2. PICK dossier \in {"pass", "needs_revision", "ungrounded"} :
        proc' = [proc EXCEPT ![p].pc = "record", ![p].round = LatestRound(Visible).id, ![p].dossier = dossier,
                             ![p].doc = Visible]
  BY DEF RepairPacket, RepairedPackets
<1>3. LatestRound(Visible).id \in Nat /\ Visible # Absent
  BY <1>1, LatestType, AbsentIsNone DEF Round
<1>4. proc'[p] = [proc[p] EXCEPT !.pc = "record", !.round = LatestRound(Visible).id, !.dossier = dossier,
                                 !.doc = Visible]
  BY <1>2, BeforeStep
<1>5. CommandOK(proc'[p]) /\ proc'[p].kind = proc[p].kind /\ proc'[p].doc = Visible /\ proc'[p].pc = "record"
      /\ proc'[p].round = LatestRound(Visible).id
  <2>1. proc[p] \in CommandState
    BY BeforeStep
  <2> DEFINE id == LatestRound(Visible).id
  <2> HIDE DEF id
  <2>2. id \in Nat /\ proc'[p] = [proc[p] EXCEPT !.pc = "record", !.round = id, !.dossier = dossier, !.doc = Visible]
    BY <1>3, <1>4 DEF id
  <2>3. proc'[p] \in CommandState
    BY <1>1, <2>1, <2>2 DEF CommandState, Holds
  <2>4. proc'[p].kind = proc[p].kind /\ proc'[p].doc = Visible /\ proc'[p].pc = "record" /\ proc'[p].dossier = dossier
        /\ proc'[p].round = id
    BY <2>1, <2>2 DEF CommandState
  <2>5. QED
    BY <1>1, <1>3, <2>3, <2>4 DEF CommandOK, id
<1>6. files' = files /\ saving' = saving /\ faults' = faults /\ ledger' = ledger /\ artifacts' \subseteq Nat
  BY BeforeStep DEF RepairPacket, RepairedPackets, Unsaved, Quiet
<1>7. QED
  BY <1>1, <1>5, <1>6 DEF Looks, Silent

LEMMA RecordIs ==
  ASSUME TypeOK, NEW p \in Procs, Record(p)
  PROVE  Judges(p) \/ Rests(p)
<1>1. proc[p].pc = "record" /\ ~Busy(p) /\ CommandOK(proc[p]) /\ artifacts \subseteq Nat
  BY NotBusy, BeforeStep DEF Record, Waits
<1>2. CASE Find = "none" \/ ~IsMine(p)
  BY <1>1, <1>2, LeavesType DEF Record, Rests, Silent, Unsaved, Holds
<1>3. CASE Find # "none" /\ IsMine(p)
  <2> DEFINE doc == RecordedDossier(Visible, proc[p].dossier, proc[p].doc.contract, proc[p].kind, proc[p].now)
  <2>1. Find \in Dir /\ Visible \in Document /\ HasRound(Visible)
    BY <1>3, VisibleIs DEF IsMine
  <2>2. /\ proc[p].dossier \in Answers /\ proc[p].doc.contract \in Contract
        /\ proc[p].kind \in Answerers /\ proc[p].now \in Nat /\ proc[p].round \in Nat
    BY <1>1 DEF CommandOK, CommandState, Holds, Document, Answers, Answerers
  <2>3. /\ doc \in Document /\ doc.status = Visible.status
        /\ ~Overridden(doc) /\ ~LeftOpen(doc) /\ (Unstacked(Visible) => Unstacked(doc))
        /\ Keeps(doc, Visible) /\ LatestRound(doc).seen = proc[p].doc.contract
    BY <2>1, <2>2, RecordedIs DEF Keeps
  <2>a. Save(p, Find, doc, TRUE)
    BY <1>3 DEF Record, Saves
  <2>4. Goes(p, "recorded") /\ files' = files /\ faults' = faults /\ ledger' = ledger
    BY <1>3 DEF Record, Saves
  <2>5. artifacts' \subseteq Nat
    BY <1>1, <1>3, <2>2 DEF Record
  <2> HIDE DEF doc
  <2>6. SaveOK(saving'[p]) /\ saving'[p].step = "read" /\ saving'[p].path = Find /\ saving'[p].doc = doc
    BY <2>1, <2>3, <2>a, SaveType
  <2>7. CommandOK(proc'[p]) /\ proc'[p].kind = proc[p].kind /\ proc'[p].pc = "recorded"
    BY <2>4, GoesType DEF Waits, Holds
  <2>8. Begins(p, Find, doc)
    BY <1>1, <2>1, <2>3, <2>4, <2>5, <2>6, <2>7 DEF Begins, Waits
  <2>9. QED
    BY <1>1, <1>3, <2>1, <2>3, <2>4, <2>7, <2>8 DEF Judges
<1>4. QED
  BY <1>2, <1>3

LEMMA RecordedStepIs ==
  ASSUME TypeOK, NEW p \in Procs, Recorded(p)
  PROVE  Rests(p)
<1>1. ~Busy(p) /\ files' = files /\ saving' = saving /\ faults' = faults /\ ledger' = ledger /\ artifacts' \subseteq Nat
      /\ proc[p].pc = "recorded"
  BY NotBusy, BeforeStep DEF Recorded, Unsaved, Quiet
<1>2. CASE Leaves(p)
  BY <1>1, <1>2, LeavesType DEF Rests, Silent, Holds
<1>3. CASE Goes(p, "close")
  <2>1. CommandOK(proc'[p]) /\ proc'[p].pc = "close" /\ proc'[p].kind = proc[p].kind
    BY <1>3, GoesType DEF Holds
  <2>2. QED
    BY <1>1, <2>1 DEF Rests, Silent, Holds
<1>4. QED
  BY <1>2, <1>3 DEF Recorded

LEMMA CloseIs ==
  ASSUME TypeOK, NEW p \in Procs, Close(p)
  PROVE  Judges(p) \/ Rests(p)
<1>1. proc[p].pc = "close" /\ ~Busy(p) /\ artifacts' \subseteq Nat /\ ledger' = ledger /\ proc[p].now \in Nat
  BY NotBusy, BeforeStep DEF Close, Waits, Quiet, CommandOK, CommandState
<1>2. CASE ~(Find # "none" /\ IsMine(p))
  BY <1>1, <1>2, LeavesType DEF Close, Rests, Silent, Unsaved, Holds
<1>3. CASE Find # "none" /\ IsMine(p)
  <2> DEFINE doc == Errored(Visible, proc[p].now)
  <2>1. Find \in Dir /\ Visible \in Document /\ HasRound(Visible)
    BY <1>3, VisibleIs DEF IsMine
  <2>2. /\ doc \in Document /\ doc.status = Visible.status /\ doc.harden = "error"
        /\ HasRound(doc) /\ LatestRound(doc).status = "error" /\ (Unstacked(Visible) => Unstacked(doc))
        /\ Keeps(doc, Visible)
    BY <1>1, <2>1, ErroredIs DEF Keeps
  <2>3. Save(p, Find, doc, TRUE) /\ Goes(p, "ended") /\ files' = files /\ faults' = faults
    BY <1>3 DEF Close, Saves
  <2> HIDE DEF doc
  <2>4. SaveOK(saving'[p]) /\ saving'[p].step = "read" /\ saving'[p].path = Find /\ saving'[p].doc = doc
    BY <2>1, <2>2, <2>3, SaveType
  <2>5. CommandOK(proc'[p]) /\ proc'[p].kind = proc[p].kind /\ proc'[p].pc = "ended"
    BY <2>3, GoesType DEF Waits, Holds
  <2>6. ~Overridden(doc) /\ ~LeftOpen(doc)
    BY <2>2 DEF Overridden, LeftOpen
  <2>7. Begins(p, Find, doc)
    BY <1>1, <2>1, <2>2, <2>3, <2>4, <2>5 DEF Begins, Waits
  <2>8. QED
    BY <1>1, <1>3, <2>1, <2>2, <2>5, <2>6, <2>7 DEF Judges
<1>4. QED
  BY <1>2, <1>3

LEMMA EndsIs ==
  ASSUME TypeOK, NEW p \in Procs, Ends(p)
  PROVE  Rests(p)
BY LeavesType, NotBusy, BeforeStep DEF Ends, Rests, Silent, Unsaved, Quiet, Holds

\* A command that loads the draft and saves it at once.
LEMMA LoadAndSaveIs ==
  ASSUME TypeOK, NEW p \in Procs, NEW kind \in {"manual", "mark"}, NEW doc \in Document, LoadAndSave(p, kind, doc)
  PROVE  /\ Find = "drafts" /\ Visible \in Document /\ proc[p].now \in Nat /\ ledger' = ledger
         /\ Begins(p, Find, doc) /\ proc[p].pc = "start" /\ proc[p].kind = kind /\ proc'[p].pc = "ended"
<1>1. proc[p].pc = "start" /\ ~Busy(p) /\ artifacts' \subseteq Nat /\ ledger' = ledger /\ proc[p].now \in Nat
  BY NotBusy, BeforeStep DEF LoadAndSave, At, Waits, Quiet, CommandOK, CommandState
<1>2. Find = "drafts" /\ Find \in Dir /\ Visible \in Document
  BY VisibleIs DEF LoadAndSave, Accepts, At, InDrafts
<1>3. Save(p, Find, doc, FALSE) /\ Goes(p, "ended") /\ files' = files /\ faults' = faults
  BY DEF LoadAndSave, Saves
<1>4. SaveOK(saving'[p]) /\ saving'[p].step = "read" /\ saving'[p].path = Find /\ saving'[p].doc = doc
  BY <1>2, <1>3, SaveType
<1>5. CommandOK(proc'[p]) /\ proc'[p].kind = proc[p].kind /\ proc'[p].pc = "ended"
  BY <1>3, GoesType DEF Waits, Holds
<1>6. QED
  BY <1>1, <1>2, <1>3, <1>4, <1>5 DEF LoadAndSave, At, Begins, Waits

LEMMA OpenRoundIs ==
  ASSUME TypeOK, NEW p \in Procs, OpenRound(p)
  PROVE  Opens(p)
<1>1. Find = "drafts" /\ ~RerunBlocked(Visible) /\ Visible \in Document /\ proc[p].now \in Nat
  BY VisibleIs, BeforeStep DEF OpenRound, LoadAndSave, Accepts, At, InDrafts, CommandOK, CommandState
<1>2. WithRound(Visible, "operator", proc[p].now) \in Document
  BY <1>1, WithRoundIs
<1>3. /\ ledger' = ledger /\ Begins(p, Find, WithRound(Visible, "operator", proc[p].now))
      /\ proc[p].pc = "start" /\ proc[p].kind = "manual" /\ proc'[p].pc = "ended"
  BY <1>2, LoadAndSaveIs DEF OpenRound
<1>4. QED
  BY <1>1, <1>3 DEF Opens

LEMMA MarkPassedIs ==
  ASSUME TypeOK, NEW p \in Procs, MarkPassed(p)
  PROVE  Judges(p)
<1> DEFINE doc == MarkedPassed(Visible, proc[p].now)
<1>1. Find = "drafts" /\ HasRound(Visible) /\ Visible \in Document /\ proc[p].now \in Nat
  BY VisibleIs, BeforeStep DEF MarkPassed, LoadAndSave, Accepts, At, InDrafts, CommandOK, CommandState
<1>2. /\ doc \in Document /\ doc.status = Visible.status /\ doc.harden = "passed"
      /\ HasRound(doc) /\ LatestRound(doc).status = "passed" /\ (Unstacked(Visible) => Unstacked(doc))
      /\ Keeps(doc, Visible) /\ LatestRound(doc).seen = Visible.contract
  BY <1>1, MarkedPassedIs DEF Keeps
<1>3. LoadAndSave(p, "mark", doc)
  BY DEF MarkPassed
<1> HIDE DEF doc
<1>4. ledger' = ledger /\ Begins(p, Find, doc) /\ proc[p].pc = "start" /\ proc[p].kind = "mark" /\ proc'[p].pc = "ended"
  BY <1>2, <1>3, LoadAndSaveIs
<1>5. ~Overridden(doc) /\ ~LeftOpen(doc)
  BY <1>2 DEF Overridden, LeftOpen
<1>6. QED
  BY <1>1, <1>2, <1>4, <1>5 DEF Judges

LEMMA ArchiveIs ==
  ASSUME TypeOK, NEW p \in Procs, ArchiveLoad(p) \/ ArchiveSpec(p)
  PROVE  Looks(p) \/ SavesArchived(p)
<1>1. ~Busy(p) /\ files' = files /\ faults' = faults /\ ledger' = ledger /\ artifacts' \subseteq Nat
  BY NotBusy, BeforeStep DEF ArchiveLoad, ArchiveSpec, At, Waits, Unsaved, Quiet
<1>2. CASE ArchiveLoad(p)
  <2>1. Find # "none" /\ proc[p].kind = "archive" /\ Visible.status = "approved" /\ Sourced(p, "archive")
        /\ saving' = saving
    BY <1>2 DEF ArchiveLoad, Accepts, At, Loads, Unsaved
  <2>2. QED
    BY <1>1, <1>2, <2>1, SourcedType DEF ArchiveLoad, At, Looks, Silent, Holds
<1>3. CASE ArchiveSpec(p)
  <2> DEFINE doc == [proc[p].doc EXCEPT !.status = "completed", !.updated = proc[p].now]
  <2>1. proc[p].pc = "archive" /\ proc[p].path \in Dir /\ proc[p].doc \in Document /\ proc[p].now \in Nat
    BY <1>3, BeforeStep DEF ArchiveSpec, At, CommandOK, CommandState, Holds
  <2>2. doc \in Document
    BY <2>1 DEF Document, SpecStatus
  <2>3. Save(p, proc[p].path, doc, FALSE) /\ Goes(p, "ended")
    BY <1>3 DEF ArchiveSpec, SaveSourced
  <2> HIDE DEF doc
  <2>4. SaveOK(saving'[p]) /\ saving'[p].step = "read" /\ saving'[p].path = proc[p].path /\ saving'[p].doc = doc
    BY <2>1, <2>2, <2>3, SaveType
  <2>a. "ended" \in Waits /\ "ended" \notin Holds /\ "ended" # "reload" /\ "ended" # "record"
    BY DEF Waits, Holds
  <2>5. CommandOK(proc'[p]) /\ proc'[p].kind = proc[p].kind /\ proc'[p].pc = "ended"
    BY <2>3, <2>a, GoesType
  <2>6. Begins(p, proc[p].path, doc)
    BY <1>1, <2>1, <2>2, <2>4, <2>5 DEF Begins, Waits
  <2>7. QED
    BY <1>1, <2>1, <2>5, <2>6 DEF SavesArchived, doc
<1>4. QED
  BY <1>2, <1>3

LEMMA ApproveLoadIs ==
  ASSUME TypeOK, NEW p \in Procs, ApproveLoad(p)
  PROVE  Looks(p)
<1>1. ~Busy(p) /\ files' = files /\ saving' = saving /\ faults' = faults /\ ledger' = ledger /\ artifacts' \subseteq Nat
  BY NotBusy, BeforeStep DEF ApproveLoad, Waits, Unsaved, Quiet
<1>2. Find # "none" /\ Approves(p) /\ Visible.status = "draft" /\ proc[p].pc = "start"
  BY DEF ApproveLoad, Approves, Accepts, Loads
<1>3. CASE Sourced(p, "override")
  BY <1>1, <1>2, <1>3, SourcedType DEF Looks, Silent, Holds
<1>4. CASE Sourced(p, "approval") /\ ~ApprovalReasonRequired(Visible)
  BY <1>1, <1>2, <1>4, SourcedType DEF Looks, Silent, Holds
<1>5. QED
  BY <1>3, <1>4 DEF ApproveLoad

LEMMA ApproveOverrideIs ==
  ASSUME TypeOK, NEW p \in Procs, ApproveOverride(p)
  PROVE  Overrides(p) \/ Rests(p)
<1>1. ~Busy(p) /\ files' = files /\ saving' = saving /\ faults' = faults /\ artifacts' = artifacts /\ artifacts \subseteq Nat
      /\ proc[p].pc = "override"
  BY NotBusy, BeforeStep DEF ApproveOverride, Waits, Unsaved
<1>2. CASE Leaves(p) /\ ledger' = ledger
  BY <1>1, <1>2, LeavesType DEF Rests, Silent, Holds
<1>3. CASE Goes(p, "approval") /\ ledger' = ledger \cup {"override"}
  <2>1. CommandOK(proc'[p]) /\ proc'[p].kind = proc[p].kind /\ proc'[p].pc = "approval"
        /\ proc'[p].doc = proc[p].doc /\ proc'[p].path = proc[p].path
    BY <1>1, <1>3, GoesType DEF Holds
  <2>2. QED
    BY <1>1, <1>3, <2>1 DEF Overrides
<1>4. QED
  BY <1>2, <1>3 DEF ApproveOverride

LEMMA ApproveSaveIs ==
  ASSUME TypeOK, NEW p \in Procs, ApproveSave(p)
  PROVE  SavesApproved(p) \/ Rests(p)
<1>1. ~Busy(p) /\ files' = files /\ faults' = faults /\ artifacts' \subseteq Nat /\ proc[p].pc = "approval"
  BY NotBusy, BeforeStep DEF ApproveSave, Waits
<1>2. CASE Leaves(p) /\ ledger' = ledger /\ saving' = saving
  BY <1>1, <1>2, LeavesType DEF Rests, Silent, Holds
<1>3. CASE ledger' = ledger \cup {"approval"} /\ SaveSourced(p, Approved(proc[p].doc, proc[p].now))
  <2> DEFINE doc == Approved(proc[p].doc, proc[p].now)
  <2>1. proc[p].path \in Dir /\ proc[p].doc \in Document /\ proc[p].now \in Nat
    BY <1>1, BeforeStep DEF CommandOK, CommandState, Holds
  <2>2. doc \in Document
    BY <2>1, ApprovedIs
  <2>3. Save(p, proc[p].path, doc, FALSE) /\ Goes(p, "ended")
    BY <1>3 DEF SaveSourced
  <2> HIDE DEF doc
  <2>4. SaveOK(saving'[p]) /\ saving'[p].step = "read" /\ saving'[p].path = proc[p].path /\ saving'[p].doc = doc
    BY <2>1, <2>2, <2>3, SaveType
  <2>a. "ended" \in Waits /\ "ended" \notin Holds /\ "ended" # "reload" /\ "ended" # "record"
    BY DEF Waits, Holds
  <2>5. CommandOK(proc'[p]) /\ proc'[p].kind = proc[p].kind /\ proc'[p].pc = "ended"
    BY <2>3, <2>a, GoesType
  <2>6. Begins(p, proc[p].path, doc)
    BY <1>1, <2>1, <2>2, <2>4, <2>5 DEF Begins, Waits
  <2>7. QED
    BY <1>1, <1>3, <2>5, <2>6 DEF SavesApproved, doc
<1>4. QED
  BY <1>2, <1>3 DEF ApproveSave

LEMMA PlanIs ==
  ASSUME TypeOK, NEW p \in Procs, PlanLook(p) \/ PlanCreate(p)
  PROVE  Creates(p) \/ Rests(p)
<1>1. ~Busy(p) /\ saving' = saving /\ faults' = faults /\ ledger' = ledger /\ artifacts' = artifacts /\ artifacts \subseteq Nat
  BY NotBusy, BeforeStep DEF PlanLook, PlanCreate, At, Waits, Unsaved, Quiet
<1>2. CASE PlanLook(p)
  <2>1. CommandOK(proc'[p]) /\ proc'[p].pc = "create" /\ proc'[p].kind = proc[p].kind
    BY <1>2, GoesType DEF PlanLook, Holds
  <2>2. QED
    BY <1>1, <1>2, <2>1 DEF PlanLook, At, Accepts, Unsaved, Rests, Silent
<1>3. CASE PlanCreate(p)
  <2>1. CommandOK(proc'[p]) /\ proc'[p].kind = proc[p].kind /\ proc'[p].pc = "over"
    BY <1>3, LeavesType DEF PlanCreate
  <2>2. QED
    BY <1>1, <1>3, <2>1 DEF PlanCreate, At, Creates, Rests, Silent
<1>4. QED
  BY <1>2, <1>3

LEMMA StepAmounts ==
  ASSUME TypeOK, NEW p \in Procs, Step(p)
  PROVE  Saving(p) \/ Amounts(p)
BY RefusesIs, HardenStartIs, HardenVerifyIs, HardenPacketIs, HardenWaitsIs, RepairPacketIs, RecordIs,
   RecordedStepIs, CloseIs, EndsIs, OpenRoundIs, MarkPassedIs, ArchiveIs, ApproveLoadIs, ApproveOverrideIs,
   ApproveSaveIs, PlanIs DEF Step, Amounts

\* The steps of a Save.
SaveEnds(p) ==
  /\ saving'[p].step \in {"done", "failed"} /\ SaveOK(saving'[p])
  /\ faults' \in 0..MaxFaults

Continues(p, step, doc) ==
  /\ saving'[p].step = step /\ saving'[p].path = saving[p].path /\ saving'[p].doc = doc /\ SaveOK(saving'[p])
  /\ faults' = faults

Merges(p) ==
  /\ saving[p].step = "read" /\ files' = files
  /\ files[saving[p].path] \in Document /\ SamePhaseShape(files[saving[p].path], saving[p].doc)
  /\ UpdateSpec(files[saving[p].path], saving[p].doc) \in Document
  /\ \E step \in {"stat", "write"} :
       /\ step = "write" <=> Target(saving[p].doc) = saving[p].path
       /\ Continues(p, step, UpdateSpec(files[saving[p].path], saving[p].doc))

Clear(p) ==
  /\ saving[p].step = "stat" /\ files' = files
  /\ files[Target(saving[p].doc)] = Absent
  /\ Continues(p, "write", saving[p].doc)

GivesUp(p) == SaveEnds(p) /\ saving'[p].step = "failed" /\ files' = files

Replaces(p) ==
  /\ saving[p].step = "write" /\ Target(saving[p].doc) = saving[p].path
  /\ files' = [files EXCEPT ![saving[p].path] = saving[p].doc]
  /\ SaveEnds(p) /\ saving'[p].step = "done" /\ faults' = faults

Copies(p) ==
  /\ saving[p].step = "write" /\ Target(saving[p].doc) # saving[p].path
  /\ files' = [files EXCEPT ![Target(saving[p].doc)] = saving[p].doc]
  /\ Continues(p, "remove", saving[p].doc)

Unsynced(p) ==
  /\ saving[p].step = "write"
  /\ files' = [files EXCEPT ![Target(saving[p].doc)] = saving[p].doc]
  /\ SaveEnds(p) /\ saving'[p].step = "failed" /\ faults' = faults + 1

Removes(p) ==
  /\ saving[p].step = "remove"
  /\ files[saving[p].path] # Absent
  /\ files' = [files EXCEPT ![saving[p].path] = Absent]
  /\ SaveEnds(p)

TakesBack(p) ==
  /\ saving[p].step = "remove"
  /\ files' = [files EXCEPT ![Target(saving[p].doc)] = Absent]
  /\ SaveEnds(p)

SaveAmounts(p) ==
  /\ Busy(p) /\ proc' = proc /\ ledger' = ledger /\ artifacts' = artifacts
  /\ Merges(p) \/ Clear(p) \/ GivesUp(p) \/ Replaces(p) \/ Copies(p) \/ Unsynced(p) \/ Removes(p) \/ TakesBack(p)

LEMMA ReturnsType ==
  ASSUME TypeOK, NEW p \in Procs, NEW result \in {"done", "failed"}, Returns(p, result)
  PROVE  saving'[p].step = result /\ SaveOK(saving'[p])
<1>1. saving'[p] = [step |-> result, path |-> "drafts", doc |-> Absent, terminal |-> FALSE]
  BY BeforeStep DEF Returns, Idle
<1>a. PICK t \in BOOLEAN : saving'[p] = [step |-> result, path |-> "drafts", doc |-> Absent, terminal |-> t]
  BY <1>1, Zenon
<1>2. "drafts" \in Dir /\ result \in SaveSteps
  BY FourDirs DEF SaveSteps
<1>3. saving'[p] \in SaveState
  BY <1>a, <1>2 DEF SaveState
<1>4. QED
  BY <1>1, <1>3 DEF SaveOK

LEMMA StepsType ==
  ASSUME TypeOK, NEW p \in Procs, Busy(p), NEW step \in {"write", "remove"}, Steps(p, step), faults' = faults
  PROVE  Continues(p, step, saving[p].doc)
<1>1. saving[p] \in SaveState /\ saving[p].doc # Absent /\ saving'[p] = [saving[p] EXCEPT !.step = step]
  BY BeforeStep DEF Steps, SaveOK
<1>2. QED
  BY <1>1 DEF Continues, SaveOK, SaveState, SaveSteps

LEMMA SavingIs ==
  ASSUME TypeOK, NEW p \in Procs, Saving(p)
  PROVE  SaveAmounts(p)
<1>1. /\ Busy(p) /\ proc' = proc /\ ledger' = ledger /\ artifacts' = artifacts
      /\ saving[p] \in SaveState /\ saving[p].doc \in Document /\ saving[p].path \in Dir
      /\ Target(saving[p].doc) \in Dir /\ faults \in 0..MaxFaults
  <2>1. Busy(p)
    BY DEF Saving, SaveStep, SaveRead, SaveStat, SaveWrite, SaveWriteFails, SaveRemove, Busy
  <2>2. saving[p] \in SaveState /\ saving[p].doc \in Document
    BY <2>1, BeforeStep DEF SaveOK, SaveState
  <2>3. QED
    BY <2>1, <2>2, TargetType, BeforeStep DEF Saving, Quiet, SaveState, Document
<1>2. CASE SaveRead(p)
  <2>1. saving[p].step = "read" /\ files' = files /\ faults' = faults
    BY <1>2 DEF SaveRead
  <2>2. CASE Returns(p, "failed")
    BY <1>1, <2>1, <2>2, ReturnsType DEF SaveAmounts, GivesUp, SaveEnds
  <2>3. CASE ~Returns(p, "failed")
    <3> DEFINE current == files[saving[p].path]
               merged == UpdateSpec(current, saving[p].doc)
               step == IF Target(saving[p].doc) = saving[p].path THEN "write" ELSE "stat"
    <3>1. current # Absent /\ SamePhaseShape(current, saving[p].doc)
          /\ saving' = [saving EXCEPT ![p].step = step, ![p].doc = merged]
      BY <1>2, <2>3 DEF SaveRead
    <3>2. current \in Document
      BY <1>1, <3>1, BeforeStep
    <3>3. merged \in Document
      BY <1>1, <3>2 DEF UpdateSpec, Prose, Document
    <3> HIDE DEF current, merged, step
    <3>4. saving'[p] = [saving[p] EXCEPT !.step = step, !.doc = merged]
      BY <3>1, BeforeStep
    <3>5. step \in {"stat", "write"} /\ (step = "write" <=> Target(saving[p].doc) = saving[p].path)
      BY DEF step
    <3>6. merged # Absent
      BY <3>3, AbsentIsNone
    <3>7. Continues(p, step, merged)
      BY <1>1, <2>1, <3>3, <3>4, <3>5, <3>6 DEF Continues, SaveOK, SaveState, SaveSteps
    <3>8. Merges(p)
      BY <2>1, <3>1, <3>2, <3>3, <3>5, <3>7 DEF Merges, current, merged
    <3>9. QED
      BY <1>1, <3>8 DEF SaveAmounts
  <2>4. QED
    BY <2>2, <2>3
<1>3. CASE SaveStat(p)
  <2>1. saving[p].step = "stat" /\ files' = files /\ faults' = faults
    BY <1>3 DEF SaveStat
  <2>2. CASE Returns(p, "failed")
    BY <1>1, <2>1, <2>2, ReturnsType DEF SaveAmounts, GivesUp, SaveEnds
  <2>3. CASE files[Target(saving[p].doc)] = Absent /\ Steps(p, "write")
    <3>1. Continues(p, "write", saving[p].doc)
      BY <1>1, <2>1, <2>3, StepsType
    <3>2. QED
      BY <1>1, <2>1, <2>3, <3>1 DEF SaveAmounts, Clear
  <2>4. QED
    BY <1>3, <2>2, <2>3 DEF SaveStat
<1>4. CASE SaveWrite(p)
  <2>1. saving[p].step = "write" /\ files' = [files EXCEPT ![Target(saving[p].doc)] = saving[p].doc] /\ faults' = faults
    BY <1>4 DEF SaveWrite
  <2>2. CASE Target(saving[p].doc) = saving[p].path
    <3>1. Returns(p, "done")
      BY <1>4, <2>2 DEF SaveWrite
    <3>2. saving'[p].step = "done" /\ SaveOK(saving'[p])
      BY <3>1, ReturnsType
    <3>3. QED
      BY <1>1, <2>1, <2>2, <3>2 DEF SaveAmounts, Replaces, SaveEnds
  <2>3. CASE Target(saving[p].doc) # saving[p].path
    <3>1. Steps(p, "remove")
      BY <1>4, <2>3 DEF SaveWrite
    <3>2. Continues(p, "remove", saving[p].doc)
      BY <1>1, <2>1, <3>1, StepsType
    <3>3. QED
      BY <1>1, <2>1, <2>3, <3>2 DEF SaveAmounts, Copies
  <2>4. QED
    BY <2>2, <2>3
<1>5. CASE SaveWriteFails(p)
  <2>1. saving[p].step = "write" /\ Returns(p, "failed") /\ faults' \in 0..MaxFaults /\ faults' = faults + 1
    BY <1>1, <1>5, FaultsAssumption DEF SaveWriteFails
  <2>2. SaveEnds(p) /\ saving'[p].step = "failed"
    BY <2>1, ReturnsType DEF SaveEnds
  <2>3. CASE files' = files
    BY <1>1, <2>2, <2>3 DEF SaveAmounts, GivesUp
  <2>4. CASE files' = [files EXCEPT ![Target(saving[p].doc)] = saving[p].doc]
    BY <1>1, <2>1, <2>2, <2>4 DEF SaveAmounts, Unsynced
  <2>5. QED
    BY <1>5, <2>3, <2>4 DEF SaveWriteFails
<1>6. CASE SaveRemove(p)
  <2>1. saving[p].step = "remove" /\ faults' \in 0..MaxFaults
    BY <1>1, <1>6, FaultsAssumption DEF SaveRemove
  <2>2. CASE /\ files[saving[p].path] # Absent /\ files' = [files EXCEPT ![saving[p].path] = Absent]
             /\ Returns(p, "done")
    BY <1>1, <2>1, <2>2, ReturnsType DEF SaveAmounts, Removes, SaveEnds
  <2>3. CASE files' = [files EXCEPT ![Target(saving[p].doc)] = Absent] /\ Returns(p, "failed")
    BY <1>1, <2>1, <2>3, ReturnsType DEF SaveAmounts, TakesBack, SaveEnds
  <2>4. QED
    BY <1>6, <2>2, <2>3 DEF SaveRemove
<1>7. QED
  BY <1>2, <1>3, <1>4, <1>5, <1>6 DEF Saving, SaveStep

-----------------------------------------------------------------------------
(* The type invariant. *)

LEMMA AmountsType ==
  ASSUME TypeOK, NEW p \in Procs, Amounts(p) \/ SaveAmounts(p)
  PROVE  Typed(p)
<1> USE BeforeStep
<1>1. CASE Rests(p) \/ Looks(p) \/ Proceeds(p)
  BY <1>1 DEF Rests, Looks, Proceeds, Silent, Typed
<1>2. CASE Overrides(p)
  BY <1>2 DEF Overrides, Typed
<1>3. CASE Creates(p)
  <2>1. NewDraft(proc[p].now) \in Document
    BY NewDraftIs DEF CommandOK, CommandState
  <2>2. QED
    BY <1>3, <2>1 DEF Creates, Typed
<1>4. CASE Opens(p) \/ Judges(p) \/ SavesApproved(p) \/ SavesArchived(p)
  <2>1. \E path, doc : Begins(p, path, doc) /\ (ledger' = ledger \/ ledger' = ledger \cup {"approval"})
    BY <1>4 DEF Opens, Judges, SavesApproved, SavesArchived
  <2>2. QED
    BY <2>1 DEF Begins, Typed
<1>5. CASE SaveAmounts(p)
  <2>1. saving[p].doc \in Document /\ saving[p].path \in Dir /\ Target(saving[p].doc) \in Dir /\ Busy(p)
    <3>1. saving[p].doc \in Document /\ saving[p].path \in Dir /\ Busy(p)
      BY <1>5 DEF SaveOK, SaveState, SaveAmounts
    <3>2. QED
      BY <3>1, TargetType DEF Document
  <2>2. files' \in [Dir -> Document \cup {Absent}]
    BY <1>5, <2>1 DEF SaveAmounts, Merges, Clear, GivesUp, Replaces, Copies, Unsynced, Removes, TakesBack
  <2>3. SaveOK(saving'[p]) /\ faults' \in 0..MaxFaults
    BY <1>5 DEF SaveAmounts, Merges, Clear, GivesUp, Replaces, Copies, Unsynced, Removes, TakesBack, Continues, SaveEnds
  <2>4. QED
    BY <1>5, <2>1, <2>2, <2>3 DEF SaveAmounts, Typed
<1>6. QED
  BY <1>1, <1>2, <1>3, <1>4, <1>5 DEF Amounts

LEMMA StepType ==
  ASSUME TypeOK, NEW p \in Procs, Step(p)
  PROVE  TypeOK'
<1>1. Typed(p) /\ Frame(p)
  BY StepAmounts, SavingIs, AmountsType, StepFrame
<1>2. ASSUME NEW q \in Procs
      PROVE  /\ CommandOK(proc'[q]) /\ SaveOK(saving'[q])
             /\ saving'[q].step \in {"read", "stat", "write", "remove"} => proc'[q].pc \in Waits
  BY <1>1, BeforeStep DEF Typed, Frame
<1>3. proc' \in [Procs -> CommandState] /\ saving' \in [Procs -> SaveState]
  <2>1. \A q \in Procs : proc'[q] \in CommandState /\ saving'[q] \in SaveState
    BY <1>2 DEF CommandOK, SaveOK
  <2>2. proc' = [q \in Procs |-> proc'[q]] /\ saving' = [q \in Procs |-> saving'[q]]
    BY <1>1 DEF Frame
  <2>3. QED
    BY <2>1, <2>2
<1>4. QED
  BY <1>1, <1>2, <1>3 DEF TypeOK, StoreTypeOK, Typed, Frame, CommandOK, SaveOK, SaveState, Busy

\* The operator and the faults.
Edited(doc) ==
  /\ files' = [files EXCEPT ![Find] = doc]
  /\ doc.status = Visible.status /\ doc.harden = Visible.harden
  /\ Overridden(doc) = Overridden(Visible) /\ LeftOpen(doc) = LeftOpen(Visible)
  /\ Unstacked(Visible) => Unstacked(doc)

Edits ==
  /\ Find # "none"
  /\ \E doc \in Document : Edited(doc)
  /\ proc' = proc /\ saving' = saving /\ ledger' = ledger

Dies(p) ==
  /\ files' = files /\ ledger' = ledger
  /\ proc' = [proc EXCEPT ![p] = Command("over", proc[p].kind, proc[p].now)]
  /\ saving' = [saving EXCEPT ![p] = Idle]

LEMMA EditsIs ==
  ASSUME TypeOK, EditContract \/ EditNotes \/ FillObservations
  PROVE  /\ Edits
         /\ files' \in [Dir -> Document \cup {Absent}]
         /\ edits' \in [contract : Nat, notes : Nat, filled : Nat]
         /\ overlapped' \in BOOLEAN /\ artifacts' = artifacts /\ cancelled' = cancelled /\ faults' = faults
<1>1. Find # "none" /\ Find \in Dir /\ Visible \in Document
  <2>1. Find # "none"
    BY DEF EditContract, EditNotes, FillObservations
  <2>2. QED
    BY <2>1, VisibleIs
<1>2. edits \in [contract : Nat, notes : Nat, filled : Nat] /\ overlapped \in BOOLEAN
      /\ files \in [Dir -> Document \cup {Absent}]
  BY DEF TypeOK
<1>3. /\ proc' = proc /\ saving' = saving /\ ledger' = ledger
      /\ artifacts' = artifacts /\ cancelled' = cancelled /\ faults' = faults
  BY DEF EditContract, EditNotes, FillObservations, Writes
<1>4. edits' \in [contract : Nat, notes : Nat, filled : Nat]
  BY <1>2 DEF EditContract, EditNotes, FillObservations
<1>5. overlapped' \in BOOLEAN
  <2>1. overlapped' = (overlapped \/ Stale) \/ overlapped' = (overlapped \/ Merged)
    BY DEF EditContract, EditNotes, FillObservations, Writes
  <2>2. QED
    BY <2>1, Zenon
<1>6. \E doc \in Document : Edited(doc)
  <2>1. ASSUME NEW doc \in Document, files' = [files EXCEPT ![Find] = doc],
               doc.status = Visible.status, doc.harden = Visible.harden, doc.rounds = Visible.rounds
        PROVE  Edited(doc)
    BY <1>1, <2>1, RoundsKept DEF Edited
  <2>2. CASE EditContract
    <3>1. PICK shape \in {Visible.contract.shape, Visible.contract.shape + 1} :
            files' = [files EXCEPT ![Find] = [Visible EXCEPT !.contract = [text |-> Visible.contract.text + 1, shape |-> shape]]]
      BY <2>2 DEF EditContract, Writes
    <3> DEFINE contract == [text |-> Visible.contract.text + 1, shape |-> shape]
               doc == [Visible EXCEPT !.contract = contract]
    <3>2. contract \in Contract
      BY <1>1, <1>2 DEF Document, Contract
    <3> HIDE DEF contract
    <3>3. doc \in Document /\ doc.status = Visible.status /\ doc.harden = Visible.harden /\ doc.rounds = Visible.rounds
      BY <1>1, <3>2 DEF Document
    <3>4. files' = [files EXCEPT ![Find] = doc]
      BY <3>1 DEF contract
    <3> HIDE DEF doc
    <3>5. QED
      BY <2>1, <3>3, <3>4
  <2>3. CASE EditNotes
    <3> DEFINE doc == [Visible EXCEPT !.notes = edits.notes + 1]
    <3>1. doc \in Document /\ doc.status = Visible.status /\ doc.harden = Visible.harden /\ doc.rounds = Visible.rounds
      BY <1>1, <1>2 DEF Document
    <3>2. files' = [files EXCEPT ![Find] = doc]
      BY <2>3 DEF EditNotes, Writes
    <3> HIDE DEF doc
    <3>3. QED
      BY <2>1, <3>1, <3>2
  <2>4. CASE FillObservations
    <3>1. PICK obs \in {"ok", "open", "bad"} :
            files' = [files EXCEPT ![Find] = [Visible EXCEPT !.rounds[Len(Visible.rounds)].obs = obs]]
      BY <2>4 DEF FillObservations, Writes
    <3> DEFINE doc == [Visible EXCEPT !.rounds[Len(Visible.rounds)].obs = obs]
    <3>2. /\ doc \in Document /\ doc.status = Visible.status /\ doc.harden = Visible.harden
          /\ Overridden(doc) = Overridden(Visible) /\ LeftOpen(doc) = LeftOpen(Visible)
          /\ Unstacked(Visible) => Unstacked(doc)
      BY <1>1, <2>4, FilledIs DEF FillObservations
    <3>3. files' = [files EXCEPT ![Find] = doc]
      BY <3>1
    <3> HIDE DEF doc
    <3>4. QED
      BY <3>2, <3>3 DEF Edited
  <2>5. QED
    BY <2>2, <2>3, <2>4
<1>7. Edits
  BY <1>1, <1>3, <1>6 DEF Edits
<1>8. files' \in [Dir -> Document \cup {Absent}]
  BY <1>2, <1>6 DEF Edited
<1>9. QED
  BY <1>3, <1>4, <1>5, <1>7, <1>8

LEMMA DiesIs ==
  ASSUME TypeOK, NEW p \in Procs, Crash(p)
  PROVE  Dies(p) /\ CommandOK(proc'[p]) /\ proc'[p].pc = "over" /\ proc'[p].kind = proc[p].kind
         /\ SaveOK(saving'[p]) /\ saving'[p].step = "idle"
<1>1. Dies(p)
  BY DEF Crash, Dies, Leaves, Quiet
<1>2. Leaves(p)
  BY DEF Crash
<1>3. PICK t \in BOOLEAN : saving'[p] = [step |-> "idle", path |-> "drafts", doc |-> Absent, terminal |-> t]
  <2>1. saving'[p] = [step |-> "idle", path |-> "drafts", doc |-> Absent, terminal |-> FALSE]
    BY <1>1, BeforeStep DEF Dies, Idle
  <2>2. QED
    BY <2>1, Zenon
<1>4. "drafts" \in Dir /\ "idle" \in SaveSteps
  BY FourDirs DEF SaveSteps
<1>5. saving'[p] \in SaveState
  BY <1>3, <1>4 DEF SaveState
<1>6. SaveOK(saving'[p]) /\ saving'[p].step = "idle"
  BY <1>3, <1>5 DEF SaveOK
<1>7. QED
  BY <1>1, <1>2, <1>6, LeavesType

LEMMA TypeInit ==
  ASSUME Init
  PROVE  TypeOK
<1>1. PICK s \in Scenarios :
        StoreInit(s.files) /\ proc = [p \in Procs |-> Command("start", s.commands[p].kind, s.commands[p].now)]
  BY DEF Init
<1>2. s.commands \in [Procs -> [kind : Kinds, now : Nat]] /\ Starts(s.files)
  BY HardenAssumption
<1>3. "drafts" \in Dir /\ 0 \in Nat /\ 0 \in 0..MaxFaults
  BY FourDirs, FaultsAssumption
<1>4. ASSUME NEW p \in Procs
      PROVE  proc[p] \in CommandState /\ proc[p].pc = "start" /\ saving[p] \in SaveState /\ saving[p].step = "idle"
  <2>1. s.commands[p].kind \in Kinds /\ s.commands[p].now \in Nat
    BY <1>2
  <2>2. proc[p] = Command("start", s.commands[p].kind, s.commands[p].now) /\ saving[p] = Idle
    BY <1>1 DEF StoreInit
  <2>3. proc[p] \in CommandState /\ proc[p].pc = "start"
    BY <1>3, <2>1, <2>2 DEF Command, CommandState
  <2>4. PICK t \in BOOLEAN : saving[p] = [step |-> "idle", path |-> "drafts", doc |-> Absent, terminal |-> t]
    BY <2>2, Zenon DEF Idle
  <2>5. saving[p] \in SaveState /\ saving[p].step = "idle"
    BY <1>3, <2>4 DEF SaveState, SaveSteps
  <2>6. QED
    BY <2>3, <2>5
<1>5. proc \in [Procs -> CommandState] /\ saving \in [Procs -> SaveState] /\ DOMAIN saving = Procs
  BY <1>1, <1>4 DEF StoreInit
<1>6. files \in [Dir -> Document \cup {Absent}] /\ DOMAIN files = Dir
  <2>1. files = s.files /\ DOMAIN files = Dir
    BY <1>1, <1>2 DEF StoreInit, Starts
  <2>2. QED
    BY <1>2, <2>1 DEF Starts
<1>7. ledger \subseteq {"override", "approval"} /\ artifacts = {} /\ edits = [contract |-> 0, notes |-> 0, filled |-> 0]
      /\ overlapped = FALSE /\ cancelled = {} /\ faults = 0
  BY <1>1 DEF Init, StoreInit
<1>8. overlapped \in BOOLEAN
  BY <1>7
<1>9. QED
  BY <1>3, <1>4, <1>5, <1>6, <1>7, <1>8 DEF TypeOK, StoreTypeOK, SaveState, Busy, Waits, Holds

LEMMA TypeStep ==
  ASSUME TypeOK, [Next]_vars
  PROVE  TypeOK'
<1>1. ASSUME NEW p \in Procs, Step(p) PROVE TypeOK'
  BY <1>1, StepType
<1>2. ASSUME NEW p \in Procs, Cancel(p) PROVE TypeOK'
  BY <1>2 DEF Cancel, Quiet, TypeOK, StoreTypeOK, Busy
<1>3. ASSUME NEW p \in Procs, Crash(p) PROVE TypeOK'
  <2>1. /\ Dies(p) /\ CommandOK(proc'[p]) /\ proc'[p].pc = "over" /\ SaveOK(saving'[p]) /\ saving'[p].step = "idle"
    BY <1>3, DiesIs
  <2>2. proc' \in [Procs -> CommandState] /\ saving' \in [Procs -> SaveState]
    <3>1. proc'[p] \in CommandState /\ saving'[p] \in SaveState
      BY <2>1 DEF CommandOK, SaveOK
    <3>2. proc' = [proc EXCEPT ![p] = proc'[p]] /\ saving' = [saving EXCEPT ![p] = saving'[p]]
      BY <2>1, BeforeStep DEF Dies
    <3>3. QED
      BY <3>1, <3>2, BeforeStep
  <2>3. \A q \in Procs \ {p} : proc'[q] = proc[q] /\ saving'[q] = saving[q]
    BY <2>1, BeforeStep DEF Dies
  <2>4. ASSUME NEW q \in Procs
        PROVE  /\ CommandOK(proc'[q]) /\ SaveOK(saving'[q])
               /\ saving'[q].step \in {"read", "stat", "write", "remove"} => proc'[q].pc \in Waits
    BY <2>1, <2>3, BeforeStep
  <2>5. faults' \in 0..MaxFaults /\ cancelled' = cancelled /\ artifacts' = artifacts /\ edits' = edits
        /\ overlapped' = overlapped
    BY <1>3, BeforeStep, FaultsAssumption DEF Crash, Quiet
  <2>6. QED
    BY <2>1, <2>2, <2>4, <2>5 DEF TypeOK, StoreTypeOK, Dies, CommandOK, SaveOK, SaveState, Busy
<1>4. CASE EditContract \/ EditNotes \/ FillObservations
  <2>1. /\ Edits /\ files' \in [Dir -> Document \cup {Absent}]
        /\ edits' \in [contract : Nat, notes : Nat, filled : Nat]
        /\ overlapped' \in BOOLEAN /\ artifacts' = artifacts /\ cancelled' = cancelled /\ faults' = faults
    BY <1>4, EditsIs
  <2>2. QED
    BY <2>1 DEF Edits, TypeOK, StoreTypeOK, Busy
<1>5. CASE UNCHANGED vars
  BY <1>5 DEF vars, storeVars, TypeOK, StoreTypeOK, Busy
<1>6. QED
  BY <1>1, <1>2, <1>3, <1>4, <1>5 DEF Next, Operator, Over

\* Files, Saves and commands keep their types, for any commands, edits and faults.
THEOREM RoundsTyped == Spec => []TypeOK
<1>1. Init => TypeOK
  BY TypeInit
<1>2. TypeOK /\ [Next]_vars => TypeOK'
  BY TypeStep
<1>3. QED
  BY <1>1, <1>2, PTL DEF Spec

-----------------------------------------------------------------------------
(* Every copy of the spec is sound. *)

\* What the found spec is.
LEMMA VisibleSound ==
  ASSUME TypeOK, FilesInv, Find # "none"
  PROVE  Sound(Visible, ledger) /\ Target(Visible) = Find
BY VisibleIs, FindFirst DEF FilesInv, Visible

LEMMA SoundGrows ==
  ASSUME NEW doc, NEW log, NEW more, log \subseteq more, Sound(doc, log)
  PROVE  Sound(doc, more)
BY DEF Sound

\* A step that leaves a process alone leaves what it holds sound.
LEMMA OthersKeep ==
  ASSUME NEW q \in Procs, proc'[q] = proc[q], saving'[q] = saving[q], ledger \subseteq ledger',
         SaveInv(q), CommandInv(q)
  PROVE  SaveInv(q)' /\ CommandInv(q)'
<1>1. SaveInv(q)'
  BY SoundGrows DEF SaveInv, Busy, Promotes, Archives, Approves
<1>2. CommandInv(q)'
  BY SoundGrows DEF CommandInv, Approves
<1>3. QED
  BY <1>1, <1>2

\* The steps that change a command and nothing else.
LEMMA SilentSound ==
  ASSUME TypeOK, DocumentsInv, NEW p \in Procs, Rests(p) \/ Looks(p) \/ Proceeds(p) \/ Overrides(p)
  PROVE  FilesInv' /\ SaveInv(p)' /\ CommandInv(p)'
<1>1. ledger \subseteq ledger' /\ files' = files /\ saving' = saving /\ ~Busy(p)
  BY DEF Rests, Looks, Proceeds, Overrides, Silent
<1>2. FilesInv'
  BY <1>1, SoundGrows DEF DocumentsInv, FilesInv
<1>3. SaveInv(p)'
  BY <1>1 DEF SaveInv, Busy
<1>4. CASE Rests(p)
  BY <1>2, <1>3, <1>4 DEF Rests, CommandInv, Holds
<1>5. CASE Looks(p)
  <2>1. Sound(Visible, ledger) /\ Target(Visible) = Find
    BY <1>5, VisibleSound DEF DocumentsInv, Looks
  <2>2. Sound(proc'[p].doc, ledger')
    BY <1>5, <2>1 DEF Looks, Silent
  <2>3. CommandInv(p)'
    BY <1>5, <2>1, <2>2 DEF Looks, Silent, CommandInv, Approves
  <2>4. QED
    BY <1>2, <1>3, <2>3
<1>6. CASE Proceeds(p)
  BY <1>2, <1>3, <1>6 DEF Proceeds, Silent, DocumentsInv, CommandInv, Holds
<1>7. CASE Overrides(p)
  <2>1. Sound(proc'[p].doc, ledger')
    BY <1>1, <1>7, SoundGrows DEF Overrides, DocumentsInv, CommandInv, Holds
  <2>2. QED
    BY <1>2, <1>3, <1>7, <2>1 DEF Overrides, DocumentsInv, CommandInv, Holds, Approves
<1>8. QED
  BY <1>4, <1>5, <1>6, <1>7

\* A Save begins with a sound model that belongs at its path, or with one of the
\* two that move it.
LEMMA BeginsSound ==
  ASSUME TypeOK, DocumentsInv, NEW p \in Procs, NEW path, NEW doc, Begins(p, path, doc),
         ledger \subseteq ledger', Sound(doc, ledger'),
         \/ Target(doc) = path
         \/ Approves(p) /\ path = "drafts" /\ doc.status = "approved"
         \/ proc[p].kind = "archive" /\ path = "approved" /\ doc.status = "completed"
  PROVE  FilesInv' /\ SaveInv(p)' /\ CommandInv(p)'
<1>1. FilesInv'
  BY SoundGrows DEF Begins, DocumentsInv, FilesInv
<1>2. SaveInv(p)'
  BY DEF Begins, SaveInv, Promotes, Archives, Approves
<1>3. CommandInv(p)'
  BY DEF Begins, CommandInv, Waits, Holds
<1>4. QED
  BY <1>1, <1>2, <1>3

LEMMA OpensSound ==
  ASSUME TypeOK, DocumentsInv, NEW p \in Procs, Opens(p)
  PROVE  FilesInv' /\ SaveInv(p)' /\ CommandInv(p)'
<1> DEFINE now == proc[p].now
<1>1. PICK by \in {"operator", "provider"} : Begins(p, Find, WithRound(Visible, by, now))
  BY DEF Opens
<1>2. Visible \in Document /\ Sound(Visible, ledger) /\ Target(Visible) = Find /\ now \in Nat /\ ledger' = ledger
  BY VisibleIs, VisibleSound, BeforeStep DEF DocumentsInv, Opens, CommandOK, CommandState
<1>3. ~RerunBlocked(Visible) /\ Find = "drafts"
  BY DEF Opens, DocumentsInv, CommandInv
<1>4. Visible.status = "draft" /\ Unstacked(Visible) /\ ~Overridden(Visible)
  BY <1>2, <1>3, TargetType DEF Sound, Document
<1> DEFINE doc == WithRound(Visible, by, now)
<1>5. /\ doc \in Document /\ doc.status = "draft" /\ doc.harden = "in_progress"
      /\ HasRound(doc) /\ LatestRound(doc).status = "in_progress" /\ Unstacked(doc)
  BY <1>2, <1>3, <1>4, WithRoundIs, ZenonT(60)
<1> HIDE DEF doc, now
<1>6. Sound(doc, ledger) /\ Target(doc) = Find
  BY <1>3, <1>5, TargetType DEF Sound, Overridden, Document
<1>7. Begins(p, Find, doc)
  BY <1>1 DEF doc
<1>8. QED
  BY <1>2, <1>6, <1>7, BeginsSound

LEMMA JudgesSound ==
  ASSUME TypeOK, DocumentsInv, NEW p \in Procs, Judges(p)
  PROVE  FilesInv' /\ SaveInv(p)' /\ CommandInv(p)'
<1>1. PICK doc \in Document :
        /\ Begins(p, Find, doc) /\ doc.status = Visible.status /\ ~Overridden(doc)
        /\ Unstacked(Visible) => Unstacked(doc)
  BY DEF Judges
<1>2. Find # "none" /\ ledger' = ledger /\ Sound(Visible, ledger) /\ Target(Visible) = Find
  BY VisibleSound DEF Judges, DocumentsInv
<1>3. Target(doc) = Find
  BY <1>1, <1>2 DEF Target
<1>4. Sound(doc, ledger)
  BY <1>1, <1>2 DEF Sound, Overridden
<1>5. QED
  BY <1>1, <1>2, <1>3, <1>4, BeginsSound

LEMMA SavesApprovedSound ==
  ASSUME TypeOK, DocumentsInv, NEW p \in Procs, SavesApproved(p)
  PROVE  FilesInv' /\ SaveInv(p)' /\ CommandInv(p)'
<1> DEFINE from == proc[p].doc  now == proc[p].now  doc == Approved(from, now)
<1>1. proc[p].pc = "approval" /\ Begins(p, proc[p].path, doc) /\ ledger' = ledger \cup {"approval"}
  BY DEF SavesApproved
<1>2. from \in Document /\ now \in Nat /\ Sound(from, ledger) /\ Target(from) = proc[p].path
      /\ Approves(p) /\ from.status = "draft" /\ (ApprovalReasonRequired(from) => "override" \in ledger)
  BY <1>1, BeforeStep DEF DocumentsInv, CommandInv, CommandOK, CommandState, Holds
<1>3. doc \in Document /\ doc.status = "approved" /\ Unstacked(doc)
      /\ doc.harden = IF ApprovalReasonRequired(from) THEN "overridden" ELSE from.harden
  BY <1>2, ApprovedIs DEF Sound
<1>4. from.harden # "overridden" /\ proc[p].path = "drafts"
  BY <1>2, TargetType DEF Sound, Overridden, Document
<1> HIDE DEF from, doc, now
<1>5. Sound(doc, ledger')
  BY <1>1, <1>2, <1>3, <1>4 DEF Sound
<1>6. QED
  BY <1>1, <1>2, <1>3, <1>4, <1>5, BeginsSound

LEMMA SavesArchivedSound ==
  ASSUME TypeOK, DocumentsInv, NEW p \in Procs, SavesArchived(p)
  PROVE  FilesInv' /\ SaveInv(p)' /\ CommandInv(p)'
<1> DEFINE from == proc[p].doc  doc == [from EXCEPT !.status = "completed", !.updated = proc[p].now]
<1>1. proc[p].pc = "archive" /\ Begins(p, proc[p].path, doc) /\ ledger' = ledger
  BY DEF SavesArchived
<1>2. from \in Document /\ Sound(from, ledger) /\ Target(from) = proc[p].path
      /\ proc[p].kind = "archive" /\ from.status = "approved"
  BY <1>1, BeforeStep DEF DocumentsInv, CommandInv, CommandOK, CommandState, Holds
<1>3. doc \in Document
  BY <1>1 DEF Begins
<1>4. doc.status = "completed" /\ doc.rounds = from.rounds /\ proc[p].path = "approved"
  BY <1>2, TargetType DEF Document
<1> HIDE DEF from, doc
<1>5. Sound(doc, ledger')
  BY <1>1, <1>2, <1>3, <1>4, RoundsKept DEF Sound
<1>6. QED
  BY <1>1, <1>2, <1>4, <1>5, BeginsSound

LEMMA CreatesSound ==
  ASSUME TypeOK, DocumentsInv, NEW p \in Procs, Creates(p)
  PROVE  FilesInv' /\ SaveInv(p)' /\ CommandInv(p)'
<1> DEFINE now == proc[p].now  doc == NewDraft(now)
<1>1. now \in Nat
  BY BeforeStep DEF CommandOK, CommandState
<1>2. doc \in Document /\ doc.status = "draft" /\ Unstacked(doc) /\ ~Overridden(doc)
  BY <1>1, NewDraftIs
<1> HIDE DEF doc, now
<1>3. Sound(doc, ledger) /\ Target(doc) = "drafts"
  BY <1>2, TargetType DEF Sound, Document
<1>4. files' = [files EXCEPT !["drafts"] = doc] /\ ledger' = ledger
  BY DEF Creates, doc, now
<1>5. FilesInv'
  BY <1>3, <1>4, BeforeStep DEF FilesInv, DocumentsInv
<1>6. SaveInv(p)' /\ CommandInv(p)'
  BY DEF Creates, SaveInv, CommandInv, Busy, Holds
<1>7. QED
  BY <1>5, <1>6

\* A Save puts its model where it belongs.
LEMMA SaveAmountsSound ==
  ASSUME TypeOK, DocumentsInv, NEW p \in Procs, SaveAmounts(p)
  PROVE  FilesInv' /\ SaveInv(p)' /\ CommandInv(p)'
<1> DEFINE doc == saving[p].doc  path == saving[p].path
<1>1. /\ Busy(p) /\ proc' = proc /\ ledger' = ledger /\ files \in [Dir -> Document \cup {Absent}]
      /\ doc \in Document /\ path \in Dir /\ Sound(doc, ledger)
      /\ Target(doc) = path \/ Promotes(p) \/ Archives(p)
      /\ saving[p].step \in {"stat", "remove"} => Target(doc) # path
  BY BeforeStep DEF SaveAmounts, DocumentsInv, SaveInv, SaveOK, SaveState
<1>2. CommandInv(p)'
  BY <1>1 DEF DocumentsInv, CommandInv, Approves
<1>3. Target(doc) \in Dir
  BY <1>1, TargetType DEF Document
<1>4. CASE GivesUp(p)
  BY <1>1, <1>2, <1>4 DEF GivesUp, SaveEnds, DocumentsInv, FilesInv, SaveInv, Busy
<1>5. CASE Merges(p)
  <2> DEFINE merged == UpdateSpec(files[path], doc)
  <2>1. merged \in Document /\ files' = files
    BY <1>5 DEF Merges
  <2>2. merged.rounds = doc.rounds /\ merged.status = doc.status /\ merged.harden = doc.harden
    BY <1>1 DEF UpdateSpec, Prose, Document
  <2> HIDE DEF merged
  <2>3. Sound(merged, ledger) /\ Target(merged) = Target(doc)
    BY <1>1, <2>1, <2>2, RoundsKept DEF Sound, Target
  <2>4. PICK step \in {"stat", "write"} :
          (step = "write" <=> Target(doc) = path) /\ Continues(p, step, merged)
    BY <1>5 DEF Merges, merged
  <2>5. SaveInv(p)'
    BY <1>1, <2>2, <2>3, <2>4 DEF SaveInv, Continues, Promotes, Archives, Approves
  <2>6. QED
    BY <1>1, <1>2, <2>1, <2>5 DEF DocumentsInv, FilesInv
<1>6. CASE Clear(p)
  <2>1. SaveInv(p)'
    BY <1>1, <1>6 DEF Clear, SaveInv, Continues, Promotes, Archives, Approves
  <2>2. QED
    BY <1>1, <1>2, <1>6, <2>1 DEF Clear, DocumentsInv, FilesInv
<1>7. CASE Replaces(p) \/ Unsynced(p)
  <2>1. files' = [files EXCEPT ![Target(doc)] = doc]
    BY <1>7 DEF Replaces, Unsynced
  <2>2. FilesInv'
    BY <1>1, <1>3, <2>1 DEF FilesInv, DocumentsInv
  <2>3. QED
    BY <1>2, <1>7, <2>2 DEF Replaces, Unsynced, SaveEnds, SaveInv, Busy
<1>8. CASE Copies(p)
  <2>1. files' = [files EXCEPT ![Target(doc)] = doc] /\ Target(doc) # path
    BY <1>8 DEF Copies
  <2>2. FilesInv'
    BY <1>1, <1>3, <2>1 DEF FilesInv, DocumentsInv
  <2>3. SaveInv(p)'
    BY <1>1, <1>8, <2>1 DEF Copies, SaveInv, Continues, Promotes, Archives, Approves
  <2>4. QED
    BY <1>2, <2>2, <2>3
<1>9. CASE Removes(p) \/ TakesBack(p)
  <2>1. FilesInv'
    BY <1>1, <1>3, <1>9 DEF Removes, TakesBack, FilesInv, DocumentsInv
  <2>2. QED
    BY <1>2, <1>9, <2>1 DEF Removes, TakesBack, SaveEnds, SaveInv, Busy
<1>10. QED
  BY <1>4, <1>5, <1>6, <1>7, <1>8, <1>9 DEF SaveAmounts

LEMMA DocumentsInit ==
  ASSUME Init
  PROVE  DocumentsInv
<1>1. PICK s \in Scenarios :
        StoreInit(s.files) /\ proc = [p \in Procs |-> Command("start", s.commands[p].kind, s.commands[p].now)]
  BY DEF Init
<1>2. Starts(s.files) /\ files = s.files
  BY <1>1, HardenAssumption DEF StoreInit
<1>3. PICK d \in Dir :
        /\ files[d] \in Document /\ Target(files[d]) = d
        /\ Unstacked(files[d]) /\ ~Overridden(files[d])
        /\ \A e \in Dir \ {d} : files[e] = Absent
  BY <1>2 DEF Starts
<1>4. files[d].status = "approved" => "approval" \in ledger
  <2>1. CASE files[d].status = "approved"
    <3>1. d = "approved" /\ files["drafts"] = Absent
      BY <1>3, <2>1, FourDirs, TargetType DEF Document
    <3>2. Find # "drafts"
      BY <3>1, FindFirst
    <3>3. QED
      BY <3>2 DEF Init
  <2>2. QED
    BY <2>1
<1>5. FilesInv
  BY <1>3, <1>4 DEF FilesInv, Sound, Overridden
<1>6. ASSUME NEW p \in Procs PROVE SaveInv(p) /\ CommandInv(p)
  BY <1>1 DEF StoreInit, Idle, Command, SaveInv, CommandInv, Busy, Holds
<1>7. QED
  BY <1>5, <1>6 DEF DocumentsInv

LEMMA DocumentsStep ==
  ASSUME TypeOK, DocumentsInv, [Next]_vars
  PROVE  DocumentsInv'
<1>1. ASSUME NEW p \in Procs, Step(p) PROVE DocumentsInv'
  <2>1. Frame(p) /\ (Amounts(p) \/ SaveAmounts(p))
    BY <1>1, StepFrame, StepAmounts, SavingIs
  <2>2. FilesInv' /\ SaveInv(p)' /\ CommandInv(p)'
    BY <2>1, SilentSound, CreatesSound, OpensSound, JudgesSound, SavesApprovedSound, SavesArchivedSound,
       SaveAmountsSound DEF Amounts
  <2>3. ledger \subseteq ledger'
    BY <2>1 DEF Amounts, Rests, Looks, Proceeds, Silent, Overrides, Creates, Opens, Judges, SavesApproved,
       SavesArchived, SaveAmounts
  <2>4. \A q \in Procs \ {p} : SaveInv(q)' /\ CommandInv(q)'
    BY <2>1, <2>3, OthersKeep DEF Frame, DocumentsInv
  <2>5. QED
    BY <2>2, <2>4 DEF DocumentsInv
<1>2. ASSUME NEW p \in Procs, Crash(p) PROVE DocumentsInv'
  <2>1. Dies(p) /\ proc'[p].pc = "over" /\ saving'[p].step = "idle"
    BY <1>2, DiesIs
  <2>2. FilesInv' /\ ledger \subseteq ledger'
    BY <2>1 DEF Dies, DocumentsInv, FilesInv
  <2>3. SaveInv(p)' /\ CommandInv(p)'
    BY <2>1 DEF SaveInv, CommandInv, Busy, Holds
  <2>4. \A q \in Procs \ {p} : proc'[q] = proc[q] /\ saving'[q] = saving[q]
    BY <2>1, BeforeStep DEF Dies
  <2>5. \A q \in Procs \ {p} : SaveInv(q)' /\ CommandInv(q)'
    BY <2>2, <2>4, OthersKeep DEF DocumentsInv
  <2>6. QED
    BY <2>2, <2>3, <2>5 DEF DocumentsInv
<1>3. CASE EditContract \/ EditNotes \/ FillObservations
  <2>1. Edits
    BY <1>3, EditsIs
  <2>2. PICK doc \in Document : Edited(doc)
    BY <2>1 DEF Edits
  <2>3. Find \in Dir /\ Sound(Visible, ledger) /\ Target(Visible) = Find /\ ledger' = ledger
    BY <2>1, VisibleIs, VisibleSound DEF Edits, DocumentsInv
  <2>4. Sound(doc, ledger) /\ Target(doc) = Find
    BY <2>2, <2>3 DEF Edited, Sound, Target
  <2>5. FilesInv'
    BY <2>2, <2>3, <2>4 DEF Edited, FilesInv, DocumentsInv, TypeOK
  <2>6. \A q \in Procs : SaveInv(q)' /\ CommandInv(q)'
    BY <2>1, OthersKeep DEF Edits, DocumentsInv
  <2>7. QED
    BY <2>5, <2>6 DEF DocumentsInv
<1>4. CASE UNCHANGED vars \/ \E p \in Procs : Cancel(p)
  <2>1. files' = files /\ ledger' = ledger /\ proc' = proc /\ saving' = saving
    BY <1>4 DEF vars, storeVars, Cancel, Quiet
  <2>2. FilesInv'
    BY <2>1 DEF DocumentsInv, FilesInv
  <2>3. \A q \in Procs : SaveInv(q)' /\ CommandInv(q)'
    BY <2>1, OthersKeep DEF DocumentsInv
  <2>4. QED
    BY <2>2, <2>3 DEF DocumentsInv
<1>5. QED
  BY <1>1, <1>2, <1>3, <1>4 DEF Next, Operator, Over

LEMMA DocumentsInvariant == Spec => [](TypeOK /\ DocumentsInv)
<1>1. Init => TypeOK /\ DocumentsInv
  BY TypeInit, DocumentsInit
<1>2. TypeOK /\ DocumentsInv /\ [Next]_vars => (TypeOK /\ DocumentsInv)'
  BY TypeStep, DocumentsStep
<1>3. QED
  BY <1>1, <1>2, PTL DEF Spec

\* However edits, commands and Saves overtake each other, no round is stacked on
\* another one for the same draft, unless that one failed.
THEOREM RoundsDoNotStack == Spec => []NoStackedRounds
<1>1. TypeOK /\ DocumentsInv => NoStackedRounds
  BY DEF TypeOK, DocumentsInv, FilesInv, Sound, NoStackedRounds
<1>2. QED
  BY <1>1, DocumentsInvariant, PTL

\* A spec never says approved, or that the gate was overridden, before the ledger
\* does, whatever is killed, interrupted or fails.
THEOREM ApprovalIsLogged == Spec => []OverrideIsLogged
<1>1. TypeOK /\ DocumentsInv => OverrideIsLogged
  BY DEF TypeOK, DocumentsInv, FilesInv, Sound, OverrideIsLogged
<1>2. QED
  BY <1>1, DocumentsInvariant, PTL

-----------------------------------------------------------------------------
(* The spec survives. *)

\* A command keeps its kind.
LEMMA KindsKept ==
  ASSUME TypeOK, [Next]_vars
  PROVE  \A p \in Procs : proc'[p].kind = proc[p].kind
<1>1. ASSUME NEW p \in Procs, Step(p) PROVE \A q \in Procs : proc'[q].kind = proc[q].kind
  <2>1. Frame(p) /\ (Amounts(p) \/ SaveAmounts(p))
    BY <1>1, StepFrame, StepAmounts, SavingIs
  <2>2. proc'[p].kind = proc[p].kind
    BY <2>1 DEF Amounts, Rests, Looks, Proceeds, Silent, Overrides, Creates, Opens, Judges, SavesApproved,
       SavesArchived, Begins, SaveAmounts
  <2>3. QED
    BY <2>1, <2>2 DEF Frame
<1>2. ASSUME NEW p \in Procs, Crash(p) PROVE \A q \in Procs : proc'[q].kind = proc[q].kind
  <2>1. Dies(p) /\ proc'[p].kind = proc[p].kind
    BY <1>2, DiesIs
  <2>2. QED
    BY <2>1, BeforeStep DEF Dies
<1>3. CASE UNCHANGED vars \/ (\E p \in Procs : Cancel(p)) \/ EditContract \/ EditNotes \/ FillObservations
  BY <1>3, EditsIs DEF vars, Cancel, Edits
<1>4. QED
  BY <1>1, <1>2, <1>3 DEF Next, Operator, Over

\* At most one command moves the spec from each directory, and its file and its
\* copy are where the two ends of the move are.
LEMMA MovesAre ==
  ASSUME TypeOK, DocumentsInv, NEW p \in Procs, Busy(p)
  PROVE  /\ saving[p].path \in Dir /\ saving[p].doc \in Document /\ saving[p].doc # Absent
         /\ Target(saving[p].doc) \in Dir
         /\ Promotes(p) => saving[p].path = "drafts" /\ Target(saving[p].doc) = "approved"
         /\ Archives(p) => saving[p].path = "approved" /\ Target(saving[p].doc) = "archive"
         /\ Target(saving[p].doc) # saving[p].path => Promotes(p) \/ Archives(p)
<1>1. saving[p].path \in Dir /\ saving[p].doc \in Document
  BY BeforeStep DEF SaveOK, SaveState
<1>2. QED
  BY <1>1, TargetType, AbsentIsNone DEF DocumentsInv, SaveInv, Promotes, Archives, Document, Target

LEMMA OneMover ==
  ASSUME ~TwoMoves, DocumentsInv, NEW p \in Procs, NEW q \in Procs, p # q
  PROVE  ~(Promotes(p) /\ Promotes(q)) /\ ~(Archiving(p) /\ Archiving(q)) /\ ~(Archiving(p) /\ Archives(q))
BY DEF TwoMoves, Promotes, Archives, Archiving, DocumentsInv, CommandInv

\* What matters of the other processes.
Still(p) ==
  \A q \in Procs \ {p} : proc'[q] = proc[q] /\ saving'[q] = saving[q]

LEMMA StillSame ==
  ASSUME NEW p \in Procs, Still(p), NEW q \in Procs \ {p}
  PROVE  /\ Busy(q)' = Busy(q) /\ Promotes(q)' = Promotes(q) /\ Archives(q)' = Archives(q)
         /\ Archiving(q)' = Archiving(q) /\ saving'[q] = saving[q]
BY DEF Still, Busy, Promotes, Archives, Archiving, Approves

\* A step that removes no file and begins or continues no move keeps the places.
LEMMA NoMove ==
  ASSUME PlacesInv, NEW p \in Procs, Still(p),
         \A d \in Dir : files[d] # Absent => files'[d] # Absent,
         (Busy(p) /\ Promotes(p))' => saving'[p].step = "read",
         Archiving(p)' => /\ ~(Busy(p)' /\ saving'[p].step = "remove")
                          /\ files["approved"] # Absent
                          /\ \A q \in Procs \ {p} : Busy(q) /\ Promotes(q) => saving[q].step \in {"read", "stat"}
  PROVE  PlacesInv'
<1>1. Somewhere'
  BY DEF PlacesInv, Somewhere
<1>2. ASSUME NEW q \in Procs PROVE PromoteInv(q)'
  <2>1. CASE q = p
    BY <2>1 DEF PromoteInv
  <2>2. CASE q # p
    BY <2>2, StillSame, FourDirs DEF PlacesInv, PromoteInv
  <2>3. QED
    BY <2>1, <2>2
<1>3. ASSUME NEW q \in Procs PROVE ArchiveInv(q)'
  <2>1. CASE q = p
    BY <2>1, StillSame, FourDirs DEF ArchiveInv
  <2>2. CASE q # p
    BY <2>2, StillSame, FourDirs DEF PlacesInv, ArchiveInv
  <2>3. QED
    BY <2>1, <2>2
<1>4. QED
  BY <1>1, <1>2, <1>3 DEF PlacesInv

\* Looking, resting and logging.
LEMMA SilentPlaces ==
  ASSUME TypeOK, DocumentsInv, PlacesInv, NEW p \in Procs, Still(p),
         Rests(p) \/ Looks(p) \/ Proceeds(p) \/ Overrides(p)
  PROVE  PlacesInv'
<1>1. files' = files /\ ~Busy(p)'
  BY DEF Rests, Looks, Proceeds, Overrides, Silent, Busy
<1>2. CASE Archiving(p)'
  <2>1. Looks(p) /\ Visible.status = "approved"
    BY <1>1, <1>2 DEF Archiving, Rests, Looks, Proceeds, Overrides, Holds
  <2>2. Find = "approved" /\ files["approved"] # Absent /\ files["drafts"] = Absent
    BY <2>1, VisibleSound, VisibleIs, FindFirst, TargetType DEF DocumentsInv, Looks, Document
  <2>3. \A q \in Procs : Busy(q) /\ Promotes(q) => saving[q].step \in {"read", "stat"}
    BY <2>2 DEF PlacesInv, PromoteInv
  <2>4. QED
    BY <1>1, <2>2, <2>3, NoMove
<1>3. CASE ~Archiving(p)'
  BY <1>1, <1>3, NoMove
<1>4. QED
  BY <1>2, <1>3

LEMMA BeginsPlaces ==
  ASSUME TypeOK, DocumentsInv, DocumentsInv', TypeOK', PlacesInv, NEW p \in Procs, Still(p),
         Opens(p) \/ Judges(p) \/ SavesApproved(p) \/ SavesArchived(p)
  PROVE  PlacesInv'
<1>1. PICK path \in Dir, doc \in Document : Begins(p, path, doc)
  BY DEF Opens, Judges, SavesApproved, SavesArchived, Begins
<1>2. files' = files /\ saving'[p].step = "read" /\ proc'[p].kind = proc[p].kind /\ proc'[p].pc \in Waits
      /\ saving'[p].path = path /\ saving'[p].doc = doc
  BY <1>1 DEF Begins
<1>3. CASE Archiving(p)'
  <2>1. proc[p].kind = "archive" /\ path = "approved" /\ doc.status = "completed"
    BY <1>2, <1>3 DEF Archiving, Archives, Waits
  <2>2. SavesArchived(p)
    <3>1. CASE Opens(p)
      <4>1. PICK by \in {"operator", "provider"} : Begins(p, Find, WithRound(Visible, by, proc[p].now))
        BY <3>1 DEF Opens
      <4>2. path = Find /\ doc = WithRound(Visible, by, proc[p].now)
        BY <1>2, <4>1 DEF Begins
      <4>3. doc.status = Visible.status /\ Target(Visible) = Find /\ Visible \in Document
        <5>1. Visible \in Document /\ Target(Visible) = Find
          BY <3>1, VisibleIs, VisibleSound DEF Opens, DocumentsInv
        <5>2. QED
          BY <4>2, <5>1 DEF WithRound, Document
      <4>4. QED
        BY <2>1, <4>2, <4>3, TargetType DEF Document
    <3>2. CASE Judges(p)
      <4>1. path = Find /\ doc.status = Visible.status
        BY <1>2, <3>2 DEF Judges, Begins
      <4>2. Visible \in Document /\ Target(Visible) = Find
        BY <3>2, VisibleIs, VisibleSound DEF Judges, DocumentsInv
      <4>3. QED
        BY <2>1, <4>1, <4>2, TargetType DEF Document
    <3>3. CASE SavesApproved(p)
      BY <2>1, <3>3 DEF SavesApproved, DocumentsInv, CommandInv, Approves
    <3>4. QED
      BY <3>1, <3>2, <3>3
  <2>3. ArchiveInv(p) /\ Archiving(p)
    BY <2>2 DEF SavesArchived, Archiving, PlacesInv
  <2>4. QED
    BY <1>2, <2>3, NoMove DEF ArchiveInv
<1>4. CASE ~Archiving(p)'
  BY <1>2, <1>4, NoMove
<1>5. QED
  BY <1>3, <1>4

\* Edits, new drafts, interrupts and crashes take no file away.
LEMMA CreatesPlaces ==
  ASSUME TypeOK, PlacesInv, NEW p \in Procs, Still(p), Creates(p)
  PROVE  PlacesInv'
<1>1. NewDraft(proc[p].now) # Absent
  BY NewDraftIs, AbsentIsNone, BeforeStep DEF CommandOK, CommandState
<1>2. \A d \in Dir : files[d] # Absent => files'[d] # Absent
  BY <1>1, BeforeStep DEF Creates
<1>3. ~Busy(p)' /\ ~Archiving(p)'
  BY DEF Creates, Busy, Archiving
<1>4. QED
  BY <1>2, <1>3, NoMove

\* The steps of a Save.
LEMMA SavePlaces ==
  ASSUME TypeOK, DocumentsInv, PlacesInv, ~TwoMoves, NEW p \in Procs, Still(p), SaveAmounts(p)
  PROVE  PlacesInv'
<1> DEFINE doc == saving[p].doc  path == saving[p].path
<1>1. /\ Busy(p) /\ proc' = proc /\ files \in [Dir -> Document \cup {Absent}]
      /\ path \in Dir /\ doc \in Document /\ doc # Absent /\ Target(doc) \in Dir
      /\ Promotes(p) => path = "drafts" /\ Target(doc) = "approved"
      /\ Archives(p) => path = "approved" /\ Target(doc) = "archive"
      /\ Target(doc) # path => Promotes(p) \/ Archives(p)
      /\ proc[p].pc # "archive"
      /\ saving[p].step \in {"stat", "remove"} => Target(doc) # path
  BY MovesAre, BeforeStep DEF SaveAmounts, Waits, DocumentsInv, SaveInv
<1> HIDE DEF doc, path
<1>2. CASE GivesUp(p)
  <2>1. ~Busy(p)' /\ ~Archiving(p)' /\ files' = files
    BY <1>1, <1>2 DEF GivesUp, SaveEnds, Busy, Archiving
  <2>2. QED
    BY <2>1, NoMove
<1>3. CASE Replaces(p) \/ Unsynced(p)
  <2>1. ~Busy(p)' /\ ~Archiving(p)'
    BY <1>1, <1>3 DEF Replaces, Unsynced, SaveEnds, Busy, Archiving
  <2>2. \A d \in Dir : files[d] # Absent => files'[d] # Absent
    BY <1>1, <1>3 DEF Replaces, Unsynced, doc, path
  <2>3. QED
    BY <2>1, <2>2, NoMove
<1>4. CASE Merges(p) \/ Clear(p)
  <2>1. /\ files' = files /\ saving'[p].path = path /\ saving'[p].doc.status = doc.status
        /\ saving'[p].step \in {"stat", "write"}
    <3>1. CASE Merges(p)
      BY <1>1, <3>1 DEF Merges, Continues, UpdateSpec, Prose, Document, doc, path
    <3>2. CASE Clear(p)
      BY <3>2 DEF Clear, Continues, doc, path
    <3>3. QED
      BY <1>4, <3>1, <3>2
  <2>2. Busy(p)' /\ Promotes(p)' = Promotes(p) /\ Archives(p)' = Archives(p) /\ Archiving(p)' = Archiving(p)
        /\ Archiving(p) = Archives(p)
    BY <1>1, <2>1 DEF Busy, Promotes, Archives, Archiving, Approves, doc, path
  <2>3. ASSUME Promotes(p)
        PROVE  /\ files["drafts"] # Absent
               /\ saving'[p].step = "write" => files["approved"] = Absent
    <3>1. CASE Merges(p)
      BY <1>1, <2>3, <3>1, AbsentIsNone DEF Merges, Continues, doc, path
    <3>2. CASE Clear(p)
      BY <1>1, <2>3, <3>2 DEF Clear, doc, path, PlacesInv, PromoteInv
    <3>3. QED
      BY <1>4, <3>1, <3>2
  <2>4. ASSUME NEW q \in Procs PROVE PromoteInv(q)'
    <3>1. CASE q = p
      BY <2>1, <2>2, <2>3, <3>1 DEF PromoteInv
    <3>2. CASE q # p
      BY <2>1, <3>2, StillSame DEF PlacesInv, PromoteInv
    <3>3. QED
      BY <3>1, <3>2
  <2>5. ASSUME NEW q \in Procs, Archiving(q)
        PROVE  /\ files["approved"] # Absent
               /\ \A r \in Procs : (Busy(r) /\ Promotes(r))' => saving'[r].step \in {"read", "stat"}
    <3>1. ArchiveInv(q)
      BY DEF PlacesInv
    <3>2. files["approved"] # Absent
      BY <2>5, <3>1 DEF ArchiveInv
    <3>3. ASSUME NEW r \in Procs, (Busy(r) /\ Promotes(r))' PROVE saving'[r].step \in {"read", "stat"}
      <4>1. CASE r = p
        BY <2>1, <2>2, <2>3, <3>2, <3>3, <4>1
      <4>2. CASE r # p
        BY <2>5, <3>1, <3>3, <4>2, StillSame DEF ArchiveInv
      <4>3. QED
        BY <4>1, <4>2
    <3>4. QED
      BY <3>2, <3>3
  <2>6. ASSUME NEW q \in Procs PROVE ArchiveInv(q)'
    <3>1. CASE q = p
      BY <2>1, <2>2, <2>5, <3>1 DEF ArchiveInv
    <3>2. CASE q # p
      BY <2>1, <2>5, <3>2, StillSame DEF PlacesInv, ArchiveInv
    <3>3. QED
      BY <3>1, <3>2
  <2>7. QED
    BY <2>1, <2>4, <2>6 DEF PlacesInv, Somewhere
<1>5. CASE Copies(p)
  <2>1. /\ files' = [files EXCEPT ![Target(doc)] = doc]
        /\ saving'[p].path = path /\ saving'[p].doc = doc /\ saving'[p].step = "remove"
        /\ saving[p].step = "write" /\ Target(doc) # path
    BY <1>5 DEF Copies, Continues, doc, path
  <2>2. Busy(p)' /\ Promotes(p)' = Promotes(p) /\ Archives(p)' = Archives(p) /\ Archiving(p)' = Archiving(p)
        /\ Archiving(p) = Archives(p)
    BY <1>1, <2>1 DEF Busy, Promotes, Archives, Archiving, Approves, doc, path
  <2>3. \A d \in Dir : (files[d] # Absent => files'[d] # Absent) /\ files'[Target(doc)] # Absent
    BY <1>1, <2>1
  <2>4. ASSUME NEW q \in Procs PROVE PromoteInv(q)'
    <3>1. CASE q = p
      BY <1>1, <2>1, <2>2, <2>3, <3>1, FourDirs DEF PromoteInv, PlacesInv
    <3>2. CASE q # p
      BY <2>3, <3>2, StillSame, FourDirs DEF PlacesInv, PromoteInv
    <3>3. QED
      BY <3>1, <3>2
  <2>5. ASSUME NEW q \in Procs, Archiving(q) PROVE ~Promotes(p)
    BY <1>1, <2>1, <2>5 DEF PlacesInv, ArchiveInv
  <2>6. ASSUME NEW q \in Procs PROVE ArchiveInv(q)'
    <3>1. CASE q = p
      BY <1>1, <2>1, <2>2, <2>3, <2>5, <3>1, StillSame, FourDirs DEF PlacesInv, ArchiveInv
    <3>2. CASE q # p
      BY <2>2, <2>3, <2>5, <3>2, StillSame, FourDirs DEF PlacesInv, ArchiveInv
    <3>3. QED
      BY <3>1, <3>2
  <2>7. QED
    BY <2>3, <2>4, <2>6 DEF PlacesInv, Somewhere
<1>6. CASE Removes(p) \/ TakesBack(p)
  <2>1. saving[p].step = "remove" /\ (Promotes(p) \/ Archives(p))
    BY <1>1, <1>6 DEF Removes, TakesBack
  <2>2. ~Busy(p)' /\ ~Archiving(p)'
    BY <1>1, <1>6 DEF Removes, TakesBack, SaveEnds, Busy, Archiving
  <2>3. /\ Removes(p) => files' = [files EXCEPT ![path] = Absent]
        /\ TakesBack(p) => files' = [files EXCEPT ![Target(doc)] = Absent]
    BY DEF Removes, TakesBack, doc, path
  <2>4. CASE Promotes(p)
    <3>1. files["drafts"] # Absent /\ files["approved"] # Absent
      BY <1>1, <2>1, <2>4 DEF PlacesInv, PromoteInv
    <3>2. Somewhere'
      BY <1>1, <1>6, <2>3, <2>4, <3>1, FourDirs DEF Somewhere
    <3>3. ASSUME NEW q \in Procs PROVE ~Archiving(q)
      BY <1>1, <2>1, <2>4 DEF PlacesInv, ArchiveInv
    <3>4. ASSUME NEW q \in Procs PROVE PromoteInv(q)' /\ ArchiveInv(q)'
      <4>1. CASE q = p
        BY <2>2, <4>1 DEF PromoteInv, ArchiveInv
      <4>2. CASE q # p
        BY <2>4, <3>3, <4>2, OneMover, StillSame DEF PromoteInv, ArchiveInv
      <4>3. QED
        BY <4>1, <4>2
    <3>5. QED
      BY <3>2, <3>4 DEF PlacesInv
  <2>5. CASE Archives(p)
    <3>1. Archiving(p) /\ ArchiveInv(p)
      BY <1>1, <2>5 DEF Archiving, PlacesInv
    <3>2. /\ files["approved"] # Absent /\ files["archive"] # Absent
          /\ \A q \in Procs : Busy(q) /\ Promotes(q) => saving[q].step \in {"read", "stat"}
      BY <1>1, <2>1, <3>1 DEF ArchiveInv
    <3>3. Somewhere'
      BY <1>1, <1>6, <2>3, <2>5, <3>2, FourDirs DEF Somewhere
    <3>4. files'["drafts"] = files["drafts"]
      BY <1>1, <1>6, <2>3, <2>5, FourDirs
    <3>5. ASSUME NEW q \in Procs PROVE PromoteInv(q)' /\ ArchiveInv(q)'
      <4>1. CASE q = p
        BY <2>2, <4>1 DEF PromoteInv, ArchiveInv
      <4>2. CASE q # p
        <5>1. ~Archiving(q)'
          BY <3>1, <4>2, OneMover, StillSame
        <5>2. (Busy(q) /\ Promotes(q))' => saving'[q].step # "remove"
          BY <3>2, <4>2, StillSame
        <5>3. PromoteInv(q)'
          BY <3>4, <4>2, <5>2, StillSame DEF PromoteInv, PlacesInv
        <5>4. QED
          BY <5>1, <5>3 DEF ArchiveInv
      <4>3. QED
        BY <4>1, <4>2
    <3>6. QED
      BY <3>3, <3>5 DEF PlacesInv
  <2>6. QED
    BY <2>1, <2>4, <2>5
<1>7. QED
  BY <1>2, <1>3, <1>4, <1>5, <1>6 DEF SaveAmounts

LEMMA PlacesInit ==
  ASSUME Init
  PROVE  PlacesInv
<1>1. PICK s \in Scenarios :
        StoreInit(s.files) /\ proc = [p \in Procs |-> Command("start", s.commands[p].kind, s.commands[p].now)]
  BY DEF Init
<1>2. Starts(s.files) /\ files = s.files
  BY <1>1, HardenAssumption DEF StoreInit
<1>3. Somewhere
  BY <1>2, AbsentIsNone DEF Starts, Somewhere
<1>4. ASSUME NEW p \in Procs PROVE ~Busy(p) /\ ~Archiving(p)
  BY <1>1 DEF StoreInit, Idle, Command, Busy, Archiving
<1>5. QED
  BY <1>3, <1>4 DEF PlacesInv, PromoteInv, ArchiveInv

LEMMA PlacesStep ==
  ASSUME TypeOK, DocumentsInv, PlacesInv, ~TwoMoves, [Next]_vars
  PROVE  PlacesInv'
<1>0. TypeOK' /\ DocumentsInv'
  BY TypeStep, DocumentsStep
<1>1. ASSUME NEW p \in Procs, Step(p) PROVE PlacesInv'
  <2>1. Frame(p) /\ (Amounts(p) \/ SaveAmounts(p))
    BY <1>1, StepFrame, StepAmounts, SavingIs
  <2>2. Still(p)
    BY <2>1 DEF Frame, Still
  <2>3. QED
    BY <1>0, <2>1, <2>2, SilentPlaces, BeginsPlaces, CreatesPlaces, SavePlaces DEF Amounts
<1>2. ASSUME NEW p \in Procs, Crash(p) PROVE PlacesInv'
  <2>1. Dies(p) /\ proc'[p].pc = "over" /\ saving'[p].step = "idle"
    BY <1>2, DiesIs
  <2>2. Still(p) /\ files' = files /\ ~Busy(p)' /\ ~Archiving(p)'
    BY <2>1, BeforeStep DEF Dies, Still, Busy, Archiving
  <2>3. QED
    BY <2>2, NoMove
<1>3. CASE EditContract \/ EditNotes \/ FillObservations
  <2>1. Edits
    BY <1>3, EditsIs
  <2>2. PICK doc \in Document : files' = [files EXCEPT ![Find] = doc]
    BY <2>1 DEF Edits, Edited
  <2>3. \A d \in Dir : files[d] # Absent => files'[d] # Absent
    BY <2>2, AbsentIsNone DEF TypeOK
  <2>4. QED
    BY <2>1, <2>3, FourDirs DEF Edits, PlacesInv, Somewhere, PromoteInv, ArchiveInv, Archiving, Busy, Promotes, Archives,
       Approves
<1>4. CASE UNCHANGED vars \/ \E p \in Procs : Cancel(p)
  <2>1. files' = files /\ proc' = proc /\ saving' = saving
    BY <1>4 DEF vars, storeVars, Cancel, Quiet
  <2>2. QED
    BY <2>1 DEF PlacesInv, Somewhere, PromoteInv, ArchiveInv, Archiving, Busy, Promotes, Archives, Approves
<1>5. QED
  BY <1>1, <1>2, <1>3, <1>4 DEF Next, Operator, Over

\* What is somewhere stays somewhere where one command at a time moves it.
LEMMA PlacesInvariant == Spec => [](TypeOK /\ DocumentsInv /\ (TwoMoves \/ PlacesInv))
<1> DEFINE Inv == TypeOK /\ DocumentsInv /\ (TwoMoves \/ PlacesInv)
<1>1. Init => Inv
  BY TypeInit, DocumentsInit, PlacesInit
<1>2. Inv /\ [Next]_vars => Inv'
  <2> SUFFICES ASSUME Inv, [Next]_vars PROVE Inv'
    OBVIOUS
  <2>1. TypeOK' /\ DocumentsInv'
    BY TypeStep, DocumentsStep
  <2>2. TwoMoves => TwoMoves'
    BY KindsKept DEF TwoMoves, Approves
  <2>3. ~TwoMoves => PlacesInv'
    BY PlacesStep
  <2>4. QED
    BY <2>1, <2>2, <2>3
<1>3. QED
  BY <1>1, <1>2, PTL DEF Spec

\* Whatever is killed, interrupted or fails in the middle of a move, the task keeps
\* a spec that a command can find, for any commands of which no two approve and no
\* two archive.
THEOREM SpecIsKept == Spec => []SpecSurvives
<1>1. TwoMoves \/ PlacesInv => SpecSurvives
  BY FindFirst DEF SpecSurvives, PlacesInv, Somewhere
<1>2. QED
  BY <1>1, PlacesInvariant, PTL

-----------------------------------------------------------------------------
(* Rounds are closed. *)

\* A Save of a round that a provider was started on is the one that opened it.
OpenedBy(p) ==
  Busy(p) /\ LeftOpen(saving[p].doc) /\ Target(saving[p].doc) = "drafts" =>
    /\ proc[p].pc = "opened" /\ saving[p].path = "drafts"
    /\ proc[p].round = LatestRound(saving[p].doc).id

\* The Save of p replaces the draft by one without an open round.
Closes(p) ==
  /\ saving[p].step \in {"read", "write"} /\ saving[p].path = "drafts"
  /\ Target(saving[p].doc) = "drafts" /\ ~LeftOpen(saving[p].doc)

\* The open round of the draft is the one that p still has to judge or close, or
\* p is about to write the draft that closes it.
Judging(p) ==
  /\ proc[p].round = LatestRound(files["drafts"]).id
  /\ \/ proc[p].pc = "opened" /\ Saved(p)
     \/ proc[p].pc \in {"check", "invoke", "reload", "record", "close"}
     \/ proc[p].pc = "recorded" /\ (SaveFailed(p) \/ Closes(p))

Closing(p) ==
  /\ proc[p].pc = "ended" /\ Closes(p) /\ saving[p].terminal
  /\ saving[p].step = "read" => SamePhaseShape(files["drafts"], saving[p].doc)

Owns(p) == Judging(p) \/ Closing(p)

\* As long as no write fails and no edit falls between a load and its write, an
\* open round in the draft has an owner.
OpenDraft == files["drafts"] # Absent /\ LeftOpen(files["drafts"])
Undisturbed == faults = 0 /\ ~overlapped

ClosedInv ==
  /\ \A p \in Procs : OpenedBy(p)
  /\ Undisturbed /\ OpenDraft => \E p \in Procs : Owns(p)

\* The draft is a spec, and it is what a command finds.
LEMMA DraftIsVisible ==
  ASSUME TypeOK, OpenDraft
  PROVE  /\ Find = "drafts" /\ Visible = files["drafts"] /\ Visible \in Document /\ HasRound(Visible)
         /\ LatestRound(Visible) \in Round
<1>1. Find = "drafts" /\ Visible = files["drafts"]
  BY FindFirst DEF OpenDraft, Visible
<1>2. Visible \in Document
  BY <1>1, VisibleIs
<1>3. HasRound(Visible)
  BY <1>1 DEF OpenDraft, LeftOpen
<1>4. QED
  BY <1>1, <1>2, <1>3, LatestType

\* The command of p goes on with the same round.
LEMMA JudgingGoesOn ==
  ASSUME TypeOK, NEW p \in Procs, Judging(p), files' = files,
         proc'[p].pc \in {"check", "invoke", "reload", "record", "close"}, proc'[p].round = proc[p].round
  PROVE  Owns(p)'
BY DEF Owns, Judging

LEMMA WaitsAre ==
  ASSUME TypeOK, NEW p \in Procs, Step(p), proc[p].pc \notin Waits
  PROVE  ~Saving(p)
<1>1. ~Busy(p)
  BY BeforeStep
<1>2. QED
  BY <1>1, SavingIs DEF SaveAmounts

\* Before the round is recorded, its owner keeps it.
LEMMA HardenKeepsRound ==
  ASSUME TypeOK, NEW p \in Procs, HardenPacket(p) \/ HardenCheck(p) \/ HardenInvoke(p) \/ HardenReload(p),
         ~SaveFailed(p) \/ proc[p].pc # "opened"
  PROVE  /\ files' = files
         /\ proc'[p].pc \in {"check", "invoke", "reload", "record", "close"} /\ proc'[p].round = proc[p].round
<1>1. proc[p] \in CommandState /\ proc \in [Procs -> CommandState]
  BY BeforeStep
<1>2. files' = files
  BY DEF HardenPacket, HardenCheck, HardenInvoke, HardenReload, Unsaved
<1>3. ASSUME NEW pc \in {"check", "invoke", "reload", "record", "close"}, Goes(p, pc)
      PROVE  proc'[p].pc = pc /\ proc'[p].round = proc[p].round
  <2>1. proc'[p] = [proc[p] EXCEPT !.pc = pc]
    BY <1>1, <1>3 DEF Goes
  <2>2. QED
    BY <1>1, <2>1 DEF CommandState
<1>4. CASE HardenPacket(p)
  <2>1. CASE Sourced(p, "check")
    <3>1. proc'[p] = [proc[p] EXCEPT !.pc = "check", !.path = Find, !.doc = Visible]
      BY <1>1, <2>1 DEF Sourced
    <3>2. proc'[p].pc = "check" /\ proc'[p].round = proc[p].round
      BY <1>1, <3>1 DEF CommandState
    <3>3. QED
      BY <1>2, <3>2
  <2>2. QED
    BY <1>2, <1>3, <1>4, <2>1 DEF HardenPacket, At
<1>5. CASE HardenCheck(p)
  BY <1>2, <1>3, <1>5 DEF HardenCheck
<1>6. CASE HardenInvoke(p)
  <2>1. ASSUME NEW dossier, proc' = [proc EXCEPT ![p].pc = "reload", ![p].dossier = dossier]
        PROVE  proc'[p].pc = "reload" /\ proc'[p].round = proc[p].round
    <3>1. proc'[p] = [proc[p] EXCEPT !.pc = "reload", !.dossier = dossier]
      BY <1>1, <2>1
    <3>2. QED
      BY <1>1, <3>1 DEF CommandState
  <2>2. QED
    BY <1>2, <1>3, <1>6, <2>1 DEF HardenInvoke
<1>7. CASE HardenReload(p)
  BY <1>2, <1>3, <1>7 DEF HardenReload
<1>8. QED
  BY <1>4, <1>5, <1>6, <1>7

\* The round is recorded in the draft that has it.
LEMMA RecordKeepsRound ==
  ASSUME TypeOK, DocumentsInv, OpenDraft, NEW p \in Procs, Judging(p), Record(p)
  PROVE  Owns(p)'
<1>1. Find = "drafts" /\ Visible = files["drafts"] /\ Visible \in Document /\ HasRound(Visible)
      /\ Target(Visible) = "drafts"
  BY DraftIsVisible, VisibleSound DEF DocumentsInv
<1>2. IsMine(p) /\ proc[p].pc = "record" /\ CommandOK(proc[p])
  BY <1>1, BeforeStep DEF Record, Judging, IsMine
<1> DEFINE doc == RecordedDossier(Visible, proc[p].dossier, proc[p].doc.contract, proc[p].kind, proc[p].now)
<1>3. /\ proc[p].dossier \in Answers /\ proc[p].doc.contract \in Contract
      /\ proc[p].kind \in Answerers /\ proc[p].now \in Nat
  BY <1>2 DEF CommandOK, CommandState, Holds, Document, Answers, Answerers
<1>4. doc \in Document /\ doc.status = Visible.status /\ ~LeftOpen(doc)
  BY <1>1, <1>3, RecordedIs
<1>5. saving' = [saving EXCEPT ![p] = [step |-> "read", path |-> "drafts", doc |-> doc, terminal |-> TRUE]]
      /\ Goes(p, "recorded") /\ files' = files
  BY <1>1, <1>2 DEF Record, Saves, Save
<1> HIDE DEF doc
<1>6. Target(doc) = "drafts"
  BY <1>1, <1>4 DEF Target
<1>7. saving'[p] = [step |-> "read", path |-> "drafts", doc |-> doc, terminal |-> TRUE]
  BY <1>5, BeforeStep
<1>8. proc'[p].pc = "recorded" /\ proc'[p].round = proc[p].round
  BY <1>5, GoesType DEF Waits, Holds
<1>9. QED
  BY <1>4, <1>5, <1>6, <1>7, <1>8 DEF Owns, Judging, Closes

\* So it is closed.
LEMMA CloseKeepsRound ==
  ASSUME TypeOK, DocumentsInv, OpenDraft, NEW p \in Procs, Judging(p), Close(p)
  PROVE  Owns(p)'
<1>1. Find = "drafts" /\ Visible = files["drafts"] /\ Visible \in Document /\ HasRound(Visible)
      /\ Target(Visible) = "drafts"
  BY DraftIsVisible, VisibleSound DEF DocumentsInv
<1>2. IsMine(p) /\ proc[p].pc = "close" /\ proc[p].now \in Nat
  BY <1>1, BeforeStep DEF Close, Judging, IsMine, CommandOK, CommandState
<1> DEFINE doc == Errored(Visible, proc[p].now)
<1>3. doc \in Document /\ doc.status = Visible.status /\ doc.contract = Visible.contract /\ LatestRound(doc).status = "error"
  BY <1>1, <1>2, ErroredIs
<1>4. saving' = [saving EXCEPT ![p] = [step |-> "read", path |-> "drafts", doc |-> doc, terminal |-> TRUE]]
      /\ Goes(p, "ended") /\ files' = files
  BY <1>1, <1>2 DEF Close, Saves, Save
<1> HIDE DEF doc
<1>5. ~LeftOpen(doc) /\ Target(doc) = "drafts" /\ SamePhaseShape(Visible, doc)
  BY <1>1, <1>3 DEF LeftOpen, Target, SamePhaseShape
<1>6. saving'[p] = [step |-> "read", path |-> "drafts", doc |-> doc, terminal |-> TRUE]
  BY <1>4, BeforeStep
<1>7. proc'[p].pc = "ended"
  BY <1>4, GoesType DEF Waits, Holds
<1>8. QED
  BY <1>1, <1>4, <1>5, <1>6, <1>7 DEF Owns, Closing, Closes

\* A Save of the owner closes the round, or fails and leaves it to the command.
LEMMA OwnerSaves ==
  ASSUME TypeOK, OpenDraft, NEW p \in Procs, Owns(p), Saving(p), faults' = 0
  PROVE  ~OpenDraft' \/ Owns(p)'
<1>1. Busy(p) /\ proc' = proc
  BY SavingIs DEF SaveAmounts
<1>2. proc[p].pc \in Waits /\ saving[p] \in SaveState /\ saving \in [Procs -> SaveState] /\ saving[p].doc \in Document
      /\ faults \in Nat
  BY <1>1, BeforeStep DEF SaveOK, SaveState
<1>3. proc[p].pc \in {"recorded", "ended"} /\ Closes(p)
  BY <1>1, <1>2 DEF Owns, Judging, Closing, Busy, Saved, SaveFailed, Waits
<1>4. proc[p].pc = "recorded" => proc[p].round = LatestRound(files["drafts"]).id
  BY <1>3 DEF Owns, Judging, Closing
<1>5. proc[p].pc = "ended" =>
        /\ saving[p].terminal
        /\ saving[p].step = "read" => SamePhaseShape(files["drafts"], saving[p].doc)
  BY <1>3 DEF Owns, Judging, Closing
<1>6. ASSUME files' = files, Returns(p, "failed"), proc[p].pc = "recorded"
      PROVE  Owns(p)'
  <2>1. saving'[p].step = "failed"
    BY <1>6, ReturnsType
  <2>2. QED
    BY <1>1, <1>4, <1>6, <2>1 DEF Owns, Judging, SaveFailed
<1>7. CASE SaveRead(p)
  <2>1. saving[p].step = "read" /\ files' = files
    BY <1>7 DEF SaveRead
  <2>2. CASE Returns(p, "failed") /\ proc[p].pc = "recorded"
    BY <1>6, <2>1, <2>2
  <2>3. CASE ~(Returns(p, "failed") /\ proc[p].pc = "recorded")
    <3> DEFINE merged == UpdateSpec(files["drafts"], saving[p].doc)
    <3>1. saving' = [saving EXCEPT ![p].step = "write", ![p].doc = merged]
      BY <1>3, <1>5, <1>7, <2>1, <2>3 DEF SaveRead, Closes, OpenDraft
    <3>2. files["drafts"] \in Document
      BY DraftIsVisible
    <3>3. merged \in Document /\ merged.rounds = saving[p].doc.rounds /\ merged.status = saving[p].doc.status
      BY <1>2, <3>2 DEF UpdateSpec, Prose, Document
    <3> HIDE DEF merged
    <3>4. saving'[p] = [saving[p] EXCEPT !.step = "write", !.doc = merged]
      BY <1>2, <3>1
    <3>5. saving'[p].step = "write" /\ saving'[p].doc = merged /\ saving'[p].path = saving[p].path
          /\ saving'[p].terminal = saving[p].terminal
      BY <1>2, <3>4 DEF SaveState
    <3>6. ~LeftOpen(merged) /\ Target(merged) = "drafts"
      BY <1>2, <1>3, <3>3, RoundsKept DEF Closes, Target
    <3>7. Closes(p)'
      BY <1>3, <3>5, <3>6 DEF Closes
    <3>8. QED
      BY <1>1, <1>3, <1>4, <1>5, <2>1, <3>5, <3>7 DEF Owns, Judging, Closing
  <2>4. QED
    BY <2>2, <2>3
<1>8. CASE SaveWrite(p)
  <2>1. files' = [files EXCEPT !["drafts"] = saving[p].doc]
    BY <1>3, <1>8 DEF SaveWrite, Closes
  <2>2. files'["drafts"] = saving[p].doc
    BY <2>1, FourDirs, BeforeStep
  <2>3. QED
    BY <1>3, <2>2 DEF OpenDraft, Closes
<1>9. CASE SaveWriteFails(p)
  BY <1>2, <1>3, <1>6, <1>9 DEF SaveWriteFails
<1>10. QED
  BY <1>3, <1>7, <1>8, <1>9 DEF Saving, SaveStep, SaveStat, SaveRemove, Closes

\* A step of the owner leaves the round with it, or closed.
LEMMA OwnerSteps ==
  ASSUME TypeOK, DocumentsInv, OpenDraft, NEW p \in Procs, Owns(p), Step(p), faults' = 0
  PROVE  ~OpenDraft' \/ Owns(p)'
<1>1. CASE Saving(p)
  BY <1>1, OwnerSaves
<1>2. CASE ~Saving(p) /\ Judging(p)
  <2>1. proc[p].pc \in {"opened", "check", "invoke", "reload", "record", "close", "recorded"}
    BY <1>2 DEF Judging
  <2>2. \/ HardenPacket(p) \/ HardenCheck(p) \/ HardenInvoke(p) \/ HardenReload(p)
        \/ Record(p) \/ Recorded(p) \/ Close(p)
    BY <1>2, <2>1 DEF Step, At, Refuses, HardenStart, HardenVerify, RepairPacket, Ends, OpenRound, MarkPassed,
       LoadAndSave, ArchiveLoad, ArchiveSpec, ApproveLoad, ApproveOverride, ApproveSave, PlanLook, PlanCreate
  <2>3. CASE HardenPacket(p) \/ HardenCheck(p) \/ HardenInvoke(p) \/ HardenReload(p)
    <3>1. ~SaveFailed(p) \/ proc[p].pc # "opened"
      BY <1>2 DEF Judging, Saved, SaveFailed
    <3>2. QED
      BY <1>2, <2>3, <3>1, HardenKeepsRound, JudgingGoesOn
  <2>4. CASE Record(p)
    BY <1>2, <2>4, RecordKeepsRound
  <2>5. CASE Close(p)
    BY <1>2, <2>5, CloseKeepsRound
  <2>6. CASE Recorded(p)
    <3>1. proc[p].pc = "recorded" /\ files' = files
      BY <2>6 DEF Recorded, Unsaved
    <3>2. SaveFailed(p) \/ Closes(p)
      BY <1>2, <3>1 DEF Judging
    <3>3. Goes(p, "close")
      BY <2>6, <3>2 DEF Recorded, Saved, SaveFailed, Closes
    <3>4. proc'[p].pc = "close" /\ proc'[p].round = proc[p].round
      BY <3>3, GoesType DEF Holds
    <3>5. QED
      BY <1>2, <3>1, <3>4, JudgingGoesOn
  <2>7. QED
    BY <2>2, <2>3, <2>4, <2>5, <2>6
<1>3. CASE ~Saving(p) /\ Closing(p)
  <2>1. proc[p].pc = "ended" /\ saving[p].step \in {"read", "write"}
    BY <1>3 DEF Closing, Closes
  <2>2. QED
    BY <1>3, <2>1 DEF Step, At, Refuses, HardenStart, HardenVerify, HardenPacket, HardenCheck, HardenInvoke,
       HardenReload, RepairPacket, Record, Recorded, Close, Ends, OpenRound, MarkPassed, LoadAndSave, ArchiveLoad,
       ArchiveSpec, ApproveLoad, ApproveOverride, ApproveSave, PlanLook, PlanCreate, Saved, SaveFailed, Approves
<1>4. QED
  BY <1>1, <1>2, <1>3 DEF Owns

\* Only the command that opened a round for a provider saves it.
LEMMA OpenedStep ==
  ASSUME TypeOK, DocumentsInv, NEW p \in Procs, OpenedBy(p), Amounts(p) \/ SaveAmounts(p)
  PROVE  OpenedBy(p)'
<1>1. CASE Rests(p) \/ Looks(p) \/ Proceeds(p) \/ Overrides(p) \/ Creates(p)
  BY <1>1 DEF Rests, Looks, Proceeds, Silent, Overrides, Creates, OpenedBy, Busy
<1>2. CASE Opens(p)
  <2> DEFINE now == proc[p].now
  <2>1. PICK by \in {"operator", "provider"} :
          /\ Begins(p, Find, WithRound(Visible, by, now))
          /\ by = "provider" => proc'[p].pc = "opened" /\ proc'[p].round = NextRoundID(Visible)
    BY <1>2 DEF Opens
  <2>2. Visible \in Document /\ Target(Visible) = Find /\ now \in Nat
    BY <1>2, VisibleIs, VisibleSound, BeforeStep DEF DocumentsInv, Opens, CommandOK, CommandState
  <2> DEFINE doc == WithRound(Visible, by, now)
  <2>3. LatestRound(doc).id = NextRoundID(Visible) /\ LatestRound(doc).by = by /\ doc.status = Visible.status
    BY <2>2, WithRoundIs, ZenonT(60)
  <2> HIDE DEF doc, now
  <2>4. saving'[p].path = Find /\ saving'[p].doc = doc /\ Target(doc) = Find
    BY <2>1, <2>2, <2>3 DEF Begins, doc, Target
  <2>5. LeftOpen(doc) => by = "provider"
    BY <2>3 DEF LeftOpen
  <2>6. QED
    BY <2>1, <2>3, <2>4, <2>5 DEF OpenedBy
<1>3. CASE Judges(p)
  BY <1>3 DEF Judges, Begins, OpenedBy
<1>4. CASE SavesApproved(p) \/ SavesArchived(p)
  <2>1. saving'[p].doc \in Document /\ saving'[p].doc.status \in {"approved", "completed"}
    <3>1. proc[p].pc \in {"approval", "archive"} /\ proc[p].doc \in Document /\ proc[p].now \in Nat
      BY <1>4, BeforeStep DEF SavesApproved, SavesArchived, CommandOK, CommandState, Holds
    <3>2. Approved(proc[p].doc, proc[p].now).status = "approved"
      BY <3>1, ApprovedIs
    <3>3. QED
      BY <1>4, <3>1, <3>2 DEF SavesApproved, SavesArchived, Begins, Document
  <2>2. Target(saving'[p].doc) # "drafts"
    BY <2>1 DEF Target
  <2>3. QED
    BY <2>2 DEF OpenedBy
<1>5. CASE SaveAmounts(p)
  <2>1. proc' = proc /\ Busy(p) /\ saving[p].doc \in Document
    BY <1>5, BeforeStep DEF SaveAmounts, SaveOK, SaveState
  <2>2. CASE Merges(p)
    <3> DEFINE merged == UpdateSpec(files[saving[p].path], saving[p].doc)
    <3>1. saving'[p].doc = merged /\ saving'[p].path = saving[p].path /\ merged \in Document
      BY <2>2 DEF Merges, Continues
    <3>2. merged.rounds = saving[p].doc.rounds /\ merged.status = saving[p].doc.status
      BY <2>1 DEF UpdateSpec, Prose, Document
    <3> HIDE DEF merged
    <3>3. LeftOpen(merged) = LeftOpen(saving[p].doc) /\ Target(merged) = Target(saving[p].doc)
          /\ LatestRound(merged) = LatestRound(saving[p].doc)
      BY <2>1, <3>1, <3>2, RoundsKept DEF Target, LatestRound
    <3>4. QED
      BY <2>1, <3>1, <3>3 DEF OpenedBy
  <2>3. CASE Clear(p) \/ Copies(p)
    BY <2>1, <2>3 DEF Clear, Copies, Continues, OpenedBy
  <2>4. CASE GivesUp(p) \/ Replaces(p) \/ Unsynced(p) \/ Removes(p) \/ TakesBack(p)
    BY <2>4 DEF GivesUp, Replaces, Unsynced, Removes, TakesBack, SaveEnds, OpenedBy, Busy
  <2>5. QED
    BY <1>5, <2>2, <2>3, <2>4 DEF SaveAmounts
<1>6. QED
  BY <1>1, <1>2, <1>3, <1>4, <1>5 DEF Amounts

\* As long as nothing has failed, a step changes the draft only to close its round,
\* to take it away, or to save a round the same command opened.
LEMMA DraftChanges ==
  ASSUME TypeOK, DocumentsInv, NEW p \in Procs, OpenedBy(p), Amounts(p) \/ SaveAmounts(p), faults' = 0
  PROVE  files'["drafts"] = files["drafts"] \/ ~OpenDraft' \/ Owns(p)'
<1>0. files \in [Dir -> Document \cup {Absent}] /\ "drafts" \in Dir
  BY BeforeStep, FourDirs
<1>1. CASE Amounts(p) /\ ~Creates(p)
  BY <1>1 DEF Amounts, Rests, Looks, Proceeds, Silent, Overrides, Opens, Judges, SavesApproved, SavesArchived, Begins
<1>2. CASE Creates(p)
  <2> DEFINE doc == NewDraft(proc[p].now)
  <2>1. ~LeftOpen(doc)
    BY NewDraftIs, BeforeStep DEF CommandOK, CommandState
  <2> HIDE DEF doc
  <2>2. files'["drafts"] = doc
    BY <1>0, <1>2 DEF Creates, doc
  <2>3. QED
    BY <2>1, <2>2 DEF OpenDraft
<1>3. CASE SaveAmounts(p)
  <2>1. proc' = proc /\ Busy(p)
    BY <1>3 DEF SaveAmounts
  <2>2. CASE Merges(p) \/ Clear(p) \/ GivesUp(p)
    BY <2>2 DEF Merges, Clear, GivesUp
  <2>3. CASE Replaces(p)
    <3>1. files' = [files EXCEPT ![saving[p].path] = saving[p].doc] /\ Target(saving[p].doc) = saving[p].path
          /\ saving'[p].step = "done"
      BY <2>3 DEF Replaces
    <3>2. CASE saving[p].path # "drafts"
      BY <1>0, <3>1, <3>2
    <3>3. CASE saving[p].path = "drafts" /\ ~LeftOpen(saving[p].doc)
      BY <1>0, <3>1, <3>3 DEF OpenDraft
    <3>4. CASE saving[p].path = "drafts" /\ LeftOpen(saving[p].doc)
      <4>1. files'["drafts"] = saving[p].doc
        BY <1>0, <3>1, <3>4
      <4>2. proc[p].pc = "opened" /\ proc[p].round = LatestRound(saving[p].doc).id
        BY <2>1, <3>1, <3>4 DEF OpenedBy
      <4>3. QED
        BY <2>1, <3>1, <4>1, <4>2 DEF Owns, Judging, Saved
    <3>5. QED
      BY <3>2, <3>3, <3>4
  <2>4. CASE Copies(p)
    <3>1. files' = [files EXCEPT ![Target(saving[p].doc)] = saving[p].doc] /\ Target(saving[p].doc) # saving[p].path
      BY <2>4 DEF Copies
    <3>2. CASE Target(saving[p].doc) # "drafts"
      BY <1>0, <3>1, <3>2
    <3>3. CASE Target(saving[p].doc) = "drafts"
      <4>1. ~LeftOpen(saving[p].doc)
        BY <2>1, <3>1, <3>3 DEF OpenedBy
      <4>2. QED
        BY <1>0, <3>1, <3>3, <4>1 DEF OpenDraft
    <3>4. QED
      BY <3>2, <3>3
  <2>5. CASE Removes(p) \/ TakesBack(p)
    BY <1>0, <2>5 DEF Removes, TakesBack, OpenDraft
  <2>6. ~Unsynced(p)
    BY BeforeStep DEF Unsynced
  <2>7. QED
    BY <1>3, <2>2, <2>3, <2>4, <2>5, <2>6 DEF SaveAmounts
<1>4. QED
  BY <1>1, <1>2, <1>3

\* An edit leaves the round of the draft, and the shape of its phases unless it is
\* seen to overlap a Save.
LEMMA EditKeepsRound ==
  ASSUME TypeOK, EditContract \/ EditNotes \/ FillObservations, OpenDraft'
  PROVE  /\ OpenDraft /\ LatestRound(files'["drafts"]).id = LatestRound(files["drafts"]).id
         /\ overlapped' \/ SamePhaseShape(files["drafts"], files'["drafts"]) \/ \A p \in Procs : ~Busy(p)
<1>1. Find # "none" /\ Find \in Dir /\ Visible \in Document
  <2>1. Find # "none"
    BY DEF EditContract, EditNotes, FillObservations
  <2>2. QED
    BY <2>1, VisibleIs
<1>2. edits \in [contract : Nat, notes : Nat, filled : Nat] /\ files \in [Dir -> Document \cup {Absent}] /\ "drafts" \in Dir
  BY FourDirs DEF TypeOK
<1>3. Find = "drafts"
  <2>1. CASE EditNotes
    <3>1. files' = [files EXCEPT ![Find] = [Visible EXCEPT !.notes = edits.notes + 1]]
      BY <2>1 DEF EditNotes, Writes
    <3>2. Find # "drafts" => files'["drafts"] = files["drafts"]
      BY <1>2, <3>1
    <3>3. QED
      BY <3>2, FindFirst DEF OpenDraft
  <2>2. QED
    BY <2>1 DEF EditContract, FillObservations
<1>4. Visible = files["drafts"] /\ files["drafts"] # Absent
  BY <1>1, <1>3, FindFirst DEF Visible
<1>5. ASSUME NEW doc \in Document, files' = [files EXCEPT !["drafts"] = doc],
             LeftOpen(doc) => LeftOpen(Visible) /\ LatestRound(doc).id = LatestRound(Visible).id
      PROVE  OpenDraft /\ LatestRound(files'["drafts"]).id = LatestRound(files["drafts"]).id /\ files'["drafts"] = doc
  BY <1>2, <1>4, <1>5 DEF OpenDraft
<1>6. CASE EditContract
  <2>1. PICK shape \in {Visible.contract.shape, Visible.contract.shape + 1} :
          Writes([Visible EXCEPT !.contract = [text |-> Visible.contract.text + 1, shape |-> shape]], Stale)
    BY <1>6 DEF EditContract
  <2> DEFINE contract == [text |-> Visible.contract.text + 1, shape |-> shape]
             doc == [Visible EXCEPT !.contract = contract]
  <2>2. contract \in Contract
    BY <1>1, <1>2 DEF Document, Contract
  <2>3. Writes(doc, Stale)
    BY <2>1
  <2> HIDE DEF contract
  <2>4. doc \in Document /\ doc.rounds = Visible.rounds
    BY <1>1, <2>2 DEF Document
  <2> HIDE DEF doc
  <2>5. LeftOpen(doc) = LeftOpen(Visible) /\ LatestRound(doc) = LatestRound(Visible)
    BY <1>1, <2>4, RoundsKept DEF LatestRound
  <2>6. overlapped' \/ \A p \in Procs : ~Busy(p)
    <3>1. overlapped' = (overlapped \/ Stale)
      BY <2>3 DEF Writes
    <3>2. Stale \/ \A p \in Procs : ~Busy(p)
      BY Zenon DEF Stale
    <3>3. QED
      BY <3>1, <3>2, Zenon
  <2>7. QED
    BY <1>3, <1>5, <2>3, <2>4, <2>5, <2>6 DEF Writes
<1>7. CASE EditNotes
  <2> DEFINE doc == [Visible EXCEPT !.notes = edits.notes + 1]
  <2>1. files' = [files EXCEPT !["drafts"] = doc]
    BY <1>3, <1>7 DEF EditNotes, Writes
  <2>2. doc \in Document /\ doc.rounds = Visible.rounds /\ doc.contract = Visible.contract
    BY <1>1, <1>2 DEF Document
  <2> HIDE DEF doc
  <2>3. LeftOpen(doc) = LeftOpen(Visible) /\ LatestRound(doc) = LatestRound(Visible)
    BY <1>1, <2>2, RoundsKept DEF LatestRound
  <2>4. QED
    BY <1>4, <1>5, <2>1, <2>2, <2>3 DEF SamePhaseShape
<1>8. CASE FillObservations
  <2>1. PICK obs \in {"ok", "open", "bad"} :
          files' = [files EXCEPT !["drafts"] = [Visible EXCEPT !.rounds[Len(Visible.rounds)].obs = obs]]
    BY <1>3, <1>8 DEF FillObservations, Writes
  <2> DEFINE doc == [Visible EXCEPT !.rounds[Len(Visible.rounds)].obs = obs]
  <2>2. /\ doc \in Document /\ doc.contract = Visible.contract
        /\ LatestRound(doc).id = LatestRound(Visible).id /\ LeftOpen(doc) = LeftOpen(Visible)
    BY <1>1, <1>8, FilledIs DEF FillObservations, Keeps
  <2>3. files' = [files EXCEPT !["drafts"] = doc]
    BY <2>1
  <2> HIDE DEF doc
  <2>4. QED
    BY <1>4, <1>5, <2>2, <2>3 DEF SamePhaseShape
<1>9. QED
  BY <1>6, <1>7, <1>8

\* So it leaves the round with its owner.
LEMMA EditKeepsOwner ==
  ASSUME TypeOK, EditContract \/ EditNotes \/ FillObservations, OpenDraft', ~overlapped', NEW p \in Procs, Owns(p)
  PROVE  Owns(p)'
<1>1. proc' = proc /\ saving' = saving
  BY EditsIs DEF Edits
<1>2. LatestRound(files'["drafts"]).id = LatestRound(files["drafts"]).id
  BY EditKeepsRound
<1>3. SamePhaseShape(files["drafts"], files'["drafts"]) \/ \A q \in Procs : ~Busy(q)
  BY EditKeepsRound
<1>4. CASE Judging(p)
  BY <1>1, <1>2, <1>4 DEF Owns, Judging, Closes, Saved, SaveFailed
<1>5. CASE Closing(p)
  <2>1. Busy(p)
    BY <1>5 DEF Closing, Closes, Busy
  <2>2. SamePhaseShape(files["drafts"], files'["drafts"])
    BY <1>3, <2>1
  <2>3. QED
    BY <1>1, <1>5, <2>2 DEF Owns, Closing, Closes, SamePhaseShape
<1>6. QED
  BY <1>4, <1>5 DEF Owns

\* Failures are counted, and an overlap is remembered.
LEMMA StaysDisturbed ==
  ASSUME TypeOK, [Next]_vars, Undisturbed'
  PROVE  Undisturbed /\ \A p \in Procs : ~Crash(p)
<1>1. faults \in Nat
  BY DEF TypeOK, StoreTypeOK
<1>2. ASSUME NEW p \in Procs, Step(p) PROVE overlapped' = overlapped /\ (faults' = faults \/ faults' = faults + 1)
  <2>1. Frame(p) /\ (Amounts(p) \/ Saving(p))
    BY <1>2, StepFrame, StepAmounts
  <2>2. CASE Amounts(p)
    BY <2>1, <2>2 DEF Frame, Amounts, Rests, Looks, Proceeds, Silent, Overrides, Creates, Opens, Judges,
       SavesApproved, SavesArchived, Begins
  <2>3. CASE Saving(p)
    BY <2>1, <2>3 DEF Frame, Saving, SaveStep, SaveRead, SaveStat, SaveWrite, SaveWriteFails, SaveRemove
  <2>4. QED
    BY <2>1, <2>2, <2>3
<1>3. ASSUME NEW p \in Procs, Crash(p) PROVE faults' = faults + 1
  BY <1>3 DEF Crash
<1>4. CASE EditContract \/ EditNotes \/ FillObservations
  <2>1. faults' = faults /\ (~overlapped' => ~overlapped)
    <3>1. faults' = faults
      BY <1>4, EditsIs
    <3>2. overlapped' = (overlapped \/ Stale) \/ overlapped' = (overlapped \/ Merged)
      BY <1>4 DEF EditContract, EditNotes, FillObservations, Writes
    <3>3. QED
      BY <3>1, <3>2, Zenon
  <2>2. QED
    BY <1>1, <1>3, <2>1 DEF Undisturbed
<1>5. CASE UNCHANGED vars \/ \E p \in Procs : Cancel(p)
  BY <1>1, <1>3, <1>5 DEF vars, storeVars, Cancel, Quiet, Undisturbed
<1>6. ASSUME NEW p \in Procs, Step(p) PROVE Undisturbed /\ \A q \in Procs : ~Crash(q)
  BY <1>1, <1>2, <1>3, <1>6 DEF Undisturbed
<1>7. ASSUME NEW p \in Procs, Crash(p) PROVE FALSE
  BY <1>1, <1>3, <1>7 DEF Undisturbed
<1>8. QED
  BY <1>4, <1>5, <1>6, <1>7 DEF Next, Operator, Over

LEMMA ClosedInit ==
  ASSUME Init
  PROVE  ClosedInv
<1>1. PICK s \in Scenarios : StoreInit(s.files)
  BY DEF Init
<1>2. Starts(s.files) /\ files = s.files
  BY <1>1, HardenAssumption DEF StoreInit
<1>3. PICK d \in Dir : ~LeftOpen(files[d]) /\ \A e \in Dir \ {d} : files[e] = Absent
  BY <1>2 DEF Starts
<1>4. ~OpenDraft
  BY <1>3, FourDirs DEF OpenDraft
<1>5. \A p \in Procs : OpenedBy(p)
  BY <1>1 DEF StoreInit, Idle, OpenedBy, Busy
<1>6. QED
  BY <1>4, <1>5 DEF ClosedInv

LEMMA ClosedStep ==
  ASSUME TypeOK, DocumentsInv, ClosedInv, [Next]_vars
  PROVE  ClosedInv'
<1>1. ASSUME NEW p \in Procs, Step(p) PROVE ClosedInv'
  <2>1. Frame(p) /\ (Amounts(p) \/ SaveAmounts(p))
    BY <1>1, StepFrame, StepAmounts, SavingIs
  <2>2. OpenedBy(p)'
    BY <2>1, OpenedStep DEF ClosedInv
  <2>3. ASSUME NEW q \in Procs \ {p} PROVE OpenedBy(q)'
    BY <2>1 DEF Frame, ClosedInv, OpenedBy, Busy
  <2>4. ASSUME Undisturbed', OpenDraft' PROVE \E q \in Procs : Owns(q)'
    <3>1. CASE files'["drafts"] # files["drafts"]
      BY <2>1, <2>4, <3>1, DraftChanges DEF ClosedInv, Undisturbed
    <3>2. CASE files'["drafts"] = files["drafts"]
      <4>1. Undisturbed /\ OpenDraft
        BY <2>4, <3>2, StaysDisturbed DEF OpenDraft
      <4>2. PICK q \in Procs : Owns(q)
        BY <4>1 DEF ClosedInv
      <4>3. CASE q = p
        BY <1>1, <2>4, <4>1, <4>2, <4>3, OwnerSteps DEF Undisturbed
      <4>4. CASE q # p
        BY <2>1, <3>2, <4>2, <4>4 DEF Frame, Owns, Judging, Closing, Closes, Saved, SaveFailed
      <4>5. QED
        BY <4>3, <4>4
    <3>3. QED
      BY <3>1, <3>2
  <2>5. QED
    BY <2>2, <2>3, <2>4 DEF ClosedInv
<1>2. ASSUME NEW p \in Procs, Crash(p) PROVE ClosedInv'
  <2>1. ~Undisturbed'
    BY <1>2, StaysDisturbed
  <2>2. Dies(p) /\ saving'[p].step = "idle"
    BY <1>2, DiesIs
  <2>3. ASSUME NEW q \in Procs PROVE OpenedBy(q)'
    <3>1. CASE q = p
      BY <2>2, <3>1 DEF OpenedBy, Busy
    <3>2. CASE q # p
      BY <2>2, <3>2, BeforeStep DEF Dies, ClosedInv, OpenedBy, Busy
    <3>3. QED
      BY <3>1, <3>2
  <2>4. QED
    BY <2>1, <2>3 DEF ClosedInv
<1>3. CASE EditContract \/ EditNotes \/ FillObservations
  <2>1. proc' = proc /\ saving' = saving
    BY <1>3, EditsIs DEF Edits
  <2>2. \A p \in Procs : OpenedBy(p)'
    BY <2>1 DEF ClosedInv, OpenedBy, Busy
  <2>3. ASSUME Undisturbed', OpenDraft' PROVE \E q \in Procs : Owns(q)'
    <3>1. Undisturbed /\ OpenDraft
      BY <1>3, <2>3, StaysDisturbed, EditKeepsRound
    <3>2. PICK q \in Procs : Owns(q)
      BY <3>1 DEF ClosedInv
    <3>3. QED
      BY <1>3, <2>3, <3>2, EditKeepsOwner DEF Undisturbed
  <2>4. QED
    BY <2>2, <2>3 DEF ClosedInv
<1>4. CASE UNCHANGED vars \/ \E p \in Procs : Cancel(p)
  <2>1. files' = files /\ proc' = proc /\ saving' = saving /\ faults' = faults /\ overlapped' = overlapped
    BY <1>4 DEF vars, storeVars, Cancel, Quiet
  <2>2. \A p \in Procs : OpenedBy(p)' = OpenedBy(p) /\ Owns(p)' = Owns(p)
    BY <2>1 DEF OpenedBy, Owns, Judging, Closing, Closes, Saved, SaveFailed, Busy
  <2>3. Undisturbed' = Undisturbed /\ OpenDraft' = OpenDraft
    BY <2>1 DEF Undisturbed, OpenDraft
  <2>4. QED
    BY <2>2, <2>3 DEF ClosedInv
<1>5. QED
  BY <1>1, <1>2, <1>3, <1>4 DEF Next, Operator, Over

\* However commands, edits and interrupts overtake each other, a round that a
\* provider was started on is closed when all commands have ended by themselves
\* (closeProviderHardenRound), in any number.
THEOREM RoundsEndClosed == Spec => []RoundsAreClosed
<1>1. TypeOK /\ ClosedInv => RoundsAreClosed
  <2> SUFFICES ASSUME TypeOK, ClosedInv, AllOver, Undisturbed, Find = "drafts", LeftOpen(Visible)
               PROVE  FALSE
    BY DEF RoundsAreClosed, Undisturbed
  <2>1. OpenDraft
    BY FindFirst DEF OpenDraft, Visible
  <2>2. PICK p \in Procs : Owns(p)
    BY <2>1 DEF ClosedInv
  <2>3. QED
    BY <2>2 DEF AllOver, Owns, Judging, Closing
<1>2. Init => ClosedInv
  BY ClosedInit
<1>3. TypeOK /\ DocumentsInv /\ ClosedInv /\ [Next]_vars => ClosedInv'
  BY ClosedStep
<1>4. QED
  BY <1>1, <1>2, <1>3, DocumentsInvariant, PTL DEF Spec

-----------------------------------------------------------------------------
(* A pass covers the draft. *)

\* Two commands at most: with more of them the code can lose what is stated here.
Pair == \A a, b, c \in Procs : a = b \/ b = c \/ a = c

\* p asks a provider or an operator about the draft, q displaces the draft or is
\* about to, and p is at work.
Asks(p) == proc[p].kind \in Answerers
Displaces(q) == proc[q].kind \in {"plan", "archive"}
Active(q) == proc[q].pc \notin {"start", "over"}
Displaced == \E q \in Procs : Displaces(q) /\ Active(q)

\* p waits for the answer about the spec it read, holds a spec that it will save,
\* or has the two copies of a move.
Awaits(p) == proc[p].pc \in {"check", "invoke", "reload", "record"}
Holding(p) == proc[p].pc \in {"override", "approval"}
Moving(p) == Busy(p) /\ saving[p].step = "remove"

\* The specs that are, or may become, what readers find.
InPlay(doc) ==
  \/ Find # "none" /\ doc = Visible
  \/ \E x \in Procs : Busy(x) /\ doc = saving[x].doc
  \/ \E x \in Procs : Holding(x) /\ doc = proc[x].doc
  \/ \E x \in Procs : Moving(x) /\ doc = files[Target(saving[x].doc)]

\* Where the commands that displace the draft can be.
StageInv(q) ==
  /\ proc[q].kind = "plan" => proc[q].pc \in {"start", "create", "over"}
  /\ proc[q].kind = "archive" =>
       proc[q].pc \in {"start", "archive", "ended", "over"} /\ (Busy(q) => Archives(q))
  /\ Approves(q) =>
       proc[q].pc \in {"start", "override", "approval", "ended", "over"} /\ (Busy(q) => Promotes(q))

\* Every copy of the spec is covered by its latest round.
CoveredInv ==
  /\ \A d \in Dir : files[d] # Absent => Covered(files[d])
  /\ \A x \in Procs :
       /\ Busy(x) => Covered(saving[x].doc)
       /\ Holding(x) \/ proc[x].pc = "archive" => Covered(proc[x].doc)

\* A command that displaces the draft is never at work together with p.
ApartInv(p) ==
  \A q \in Procs : Displaces(q) =>
    /\ Active(q) => files["drafts"] = Absent /\ ~Active(p)
    /\ Active(p) => files["drafts"] # Absent

\* Nothing in play has another contract than the visible spec.
LiveInv == ~Displaced => \A doc : InPlay(doc) => doc.contract = Visible.contract

\* The contract that p awaits an answer about is no newer than the visible one, and
\* no older than the one p's round was opened on.
AwaitInv(p) ==
  Awaits(p) =>
    /\ Newer(Visible.contract, proc[p].doc.contract)
    /\ \A doc : InPlay(doc) /\ HasRound(doc) /\ LatestRound(doc).id = proc[p].round =>
         Newer(proc[p].doc.contract, LatestRound(doc).digest)

\* The round that a provider is started on is in the draft that is being saved,
\* and then in the one that another command can still open a round for.
OpenedInv(p) ==
  proc[p].pc = "opened" /\ Busy(p) =>
    saving[p].path = "drafts" /\ Target(saving[p].doc) = "drafts" /\ Has(saving[p].doc, proc[p].round)

KnownInv(p) ==
  Awaits(p) \/ (proc[p].pc = "opened" /\ Saved(p)) =>
    \A q \in Procs \ {p} :
      proc[q].pc \in {"start", "verify"} /\ files["drafts"] # Absent => Has(files["drafts"], proc[p].round)

-----------------------------------------------------------------------------
\* Commands keep to their stages.
LEMMA StageStep ==
  ASSUME TypeOK, DocumentsInv, NEW r \in Procs, StageInv(r), Amounts(r) \/ SaveAmounts(r)
  PROVE  StageInv(r)'
<1>1. CASE Rests(r)
  BY <1>1 DEF Rests, Silent, StageInv, Busy, Approves
<1>2. CASE Looks(r)
  BY <1>2 DEF Looks, Silent, StageInv, Busy, Approves
<1>3. CASE Proceeds(r) \/ Overrides(r) \/ Creates(r)
  BY <1>3 DEF Proceeds, Silent, Overrides, Creates, StageInv, Busy, Approves
<1>4. CASE Opens(r) \/ Judges(r)
  BY <1>4 DEF Opens, Judges, Begins, StageInv, Approves
<1>b. CASE SavesApproved(r)
  <2> DEFINE from == proc[r].doc  doc == Approved(from, proc[r].now)
  <2>1. proc[r].pc = "approval" /\ Begins(r, proc[r].path, doc) /\ proc'[r].pc = "ended"
    BY <1>b DEF SavesApproved
  <2>2. from \in Document /\ Target(from) = proc[r].path /\ from.status = "draft" /\ Approves(r) /\ proc[r].now \in Nat
    BY <2>1, BeforeStep DEF DocumentsInv, CommandInv, CommandOK, CommandState, Holds
  <2>3. proc[r].path = "drafts" /\ doc.status = "approved"
    BY <2>2, ApprovedIs DEF Target
  <2> HIDE DEF doc, from
  <2>4. Promotes(r)' /\ Approves(r)'
    BY <2>1, <2>2, <2>3 DEF Begins, Promotes, Approves
  <2>5. QED
    BY <2>1, <2>2, <2>4 DEF Begins, StageInv, Approves
<1>5. CASE SavesArchived(r)
  <2> DEFINE from == proc[r].doc  doc == [from EXCEPT !.status = "completed", !.updated = proc[r].now]
  <2>1. proc[r].pc = "archive" /\ Begins(r, proc[r].path, doc) /\ proc'[r].pc = "ended"
    BY <1>5 DEF SavesArchived
  <2>2. from \in Document /\ Target(from) = proc[r].path /\ from.status = "approved" /\ proc[r].kind = "archive"
    BY <2>1, BeforeStep DEF DocumentsInv, CommandInv, CommandOK, CommandState, Holds
  <2>3. proc[r].path = "approved" /\ doc.status = "completed"
    BY <2>2, TargetType DEF Document
  <2> HIDE DEF doc, from
  <2>4. Archives(r)'
    BY <2>1, <2>2, <2>3 DEF Begins, Archives
  <2>5. QED
    BY <2>1, <2>2, <2>4 DEF Begins, StageInv, Approves
<1>6. CASE SaveAmounts(r)
  <2>1. Busy(r) /\ proc' = proc /\ proc[r].pc \in Waits /\ saving[r].doc \in Document
    BY <1>6, BeforeStep DEF SaveAmounts, SaveOK, SaveState
  <2>2. Busy(r)' => saving'[r].path = saving[r].path /\ saving'[r].doc.status = saving[r].doc.status
    BY <1>6, <2>1 DEF SaveAmounts, Merges, Clear, GivesUp, Replaces, Copies, Unsynced, Removes, TakesBack, Continues, SaveEnds, Busy,
       UpdateSpec, Prose, Document
  <2>3. QED
    BY <2>1, <2>2 DEF StageInv, Archives, Promotes, Approves, Waits
<1>7. QED
  BY <1>1, <1>2, <1>3, <1>4, <1>b, <1>5, <1>6 DEF Amounts

-----------------------------------------------------------------------------
\* A spec with the latest round and contract of a covered one is covered.
LEMMA KeepsCovered ==
  ASSUME NEW doc, NEW next, Keeps(next, doc), KeepsPass(next, doc), Covered(doc)
  PROVE  Covered(next)
BY DEF Keeps, KeepsPass, Covered

\* What is covered stays so where the new specs are.
LEMMA CoveredChange ==
  ASSUME CoveredInv, NEW r \in Procs, Still(r),
         \A d \in Dir : files'[d] = Absent \/ files'[d] = files[d] \/ Covered(files'[d]),
         Busy(r)' => Covered(saving'[r].doc),
         (Holding(r) \/ proc[r].pc = "archive")' => Covered(proc'[r].doc)
  PROVE  CoveredInv'
<1>1. ASSUME NEW d \in Dir, files'[d] # Absent PROVE Covered(files'[d])
  BY <1>1 DEF CoveredInv
<1>2. ASSUME NEW x \in Procs
      PROVE  /\ Busy(x)' => Covered(saving'[x].doc)
             /\ (Holding(x) \/ proc[x].pc = "archive")' => Covered(proc'[x].doc)
  <2>1. CASE x = r
    BY <2>1
  <2>2. CASE x # r
    BY <2>2 DEF Still, CoveredInv, Busy, Holding
  <2>3. QED
    BY <2>1, <2>2
<1>3. QED
  BY <1>1, <1>2 DEF CoveredInv

\* A step leaves copies covered, when an answer is recorded on the contract that
\* was asked about.
LEMMA CoveredStep ==
  ASSUME TypeOK, DocumentsInv, CoveredInv, NEW r \in Procs, Still(r), Amounts(r) \/ SaveAmounts(r),
         /\ proc[r].pc = "record" /\ Find # "none" /\ IsMine(r)
         /\ LatestRound(Visible).digest = Visible.contract
         => proc[r].doc.contract = Visible.contract
  PROVE  CoveredInv'
<1>0. files \in [Dir -> Document \cup {Absent}] /\ proc[r].now \in Nat /\ CommandOK(proc[r])
  BY BeforeStep DEF CommandOK, CommandState
<1>v. Find # "none" => Visible \in Document /\ Covered(Visible)
  BY VisibleIs, FindFirst DEF CoveredInv, Visible
<1>1. CASE Rests(r) \/ Proceeds(r)
  BY <1>1, CoveredChange DEF Rests, Proceeds, Silent, Busy, Holding
<1>2. CASE Looks(r)
  BY <1>2, <1>v, CoveredChange DEF Looks, Silent, Busy
<1>3. CASE Overrides(r)
  BY <1>3, CoveredChange DEF Overrides, Busy, Holding, CoveredInv
<1>4. CASE Creates(r)
  <2> DEFINE doc == NewDraft(proc[r].now)
  <2>1. Covered(doc)
    BY DEF NewDraft, Covered, HasRound
  <2> HIDE DEF doc
  <2>2. \A d \in Dir : files'[d] = files[d] \/ files'[d] = doc
    BY <1>0, <1>4 DEF Creates, doc
  <2>3. ~Busy(r)' /\ ~(Holding(r) \/ proc[r].pc = "archive")'
    BY <1>4 DEF Creates, Busy, Holding
  <2>4. QED
    BY <2>1, <2>2, <2>3, CoveredChange
<1>5. ASSUME NEW path, NEW doc, Begins(r, path, doc), Covered(doc) PROVE CoveredInv'
  BY <1>5, CoveredChange DEF Begins, Holding, Waits
<1>6. CASE Opens(r)
  <2>1. PICK by \in {"operator", "provider"} : Begins(r, Find, WithRound(Visible, by, proc[r].now))
    BY <1>6 DEF Opens
  <2>a. Visible \in Document
    BY <1>6, <1>v DEF Opens
  <2>b. proc[r].now \in Nat
    BY <1>0
  <2> DEFINE doc == WithRound(Visible, by, proc[r].now)
  <2>2. /\ LatestRound(doc).status = "in_progress" /\ doc.contract = Visible.contract
        /\ LatestRound(doc).digest = Visible.contract
    BY <2>a, <2>b, WithRoundIs, ZenonT(60)
  <2> HIDE DEF doc
  <2>3. Covered(doc)
    BY <2>2 DEF Covered, Newer
  <2>4. QED
    BY <1>5, <2>1, <2>3 DEF doc
<1>7. CASE Judges(r)
  <2>1. PICK doc \in Document :
          /\ Begins(r, Find, doc) /\ HasRound(Visible) /\ Keeps(doc, Visible)
          /\ LatestRound(doc).status = "passed" =>
               \/ LatestRound(doc).seen = Visible.contract
               \/ proc[r].pc = "record" /\ IsMine(r) /\ LatestRound(doc).seen = proc[r].doc.contract
    BY <1>7 DEF Judges
  <2>2. Find # "none"
    BY <1>7 DEF Judges
  <2>3. Newer(doc.contract, LatestRound(doc).digest)
    BY <1>v, <2>1, <2>2 DEF Covered, Keeps
  <2>4. LatestRound(doc).status = "passed" /\ LatestRound(doc).digest = doc.contract =>
          LatestRound(doc).seen = doc.contract
    BY <2>1, <2>2 DEF Keeps
  <2>5. QED
    BY <1>5, <2>1, <2>3, <2>4 DEF Covered
<1>8. CASE SavesApproved(r) \/ SavesArchived(r)
  <2>1. proc[r].pc \in {"approval", "archive"} /\ proc[r].doc \in Document /\ Covered(proc[r].doc)
    BY <1>0, <1>8 DEF SavesApproved, SavesArchived, CoveredInv, Holding, CommandOK, CommandState, Holds
  <2>2. CASE SavesApproved(r)
    <3> DEFINE doc == Approved(proc[r].doc, proc[r].now)
    <3>1. Keeps(doc, proc[r].doc) /\ KeepsPass(doc, proc[r].doc)
      BY <1>0, <2>1, ApprovedIs
    <3> HIDE DEF doc
    <3>2. Covered(doc)
      BY <2>1, <3>1, KeepsCovered
    <3>3. QED
      BY <1>5, <2>2, <3>2 DEF SavesApproved, doc
  <2>3. CASE SavesArchived(r)
    <3> DEFINE doc == [proc[r].doc EXCEPT !.status = "completed", !.updated = proc[r].now]
    <3>1. Begins(r, proc[r].path, doc)
      BY <2>3 DEF SavesArchived
    <3>2. doc \in Document /\ doc.rounds = proc[r].doc.rounds /\ doc.contract = proc[r].doc.contract
      BY <2>1, <3>1 DEF Begins, Document
    <3> HIDE DEF doc
    <3>3. Covered(doc)
      BY <2>1, <3>2, RoundsKept, KeepsCovered
    <3>4. QED
      BY <1>5, <3>1, <3>3
  <2>4. QED
    BY <1>8, <2>2, <2>3
<1>9. CASE SaveAmounts(r)
  <2> DEFINE doc == saving[r].doc
  <2>1. Busy(r) /\ proc' = proc /\ doc \in Document /\ Covered(doc) /\ proc[r].pc \in Waits
    BY <1>9, BeforeStep DEF SaveAmounts, SaveOK, SaveState, CoveredInv
  <2>2. ~(Holding(r) \/ proc[r].pc = "archive")'
    BY <2>1 DEF Holding, Waits
  <2>3. CASE Merges(r)
    <3> DEFINE merged == UpdateSpec(files[saving[r].path], doc)
    <3>1. merged \in Document /\ files' = files /\ saving'[r].doc = merged
      BY <2>3 DEF Merges, Continues
    <3>2. merged.rounds = doc.rounds /\ merged.contract = doc.contract
      BY <2>1 DEF UpdateSpec, Prose, Document
    <3> HIDE DEF merged
    <3>3. Covered(merged)
      BY <2>1, <3>1, <3>2, RoundsKept, KeepsCovered
    <3>4. QED
      BY <2>2, <3>1, <3>3, CoveredChange
  <2>4. CASE ~Merges(r)
    <3>1. Busy(r)' => saving'[r].doc = doc
      BY <1>9, <2>4 DEF SaveAmounts, Clear, GivesUp, Replaces, Copies, Unsynced, Removes, TakesBack, Continues, SaveEnds, Busy
    <3>2. \A d \in Dir : files'[d] = Absent \/ files'[d] = files[d] \/ files'[d] = doc
      BY <1>0, <1>9, <2>4 DEF SaveAmounts, Clear, GivesUp, Replaces, Copies, Unsynced, Removes, TakesBack
    <3> HIDE DEF doc
    <3>3. QED
      BY <2>1, <2>2, <3>1, <3>2, CoveredChange
  <2>5. QED
    BY <2>3, <2>4
<1>10. QED
  BY <1>1, <1>2, <1>3, <1>4, <1>6, <1>7, <1>8, <1>9 DEF Amounts

\* Where a spec is found.
FoundIn(fs) ==
  LET there == {i \in DOMAIN Dirs : fs[Dirs[i]] # Absent}
  IN  IF there = {} THEN "none" ELSE Dirs[Min(there)]

\* Drafts are found before approved specs, and these before the others.
LEMMA Found ==
  ASSUME NEW fs
  PROVE  FoundIn(fs) = IF fs["drafts"] # Absent THEN "drafts"
                       ELSE IF fs["approved"] # Absent THEN "approved"
                       ELSE IF fs["active"] # Absent THEN "active"
                       ELSE IF fs["archive"] # Absent THEN "archive" ELSE "none"
<1> DEFINE there == {i \in DOMAIN Dirs : fs[Dirs[i]] # Absent}
<1>1. FoundIn(fs) = IF there = {} THEN "none" ELSE Dirs[Min(there)]
  BY DEF FoundIn
<1>2. \A i : i \in there <=> i \in 1..4 /\ fs[Dirs[i]] # Absent
  BY FourDirs
<1>3. CASE there = {}
  <2>1. 1 \notin there /\ 2 \notin there /\ 3 \notin there /\ 4 \notin there
    BY <1>3
  <2> HIDE DEF there
  <2>2. QED
    BY <1>1, <1>2, <1>3, <2>1, FourDirs
<1>4. CASE there # {}
  <2>1. there \in SUBSET Nat
    BY FourDirs
  <2> HIDE DEF there
  <2>2. Min(there) \in there /\ \A i \in there : Min(there) <= i
    BY <2>1, <1>4, LeastNumber DEF Min
  <2>3. Min(there) \in 1..4 /\ fs[Dirs[Min(there)]] # Absent
        /\ \A i \in 1..4 : fs[Dirs[i]] # Absent => Min(there) <= i
    BY <1>2, <2>2
  <2>4. FoundIn(fs) = Dirs[Min(there)]
    BY <1>1, <1>4
  <2> DEFINE m == Min(there)
  <2> HIDE DEF m
  <2>5. m \in {1, 2, 3, 4} /\ fs[Dirs[m]] # Absent /\ FoundIn(fs) = Dirs[m]
        /\ \A i \in {1, 2, 3, 4} : fs[Dirs[i]] # Absent => m <= i
    BY <2>3, <2>4 DEF m
  <2>6. QED
    BY <2>5, FourDirs
<1>5. QED
  BY <1>3, <1>4

\* Find is that of the files.
LEMMA FindIs == Find = FoundIn(files) /\ Find' = FoundIn(files')
BY DEF Find, FoundIn

\* When one file is written, the spec that is found is the one that was, or it.
LEMMA VisibleChange ==
  ASSUME files \in [Dir -> Document \cup {Absent}], NEW d \in Dir, NEW doc \in Document,
         files' = [files EXCEPT ![d] = doc], Find # "none"
  PROVE  Find' # "none" /\ Visible' \in {Visible, doc}
<1>1. doc # Absent
  BY AbsentIsNone
<1>2. \A e \in {"drafts", "approved", "active", "archive"} : files'[e] = IF e = d THEN doc ELSE files[e]
  BY FourDirs
<1>3. Find' # "none" /\ files'[Find'] \in {files[Find], doc}
  BY <1>1, <1>2, FindIs, Found, FourDirs
<1>4. QED
  BY <1>3 DEF Visible

\* What is in play after a step of r.
LEMMA PlayIs ==
  ASSUME NEW r \in Procs, Still(r), NEW doc, InPlay(doc)'
  PROVE  \/ Find' # "none" /\ doc = Visible'
         \/ InPlay(doc)
         \/ Busy(r)' /\ doc = saving'[r].doc
         \/ Holding(r)' /\ doc = proc'[r].doc
         \/ \E x \in Procs \ {r} : Moving(x) /\ doc = files'[Target(saving[x].doc)]
         \/ Moving(r)' /\ doc = files'[Target(saving'[r].doc)]
<1>1. CASE \E x \in Procs : Busy(x)' /\ doc = saving'[x].doc
  BY <1>1 DEF Still, Busy, InPlay
<1>2. CASE \E x \in Procs : Holding(x)' /\ doc = proc'[x].doc
  BY <1>2 DEF Still, Holding, InPlay
<1>3. CASE \E x \in Procs : Moving(x)' /\ doc = files'[Target(saving'[x].doc)]
  BY <1>3 DEF Still, Moving, Busy
<1>4. QED
  BY <1>1, <1>2, <1>3 DEF InPlay

\* A spec has its own latest round and contract.
LEMMA KeepsItself ==
  ASSUME NEW doc
  PROVE  Keeps(doc, doc)
BY DEF Keeps

\* While nobody displaces the draft, a step leaves in play what was in play, or a
\* spec with the same contract and latest round, or it opens a round.
LEMMA PlayKept ==
  ASSUME TypeOK, DocumentsInv, PlacesInv, ~TwoMoves, NEW r \in Procs, Still(r),
         Amounts(r) \/ SaveAmounts(r), ~Displaced, ~Displaced', proc'[r].kind = proc[r].kind,
         NEW doc, InPlay(doc)'
  PROVE  \/ \E old : InPlay(old) /\ Keeps(doc, old)
         \/ \E by \in {"operator", "provider"} : Opens(r) /\ doc = WithRound(Visible, by, proc[r].now)
<1>0. files \in [Dir -> Document \cup {Absent}] /\ proc[r].now \in Nat /\ CommandOK(proc[r])
  BY BeforeStep DEF CommandOK, CommandState
<1>s. InPlay(doc) => \E old : InPlay(old) /\ Keeps(doc, old)
  BY KeepsItself
<1>f. Find # "none"
  BY FindFirst DEF PlacesInv, Somewhere
<1>v. InPlay(Visible)
  BY <1>f DEF InPlay
<1>1. ASSUME files' = files, ~Moving(r)'
      PROVE  InPlay(doc) \/ (Busy(r)' /\ doc = saving'[r].doc) \/ (Holding(r)' /\ doc = proc'[r].doc)
  <2>1. Find' = Find /\ Visible' = Visible
    BY <1>1 DEF Find, Visible
  <2>2. (\E x \in Procs \ {r} : Moving(x) /\ doc = files'[Target(saving[x].doc)]) => InPlay(doc)
    BY <1>1 DEF InPlay
  <2>3. QED
    BY <1>1, <1>f, <1>v, <2>1, <2>2, PlayIs
<1>2. CASE Rests(r) \/ Proceeds(r) \/ Looks(r) \/ Overrides(r)
  <2>1. files' = files /\ ~Busy(r)'
    BY <1>2 DEF Rests, Proceeds, Looks, Overrides, Silent, Busy
  <2>2. ~Moving(r)'
    BY <2>1 DEF Moving
  <2>3. Holding(r)' => InPlay(proc'[r].doc)
    BY <1>2, <1>v DEF Rests, Proceeds, Looks, Overrides, Holding, InPlay
  <2>4. InPlay(doc)
    BY <1>1, <2>1, <2>2, <2>3
  <2>5. QED
    BY <1>s, <2>4
<1>3. ASSUME NEW path, NEW next, Begins(r, path, next)
      PROVE  InPlay(doc) \/ doc = next
  <2>1. files' = files /\ saving'[r].doc = next /\ saving'[r].step = "read" /\ proc'[r].pc \in Waits
    BY <1>3 DEF Begins
  <2>2. ~Moving(r)' /\ ~Holding(r)'
    BY <2>1 DEF Moving, Holding, Waits
  <2>3. QED
    BY <1>1, <2>1, <2>2
<1>4. CASE Opens(r)
  <2>1. PICK by \in {"operator", "provider"} : Begins(r, Find, WithRound(Visible, by, proc[r].now))
    BY <1>4 DEF Opens
  <2>2. InPlay(doc) \/ doc = WithRound(Visible, by, proc[r].now)
    BY <1>3, <2>1
  <2>3. QED
    BY <1>4, <1>s, <2>2
<1>5. CASE Judges(r)
  <2>1. PICK next \in Document : Begins(r, Find, next) /\ Keeps(next, Visible)
    BY <1>5 DEF Judges
  <2>2. InPlay(doc) \/ doc = next
    BY <1>3, <2>1
  <2>3. QED
    BY <1>s, <1>v, <2>1, <2>2
<1>6. CASE SavesApproved(r)
  <2> DEFINE next == Approved(proc[r].doc, proc[r].now)
  <2>1. proc[r].pc = "approval" /\ proc[r].doc \in Document /\ Begins(r, proc[r].path, next)
    BY <1>0, <1>6 DEF SavesApproved, CommandOK, CommandState, Holds
  <2>2. Keeps(next, proc[r].doc) /\ InPlay(proc[r].doc)
    BY <1>0, <2>1, ApprovedIs DEF Holding, InPlay
  <2> HIDE DEF next
  <2>3. InPlay(doc) \/ doc = next
    BY <1>3, <2>1
  <2>4. QED
    BY <1>s, <2>2, <2>3
<1>7. CASE SavesArchived(r) \/ Creates(r)
  <2>1. Displaces(r) /\ Active(r)
    BY <1>7 DEF SavesArchived, Creates, Displaces, Active, DocumentsInv, CommandInv
  <2>2. QED
    BY <2>1 DEF Displaced
<1>8. CASE SaveAmounts(r)
  <2> DEFINE mine == saving[r].doc  path == saving[r].path
  <2>1. /\ Busy(r) /\ proc' = proc /\ mine \in Document /\ mine # Absent /\ path \in Dir /\ Target(mine) \in Dir
        /\ proc[r].pc \in Waits /\ InPlay(mine)
    BY <1>8, MovesAre, BeforeStep DEF SaveAmounts, InPlay
  <2>2. ~Holding(r)'
    BY <2>1 DEF Holding, Waits
  <2>3. CASE Merges(r)
    <3> DEFINE merged == UpdateSpec(files[path], mine)
    <3>1. merged \in Document /\ files' = files /\ saving'[r].doc = merged /\ saving'[r].step \in {"stat", "write"}
      BY <2>3 DEF Merges, Continues
    <3>2. merged.rounds = mine.rounds /\ merged.contract = mine.contract
      BY <2>1 DEF UpdateSpec, Prose, Document
    <3> HIDE DEF merged
    <3>3. Keeps(merged, mine)
      BY <2>1, <3>1, <3>2, RoundsKept
    <3>4. ~Moving(r)'
      BY <3>1 DEF Moving
    <3>5. InPlay(doc) \/ doc = merged
      BY <1>1, <2>2, <3>1, <3>4
    <3>6. QED
      BY <1>s, <2>1, <3>3, <3>5
  <2>4. CASE Clear(r) \/ GivesUp(r)
    <3>1. files' = files /\ (Busy(r)' => saving'[r].doc = mine) /\ ~Moving(r)'
      BY <2>4 DEF Clear, GivesUp, Continues, SaveEnds, Busy, Moving
    <3>2. InPlay(doc)
      BY <1>1, <2>1, <2>2, <3>1
    <3>3. QED
      BY <1>s, <3>2
  <2>5. CASE Replaces(r) \/ Copies(r) \/ Unsynced(r)
    <3>1. files' = [files EXCEPT ![Target(mine)] = mine] /\ (Busy(r)' => saving'[r].doc = mine)
      BY <2>5 DEF Replaces, Copies, Unsynced, Continues, SaveEnds, Busy
    <3>2. Visible' \in {Visible, mine}
      BY <1>0, <1>f, <2>1, <3>1, VisibleChange
    <3>3. \A d \in Dir : files'[d] = files[d] \/ files'[d] = mine
      BY <1>0, <3>1
    <3>4. ASSUME NEW x \in Procs \ {r}, Moving(x), doc = files'[Target(saving[x].doc)] PROVE InPlay(doc)
      <4>1. Target(saving[x].doc) \in Dir
        BY <3>4, MovesAre DEF Moving
      <4>2. QED
        BY <2>1, <3>3, <3>4, <4>1 DEF InPlay
    <3>5. Moving(r)' => files'[Target(saving'[r].doc)] = mine
      BY <1>0, <2>1, <3>1 DEF Moving
    <3> HIDE DEF mine
    <3>6. InPlay(doc)
      BY <1>v, <2>1, <2>2, <3>1, <3>2, <3>4, <3>5, PlayIs
    <3>7. QED
      BY <1>s, <3>6
  <2>6. CASE Removes(r) \/ TakesBack(r)
    <3>1. Moving(r) /\ ~Busy(r)' /\ ~Moving(r)'
      BY <2>1, <2>6 DEF Removes, TakesBack, SaveEnds, Busy, Moving
    <3>2. ASSUME NEW x \in Procs, Moving(x) PROVE Promotes(x)
      <4>1. Promotes(x) \/ Archives(x)
        BY <3>2, MovesAre DEF Moving, DocumentsInv, SaveInv
      <4>2. Archives(x) => Displaced
        BY <3>2, BeforeStep DEF Archives, Displaced, Displaces, Active, Moving, Waits
      <4>3. QED
        BY <4>1, <4>2
    <3>3. \A x \in Procs \ {r} : ~Moving(x)
      BY <3>1, <3>2, OneMover
    <3>4. path = "drafts" /\ Target(mine) = "approved" /\ files["drafts"] # Absent /\ files["approved"] # Absent
      BY <2>1, <3>1, <3>2, MovesAre DEF PlacesInv, PromoteInv, Moving
    <3>5. Visible' \in {files["approved"], Visible}
      <4>1. CASE Removes(r)
        <5>1. files' = [files EXCEPT !["drafts"] = Absent]
          BY <3>4, <4>1 DEF Removes
        <5>2. files'["drafts"] = Absent /\ files'["approved"] = files["approved"]
          BY <1>0, <5>1, FourDirs
        <5>3. Find' = "approved"
          BY <3>4, <5>2, FindIs, Found
        <5>4. QED
          BY <5>2, <5>3 DEF Visible
      <4>2. CASE TakesBack(r)
        <5>1. files' = [files EXCEPT !["approved"] = Absent]
          BY <3>4, <4>2 DEF TakesBack
        <5>2. files'["drafts"] = files["drafts"]
          BY <1>0, <5>1, FourDirs
        <5>3. Find' = "drafts" /\ Find = "drafts"
          BY <3>4, <5>2, FindIs, Found
        <5>4. QED
          BY <5>2, <5>3 DEF Visible
      <4>3. QED
        BY <2>6, <4>1, <4>2
    <3>6. InPlay(files["approved"])
      BY <3>1, <3>4 DEF InPlay
    <3>7. InPlay(doc)
      BY <1>v, <2>2, <3>1, <3>3, <3>5, <3>6, PlayIs
    <3>8. QED
      BY <1>s, <3>7
  <2>7. QED
    BY <1>8, <2>3, <2>4, <2>5, <2>6 DEF SaveAmounts
<1>9. QED
  BY <1>2, <1>4, <1>5, <1>6, <1>7, <1>8 DEF Amounts

\* A command that is over takes no step.
LEMMA StepAlive ==
  ASSUME TypeOK, NEW r \in Procs, Step(r)
  PROVE  proc[r].pc # "over"
<1>1. CASE Saving(r)
  <2>1. Busy(r)
    BY <1>1 DEF Saving, SaveStep, SaveRead, SaveStat, SaveWrite, SaveWriteFails, SaveRemove, Busy
  <2>2. QED
    BY <2>1, BeforeStep DEF Waits
<1>2. CASE ~Saving(r)
  BY <1>2 DEF Step, At, Refuses, HardenStart, HardenVerify, HardenPacket, HardenCheck, HardenInvoke,
     HardenReload, RepairPacket, Record, Recorded, Close, Ends, OpenRound, MarkPassed, LoadAndSave, ArchiveLoad,
     ArchiveSpec, ApproveLoad, ApproveOverride, ApproveSave, PlanLook, PlanCreate
<1>3. QED
  BY <1>1, <1>2

\* A step changes no command into another.
LEMMA KindStays ==
  ASSUME NEW r \in Procs, Still(r), Amounts(r) \/ SaveAmounts(r)
  PROVE  \A q \in Procs : proc'[q].kind = proc[q].kind
BY DEF Still, Amounts, Rests, Looks, Proceeds, Silent, Overrides, Creates, Opens, Judges, SavesApproved,
   SavesArchived, Begins, SaveAmounts

\* A command that asks for an answer saves the draft where it is.
LEMMA AskerSaves ==
  ASSUME TypeOK, DocumentsInv, NEW p \in Procs, Asks(p), SaveAmounts(p)
  PROVE  Merges(p) \/ GivesUp(p) \/ Replaces(p) \/ Unsynced(p)
<1>1. Busy(p) /\ SaveInv(p) /\ ~Promotes(p) /\ ~Archives(p)
  BY DEF SaveAmounts, DocumentsInv, Promotes, Archives, Approves, Asks, Answerers
<1>2. Target(saving[p].doc) = saving[p].path /\ saving[p].step \notin {"stat", "remove"}
  BY <1>1 DEF SaveInv
<1>3. QED
  BY <1>2 DEF SaveAmounts, Clear, Copies, Removes, TakesBack

\* An archived spec is saved away from the drafts.
LEMMA ArchiverSaves ==
  ASSUME TypeOK, DocumentsInv, NEW q \in Procs, Archives(q), SaveAmounts(q)
  PROVE  files'["drafts"] = files["drafts"]
<1>1. Busy(q) /\ saving[q].path = "approved" /\ Target(saving[q].doc) = "archive"
  BY MovesAre DEF SaveAmounts
<1>2. files \in [Dir -> Document \cup {Absent}]
  BY BeforeStep
<1>3. QED
  BY <1>1, <1>2, FourDirs DEF SaveAmounts, Merges, Clear, GivesUp, Replaces, Copies, Unsynced, Removes, TakesBack

\* The draft of a command at work, and the one who displaces it.
LEMMA ApartStep ==
  ASSUME TypeOK, DocumentsInv, NEW p \in Procs, Asks(p), Pair, ApartInv(p), \A q \in Procs : StageInv(q),
         NEW r \in Procs, Still(r), Amounts(r) \/ SaveAmounts(r), proc[r].pc # "over"
  PROVE  ApartInv(p)'
<1> SUFFICES ASSUME NEW q \in Procs, Displaces(q)'
             PROVE  /\ Active(q)' => files'["drafts"] = Absent /\ ~Active(p)'
                    /\ Active(p)' => files'["drafts"] # Absent
  BY DEF ApartInv
<1>1. Displaces(q) /\ q # p
  BY KindStays DEF Displaces, Asks, Answerers
<1>2. /\ Active(q) => files["drafts"] = Absent /\ ~Active(p)
      /\ Active(p) => files["drafts"] # Absent
  BY <1>1 DEF ApartInv
<1>3. r = p \/ r = q
  BY <1>1 DEF Pair
<1>0. files \in [Dir -> Document \cup {Absent}] /\ "drafts" \in Dir
  BY BeforeStep, FourDirs
<1>4. CASE r = p /\ Active(p)
  <2>1. files'["drafts"] # Absent
    <3>1. CASE Amounts(p)
      <4>1. ~Creates(p)
        BY DEF Creates, Asks, Answerers
      <4>2. files' = files
        BY <3>1, <4>1 DEF Amounts, Rests, Looks, Proceeds, Silent, Overrides, Opens, Judges, SavesApproved,
           SavesArchived, Begins
      <4>3. QED
        BY <1>2, <1>4, <4>2
    <3>2. CASE SaveAmounts(p)
      <4>1. saving[p].doc # Absent
        BY <3>2, MovesAre DEF SaveAmounts
      <4>2. QED
        BY <1>0, <1>2, <1>4, <3>2, <4>1, AskerSaves DEF Merges, GivesUp, Replaces, Unsynced
    <3>3. QED
      BY <1>4, <3>1, <3>2
  <2>2. ~Active(q)'
    BY <1>1, <1>2, <1>4 DEF Still, Active
  <2>3. QED
    BY <2>1, <2>2
<1>5. CASE r = p /\ ~Active(p)
  <2>1. proc[p].pc = "start" /\ Active(q)' = Active(q)
    BY <1>1, <1>5 DEF Active, Still
  <2>2. Rests(p) \/ Looks(p)
    BY <1>5, <2>1, BeforeStep DEF Amounts, SaveAmounts, Proceeds, Overrides, Creates, Opens, Judges, SavesApproved,
       SavesArchived, Asks, Answerers, Waits
  <2>3. files' = files
    BY <2>2 DEF Rests, Looks, Silent
  <2>4. CASE Rests(p)
    BY <1>2, <2>1, <2>3, <2>4 DEF Rests, Active, Asks, Answerers
  <2>5. CASE Looks(p)
    <3>1. Find = "drafts"
      BY <2>1, <2>5 DEF Looks, Asks, Answerers, Approves
    <3>2. files["drafts"] # Absent
      BY <3>1, FindFirst
    <3>3. QED
      BY <1>2, <2>1, <2>3, <3>2
  <2>6. QED
    BY <2>2, <2>4, <2>5
<1>6. CASE r = q /\ Active(q)
  <2>1. Active(p)' = Active(p) /\ StageInv(q)
    BY <1>1, <1>6 DEF Still, Active
  <2>2. CASE Creates(q)
    BY <1>2, <1>6, <2>1, <2>2 DEF Creates, Active
  <2>3. CASE Amounts(q) /\ ~Creates(q)
    <3>1. files' = files
      BY <2>3 DEF Amounts, Rests, Looks, Proceeds, Silent, Overrides, Opens, Judges, SavesApproved,
         SavesArchived, Begins
    <3>2. QED
      BY <1>2, <1>6, <2>1, <3>1
  <2>4. CASE SaveAmounts(q)
    <3>1. Archives(q)
      BY <1>1, <2>1, <2>4, BeforeStep DEF StageInv, Displaces, SaveAmounts, Waits
    <3>2. QED
      BY <1>2, <1>6, <2>1, <2>4, <3>1, ArchiverSaves
  <2>5. QED
    BY <1>6, <2>2, <2>3, <2>4
<1>7. CASE r = q /\ ~Active(q)
  <2>1. proc[q].pc = "start" /\ Active(p)' = Active(p)
    BY <1>1, <1>7 DEF Active, Still
  <2>2. Rests(q) \/ Looks(q)
    BY <1>1, <1>7, <2>1, BeforeStep DEF Amounts, SaveAmounts, Proceeds, Overrides, Creates, Opens, Judges, SavesApproved,
       SavesArchived, Displaces, Waits
  <2>3. files' = files
    BY <2>2 DEF Rests, Looks, Silent
  <2>4. CASE Rests(q)
    BY <1>2, <2>1, <2>3, <2>4 DEF Rests, Active
  <2>5. CASE Looks(q)
    <3>1. Find # "none" /\ Visible.status = "approved"
      BY <1>1, <2>1, <2>5 DEF Looks, Displaces, Approves
    <3>2. Find = "approved"
      BY <3>1, VisibleSound DEF DocumentsInv, Target
    <3>3. files["drafts"] = Absent
      BY <3>2, FindFirst
    <3>4. QED
      BY <1>2, <2>1, <2>3, <3>3
  <2>6. QED
    BY <2>2, <2>4, <2>5
<1>8. QED
  BY <1>3, <1>4, <1>5, <1>6, <1>7

\* The latest round of a spec is one of its rounds.
LEMMA LatestHas ==
  ASSUME NEW doc \in Document, HasRound(doc)
  PROVE  Has(doc, LatestRound(doc).id)
<1>1. Len(doc.rounds) \in Nat \ {0} /\ LatestRound(doc) = doc.rounds[Len(doc.rounds)] /\ doc.rounds \in Seq(Round)
  BY LatestType DEF Document
<1>2. Len(doc.rounds) \in DOMAIN doc.rounds
  BY <1>1
<1>3. QED
  BY <1>1, <1>2 DEF Has

\* The round that a provider is started on is in the draft that is being saved.
LEMMA OpenedSaveStep ==
  ASSUME TypeOK, DocumentsInv, NEW p \in Procs, Asks(p), OpenedInv(p),
         NEW r \in Procs, Still(r), Amounts(r) \/ SaveAmounts(r)
  PROVE  OpenedInv(p)'
<1>1. CASE r # p
  BY <1>1 DEF Still, OpenedInv, Busy
<1>2. CASE r = p /\ Amounts(p) /\ ~Opens(p)
  BY <1>2 DEF Amounts, Rests, Looks, Proceeds, Silent, Overrides, Creates, Judges, SavesApproved, SavesArchived,
     OpenedInv, Busy
<1>3. CASE Opens(p)
  <2> DEFINE now == proc[p].now
  <2>1. PICK by \in {"operator", "provider"} :
          /\ Begins(p, Find, WithRound(Visible, by, now))
          /\ by = "provider" => proc'[p].round = NextRoundID(Visible)
          /\ by = "operator" => proc'[p].pc = "ended"
    BY <1>3 DEF Opens
  <2>2. Visible \in Document /\ Target(Visible) = Find /\ now \in Nat /\ Find = "drafts"
    BY <1>3, VisibleIs, VisibleSound, BeforeStep DEF DocumentsInv, CommandInv, Opens, CommandOK, CommandState
  <2> DEFINE doc == WithRound(Visible, by, now)
  <2>3. doc \in Document /\ HasRound(doc) /\ LatestRound(doc).id = NextRoundID(Visible) /\ doc.status = Visible.status
    BY <2>2, WithRoundIs, ZenonT(60)
  <2> HIDE DEF doc, now
  <2>4. Has(doc, NextRoundID(Visible)) /\ Target(doc) = "drafts"
    BY <2>2, <2>3, LatestHas DEF Target
  <2>5. saving'[p].path = Find /\ saving'[p].doc = doc
    BY <2>1 DEF Begins, doc
  <2>6. QED
    BY <2>1, <2>2, <2>4, <2>5 DEF OpenedInv
<1>4. CASE SaveAmounts(p)
  <2>1. proc' = proc /\ Busy(p) /\ saving[p].doc \in Document
    BY <1>4, BeforeStep DEF SaveAmounts, SaveOK, SaveState
  <2>2. CASE Merges(p)
    <3> DEFINE merged == UpdateSpec(files[saving[p].path], saving[p].doc)
    <3>1. saving'[p].doc = merged /\ saving'[p].path = saving[p].path
      BY <2>2 DEF Merges, Continues
    <3>2. merged.rounds = saving[p].doc.rounds /\ merged.status = saving[p].doc.status
      BY <2>1 DEF UpdateSpec, Prose, Document
    <3> HIDE DEF merged
    <3>3. QED
      BY <2>1, <3>1, <3>2 DEF OpenedInv, Has, Target
  <2>3. CASE GivesUp(p) \/ Replaces(p) \/ Unsynced(p)
    BY <2>3 DEF GivesUp, Replaces, Unsynced, SaveEnds, OpenedInv, Busy
  <2>4. QED
    BY <1>4, <2>2, <2>3, AskerSaves
<1>5. QED
  BY <1>1, <1>2, <1>3, <1>4

\* And then in the draft that the other command can still open a round for.
LEMMA KnownStep ==
  ASSUME TypeOK, DocumentsInv, NEW p \in Procs, Asks(p), Pair, OpenedInv(p), KnownInv(p),
         NEW r \in Procs, Still(r), Amounts(r) \/ SaveAmounts(r)
  PROVE  KnownInv(p)'
<1> SUFFICES ASSUME (Awaits(p) \/ (proc[p].pc = "opened" /\ Saved(p)))', NEW q \in Procs \ {p},
                    proc'[q].pc \in {"start", "verify"}, files'["drafts"] # Absent
             PROVE  Has(files'["drafts"], proc'[p].round)
  BY DEF KnownInv
<1>0. files \in [Dir -> Document \cup {Absent}] /\ "drafts" \in Dir
  BY BeforeStep, FourDirs
<1>1. CASE r = p
  <2>0. proc'[q] = proc[q]
    BY <1>1 DEF Still
  <2>1. CASE SaveAmounts(p)
    <3>1. proc' = proc /\ proc[p].pc \in Waits /\ Busy(p)
      BY <2>1, BeforeStep DEF SaveAmounts
    <3>2. proc[p].pc = "opened" /\ saving'[p].step = "done"
      BY <3>1 DEF Awaits, Waits, Saved
    <3>3. Replaces(p)
      BY <2>1, <3>2, AskerSaves DEF Merges, GivesUp, Unsynced, Continues
    <3>4. saving[p].path = "drafts" /\ Has(saving[p].doc, proc[p].round)
      BY <3>1, <3>2 DEF OpenedInv
    <3>5. files'["drafts"] = saving[p].doc
      BY <1>0, <3>3, <3>4 DEF Replaces
    <3>6. QED
      BY <3>1, <3>4, <3>5
  <2>2. CASE Looks(p) /\ proc'[p].pc = "record"
    <3>1. files' = files /\ Find = "drafts" /\ HasRound(Visible) /\ proc'[p].round = LatestRound(Visible).id
      BY <2>2 DEF Looks, Silent
    <3>2. Visible = files["drafts"] /\ Visible \in Document
      BY <3>1, VisibleIs DEF Visible
    <3>3. QED
      BY <3>1, <3>2, LatestHas
  <2>3. CASE Amounts(p) /\ ~(Looks(p) /\ proc'[p].pc = "record")
    <3>1. /\ files' = files /\ proc'[p].round = proc[p].round
          /\ Awaits(p) \/ (proc[p].pc = "opened" /\ Saved(p))
      BY <2>3 DEF Amounts, Rests, Looks, Proceeds, Silent, Overrides, Creates, Opens, Judges, SavesApproved,
         SavesArchived, Begins, Awaits, Saved
    <3>2. QED
      BY <2>0, <3>1 DEF KnownInv
  <2>4. QED
    BY <1>1, <2>1, <2>2, <2>3
<1>2. CASE r # p
  <2>1. q = r /\ proc'[p] = proc[p] /\ saving'[p] = saving[p]
    BY <1>2 DEF Pair, Still
  <2>2. proc[q].pc \in {"start", "verify"} /\ files' = files
    <3>1. CASE SaveAmounts(q)
      BY <3>1, BeforeStep DEF SaveAmounts, Waits
    <3>2. CASE Amounts(q)
      BY <3>2 DEF Amounts, Rests, Looks, Proceeds, Silent, Overrides, Creates, Opens, Judges, SavesApproved,
         SavesArchived, Begins, Waits
    <3>3. QED
      BY <2>1, <3>1, <3>2
  <2>3. QED
    BY <2>1, <2>2 DEF KnownInv, Awaits, Saved
<1>3. QED
  BY <1>1, <1>2

\* A command that asks for an answer leaves no room for two moves.
LEMMA AskerAlone ==
  ASSUME Pair, NEW p \in Procs, Asks(p)
  PROVE  ~TwoMoves
BY DEF Pair, Asks, Answerers, TwoMoves, Approves

\* An opened round has the next id and leaves the contract alone.
LEMMA OpenedIs ==
  ASSUME TypeOK, NEW r \in Procs, Find # "none", NEW doc,
         \E by \in {"operator", "provider"} : Opens(r) /\ doc = WithRound(Visible, by, proc[r].now)
  PROVE  doc.contract = Visible.contract /\ LatestRound(doc).id = NextRoundID(Visible)
<1>1. PICK by \in {"operator", "provider"} : doc = WithRound(Visible, by, proc[r].now)
  OBVIOUS
<1>2. Visible \in Document /\ proc[r].now \in Nat
  BY VisibleIs, BeforeStep DEF CommandOK, CommandState
<1>3. QED
  BY <1>1, <1>2, WithRoundIs, ZenonT(60)

\* A spec that is somewhere is found.
LEMMA PlacesFound ==
  /\ PlacesInv => Find # "none"
  /\ PlacesInv' => (Find # "none")'
<1>1. PlacesInv => Find # "none"
  BY FindFirst DEF PlacesInv, Somewhere
<1>2. ASSUME PlacesInv' PROVE FoundIn(files') # "none"
  BY <1>2, Found, FourDirs DEF PlacesInv, Somewhere
<1>3. QED
  BY <1>1, <1>2, FindIs

\* What is in play is covered.
LEMMA PlayCovered ==
  ASSUME TypeOK, DocumentsInv, PlacesInv, CoveredInv, NEW doc, InPlay(doc)
  PROVE  Covered(doc)
<1>1. CASE Find # "none" /\ doc = Visible
  BY <1>1, FindFirst DEF Visible, CoveredInv
<1>2. CASE \E x \in Procs : (Busy(x) /\ doc = saving[x].doc) \/ (Holding(x) /\ doc = proc[x].doc)
  BY <1>2 DEF CoveredInv
<1>3. ASSUME NEW x \in Procs, Moving(x) PROVE Covered(files[Target(saving[x].doc)])
  <2>1. Busy(x) /\ saving[x].step = "remove" /\ (Promotes(x) \/ Archives(x)) /\ Target(saving[x].doc) \in Dir
    BY <1>3, MovesAre DEF Moving, DocumentsInv, SaveInv
  <2>2. files[Target(saving[x].doc)] # Absent
    BY <2>1, MovesAre DEF PlacesInv, PromoteInv, ArchiveInv, Archiving
  <2>3. QED
    BY <2>1, <2>2 DEF CoveredInv
<1>4. QED
  BY <1>1, <1>2, <1>3 DEF InPlay

\* When the one who displaced the draft is done, nothing but the spec is in play.
LEMMA Undisplaced ==
  ASSUME TypeOK', Pair, NEW p \in Procs, Asks(p), ApartInv(p), Displaced, ~Displaced',
         NEW r \in Procs, Still(r), proc'[r].kind = proc[r].kind
  PROVE  LiveInv' /\ ~Active(p)'
<1>1. PICK q \in Procs : Displaces(q) /\ Active(q)
  BY DEF Displaced
<1>2. ~Active(q)' /\ q = r
  BY <1>1 DEF Displaced, Displaces, Active, Still
<1>3. ~Active(p) /\ p # r
  BY <1>1, <1>2 DEF ApartInv, Asks, Answerers, Displaces
<1>4. ~Active(p)'
  BY <1>3 DEF Active, Still
<1>5. ASSUME NEW x \in Procs PROVE ~Busy(x)' /\ ~Holding(x)' /\ ~Moving(x)'
  <2>1. ~Active(x)'
    BY <1>2, <1>3, <1>4 DEF Pair
  <2>2. ~Busy(x)'
    BY <2>1 DEF TypeOK, Active, Waits
  <2>3. QED
    BY <2>1, <2>2 DEF Active, Holding, Moving
<1>6. LiveInv'
  BY <1>5 DEF LiveInv, InPlay
<1>7. QED
  BY <1>4, <1>6

\* No step but an edit brings another contract into play.
LEMMA LiveStep ==
  ASSUME TypeOK, TypeOK', DocumentsInv, PlacesInv, PlacesInv', Pair, NEW p \in Procs, Asks(p), ApartInv(p), LiveInv,
         NEW r \in Procs, Still(r), Amounts(r) \/ SaveAmounts(r)
  PROVE  LiveInv'
<1>1. proc'[r].kind = proc[r].kind /\ ~TwoMoves
  BY KindStays, AskerAlone
<1>2. CASE Displaced /\ ~Displaced'
  BY <1>1, <1>2, Undisplaced
<1>3. CASE ~Displaced /\ ~Displaced'
  <2>1. Find # "none" /\ (Find # "none")'
    BY PlacesFound
  <2>2. InPlay(Visible) /\ InPlay(Visible)'
    BY <2>1 DEF InPlay
  <2>3. ASSUME NEW doc, InPlay(doc)' PROVE doc.contract = Visible.contract
    <3>1. CASE \E old : InPlay(old) /\ Keeps(doc, old)
      BY <1>3, <3>1 DEF LiveInv, Keeps
    <3>2. CASE \E by \in {"operator", "provider"} : Opens(r) /\ doc = WithRound(Visible, by, proc[r].now)
      BY <2>1, <3>2, OpenedIs
    <3>3. QED
      BY <1>1, <1>3, <2>3, <3>1, <3>2, PlayKept
  <2>4. Visible'.contract = Visible.contract
    BY <2>2, <2>3
  <2>5. QED
    BY <2>3, <2>4 DEF LiveInv
<1>4. QED
  BY <1>2, <1>3 DEF LiveInv

\* What an answer is awaited for stays the contract that was asked about, or an
\* older one.
LEMMA AwaitStep ==
  ASSUME TypeOK, TypeOK', DocumentsInv, PlacesInv, PlacesInv', Pair, NEW p \in Procs, Asks(p),
         ApartInv(p), ApartInv(p)', CoveredInv, LiveInv, LiveInv', AwaitInv(p), KnownInv(p),
         NEW r \in Procs, Still(r), Amounts(r) \/ SaveAmounts(r)
  PROVE  AwaitInv(p)'
<1> SUFFICES ASSUME Awaits(p)'
             PROVE  /\ Newer(Visible'.contract, proc'[p].doc.contract)
                    /\ \A doc : InPlay(doc)' /\ HasRound(doc) /\ LatestRound(doc).id = proc'[p].round =>
                         Newer(proc'[p].doc.contract, LatestRound(doc).digest)
  BY DEF AwaitInv
<1>0. proc'[r].kind = proc[r].kind /\ ~TwoMoves
  BY KindStays, AskerAlone
<1>f. Find # "none" /\ (Find # "none")'
  BY PlacesFound
<1>v. InPlay(Visible) /\ InPlay(Visible)' /\ Visible \in Document
  BY <1>f, VisibleIs DEF InPlay
<1>1. ~Displaced'
  BY DEF Displaced, ApartInv, Active, Awaits
<1>2. ~Displaced
  BY <1>0, <1>1, Undisplaced DEF Active, Awaits
<1>3. ASSUME NEW doc, InPlay(doc)', ~Opens(r) PROVE \E old : InPlay(old) /\ Keeps(doc, old)
  BY <1>0, <1>1, <1>2, <1>3, PlayKept
<1>4. Visible'.contract = Visible.contract
  <2>1. CASE \E old : InPlay(old) /\ Keeps(Visible', old)
    BY <1>2, <2>1 DEF LiveInv, Keeps
  <2>2. CASE \E by \in {"operator", "provider"} : Opens(r) /\ Visible' = WithRound(Visible, by, proc[r].now)
    BY <1>f, <2>2, OpenedIs
  <2>3. QED
    BY <1>0, <1>1, <1>2, <1>v, <2>1, <2>2, PlayKept
<1>5. CASE Awaits(p) /\ proc'[p].doc = proc[p].doc /\ proc'[p].round = proc[p].round
  <2>1. Newer(Visible'.contract, proc'[p].doc.contract)
    BY <1>4, <1>5 DEF AwaitInv
  <2>2. ASSUME NEW doc, InPlay(doc)', HasRound(doc), LatestRound(doc).id = proc'[p].round
        PROVE  Newer(proc'[p].doc.contract, LatestRound(doc).digest)
    <3>1. CASE \E old : InPlay(old) /\ Keeps(doc, old)
      BY <1>5, <2>2, <3>1 DEF AwaitInv, Keeps
    <3>2. CASE \E by \in {"operator", "provider"} : Opens(r) /\ doc = WithRound(Visible, by, proc[r].now)
      <4>1. LatestRound(doc).id = NextRoundID(Visible)
        BY <1>f, <3>2, OpenedIs
      <4>2. r # p /\ proc[r].pc \in {"start", "verify"} /\ Find = "drafts"
        BY <1>5, <3>2 DEF Opens, Awaits, DocumentsInv, CommandInv
      <4>3. Visible = files["drafts"] /\ files["drafts"] # Absent
        BY <4>2, FindFirst DEF Visible
      <4>4. Has(Visible, proc[p].round)
        BY <1>5, <4>2, <4>3 DEF KnownInv
      <4>5. QED
        BY <1>5, <1>v, <2>2, <4>1, <4>4, NextRoundIDFresh DEF Has
    <3>3. QED
      BY <1>0, <1>1, <1>2, <2>2, <3>1, <3>2, PlayKept
  <2>3. QED
    BY <2>1, <2>2
<1>6. CASE r = p /\ ~(Awaits(p) /\ proc'[p].doc = proc[p].doc /\ proc'[p].round = proc[p].round)
  <2>1. Looks(p)
    <3>1. ~SaveAmounts(p)
      BY BeforeStep DEF SaveAmounts, Awaits, Waits
    <3>2. QED
      BY <1>6, <3>1 DEF Amounts, Rests, Proceeds, Overrides, Creates, Opens, Judges, SavesApproved, SavesArchived, Begins,
         Awaits, Waits
  <2>2. proc'[p].doc = Visible /\ ~Opens(p)
    BY <2>1 DEF Looks, Awaits, Opens, Begins, Waits
  <2>3. Newer(Visible'.contract, proc'[p].doc.contract)
    BY <1>4, <2>2 DEF Newer
  <2>4. ASSUME NEW doc, InPlay(doc)', HasRound(doc)
        PROVE  Newer(Visible.contract, LatestRound(doc).digest)
    <3>1. PICK old : InPlay(old) /\ Keeps(doc, old)
      BY <1>3, <1>6, <2>2, <2>4
    <3>2. HasRound(old) /\ old.contract = Visible.contract /\ LatestRound(doc).digest = LatestRound(old).digest
      BY <1>2, <2>4, <3>1 DEF Keeps, LiveInv
    <3>3. Covered(old)
      BY <3>1, PlayCovered
    <3>4. QED
      BY <3>2, <3>3 DEF Covered
  <2>5. QED
    BY <2>2, <2>3, <2>4
<1>7. CASE r # p
  BY <1>5, <1>7 DEF Still, Awaits
<1>8. QED
  BY <1>5, <1>6, <1>7

\* Newer is an order.
LEMMA NewerTransitive ==
  ASSUME NEW a \in Contract, NEW b \in Contract, NEW c \in Contract, Newer(a, b), Newer(b, c)
  PROVE  Newer(a, c)
BY DEF Newer, Contract

LEMMA NewerBoth ==
  ASSUME NEW a \in Contract, NEW b \in Contract, Newer(a, b), Newer(b, a)
  PROVE  a = b
BY DEF Newer, Contract

\* What the operator leaves of the spec.
Revised(doc) ==
  /\ files' = [files EXCEPT ![Find] = doc]
  /\ Newer(doc.contract, Visible.contract) /\ (HasRound(doc) <=> HasRound(Visible))
  /\ HasRound(doc) =>
       LatestRound(doc).id = LatestRound(Visible).id /\ LatestRound(doc).digest = LatestRound(Visible).digest
  /\ Covered(Visible) => Covered(doc)
  /\ \A id : Has(Visible, id) => Has(doc, id)

\* An edit rewrites the file that readers find.
LEMMA RevisedIs ==
  ASSUME TypeOK, EditContract \/ EditNotes \/ FillObservations, ~overlapped'
  PROVE  /\ ~overlapped /\ Find # "none"
         /\ \E doc \in Document : Revised(doc) /\ (~Stale \/ (Keeps(doc, Visible) /\ ~Merged))
<1>1. Find # "none" /\ Find \in Dir /\ Visible \in Document
  <2>1. Find # "none"
    BY DEF EditContract, EditNotes, FillObservations
  <2>2. QED
    BY <2>1, VisibleIs
<1>2. edits \in [contract : Nat, notes : Nat, filled : Nat]
  BY DEF TypeOK
<1>3. CASE EditContract
  <2>1. PICK shape \in {Visible.contract.shape, Visible.contract.shape + 1} :
          Writes([Visible EXCEPT !.contract = [text |-> Visible.contract.text + 1, shape |-> shape]], Stale)
    BY <1>3 DEF EditContract
  <2> DEFINE contract == [text |-> Visible.contract.text + 1, shape |-> shape]
             doc == [Visible EXCEPT !.contract = contract]
  <2>2. contract \in Contract /\ contract.text = Visible.contract.text + 1 /\ Visible.contract \in Contract
    BY <1>1 DEF Document, Contract
  <2>3. Writes(doc, Stale)
    BY <2>1
  <2> HIDE DEF contract
  <2>4. doc \in Document /\ doc.rounds = Visible.rounds /\ doc.contract = contract
    BY <1>1, <2>2 DEF Document
  <2> HIDE DEF doc
  <2>5. ~overlapped /\ ~Stale
    <3>1. overlapped' = (overlapped \/ Stale)
      BY <2>3 DEF Writes
    <3>2. QED
      BY <3>1, Zenon
  <2>6. Newer(contract, Visible.contract)
    BY <2>2 DEF Newer, Contract
  <2>7. HasRound(doc) = HasRound(Visible) /\ LatestRound(doc) = LatestRound(Visible)
    BY <2>4 DEF HasRound, LatestRound
  <2>8. ASSUME Covered(Visible) PROVE Covered(doc)
    <3> SUFFICES ASSUME HasRound(doc)
                 PROVE  Newer(contract, LatestRound(doc).digest) /\ LatestRound(doc).digest # contract
      BY <2>4 DEF Covered
    <3>1. LatestRound(doc).digest \in Contract
      BY <1>1, <2>7, LatestType DEF Round
    <3>2. Newer(Visible.contract, LatestRound(doc).digest)
      BY <2>7, <2>8 DEF Covered
    <3>3. QED
      BY <2>2, <3>1, <3>2 DEF Newer, Contract
  <2>9. QED
    BY <1>1, <2>3, <2>4, <2>5, <2>6, <2>7, <2>8 DEF Writes, Revised, Has
<1>4. CASE EditNotes
  <2> DEFINE doc == [Visible EXCEPT !.notes = edits.notes + 1]
  <2>1. Writes(doc, Merged)
    BY <1>4 DEF EditNotes
  <2>2. doc \in Document /\ doc.rounds = Visible.rounds /\ doc.contract = Visible.contract
    BY <1>1, <1>2 DEF Document
  <2> HIDE DEF doc
  <2>3. Keeps(doc, Visible) /\ KeepsPass(doc, Visible)
    BY <1>1, <2>2, RoundsKept
  <2>4. ~overlapped /\ ~Merged
    <3>1. overlapped' = (overlapped \/ Merged)
      BY <2>1 DEF Writes
    <3>2. QED
      BY <3>1, Zenon
  <2>5. Covered(Visible) => Covered(doc)
    BY <2>3, KeepsCovered
  <2>6. QED
    BY <1>1, <2>1, <2>2, <2>3, <2>4, <2>5 DEF Writes, Revised, Keeps, Newer, Has
<1>5. CASE FillObservations
  <2>1. PICK obs \in {"ok", "open", "bad"} :
          Writes([Visible EXCEPT !.rounds[Len(Visible.rounds)].obs = obs], Stale)
    BY <1>5 DEF FillObservations
  <2> DEFINE doc == [Visible EXCEPT !.rounds[Len(Visible.rounds)].obs = obs]
  <2>2. Writes(doc, Stale)
    BY <2>1
  <2>3. /\ doc \in Document /\ Keeps(doc, Visible) /\ KeepsPass(doc, Visible)
        /\ \A id : Has(Visible, id) => Has(doc, id)
    BY <1>1, <1>5, FilledIs DEF FillObservations
  <2> HIDE DEF doc
  <2>4. ~overlapped /\ ~Stale
    <3>1. overlapped' = (overlapped \/ Stale)
      BY <2>2 DEF Writes
    <3>2. QED
      BY <3>1, Zenon
  <2>5. Covered(Visible) => Covered(doc)
    BY <2>3, KeepsCovered
  <2>6. QED
    BY <1>1, <2>2, <2>3, <2>4, <2>5 DEF Writes, Revised, Keeps, Newer
<1>6. QED
  BY <1>3, <1>4, <1>5

\* Where the operator edits the spec, it is still found.
LEMMA RevisedPlaces ==
  ASSUME TypeOK, Find # "none", NEW doc \in Document, files' = [files EXCEPT ![Find] = doc]
  PROVE  /\ Find' = Find /\ Visible' = doc /\ doc # Absent /\ Find \in Dir
         /\ \A d \in Dir : files'[d] = IF d = Find THEN doc ELSE files[d]
<1>1. files \in [Dir -> Document \cup {Absent}] /\ Find \in Dir /\ files[Find] # Absent /\ doc # Absent
  BY FindFirst, AbsentIsNone DEF TypeOK
<1>2. \A d \in {"drafts", "approved", "active", "archive"} : files'[d] = IF d = Find THEN doc ELSE files[d]
  BY <1>1, FourDirs
<1>3. Find' = Find
  <2>1. \A d \in {"drafts", "approved", "active", "archive"} : files'[d] = Absent <=> files[d] = Absent
    BY <1>1, <1>2
  <2>2. FoundIn(files') = FoundIn(files)
    BY <2>1, Found
  <2>3. QED
    BY <2>2, FindIs
<1>4. QED
  BY <1>1, <1>2, <1>3, FourDirs DEF Visible

\* Then all that the commands rely on is as before.
LEMMA RevisedCovered ==
  ASSUME TypeOK, CoveredInv, Find # "none", NEW doc \in Document, Revised(doc), proc' = proc, saving' = saving
  PROVE  CoveredInv'
<1>1. Find \in Dir /\ \A d \in Dir : files'[d] = IF d = Find THEN doc ELSE files[d]
  BY RevisedPlaces DEF Revised
<1>2. Covered(Visible)
  BY FindFirst DEF CoveredInv, Visible
<1>3. QED
  BY <1>1, <1>2 DEF CoveredInv, Revised, Busy, Holding

\* After an edit only the edited spec, or what it leaves as it was, is in play.
LEMMA RevisedPlay ==
  ASSUME TypeOK, DocumentsInv, Find # "none", NEW doc \in Document, Revised(doc),
         ~Stale \/ (Keeps(doc, Visible) /\ ~Merged),
         proc' = proc, saving' = saving, NEW other, InPlay(other)'
  PROVE  other = doc \/ (InPlay(other) /\ Keeps(doc, Visible))
<1>1. Visible' = doc
  BY RevisedPlaces DEF Revised
<1>2. ASSUME NEW x \in Procs PROVE ~Moving(x)' /\ (~Stale => ~Busy(x) /\ ~Holding(x))
  <2>1. ~Stale => ~Busy(x) /\ ~Holding(x)
    BY DEF Stale, Holding
  <2>2. ~Stale \/ ~Merged => ~Moving(x)
    BY <2>1 DEF Merged, Moving
  <2>3. Moving(x)' = Moving(x)
    BY DEF Moving, Busy
  <2>4. QED
    BY <2>1, <2>2, <2>3
<1>3. CASE Stale
  BY <1>1, <1>2, <1>3 DEF InPlay, Busy, Holding
<1>4. CASE ~Stale
  <2>1. \A x \in Procs : ~Busy(x)' /\ ~Holding(x)' /\ ~Moving(x)'
    BY <1>2, <1>4 DEF Busy, Holding
  <2>2. QED
    BY <1>1, <2>1 DEF InPlay
<1>5. QED
  BY <1>3, <1>4

\* An edit leaves what a command that asks relies on.
LEMMA RevisedAsker ==
  ASSUME TypeOK, DocumentsInv, Find # "none", NEW doc \in Document, Revised(doc),
         ~Stale \/ (Keeps(doc, Visible) /\ ~Merged), proc' = proc, saving' = saving,
         NEW p \in Procs, Asks(p), ApartInv(p), LiveInv, AwaitInv(p), OpenedInv(p), KnownInv(p)
  PROVE  ApartInv(p)' /\ LiveInv' /\ AwaitInv(p)' /\ OpenedInv(p)' /\ KnownInv(p)'
<1>1. /\ Find' = Find /\ Visible' = doc /\ doc # Absent /\ Find \in Dir
      /\ \A d \in Dir : files'[d] = IF d = Find THEN doc ELSE files[d]
  BY RevisedPlaces DEF Revised
<1>2. "drafts" \in Dir /\ files[Find] # Absent /\ (files["drafts"] # Absent => Find = "drafts")
  BY FourDirs, FindFirst
<1>3. files'["drafts"] = Absent <=> files["drafts"] = Absent
  BY <1>1, <1>2
<1>4. ApartInv(p)'
  BY <1>3 DEF ApartInv, Displaces, Active
<1>5. OpenedInv(p)'
  BY DEF OpenedInv, Busy
<1>6. KnownInv(p)'
  <2>1. files["drafts"] # Absent => Visible = files["drafts"] /\ files'["drafts"] = doc
    BY <1>1, <1>2 DEF Visible
  <2>2. QED
    BY <1>3, <2>1 DEF KnownInv, Awaits, Saved, Revised
<1>7. InPlay(Visible)
  BY DEF InPlay
<1>8. Displaced' = Displaced
  BY DEF Displaced, Displaces, Active
<1>9. LiveInv'
  <2>1. ASSUME ~Displaced, NEW other, InPlay(other)' PROVE other.contract = doc.contract
    <3>1. other = doc \/ (InPlay(other) /\ Keeps(doc, Visible))
      BY <2>1, RevisedPlay
    <3>2. QED
      BY <2>1, <3>1 DEF LiveInv, Keeps
  <2>2. QED
    BY <1>1, <1>8, <2>1 DEF LiveInv
<1>10. AwaitInv(p)'
  <2> SUFFICES ASSUME Awaits(p)
               PROVE  /\ Newer(doc.contract, proc[p].doc.contract)
                      /\ \A other : InPlay(other)' /\ HasRound(other) /\ LatestRound(other).id = proc[p].round =>
                           Newer(proc[p].doc.contract, LatestRound(other).digest)
    BY <1>1 DEF AwaitInv, Awaits
  <2>1. Visible \in Document /\ proc[p].doc \in Document
    BY VisibleIs, BeforeStep DEF CommandOK, CommandState, Awaits, Holds
  <2>2. Newer(doc.contract, Visible.contract) /\ Newer(Visible.contract, proc[p].doc.contract)
    BY DEF Revised, AwaitInv
  <2>3. Newer(doc.contract, proc[p].doc.contract)
    BY <2>1, <2>2, NewerTransitive DEF Document
  <2>4. ASSUME NEW other, InPlay(other)', HasRound(other), LatestRound(other).id = proc[p].round
        PROVE  Newer(proc[p].doc.contract, LatestRound(other).digest)
    <3>1. CASE other = doc
      BY <1>7, <2>4, <3>1 DEF Revised, AwaitInv
    <3>2. CASE InPlay(other)
      BY <2>4, <3>2 DEF AwaitInv
    <3>3. QED
      BY <2>4, <3>1, <3>2, RevisedPlay
  <2>5. QED
    BY <2>3, <2>4
<1>11. QED
  BY <1>4, <1>5, <1>6, <1>9, <1>10

\* A command that is killed leaves less in play, and maybe a draft displaced no more.
LEMMA DiesAsker ==
  ASSUME TypeOK, TypeOK', Pair, NEW r \in Procs, Still(r), files' = files, proc'[r].pc = "over",
         proc'[r].kind = proc[r].kind, saving'[r].step = "idle",
         NEW p \in Procs, Asks(p), ApartInv(p), LiveInv, AwaitInv(p), OpenedInv(p), KnownInv(p)
  PROVE  ApartInv(p)' /\ LiveInv' /\ AwaitInv(p)' /\ OpenedInv(p)' /\ KnownInv(p)'
<1>1. Find' = Find /\ Visible' = Visible
  BY DEF Find, Visible
<1>2. ASSUME NEW doc, InPlay(doc)' PROVE InPlay(doc)
  <2>1. ~Busy(r)' /\ ~Holding(r)' /\ ~Moving(r)'
    BY DEF Busy, Holding, Moving
  <2>2. \A x \in Procs \ {r} : Moving(x) => files'[Target(saving[x].doc)] = files[Target(saving[x].doc)]
    OBVIOUS
  <2>3. QED
    BY <1>1, <1>2, <2>1, <2>2, PlayIs, ZenonT(60) DEF InPlay
<1>3. \A q \in Procs : (Active(q)' => Active(q)) /\ Displaces(q)' = Displaces(q)
  BY DEF Active, Displaces, Still
<1>4. ApartInv(p)'
  BY <1>3 DEF ApartInv
<1>5. LiveInv'
  <2>1. CASE Displaced /\ ~Displaced'
    BY <2>1, Undisplaced
  <2>2. CASE ~Displaced \/ Displaced'
    BY <1>1, <1>2, <2>2 DEF LiveInv
  <2>3. QED
    BY <2>1, <2>2
<1>6. AwaitInv(p)'
  <2>1. Awaits(p)' => p # r /\ Awaits(p) /\ proc'[p] = proc[p]
    BY DEF Awaits, Still
  <2>2. QED
    BY <1>1, <1>2, <2>1 DEF AwaitInv
<1>7. OpenedInv(p)'
  BY DEF OpenedInv, Busy, Still
<1>8. KnownInv(p)'
  BY DEF KnownInv, Awaits, Saved, Still
<1>9. QED
  BY <1>4, <1>5, <1>6, <1>7, <1>8

\* The inductive invariant: until an edit is overlapped by a Save.
PassInv ==
  overlapped \/
    /\ CoveredInv
    /\ \A p \in Procs : Asks(p) => ApartInv(p) /\ LiveInv /\ AwaitInv(p) /\ OpenedInv(p) /\ KnownInv(p)

\* No step takes a command out of its stages.
LEMMA StagesStep ==
  ASSUME TypeOK, DocumentsInv, \A q \in Procs : StageInv(q), [Next]_vars
  PROVE  \A q \in Procs : StageInv(q)'
<1>1. ASSUME NEW r \in Procs, Step(r), NEW q \in Procs PROVE StageInv(q)'
  <2>1. Frame(r) /\ (Amounts(r) \/ SaveAmounts(r))
    BY <1>1, StepFrame, StepAmounts, SavingIs
  <2>2. CASE q = r
    BY <2>1, <2>2, StageStep
  <2>3. CASE q # r
    BY <2>1, <2>3 DEF Frame, StageInv, Busy, Archives, Promotes, Approves
  <2>4. QED
    BY <2>2, <2>3
<1>2. ASSUME NEW r \in Procs, Crash(r), NEW q \in Procs PROVE StageInv(q)'
  <2>1. Dies(r) /\ proc'[r].pc = "over" /\ saving'[r].step = "idle" /\ proc'[r].kind = proc[r].kind
    BY <1>2, DiesIs
  <2>2. q # r => proc'[q] = proc[q] /\ saving'[q] = saving[q]
    BY <2>1, BeforeStep DEF Dies
  <2>3. QED
    BY <2>1, <2>2 DEF StageInv, Busy, Archives, Promotes, Approves
<1>3. CASE UNCHANGED vars \/ (\E r \in Procs : Cancel(r)) \/ EditContract \/ EditNotes \/ FillObservations
  <2>1. proc' = proc /\ saving' = saving
    BY <1>3, EditsIs DEF vars, storeVars, Cancel, Edits
  <2>2. QED
    BY <2>1 DEF StageInv, Busy, Archives, Promotes, Approves
<1>4. QED
  BY <1>1, <1>2, <1>3 DEF Next, Operator, Over

\* The invariant holds of a spec that nobody works on.
LEMMA PassInit ==
  ASSUME Init
  PROVE  PassInv /\ \A q \in Procs : StageInv(q)
<1>1. PICK s \in Scenarios : StoreInit(s.files) /\ proc = [p \in Procs |-> Command("start", s.commands[p].kind, s.commands[p].now)]
  BY DEF Init
<1>2. Starts(s.files) /\ files = s.files
  BY <1>1, HardenAssumption DEF StoreInit
<1>3. \A d \in Dir : files[d] # Absent => Covered(files[d])
  BY <1>2 DEF Starts
<1>4. \A q \in Procs : ~Busy(q) /\ proc[q].pc = "start"
  BY <1>1 DEF StoreInit, Idle, Command, Busy
<1>5. CoveredInv
  BY <1>3, <1>4 DEF CoveredInv, Holding
<1>6. ASSUME NEW p \in Procs PROVE ApartInv(p) /\ LiveInv /\ AwaitInv(p) /\ OpenedInv(p) /\ KnownInv(p)
  BY <1>4 DEF ApartInv, Active, LiveInv, InPlay, Moving, Holding, AwaitInv, Awaits, OpenedInv, KnownInv
<1>7. QED
  BY <1>4, <1>5, <1>6 DEF PassInv, StageInv

\* The invariant is inductive.
LEMMA PassStep ==
  ASSUME TypeOK, TypeOK', DocumentsInv, TwoMoves \/ PlacesInv, (TwoMoves \/ PlacesInv)', Pair,
         \A q \in Procs : StageInv(q), PassInv, [Next]_vars
  PROVE  PassInv'
<1>0. \A q \in Procs : proc'[q].kind = proc[q].kind
  BY KindsKept
<1>a. \A q \in Procs : Asks(q)' = Asks(q)
  BY <1>0 DEF Asks
<1>p. ASSUME NEW p \in Procs, Asks(p) PROVE PlacesInv /\ PlacesInv'
  <2>1. ~TwoMoves
    BY <1>p, AskerAlone
  <2>2. TwoMoves' = TwoMoves
    BY <1>0 DEF TwoMoves, Approves
  <2>3. QED
    BY <2>1, <2>2
<1>1. ASSUME NEW r \in Procs, Step(r) PROVE PassInv'
  <2>1. Frame(r) /\ (Amounts(r) \/ SaveAmounts(r)) /\ proc[r].pc # "over"
    BY <1>1, StepFrame, StepAmounts, SavingIs, StepAlive
  <2>2. Still(r) /\ overlapped' = overlapped
    BY <2>1 DEF Frame, Still
  <2>4. CASE overlapped
    BY <2>2, <2>4 DEF PassInv
  <2>5. CASE ~overlapped
    <3>1. CoveredInv
      BY <2>5 DEF PassInv
    <3>2. ASSUME proc[r].pc = "record", Find # "none", IsMine(r), LatestRound(Visible).digest = Visible.contract
          PROVE  proc[r].doc.contract = Visible.contract
      <4>1. Asks(r) /\ proc[r].doc \in Document /\ Visible \in Document /\ InPlay(Visible)
        BY <3>2, VisibleIs, BeforeStep DEF CommandOK, CommandState, Holds, Asks, Answerers, InPlay
      <4>2. AwaitInv(r) /\ Awaits(r)
        BY <2>5, <3>2, <4>1 DEF PassInv, Awaits
      <4>3. Newer(Visible.contract, proc[r].doc.contract) /\ Newer(proc[r].doc.contract, Visible.contract)
        BY <3>2, <4>1, <4>2 DEF AwaitInv, IsMine
      <4>4. QED
        BY <4>1, <4>3, NewerBoth DEF Document
    <3>3. CoveredInv'
      BY <2>1, <2>2, <3>1, <3>2, CoveredStep
    <3>4. ASSUME NEW p \in Procs, Asks(p)
          PROVE  (ApartInv(p) /\ LiveInv /\ AwaitInv(p) /\ OpenedInv(p) /\ KnownInv(p))'
      <4>1. ApartInv(p) /\ LiveInv /\ AwaitInv(p) /\ OpenedInv(p) /\ KnownInv(p) /\ PlacesInv /\ PlacesInv'
        BY <1>p, <2>5, <3>4 DEF PassInv
      <4>2. ApartInv(p)'
        BY <2>1, <2>2, <3>4, <4>1, ApartStep
      <4>3. LiveInv'
        BY <2>1, <2>2, <3>4, <4>1, LiveStep
      <4>4. AwaitInv(p)'
        BY <2>1, <2>2, <3>1, <3>4, <4>1, <4>2, <4>3, AwaitStep
      <4>5. OpenedInv(p)'
        BY <2>1, <2>2, <3>4, <4>1, OpenedSaveStep
      <4>6. KnownInv(p)'
        BY <2>1, <2>2, <3>4, <4>1, KnownStep
      <4>7. QED
        BY <4>2, <4>3, <4>4, <4>5, <4>6
    <3>5. PassInv'
      BY <1>a, <3>3, <3>4 DEF PassInv
    <3>6. QED
      BY <3>5
  <2>6. QED
    BY <2>4, <2>5
<1>2. ASSUME NEW r \in Procs, Crash(r) PROVE PassInv'
  <2>1. Dies(r) /\ proc'[r].pc = "over" /\ saving'[r].step = "idle"
    BY <1>2, DiesIs
  <2>2. Still(r) /\ files' = files /\ ~Busy(r)'
    BY <2>1, BeforeStep DEF Dies, Still, Busy
  <2>3. overlapped' = overlapped
    BY <1>2 DEF Crash, Quiet
  <2>5. CoveredInv => CoveredInv'
    <3>1. \A d \in Dir : files'[d] = files[d]
      BY <2>2
    <3>2. ~(Holding(r) \/ proc[r].pc = "archive")'
      BY <2>1 DEF Holding
    <3>3. QED
      BY <2>2, <3>1, <3>2, CoveredChange
  <2>6. ASSUME NEW p \in Procs, Asks(p), ApartInv(p) /\ LiveInv /\ AwaitInv(p) /\ OpenedInv(p) /\ KnownInv(p)
        PROVE  (ApartInv(p) /\ LiveInv /\ AwaitInv(p) /\ OpenedInv(p) /\ KnownInv(p))'
    BY <1>0, <2>1, <2>2, <2>6, DiesAsker
  <2>7. PassInv'
    BY <1>a, <2>3, <2>5, <2>6 DEF PassInv
  <2>8. QED
    BY <2>7
<1>3. CASE EditContract \/ EditNotes \/ FillObservations
  <2>1. proc' = proc /\ saving' = saving
    BY <1>3, EditsIs DEF Edits
  <2>3. CASE ~overlapped'
    <3>1. ~overlapped /\ Find # "none"
      BY <1>3, <2>3, RevisedIs
    <3>2. PICK doc \in Document : Revised(doc) /\ (~Stale \/ (Keeps(doc, Visible) /\ ~Merged))
      BY <1>3, <2>3, RevisedIs
    <3>3. CoveredInv'
      BY <2>1, <3>1, <3>2, RevisedCovered DEF PassInv
    <3>4. ASSUME NEW p \in Procs, Asks(p)
          PROVE  (ApartInv(p) /\ LiveInv /\ AwaitInv(p) /\ OpenedInv(p) /\ KnownInv(p))'
      <4>1. ApartInv(p) /\ LiveInv /\ AwaitInv(p) /\ OpenedInv(p) /\ KnownInv(p)
        BY <3>1, <3>4 DEF PassInv
      <4>2. QED
        BY <2>1, <3>1, <3>2, <3>4, <4>1, RevisedAsker
    <3>5. QED
      BY <1>a, <3>3, <3>4 DEF PassInv
  <2>4. QED
    BY <2>3 DEF PassInv
<1>4. CASE UNCHANGED vars \/ \E r \in Procs : Cancel(r)
  <2>1. files' = files /\ proc' = proc /\ saving' = saving /\ overlapped' = overlapped
    BY <1>4 DEF vars, storeVars, Cancel, Quiet
  <2>2. Find' = Find /\ Visible' = Visible
    BY <2>1 DEF Find, Visible
  <2>3. \A doc : InPlay(doc)' = InPlay(doc)
    BY <2>1, <2>2 DEF InPlay, Busy, Holding, Moving
  <2>5. CoveredInv' = CoveredInv
    BY <2>1 DEF CoveredInv, Busy, Holding
  <2>6. Displaced' = Displaced
    BY <2>1 DEF Displaced, Displaces, Active
  <2>7. ASSUME NEW p \in Procs
        PROVE  /\ ApartInv(p)' = ApartInv(p) /\ (LiveInv => LiveInv') /\ (AwaitInv(p) => AwaitInv(p)')
               /\ OpenedInv(p)' = OpenedInv(p) /\ KnownInv(p)' = KnownInv(p)
    <3>1. ApartInv(p)' = ApartInv(p) /\ OpenedInv(p)' = OpenedInv(p) /\ KnownInv(p)' = KnownInv(p)
      BY <2>1 DEF ApartInv, Displaces, Active, OpenedInv, Busy, KnownInv, Awaits, Saved
    <3>2. LiveInv => LiveInv'
      BY <2>2, <2>3, <2>6 DEF LiveInv
    <3>3. AwaitInv(p) => AwaitInv(p)'
      BY <2>1, <2>2, <2>3 DEF AwaitInv, Awaits
    <3>4. QED
      BY <3>1, <3>2, <3>3
  <2>8. QED
    BY <1>a, <2>1, <2>5, <2>7 DEF PassInv
<1>5. QED
  BY <1>1, <1>2, <1>3, <1>4 DEF Next, Operator, Over

\* Commands are always in their stages.
LEMMA StagesInvariant == Spec => [](\A q \in Procs : StageInv(q))
<1> DEFINE Stages == \A q \in Procs : StageInv(q)
<1>1. Init => Stages
  BY PassInit
<1>2. TypeOK /\ DocumentsInv /\ Stages /\ [Next]_vars => Stages'
  BY StagesStep
<1>3. QED
  BY <1>1, <1>2, DocumentsInvariant, PTL DEF Spec

\* Whatever an answer, a Save or an edit overtakes, what the gate calls a pass was
\* judged against the contract the draft has now (Record, RoundKind), for any two
\* commands, any spec they start from, any number of edits in any order, faults,
\* crashes and interrupts.
THEOREM PassesCoverDraft ==
  ASSUME Pair
  PROVE  Spec => []PassCoversDraft
<1> DEFINE Stages == \A q \in Procs : StageInv(q)
           Inv == TypeOK /\ DocumentsInv /\ (TwoMoves \/ PlacesInv)
<1>1. Init => PassInv
  BY PassInit
<1>2. Inv /\ Inv' /\ Stages /\ PassInv /\ [Next]_vars => PassInv'
  BY PassStep
<1>3. TypeOK /\ PassInv => PassCoversDraft
  <2> SUFFICES ASSUME TypeOK, PassInv, ~overlapped, NEW d \in DOMAIN files, files[d] # Absent, HasRound(files[d]),
                      Kind(files[d]) = "passed"
               PROVE  LatestRound(files[d]).seen = files[d].contract
    BY DEF PassCoversDraft
  <2>1. d \in Dir /\ files[d] \in Document /\ Covered(files[d])
    BY DEF TypeOK, PassInv, CoveredInv
  <2>2. LatestRound(files[d]).status \in RoundStatus
    BY <2>1, LatestType DEF Round
  <2>3. LatestRound(files[d]).status = "passed" /\ LatestRound(files[d]).digest = files[d].contract
    BY <2>2 DEF Kind, RoundKind, LegacyKind, SameDraft, RoundStatus
  <2>4. QED
    BY <2>1, <2>3 DEF Covered
<1>4. QED
  <2> HIDE DEF Stages
  <2>1. Spec => []Inv
    BY PlacesInvariant
  <2>2. Spec => []Stages
    BY StagesInvariant DEF Stages
  <2>3. QED
    BY <1>1, <1>2, <1>3, <2>1, <2>2, PTL DEF Spec

-----------------------------------------------------------------------------
(* The operator's prose survives. *)

\* Two plans of one task: the second writes its draft over the one that the first
\* wrote and the operator edited since.
TwoPlans == \E p, q \in Procs : p # q /\ proc[p].kind = "plan" /\ proc[q].kind = "plan"

\* While an approval has the draft, what is saved is the draft, and while a finalize
\* has the approved spec, what is saved is not yet in the archive.
ApproverInv(x) ==
  Approves(x) /\ files["drafts"] # Absent =>
    \A y \in Procs \ {x} : proc[y].pc # "archive" /\ (Busy(y) => saving[y].path = "drafts")

ArchiverInv(x) ==
  proc[x].kind = "archive" /\ files["approved"] # Absent =>
    \A y \in Procs \ {x} : Busy(y) => saving[y].path # "archive"

\* A plan that saw no draft still has none when it writes one.
PlannerInv(q) ==
  proc[q].kind = "plan" =>
    /\ proc[q].pc = "create" => files["drafts"] = Absent
    /\ \A x \in Procs : Busy(x) /\ Target(saving[x].doc) = "drafts" => files["drafts"] # Absent

\* The file f has the operator's latest prose, and no command is about to replace
\* it by a spec without, or to take it away before there is another one.
UpToDate(f) == files[f] # Absent /\ files[f].notes = edits.notes

Safe(x, f) ==
  /\ proc[x].kind = "plan" /\ proc[x].pc = "create" => f # "drafts"
  /\ Busy(x) /\ saving[x].path = f =>
       /\ saving[x].step # "read" => saving[x].doc.notes = edits.notes
       /\ saving[x].step = "remove" => UpToDate(Target(saving[x].doc))
  /\ Busy(x) /\ saving[x].path # f /\ Target(saving[x].doc) = f => saving[x].step \in {"read", "stat"}

NotesInv == \E f \in Dir : UpToDate(f) /\ \A x \in Procs : Safe(x, f)

-----------------------------------------------------------------------------
\* Where a Save after a step of r comes from.
LEMMA SavesWhere ==
  ASSUME TypeOK, DocumentsInv, NEW r \in Procs, Amounts(r) \/ SaveAmounts(r), Busy(r)'
  PROVE  \/ /\ Busy(r) /\ SaveAmounts(r)
            /\ saving'[r].path = saving[r].path /\ Target(saving'[r].doc) = Target(saving[r].doc)
         \/ /\ ~Busy(r) /\ files' = files /\ saving'[r].step = "read"
            /\ \/ Find # "none" /\ saving'[r].path = Find /\ Target(saving'[r].doc) = Find
               \/ saving'[r].path = "drafts" /\ Target(saving'[r].doc) = "approved"
               \/ /\ proc[r].pc = "archive"
                  /\ saving'[r].path = "approved" /\ Target(saving'[r].doc) = "archive"
<1>0. CommandOK(proc[r]) /\ proc[r].now \in Nat
  BY BeforeStep DEF CommandOK, CommandState
<1>1. CASE Rests(r) \/ Looks(r) \/ Proceeds(r) \/ Overrides(r) \/ Creates(r)
  BY <1>1 DEF Rests, Looks, Proceeds, Silent, Overrides, Creates, Busy
<1>2. CASE Opens(r)
  <2>1. PICK by \in {"operator", "provider"} : Begins(r, Find, WithRound(Visible, by, proc[r].now))
    BY <1>2 DEF Opens
  <2>2. Visible \in Document /\ Target(Visible) = Find /\ Find # "none"
    BY <1>2, VisibleIs, VisibleSound DEF DocumentsInv, Opens
  <2>3. WithRound(Visible, by, proc[r].now).status = Visible.status
    BY <1>0, <2>2, WithRoundIs
  <2>4. QED
    BY <2>1, <2>2, <2>3 DEF Begins, Target
<1>3. CASE Judges(r)
  <2>1. PICK doc \in Document : Begins(r, Find, doc) /\ doc.status = Visible.status
    BY <1>3 DEF Judges
  <2>2. Target(Visible) = Find /\ Find # "none"
    BY <1>3, VisibleSound DEF DocumentsInv, Judges
  <2>3. QED
    BY <2>1, <2>2 DEF Begins, Target
<1>4. CASE SavesApproved(r)
  <2>1. proc[r].pc = "approval" /\ Begins(r, proc[r].path, Approved(proc[r].doc, proc[r].now))
    BY <1>4 DEF SavesApproved
  <2>2. proc[r].doc \in Document /\ Target(proc[r].doc) = proc[r].path /\ proc[r].doc.status = "draft"
    BY <1>0, <2>1 DEF DocumentsInv, CommandInv, CommandOK, CommandState, Holds
  <2>3. Approved(proc[r].doc, proc[r].now).status = "approved"
    BY <1>0, <2>2, ApprovedIs
  <2>4. QED
    BY <2>1, <2>2, <2>3 DEF Begins, Target
<1>5. CASE SavesArchived(r)
  <2> DEFINE doc == [proc[r].doc EXCEPT !.status = "completed", !.updated = proc[r].now]
  <2>1. proc[r].pc = "archive" /\ Begins(r, proc[r].path, doc)
    BY <1>5 DEF SavesArchived
  <2>2. proc[r].doc \in Document /\ Target(proc[r].doc) = proc[r].path /\ proc[r].doc.status = "approved"
    BY <1>0, <2>1 DEF DocumentsInv, CommandInv, CommandOK, CommandState, Holds
  <2>3. doc.status = "completed"
    BY <2>2 DEF Document
  <2> HIDE DEF doc
  <2>4. QED
    BY <2>1, <2>2, <2>3 DEF Begins, Target
<1>6. CASE SaveAmounts(r)
  <2>1. Busy(r) /\ saving[r].doc \in Document
    BY <1>6, BeforeStep DEF SaveAmounts, SaveOK, SaveState
  <2>2. saving'[r].path = saving[r].path /\ saving'[r].doc.status = saving[r].doc.status
    BY <1>6, <2>1 DEF SaveAmounts, Merges, Clear, GivesUp, Replaces, Copies, Unsynced, Removes, TakesBack, Continues, SaveEnds, Busy,
       UpdateSpec, Prose, Document
  <2>3. QED
    BY <1>6, <2>1, <2>2 DEF Target
<1>7. QED
  BY <1>1, <1>2, <1>3, <1>4, <1>5, <1>6 DEF Amounts

\* Files change by a Save or a plan.
LEMMA FilesKept ==
  ASSUME NEW r \in Procs, Amounts(r), ~Creates(r)
  PROVE  files' = files
BY DEF Amounts, Rests, Looks, Proceeds, Silent, Overrides, Opens, Judges, SavesApproved, SavesArchived, Begins

\* A Save in place replaces its file, a move writes the new one and removes the old.
LEMMA SaveWrites ==
  ASSUME TypeOK, DocumentsInv, NEW r \in Procs, SaveAmounts(r)
  PROVE  LET s == saving[r] to == Target(saving[r].doc) IN
         /\ s.path \in Dir /\ to \in Dir /\ s.doc # Absent
         /\ \A d \in Dir : files'[d] # files[d] =>
              \/ d = to /\ s.step = "write" /\ files'[d] = s.doc
              \/ s.step = "remove" /\ to # s.path /\ d \in {to, s.path} /\ files'[d] = Absent
<1>1. Busy(r) /\ SaveInv(r)
  BY DEF SaveAmounts, DocumentsInv
<1>2. saving[r].path \in Dir /\ Target(saving[r].doc) \in Dir /\ saving[r].doc # Absent
  BY <1>1, MovesAre
<1>3. files \in [Dir -> Document \cup {Absent}]
  BY BeforeStep
<1>4. QED
  BY <1>1, <1>2, <1>3 DEF SaveAmounts, SaveInv, Merges, Clear, GivesUp, Replaces, Copies, Unsynced, Removes, TakesBack

\* A Save elsewhere than in the drafts cannot begin while an approval has the draft.
LEMMA ApproverStep ==
  ASSUME TypeOK, DocumentsInv, Pair, NEW x \in Procs, StageInv(x), ApproverInv(x),
         NEW r \in Procs, Still(r), Amounts(r) \/ SaveAmounts(r)
  PROVE  ApproverInv(x)'
<1> SUFFICES ASSUME Approves(x), files'["drafts"] # Absent, NEW y \in Procs \ {x}
             PROVE  proc'[y].pc # "archive" /\ (Busy(y)' => saving'[y].path = "drafts")
  BY KindStays DEF ApproverInv, Approves
<1>0. "drafts" \in Dir /\ files \in [Dir -> Document \cup {Absent}]
  BY BeforeStep, FourDirs
<1>1. CASE r = x
  <2>1. files["drafts"] # Absent
    <3>1. CASE Amounts(x)
      <4>1. ~Creates(x)
        BY DEF Creates, Approves
      <4>2. QED
        BY <3>1, <4>1, FilesKept
    <3>2. CASE SaveAmounts(x)
      <4>1. Target(saving[x].doc) = "approved"
        BY <3>2, MovesAre DEF StageInv, SaveAmounts
      <4>2. QED
        BY <1>0, <3>2, <4>1, SaveWrites
    <3>3. QED
      BY <1>1, <3>1, <3>2
  <2>2. QED
    BY <1>1, <2>1 DEF ApproverInv, Still, Busy
<1>2. CASE r = y
  <2>1. CASE files["drafts"] = Absent
    <3>1. CASE Amounts(y)
      <4>1. Creates(y)
        BY <2>1, <3>1, FilesKept
      <4>2. QED
        BY <4>1 DEF Creates, Busy
    <3>2. CASE SaveAmounts(y)
      <4>1. Target(saving[y].doc) = "drafts" /\ saving[y].step = "write"
        BY <1>0, <2>1, <3>2, SaveWrites
      <4>2. Target(saving[y].doc) = saving[y].path
        BY <3>2, <4>1, MovesAre DEF SaveAmounts
      <4>3. proc'[y].pc # "archive" /\ Busy(y)
        BY <3>2, BeforeStep DEF SaveAmounts, Waits
      <4>4. QED
        BY <3>2, <4>1, <4>2, <4>3, SavesWhere
    <3>3. QED
      BY <1>2, <3>1, <3>2
  <2>2. CASE files["drafts"] # Absent
    <3>1. proc[y].pc # "archive" /\ (Busy(y) => saving[y].path = "drafts") /\ Find = "drafts"
      BY <2>2, FindFirst DEF ApproverInv
    <3>2. proc'[y].pc # "archive"
      <4>1. CASE Looks(y)
        <5>1. Find # "none"
          BY <4>1 DEF Looks
        <5>2. Visible.status = "approved" => Find = "approved"
          BY <5>1, VisibleSound DEF DocumentsInv, Target
        <5>3. QED
          BY <3>1, <4>1, <5>2 DEF Looks
      <4>2. CASE ~Looks(y)
        BY <1>2, <3>1, <4>2 DEF Amounts, SaveAmounts, Rests, Proceeds, Overrides, Creates, Opens, Judges,
           SavesApproved, SavesArchived
      <4>3. QED
        BY <4>1, <4>2
    <3>3. Busy(y)' => saving'[y].path = "drafts"
      BY <1>2, <3>1, SavesWhere
    <3>4. QED
      BY <3>2, <3>3
  <2>3. QED
    BY <2>1, <2>2
<1>3. QED
  BY <1>1, <1>2 DEF Pair

\* A Save in the archive cannot begin while a finalize has the approved spec.
LEMMA ArchiverStep ==
  ASSUME TypeOK, DocumentsInv, Pair, NEW x \in Procs, StageInv(x), ArchiverInv(x),
         NEW r \in Procs, Still(r), Amounts(r) \/ SaveAmounts(r)
  PROVE  ArchiverInv(x)'
<1> SUFFICES ASSUME proc[x].kind = "archive", files'["approved"] # Absent, NEW y \in Procs \ {x}, Busy(y)'
             PROVE  saving'[y].path # "archive"
  BY KindStays DEF ArchiverInv
<1>0. "approved" \in Dir /\ files \in [Dir -> Document \cup {Absent}]
  BY BeforeStep, FourDirs
<1>1. CASE r = x
  <2>1. files["approved"] # Absent
    <3>1. CASE Amounts(x)
      <4>1. ~Creates(x)
        BY DEF Creates
      <4>2. QED
        BY <3>1, <4>1, FilesKept
    <3>2. CASE SaveAmounts(x)
      <4>1. Target(saving[x].doc) = "archive"
        BY <3>2, MovesAre DEF StageInv, SaveAmounts
      <4>2. QED
        BY <1>0, <3>2, <4>1, SaveWrites
    <3>3. QED
      BY <1>1, <3>1, <3>2
  <2>2. QED
    BY <1>1, <2>1 DEF ArchiverInv, Still, Busy
<1>2. CASE r = y
  <2>1. CASE Busy(y) /\ SaveAmounts(y) /\ saving'[y].path = saving[y].path
    <3>1. CASE files["approved"] # Absent
      BY <2>1, <3>1 DEF ArchiverInv
    <3>2. CASE files["approved"] = Absent
      <4>1. Target(saving[y].doc) = "approved"
        BY <1>0, <2>1, <3>2, SaveWrites
      <4>2. saving[y].path = "approved" \/ Promotes(y) \/ Archives(y)
        BY <2>1, <4>1, MovesAre
      <4>3. QED
        BY <2>1, <4>2 DEF Promotes, Archives
    <3>3. QED
      BY <3>1, <3>2
  <2>2. CASE files' = files /\ Find # "none" /\ saving'[y].path = Find
    <3>1. Find \in {"drafts", "approved"}
      BY <2>2, FindIs, Found
    <3>2. QED
      BY <2>2, <3>1
  <2>3. QED
    BY <1>2, <2>1, <2>2, SavesWhere
<1>3. QED
  BY <1>1, <1>2 DEF Pair

\* No draft appears between the look and the write of a plan.
LEMMA PlannerStep ==
  ASSUME TypeOK, DocumentsInv, Pair, ~TwoPlans, NEW q \in Procs, StageInv(q), PlannerInv(q),
         NEW r \in Procs, Still(r), Amounts(r) \/ SaveAmounts(r)
  PROVE  PlannerInv(q)'
<1> SUFFICES ASSUME proc[q].kind = "plan"
             PROVE  /\ proc'[q].pc = "create" => files'["drafts"] = Absent
                    /\ \A x \in Procs : Busy(x)' /\ Target(saving'[x].doc) = "drafts" => files'["drafts"] # Absent
  BY KindStays DEF PlannerInv
<1>0. "drafts" \in Dir /\ files \in [Dir -> Document \cup {Absent}]
  BY BeforeStep, FourDirs
<1>q. ~Busy(q)
  BY BeforeStep DEF StageInv, Waits
<1>1. ASSUME proc'[q].pc = "create" PROVE files'["drafts"] = Absent
  <2>1. CASE r = q
    <3>1. ~SaveAmounts(q)
      BY <1>q DEF SaveAmounts
    <3>2. Rests(q)
      BY <1>1, <2>1, <3>1 DEF Amounts, Looks, Proceeds, Overrides, Creates, Opens, Judges, Begins, SavesApproved,
         SavesArchived, Waits
    <3>3. QED
      BY <1>1, <3>2 DEF Rests, Silent
  <2>2. CASE r # q
    <3>1. files["drafts"] = Absent
      BY <1>1, <2>2 DEF Still, PlannerInv
    <3>2. CASE Amounts(r)
      <4>1. ~Creates(r)
        BY <2>2 DEF Creates, TwoPlans
      <4>2. QED
        BY <3>1, <3>2, <4>1, FilesKept
    <3>3. CASE SaveAmounts(r)
      <4>1. Target(saving[r].doc) # "drafts"
        BY <3>1, <3>3 DEF PlannerInv, SaveAmounts
      <4>2. QED
        BY <1>0, <3>1, <3>3, <4>1, SaveWrites
    <3>4. QED
      BY <3>2, <3>3
  <2>3. QED
    BY <2>1, <2>2
<1>2. ASSUME NEW x \in Procs, Busy(x)', Target(saving'[x].doc) = "drafts" PROVE files'["drafts"] # Absent
  <2>1. CASE x = r
    <3>1. CASE Busy(x) /\ SaveAmounts(x) /\ Target(saving[x].doc) = "drafts"
      <4>1. files["drafts"] # Absent /\ saving[x].path = "drafts"
        BY <3>1, MovesAre DEF PlannerInv
      <4>2. QED
        BY <1>0, <3>1, <4>1, SaveWrites
    <3>2. CASE files' = files /\ Find = "drafts"
      BY <3>2, FindFirst
    <3>3. QED
      BY <1>2, <2>1, <3>1, <3>2, SavesWhere
  <2>2. CASE x # r
    <3>1. Busy(x) /\ Target(saving[x].doc) = "drafts" /\ r = q
      BY <1>2, <1>q, <2>2 DEF Still, Busy, Pair
    <3>2. files["drafts"] # Absent /\ Amounts(q)
      BY <1>q, <3>1 DEF PlannerInv, SaveAmounts
    <3>3. CASE Creates(q)
      <4>1. files'["drafts"] = NewDraft(proc[q].now) /\ NewDraft(proc[q].now) \in Document
        BY <1>0, <3>3, NewDraftIs, BeforeStep DEF Creates, CommandOK, CommandState
      <4>2. QED
        BY <4>1, AbsentIsNone
    <3>4. QED
      BY <3>2, <3>3, FilesKept
  <2>3. QED
    BY <2>1, <2>2
<1>3. QED
  BY <1>1, <1>2

\* Two moves do not go to the same directory.
LEMMA MovesApart ==
  ASSUME TypeOK, DocumentsInv, ~TwoMoves, NEW x \in Procs, NEW y \in Procs, x # y, Busy(x), Busy(y),
         Target(saving[x].doc) # saving[x].path, Target(saving[y].doc) # saving[y].path
  PROVE  Target(saving[x].doc) # Target(saving[y].doc)
<1>1. (Promotes(x) \/ Archives(x)) /\ (Promotes(y) \/ Archives(y))
  BY MovesAre
<1>2. ~(Promotes(x) /\ Promotes(y)) /\ ~(Archives(x) /\ Archives(y))
  BY OneMover DEF Archiving
<1>3. CASE Promotes(x) /\ Archives(y)
  BY <1>3, MovesAre
<1>4. CASE Archives(x) /\ Promotes(y)
  BY <1>4, MovesAre
<1>5. QED
  BY <1>1, <1>2, <1>3, <1>4

\* What is up to date after a step that is no edit.
Kept(d) == files'[d] # Absent /\ files'[d].notes = edits.notes

\* The prose stays where it is.
LEMMA NotesStay ==
  ASSUME NEW r \in Procs, Still(r), NEW f \in Dir, UpToDate(f), edits' = edits,
         files'[f] = files[f] \/ Kept(f), Safe(r, f)',
         \A x \in Procs \ {r} :
           /\ Safe(x, f)
           /\ Busy(x) /\ saving[x].step = "remove" /\ saving[x].path = f => Kept(Target(saving[x].doc))
  PROVE  NotesInv'
<1>1. UpToDate(f)'
  BY DEF UpToDate, Kept
<1>2. ASSUME NEW x \in Procs PROVE Safe(x, f)'
  <2>1. CASE x = r
    BY <2>1
  <2>2. CASE x # r
    BY <2>2 DEF Still, Safe, Busy, Kept, UpToDate
  <2>3. QED
    BY <2>1, <2>2
<1>3. QED
  BY <1>1, <1>2 DEF NotesInv

\* A step of a command leaves the latest prose in a file.
LEMMA NotesStep ==
  ASSUME TypeOK, TypeOK', DocumentsInv, PlacesInv, Pair, ~TwoMoves, ~TwoPlans, edits' = edits,
         \A x \in Procs : StageInv(x) /\ ApproverInv(x) /\ ArchiverInv(x) /\ PlannerInv(x),
         NotesInv, NEW r \in Procs, Still(r), Amounts(r) \/ SaveAmounts(r)
  PROVE  NotesInv'
<1>0. files \in [Dir -> Document \cup {Absent}]
  BY BeforeStep
<1>f. PICK f \in Dir : UpToDate(f) /\ \A x \in Procs : Safe(x, f)
  BY DEF NotesInv
<1>k. proc'[r].kind = proc[r].kind
  BY KindStays
\* A move that is about to remove f has written its copy.
<1>m. ASSUME NEW x \in Procs \ {r}, Busy(x), saving[x].step = "remove", saving[x].path = f
      PROVE  /\ UpToDate(Target(saving[x].doc)) /\ Target(saving[x].doc) \in Dir
             /\ Target(saving[x].doc) # f /\ (Promotes(x) \/ Archives(x))
  BY <1>f, <1>m, MovesAre DEF Safe, DocumentsInv, SaveInv
<1>1. CASE Amounts(r) /\ ~Creates(r)
  <2>1. files' = files
    BY <1>1, FilesKept
  <2>2. Busy(r)' => saving'[r].step = "read"
    BY <1>1 DEF Amounts, Rests, Looks, Proceeds, Silent, Overrides, Opens, Judges, SavesApproved, SavesArchived, Begins,
       Busy
  <2>3. proc'[r].kind = "plan" /\ proc'[r].pc = "create" => f # "drafts"
    BY <1>1, <1>f DEF Amounts, Rests, Looks, Proceeds, Silent, Overrides, Opens, Judges, SavesApproved, SavesArchived,
       Begins, Waits, UpToDate
  <2>4. Safe(r, f)'
    BY <2>2, <2>3 DEF Safe
  <2>5. \A d \in Dir : UpToDate(d) => Kept(d)
    BY <2>1 DEF UpToDate, Kept
  <2>6. QED
    BY <1>f, <1>m, <2>1, <2>4, <2>5, NotesStay
<1>2. CASE Creates(r)
  <2>1. f # "drafts" /\ \A d \in Dir \ {"drafts"} : files'[d] = files[d]
    BY <1>0, <1>2, <1>f DEF Creates, Safe
  <2>2. Safe(r, f)'
    BY <1>2 DEF Creates, Safe, Busy
  <2>3. \A d \in Dir \ {"drafts"} : UpToDate(d) => Kept(d)
    BY <2>1 DEF UpToDate, Kept
  <2>4. ASSUME NEW x \in Procs \ {r}, Busy(x), saving[x].step = "remove", saving[x].path = f
        PROVE  Kept(Target(saving[x].doc))
    <3>1. Target(saving[x].doc) # "drafts"
      BY <1>m, <2>4, MovesAre
    <3>2. QED
      BY <1>m, <2>3, <2>4, <3>1
  <2>5. QED
    BY <1>f, <2>1, <2>2, <2>4, NotesStay
<1>3. CASE SaveAmounts(r)
  <2> DEFINE s == saving[r]  to == Target(saving[r].doc)
  <2>1. Busy(r) /\ proc' = proc /\ s.doc \in Document /\ s.path \in Dir /\ to \in Dir /\ proc[r].pc # "create"
    BY <1>3, MovesAre, BeforeStep DEF SaveAmounts, Waits
  <2>2. ~Busy(r)' => Safe(r, f)'
    BY <2>1 DEF Safe
  <2>3. ASSUME files' = files, Safe(r, f)' PROVE NotesInv'
    <3>1. \A d \in Dir : UpToDate(d) => Kept(d)
      BY <2>3 DEF UpToDate, Kept
    <3>2. QED
      BY <1>f, <1>m, <2>3, <3>1, NotesStay
  <2>4. CASE Merges(r)
    <3> DEFINE merged == UpdateSpec(files[s.path], s.doc)
    <3>1. /\ saving'[r].doc = merged /\ saving'[r].path = s.path /\ saving'[r].step \in {"stat", "write"}
          /\ saving'[r].step = "write" <=> to = s.path
          /\ files' = files
      BY <2>4 DEF Merges, Continues
    <3>2. merged.notes = files[s.path].notes /\ merged.status = s.doc.status
      BY <2>1 DEF UpdateSpec, Prose, Document
    <3> HIDE DEF merged
    <3>3. Target(merged) = to
      BY <3>2 DEF Target
    <3>4. Safe(r, f)'
      BY <1>f, <2>1, <3>1, <3>2, <3>3 DEF Safe, UpToDate
    <3>5. QED
      BY <2>3, <3>1, <3>4
  <2>5. CASE Clear(r)
    <3>1. /\ saving'[r].doc = s.doc /\ saving'[r].path = s.path /\ saving'[r].step = "write"
          /\ files' = files /\ files[to] = Absent /\ s.step = "stat"
      BY <2>5 DEF Clear, Continues
    <3>2. Safe(r, f)'
      BY <1>f, <2>1, <3>1 DEF Safe, UpToDate
    <3>3. QED
      BY <2>3, <3>1, <3>2
  <2>6. CASE GivesUp(r)
    BY <2>2, <2>3, <2>6 DEF GivesUp, SaveEnds, Busy
  <2>7. CASE Replaces(r) \/ (Unsynced(r) /\ to = s.path)
    <3>1. to = s.path /\ s.step = "write" /\ files' = [files EXCEPT ![s.path] = s.doc] /\ ~Busy(r)'
      BY <2>7 DEF Replaces, Unsynced, SaveEnds, Busy
    <3>2. files'[f] = files[f] \/ Kept(f)
      <4>1. CASE f = s.path
        <5>1. files'[f] = s.doc /\ s.doc # Absent /\ s.doc.notes = edits.notes
          BY <1>0, <1>f, <2>1, <3>1, <4>1, AbsentIsNone DEF Safe
        <5>2. QED
          BY <5>1 DEF UpToDate, Kept
      <4>2. CASE f # s.path
        BY <1>0, <2>1, <3>1, <4>2
      <4>3. QED
        BY <4>1, <4>2
    <3>3. ASSUME NEW x \in Procs \ {r}, Busy(x), saving[x].step = "remove", saving[x].path = f
          PROVE  Kept(Target(saving[x].doc))
      <4>1. Target(saving[x].doc) # s.path
        <5>1. CASE Promotes(x)
          <6>1. s.path = "drafts" /\ Target(saving[x].doc) = "approved"
            BY <2>1, <3>3, <5>1, MovesAre DEF PlacesInv, PromoteInv, ApproverInv, Promotes
          <6>2. QED
            BY <6>1
        <5>2. CASE Archives(x)
          <6>1. s.path # "archive" /\ Target(saving[x].doc) = "archive"
            BY <2>1, <3>3, <5>2, MovesAre DEF PlacesInv, ArchiveInv, Archiving, ArchiverInv, Archives
          <6>2. QED
            BY <6>1
        <5>3. QED
          BY <1>m, <3>3, <5>1, <5>2
      <4>2. files'[Target(saving[x].doc)] = files[Target(saving[x].doc)]
        BY <1>0, <1>m, <2>1, <3>1, <3>3, <4>1
      <4>3. QED
        BY <1>m, <3>3, <4>2 DEF UpToDate, Kept
    <3>4. QED
      BY <1>f, <2>2, <3>1, <3>2, <3>3, NotesStay
  <2>8. CASE Copies(r) \/ (Unsynced(r) /\ to # s.path)
    <3>1. /\ to # s.path /\ s.step = "write" /\ files' = [files EXCEPT ![to] = s.doc]
          /\ Busy(r)' => saving'[r].doc = s.doc /\ saving'[r].path = s.path /\ saving'[r].step = "remove"
      BY <2>8 DEF Copies, Unsynced, Continues, SaveEnds, Busy
    <3>2. f # to
      BY <1>f, <2>1, <3>1 DEF Safe
    <3>3. \A d \in Dir : d # to => files'[d] = files[d]
      BY <1>0, <2>1, <3>1
    <3>4. f = s.path => Kept(to) /\ s.doc.notes = edits.notes
      <4>1. files'[to] = s.doc /\ s.doc # Absent
        BY <1>0, <2>1, <3>1, AbsentIsNone
      <4>2. f = s.path => s.doc.notes = edits.notes
        BY <1>f, <2>1, <3>1 DEF Safe
      <4>3. QED
        BY <4>1, <4>2 DEF UpToDate, Kept
    <3>5. Safe(r, f)'
      BY <2>1, <2>2, <3>1, <3>2, <3>4 DEF Safe, UpToDate, Kept
    <3>6. ASSUME NEW x \in Procs \ {r}, Busy(x), saving[x].step = "remove", saving[x].path = f
          PROVE  Kept(Target(saving[x].doc))
      <4>1. Target(saving[x].doc) # to
        BY <1>m, <2>1, <3>1, <3>6, MovesApart
      <4>2. files'[Target(saving[x].doc)] = files[Target(saving[x].doc)]
        BY <1>m, <3>3, <3>6, <4>1
      <4>3. QED
        BY <1>m, <3>6, <4>2 DEF UpToDate, Kept
    <3>7. QED
      BY <1>f, <3>2, <3>3, <3>5, <3>6, NotesStay
  <2>9. CASE Removes(r)
    <3>1. s.step = "remove" /\ files' = [files EXCEPT ![s.path] = Absent] /\ ~Busy(r)' /\ files[s.path] # Absent
      BY <2>9 DEF Removes, SaveEnds, Busy
    <3>2. to # s.path /\ (Promotes(r) \/ Archives(r))
      BY <2>1, <3>1, MovesAre DEF DocumentsInv, SaveInv
    <3>3. \A d \in Dir : d # s.path => files'[d] = files[d]
      BY <1>0, <2>1, <3>1
    <3>4. CASE f # s.path
      <4>1. ASSUME NEW x \in Procs \ {r}, Busy(x), saving[x].step = "remove", saving[x].path = f
            PROVE  Kept(Target(saving[x].doc))
        <5>1. Target(saving[x].doc) # s.path
          <6>1. CASE Promotes(r)
            BY <1>m, <2>1, <4>1, <6>1, MovesAre
          <6>2. CASE Archives(r)
            <7>1. ~Promotes(x)
              BY <2>1, <4>1, <6>2 DEF PlacesInv, ArchiveInv, Archiving
            <7>2. Target(saving[x].doc) = "archive" /\ s.path = "approved"
              BY <1>m, <2>1, <4>1, <6>2, <7>1, MovesAre
            <7>3. QED
              BY <7>2
          <6>3. QED
            BY <3>2, <6>1, <6>2
        <5>2. files'[Target(saving[x].doc)] = files[Target(saving[x].doc)]
          BY <1>m, <3>3, <4>1, <5>1
        <5>3. QED
          BY <1>m, <4>1, <5>2 DEF UpToDate, Kept
      <4>2. QED
        BY <1>f, <2>2, <3>1, <3>3, <3>4, <4>1, NotesStay
    <3>5. CASE f = s.path
      <4>0. PICK d \in Dir : d = to
        BY <2>1
      <4>1. UpToDate(d)
        BY <1>f, <2>1, <3>1, <3>5, <4>0 DEF Safe
      <4>2. UpToDate(d)'
        BY <3>2, <3>3, <4>0, <4>1 DEF UpToDate
      <4>3. d # "drafts"
        BY <2>1, <3>2, <4>0, MovesAre
      <4>4. ASSUME NEW x \in Procs PROVE Safe(x, d)'
        <5>1. CASE x = r
          BY <2>1, <3>1, <5>1 DEF Safe
        <5>2. CASE x # r
          <6>1. Busy(x) => saving[x].path # d
            <7>1. CASE Promotes(r)
              BY <2>1, <3>1, <3>2, <4>0, <5>2, <7>1, MovesAre DEF ApproverInv, Promotes
            <7>2. CASE Archives(r)
              BY <2>1, <3>1, <3>2, <4>0, <5>2, <7>2, MovesAre DEF ArchiverInv, Archives
            <7>3. QED
              BY <3>2, <7>1, <7>2
          <6>2. Busy(x) => Target(saving[x].doc) # d
            BY <2>1, <3>2, <4>0, <5>2, <6>1, MovesApart
          <6>3. QED
            BY <4>3, <5>2, <6>1, <6>2 DEF Safe, Still, Busy
        <5>3. QED
          BY <5>1, <5>2
      <4>5. QED
        BY <4>2, <4>4 DEF NotesInv
    <3>6. QED
      BY <3>4, <3>5
  <2>10. CASE TakesBack(r)
    <3>1. s.step = "remove" /\ files' = [files EXCEPT ![to] = Absent] /\ ~Busy(r)'
      BY <2>10 DEF TakesBack, SaveEnds, Busy
    <3>2. to # s.path
      BY <2>1, <3>1 DEF DocumentsInv, SaveInv
    <3>3. f # to
      BY <1>f, <2>1, <3>1, <3>2 DEF Safe
    <3>4. \A d \in Dir : d # to => files'[d] = files[d]
      BY <1>0, <2>1, <3>1
    <3>5. ASSUME NEW x \in Procs \ {r}, Busy(x), saving[x].step = "remove", saving[x].path = f
          PROVE  Kept(Target(saving[x].doc))
      <4>1. Target(saving[x].doc) # to
        BY <1>m, <2>1, <3>2, <3>5, MovesApart
      <4>2. files'[Target(saving[x].doc)] = files[Target(saving[x].doc)]
        BY <1>m, <3>4, <3>5, <4>1
      <4>3. QED
        BY <1>m, <3>5, <4>2 DEF UpToDate, Kept
    <3>6. QED
      BY <1>f, <2>2, <3>1, <3>3, <3>4, <3>5, NotesStay
  <2>11. QED
    BY <1>3, <2>4, <2>5, <2>6, <2>7, <2>8, <2>9, <2>10 DEF SaveAmounts
<1>4. QED
  BY <1>1, <1>2, <1>3

\* The inductive invariant.
NotesKept ==
  /\ \A x \in Procs : ApproverInv(x) /\ ArchiverInv(x) /\ (TwoPlans \/ PlannerInv(x))
  /\ overlapped \/ TwoMoves \/ TwoPlans \/ NotesInv

\* It holds of a spec that nobody works on,
LEMMA NotesInit ==
  ASSUME Init
  PROVE  NotesKept
<1>1. PICK s \in Scenarios : StoreInit(s.files) /\ proc = [p \in Procs |-> Command("start", s.commands[p].kind, s.commands[p].now)]
  BY DEF Init
<1>2. Starts(s.files) /\ files = s.files
  BY <1>1, HardenAssumption DEF StoreInit
<1>3. PICK f \in Dir : files[f] # Absent /\ files[f].notes = 0
  BY <1>2, AbsentIsNone DEF Starts
<1>4. \A x \in Procs : ~Busy(x) /\ proc[x].pc = "start"
  BY <1>1 DEF StoreInit, Idle, Command, Busy
<1>5. edits.notes = 0
  BY DEF Init
<1>6. NotesInv
  BY <1>3, <1>4, <1>5 DEF NotesInv, UpToDate, Safe
<1>7. QED
  BY <1>4, <1>6 DEF NotesKept, ApproverInv, ArchiverInv, PlannerInv

\* An edit is written into the file that is found.
LEMMA NotesEdited ==
  ASSUME TypeOK, DocumentsInv, EditContract \/ EditNotes \/ FillObservations
  PROVE  /\ proc' = proc /\ saving' = saving
         /\ \A d \in Dir : files'[d] = Absent <=> files[d] = Absent
         /\ \/ edits'.notes = edits.notes /\ \A d \in Dir : UpToDate(d) => UpToDate(d)'
            \/ Find \in Dir /\ UpToDate(Find)' /\ Find' = Find /\ (overlapped' \/ ~Merged)
<1>1. Find # "none" /\ Find \in Dir /\ Visible \in Document /\ Visible = files[Find]
  <2>1. Find # "none"
    BY DEF EditContract, EditNotes, FillObservations
  <2>2. QED
    BY <2>1, VisibleIs DEF Visible
<1>2. edits \in [contract : Nat, notes : Nat, filled : Nat]
  BY DEF TypeOK
<1>3. proc' = proc /\ saving' = saving
  BY EditsIs DEF Edits
<1>4. ASSUME NEW doc \in Document, files' = [files EXCEPT ![Find] = doc], doc.notes = Visible.notes,
             edits'.notes = edits.notes
      PROVE  /\ \A d \in Dir : files'[d] = Absent <=> files[d] = Absent
             /\ \A d \in Dir : UpToDate(d) => UpToDate(d)'
  <2>1. doc # Absent /\ files[Find] # Absent /\ \A d \in Dir : files'[d] = IF d = Find THEN doc ELSE files[d]
    BY <1>1, <1>4, RevisedPlaces, FindFirst
  <2>2. \A d \in Dir : UpToDate(d) => UpToDate(d)'
    BY <1>1, <1>4, <2>1 DEF UpToDate
  <2>3. QED
    BY <2>1, <2>2
<1>5. CASE EditContract
  <2>1. PICK shape \in {Visible.contract.shape, Visible.contract.shape + 1} :
          files' = [files EXCEPT ![Find] = [Visible EXCEPT !.contract = [text |-> Visible.contract.text + 1, shape |-> shape]]]
    BY <1>5 DEF EditContract, Writes
  <2> DEFINE contract == [text |-> Visible.contract.text + 1, shape |-> shape]
             doc == [Visible EXCEPT !.contract = contract]
  <2>2. contract \in Contract
    BY <1>1 DEF Document, Contract
  <2> HIDE DEF contract
  <2>3. doc \in Document /\ doc.notes = Visible.notes
    BY <1>1, <2>2 DEF Document
  <2>4. files' = [files EXCEPT ![Find] = doc]
    BY <2>1 DEF contract
  <2>5. edits'.notes = edits.notes
    BY <1>2, <1>5 DEF EditContract
  <2> HIDE DEF doc
  <2>6. QED
    BY <1>3, <1>4, <2>3, <2>4, <2>5
<1>6. CASE EditNotes
  <2> DEFINE doc == [Visible EXCEPT !.notes = edits.notes + 1]
  <2>1. files' = [files EXCEPT ![Find] = doc] /\ overlapped' = (overlapped \/ Merged)
    BY <1>6 DEF EditNotes, Writes
  <2>2. doc \in Document /\ doc.notes = edits.notes + 1
    BY <1>1, <1>2 DEF Document
  <2>3. edits'.notes = edits.notes + 1
    BY <1>2, <1>6 DEF EditNotes
  <2> HIDE DEF doc
  <2>4. doc # Absent /\ Find' = Find /\ \A d \in Dir : files'[d] = IF d = Find THEN doc ELSE files[d]
    BY <1>1, <2>1, <2>2, RevisedPlaces
  <2>5. files[Find] # Absent
    BY <1>1, FindFirst
  <2>6. UpToDate(Find)'
    BY <1>1, <2>2, <2>3, <2>4 DEF UpToDate
  <2>7. overlapped' \/ ~Merged
    BY <2>1, Zenon
  <2>8. QED
    BY <1>1, <1>3, <2>4, <2>5, <2>6, <2>7
<1>7. CASE FillObservations
  <2>1. PICK obs \in {"ok", "open", "bad"} :
          files' = [files EXCEPT ![Find] = [Visible EXCEPT !.rounds[Len(Visible.rounds)].obs = obs]]
    BY <1>7 DEF FillObservations, Writes
  <2> DEFINE doc == [Visible EXCEPT !.rounds[Len(Visible.rounds)].obs = obs]
  <2>2. doc \in Document /\ doc.notes = Visible.notes
    BY <1>1, <1>7, FilledIs, ZenonT(60) DEF FillObservations
  <2>3. files' = [files EXCEPT ![Find] = doc]
    BY <2>1
  <2>4. edits'.notes = edits.notes
    BY <1>2, <1>7 DEF FillObservations
  <2> HIDE DEF doc
  <2>5. QED
    BY <1>3, <1>4, <2>2, <2>3, <2>4
<1>8. QED
  BY <1>5, <1>6, <1>7

\* What an edit, an interrupt or a kill leaves of the commands.
LEMMA NotesElse ==
  ASSUME TypeOK, Pair, \A d \in Dir : files'[d] = Absent <=> files[d] = Absent,
         \A x \in Procs : proc'[x].kind = proc[x].kind,
         \A x \in Procs : \/ proc'[x] = proc[x] /\ saving'[x] = saving[x]
                          \/ proc'[x].pc = "over" /\ ~Busy(x)',
         NEW x \in Procs, ApproverInv(x), ArchiverInv(x)
  PROVE  ApproverInv(x)' /\ ArchiverInv(x)' /\ (PlannerInv(x) => PlannerInv(x)')
<1>1. (files'["drafts"] = Absent <=> files["drafts"] = Absent) /\ (files'["approved"] = Absent <=> files["approved"] = Absent)
  BY FourDirs
<1>2. \A y \in Procs : (Busy(y)' => Busy(y) /\ saving'[y] = saving[y]) /\ (proc'[y].pc # "over" => proc'[y] = proc[y])
  BY DEF Busy
<1>3. ApproverInv(x)'
  BY <1>1, <1>2 DEF ApproverInv, Approves
<1>4. ArchiverInv(x)'
  BY <1>1, <1>2 DEF ArchiverInv
<1>5. PlannerInv(x) => PlannerInv(x)'
  BY <1>1, <1>2 DEF PlannerInv
<1>6. QED
  BY <1>3, <1>4, <1>5

\* and is inductive.
LEMMA NotesNext ==
  ASSUME TypeOK, TypeOK', DocumentsInv, TwoMoves \/ PlacesInv, Pair,
         \A q \in Procs : StageInv(q), NotesKept, [Next]_vars
  PROVE  NotesKept'
<1>0. \A q \in Procs : proc'[q].kind = proc[q].kind
  BY KindsKept
<1>k. TwoMoves' = TwoMoves /\ TwoPlans' = TwoPlans
  BY <1>0 DEF TwoMoves, TwoPlans, Approves
<1>1. ASSUME NEW r \in Procs, Step(r) PROVE NotesKept'
  <2>1. Frame(r) /\ (Amounts(r) \/ SaveAmounts(r))
    BY <1>1, StepFrame, StepAmounts, SavingIs
  <2>2. Still(r) /\ overlapped' = overlapped /\ edits' = edits
    BY <2>1 DEF Frame, Still
  <2>3. ASSUME NEW x \in Procs PROVE ApproverInv(x)' /\ ArchiverInv(x)' /\ (TwoPlans \/ PlannerInv(x)')
    BY <2>1, <2>2, ApproverStep, ArchiverStep, PlannerStep DEF NotesKept
  <2>4. ASSUME ~overlapped, ~TwoMoves, ~TwoPlans PROVE NotesInv'
    <3>1. NotesInv /\ PlacesInv /\ \A x \in Procs : StageInv(x) /\ ApproverInv(x) /\ ArchiverInv(x) /\ PlannerInv(x)
      BY <2>4 DEF NotesKept
    <3>2. QED
      BY <2>1, <2>2, <2>4, <3>1, NotesStep
  <2>5. QED
    BY <1>k, <2>2, <2>3, <2>4 DEF NotesKept
<1>2. ASSUME NEW r \in Procs, Crash(r) PROVE NotesKept'
  <2>1. Dies(r) /\ proc'[r].pc = "over" /\ saving'[r].step = "idle"
    BY <1>2, DiesIs
  <2>2. Still(r) /\ files' = files /\ ~Busy(r)'
    BY <2>1, BeforeStep DEF Dies, Still, Busy
  <2>3. overlapped' = overlapped /\ edits' = edits
    BY <1>2 DEF Crash, Quiet
  <2>4. \A x \in Procs : (proc'[x] = proc[x] /\ saving'[x] = saving[x]) \/ (proc'[x].pc = "over" /\ ~Busy(x)')
    BY <2>1, <2>2 DEF Still
  <2>5. \A x \in Procs : ApproverInv(x)' /\ ArchiverInv(x)' /\ (TwoPlans \/ PlannerInv(x)')
    BY <1>0, <2>2, <2>4, NotesElse DEF NotesKept
  <2>6. ASSUME NotesInv PROVE NotesInv'
    <3>1. PICK f \in Dir : UpToDate(f) /\ \A x \in Procs : Safe(x, f)
      BY <2>6 DEF NotesInv
    <3>2. UpToDate(f)' /\ \A x \in Procs : Safe(x, f)'
      BY <2>2, <2>3, <2>4, <3>1 DEF UpToDate, Safe, Busy
    <3>3. QED
      BY <3>2 DEF NotesInv
  <2>7. QED
    BY <1>k, <2>3, <2>5, <2>6 DEF NotesKept
<1>3. CASE EditContract \/ EditNotes \/ FillObservations
  <2>1. /\ proc' = proc /\ saving' = saving
        /\ \A d \in Dir : files'[d] = Absent <=> files[d] = Absent
        /\ \/ edits'.notes = edits.notes /\ \A d \in Dir : UpToDate(d) => UpToDate(d)'
           \/ Find \in Dir /\ UpToDate(Find)' /\ Find' = Find /\ (overlapped' \/ ~Merged)
    BY <1>3, NotesEdited
  <2>2. \A x \in Procs : ApproverInv(x)' /\ ArchiverInv(x)' /\ (TwoPlans \/ PlannerInv(x)')
    BY <1>0, <2>1, NotesElse DEF NotesKept
  <2>3. ~overlapped' => ~overlapped
    <3>1. overlapped' = (overlapped \/ Stale) \/ overlapped' = (overlapped \/ Merged)
      BY <1>3 DEF EditContract, EditNotes, FillObservations, Writes
    <3>2. QED
      BY <3>1, Zenon
  <2>4. ASSUME ~overlapped', ~TwoMoves, ~TwoPlans PROVE NotesInv'
    <3>1. PICK f \in Dir : UpToDate(f) /\ \A x \in Procs : Safe(x, f)
      BY <2>3, <2>4 DEF NotesKept, NotesInv
    <3>2. CASE edits'.notes = edits.notes /\ \A d \in Dir : UpToDate(d) => UpToDate(d)'
      <4>1. ASSUME NEW x \in Procs PROVE Safe(x, f)'
        <5>1. Busy(x) => Target(saving[x].doc) \in Dir
          BY MovesAre
        <5>2. Safe(x, f) /\ saving'[x] = saving[x] /\ proc'[x] = proc[x] /\ Busy(x)' = Busy(x)
          BY <2>1, <3>1 DEF Busy
        <5>3. Busy(x) /\ UpToDate(Target(saving[x].doc)) => UpToDate(Target(saving[x].doc))'
          BY <2>1, <3>2, <5>1 DEF UpToDate
        <5>4. QED
          BY <2>1, <3>2, <5>2, <5>3 DEF Safe
      <4>2. QED
        BY <3>1, <3>2, <4>1 DEF NotesInv
    <3>3. CASE Find \in Dir /\ UpToDate(Find)' /\ Find' = Find /\ ~Merged
      <4>1. PICK d \in Dir : d = Find
        BY <3>3
      <4>2. UpToDate(d)'
        BY <3>3, <4>1 DEF UpToDate
      <4>3. ASSUME NEW x \in Procs PROVE Safe(x, d)'
        <5>1. Busy(x)' => saving'[x].step = "read"
          BY <2>1, <3>3 DEF Merged, Busy
        <5>2. proc'[x].kind = "plan" /\ proc'[x].pc = "create" => d # "drafts"
          <6>1. files[d] # Absent
            BY <2>1, <4>2 DEF UpToDate
          <6>2. QED
            BY <2>1, <2>4, <6>1 DEF NotesKept, PlannerInv
        <5>3. QED
          BY <5>1, <5>2 DEF Safe
      <4>4. QED
        BY <4>2, <4>3 DEF NotesInv
    <3>4. QED
      BY <2>1, <2>4, <3>2, <3>3
  <2>5. QED
    BY <1>k, <2>2, <2>4 DEF NotesKept
<1>4. CASE UNCHANGED vars \/ \E r \in Procs : Cancel(r)
  <2>1. files' = files /\ proc' = proc /\ saving' = saving /\ overlapped' = overlapped /\ edits' = edits
    BY <1>4 DEF vars, storeVars, Cancel, Quiet
  <2>2. \A x \in Procs : ApproverInv(x)' /\ ArchiverInv(x)' /\ (TwoPlans \/ PlannerInv(x)')
    BY <1>0, <2>1, NotesElse DEF NotesKept
  <2>3. NotesInv' = NotesInv
    BY <2>1 DEF NotesInv, UpToDate, Safe, Busy
  <2>4. QED
    BY <1>k, <2>1, <2>2, <2>3 DEF NotesKept
<1>5. QED
  BY <1>1, <1>2, <1>3, <1>4 DEF Next, Operator, Over

\* Whatever is saved from a model that was loaded before the operator's latest
\* prose was written, moved, killed or taken back, the prose is in one of the
\* files (updateSpec, writeMovedSpec), for any two commands but two that move the
\* spec to the same directory and two plans.
THEOREM NotesAreKept ==
  ASSUME Pair
  PROVE  Spec => [](NotesSurvive \/ TwoMoves \/ TwoPlans)
<1> DEFINE Stages == \A q \in Procs : StageInv(q)
           Inv == TypeOK /\ DocumentsInv /\ (TwoMoves \/ PlacesInv)
<1>1. Init => NotesKept
  BY NotesInit
<1>2. Inv /\ Inv' /\ Stages /\ NotesKept /\ [Next]_vars => NotesKept'
  BY NotesNext
<1>3. TypeOK /\ NotesKept => NotesSurvive \/ TwoMoves \/ TwoPlans
  BY DEF TypeOK, NotesKept, NotesInv, UpToDate, NotesSurvive
<1>4. QED
  <2> HIDE DEF Stages
  <2>1. Spec => []Inv
    BY PlacesInvariant
  <2>2. Spec => []Stages
    BY StagesInvariant DEF Stages
  <2>3. QED
    BY <1>1, <1>2, <1>3, <2>1, <2>2, PTL DEF Spec
=============================================================================
