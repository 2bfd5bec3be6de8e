------------------------------ MODULE Receipts ------------------------------
(***************************************************************************)
(* From reviewed bytes to a verified merge: the mutation guard and the     *)
(* seal of `scafld review`, the snapshots, acceptance run and signature of *)
(* `scafld finalize`, and `scafld verify` in the checkout or on a commit,  *)
(* while somebody edits, stages, moves and commits files.  The session     *)
(* ledger and the gate over it are the subject of TaskCommands; here a     *)
(* task has one review, one finalization and one verification, each of     *)
(* them a process that stops between any two reads of the repository.      *)
(***************************************************************************)
EXTENDS GitWorkspace

CONSTANTS
    Scopes,         \* what a task can declare, as sets of paths
    Hints,          \* what --scope-hint can
    Alone,          \* of a scope, the paths that are in it only by an entry that
                    \* names the file itself, none of them below a directory entry
    SpecFile,       \* the spec of the task, one of the Runtime paths
    Criterion,      \* the file the acceptance command reads, ...
    Good,           \* ... and the bytes with which it passes
    Outputs,        \* what the acceptance command may write: <<path, bytes>>
    Vendors,        \* codex, claude, gemini
    Human, Unknown, \* an operator override; a host without a marker
    NoReview, NoReceipt,
    Repositories,   \* the repository when the review starts
    MaxActs,        \* bound on what the operator does meanwhile
    MaxTime         \* bound on the clock

ASSUME ReceiptsAssumption ==
    /\ SpecFile \in Runtime /\ Criterion \in Paths /\ Good \subseteq Bytes
    /\ Scopes \cup Hints \subseteq (SUBSET Paths) \ {{}}
    /\ Alone \in [Scopes -> SUBSET Paths]
    /\ Outputs \subseteq Paths \X Bytes
    /\ \A repo \in Repositories : IsRepository(repo)
    /\ {MaxActs, MaxTime} \subseteq Nat

VARIABLES
    repo, scope,            \* the repository and the declared scope
    now, keys, acts,        \* the clock, the trusted key, the operator's acts so far
    reading, review,        \* the review command and what it recorded
    sealing, receipt,       \* the finalize command and what it signed
    checking                \* the verify command

workspace == <<repo, now, keys, acts>>
vars == <<repo, scope, now, keys, acts, reading, review, sealing, receipt, checking>>

-----------------------------------------------------------------------------
(* scafld review: fingerprints, provider, fingerprints, seal.  "saw" and   *)
(* the other fields that hold a repository are history: what was on disk    *)
(* when a step read it.                                                     *)

Reading(pc) == [pc |-> pc, before |-> {}, saw |-> NoReview, met |-> NoReview,
                finding |-> FALSE]

\* the fingerprints and the head are taken, the provider starts on what is on disk
ReviewStart ==
    /\ reading.pc = "idle" /\ review = NoReview
    /\ MaterialSeal(repo, scope) # Failed
    /\ reading' = [reading EXCEPT !.pc = "provider", !.before = Fingerprints(repo),
                                  !.saw = repo]
    /\ UNCHANGED <<workspace, scope, review, sealing, receipt, checking>>

\* the provider has answered: a scoped change or a change of the spec is a finding
ReviewGuard ==
    /\ reading.pc = "provider"
    /\ reading' = [reading EXCEPT !.pc = "judged", !.met = repo,
           !.finding = BlockingMutations(reading.before, Fingerprints(repo), scope,
                                         Alone[scope], SpecFile) # {}]
    /\ UNCHANGED <<workspace, scope, review, sealing, receipt, checking>>

Recorded(provider, files, passes, saw) ==
    [scope |-> scope, files |-> files, passes |-> passes, provider |-> provider,
     saw |-> FileDigests(saw.work, scope)]

\* the material is sealed again: this seal is the one the review records
ReviewRecord ==
    /\ reading.pc = "judged"
    /\ LET files == MaterialSeal(repo, scope)
       IN  /\ reading' = Reading("over")
           /\ \E provider \in Vendors :
                review' = IF files = Failed THEN NoReview
                          ELSE Recorded(provider, files, ~reading.finding, reading.saw)
    /\ UNCHANGED <<workspace, scope, sealing, receipt, checking>>

\* the operator overrides instead: nothing is sealed
HumanReview ==
    /\ reading.pc = "idle" /\ review = NoReview
    /\ review' = Recorded(Human, << >>, TRUE, repo)
    /\ reading' = Reading("over")
    /\ UNCHANGED <<workspace, scope, sealing, receipt, checking>>

-----------------------------------------------------------------------------
(* scafld finalize. *)

\* core/receipt.ClassifyIndependence: derived from the vendors, never claimed
Independence(provider, agent) ==
    CASE provider = Human -> "human_override"
      [] provider \in Vendors /\ agent \in Vendors /\ provider # agent -> "cross_vendor"
      [] OTHER -> "isolation_only"

Unpinned(snap) == Pinned \cap (DOMAIN snap.digests \cup snap.deleted)

\* what the receipt calls reviewed: read from a snapshot finalize makes itself
Coverage(snap) ==
    [shown |-> [p \in DOMAIN snap.digests \ Pinned |-> snap.digests[p]],
     gone |-> snap.deleted \ Pinned,
     withheld |-> snap.ignored \cup Unpinned(snap)]

\* Mutant: only the names of the reviewed files are compared.
CoveredByName(snap, cover) ==
    DOMAIN snap.digests \subseteq DOMAIN cover.shown \cup cover.gone \cup cover.withheld

\* core/receipt.ValidateReviewCoverage: a deleted path is covered whatever it holds
Covered(snap, cover) ==
    \A p \in DOMAIN snap.digests :
        \/ p \in cover.gone \cup cover.withheld /\ p \notin DOMAIN cover.shown
        \/ p \in DOMAIN cover.shown /\ cover.shown[p] = snap.digests[p]

SameMaterial(one, other) ==
    /\ one.digests = other.digests /\ one.deleted = other.deleted
    /\ one.ignored = other.ignored

Sealing(pc) == [pc |-> pc, scope |-> {}, base |-> 0, minted |-> 0, host |-> Unknown,
                cover |-> NoReceipt, snap |-> NoReceipt,
                gated |-> NoReceipt, shown |-> NoReceipt, taken |-> NoReceipt]

Stop == sealing' = Sealing("over")

\* cli/finalize.defaultFinalizeBaseRef: without a base it is HEAD, if there is one
BaseOf(baseRef) == IF baseRef = 0 THEN repo.head ELSE baseRef

\* cli/finalize.deriveGateScope: the hint, or what the review sealed; the spec
\* and the base diff are asked only where there is no review
GateScope(hint) == IF hint = {} THEN review.scope ELSE hint

\* the snapshots finalize compares and signs, through gateSnapshotter
Taken == Snapshot(repo, sealing.scope, sealing.base)

(***************************************************************************)
(* The base is resolved, the gate compares the seal of a provider's review *)
(* with the checkout, and the scope is the hint or the reviewed one.       *)
(***************************************************************************)
FinalizeGate ==
    /\ sealing.pc = "idle" /\ review # NoReview /\ review.passes
    /\ review.provider = Human \/ MaterialSeal(repo, review.scope) = review.files
    /\ \E hint \in Hints \cup {{}}, baseRef \in 0 .. Len(repo.commits),
          host \in Vendors \cup {Unknown} :
         sealing' = [sealing EXCEPT !.pc = "gated",
                         !.scope = GateScope(hint),
                         !.base = BaseOf(baseRef),
                         !.minted = now, !.host = host, !.gated = repo]
    /\ UNCHANGED <<workspace, scope, reading, review, receipt, checking>>

FinalizeCover ==
    /\ sealing.pc = "gated"
    /\ LET snap == Snapshot(repo, sealing.scope, sealing.base)
       IN  IF snap = Failed THEN Stop
           ELSE sealing' = [sealing EXCEPT !.pc = "covered", !.cover = Coverage(snap),
                                           !.shown = repo]
    /\ UNCHANGED <<workspace, scope, reading, review, receipt, checking>>

FinalizeSnapshot ==
    /\ sealing.pc = "covered"
    /\ IF Taken = Failed THEN Stop
       ELSE sealing' = [sealing EXCEPT !.pc = "snapped", !.snap = Taken, !.taken = repo]
    /\ UNCHANGED <<workspace, scope, reading, review, receipt, checking>>

Passes(tree) == tree[Criterion] \in Good

\* the criteria run in the checkout, and may write there
FinalizeAcceptance ==
    /\ sealing.pc = "snapped"
    /\ IF Passes(repo.work)
       THEN sealing' = [sealing EXCEPT !.pc = "accepted"]
       ELSE Stop
    /\ \/ UNCHANGED repo
       \/ \E out \in Outputs : repo' = [repo EXCEPT !.work[out[1]] = out[2]]
    /\ UNCHANGED <<now, keys, acts, scope, reading, review, receipt, checking>>

\* Mutant: acceptance may rewrite a file, as long as it adds and removes none.
UndisturbedNames(snap) ==
    Taken # Failed /\ DOMAIN Taken.digests = DOMAIN snap.digests

\* the snapshot after acceptance, whose material must be the one before it
Undisturbed(snap) == Taken # Failed /\ SameMaterial(Taken, snap)

\* core/receipt.validateBody, of what can be missing: the two commits, and the
\* coverage of a digest
ValidBody(snap, cover) == snap.base # 0 /\ snap.head # 0 /\ Covered(snap, cover)

Body(snap, cover) ==
    [scope |-> sealing.scope, base |-> snap.base, head |-> snap.head,
     digests |-> snap.digests, withheld |-> snap.ignored \cup cover.withheld,
     provider |-> review.provider, host |-> sealing.host,
     level |-> Independence(review.provider, sealing.host), minted |-> sealing.minted]

\* Mutant: the body is not validated, so a repository without a commit gets a receipt.
FinalizeMintUnborn ==
    /\ sealing.pc = "accepted"
    /\ IF Undisturbed(sealing.snap) /\ Covered(sealing.snap, sealing.cover)
       THEN receipt' = Body(sealing.snap, sealing.cover)
       ELSE UNCHANGED receipt
    /\ Stop
    /\ UNCHANGED <<workspace, scope, reading, review, checking>>

FinalizeMint ==
    /\ sealing.pc = "accepted"
    /\ IF Undisturbed(sealing.snap) /\ ValidBody(sealing.snap, sealing.cover)
       THEN receipt' = Body(sealing.snap, sealing.cover)
       ELSE UNCHANGED receipt
    /\ Stop
    /\ UNCHANGED <<workspace, scope, reading, review, checking>>

-----------------------------------------------------------------------------
(* scafld verify. *)

\* core/trust.ActiveKeyAt: the revoked flag always, the dates against minted_at
KeyInForce == ~keys.revoked /\ receipt.minted < keys.until

Independent(minimum) ==
    /\ receipt.level = Independence(receipt.provider, receipt.host)
    /\ minimum = "cross_vendor" => receipt.level = "cross_vendor"

\* where acceptance runs: the checkout, a clean worktree of the commit, nowhere
RootIsMaterial(root, ref) ==
    root = "here" /\ ref # 0 => repo.head = ref /\ ExactlyHead(repo)

Checking(pc, passed) ==
    [pc |-> pc, ref |-> 0, target |-> 0, root |-> "here", minimum |-> "isolation_only",
     opened |-> NoReceipt, passed |-> passed]

Verdict(passed) == checking' = Checking("over", passed)

VerifyStart ==
    /\ checking.pc = "idle" /\ receipt # NoReceipt
    /\ \E ref \in 0 .. Len(repo.commits), target \in 0 .. Len(repo.commits),
          root \in {"here", "clone", "none"},
          minimum \in {"isolation_only", "cross_vendor"} :
         /\ ref = 0 => root = "here"
         /\ checking' = [checking EXCEPT !.pc = "opened", !.ref = ref, !.target = target,
                             !.root = root, !.minimum = minimum]
    /\ UNCHANGED <<workspace, scope, reading, review, sealing, receipt>>

VerifyTrust ==
    /\ checking.pc = "opened"
    /\ IF /\ RootIsMaterial(checking.root, checking.ref)
          /\ KeyInForce
          /\ Independent(checking.minimum)
       THEN checking' = [checking EXCEPT !.pc = "trusted", !.opened = repo]
       ELSE Verdict(FALSE)
    /\ UNCHANGED <<workspace, scope, reading, review, sealing, receipt>>

\* Mutant: the pinned files, which finalize withholds, are not.
WithheldIgnored(snap) == snap.ignored

\* cli/verify.snapshotForVerify: pinned paths count as withheld here as well
Withheld(snap) == snap.ignored \cup Unpinned(snap)

Target(ref) ==
    IF ref = 0 THEN Snapshot(repo, receipt.scope, receipt.base)
    ELSE SnapshotRef(repo, receipt.scope, receipt.base, ref)

\* Mutant: every signed file must be there, but others may be as well.
MaterialContains(snap) ==
    /\ snap.base = receipt.base
    /\ \A p \in DOMAIN receipt.digests :
         p \in DOMAIN snap.digests /\ snap.digests[p] = receipt.digests[p]

MaterialMatches(snap) ==
    /\ snap.base = receipt.base
    /\ snap.digests = receipt.digests
    /\ Withheld(snap) = receipt.withheld

Descends(ref, target) ==
    /\ target # 0 => IsAncestor(repo, receipt.base, target)
    /\ ref # 0 /\ ref # target =>
         /\ IsAncestor(repo, receipt.base, ref)
         /\ target # 0 => IsAncestor(repo, target, ref)

VerifyMaterial ==
    /\ checking.pc = "trusted"
    /\ LET snap == Target(checking.ref)
       IN  IF \/ snap = Failed
              \/ ~MaterialMatches(snap)
              \/ ~Descends(checking.ref, checking.target)
           THEN Verdict(FALSE)
           ELSE IF checking.root = "none" THEN Verdict(TRUE)
           ELSE checking' = [checking EXCEPT !.pc = "matched",
                                   !.opened = IF checking.ref = 0 THEN repo ELSE @]
    /\ UNCHANGED <<workspace, scope, reading, review, sealing, receipt>>

\* every recorded criterion passed when the receipt was minted, and must again
VerifyAcceptance ==
    /\ checking.pc = "matched"
    /\ Verdict(Passes(IF checking.root = "clone" THEN TreeOf(repo, checking.ref)
                      ELSE repo.work))
    /\ UNCHANGED <<workspace, scope, reading, review, sealing, receipt>>

-----------------------------------------------------------------------------
(* The operator. *)

Acts == acts' = acts + 1 /\ UNCHANGED <<scope, reading, review, sealing, receipt, checking>>

Changes(next) == Acts /\ repo' = next /\ UNCHANGED <<now, keys>>

Edit(p, content) ==
    /\ repo.work[p] # content
    /\ Changes([repo EXCEPT !.work[p] = content])

\* git add of one file, with -f when it is ignored
Stage(p) ==
    /\ repo.index[p] # repo.work[p]
    /\ Changes([repo EXCEPT !.index[p] = repo.work[p]])

\* git mv
Move(p, q) ==
    /\ repo.index[p] # Gone /\ repo.work[p] # Gone /\ repo.index[q] = Gone /\ repo.work[q] = Gone
    /\ Changes([repo EXCEPT !.index = [@ EXCEPT ![q] = repo.index[p], ![p] = Gone],
                            !.work = [@ EXCEPT ![q] = repo.work[p], ![p] = Gone]])

\* git update-index --assume-unchanged
Hide(p) ==
    /\ repo.index[p] # Gone /\ p \notin repo.flags
    /\ Changes([repo EXCEPT !.flags = @ \cup {p}])

\* git add -A
Staged(r) ==
    [r EXCEPT !.index = [p \in Paths |-> IF p \in Ignored /\ r.index[p] = Gone
                                         THEN Gone ELSE r.work[p]]]

Committed(r, parent) ==
    [r EXCEPT !.commits = Append(@, [tree |-> r.index, parent |-> parent]),
              !.head = Len(r.commits) + 1]

\* git commit, of the index or of everything, on HEAD or in its place
Commit ==
    \E r \in {repo, Staged(repo)} :
      \E parent \in {repo.head} \cup
            (IF repo.head = 0 THEN {} ELSE {repo.commits[repo.head].parent}) :
        /\ r.index # TreeOf(repo, repo.head)
        /\ Changes(Committed(r, parent))

Tick == now < MaxTime /\ now' = now + 1 /\ Acts /\ UNCHANGED <<repo, keys>>

\* the key is revoked for good, or from some time on
Revoke ==
    /\ Acts
    /\ \/ ~keys.revoked /\ keys' = [keys EXCEPT !.revoked = TRUE]
       \/ \E t \in 0 .. now : t < keys.until /\ keys' = [keys EXCEPT !.until = t]
    /\ UNCHANGED <<repo, now>>

Operator ==
    /\ acts < MaxActs
    /\ \/ \E p \in Paths :
            \/ \E content \in Bytes \cup {Gone} : Edit(p, content)
            \/ Stage(p)
            \/ Hide(p)
            \/ \E q \in Paths : Move(p, q)
       \/ Commit
       \/ Tick
       \/ Revoke

-----------------------------------------------------------------------------
Init ==
    /\ repo \in Repositories
    /\ scope \in Scopes
    /\ now = 0 /\ acts = 0
    /\ keys = [revoked |-> FALSE, until |-> MaxTime + 1]
    /\ reading = Reading("idle") /\ review = NoReview
    /\ sealing = Sealing("idle") /\ receipt = NoReceipt
    /\ checking = Checking("idle", FALSE)

Next ==
    \/ ReviewStart \/ ReviewGuard \/ ReviewRecord \/ HumanReview
    \/ FinalizeGate \/ FinalizeCover \/ FinalizeSnapshot
    \/ FinalizeAcceptance \/ FinalizeMint
    \/ VerifyStart \/ VerifyTrust \/ VerifyMaterial \/ VerifyAcceptance
    \/ Operator

Spec == Init /\ [][Next]_vars

-----------------------------------------------------------------------------
(* Properties. *)

Stages(actor) ==
    CASE actor = "review"   -> {"idle", "provider", "judged", "over"}
      [] actor = "finalize" -> {"idle", "gated", "covered", "snapped", "accepted", "over"}
      [] actor = "verify"   -> {"idle", "opened", "trusted", "matched", "over"}

\* The type invariant: what is on disk, staged and committed, what the review
\* recorded and what the receipt says keep their shape, and a receipt names a
\* commit and a level that its vendors give it.
TypeOK ==
    /\ IsRepository(repo)
    /\ scope \in Scopes /\ acts \in 0 .. MaxActs /\ now \in 0 .. MaxTime
    /\ keys \in [revoked : BOOLEAN, until : 0 .. (MaxTime + 1)]
    /\ reading.pc \in Stages("review") /\ reading.finding \in BOOLEAN
    /\ sealing.pc \in Stages("finalize") /\ sealing.minted \in 0 .. now
    /\ checking.pc \in Stages("verify") /\ checking.passed \in BOOLEAN
    /\ review # NoReview =>
         /\ IsPartialTree(review.files) /\ review.passes \in BOOLEAN
         /\ review.provider \in Vendors \cup {Human}
    /\ receipt # NoReceipt =>
         /\ IsPartialTree(receipt.digests) /\ receipt.withheld \subseteq Paths
         /\ receipt.base \in DOMAIN repo.commits /\ receipt.head \in DOMAIN repo.commits
         /\ receipt.level = Independence(receipt.provider, receipt.host)

\* a file of a renaming that both looks of the guard show the same way, or that
\* carries the name of a file outside the scope, of a file that the scope names
\* itself, or of a runtime file; and neither look shows the file by itself
RenamedUnseen(p) ==
    LET before == Renamings(reading.saw, Paths)
        after  == Renamings(reading.met, Paths)
    IN  /\ p \notin OwnLines(reading.saw) \cup OwnLines(reading.met)
        /\ \E r \in before \cup after :
             /\ p \in {r[1], r[2]}
             /\ \/ r[1] \notin (scope \ Alone[scope]) \ Runtime
                \/ /\ r \in before \cap after
                   /\ StatusCode(reading.saw, r[2])[2] = StatusCode(reading.met, r[2])[2]

\* No review passes over code that moved under the provider: a scoped file that
\* the seal covers holds after the provider's answer what it held before, unless
\* the guard cannot see it: its name is quoted, it is renamed throughout, from
\* outside the scope or from a name that is itself an entry of the scope, it is
\* ignored and was not committed yet, a commit took the change out of `git
\* status`, or the scope is ".".
MovingCodeIsSeen ==
    [][reading.pc = "judged" /\ review' # review /\ review'.passes =>
        \A p \in DOMAIN review'.files \cup DOMAIN MaterialSeal(reading.saw, scope) :
            \/ reading.met.work[p] = reading.saw.work[p]
            \/ p \in Odd \/ RenamedUnseen(p)
            \/ p \in Ignored /\ TreeOf(reading.saw, reading.saw.head)[p] = Gone
            \/ reading.met.head # reading.saw.head
            \/ scope = Paths]_vars

\* A receipt attests reviewed bytes: every digest it signs is the one the review
\* sealed, unless the review is an operator's override, finalize was given another
\* scope, the checkout changed between the gate and the snapshot that is called
\* reviewed, or the path was withheld or deleted in that snapshot and changed
\* before the signed one.
ReceiptAttestsReview ==
    [][receipt' # receipt /\ review.provider # Human =>
        \A p \in DOMAIN receipt'.digests :
            \/ p \in DOMAIN review.files /\ review.files[p] = receipt'.digests[p]
            \/ p \notin review.scope
            \/ sealing.shown # sealing.gated
            \/ p \in sealing.cover.gone \cup sealing.cover.withheld]_vars

\* What is signed stood on disk before the acceptance commands ran and after the
\* last of them: a command that rewrites scoped files leaves no receipt.
SignedSurvivesAcceptance ==
    [][receipt' # receipt =>
        /\ MaterialSeal(sealing.taken, sealing.scope) = receipt'.digests
        /\ MaterialSeal(repo, sealing.scope) = receipt'.digests
        /\ IgnoredPaths(repo, sealing.scope) \subseteq receipt'.withheld]_vars

\* ignored files that are staged but not committed, or committed but not staged
Forced(r, ps) ==
    {p \in ps \cap Ignored : (r.index[p] = Gone) # (TreeOf(r, r.head)[p] = Gone)}

\* staged files that are neither committed nor on disk
Vanished(r, ps) ==
    {p \in ps : r.index[p] # Gone /\ r.work[p] = Gone /\ TreeOf(r, r.head)[p] = Gone}

\* One seal for the same bytes: committing everything keeps the seal of the
\* review, and the cheap seal of status is the same one, but for ignored files
\* that are forced in or taken out, and for status also vanished ones, and ones
\* renamed within the scope.
SealsAgree ==
    LET seal == MaterialSeal(repo, scope)
    IN  seal # Failed =>
        /\ Forced(repo, scope) = {} =>
             MaterialSeal(Committed(Staged(repo), repo.head), scope) = seal
        /\ \/ Forced(repo, scope) # {} \/ Vanished(repo, scope) # {}
           \/ Renamings(repo, scope) # {}
           \/ StatusMaterialSeal(repo, scope) = seal

\* the tree holds what was signed, and nothing scoped beyond it but withheld files
CarriesReceipt(tree) ==
    /\ \A p \in DOMAIN receipt.digests : tree[p] = receipt.digests[p]
    /\ \A p \in receipt.scope \ Runtime :
         tree[p] # Gone => p \in DOMAIN receipt.digests \cup receipt.withheld

\* A verification that passes means what it says: the commit, or the checkout
\* when it was read, carries exactly the signed material on top of the signed
\* base, acceptance passed on that very tree, and a cross-vendor policy met two
\* vendors.  In a checkout that is still being changed none of that can be said
\* of acceptance, nor of ignored files that were forced into the index.
VerifyIsSound ==
    [][checking'.passed /\ ~checking.passed =>
        LET still == repo = checking.opened
        IN  /\ checking.ref # 0 =>
                 /\ CarriesReceipt(TreeOf(repo, checking.ref))
                 /\ IsAncestor(repo, receipt.base, checking.ref)
                 /\ checking.target # 0 => IsAncestor(repo, checking.target, checking.ref)
            /\ checking.root = "here" /\ still =>
                 /\ Forced(repo, receipt.scope) = {} => CarriesReceipt(repo.work)
                 /\ Passes(repo.work)
                 /\ IsAncestor(repo, receipt.base, repo.head)
            /\ checking.root = "clone" => Passes(TreeOf(repo, checking.ref))
            /\ checking.minimum = "cross_vendor" =>
                 /\ {review.provider, receipt.host} \subseteq Vendors
                 /\ review.provider # receipt.host]_vars

\* An honest receipt verifies: no verification of a commit fails that descends
\* from the signed base and carries the signed material, if its tree passes
\* acceptance, the key is in force, the policy is met, the target lies in
\* between, and what was withheld is a pinned file that is still there, as is
\* every pinned file of the base: what is covered and what is signed may be
\* taken against two bases, and only the first withholds a deleted pinned file.
Honest ==
    LET c == checking.ref
    IN  /\ c # 0 /\ checking.root \in {"clone", "none"}
        /\ CarriesReceipt(TreeOf(repo, c))
        /\ receipt.withheld \subseteq Pinned \cap DOMAIN receipt.digests
        /\ DeletedPaths(repo, receipt.base, TreeOf(repo, c), receipt.scope) \cap Pinned = {}
        /\ IsAncestor(repo, receipt.base, c)
        /\ checking.target # 0 => /\ IsAncestor(repo, receipt.base, checking.target)
                                  /\ IsAncestor(repo, checking.target, c)
        /\ checking.root = "clone" => Passes(TreeOf(repo, c))
        /\ ~keys.revoked /\ receipt.minted < keys.until
        /\ checking.minimum = "cross_vendor" => receipt.level = "cross_vendor"

HonestReceiptVerifies ==
    [][checking.pc # "over" /\ checking'.pc = "over" /\ ~checking'.passed => ~Honest]_vars
=============================================================================
