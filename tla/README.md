# A TLA+ model of scafld

scafld is a protocol for agent work. A task is a Markdown **spec** with a contract and
acceptance criteria. Commands (`approve`, `build`, `review`, `finalize`, ...), each an
operating-system process of its own, decide what may happen to the task and record evidence
in an append-only **session ledger**. At the end `finalize` signs a **receipt** for the tree it
checked and chains it into the ledger; `verify` checks that receipt against a tree later. There is
no server: the processes meet only in the files of the workspace. What is hard about this program
is what several processes, and the people and agents that edit the same files, do at once, and
what is left when one of them dies.

This directory models that in TLA+, checks it with TLC and proves most of its safety (the
store and its refinement, the commands, the rounds of a spec, a provider call, receipts) with TLAPS. `src/` below is the repository.

- [Inventory](#inventory)
- [Modules](#modules)
- [The session store](#the-session-store)
- [The task commands and what status advises](#the-task-commands-and-what-status-advises)
- [Calling a provider](#calling-a-provider)
- [Specs and harden rounds](#specs-and-harden-rounds)
- [Builds with phases](#builds-with-phases)
- [From reviewed bytes to a verified merge](#from-reviewed-bytes-to-a-verified-merge)
- [Runs](#runs)
- [Where the documentation and the code disagree](#where-the-documentation-and-the-code-disagree)
- [Proofs](#proofs)
- [Not modelled](#not-modelled)
- [Plan](#plan)

## Inventory

The components, the state they keep and what makes each one correct. `PROJECT.json` lists them
with their sources; the last column names the module that has them.

| component | state | operations | correct when | module |
|---|---|---|---|---|
| session ledger (`core/session`) | entries, cached head, validity | append an entry, replay | receipts form one chain; the cached head is the head a replay computes | `SessionLedger` |
| session store (`adapters/jsonstore`, `platform/filelock`, `platform/atomicfile`) | one JSON file per task, a lock file, a mutex per process and path | `Load`, `Append`, `AppendTransaction` | no update is lost; an acknowledged entry survives crash and power failure; locks are never leaked | `SessionStore`, `EvidenceLog` |
| lifecycle projection (`core/reconcile`) | none | status and current phase of a task from its ledger | acceptance evidence for another contract does not count | `ReviewGate`, `Acceptance` |
| review gate (`core/reviewgate`) | none | authority (what authorises completion), projection (what the gate shows) | a pass after a failure rests on something new; a lease ends | `ReviewGate` |
| `review` (`app/review`) | a review attempt with a lease in the ledger | preflight, context, seal, start, provider, record; packet repair; human override; mutation guard | one provider at a time; verdict recorded with what was reviewed; code that moved is noticed | `TaskCommands`, `Receipts` |
| `build` (`app/build`) | evidence in the ledger | open, continue, rerun, verdict, manual evidence | phases in order; from review everything is judged again | `BuildPhases`, `TaskCommands` |
| `finalize` (`adapters/cli/finalize`, `app/finalize`) | receipt files, the ledger, the archived spec | recover, gate, snapshots, acceptance, anchor, publish, archive | one receipt; nothing published that the ledger does not vouch for; always recoverable; what is signed was reviewed | `TaskCommands`, `Receipts` |
| `approve`, `complete`, `cancel`, `fail` | the ledger, the spec file | append, save | session first: a spec is never ahead of its ledger | `TaskCommands`, `HardenRounds` |
| status (`app/status`) | none | the next action | an operator who follows it gets somewhere | `TaskStatus` |
| spec store (`adapters/markdown`) | spec files in directories by status | find, load, save (merges, moves the file), create | the spec is never lost, and no prose either | `SpecStore` |
| harden (`app/harden`, `core/hardengate`), plan (`app/plan`) | rounds in the spec file | provider round, manual round, mark passed, repair; the gate of approve | a pass was judged against this draft; no round stacked or left open | `HardenRounds` |
| process runner (`adapters/process`) | a child process, timers, output pumps | run under two timeouts and a context | always returns; the whole output, one reason | `ProcessRunner` |
| submit server (`platform/mcpsubmit`) | the accepted submission | tool call | accepts once, writes before it answers | `SubmitServer` |
| providers (`adapters/providers`) and dossiers (`core/review`, `core/harden`) | none | select, invoke, judge | only a run that ended by itself gives a verdict | `ProviderCall`, `Dossiers` |
| acceptance (`core/acceptance`, `app/acceptance`) | indexes of the ledger | evaluate a criterion, match its record | evidence is for the criterion as it is declared now | `Acceptance` |
| git adapter, workspace, review scope (`adapters/git`, `core/workspace`, `core/reviewscope`) | none | status, snapshot, two seals, mutations | the same bytes have one seal | `GitWorkspace` |
| receipts, trust, verify (`core/receipt`, `core/trust`, `app/verify`) | key registry | mint, verify | a receipt for another tree fails, an honest one passes | `Receipts` |
| handoff, list, report, config, bundle, init, update, command line | - | text, views and I/O | - | [not modelled](#not-modelled) |

**How they interact.** A command loads the spec file and the ledger, projects a status and a gate
from them, does its work (runs tests, calls a provider for minutes, takes snapshots of the tree)
and then appends to the ledger or saves the spec. An append takes the locks and re-reads the file;
a few commands re-check their decision inside that transaction (`startReviewAttempt`, the anchor of
`finalize`), most do not. A save of a spec takes no lock at all. A provider is a child process with
a server of scafld's own as its grandchild, and what it hands in comes back through a file. Within
one process the calls are sequential, except for goroutines that wait for a mutex on
behalf of calls that were cancelled, and those that pump a child's output.

**What is hard.** Interleavings of the read and the append (or the save) of different processes; decisions taken
on a ledger, a spec, a tree or a clock reading that is stale when they are recorded; cancellations at any point of
the two-lock protocol; a crash between the anchor, the two receipt files and the archive, or between two phases; power
failure between a rename and the sync of its directory; receipts minted concurrently on one head;
trust withdrawn from a key later; a lease that ends while its holder still runs; exit, two timeouts and
an interrupt that race; a checkout that moves between the four times a finalize and a review read it. `PROJECT.json`
"hazards" lists each at its line.

## Modules

| module | what it is |
|---|---|
| `SessionLedger` | ledgers and their hash chain, as operators |
| `SessionStore` | the store: concurrent calls of `AppendTransaction`, faults; EXTENDS `SessionLedger` |
| `EvidenceLog` | the abstract specification: what the store promises its clients |
| `SessionStoreProofs` | theorems about `SessionStore` |
| `ReviewGate` | the read models: lifecycle, authority and gate, as operators on a ledger |
| `TaskCommands` | the commands as concurrent processes over one ledger; EXTENDS `ReviewGate` |
| `TaskStatus` | what status advises and where each command leads; EXTENDS `TaskCommands` |
| `TaskTypeProofs`, `TaskCommandsProofs` | lemmas about the operators of `ReviewGate`; theorems about `TaskCommands` and `TaskStatus`: types, safety, where advice leads |
| `NumberLemmas` | lemmas about numbers |
| `ProcessRunner` | a child process with its pumps and watchdogs |
| `Dossiers` | what a provider hands in, and how text becomes it, as operators |
| `SubmitServer` | the MCP server a provider hands its dossier to; EXTENDS `Dossiers` |
| `ProviderCall` | the composition: one call of a provider; EXTENDS `ProcessRunner` and `SubmitServer` |
| `ProviderCallProofs` | theorems about the composition |
| `SpecStore` | the spec files and a save, step by step |
| `HardenRounds` | the commands that save a spec; EXTENDS `SpecStore` |
| `HardenRoundsProofs` | theorems about `HardenRounds` and the saves below it |
| `Acceptance` | criteria, their evidence, and the lifecycle it projects to, as operators |
| `BuildPhases` | concurrent builds of a task with phases; EXTENDS `Acceptance` |
| `BuildPhasesProofs` | theorems about `BuildPhases`, and lemmas about the projection in `Acceptance` |
| `GitWorkspace` | what scafld reads out of a Git repository, as operators |
| `Receipts` | review, finalize and verify over a repository that changes; EXTENDS `GitWorkspace` |
| `ReceiptsProofs` | theorems about `Receipts`, and lemmas about commits, snapshots and seals |
| `MCSessionStore`, `MCTaskCommands`, `MCProviderCall`, `MCHardenRounds`, `MCBuildPhases`, `MCReceipts` | values for TLC |

The modules meet in what they assume of each other. `EvidenceLog` is where the store and its clients meet: `SessionStore`
implements it, and `TaskCommands`, `BuildPhases` and `HardenRounds` rely on it: one append (or one transaction) of a command is
one step there and appends to the end of the current ledger, because that is what the store is shown to provide.
`TaskCommands` takes a provider to be a step that answers or fails in the end: that is `CallEnds` of `ProviderCall`, with
its exception. `TaskCommands` and `HardenRounds` share the commands that save a spec, the first with one atomic save among
all commands, the second with its steps; `TaskCommands` and `BuildPhases` share the build, the first
with one criterion among all commands, the second in full and alone; `TaskCommands` and `Receipts` share review and
finalize, the first with the ledger and a version number for the tree, the second with the tree and one review for the ledger.

In every module the operators whose comment begins with "Mutant" are deliberately wrong variants
of the definition below them; no specification uses them. They document which mistake in the code each property
would reveal.

## The session store

`SessionStore` has one action per step of `AppendTransaction` (`src/internal/adapters/jsonstore/session_store.go:122-183`)
that another process, a cancellation or a crash can come between:

| code | action |
|---|---|
| `lockMutexContext`: its goroutine locks; the select sees it | `LockMutex`, `MutexAcquired` |
| the select sees the cancelled context; the goroutine that stays behind | `CancelledAtMutex`, `GhostLocks`, `GhostUnlocks` |
| `filelock.lockContext` | `LockFile`, `CancelledAtFile` |
| `loadUnlocked`, `prepareForAppend` | `Load` |
| the derive function, `AppendEntryWithOptions`, the chain check | `Derive`, `GiveUp` |
| `atomicfile.Write`: temporary file and rename; sync of the directory | `Rename`, `SyncDir` |
| their errors | `FileFails`, `SyncDirFails` |
| the deferred unlocks and the return | `UnlockFile`, `Return` |
| a deadline or signal, a dead process, a power failure, a key that loses its trust | `Cancel`, `Crash`, `PowerLoss`, `Revoke` |

The file is the sequence `disk` of versions a power failure could leave. A rename appends the new
version, the sync of the directory makes it the only one, and `PowerLoss` picks any of them.
(`atomicfile.Write` syncs the file itself before the rename, so no version is ever torn.)

Data are abstracted to what the chain can tell apart. A chain head is the sequence of digests
hashed into it. A receipt's digest is its entry's identity. The trust check is a set `revoked` of
digests the current policy rejects. `Requests` are the shapes the commands append: nothing, one
plain entry, and an entry with a receipt minted on the head a `Load` of that moment shows.

Not in the module: the derived indexes of criteria and phases (`Acceptance` has them), `Save`
(no command calls it), listing, and the Windows lock. `canAppendFromCachedHead` also wants the stored
indexes to be present; an empty one is left out of the file, so `PrepareForAppend` allows the replay
even when the cached head would do.

## The task commands and what status advises

`TaskCommands` is the life of one task. `Commands` are processes; each picks what it is
(`Begin`), loads the spec, and goes through its steps. Each read that decides something and each append is a
step. `call[n].seen` is how much of the ledger a command has loaded: the ledger only grows, so a
loaded ledger is a prefix of the current one and its length says everything.

| command | steps | decided on |
|---|---|---|
| approve | `ApproveBaseline`, `ApproveAppend`, `ApproveSave` | the status in the file |
| build | `BuildLoad`, `BuildReload`, `BuildOpen` / `BuildRepair`, `BuildRun`, `BuildCriterion`, `BuildVerdict` | two loads of the ledger |
| review, `--force` | `ReviewLoad`, `ReviewPreflight`, `ReviewPrepare`, `ReviewSeal`, `ReviewStart`, `ProviderAnswers`, `ReviewRecord` / `ReviewFails` | preflight on the loaded ledger, start inside its transaction, record on nothing |
| review `--repair-packet` | `RepairPacketLoad`, `RepairPacketRecord` | the loaded ledger |
| review `--human-reviewed` | `HumanLoad`, `HumanOverride`, `HumanSign` | the status only |
| finalize | `FinalizeLoad`, `FinalizeSnapshot`, `FinalizeAccept`, `FinalizeEvidence` / `FinalizeAnchor`, `FinalizeTaskFile`, `FinalizeLatestFile`, `FinalizeArchive` | the gate once, the receipts inside the anchor transaction |
| complete (legacy) | `LegacyLoad`, `LegacyComplete` | the gate once |
| cancel, fail | `Stop` | nothing |

Around them, `EditSpec` and `EditWork` are the operator or an agent changing the contract or files
in the task's scope, `Tick` is the clock and `Crash` a process that dies.

The gate (`ReviewGate`) scans the ledger backwards for the newest entry of certain types. The module
says this with one operator, `LastOf(es, types)`; the sets `Verdicts`, `Attempts`, `Gates`, `Windows`
are the `case` lists of the loops in `authority.go` and `projection.go`.

`TaskStatus` adds `NextAction`, the decision table of `scafld status` (`status.go`: `repairContract`, `applyReviewGateState`,
`nextAction`), and `Carry`, what the advised command makes of the task when it is run by itself, deciding by its *own* gate.
The property `AdviceLeadsOn` then asks, in every state the races leave: does following the advice, one command after the
other, complete the task (`Followed` is that command after command, `Settled` where it is to end)? It is a statement about states, not about a run, so the operator's commands are functions from a view of
the task (ledger, spec, material, clock) to a view and are not interleaved with anything.

Abstractions, with the reason each is sound:

- *The task's material* is one version number, raised by every edit; a version never returns. The
  content digest of the code is compared for equality only. `Receipts` has trees.
- *A contract* is a model value with the acceptance criterion it declares: "reworded" is "first" in
  other prose with the same criterion, "retested" declares another.
- *One criterion, no phases.* A task without phases and with one final acceptance criterion; phases and
  manual evidence are in `BuildPhases`.
- *A review packet, its hash and the reviewed head* are written whole by the command that records
  the review, so the checks that they agree always pass and are left out; so are provider names and
  model names, the trust check (it is in the store) and the ledger-valid check of
  `finalize` (`run.go:182`), which the store's chain makes true.
- *Stage entries* (`appendReviewStage`) are kept only right behind a `review_override`. Only
  `authority.go:357` reads adjacency; every other reader skips the type.
- *finalize's two snapshots* are one step here and four reads in `Receipts`.
- *`ensureWorkspaceBaseline`* in build finds the baseline that approve recorded and does nothing.
- *fail* is the same action as *cancel* with another entry. `--force` always comes with a reason.
- *Saving a spec* is atomic and writes only the status; `SpecStore` has its steps.
- *The clock* moves only while some lease runs, because a time is only ever compared with the end
  of a lease; `Begin` and `Tick` leave room for one lease before `MaxTime`.
- *Status* leaves out hardening (the advice before approval) and states in which a file cannot be read.

## Calling a provider

`review` and `harden` hand their prompt to codex, claude, gemini or a command of the operator's. `ProviderCall` is one such call,
composed of the two state machines below it and the goroutine of the command.

| code | action |
|---|---|
| `Runner.Run` up to its select (`adapters/process/runner.go`): a done context, a command that does not start, a child | `Start` |
| the pumps into the bounded capture; their end; `cmd.Wait` after both | `Pump`, `PumpsDone`, `Reap` |
| the four cases of the select in `waitProcess` (`wait.go:20-40`) | `Exited`, `Cancelled`, `TimedOut`, `Silent` |
| `terminate`: SIGTERM to the group, grace, SIGKILL, the last receive | `Terminate`, `Kill`, `Stopped` |
| `mcpsubmit`: a tool call, the temporary file and its rename, the answer | `ToolCall`, `WriteAtomic`, `RespondAccepted` |
| `providers.Select`, `Invoke...`, reading the answer | `Choose`, `Invoke`, `ReadResponse` |
| `LocalProvider`, which answers at once and starts no process | `InvokeLocal` |
| `dossierFromProviderResult` and its twin for harden; the repair artifact | `Judge`, `Report` |

The child, its descendants, the operator and the clock are the environment: the child prints, calls the tool, forks a helper
that stays in its process group or leaves it, ends or never ends. `cmd.Wait` can also return an error that is no exit code (copying the input failed): `Exited` with
`"wait"`, a failed call although the child ended well. Go's select takes any ready case: so do the disjuncts of `RunnerStep`.

What a provider hands in is data. `Dossiers` says what `NormalizeDossier`, `ValidateDossier` and the two `ParseText` make of
it: a line of text is an object in dossier shape or `Noise`, required strings are flags ("summary", "grounded"), and the rules that relate a verdict to
findings, statuses and dimensions are kept.

Abstractions: both output streams are one pipe (both must end before the process is reaped and both count as activity); a
write of the child is one chunk and the capture is bounded in chunks; prompts, arguments, environment and event streams are text.
The server's other methods change nothing. On Windows there is no process group.

## Specs and harden rounds

`SpecStore` has the steps of one `Save` (`adapters/markdown/spec_store.go`): read and merge (`SaveRead`), look at the target
(`SaveStat`), write (`SaveWrite`, `SaveWriteFails`), remove the old file or take the new one back (`SaveRemove`). A write that fails does so before the
rename, or at the sync of the directory after it: then the new file is there although the Save has failed, and a move leaves two files. There is no lock, so
each can fall between two of another process. `Find` looks through the directories in the code's order; a spec that is in two of
them is found in the first.

`HardenRounds` runs any two of the commands that save a spec over it.

| command | steps | decided on |
|---|---|---|
| harden with a provider | `HardenStart`, `HardenVerify`, `HardenPacket`, `HardenCheck`, `HardenInvoke`, `HardenReload`, `Record`, `Recorded`; `Close` on every error path | the loaded spec, which is loaded again and must be the same bytes at three points |
| harden without, `--mark-passed`, `--repair-packet` | `OpenRound`, `MarkPassed`, `RepairPacket` | the loaded spec |
| approve, with or without a reason | `ApproveLoad`, `ApproveOverride`, `ApproveSave` | the loaded spec |
| plan | `PlanLook`, `PlanCreate` | whether there is a draft |
| finalize's archive | `ArchiveLoad`, `ArchiveSpec` | the spec finalize loaded at its start |

The operator edits the contract (its phases too, which makes a merge impossible), the prose around it or the observations of a round, interrupts a command
(`Cancel`; closing a round goes on with a context that ignores it, `lifecycle.TerminalEvidenceContext`) or kills it (`Crash`).

The gate, `core/hardengate`, is `Kind`: what the newest round and its digest say of the draft as it is. A contract is its own digest, and the
operator's edits number it upwards (`Newer`): nobody writes an older contract again. A spec starts with a round for its contract or for an earlier one (`Covered`).
The observations of a round are one of four: none, not grounded, with an open block, fine. A round also remembers, as history, which
contract its judge was shown; that is what `PassCoversDraft` compares.

Two of the properties hold but for a window, which the variable `overlapped` (history) marks: an edit that falls between a command's
load and its write, where nothing looks again. A stale save then takes the edit back, and the file says what it said before. For prose
the window is only that between the merge and the write. `SpecSurvives` excepts two commands that both move the spec to the same
directory, and TLC finds the reason as soon as that exception is dropped (see [below](#where-the-documentation-and-the-code-disagree)).

## Builds with phases

`Acceptance` is pure: how an execution is judged for the four kinds of criteria (`Judge`), when a record counts for a criterion
(`EvidenceMatches`: phase, kind, command), and how the indexes of the ledger project to the task's status, its stale phases and its current
phase. A ledger is given by its indexes (newest record per criterion, per phase, newest disposition), because `core/reconcile` reads
nothing else of it here.

`BuildPhases` is `app/build/build.go` for several processes.

| code | actions |
|---|---|
| `Run`: the first look, the reload, `--criterion` evidence | `Begin`, `Look`, `Reload`, `Attach` |
| `openBuild` | `OpenPhase`, `OpenBuild`, `Reopen` |
| `continueBuild`, `rerunAcceptanceForReviewRepair`, `runFinalAcceptance` | `Continue`, `Rerun`, `FinalBuild` |
| `runCriterionList`, one criterion at a time | `ListCriteria`, `ReuseEvidence`, `Evaluate` |
| the verdicts and the advance to the next phase | `PhaseVerdict`, `BlockBuild`, `AdvancePhase`, `AdvanceBuild`, `FinalVerdict` |

`Attach` records a disposition unless it repeats the newest one of its criterion; the same verdict with another digest, actor or reason is appended (`repeats` is open, as
those three are data). Every append is a step and returns the session as it then is; the process goes on with what it has seen. `Forget` and `Attached` drop
from that what the code never reads again, which makes states equal that only differ there. The spec's acceptance can be edited between any two
steps, and a process can die at any. Two fields of the session are history: `done`, the phases that were completed at some time, and `before`, for each recorded
phase what stood in front of it in the contract it was recorded under. `through` is, for a rerun, how many phases the call has judged.

## From reviewed bytes to a verified merge

`GitWorkspace` is a repository as scafld's Git adapter sees it, and what the adapter reads out of it: the fingerprints of
`Status` (`Fingerprints`, with the way renamings and odd names come out of `git status` without `-z`), `ExactStatus` (`ExactlyHead`), the snapshot
of the checkout through a temporary index (`Snapshot`), that of a commit (`SnapshotRef`), the seal of the material (`MaterialSeal`) and the cheaper one of
status (`StatusMaterialSeal`), and the comparisons made on them. Git itself is external: its index, ignore rules, assume-unchanged flags and merge bases are
modelled as the adapter uses them. Which files Git pairs as renamings is a CONSTANT, `Detected`: it pairs identical files and also ones that are only similar, so what was
moved and edited is one line too, and a scoped `git status` pairs within its scope (`Renamings`). A digest is its bytes.

The guard goes by the text of a line. `InScope` is `PathInScope` (`core/workspace/snapshot.go:156`) on it: `old -> new` is beneath a directory of the scope that holds the old name,
but it does not match an entry that names the old *file*. Scopes usually have such entries (`FilesImpacted`, phase changes), so `Alone` says which paths of a scope are in it by a
file entry only.

`Receipts` has three processes over one repository, each of which stops between any two reads of it:

| command | steps |
|---|---|
| review | `ReviewStart` (fingerprints, head), `ReviewGuard` (fingerprints again: a scoped change is a finding), `ReviewRecord` (the seal), or `HumanReview` |
| finalize | `FinalizeGate` (base, seal against the review, scope), `FinalizeCover` (the snapshot called reviewed), `FinalizeSnapshot`, `FinalizeAcceptance` (commands that may write), `FinalizeMint` (snapshot again, coverage, body) |
| verify | `VerifyStart`, `VerifyTrust` (root, key, policy), `VerifyMaterial` (snapshot or commit, ancestry), `VerifyAcceptance` (in the checkout, a clean worktree, or not at all) |

and an operator who edits, stages, forces, moves, hides and commits (or amends) files, while the clock moves and the key is revoked or limited.
`saw`, `met`, `gated`, `shown`, `taken` and `opened` are history: the repository as a step found it.

Abstractions: the ledger and its gate are in `TaskCommands`; a task has one review, one finalization and one verification here, which is what a
receipt relates. Signatures are injective, canonical JSON and key files are left out, and so are modes, symbolic links and nested
repositories. A scope is a set of paths, those its entries reach; one that reaches all of them stands for ".". `Hints` are the scopes `--scope-hint` may give to finalize.

## Runs

| run | instance | states | shows |
|---|---|---|---|
| `store` | 2 goroutines of one process and 1 of another, 1 append each, 1 fault | 726k | mutual exclusion, no lost update, cached head, no fork, append-only, implements `EvidenceLog` |
| `store_live` | 2 goroutines, 2 faults | 16k | calls return, locks come free |
| `store_hung` | 3 callers, 1 fault, lock holders may hang | 335k | cancelled waiters leave both queues |
| `review_races` | 3 processes of build / review / repair, 1 edit, 1 lease that ends | 939k | attempts start only in a free window; a pass after a failure is backed by something new |
| `finalize_races` | 3 processes of forced review / override / finalize / complete / cancel, 1 edit, 1 crash, a reviewed task | 535k | one receipt; anchored first; recoverable; rests on a review; status leads on |
| `commands_live` | 2 processes of approve / build / review / finalize, 1 crash | 7k | session first; leases end, commands end |
| `provider_call` | 7 requests, 2 writes, 2 tool calls, 1 helper, 1 interrupt | 271k | the verdict is earned, an acknowledged submission decides, no output lost, the call ends |
| `harden_rounds` | 12 pairs of commands on 4 specs, 1 act of the operator, 1 fault or crash | 765k | spec and prose survive, a pass covers the draft, rounds neither stack nor stay open, session first |
| `build_phases` | 2 builders, 2 contracts, 1 edit, failure or crash | 203k | phases in order, a rerun goes through everything, builds converge |
| `receipts` | 3 repositories, 2 scopes, 1 hint, 2 acts | 1.2M | what moved is seen, what is signed was reviewed and survived acceptance, verify is sound, an honest receipt verifies |
| `duplicate_spend`, `hidden_evidence` | 2 processes | < 30k | the disagreements below |

**Bounds and why they are enough.**

- *Store.* The locks are symmetric in time and a second call begins in the state of a first, with another starting file; the three start files
  (none, current, written by an older version without a head) supply the history. In the safety run one fault of each kind can come at every point; `store_live`
  has two, a cancellation together with a crash for example.
- *Commands.* Three processes: every race found or excluded here is between two commands over the evidence of a third, such as a stale
  attempt of one, recovered by two. One edit: a version is only compared for equality with the current one. `MaxCrashes = 0` in `review_races` loses nothing: without fairness a
  process may simply never be scheduled again, which is what a crash is to the others, as no command owns anything that the death of its process
  releases. `finalize_races` has a crash because `AdviceLeadsOn` speaks of states in which no command runs any more. Lease 1, time at most 2: before, at and after the
  end of a lease. With build in `finalize_races` the instance is too large to check often; two processes of build, forced review and finalize were checked by hand with the
  same result.
- *Provider.* Timeout 2, idle 1, grace 1: the idle timeout can come before, with or after the absolute one. A capture of one chunk and two writes: it slides. Two tool calls: a second submission.
  The seven requests are the ways a provider is chosen (other vendor, host without a challenger, explicit, command, local for a review and for harden).
- *Harden.* Two commands, because each decision is spoilt by one other; each starts from a fresh draft, a hardened one of an older version, one with an open round or an approved one.
  They run in one second or in two, as times decide between rounds. A single act of the operator can be an edit in any of the windows or an interrupt.
- *Builds.* Two builders and two contracts that differ in everything a record is matched by. A contract of two phases and two troubles was checked by hand (1.2M states) with the same result.
- *Receipts.* Five files, one of each kind that is treated differently: a source, one the task adds, an ignored and oddly named one, a pinned one outside the
  scope, and the spec. A repository with one commit, one with a moved and edited file that is staged and the criterion's file still to be written, and one without a commit. Two acts are an edit and its reversal, a staging and a commit,
  a move after an edit. Scopes: a directory with a file that is also named by itself, or all ("."); any two files count as similar, and identical ones are paired first.

`SYMMETRY` is used for safety only.

**Starting states.** `Histories` of `TaskCommands` are ledgers that commands leave: a draft, a task that was approved and built
twice to review, and the same with a passing or failing review. A run starts from the ones that
its commands can do something with.

**Fairness.** `SessionStore!FairSpec`: every step of a call and of a left-behind goroutine is weakly fair. Go's
mutex hands itself to starving waiters and the scheduler runs every goroutine; the polling loop of the lock file can in principle lose
every round, but callers make a bounded number of calls, so the lock is eventually left
alone and weak fairness is all that is used. `HungHolderSpec` assumes only the two
selects that watch a context: what holds a lock need not run at all. `TaskCommands!FairSpec`: each process is weakly fair, unless `Crash` ends it, and time passes. That a
provider step is fair stands for the runner's absolute timeout, and `ProviderCall!FairSpec` is where that is shown: there the goroutines of the
runner are scheduled, the clock runs and the kernel ends what was killed, but the provider need not ever do anything. `BuildPhases!FairSpec`: a started
build goes on, and the operator, who may be in the middle of something else, starts builds and repeats the passing disposition again and again
(strong fairness, since a builder is only now and then idle): that is docs/lifecycle.md's "repeat build until review".

**The properties, and the code each is about**

Store (`session_store.go`):

- `OneWriter`: from read to write, a call holds both locks (`:131-183`).
- `AckedSurvives`: an entry whose `Append` returned nil is in every version a reboot can find (rename and
  directory sync in `atomicfile.go`).
- `CachedHeadIsRight`, `NoForkedChain`: the fast path of `prepareForAppend` appends to the right head, and of two receipts
  minted on one head one is refused (`:173`, `:265`).
- `OnlyPowerLossForgets`, `ImplementsLog`: readers see the ledger grow; the store is the log of `EvidenceLog`.
- `CallsReturn`, `LocksReleased`, `CancelledWaitersLeave`: liveness of the two-lock protocol.

Commands:

- `StartsWhenFree`: whoever starts a provider finds no attempt in the current window that runs on an unexpired lease.
- `PassAfterFailIsNew`: `validateReviewEntry`, whichever commands raced.
- `OneReceipt`, `NothingUnanchored`, `ReceiptRecoverable`, `ReceiptRestsOnReview`: the anchor transaction of `finalize`
  and what follows it, under every race and at every point where a process may stop. `ReceiptRecoverable` excludes one case that TLC found:
  a legacy `complete` that appends its own completion between a finalize's gate and its anchor. The receipt is then behind the
  completion, a second `finalize` finds no terminal authority and does not recover it. (A completion names the command that
  recorded it, which the code puts into the entry's reason, so that the property can make this exception and no other.)
- `AdviceLeadsOn`: no command refuses what status advised for ever, and no advice goes round in circles (`status.go:424`); the same exception.
- `ApprovalIsLogged`: session first.
- `LeaseEnds`, `CommandsEnd`: a dead reviewer does not hold the gate, and nobody waits for ever.

Provider:

- `VerdictIsEarned`: a stopped or failing run gives no verdict, whatever it handed in (`dossierFromProviderResult`).
- `HeardSubmissionDecides`: what the provider was told is accepted is what the command works with (`mcpsubmit/server.go:159`).
- `OutputComplete`: the process is reaped after the pumps (`runner.go:72`).
- `CallEnds`: except when a descendant has left the process group and keeps the output open (`wait.go:55`), an exception TLC finds.

Harden and specs: `SpecSurvives`, `PassCoversDraft`, `NoStackedRounds` (docs/lifecycle.md), `OverrideIsLogged`, `NotesSurvive`,
`RoundsAreClosed` (`harden.go:550`), with the exceptions of the section above.

Builds: `PhasesInOrder`, `RerunJudgesAll` (every command is run by the rerun itself; a manual criterion is looked up again, and may find a disposition from before the review), `BuildsConverge`; the last excepts a disposition that stays hidden, which is `hidden_evidence`, the first a phase that an edit puts,
or gives criteria, before one that is already recorded: the build goes on with the recorded one (`continueBuild`, `build.go:175`, takes the phase `currentBuildPhase` finds, `model.go:256`).

Receipts:

- `SealsAgree`: committing everything keeps the seal, and status computes the same one; not for ignored files that were forced in, and for status not after a staged
  renaming within the scope or for a staged file that is neither on disk nor committed.
- `MovingCodeIsSeen`: the mutation guard. Its exceptions are what it cannot see: quoted names; a renaming that both looks show alike, one from outside the scope, and one of a file
  that the scope names itself (`RenamedUnseen`); ignored files that were not committed, a commit in between, the scope ".".
- `ReceiptAttestsReview`: signed bytes are sealed bytes, unless an operator overrode, gave another scope, or the checkout moved between the gate and the snapshot called reviewed.
- `SignedSurvivesAcceptance`: the same material before and after the acceptance commands (`app/finalize/finalize.go:142`).
- `VerifyIsSound`, `HonestReceiptVerifies`: verify passes on the signed material and on nothing else, and refuses no honest receipt.
  Honest includes that no pinned file of the base is gone from the commit: what finalize covers and what it signs may be taken against two bases.

Every property has a mutant in `PROJECT.json`: a plausible bug in the mapped code under which TLC finds it violated.

The exceptions above are not there to make a property hold: each names one behaviour of the code that TLC found when it was stated without, and each is described in this file.

## Where the documentation and the code disagree

Two runs check a sentence of the documentation and TLC finds it violated.

1. `duplicate_spend`. `docs/review.md:292` says an unexpired running attempt blocks a second provider. Two reviewers
   that load the same expired attempt both abandon it; the second abandonment is appended behind the attempt the
   first has started, hides it, and the second provider starts (`app/review/review.go:308`).
2. `hidden_evidence`. `docs/execution.md:102` says manual criteria are pending until an operator records their evidence, and `docs/lifecycle.md:45` to repeat
   build until review. A build that had looked at the session before an operator attached a passing disposition appends its "pending" behind it
   (`app/build/build.go:341`). The following builds reuse the disposition, which appends nothing; attaching it again appends nothing either.

These were found while modelling; most show as an exception of a property above.

*Gate and receipt.*
- `docs/lifecycle.md:131` says finalize refuses until the latest verdict is pass. The gate is not looked at
  again inside the anchor transaction (`run.go:493`): a forced review can fail while acceptance runs.
- `app/finalize/finalize.go:156` says no receipt can imply review of bytes the reviewer never saw. The snapshot that is called reviewed is taken after the seal was
  compared (`run.go:219`), so an edit in between is signed as reviewed; a path that was deleted then and is there again counts as covered; `--scope-hint`
  (`run.go:412`) signs paths outside the reviewed scope; the review's own seal is taken after the mutation guard (`review.go:288`).
- A build that looked at the ledger before a finalize anchored appends its evidence after the completion, and the ledger alone then projects the completed task as active
  (`core/reconcile/model.go:175`; `docs/run-artifacts.md:191`). The receipt stays recoverable, which `ReceiptRecoverable` says.
- `docs/cli-reference.md:376` describes a taskless probe for reviewed tasks. It goes by the status in the spec file
  (`taskstate.go:53`), and no command saves the status `review` there.
- `docs/cli-reference.md:434` and `:442` say fail and cancel archive the spec, which they never save.
- Handoff seals only the rerun's scope (`app/handoff/handoff.go:92`) where `docs/review.md:291` has it show the same gate; after a crash between the anchor and the archive
  status says that nothing is left to do, though finalize would still write the missing files.

*The mutation guard.* `docs/review.md:170` says mutations of scoped code and of the spec fail the review. `Status` leaves out `.scafld/specs`
(`git.go:76-99`), so the check of the spec in `app/review/scope.go:49-67` never fires; a renamed or quoted name is looked up as a file, does not exist, and has the fingerprint "deleted"
whatever the file holds; a renaming from outside the scope goes by its old name; `old -> new` matches no entry that names the old file (`core/workspace/snapshot.go:156-164`), so that a file which is in the scope by its name can be moved
and edited; a commit leaves `git status` clean; nothing is in the scope ".".

*Verification.* A task without a commit gets no receipt. An ignored file in the scope that is on disk when the receipt is minted is withheld, and a clean worktree, which
lacks it, never verifies. The comment at `git.go:271` holds except for ignored files that were forced into the index.

*Specs.*
- Two approvals of one draft that overlap lose it: both write the approved file, the second finds the draft gone and takes the file away again
  (`spec_store.go:252-255`; `docs/cli-reference.md:200`). So do two finalizes that archive at once.
- A provider's answer is recorded in the newest round if its number is that of the round the provider was started on (`harden.go:414`). After an approve and a new `plan`, the numbers start again, and the answer becomes a
  pass for a draft the provider never saw (`docs/lifecycle.md:112` says the round is bound to the draft digest).
- A harden that saves while an approve moves the spec writes the draft anew. A stale save takes an operator's edit back. `plan` looks for a draft only,
  not for the same task further on.
- `closeProviderHardenRound` (`harden.go:550-572`) closes the newest round, and so can turn an operator's override into an error (`docs/spec-schema.md:152`).

*Provider and process.* After a kill, `wait.go:55` waits without a bound for pipes that a descendant outside the group can keep open, although `docs/configuration.md:153` describes
the absolute timeout as the limit of a call. The receipt-grade invocation of `adapters/providers` is called by no command.

*Builds.* `currentBuildPhase` prefers an active phase over an earlier blocked one (`docs/execution.md:77`). After a crash between a phase's completion and the next one's opening
the next build runs that phase without opening it (`docs/cli-reference.md:224`). A build from review runs all acceptance again, where `docs/cli-reference.md:226` says that it is rejected.

Also, `core/lifecycle`'s `CanTransition` is called by no command.

## Proofs

### The store

`SessionStoreProofs` proves, for any processes, callers, calls and faults:

| theorem | property | about |
|---|---|---|
| `TypeCorrect` | `TypeOK` | type correctness |
| `MutualExclusion` | `OneWriter` | a call holds both locks through its critical section |
| `NoLostUpdate` | `AckedSurvives` | acknowledged entries are in every version |
| `AppendOnly` | `OnlyPowerLossForgets` | readers see the ledger grow |
| `CachedHeads` | `CachedHeadIsRight` | a ledger that calls itself valid holds one chain and caches its last head |
| `OneChain` | `NoForkedChain` | no two receipts on disk extend the same head |
| `StoreIsLog` | `ImplementsLog` | every step is one of `EvidenceLog` or a stutter |

The assumptions are the named `ASSUME`s of the two modules (`CallersHaveProcesses`, `DistinctSentinels`), which TLC evaluates in every
run of the store.

`OneWriter` is not inductive: it says nothing about who holds the lock file while nobody is in the critical section, so an unlock or a crash could
give it to two. `LockInv` says that the lock file belongs to *exactly* the caller in the
critical section, and that every caller past the mutex owns the mutex of its process. `CancelledAtMutex` and `Crash` are the cases to look at: a cancelled
call leaves its mutex to a ghost, and a crash frees only what its process held.

`AckedSurvives` is about the version on disk when a call *returns*; what makes it true happened several steps earlier. `DurableInv`
adds what each call relies on at each step: after `Load` its ledger has the entries of the visible file (nobody else renames while it holds both locks: `LockInv`);
before `Rename` its ledger extends that file and holds its request; after `SyncDir` every version holds it. `VersionsGrow` says the
versions on disk are prefixes of one another, so a power failure loses only the end. The step proof has one case per action; `QuietStep` covers those that
touch neither the file nor the data. `AppendOnly` follows from the same invariant: the only step that changes the visible file is a `Rename`, whose ledger
extends it.

The chain needs two invariants. `HeadsInv` says of every ledger, on disk or in a call's hands, that if it says it is valid its entries are one chain and its cached
head is the last one: that is what `canAppendFromCachedHead` trusts, and what `ReplayRight`, `AppendEntryRight` and `PrepareRight` show of the operators of `SessionLedger`.
`ChainInv` says that, as long as no receipt is revoked, also a file written without a head holds one chain and whoever is about to write holds a valid ledger: the receipt it
appends was minted on the head of a file that, by `LockInv`, nobody has replaced since.

`StoreIsLog` is the safety part of the refinement: the log is what `Load` sees, and its durable part is the oldest version a reboot can find. `Rename` is the
append, `SyncDir` makes it durable, `PowerLoss` falls back to a prefix that contains the durable part (`VersionsGrow`), and all other steps stutter.

### The commands

`TaskTypeProofs` and `TaskCommandsProofs` prove, for any number of processes of any kinds, any contracts and starting ledgers, any lease and
any bounds on time, edits and crashes:

| theorem | property | about |
|---|---|---|
| `TypeCorrect` | `TypeOK` | type correctness; what a process points at is in the ledger |
| `OnlyOneReceipt` | `OneReceipt` | of racing finalize processes one anchors |
| `NothingIsUnanchored` | `NothingUnanchored` | receipt files and the archived spec name what is anchored |
| `ReceiptsAreRecoverable` | `ReceiptRecoverable` | a finalize run again finds the receipt, whatever followed |
| `ReceiptsRestOnReviews` | `ReceiptRestsOnReview` | a receipt rests on a passing review of its contract |
| `PassesAfterFailuresAreNew` | `PassAfterFailIsNew` | a pass after a failure is backed by something new |
| `ReviewersStartWhenFree` | `StartsWhenFree` | no provider starts over a running, unexpired attempt |
| `ApprovalsAreLogged` | `ApprovalIsLogged` | session first |
| `AdviceSettles` | `AdviceLeadsOn` | who runs what status advises gets the task settled |

That is every safety property the runs of `TaskCommands` check. The assumptions, again named and evaluated by TLC: the bounds are numbers
(`BoundsAreNumbers`, `LeaseEndsInTime`), the first contract is one (`FirstContractIsOne`), "no receipt" is no command (`NoReceiptIsNone`), and
`HistoriesAreLedgers`: a starting ledger consists of entries, has no receipt and no completion, has an approval unless it is a draft's, and has its
reviews the way the commands record them (`ReviewsAreRecorded`).

The argument goes up in four invariants.

- `TypeInv` adds to the types what each step may rely on (`CallOK`): a reviewer past its start points at an attempt in the ledger, its clock reading is not
  in the future, a process at its anchor holds a receipt. `Extends` is the relation between an old and a new ledger, and `CallOKGrows` says that whatever
  was relied on survives it: this is where "a ledger only grows" is used.
- `Harmless` steps. All but six of the commands' actions append nothing but ordinary evidence (no receipt, no completion by finalize, and reviews as they are
  recorded) and do not touch the spec or the receipt files. `StepsAreHarmless` shows this action by action, so that the proofs above it have seven cases
  and not thirty-four.
- `SafeInv` is what makes the four properties of finalize inductive. `OneReceipt` alone is not: that `MayAnchor` refuses a second receipt is enough for it, but the files need
  that what a process publishes is anchored *before* it publishes (`PublishOK`), and the recovery needs *where* the completion stands: `LedgerOK` says that every completion by
  finalize has a receipt right in front of it, and that a receipt has a completion behind it unless a legacy complete left one. `AnchorKeeps` is the transaction itself.
- `RestsInv` carries a review's authority from the gate that saw it to the receipt. `Backed` says that in some earlier ledger, a prefix of the present one, the review was
  the current valid authority; it is established by `FinalizeLoad` (`PassedByReview` reads it off the projection), kept while other
  processes append (`BackedStays`), and handed to the ledger by the anchor. Nothing says that the review is *still* the authority then: it need not be (see the disagreements above).

`PassAfterFailIsNew` needs no invariant of its own, only that reviews are recorded right behind the attempt they judge (part of `LedgerOK`); the rest is what `validateReviewEntry` computes.
`StartsWhenFree` is an action property: `OnlyStartStarts` shows that only a reviewer's own start transaction takes it to its provider, and that transaction
projects the current ledger at a clock reading that is not ahead of the clock.

`AdviceLeadsOn` is about what six commands make of a task, one after the other. `SafeInv` gives what the first needs: a ledger of entries, and that it is `Recoverable` (nothing is minted
and the task is not completed, or the receipt authorises its completion). `Within` then counts the commands to go, by five classes of tasks: a task that has passed the gate is settled by finalize
(`FinalizeSettles`); one that waits for a review with no failure behind its newest evidence passes it (`ReviewPasses`); one that is to be built, or to be reviewed whatever its ledger holds, gets
there (`BuildAsks`); an approved one is opened and a running attempt's lease ends; a draft is approved. Each class leads to the one below it (`FollowLeadsOn`), whatever was repaired before a build. The lemmas
under it say what one more entry makes of each read model: `LifecycleAppended`, `AttemptAppended`, `GateAfterBuild`, `GateAfterPass`, `RecoverableAppended`. The advice has six commands, the proof needs five.

`LastOf` is a `CHOOSE`; `TaskTypeProofs` shows that the entry it speaks of exists (`LastOfIs`, from `GreatestNumber`) and that it is the only one (`LastOfUnique`).

### Specs and harden rounds

`HardenRoundsProofs` proves, for any number of commands (two in the last two theorems) of any kinds at any times, any specs to start from, and any number of edits, failing writes and crashes:

| theorem | property | about |
|---|---|---|
| `RoundsTyped` | `TypeOK` | type correctness of files, saves in progress and commands |
| `RoundsDoNotStack` | `NoStackedRounds` | only an error is followed by another round for the same draft |
| `ApprovalIsLogged` | `OverrideIsLogged` | session first, with the override when there was one |
| `SpecIsKept` | `SpecSurvives` | the spec is never lost but by two moves at once |
| `RoundsEndClosed` | `RoundsAreClosed` | when all commands have ended, no provider's round is open |
| `PassesCoverDraft` | `PassCoversDraft` | what the gate calls a pass was judged against the draft's contract; for two commands |
| `NotesAreKept` | `NotesSurvive` | the operator's latest prose is in a file; for two commands, but two plans, or two that make the same move |

The assumptions are `HardenAssumption` (every scenario gives each process a command, and specs that lie in the directory of their status and satisfy what commands leave) and
`FaultsAssumption` (their bound is a number).

None of the first three properties is inductive as it stands, because a file is written from a model that a command loaded long before. `Sound` is what they say of *one* spec, and
`DocumentsInv` says it of every copy: the files (`FilesInv`), the models being saved (`SaveInv`) and the models that commands hold between two steps (`CommandInv`). A stale save can then
undo what another command did, but it cannot leave a spec that stacks rounds or says approved without an entry. The entries only grow, so what is sound stays so
(`SoundGrows`).

`SpecIsKept` is about where the spec is. `PlacesInv` says who is between the write of the new file and the removal of the old: an approval that copies the draft still has the draft and,
once it is about to remove it, the approved file (`PromoteInv`); while a finalize archives the approved spec, no approval is about to write or remove one (`ArchiveInv`). The second is what makes
an approval and an archive together harmless, the pair that the exception `TwoMoves` does not cover. `StepAmounts` reduces the steps of the commands to five (nothing, a new
model, a begun save, an entry, a creation), so that the arguments have these cases and not one for each action.

`RoundsAreClosed` speaks of the end, but what it needs is there all along: an open round of the draft has an owner (`ClosedInv`). The owner is the command that still has to judge the
round or close it (`Judging`), by its number, or a save that is about to replace the draft by one without an open round (`Closing`, `Closes`). The lemmas show, for every step of a command, a save and the operator, that the owner stays one,
or that the draft has no open round any more; a save of another command can put an older model in its place, but an open round in that model has an owner too (`OpenedBy`). An edit in one of the
windows, or a failed write, breaks the chain, which is why the property excepts them. TLC checked `ClosedInv` on all pairs of commands from all four specs with two acts (13M states) before it was proved.

`PassesCoverDraft` and `NotesAreKept` assume `Pair`, that there are at most two commands; what goes wrong with more is listed [below](#only-model-checked). That is the whole restriction: any two commands, on any spec,
with any number of edits, faults, crashes and interrupts, where the run has single ones.

A pass is recorded by a command that read the draft, waited for an answer and found its round's number in the draft that is there by then. The invariant, `PassInv`, has three ideas.
Every copy of the spec, saved, held or about to be, is `Covered`: its latest round is for its contract or for an earlier one, and a pass for its contract saw it (`CoveredInv`). While an answer is awaited,
everything that can become visible (`InPlay`) has the visible contract (`LiveInv`), the contract that was asked about is no newer than that, and no round of the awaited number was opened on a
newer one than was asked about (`AwaitInv`, `KnownInv`, `OpenedInv`): so if round and draft still agree when the answer comes, the answer is about the draft as it is. And the commands that put another draft in
the place of this one, plan and archive, are at work only when there is no draft for the other to work on (`ApartInv`); this is what takes a third command to break.

For the prose, `NotesInv` names a file: it has the latest notes, and no command is about to replace it by a model without them (a save that has merged has them, one that has not will) or to remove it before its
copy has them (`Safe`). An edit that falls into neither window makes the file it is written to the one. A plan replaces a file it has not read, so `PlannerInv` says that there is still no draft when it writes, and
`ApproverInv` and `ArchiverInv` say that the other command's save does not write where a move puts its copy. TLC checked all these invariants on every pair of the eight commands from six
specs with two edits (5.3M states) before they were proved. The first attempt at `PassesCoverDraft` failed for a reason: a start in which a pass had seen another contract than its digest says was allowed, and edits
could write an old contract again, from which no code recovers; both are excluded now, in `Starts` and `EditContract`.

### Builds with phases

`BuildPhasesProofs` proves, for any number of processes, any contracts with any phases and criteria, and any number of edits, crashes and failures:

| theorem | property | about |
|---|---|---|
| `BuildTypeCorrect` | `TypeOK` | type correctness |
| `PhasesAreInOrder` | `PhasesInOrder` | no phase is judged before what stands before it was completed |
| `RerunsJudgeAll` | `RerunJudgesAll` | only a call that judged every criterion gives a task back to review |

The assumptions: `ContractsAreContracts` (the first contract is one, and a criterion that names a phase names one of its contract), `FinalIsNoPhase` and `BoundIsNatural`.

`BuildInv` says of the session that what stood before a recorded phase is done (`Recorded`), and of each process (`Holds`) that it is at a place its contract has (`Placed`), that the phase it is about to open or to
judge has nothing unfinished before it in the session it knows (`Orderly`), and, of a rerun, that every criterion of the phases it has gone through was judged by this very call (`Judging`). Other processes append to the session
meanwhile, so each process relies only on what appends keep (`Grows`, `Known`): a completed phase stays done, a recorded one keeps what stood before it. That the code's choice of a phase is in order is a fact about the
projection (`CurrentPhaseIs`, `PendingPhaseIs`, `ReviewIsBehindAll`): the first phase that is not completed is behind completed ones only.

Two things came out of the proof. As first stated, `PhasesInOrder` was false for arbitrary contracts: an edit can put a phase before one that is already recorded, and the build goes on with the recorded one; no run reached it, because
neither of the two contracts of the instance inserts a phase. The property says so now, by the history `before`. And a phase without criteria is skipped by a rerun, so that the property asks for phases with criteria only. `BuildInv` was checked by
TLC on contracts with an inserted phase, an empty one and the same one twice.

### Calling a provider

`ProviderCallProofs` proves, for any packets, providers, sizes, timeouts, grace and numbers of writes:

| theorem | property | about |
|---|---|---|
| `OutputIsComplete` | `OutputComplete` | what a runner returns is the end of what was printed, in full up to its capacity |
| `VerdictsAreEarned` | `VerdictIsEarned` | only a provider that ended by itself gives a verdict, and of what it handed in |
| `HeardSubmissionsDecide` | `HeardSubmissionDecides` | what the provider was told is accepted is what the command works with |

The assumptions are `RunnerAssumption` (timeouts, grace and capacity are positive) and `DossiersAssumption` (what a provider hands in has the shape of a dossier; the marks
for no packet are not dossiers).

`CallIInv` is one invariant for the three. `Captured` relates what was printed to what was kept, dropped and is still in the pipe, position by position; `RunInv` says that a
process is reaped only when nobody can print any more, and that a child that was asked to stop belongs to a runner that reports why: the two make the output complete and a stopped run none.
`CallInv` ties the steps of the call to those of its runner. `HandInv` follows a submission: what was accepted was settled and submitted once (`ServedInv`), is in the file until the
call has been judged (`PlacedInv`), and decides then (`HeardInv`), unless reading the answer failed. `EarnedInv` is the property about the verdict itself. The runner and the server act on disjoint variables, so that most
cases are shown once for each half (`RunnerActsOnly`, `CallActsOnly`).

### Receipts

`ReceiptsProofs` proves all seven properties of `Receipts`, for any paths and bytes, any starting repositories, scopes and acceptance outputs, and any number of acts:

| theorem | property | about |
|---|---|---|
| `ReceiptsTyped` | `TypeOK` | type correctness |
| `OneSeal` | `SealsAgree` | the same bytes have one seal, before and after a commit, in finalize and in status |
| `MovedCodeSeen` | `MovingCodeIsSeen` | no review passes over scoped code that moved, but for what the guard cannot see |
| `ReceiptsAttest` | `ReceiptAttestsReview` | signed bytes are sealed bytes |
| `SignedStood` | `SignedSurvivesAcceptance` | signed bytes were there before and after acceptance |
| `PassedIsSound` | `VerifyIsSound` | verify passes only on the signed material, in its place among the commits, with an independent reviewer |
| `HonestVerifies` | `HonestReceiptVerifies` | verify refuses no honest receipt |

The assumptions: `ReceiptsAssumption` (scopes and hints are sets of paths and not empty, `Alone` tells for each scope which paths are in it by a file entry only, the spec is a runtime file, the starting repositories are repositories), `PathsAssumption` (a deleted file and a failed read are no
bytes; a name is neither a quoted name nor a pair of names, as the old and new name of a renaming are) and `FailedAssumption` (a failed snapshot is not a tree or a snapshot).

The five action properties are about what a step reads of a repository that others change between any two reads. `ReceiptsIInv`, which TLC checked over the 1.2M states of a first instance before
it was proved inductive (`ReceiptsInductive`), says what each command still knows: the review's two readings are of repositories that were there, the second after the first (`ReviewInv`);
what finalize compares and signs is the snapshot of such a one (`SealingInv`); a receipt is over commits that exist and withholds its pinned files (`ReceiptInv`); each check verify has passed still
holds when it gives its verdict (`CheckingInv`). What makes the old readings usable later is `Later`: commits are only added, so the tree of a commit, its ancestors and its merge bases stay
what they were (`TreesKept`, `AncestorsKept`, `MergeBases`). The properties then follow step by step from the invariant: `SignedStep` and `AttestedStep` from the comparisons that mint makes, `SoundStep` from what
the matched claims mean (`MatchedCommit`, `MatchedCheckout`), `HonestStep` by going through every check that could have failed.

`SealsAgree` and `MovingCodeIsSeen` are facts about the operators of `GitWorkspace`. `OneSeal` computes both seals path by path, by whether a file is staged, committed or ignored. `MovedCodeSeen`
shows that a file whose bytes differ has a line in one of the two statuses and that the two fingerprints of that line differ, once for a plain line and once for a renaming (`RenamingSeen`). Nothing is assumed of `Detected`: `Renamings` takes
from it only what left the index and what came into it, so the theorems hold for any similarity threshold, for exact pairs and with detection switched off.

Two properties were changed because their proofs could not be completed. `MovingCodeIsSeen` was false for an ignored file that was not committed yet: with three acts TLC finds it
forced into the index and out of it again, so the property excepts it now, and `git status` indeed has no line for it. `HonestReceiptVerifies` did not say that pinned files which the commit no longer has
are excluded; no run reaches that case (the instance has one branch), but the proof showed that finalize's covered snapshot, read before the signed one, is all that withholds such a file.

### Only model-checked

- *Liveness* (all of `store_live` and `store_hung`, `LeaseEnds`, `CommandsEnd`, `CallEnds`, `BuildsConverge`) is out of the prover's reach. `ImplementsLog` and `StoreIsLog` are about safety; `EvidenceLog`
  states no fairness.
- `PassCoversDraft` and `NotesSurvive` beyond two commands are false, so that `Pair` cannot be dropped from their theorems. With a provider, an approve, a plan and a manual round, TLC finds the
  provider's pass recorded in another draft's round of the same number; with a provider, an approve and a plan, it finds a draft that a late save put back, with the operator's note in it, overwritten by the plan that had
  seen none. Two plans do the same, which is the exception `TwoPlans` of `NotesAreKept`; that two moves of the same kind keep the prose is model-checked only.

Every safety property and action property of the runs is stated by a theorem. The type invariants of `SessionStore`, `TaskCommands` and `BuildPhases` are proved and no longer part of a run.

## Not modelled

- *Text*: parsing and rendering Markdown, YAML, JSON, prompts, provider command lines and event streams. A provider answers
  with a dossier, with noise or not at all.
- *Cryptography*: signatures and hashes are injective by definition.
- *Git below its adapter*: file modes, symbolic links, nested repositories and listing history.
- *Handoff, list, report*: views without a state of their own. Handoff is the gate of `ReviewGate` rendered.
- *Configuration, installation, templates* (`config`, `bundle`, `init`, `update`): layered parsing and copying of files, nothing that races or
  persists beyond one write.
- *The receipt-grade provider path* (`InvokeReceiptGrade...`, the scrubbed environment, the evidence sandbox): no command calls it.
- *The taskless probe of finalize*: one comparison with a status that no command saves.
- *`core/lifecycle`'s table and the reconcile use case*: no command calls them.
- *Windows*: its lock and its lack of process groups.

## Plan

Every component that the plan took up is modelled, and every safety property and action property that a run checks is stated by a theorem. What is left:

- `PassCoversDraft` for three commands: TLC found no violation in 15M states, and no proof was attempted.
- Liveness stays with TLC, over the bounds of its runs.
- The components listed as partly modelled in `PROJECT.json`, and those under "Not modelled", can be taken further.
