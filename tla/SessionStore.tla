---------------------------- MODULE SessionStore ----------------------------
(***************************************************************************)
(* The store of one task's session file                                    *)
(* (internal/adapters/jsonstore/session_store.go, with                     *)
(* internal/platform/filelock and internal/platform/atomicfile).           *)
(*                                                                         *)
(* Concurrent callers, the goroutines of several operating-system          *)
(* processes, append entries with AppendTransaction: a mutex per process   *)
(* and path, a flock across processes, a read of the file, a derived list  *)
(* of entries, a temporary file renamed over the old one and a sync of the *)
(* directory.  Calls can be cancelled at any moment, every file operation  *)
(* can fail, a process can die between any two steps, and the machine can  *)
(* lose power, which undoes renames whose directory was not yet synced.    *)
(***************************************************************************)
EXTENDS SessionLedger

CONSTANTS
  Processes,    \* scafld processes, or the slots they run in one after another
  Callers,      \* goroutines that append
  Process,      \* the process of each caller
  OldTag,       \* the tag of an entry that was there before
  Nobody,       \* no holder of a lock
  Ghost,        \* holder of a mutex: a goroutine no caller waits for any more
  MaxCalls,     \* bound on the calls each caller makes
  MaxFaults,    \* bound on cancellations, crashes, power failures, file errors
  Revocable     \* the receipts whose trust the policy may withdraw

ASSUME CallersHaveProcesses ==
  /\ Process \in [Callers -> Processes]
  /\ Nobody \notin Callers /\ Ghost \notin Callers /\ Nobody # Ghost
  /\ \A c \in Callers, n \in 1..MaxCalls : <<c, n>> \in Tags
  /\ OldTag \in Tags /\ \A c \in Callers, n \in 1..MaxCalls : OldTag # <<c, n>>
  /\ MaxCalls \in Nat /\ MaxFaults \in Nat
  /\ Revocable \subseteq Tags

VARIABLES
  disk,     \* the versions a power failure could leave, oldest first: the first
            \* is durable, the last is what a reader sees
  flock,    \* holder of the cross-process lock file
  mutex,    \* per process: holder of the in-process mutex of this path
  ghosts,   \* per process: goroutines that wait for the mutex on behalf of
            \* calls that were cancelled and have returned
  pc,       \* per caller: the next step of its call
  call,     \* per caller: the data of its call
  calls,    \* per caller: how many calls it has begun
  acked,    \* the entries whose call returned without an error
  revoked,  \* the receipts the trust policy now rejects
  faults    \* how many of the MaxFaults faults happened

locks == <<flock, mutex, ghosts>>
vars == <<disk, locks, pc, call, calls, acked, revoked, faults>>

\* The steps between which a call holds both locks.
InCriticalSection == {"load", "derive", "write", "sync", "unlock"}
Steps == {"idle", "mutex", "flock", "unmutex"} \cup InCriticalSection

NoFile == [entries |-> << >>, head |-> NoHead, valid |-> FALSE]

\* request: the entries the derive function will answer; ledger: the one the
\* call works on; cancelled: its context is done; ok: it will return no error.
Request == {r \in Seq(Entry) : Len(r) <= 2}

Call == [request : Request, ledger : Ledger, cancelled : BOOLEAN, ok : BOOLEAN]

NoCall == [request |-> << >>, ledger |-> NoFile, cancelled |-> FALSE, ok |-> FALSE]

Visible == disk[Len(disk)]

EntriesOf(s) == {s[i] : i \in DOMAIN s}

-----------------------------------------------------------------------------
(* The initial session files: none, a file this version wrote, and a file  *)
(* an older version wrote without ledger_head and ledger_valid.            *)

StartFiles ==
  {NoFile,
   [entries |-> <<PlainEntry(OldTag)>>, head |-> LedgerGenesisHead, valid |-> TRUE],
   [entries |-> <<PlainEntry(OldTag)>>, head |-> NoHead, valid |-> FALSE]}

Init ==
  /\ disk \in {<<f>> : f \in StartFiles}
  /\ flock = Nobody
  /\ mutex = [p \in Processes |-> Nobody]
  /\ ghosts = [p \in Processes |-> 0]
  /\ pc = [c \in Callers |-> "idle"]
  /\ call = [c \in Callers |-> NoCall]
  /\ calls = [c \in Callers |-> 0]
  /\ acked = {}
  /\ revoked = {}
  /\ faults = 0

Goto(c, from, to) == pc[c] = from /\ pc' = [pc EXCEPT ![c] = to]

Fault == faults < MaxFaults /\ faults' = faults + 1

-----------------------------------------------------------------------------
(* A call of AppendTransaction                                              *)

\* What a caller asks for: nothing, one entry, or an entry and a receipt that
\* was minted on the head a Load of this moment shows.
Requests(c) ==
  LET tag == <<c, calls[c] + 1>>
      seen == Replay(Visible.entries, revoked)
  IN  {<< >>, <<PlainEntry(tag)>>}
        \cup IF seen.valid THEN {<<PlainEntry(tag), ReceiptEntry(tag, seen.head)>>} ELSE {}

Begin(c) ==
  /\ calls[c] < MaxCalls
  /\ Goto(c, "idle", "mutex")
  /\ calls' = [calls EXCEPT ![c] = @ + 1]
  /\ \E r \in Requests(c) : call' = [call EXCEPT ![c].request = r]
  /\ UNCHANGED <<disk, locks, acked, revoked, faults>>

\* A deadline or a signal.
Cancel(c) ==
  /\ Fault
  /\ pc[c] # "idle" /\ ~call[c].cancelled
  /\ call' = [call EXCEPT ![c].cancelled = TRUE]
  /\ UNCHANGED <<disk, locks, pc, calls, acked, revoked>>

\* lockMutexContext: the goroutine of the call obtains the mutex...
LockMutex(c) ==
  /\ pc[c] = "mutex" /\ mutex[Process[c]] = Nobody
  /\ mutex' = [mutex EXCEPT ![Process[c]] = c]
  /\ UNCHANGED <<disk, flock, ghosts, pc, call, calls, acked, revoked, faults>>

\* ...and the caller's select sees it.
MutexAcquired(c) ==
  /\ mutex[Process[c]] = c
  /\ Goto(c, "mutex", "flock")
  /\ UNCHANGED <<disk, locks, call, calls, acked, revoked, faults>>

\* Mutant: a cancelled call forgets the mutex its goroutine has obtained.
CancelledAtMutexKeepsIt(c) ==
  /\ call[c].cancelled
  /\ Goto(c, "mutex", "idle")
  /\ ghosts' = IF mutex[Process[c]] = c THEN ghosts
               ELSE [ghosts EXCEPT ![Process[c]] = @ + 1]
  /\ call' = [call EXCEPT ![c] = NoCall]
  /\ UNCHANGED <<disk, flock, mutex, calls, acked, revoked, faults>>

\* The select sees the cancellation instead, even if the mutex was obtained:
\* a goroutine stays behind to wait for the mutex and give it back.
CancelledAtMutex(c) ==
  /\ call[c].cancelled
  /\ Goto(c, "mutex", "idle")
  /\ IF mutex[Process[c]] = c
     THEN /\ mutex' = [mutex EXCEPT ![Process[c]] = Ghost]
          /\ UNCHANGED ghosts
     ELSE /\ ghosts' = [ghosts EXCEPT ![Process[c]] = @ + 1]
          /\ UNCHANGED mutex
  /\ call' = [call EXCEPT ![c] = NoCall]
  /\ UNCHANGED <<disk, flock, calls, acked, revoked, faults>>

GhostLocks(p) ==
  /\ ghosts[p] > 0 /\ mutex[p] = Nobody
  /\ ghosts' = [ghosts EXCEPT ![p] = @ - 1]
  /\ mutex' = [mutex EXCEPT ![p] = Ghost]
  /\ UNCHANGED <<disk, flock, pc, call, calls, acked, revoked, faults>>

GhostUnlocks(p) ==
  /\ mutex[p] = Ghost
  /\ mutex' = [mutex EXCEPT ![p] = Nobody]
  /\ UNCHANGED <<disk, flock, ghosts, pc, call, calls, acked, revoked, faults>>

\* Mutant: the lock file is opened and not locked.
LockFileWithoutLocking(c) ==
  /\ Goto(c, "flock", "load")
  /\ flock' = c
  /\ UNCHANGED <<disk, mutex, ghosts, call, calls, acked, revoked, faults>>

\* lockContext: the round of the polling loop that finds the lock free.  The
\* context is looked at before the lock is tried, so a call that is cancelled
\* in between still takes it and gives up at its next look.
LockFile(c) ==
  /\ flock = Nobody
  /\ Goto(c, "flock", "load")
  /\ flock' = c
  /\ UNCHANGED <<disk, mutex, ghosts, call, calls, acked, revoked, faults>>

\* Mutants: the polling loop does not look at the context; an early return
\* that does not release the mutex.
CancelledAtFileIgnored(c) == FALSE

CancelledAtFileKeepsMutex(c) ==
  /\ call[c].cancelled
  /\ Goto(c, "flock", "idle")
  /\ call' = [call EXCEPT ![c] = NoCall]
  /\ UNCHANGED <<disk, locks, calls, acked, revoked, faults>>

CancelledAtFile(c) ==
  /\ call[c].cancelled
  /\ Goto(c, "flock", "unmutex")
  /\ UNCHANGED <<disk, locks, call, calls, acked, revoked, faults>>

\* canAppendFromCachedHead and prepareForAppend: the ledger as it was stored
\* when its cached head is that of its newest receipt, else (and whenever one
\* of the stored indexes is empty and so was left out of the file) the ledger
\* replayed from its entries.
CanAppendFromCachedHead(l) == l.valid /\ l.head # NoHead /\ l.head = LastHead(l.entries)

\* Mutant: a file without a usable cached head is started over.
PrepareForAppendAfresh(l) == IF CanAppendFromCachedHead(l) THEN {l} ELSE {NewLedger}

PrepareForAppend(l) ==
  {Replay(l.entries, revoked)} \cup {x \in {l} : CanAppendFromCachedHead(l)}

Load(c) ==
  /\ ~call[c].cancelled
  /\ Goto(c, "load", "derive")
  /\ \E l \in IF Visible = NoFile THEN {NewLedger} ELSE PrepareForAppend(Visible) :
       call' = [call EXCEPT ![c].ledger = l]
  /\ UNCHANGED <<disk, locks, calls, acked, revoked, faults>>

\* The ledger with a list of at most two entries appended one at a time.
AppendEntries(l, es) ==
  CASE Len(es) = 0 -> l
    [] Len(es) = 1 -> AppendEntry(l, es[1], revoked)
    [] OTHER -> AppendEntry(AppendEntry(l, es[1], revoked), es[2], revoked)

\* Mutant: an entry that breaks the chain is persisted all the same.
DeriveAnything(c) ==
  /\ ~call[c].cancelled
  /\ Goto(c, "derive", "write")
  /\ call' = [call EXCEPT ![c].ledger = AppendEntries(@, call[c].request)]
  /\ UNCHANGED <<disk, locks, calls, acked, revoked, faults>>

\* The derive function answers the requested entries.  They are refused when
\* one of them breaks a chain that was intact before.
Derive(c) ==
  LET before == call[c].ledger
      after == AppendEntries(before, call[c].request)
  IN  /\ pc[c] = "derive" /\ ~call[c].cancelled
      /\ \/ /\ before.valid => after.valid
            /\ pc' = [pc EXCEPT ![c] = "write"]
            /\ call' = [call EXCEPT ![c].ledger = after]
         \/ /\ before.valid /\ ~after.valid
            /\ pc' = [pc EXCEPT ![c] = "unlock"]
            /\ UNCHANGED call
      /\ UNCHANGED <<disk, locks, calls, acked, revoked, faults>>

\* One of the looks at the context between two steps finds it done, or the
\* derive function itself answers an error.
GiveUp(c) ==
  /\ pc[c] \in {"load", "derive", "write"}
  /\ call[c].cancelled \/ pc[c] = "derive"
  /\ pc' = [pc EXCEPT ![c] = "unlock"]
  /\ UNCHANGED <<disk, locks, call, calls, acked, revoked, faults>>

\* An error while reading the file or preparing its replacement: nothing changes.
FileFails(c) ==
  /\ Fault
  /\ pc[c] \in {"load", "write"}
  /\ pc' = [pc EXCEPT ![c] = "unlock"]
  /\ UNCHANGED <<disk, locks, call, calls, acked, revoked>>

\* atomicfile.Write up to its rename, which makes the new version visible.
Rename(c) ==
  /\ Goto(c, "write", "sync")
  /\ disk' = Append(disk, call[c].ledger)
  /\ UNCHANGED <<locks, call, calls, acked, revoked, faults>>

\* Mutant: the directory is not synced.
SkipSyncDir(c) ==
  /\ Goto(c, "sync", "unlock")
  /\ call' = [call EXCEPT ![c].ok = TRUE]
  /\ UNCHANGED <<disk, locks, calls, acked, revoked, faults>>

\* syncDir: the visible version is the durable one.
SyncDir(c) ==
  /\ Goto(c, "sync", "unlock")
  /\ disk' = <<Visible>>
  /\ call' = [call EXCEPT ![c].ok = TRUE]
  /\ UNCHANGED <<locks, calls, acked, revoked, faults>>

\* syncDir fails: the caller is told of an error although the entries are visible.
SyncDirFails(c) ==
  /\ Fault
  /\ Goto(c, "sync", "unlock")
  /\ UNCHANGED <<disk, locks, call, calls, acked, revoked>>

\* The deferred release of the lock file...
UnlockFile(c) ==
  /\ Goto(c, "unlock", "unmutex")
  /\ flock' = Nobody
  /\ UNCHANGED <<disk, mutex, ghosts, call, calls, acked, revoked, faults>>

\* Mutant: the error of the write is dropped.
ReturnNoError(c) ==
  /\ Goto(c, "unmutex", "idle")
  /\ mutex' = [mutex EXCEPT ![Process[c]] = Ghost]
  /\ acked' = acked \cup EntriesOf(call[c].request)
  /\ call' = [call EXCEPT ![c] = NoCall]
  /\ UNCHANGED <<disk, flock, ghosts, calls, revoked, faults>>

\* ...then that of the mutex, which only tells the goroutine to unlock it; and
\* the call returns.
Return(c) ==
  /\ Goto(c, "unmutex", "idle")
  /\ mutex' = [mutex EXCEPT ![Process[c]] = Ghost]
  /\ acked' = IF call[c].ok THEN acked \cup EntriesOf(call[c].request) ELSE acked
  /\ call' = [call EXCEPT ![c] = NoCall]
  /\ UNCHANGED <<disk, flock, ghosts, calls, revoked, faults>>

-----------------------------------------------------------------------------
(* The environment                                                          *)

\* Process p dies, all of its goroutines with it; the kernel drops its flock,
\* and another process takes its place.
Crash(p) ==
  /\ Fault
  /\ pc' = [c \in Callers |-> IF Process[c] = p THEN "idle" ELSE pc[c]]
  /\ call' = [c \in Callers |-> IF Process[c] = p THEN NoCall ELSE call[c]]
  /\ mutex' = [mutex EXCEPT ![p] = Nobody]
  /\ ghosts' = [ghosts EXCEPT ![p] = 0]
  /\ flock' = IF flock \in Callers /\ Process[flock] = p THEN Nobody ELSE flock
  /\ UNCHANGED <<disk, calls, acked, revoked>>

\* Power failure: every process dies and one of the versions survives.
PowerLoss ==
  /\ Fault
  /\ \E i \in DOMAIN disk : disk' = <<disk[i]>>
  /\ pc' = [c \in Callers |-> "idle"]
  /\ call' = [c \in Callers |-> NoCall]
  /\ mutex' = [p \in Processes |-> Nobody]
  /\ ghosts' = [p \in Processes |-> 0]
  /\ flock' = Nobody
  /\ UNCHANGED <<calls, acked, revoked>>

\* The trust policy stops accepting a receipt.
Revoke(t) ==
  /\ t \in Revocable \ revoked
  /\ revoked' = revoked \cup {t}
  /\ UNCHANGED <<disk, locks, pc, call, calls, acked, faults>>

-----------------------------------------------------------------------------
CallerStep(c) ==
  \/ LockMutex(c) \/ MutexAcquired(c) \/ CancelledAtMutex(c)
  \/ LockFile(c) \/ CancelledAtFile(c)
  \/ Load(c) \/ Derive(c) \/ GiveUp(c)
  \/ Rename(c) \/ SyncDir(c) \/ UnlockFile(c) \/ Return(c)

GhostStep(p) == GhostLocks(p) \/ GhostUnlocks(p)

Next ==
  \/ \E c \in Callers :
       Begin(c) \/ Cancel(c) \/ CallerStep(c) \/ FileFails(c) \/ SyncDirFails(c)
  \/ \E p \in Processes : GhostStep(p) \/ Crash(p)
  \/ PowerLoss
  \/ \E t \in Revocable : Revoke(t)

Spec == Init /\ [][Next]_vars

\* Go's mutex does not starve a waiter and the scheduler runs every goroutine.
\* The polling of the lock file needs no more than that here: calls are bounded,
\* so the lock is eventually left alone.
FairSpec ==
  /\ Spec
  /\ \A c \in Callers : WF_vars(CallerStep(c))
  /\ \A p \in Processes : WF_vars(GhostStep(p))

\* Only the select statements that watch a context are sure to run: whoever
\* holds a lock may hang forever.
HungHolderSpec ==
  /\ Spec
  /\ \A c \in Callers : WF_vars(CancelledAtMutex(c)) /\ WF_vars(CancelledAtFile(c))

-----------------------------------------------------------------------------
(* Properties                                                               *)

IsPrefixOf(s, t) == Len(s) <= Len(t) /\ \A i \in DOMAIN s : s[i] = t[i]

\* Every variable has its type.
TypeOK ==
  /\ disk \in Seq(Ledger) /\ disk # << >>
  /\ flock \in Callers \cup {Nobody}
  /\ mutex \in [Processes -> Callers \cup {Nobody, Ghost}]
  /\ ghosts \in [Processes -> Nat]
  /\ pc \in [Callers -> Steps]
  /\ call \in [Callers -> Call]
  /\ calls \in [Callers -> 0..MaxCalls]
  /\ acked \subseteq Entry
  /\ revoked \subseteq Tags
  /\ faults \in 0..MaxFaults

\* AppendTransaction is one read-modify-write at a time: from its read of the
\* file to the end of its write a call holds the mutex of its process and the
\* lock file, through cancellations that leave goroutines behind and through
\* crashes that drop the flock.
OneWriter ==
  \A c \in Callers :
    pc[c] \in InCriticalSection => flock = c /\ mutex[Process[c]] = c

\* An entry whose Append returned no error is in every version of the file a
\* reader or a reboot can find, whatever the other callers, crashes and power
\* failures did since: no update is lost.
AckedSurvives ==
  \A i \in DOMAIN disk : acked \subseteq EntriesOf(disk[i].entries)

\* A reader that comes back finds what it saw before, in the same order: only a
\* power failure makes an entry disappear.
OnlyPowerLossForgets ==
  [][IsPrefixOf(Visible.entries, Visible'.entries) \/ PowerLoss]_vars

\* A stored ledger that says it is valid is: its receipts chain from the genesis
\* head and its cached head is the one its newest receipt left, so the cached
\* fast path of prepareForAppend appends to the right head.
CachedHeadIsRight ==
  \A i \in DOMAIN disk :
    disk[i].valid => Chained(disk[i].entries) /\ disk[i].head = LastHead(disk[i].entries)

\* Receipts minted concurrently on the same head never both enter the file: as
\* long as the trust policy rejects no receipt, every version holds one chain.
NoForkedChain ==
  revoked = {} => \A i \in DOMAIN disk : Chained(disk[i].entries)

\* The store implements the log its clients rely on.
Log == INSTANCE EvidenceLog WITH
         Entries <- Entry,
         log     <- Visible.entries,
         stable  <- Len(disk[1].entries)

ImplementsLog == Log!Spec

\* Every call returns, whoever was cancelled or died while it waited.
CallsReturn == \A c \in Callers : pc[c] # "idle" ~> pc[c] = "idle"

\* No lock is leaked: the mutex a cancelled call left to a goroutine, the mutex
\* and the flock of a call that failed are free again.
LocksReleased ==
  /\ \A p \in Processes : mutex[p] # Nobody ~> mutex[p] = Nobody
  /\ flock # Nobody ~> flock = Nobody

\* A cancelled call leaves the queue of both locks even when the holder never
\* lets go of them.
CancelledWaitersLeave ==
  \A c \in Callers :
    call[c].cancelled /\ pc[c] \in {"mutex", "flock"} ~> pc[c] \notin {"mutex", "flock"}
=============================================================================
