------------------------- MODULE SessionStoreProofs -------------------------
(***************************************************************************)
(* Proofs about the session store, for any number of processes, callers,   *)
(* calls and faults.                                                       *)
(***************************************************************************)
EXTENDS SessionStore, NumberLemmas

-----------------------------------------------------------------------------
(* The ledger                                                               *)

\* A sequence of entries that has a receipt has a newest one.
LEMMA NewestReceipt ==
  ASSUME NEW es \in Seq(Entry), Receipts(es) # {}
  PROVE  \E i \in Receipts(es) : \A j \in Receipts(es) : j <= i
<1>1. Receipts(es) \in SUBSET (0..Len(es)) /\ Len(es) \in Nat
  BY DEF Receipts
<1>2. QED
  BY <1>1, GreatestNumber

\* The head an intact chain leaves is a head.
LEMMA LastHeadType ==
  ASSUME NEW es \in Seq(Entry)
  PROVE  LastHead(es) \in Heads
<1>1. CASE Receipts(es) = {}
  BY <1>1 DEF LastHead, LedgerGenesisHead, Heads
<1>2. CASE Receipts(es) # {}
  <2> DEFINE newest == CHOOSE i \in Receipts(es) : \A j \in Receipts(es) : j <= i
  <2>1. newest \in Receipts(es)
    BY <1>2, NewestReceipt
  <2>2. es[newest] \in Entry
    BY <2>1 DEF Receipts
  <2>3. QED
    BY <1>2, <2>2 DEF LastHead, Entry
<1>3. QED
  BY <1>1, <1>2

\* A replayed ledger is a ledger with the same entries.
LEMMA ReplayType ==
  ASSUME NEW es \in Seq(Entry), NEW rs
  PROVE  /\ Replay(es, rs) \in Ledger
         /\ Replay(es, rs).entries = es
         /\ Replay(es, rs).valid => Replay(es, rs).head \in Heads
  BY LastHeadType DEF Replay, Ledger

\* Appending one entry gives a ledger with that entry at the end.
LEMMA AppendEntryType ==
  ASSUME NEW l \in Ledger, NEW e \in Entry, NEW rs
  PROVE  /\ AppendEntry(l, e, rs) \in Ledger
         /\ AppendEntry(l, e, rs).entries = Append(l.entries, e)
<1>1. Append(l.entries, e) \in Seq(Entry)
  BY DEF Ledger
<1>2. e.head \in Heads
  BY DEF Entry
<1>3. QED
  BY <1>1, <1>2 DEF AppendEntry, Ledger

\* Appending a request appends its entries, in their order.
LEMMA AppendEntriesType ==
  ASSUME NEW l \in Ledger, NEW r \in Request
  PROVE  /\ AppendEntries(l, r) \in Ledger
         /\ AppendEntries(l, r).entries = l.entries \o r
<1>1. CASE Len(r) = 0
  <2>1. r = << >>
    BY <1>1 DEF Request
  <2>2. l.entries \o r = l.entries
    BY <2>1 DEF Ledger
  <2>3. AppendEntries(l, r) = l
    BY <1>1 DEF AppendEntries
  <2>4. QED
    BY <2>2, <2>3
<1>2. CASE Len(r) = 1
  <2>1. r[1] \in Entry /\ r = <<r[1]>>
    BY <1>2 DEF Request
  <2>2. Append(l.entries, r[1]) = l.entries \o <<r[1]>>
    BY <2>1 DEF Ledger
  <2>3. AppendEntries(l, r) = AppendEntry(l, r[1], revoked)
    BY <1>2 DEF AppendEntries
  <2>4. l.entries \o r = l.entries \o <<r[1]>>
    BY <2>1
  <2>5. /\ AppendEntry(l, r[1], revoked) \in Ledger
        /\ AppendEntry(l, r[1], revoked).entries = Append(l.entries, r[1])
    BY <2>1, AppendEntryType
  <2>6. QED
    BY <2>2, <2>3, <2>4, <2>5, Zenon
<1>3. CASE Len(r) = 2
  <2> DEFINE m == AppendEntry(l, r[1], revoked)
  <2>1. r[1] \in Entry /\ r[2] \in Entry /\ r = <<r[1], r[2]>>
    BY <1>3 DEF Request
  <2>2. m \in Ledger /\ m.entries = Append(l.entries, r[1])
    BY <2>1, AppendEntryType
  <2>3. AppendEntries(l, r) = AppendEntry(m, r[2], revoked)
    BY <1>3 DEF AppendEntries
  <2>4. Append(Append(l.entries, r[1]), r[2]) = l.entries \o <<r[1], r[2]>>
    BY <2>1 DEF Ledger
  <2>5. l.entries \o r = l.entries \o <<r[1], r[2]>>
    BY <2>1
  <2> HIDE DEF m
  <2>6. /\ AppendEntry(m, r[2], revoked) \in Ledger
        /\ AppendEntry(m, r[2], revoked).entries = Append(m.entries, r[2])
    BY <2>1, <2>2, AppendEntryType
  <2>7. QED
    BY <2>2, <2>3, <2>4, <2>5, <2>6, Zenon
<1>4. Len(r) = 0 \/ Len(r) = 1 \/ Len(r) = 2
  <2>1. r \in Seq(Entry) /\ Len(r) <= 2
    BY DEF Request
  <2>2. Len(r) \in Nat
    BY <2>1
  <2>3. \A n \in Nat : n <= 2 => n = 0 \/ n = 1 \/ n = 2
    OBVIOUS
  <2>4. QED
    BY <2>1, <2>2, <2>3
<1>5. QED
  BY <1>1, <1>2, <1>3, <1>4

-----------------------------------------------------------------------------
(* Type correctness                                                         *)

\* The empty file and a new ledger are ledgers.
LEMMA NoFileType == NoFile \in Ledger /\ NewLedger \in Ledger
  BY DEF NoFile, NewLedger, Ledger, LedgerGenesisHead, Heads

\* A caller between two calls holds well-typed data.
LEMMA NoCallType == NoCall \in Call
  BY NoFileType DEF NoCall, Call, Request

\* There is a visible version, and it is a ledger.
LEMMA VisibleType == TypeOK => Visible \in Ledger /\ Len(disk) \in Nat \ {0}
  BY DEF TypeOK, Visible

\* An entry that is not a receipt is an entry.
LEMMA PlainEntryType == ASSUME NEW t \in Tags PROVE PlainEntry(t) \in Entry
  BY DEF PlainEntry, Entry, Heads

\* The store starts well typed.
LEMMA InitType == Init => TypeOK
<1> SUFFICES ASSUME Init PROVE TypeOK
  OBVIOUS
<1>1. ASSUME NEW f \in StartFiles PROVE f \in Ledger
  <2>1. <<PlainEntry(OldTag)>> \in Seq(Entry)
    BY CallersHaveProcesses, PlainEntryType
  <2>2. /\ [entries |-> <<PlainEntry(OldTag)>>, head |-> LedgerGenesisHead, valid |-> TRUE] \in Ledger
        /\ [entries |-> <<PlainEntry(OldTag)>>, head |-> NoHead, valid |-> FALSE] \in Ledger
    BY <2>1 DEF Ledger, LedgerGenesisHead, Heads
  <2>3. QED
    BY <2>2, NoFileType DEF StartFiles
<1>2. disk \in Seq(Ledger) /\ disk # << >>
  <2>1. PICK f \in StartFiles : disk = <<f>>
    BY DEF Init
  <2>2. QED
    BY <1>1, <2>1
<1>3. QED
  BY <1>2, NoCallType, CallersHaveProcesses DEF Init, TypeOK, Steps

\* What a caller asks for is a request of at most two entries.
LEMMA RequestsType ==
  ASSUME TypeOK, NEW c \in Callers, calls[c] < MaxCalls
  PROVE  Requests(c) \subseteq Request
<1> DEFINE tag == <<c, calls[c] + 1>>
           seen == Replay(Visible.entries, revoked)
<1>1. tag \in Tags
  BY CallersHaveProcesses DEF TypeOK
<1>2. PlainEntry(tag) \in Entry
  BY <1>1, PlainEntryType
<1>3. ASSUME seen.valid PROVE ReceiptEntry(tag, seen.head) \in Entry
  <2>1. Visible.entries \in Seq(Entry)
    BY VisibleType DEF Ledger
  <2>2. seen.head \in Heads
    BY <1>3, <2>1, ReplayType
  <2> HIDE DEF tag, seen
  <2>3. QED
    BY <1>1, <2>2 DEF ReceiptEntry, Entry, NextLedgerHead, Heads
<1> HIDE DEF tag
<1>4. << >> \in Request /\ <<PlainEntry(tag)>> \in Request
  BY <1>2 DEF Request
<1>5. ASSUME seen.valid
      PROVE  <<PlainEntry(tag), ReceiptEntry(tag, seen.head)>> \in Request
  <2> HIDE DEF seen
  <2> QED
    BY <1>2, <1>3, <1>5 DEF Request
<1>6. QED
  BY <1>4, <1>5 DEF Requests, tag

\* Every step keeps the types.
LEMMA TypeStep == TypeOK /\ [Next]_vars => TypeOK'
<1> SUFFICES ASSUME TypeOK, [Next]_vars PROVE TypeOK'
  OBVIOUS
<1> USE CallersHaveProcesses, VisibleType DEF Steps, InCriticalSection
<1>1. ASSUME NEW c \in Callers, Begin(c) PROVE TypeOK'
  <2>1. calls[c] < MaxCalls
    BY <1>1 DEF Begin
  <2>2. PICK r \in Requests(c) : call' = [call EXCEPT ![c].request = r]
    BY <1>1 DEF Begin
  <2>3. r \in Request
    BY <2>1, <2>2, RequestsType
  <2>4. call' \in [Callers -> Call]
    <3>1. call[c] \in Call
      BY DEF TypeOK
    <3>2. [call[c] EXCEPT !.request = r] \in Call
      BY <2>3, <3>1 DEF Call
    <3>3. QED
      BY <2>2, <3>2 DEF TypeOK
  <2>5. calls' \in [Callers -> 0..MaxCalls]
    BY <1>1, <2>1 DEF TypeOK, Begin
  <2>6. QED
    BY <1>1, <2>4, <2>5 DEF TypeOK, Begin, Goto, locks
<1>2. ASSUME NEW c \in Callers, Cancel(c) PROVE TypeOK'
  <2>1. call' \in [Callers -> Call]
    BY <1>2 DEF TypeOK, Call, Cancel
  <2>2. faults' \in 0..MaxFaults
    BY <1>2 DEF TypeOK, Cancel, Fault
  <2>3. QED
    BY <1>2, <2>1, <2>2 DEF TypeOK, Cancel, locks
<1>3. ASSUME NEW c \in Callers, LockMutex(c) PROVE TypeOK'
  BY <1>3 DEF TypeOK, LockMutex
<1>4. ASSUME NEW c \in Callers, MutexAcquired(c) PROVE TypeOK'
  BY <1>4 DEF TypeOK, MutexAcquired, Goto, locks
<1>5. ASSUME NEW c \in Callers, CancelledAtMutex(c) PROVE TypeOK'
  <2>1. call' \in [Callers -> Call]
    BY <1>5, NoCallType DEF TypeOK, CancelledAtMutex
  <2>2. mutex' \in [Processes -> Callers \cup {Nobody, Ghost}]
    BY <1>5 DEF TypeOK, CancelledAtMutex
  <2>3. ghosts' \in [Processes -> Nat]
    BY <1>5 DEF TypeOK, CancelledAtMutex
  <2>4. pc' \in [Callers -> Steps]
    BY <1>5 DEF TypeOK, CancelledAtMutex, Goto
  <2>5. QED
    BY <1>5, <2>1, <2>2, <2>3, <2>4 DEF TypeOK, CancelledAtMutex
<1>6. ASSUME NEW p \in Processes, GhostLocks(p) PROVE TypeOK'
  BY <1>6 DEF TypeOK, GhostLocks
<1>7. ASSUME NEW p \in Processes, GhostUnlocks(p) PROVE TypeOK'
  BY <1>7 DEF TypeOK, GhostUnlocks
<1>8. ASSUME NEW c \in Callers, LockFile(c) PROVE TypeOK'
  BY <1>8 DEF TypeOK, LockFile, Goto
<1>9. ASSUME NEW c \in Callers, CancelledAtFile(c) PROVE TypeOK'
  BY <1>9 DEF TypeOK, CancelledAtFile, Goto, locks
<1>10. ASSUME NEW c \in Callers, Load(c) PROVE TypeOK'
  <2>1. \A x \in PrepareForAppend(Visible) : x \in Ledger
    BY ReplayType DEF PrepareForAppend, Ledger
  <2>2. PICK l \in Ledger : call' = [call EXCEPT ![c].ledger = l]
    BY <1>10, <2>1, NoFileType DEF Load
  <2>3. call' \in [Callers -> Call]
    BY <2>2 DEF TypeOK, Call
  <2>4. QED
    BY <1>10, <2>3 DEF TypeOK, Load, Goto, locks
<1>11. ASSUME NEW c \in Callers, Derive(c) PROVE TypeOK'
  <2> DEFINE after == AppendEntries(call[c].ledger, call[c].request)
  <2>1. call[c].ledger \in Ledger /\ call[c].request \in Request
    BY DEF TypeOK, Call
  <2>2. after \in Ledger
    BY <2>1, AppendEntriesType
  <2>3. [call EXCEPT ![c].ledger = after] \in [Callers -> Call]
    <3> HIDE DEF after
    <3> QED
      BY <2>2 DEF TypeOK, Call
  <2>4. call' \in [Callers -> Call]
    BY <1>11, <2>3 DEF TypeOK, Derive
  <2>5. pc' \in [Callers -> Steps]
    BY <1>11 DEF TypeOK, Derive
  <2>6. QED
    BY <1>11, <2>4, <2>5 DEF TypeOK, Derive, locks
<1>12. ASSUME NEW c \in Callers, GiveUp(c) PROVE TypeOK'
  BY <1>12 DEF TypeOK, GiveUp, locks
<1>13. ASSUME NEW c \in Callers, FileFails(c) PROVE TypeOK'
  BY <1>13 DEF TypeOK, FileFails, Fault, locks
<1>14. ASSUME NEW c \in Callers, Rename(c) PROVE TypeOK'
  <2>1. disk' \in Seq(Ledger) /\ disk' # << >>
    BY <1>14 DEF TypeOK, Call, Rename
  <2>2. QED
    BY <1>14, <2>1 DEF TypeOK, Rename, Goto, locks
<1>15. ASSUME NEW c \in Callers, SyncDir(c) PROVE TypeOK'
  <2>1. disk' \in Seq(Ledger) /\ disk' # << >>
    BY <1>15 DEF SyncDir
  <2>2. call' \in [Callers -> Call]
    BY <1>15 DEF TypeOK, Call, SyncDir
  <2>3. QED
    BY <1>15, <2>1, <2>2 DEF TypeOK, SyncDir, Goto, locks
<1>16. ASSUME NEW c \in Callers, SyncDirFails(c) PROVE TypeOK'
  BY <1>16 DEF TypeOK, SyncDirFails, Goto, Fault, locks
<1>17. ASSUME NEW c \in Callers, UnlockFile(c) PROVE TypeOK'
  BY <1>17 DEF TypeOK, UnlockFile, Goto
<1>18. ASSUME NEW c \in Callers, Return(c) PROVE TypeOK'
  <2>1. EntriesOf(call[c].request) \subseteq Entry
    BY DEF TypeOK, Call, Request, EntriesOf
  <2>2. acked' \subseteq Entry
    BY <1>18, <2>1 DEF TypeOK, Return
  <2>3. call' \in [Callers -> Call]
    BY <1>18, NoCallType DEF TypeOK, Return
  <2>4. QED
    BY <1>18, <2>2, <2>3 DEF TypeOK, Return, Goto
<1>19. ASSUME NEW p \in Processes, Crash(p) PROVE TypeOK'
  <2>1. call' \in [Callers -> Call] /\ pc' \in [Callers -> Steps]
    BY <1>19, NoCallType DEF TypeOK, Crash
  <2>2. QED
    BY <1>19, <2>1 DEF TypeOK, Crash, Fault
<1>20. ASSUME PowerLoss PROVE TypeOK'
  <2>1. disk' \in Seq(Ledger) /\ disk' # << >>
    BY <1>20 DEF TypeOK, PowerLoss
  <2>2. call' \in [Callers -> Call] /\ pc' \in [Callers -> Steps]
    BY <1>20, NoCallType DEF PowerLoss
  <2>3. QED
    BY <1>20, <2>1, <2>2 DEF TypeOK, PowerLoss, Fault
<1>21. ASSUME NEW t \in Revocable, Revoke(t) PROVE TypeOK'
  BY <1>21 DEF TypeOK, Revoke, locks
<1>22. CASE UNCHANGED vars
  BY <1>22 DEF TypeOK, vars, locks
<1>23. QED
  BY <1>1, <1>2, <1>3, <1>4, <1>5, <1>6, <1>7, <1>8, <1>9, <1>10, <1>11, <1>12,
     <1>13, <1>14, <1>15, <1>16, <1>17, <1>18, <1>19, <1>20, <1>21, <1>22
  DEF Next, CallerStep, GhostStep

\* Every variable keeps its type (TypeOK), for any number of callers,
\* processes, calls and faults.
THEOREM TypeCorrect == Spec => []TypeOK
<1>1. Init => TypeOK
  BY InitType
<1>2. TypeOK /\ [Next]_vars => TypeOK'
  BY TypeStep
<1>3. QED
  BY <1>1, <1>2, PTL DEF Spec

-----------------------------------------------------------------------------
(* Mutual exclusion                                                         *)

\* Who holds what: the lock file belongs to the one call between its locking
\* and unlocking steps, and every call past the mutex owns that of its process.
LockInv ==
  \A c \in Callers :
    /\ pc[c] \in InCriticalSection <=> flock = c
    /\ pc[c] \in InCriticalSection \cup {"flock", "unmutex"} => mutex[Process[c]] = c

\* No lock is held at the start.
LEMMA LockInit == Init => LockInv
  BY CallersHaveProcesses DEF Init, LockInv, InCriticalSection

\* Every step keeps the ownership of both locks.
LEMMA LockStep == TypeOK /\ LockInv /\ [Next]_vars => LockInv'
<1> SUFFICES ASSUME TypeOK, LockInv, [Next]_vars PROVE LockInv'
  OBVIOUS
<1> USE CallersHaveProcesses DEF LockInv, InCriticalSection
<1>0. pc \in [Callers -> Steps] /\ mutex \in [Processes -> Callers \cup {Nobody, Ghost}]
  BY DEF TypeOK
<1>1. ASSUME NEW c \in Callers, Begin(c) PROVE LockInv'
  BY <1>0, <1>1 DEF Begin, Goto, locks
<1>2. ASSUME NEW c \in Callers, Cancel(c) PROVE LockInv'
  BY <1>2 DEF Cancel, locks
<1>3. ASSUME NEW c \in Callers, LockMutex(c) PROVE LockInv'
  BY <1>0, <1>3 DEF LockMutex
<1>4. ASSUME NEW c \in Callers, MutexAcquired(c) PROVE LockInv'
  BY <1>0, <1>4 DEF MutexAcquired, Goto, locks
<1>5. ASSUME NEW c \in Callers, CancelledAtMutex(c) PROVE LockInv'
  <2>1. flock' = flock /\ pc[c] = "mutex" /\ pc' = [pc EXCEPT ![c] = "idle"]
    BY <1>5 DEF CancelledAtMutex, Goto
  <2>2. CASE mutex[Process[c]] = c
    <3>1. mutex' = [mutex EXCEPT ![Process[c]] = Ghost]
      BY <1>5, <2>2 DEF CancelledAtMutex
    <3>2. QED
      BY <1>0, <2>1, <2>2, <3>1
  <2>3. CASE mutex[Process[c]] # c
    <3>1. mutex' = mutex
      BY <1>5, <2>3 DEF CancelledAtMutex
    <3>2. QED
      BY <1>0, <2>1, <3>1
  <2>4. QED
    BY <2>2, <2>3
<1>6. ASSUME NEW p \in Processes, GhostLocks(p) PROVE LockInv'
  BY <1>0, <1>6 DEF GhostLocks
<1>7. ASSUME NEW p \in Processes, GhostUnlocks(p) PROVE LockInv'
  BY <1>0, <1>7 DEF GhostUnlocks
<1>8. ASSUME NEW c \in Callers, LockFile(c) PROVE LockInv'
  BY <1>0, <1>8 DEF LockFile, Goto
<1>9. ASSUME NEW c \in Callers, CancelledAtFile(c) PROVE LockInv'
  BY <1>0, <1>9 DEF CancelledAtFile, Goto, locks
<1>10. ASSUME NEW c \in Callers, Load(c) PROVE LockInv'
  BY <1>0, <1>10 DEF Load, Goto, locks
<1>11. ASSUME NEW c \in Callers, Derive(c) PROVE LockInv'
  <2>1. pc[c] = "derive" /\ (\/ pc' = [pc EXCEPT ![c] = "write"]
                             \/ pc' = [pc EXCEPT ![c] = "unlock"])
    BY <1>11 DEF Derive
  <2>2. UNCHANGED <<flock, mutex>>
    BY <1>11 DEF Derive, locks
  <2>3. QED
    BY <1>0, <2>1, <2>2
<1>12. ASSUME NEW c \in Callers, GiveUp(c) PROVE LockInv'
  BY <1>0, <1>12 DEF GiveUp, locks
<1>13. ASSUME NEW c \in Callers, FileFails(c) PROVE LockInv'
  BY <1>0, <1>13 DEF FileFails, locks
<1>14. ASSUME NEW c \in Callers, Rename(c) PROVE LockInv'
  BY <1>0, <1>14 DEF Rename, Goto, locks
<1>15. ASSUME NEW c \in Callers, SyncDir(c) PROVE LockInv'
  BY <1>0, <1>15 DEF SyncDir, Goto, locks
<1>16. ASSUME NEW c \in Callers, SyncDirFails(c) PROVE LockInv'
  BY <1>0, <1>16 DEF SyncDirFails, Goto, locks
<1>17. ASSUME NEW c \in Callers, UnlockFile(c) PROVE LockInv'
  BY <1>0, <1>17 DEF UnlockFile, Goto
<1>18. ASSUME NEW c \in Callers, Return(c) PROVE LockInv'
  BY <1>0, <1>18 DEF Return, Goto
<1>19. ASSUME NEW p \in Processes, Crash(p) PROVE LockInv'
  BY <1>0, <1>19 DEF Crash
<1>20. ASSUME PowerLoss PROVE LockInv'
  BY <1>20 DEF PowerLoss
<1>21. ASSUME NEW t \in Revocable, Revoke(t) PROVE LockInv'
  BY <1>21 DEF Revoke, locks
<1>22. CASE UNCHANGED vars
  BY <1>22 DEF vars, locks
<1>23. QED
  BY <1>1, <1>2, <1>3, <1>4, <1>5, <1>6, <1>7, <1>8, <1>9, <1>10, <1>11, <1>12,
     <1>13, <1>14, <1>15, <1>16, <1>17, <1>18, <1>19, <1>20, <1>21, <1>22
  DEF Next, CallerStep, GhostStep

\* Between its read of the file and the end of its write a call holds both
\* locks (OneWriter), whatever is cancelled or dies around it.
THEOREM MutualExclusion == Spec => []OneWriter
<1>1. Init => TypeOK /\ LockInv
  BY InitType, LockInit
<1>2. (TypeOK /\ LockInv) /\ [Next]_vars => (TypeOK /\ LockInv)'
  BY TypeStep, LockStep
<1>3. LockInv => OneWriter
  BY DEF LockInv, OneWriter
<1>4. QED
  BY <1>1, <1>2, <1>3, PTL DEF Spec

-----------------------------------------------------------------------------
(* No update is lost                                                        *)

\* The versions on disk only grow.
VersionsGrow ==
  \A i, j \in DOMAIN disk : i <= j => IsPrefixOf(disk[i].entries, disk[j].entries)

\* What a call relies on between the steps of its critical section, and what
\* it will tell its caller.
WorkInv ==
  \A c \in Callers :
    /\ pc[c] = "derive" => call[c].ledger.entries = Visible.entries
    /\ pc[c] = "write" => /\ IsPrefixOf(Visible.entries, call[c].ledger.entries)
                          /\ EntriesOf(call[c].request) \subseteq EntriesOf(call[c].ledger.entries)
    /\ pc[c] = "sync" => EntriesOf(call[c].request) \subseteq EntriesOf(Visible.entries)
    /\ call[c].ok => /\ pc[c] \in {"unlock", "unmutex"}
                     /\ \A i \in DOMAIN disk :
                          EntriesOf(call[c].request) \subseteq EntriesOf(disk[i].entries)

DurableInv == VersionsGrow /\ WorkInv /\ AckedSurvives

\* A sequence's elements are among those of its extensions.
LEMMA PrefixElements ==
  ASSUME NEW s \in Seq(Entry), NEW t \in Seq(Entry), IsPrefixOf(s, t)
  PROVE  EntriesOf(s) \subseteq EntriesOf(t)
  BY DEF IsPrefixOf, EntriesOf

\* Being a prefix is transitive.
LEMMA PrefixTransitive ==
  ASSUME NEW s \in Seq(Entry), NEW t \in Seq(Entry), NEW u \in Seq(Entry),
         IsPrefixOf(s, t), IsPrefixOf(t, u)
  PROVE  IsPrefixOf(s, u)
  BY DEF IsPrefixOf

\* s is a prefix of s \o r, which also holds what r holds.
LEMMA ConcatPrefix ==
  ASSUME NEW s \in Seq(Entry), NEW r \in Seq(Entry)
  PROVE  /\ IsPrefixOf(s, s \o r)
         /\ EntriesOf(r) \subseteq EntriesOf(s \o r)
<1>1. IsPrefixOf(s, s \o r)
  BY DEF IsPrefixOf
<1>2. ASSUME NEW i \in DOMAIN r PROVE r[i] \in EntriesOf(s \o r)
  <2>1. Len(s) + i \in DOMAIN (s \o r) /\ (s \o r)[Len(s) + i] = r[i]
    OBVIOUS
  <2>2. QED
    BY <2>1 DEF EntriesOf
<1>3. QED
  BY <1>1, <1>2 DEF EntriesOf

\* A step that leaves the file, the data of the calls and the acknowledgements
\* alone, and enters none of the steps WorkInv speaks of, preserves it.
LEMMA QuietStep ==
  ASSUME DurableInv, UNCHANGED <<disk, call, acked>>,
         \A c \in Callers : \/ pc'[c] = pc[c]
                            \/ /\ pc'[c] \notin {"derive", "write", "sync"}
                               /\ call[c].ok => pc'[c] = "unmutex"
  PROVE  DurableInv'
  BY DEF DurableInv, VersionsGrow, WorkInv, AckedSurvives, Visible

\* A step in which one call moves on, the file left alone and everything
\* acknowledged still in it, preserves it when that call has what WorkInv asks
\* of its new step.
LEMMA OneMoves ==
  ASSUME DurableInv, UNCHANGED disk, acked' = acked \/ AckedSurvives', NEW c \in Callers,
         \A d \in Callers : d # c => pc'[d] = pc[d] /\ call'[d] = call[d],
         pc'[c] # "sync", ~call'[c].ok,
         pc'[c] = "derive" => call'[c].ledger.entries = Visible.entries,
         pc'[c] = "write" =>
           /\ IsPrefixOf(Visible.entries, call'[c].ledger.entries)
           /\ EntriesOf(call'[c].request) \subseteq EntriesOf(call'[c].ledger.entries)
  PROVE  DurableInv'
<1>1. VersionsGrow' /\ AckedSurvives'
  <2>1. VersionsGrow'
    BY DEF DurableInv, VersionsGrow
  <2>2. AckedSurvives'
    BY DEF DurableInv, AckedSurvives
  <2>3. QED
    BY <2>1, <2>2
<1>2. ASSUME NEW d \in Callers
      PROVE  /\ pc'[d] = "derive" => call'[d].ledger.entries = Visible.entries
             /\ pc'[d] = "write" =>
                  /\ IsPrefixOf(Visible.entries, call'[d].ledger.entries)
                  /\ EntriesOf(call'[d].request) \subseteq EntriesOf(call'[d].ledger.entries)
             /\ pc'[d] = "sync" => EntriesOf(call'[d].request) \subseteq EntriesOf(Visible.entries)
             /\ call'[d].ok => /\ pc'[d] \in {"unlock", "unmutex"}
                               /\ \A i \in DOMAIN disk :
                                    EntriesOf(call'[d].request) \subseteq EntriesOf(disk[i].entries)
  <2>1. CASE d = c
    BY <2>1
  <2>2. CASE d # c
    <3>1. pc'[d] = pc[d] /\ call'[d] = call[d]
      BY <2>2
    <3>2. QED
      BY <3>1 DEF DurableInv, WorkInv
  <2>3. QED
    BY <2>1, <2>2
<1>3. Visible' = Visible /\ disk' = disk
  BY DEF Visible
<1>4. WorkInv'
  BY <1>2, <1>3 DEF WorkInv
<1>5. QED
  BY <1>1, <1>4 DEF DurableInv

\* Nothing is acknowledged at the start.
LEMMA DurableInit == Init => DurableInv
<1> SUFFICES ASSUME Init PROVE DurableInv
  OBVIOUS
<1>1. Len(disk) = 1 /\ DOMAIN disk = {1}
  BY DEF Init
<1>2. VersionsGrow
  <2>1. disk \in Seq(Ledger)
    BY InitType DEF TypeOK
  <2>2. disk[1] \in Ledger
    BY <1>1, <2>1
  <2>3. disk[1].entries \in Seq(Entry)
    BY <2>2 DEF Ledger
  <2>4. IsPrefixOf(disk[1].entries, disk[1].entries)
    BY <2>3 DEF IsPrefixOf
  <2>5. QED
    BY <1>1, <2>4 DEF VersionsGrow
<1>3. WorkInv /\ AckedSurvives
  BY DEF Init, WorkInv, AckedSurvives, NoCall
<1>4. QED
  BY <1>2, <1>3 DEF DurableInv

\* Every step keeps what the calls rely on and what was acknowledged.
LEMMA DurableStep == TypeOK /\ LockInv /\ DurableInv /\ [Next]_vars => DurableInv'
<1> SUFFICES ASSUME TypeOK, LockInv, DurableInv, [Next]_vars PROVE DurableInv'
  OBVIOUS
<1>a. pc \in [Callers -> Steps] /\ call \in [Callers -> Call]
  BY DEF TypeOK
<1>b. /\ disk \in Seq(Ledger) /\ Len(disk) \in DOMAIN disk
      /\ Visible \in Ledger
      /\ \A i \in DOMAIN disk : disk[i] \in Ledger /\ disk[i].entries \in Seq(Entry)
  <2>1. disk \in Seq(Ledger) /\ Visible \in Ledger /\ Len(disk) \in Nat \ {0}
    BY VisibleType DEF TypeOK
  <2>2. \A i \in DOMAIN disk : disk[i] \in Ledger
    BY <2>1
  <2>3. \A l \in Ledger : l.entries \in Seq(Entry)
    BY DEF Ledger
  <2>4. Len(disk) \in DOMAIN disk
    BY <2>1
  <2>5. QED
    BY <2>1, <2>2, <2>3, <2>4
<1>c. \A c, d \in Callers : pc[c] \in InCriticalSection /\ pc[d] \in InCriticalSection => c = d
  BY DEF LockInv
<1>1. ASSUME NEW c \in Callers, Begin(c) PROVE DurableInv'
  <2>1. UNCHANGED <<disk, acked>> /\ pc[c] = "idle" /\ pc' = [pc EXCEPT ![c] = "mutex"]
    BY <1>1 DEF Begin, Goto
  <2>2. PICK r : call' = [call EXCEPT ![c].request = r]
    BY <1>1 DEF Begin
  <2>3. ~call[c].ok
    BY <2>1 DEF DurableInv, WorkInv
  <2>4. \A d \in Callers : d # c => pc'[d] = pc[d] /\ call'[d] = call[d]
    BY <1>a, <2>1, <2>2
  <2>5. pc'[c] = "mutex" /\ ~call'[c].ok
    BY <1>a, <2>1, <2>2, <2>3 DEF Call
  <2>6. QED
    BY <2>1, <2>4, <2>5, OneMoves
<1>2. ASSUME NEW c \in Callers, Cancel(c) PROVE DurableInv'
  <2>1. UNCHANGED <<disk, acked, pc>> /\ call' = [call EXCEPT ![c].cancelled = TRUE]
    BY <1>2 DEF Cancel
  <2>2. \A d \in Callers : /\ call'[d].request = call[d].request
                           /\ call'[d].ledger = call[d].ledger
                           /\ call'[d].ok = call[d].ok
    BY <1>a, <2>1 DEF Call
  <2>3. QED
    BY <2>1, <2>2 DEF DurableInv, VersionsGrow, WorkInv, AckedSurvives, Visible
<1>3. ASSUME NEW c \in Callers, LockMutex(c) PROVE DurableInv'
  BY <1>3, QuietStep DEF LockMutex
<1>4. ASSUME NEW c \in Callers, MutexAcquired(c) PROVE DurableInv'
  <2>1. UNCHANGED <<disk, call, acked>> /\ pc[c] = "mutex" /\ pc' = [pc EXCEPT ![c] = "flock"]
    BY <1>4 DEF MutexAcquired, Goto
  <2>2. ~call[c].ok
    BY <2>1 DEF DurableInv, WorkInv
  <2>3. QED
    BY <1>a, <2>1, <2>2, QuietStep
<1>5. ASSUME NEW c \in Callers, CancelledAtMutex(c) PROVE DurableInv'
  <2>1. /\ UNCHANGED <<disk, acked>>
        /\ pc' = [pc EXCEPT ![c] = "idle"] /\ call' = [call EXCEPT ![c] = NoCall]
    BY <1>5 DEF CancelledAtMutex, Goto
  <2>2. \A d \in Callers : d # c => pc'[d] = pc[d] /\ call'[d] = call[d]
    BY <1>a, <2>1
  <2>3. pc'[c] = "idle" /\ ~call'[c].ok
    BY <1>a, <2>1 DEF NoCall
  <2>4. QED
    BY <2>1, <2>2, <2>3, OneMoves
<1>6. ASSUME NEW p \in Processes, GhostLocks(p) PROVE DurableInv'
  BY <1>6, QuietStep DEF GhostLocks
<1>7. ASSUME NEW p \in Processes, GhostUnlocks(p) PROVE DurableInv'
  BY <1>7, QuietStep DEF GhostUnlocks
<1>8. ASSUME NEW c \in Callers, LockFile(c) PROVE DurableInv'
  <2>1. UNCHANGED <<disk, call, acked>> /\ pc[c] = "flock" /\ pc' = [pc EXCEPT ![c] = "load"]
    BY <1>8 DEF LockFile, Goto
  <2>2. ~call[c].ok
    BY <2>1 DEF DurableInv, WorkInv
  <2>3. QED
    BY <1>a, <2>1, <2>2, QuietStep
<1>9. ASSUME NEW c \in Callers, CancelledAtFile(c) PROVE DurableInv'
  <2>1. UNCHANGED <<disk, call, acked>> /\ pc' = [pc EXCEPT ![c] = "unmutex"]
    BY <1>9 DEF CancelledAtFile, Goto
  <2>2. QED
    BY <1>a, <2>1, QuietStep
<1>10. ASSUME NEW c \in Callers, Load(c) PROVE DurableInv'
  <2>1. /\ UNCHANGED <<disk, acked>>
        /\ pc[c] = "load" /\ pc' = [pc EXCEPT ![c] = "derive"]
    BY <1>10 DEF Load, Goto
  <2>2. PICK l \in IF Visible = NoFile THEN {NewLedger} ELSE PrepareForAppend(Visible) :
          call' = [call EXCEPT ![c].ledger = l]
    BY <1>10 DEF Load
  <2>3. l.entries = Visible.entries
    BY <1>b, <2>2, ReplayType DEF NoFile, NewLedger, PrepareForAppend, Ledger
  <2>4. \A d \in Callers : d # c => pc'[d] = pc[d] /\ call'[d] = call[d]
    BY <1>a, <2>1, <2>2
  <2>5. ~call[c].ok
    BY <2>1 DEF DurableInv, WorkInv
  <2>6. pc'[c] = "derive" /\ call'[c].ledger.entries = Visible.entries /\ ~call'[c].ok
    BY <1>a, <2>1, <2>2, <2>3, <2>5 DEF Call
  <2>7. QED
    BY <2>1, <2>4, <2>6, OneMoves
<1>11. ASSUME NEW c \in Callers, Derive(c) PROVE DurableInv'
  <2> DEFINE before == call[c].ledger
             after == AppendEntries(before, call[c].request)
  <2>1. UNCHANGED <<disk, acked>> /\ pc[c] = "derive"
    BY <1>11 DEF Derive
  <2>2. ~call[c].ok /\ before.entries = Visible.entries
    BY <2>1 DEF DurableInv, WorkInv
  <2>3. CASE pc' = [pc EXCEPT ![c] = "write"] /\ call' = [call EXCEPT ![c].ledger = after]
    <3>1. call[c].ledger \in Ledger /\ call[c].request \in Request
      BY <1>a DEF Call
    <3>2. after.entries = before.entries \o call[c].request
      BY <3>1, AppendEntriesType
    <3>3. before.entries \in Seq(Entry) /\ call[c].request \in Seq(Entry)
      BY <3>1 DEF Ledger, Request
    <3>4. /\ IsPrefixOf(Visible.entries, after.entries)
          /\ EntriesOf(call[c].request) \subseteq EntriesOf(after.entries)
      BY <2>2, <3>2, <3>3, ConcatPrefix
    <3> HIDE DEF after, before
    <3>5. \A d \in Callers : d # c => pc'[d] = pc[d] /\ call'[d] = call[d]
      BY <1>a, <2>3
    <3>6. /\ pc'[c] = "write" /\ ~call'[c].ok
          /\ call'[c].ledger = after /\ call'[c].request = call[c].request
      BY <1>a, <2>2, <2>3 DEF Call
    <3>7. QED
      BY <2>1, <3>4, <3>5, <3>6, OneMoves
  <2>4. CASE pc' = [pc EXCEPT ![c] = "unlock"] /\ UNCHANGED call
    BY <1>a, <2>1, <2>2, <2>4, QuietStep
  <2>5. QED
    BY <1>11, <2>3, <2>4 DEF Derive
<1>12. ASSUME NEW c \in Callers, GiveUp(c) PROVE DurableInv'
  <2>1. /\ UNCHANGED <<disk, call, acked>> /\ pc' = [pc EXCEPT ![c] = "unlock"]
        /\ pc[c] \in {"load", "derive", "write"}
    BY <1>12 DEF GiveUp
  <2>2. ~call[c].ok
    BY <2>1 DEF DurableInv, WorkInv
  <2>3. QED
    BY <1>a, <2>1, <2>2, QuietStep
<1>13. ASSUME NEW c \in Callers, FileFails(c) PROVE DurableInv'
  <2>1. /\ UNCHANGED <<disk, call, acked>> /\ pc' = [pc EXCEPT ![c] = "unlock"]
        /\ pc[c] \in {"load", "write"}
    BY <1>13 DEF FileFails
  <2>2. ~call[c].ok
    BY <2>1 DEF DurableInv, WorkInv
  <2>3. QED
    BY <1>a, <2>1, <2>2, QuietStep
<1>14. ASSUME NEW c \in Callers, Rename(c) PROVE DurableInv'
  <2> DEFINE new == call[c].ledger
  <2>1. /\ UNCHANGED <<call, acked>> /\ pc[c] = "write" /\ pc' = [pc EXCEPT ![c] = "sync"]
        /\ disk' = Append(disk, new)
    BY <1>14 DEF Rename, Goto
  <2>2. new \in Ledger /\ new.entries \in Seq(Entry)
    BY <1>a DEF Call, Ledger
  <2>3. /\ IsPrefixOf(Visible.entries, new.entries)
        /\ EntriesOf(call[c].request) \subseteq EntriesOf(new.entries)
    BY <2>1 DEF DurableInv, WorkInv
  <2> HIDE DEF new
  <2>4. /\ Len(disk') = Len(disk) + 1
        /\ DOMAIN disk' = DOMAIN disk \cup {Len(disk) + 1}
        /\ \A i \in DOMAIN disk : disk'[i] = disk[i] /\ i <= Len(disk)
        /\ disk'[Len(disk) + 1] = new /\ Visible' = new
    BY <1>b, <2>1, <2>2 DEF Visible
  <2>5. \A i \in DOMAIN disk : IsPrefixOf(disk[i].entries, new.entries)
    <3>1. SUFFICES ASSUME NEW i \in DOMAIN disk PROVE IsPrefixOf(disk[i].entries, new.entries)
      OBVIOUS
    <3>2. IsPrefixOf(disk[i].entries, Visible.entries)
      BY <1>b, <2>4 DEF DurableInv, VersionsGrow, Visible
    <3>3. Visible.entries \in Seq(Entry)
      BY <1>b DEF Ledger
    <3>4. QED
      BY <1>b, <2>2, <2>3, <3>2, <3>3, PrefixTransitive
  <2>6. IsPrefixOf(new.entries, new.entries)
    BY <2>2 DEF IsPrefixOf
  <2>7. VersionsGrow'
    <3>1. SUFFICES ASSUME NEW i \in DOMAIN disk', NEW j \in DOMAIN disk', i <= j
                   PROVE  IsPrefixOf(disk'[i].entries, disk'[j].entries)
      BY DEF VersionsGrow
    <3>2. CASE j \in DOMAIN disk
      <4>1. i \in DOMAIN disk
        BY <1>b, <2>4, <3>1, <3>2
      <4>2. QED
        BY <2>4, <3>1, <3>2, <4>1 DEF DurableInv, VersionsGrow
    <3>3. CASE j = Len(disk) + 1
      BY <2>4, <2>5, <2>6, <3>1, <3>3
    <3>4. QED
      BY <2>4, <3>1, <3>2, <3>3
  <2>8. \A i \in DOMAIN disk : EntriesOf(disk[i].entries) \subseteq EntriesOf(new.entries)
    BY <1>b, <2>2, <2>5, PrefixElements
  <2>9. AckedSurvives'
    BY <1>b, <2>1, <2>4, <2>8 DEF DurableInv, AckedSurvives
  <2>10. WorkInv'
    <3>1. SUFFICES ASSUME NEW d \in Callers
                   PROVE  /\ pc'[d] \notin {"derive", "write"}
                          /\ pc'[d] = "sync" => EntriesOf(call[d].request) \subseteq EntriesOf(new.entries)
                          /\ call[d].ok => /\ pc'[d] \in {"unlock", "unmutex"}
                                           /\ \A i \in DOMAIN disk' :
                                                EntriesOf(call[d].request) \subseteq EntriesOf(disk'[i].entries)
      BY <2>1, <2>4 DEF WorkInv
    <3>2. CASE d = c
      <4>1. pc'[c] = "sync" /\ ~call[c].ok
        BY <1>a, <2>1 DEF DurableInv, WorkInv
      <4>2. QED
        BY <2>3, <3>2, <4>1
    <3>3. CASE d # c
      <4>1. pc'[d] = pc[d] /\ pc[d] \notin InCriticalSection
        BY <1>a, <1>c, <2>1, <3>3 DEF InCriticalSection
      <4>2. ASSUME call[d].ok
            PROVE  /\ pc[d] \in {"unlock", "unmutex"}
                   /\ \A i \in DOMAIN disk : EntriesOf(call[d].request) \subseteq EntriesOf(disk[i].entries)
        BY <4>2 DEF DurableInv, WorkInv
      <4>3. QED
        BY <1>b, <2>4, <2>8, <4>1, <4>2 DEF InCriticalSection
    <3>4. QED
      BY <3>2, <3>3
  <2>11. QED
    BY <2>7, <2>9, <2>10 DEF DurableInv
<1>15. ASSUME NEW c \in Callers, SyncDir(c) PROVE DurableInv'
  <2>1. /\ UNCHANGED acked /\ pc[c] = "sync" /\ pc' = [pc EXCEPT ![c] = "unlock"]
        /\ disk' = <<Visible>> /\ call' = [call EXCEPT ![c].ok = TRUE]
    BY <1>15 DEF SyncDir, Goto
  <2>2. DOMAIN disk' = {1} /\ disk'[1] = Visible /\ Visible' = Visible
    BY <2>1 DEF Visible
  <2>3. IsPrefixOf(Visible.entries, Visible.entries)
    BY <1>b DEF IsPrefixOf, Ledger
  <2>4. EntriesOf(call[c].request) \subseteq EntriesOf(Visible.entries)
    BY <2>1 DEF DurableInv, WorkInv
  <2>5. \A d \in Callers : d # c => pc'[d] = pc[d] /\ call'[d] = call[d]
    BY <1>a, <2>1
  <2>6. pc'[c] = "unlock" /\ call'[c].request = call[c].request
    BY <1>a, <2>1 DEF Call
  <2>7. WorkInv'
    <3>1. SUFFICES ASSUME NEW d \in Callers
                   PROVE  /\ pc'[d] = "derive" => call'[d].ledger.entries = Visible.entries
                          /\ pc'[d] = "write" =>
                               /\ IsPrefixOf(Visible.entries, call'[d].ledger.entries)
                               /\ EntriesOf(call'[d].request) \subseteq EntriesOf(call'[d].ledger.entries)
                          /\ pc'[d] = "sync" => EntriesOf(call'[d].request) \subseteq EntriesOf(Visible.entries)
                          /\ call'[d].ok => /\ pc'[d] \in {"unlock", "unmutex"}
                                            /\ EntriesOf(call'[d].request) \subseteq EntriesOf(Visible.entries)
      BY <2>2 DEF WorkInv
    <3>2. CASE d = c
      BY <2>4, <2>6, <3>2
    <3>3. CASE d # c
      BY <1>b, <2>5, <3>3 DEF DurableInv, WorkInv, Visible
    <3>4. QED
      BY <3>2, <3>3
  <2>8. AckedSurvives'
    BY <1>b, <2>1, <2>2 DEF DurableInv, AckedSurvives, Visible
  <2>9. VersionsGrow'
    BY <2>2, <2>3 DEF VersionsGrow
  <2>10. QED
    BY <2>7, <2>8, <2>9 DEF DurableInv
<1>16. ASSUME NEW c \in Callers, SyncDirFails(c) PROVE DurableInv'
  <2>1. /\ UNCHANGED <<disk, call, acked>> /\ pc' = [pc EXCEPT ![c] = "unlock"]
        /\ pc[c] = "sync"
    BY <1>16 DEF SyncDirFails, Goto
  <2>2. ~call[c].ok
    BY <2>1 DEF DurableInv, WorkInv
  <2>3. QED
    BY <1>a, <2>1, <2>2, QuietStep
<1>17. ASSUME NEW c \in Callers, UnlockFile(c) PROVE DurableInv'
  <2>1. UNCHANGED <<disk, call, acked>> /\ pc' = [pc EXCEPT ![c] = "unmutex"]
    BY <1>17 DEF UnlockFile, Goto
  <2>2. QED
    BY <1>a, <2>1, QuietStep
<1>18. ASSUME NEW c \in Callers, Return(c) PROVE DurableInv'
  <2>1. /\ UNCHANGED disk /\ pc' = [pc EXCEPT ![c] = "idle"]
        /\ call' = [call EXCEPT ![c] = NoCall]
        /\ acked' = IF call[c].ok THEN acked \cup EntriesOf(call[c].request) ELSE acked
    BY <1>18 DEF Return, Goto
  <2>2. AckedSurvives'
    <3>1. ASSUME NEW i \in DOMAIN disk PROVE acked' \subseteq EntriesOf(disk[i].entries)
      BY <2>1 DEF DurableInv, WorkInv, AckedSurvives
    <3>2. QED
      BY <2>1, <3>1 DEF AckedSurvives
  <2>3. \A d \in Callers : d # c => pc'[d] = pc[d] /\ call'[d] = call[d]
    BY <1>a, <2>1
  <2>4. pc'[c] = "idle" /\ ~call'[c].ok
    BY <1>a, <2>1 DEF NoCall
  <2>5. QED
    BY <2>1, <2>2, <2>3, <2>4, OneMoves
<1>19. ASSUME NEW p \in Processes, Crash(p) PROVE DurableInv'
  <2>1. UNCHANGED <<disk, acked>>
    BY <1>19 DEF Crash
  <2>2. \A d \in Callers : \/ pc'[d] = "idle" /\ ~call'[d].ok
                           \/ pc'[d] = pc[d] /\ call'[d] = call[d]
    BY <1>19 DEF Crash, NoCall
  <2>3. QED
    BY <2>1, <2>2 DEF DurableInv, VersionsGrow, WorkInv, AckedSurvives, Visible
<1>20. ASSUME PowerLoss PROVE DurableInv'
  <2>1. PICK i \in DOMAIN disk : disk' = <<disk[i]>>
    BY <1>20 DEF PowerLoss
  <2>2. UNCHANGED acked /\ \A d \in Callers : pc'[d] = "idle" /\ ~call'[d].ok
    BY <1>20 DEF PowerLoss, NoCall
  <2>3. DOMAIN disk' = {1} /\ disk'[1] = disk[i]
    BY <2>1
  <2>4. IsPrefixOf(disk[i].entries, disk[i].entries)
    BY <1>b DEF IsPrefixOf
  <2>5. QED
    BY <2>2, <2>3, <2>4 DEF DurableInv, VersionsGrow, WorkInv, AckedSurvives
<1>21. ASSUME NEW t \in Revocable, Revoke(t) PROVE DurableInv'
  BY <1>21, QuietStep DEF Revoke
<1>22. CASE UNCHANGED vars
  BY <1>22, QuietStep DEF vars
<1>23. QED
  BY <1>1, <1>2, <1>3, <1>4, <1>5, <1>6, <1>7, <1>8, <1>9, <1>10, <1>11, <1>12,
     <1>13, <1>14, <1>15, <1>16, <1>17, <1>18, <1>19, <1>20, <1>21, <1>22
  DEF Next, CallerStep, GhostStep

\* The three invariants together are inductive.
LEMMA StoreInv == Spec => [](TypeOK /\ LockInv /\ DurableInv)
<1>1. Init => TypeOK /\ LockInv /\ DurableInv
  BY InitType, LockInit, DurableInit
<1>2. (TypeOK /\ LockInv /\ DurableInv) /\ [Next]_vars => (TypeOK /\ LockInv /\ DurableInv)'
  BY TypeStep, LockStep, DurableStep
<1>3. QED
  BY <1>1, <1>2, PTL DEF Spec

\* No update is lost: an entry whose Append returned no error is in every
\* version of the file a reader or a reboot can find (AckedSurvives).
THEOREM NoLostUpdate == Spec => []AckedSurvives
<1>1. DurableInv => AckedSurvives
  BY DEF DurableInv
<1>2. QED
  BY <1>1, StoreInv, PTL

\* Readers see the ledger grow and nothing else, except across a power failure
\* (OnlyPowerLossForgets).
THEOREM AppendOnly == Spec => OnlyPowerLossForgets
<1> DEFINE Grows == IsPrefixOf(Visible.entries, Visible'.entries) \/ PowerLoss
<1>1. TypeOK /\ LockInv /\ DurableInv /\ [Next]_vars => Grows \/ UNCHANGED vars
  <2> SUFFICES ASSUME TypeOK, DurableInv, [Next]_vars, ~PowerLoss
               PROVE  IsPrefixOf(Visible.entries, Visible'.entries)
    OBVIOUS
  <2>1. Visible \in Ledger /\ Len(disk) \in Nat /\ disk \in Seq(Ledger)
    BY VisibleType DEF TypeOK
  <2>2. IsPrefixOf(Visible.entries, Visible.entries)
    BY <2>1 DEF IsPrefixOf, Ledger
  <2>3. CASE Visible' = Visible
    BY <2>2, <2>3
  <2>4. ASSUME NEW c \in Callers, Rename(c)
        PROVE  IsPrefixOf(Visible.entries, Visible'.entries)
    <3>1. pc[c] = "write" /\ disk' = Append(disk, call[c].ledger)
      BY <2>4 DEF Rename, Goto
    <3>2. Visible' = call[c].ledger
      BY <2>1, <3>1 DEF TypeOK, Call, Visible
    <3>3. QED
      BY <3>1, <3>2 DEF DurableInv, WorkInv
  <2>5. ASSUME NEW c \in Callers, SyncDir(c) PROVE Visible' = Visible
    BY <2>5 DEF SyncDir, Visible
  <2>6. \/ UNCHANGED disk
        \/ \E c \in Callers : Rename(c) \/ SyncDir(c)
    BY DEF Next, CallerStep, GhostStep, Begin, Cancel, LockMutex, MutexAcquired,
           CancelledAtMutex, GhostLocks, GhostUnlocks, LockFile, CancelledAtFile,
           Load, Derive, GiveUp, FileFails, SyncDirFails, UnlockFile, Return,
           Crash, Revoke, vars
  <2>7. QED
    BY <2>3, <2>4, <2>5, <2>6 DEF Visible
<1>2. QED
  BY <1>1, StoreInv, PTL DEF Spec, OnlyPowerLossForgets

-----------------------------------------------------------------------------
(* The chain of receipts                                                    *)

\* A ledger that says it is valid holds one chain and caches its last head.
Right(l) == l.valid => Chained(l.entries) /\ l.head = LastHead(l.entries)

\* Every ledger on disk or in somebody's hands is right, and as long as no
\* receipt is revoked every version on disk, and every ledger about to become
\* one, holds one chain.
HeadsInv ==
  /\ \A i \in DOMAIN disk : Right(disk[i])
  /\ \A c \in Callers : Right(call[c].ledger)

ChainInv ==
  revoked = {} =>
    /\ \A i \in DOMAIN disk : Chained(disk[i].entries)
    /\ \A c \in Callers : pc[c] \in {"derive", "write"} => call[c].ledger.valid

\* A sequence without receipts is a chain, and its head is the genesis head.
LEMMA NoReceipts ==
  ASSUME NEW es, Receipts(es) = {}
  PROVE  Chained(es) /\ LastHead(es) = LedgerGenesisHead
  BY DEF Chained, LastHead

\* The newest receipt is the one LastHead takes the head of.
LEMMA LastHeadIs ==
  ASSUME NEW es \in Seq(Entry), NEW i \in Receipts(es), \A j \in Receipts(es) : j <= i
  PROVE  LastHead(es) = es[i].head
<1>1. \A k \in Receipts(es) : (\A j \in Receipts(es) : j <= k) => k = i
  BY DEF Receipts
<1>2. (CHOOSE k \in Receipts(es) : \A j \in Receipts(es) : j <= k) = i
  BY <1>1
<1>3. QED
  BY <1>2 DEF LastHead

\* What appending does to the receipts of a sequence.
LEMMA AppendReceipts ==
  ASSUME NEW es \in Seq(Entry), NEW e \in Entry
  PROVE  /\ Append(es, e) \in Seq(Entry)
         /\ Len(es) + 1 \notin Receipts(es)
         /\ \A i \in Receipts(es) : i \in Nat /\ i <= Len(es) /\ Append(es, e)[i] = es[i]
         /\ Append(es, e)[Len(es) + 1] = e
         /\ Receipts(Append(es, e)) =
              IF IsReceipt(e) THEN Receipts(es) \cup {Len(es) + 1} ELSE Receipts(es)
<1>1. /\ Append(es, e) \in Seq(Entry) /\ Len(es) \in Nat
      /\ DOMAIN Append(es, e) = DOMAIN es \cup {Len(es) + 1}
      /\ \A i \in DOMAIN es : i \in Nat /\ i <= Len(es) /\ Append(es, e)[i] = es[i]
      /\ Append(es, e)[Len(es) + 1] = e
      /\ Len(es) + 1 \notin DOMAIN es
  OBVIOUS
<1>2. QED
  BY <1>1 DEF Receipts

\* An entry that is not a receipt changes neither the chain nor its head.
LEMMA AppendPlain ==
  ASSUME NEW es \in Seq(Entry), NEW e \in Entry, ~IsReceipt(e)
  PROVE  /\ Chained(es) => Chained(Append(es, e))
         /\ LastHead(Append(es, e)) = LastHead(es)
<1> DEFINE new == Append(es, e)
<1>1. Receipts(new) = Receipts(es) /\ \A i \in Receipts(es) : new[i] = es[i]
  BY AppendReceipts
<1>2. new \in Seq(Entry)
  BY AppendReceipts
<1> HIDE DEF new
<1>3. Chained(es) => Chained(new)
  BY <1>1 DEF Chained
<1>4. LastHead(new) = LastHead(es)
  <2>1. CASE Receipts(es) = {}
    BY <1>1, <2>1, NoReceipts
  <2>2. CASE Receipts(es) # {}
    <3>1. PICK i \in Receipts(es) : \A j \in Receipts(es) : j <= i
      BY <2>2, NewestReceipt
    <3>2. LastHead(es) = es[i].head
      BY <3>1, LastHeadIs
    <3>3. LastHead(new) = new[i].head
      BY <1>1, <1>2, <3>1, LastHeadIs
    <3>4. QED
      BY <1>1, <3>2, <3>3
  <2>3. QED
    BY <2>1, <2>2
<1>5. QED
  BY <1>3, <1>4 DEF new

\* A receipt minted on the last head extends the chain and leaves its own head.
LEMMA AppendMinted ==
  ASSUME NEW es \in Seq(Entry), NEW e \in Entry, IsReceipt(e), Chained(es),
         e.head = NextLedgerHead(LastHead(es), e.digest)
  PROVE  Chained(Append(es, e)) /\ LastHead(Append(es, e)) = e.head
<1> DEFINE new == Append(es, e)
           n == Len(es) + 1
<1>1. /\ new \in Seq(Entry) /\ Receipts(new) = Receipts(es) \cup {n}
      /\ n \notin Receipts(es) /\ new[n] = e
      /\ \A i \in Receipts(es) : new[i] = es[i]
  BY AppendReceipts
<1>2. n \in Nat /\ \A i \in Receipts(es) : i \in Nat /\ i < n
  BY AppendReceipts
<1> HIDE DEF new, n
<1>3. LastHead(new) = e.head
  <2>1. n \in Receipts(new) /\ \A j \in Receipts(new) : j <= n
    BY <1>1, <1>2
  <2>2. QED
    BY <1>1, <2>1, LastHeadIs
<1>4. ASSUME NEW i \in Receipts(new)
      PROVE  \/ /\ \A k \in Receipts(new) : k >= i
                /\ new[i].head = NextLedgerHead(LedgerGenesisHead, new[i].digest)
             \/ \E j \in Receipts(new) :
                  /\ j < i
                  /\ \A k \in Receipts(new) : k <= j \/ k >= i
                  /\ new[i].head = NextLedgerHead(new[j].head, new[i].digest)
  <2>1. CASE i \in Receipts(es)
    <3>1. CASE /\ \A k \in Receipts(es) : k >= i
               /\ es[i].head = NextLedgerHead(LedgerGenesisHead, es[i].digest)
      BY <1>1, <1>2, <2>1, <3>1
    <3>2. ASSUME NEW j \in Receipts(es), j < i,
                 \A k \in Receipts(es) : k <= j \/ k >= i,
                 es[i].head = NextLedgerHead(es[j].head, es[i].digest)
          PROVE  \E m \in Receipts(new) :
                   /\ m < i
                   /\ \A k \in Receipts(new) : k <= m \/ k >= i
                   /\ new[i].head = NextLedgerHead(new[m].head, new[i].digest)
      <4>1. \A k \in Receipts(new) : k <= j \/ k >= i
        BY <1>1, <1>2, <2>1, <3>2
      <4>2. QED
        BY <1>1, <2>1, <3>2, <4>1
    <3>3. QED
      BY <2>1, <3>1, <3>2 DEF Chained
  <2>2. CASE i = n /\ Receipts(es) = {}
    <3>1. LastHead(es) = LedgerGenesisHead
      BY <2>2, NoReceipts
    <3>2. QED
      BY <1>1, <1>2, <2>2, <3>1
  <2>3. CASE i = n /\ Receipts(es) # {}
    <3>1. PICK j \in Receipts(es) : \A k \in Receipts(es) : k <= j
      BY <2>3, NewestReceipt
    <3>2. LastHead(es) = es[j].head
      BY <3>1, LastHeadIs
    <3>3. new[i].head = NextLedgerHead(new[j].head, new[i].digest)
      BY <1>1, <2>3, <3>2
    <3>4. j \in Receipts(new) /\ j < i /\ \A k \in Receipts(new) : k <= j \/ k >= i
      BY <1>1, <1>2, <2>3, <3>1
    <3>5. QED
      BY <3>3, <3>4
  <2>4. QED
    BY <1>1, <2>1, <2>2, <2>3
<1>5. Chained(new)
  BY <1>4 DEF Chained
<1>6. QED
  BY <1>3, <1>5 DEF new

\* What replay answers is right, and valid when nothing is revoked and the
\* entries are one chain.
LEMMA ReplayRight ==
  ASSUME NEW es, NEW rs
  PROVE  /\ Right(Replay(es, rs))
         /\ rs = {} /\ Chained(es) => Replay(es, rs).valid
  BY DEF Replay, Right

\* AppendEntry keeps a right ledger right.
LEMMA AppendEntryRight ==
  ASSUME NEW l \in Ledger, NEW e \in Entry, NEW rs, Right(l)
  PROVE  Right(AppendEntry(l, e, rs))
<1> DEFINE m == AppendEntry(l, e, rs)
<1> SUFFICES ASSUME m.valid
             PROVE  Chained(m.entries) /\ m.head = LastHead(m.entries)
  BY DEF Right
<1>1. l.entries \in Seq(Entry) /\ m.entries = Append(l.entries, e)
  BY DEF Ledger, AppendEntry
<1>2. l.valid /\ Chained(l.entries) /\ l.head = LastHead(l.entries)
  BY DEF AppendEntry, Right
<1>3. CASE IsReceipt(e)
  <2>1. e.head = NextLedgerHead(l.head, e.digest) /\ m.head = e.head
    BY <1>3 DEF AppendEntry
  <2> HIDE DEF m
  <2>2. QED
    BY <1>1, <1>2, <1>3, <2>1, AppendMinted
<1>4. CASE ~IsReceipt(e)
  <2>1. m.head = l.head
    BY <1>4 DEF AppendEntry
  <2> HIDE DEF m
  <2>2. QED
    BY <1>1, <1>2, <1>4, <2>1, AppendPlain
<1>5. QED
  BY <1>3, <1>4

\* So does appending a whole request.
LEMMA AppendEntriesRight ==
  ASSUME NEW l \in Ledger, NEW r \in Request, Right(l)
  PROVE  Right(AppendEntries(l, r))
<1>1. r \in Seq(Entry) /\ Len(r) \in Nat
  BY DEF Request
<1>2. CASE Len(r) = 0
  BY <1>2 DEF AppendEntries
<1>3. CASE Len(r) = 1
  <2>1. r[1] \in Entry
    BY <1>1, <1>3
  <2>2. AppendEntries(l, r) = AppendEntry(l, r[1], revoked)
    BY <1>3 DEF AppendEntries
  <2>3. QED
    BY <2>1, <2>2, AppendEntryRight
<1>4. CASE Len(r) = 2
  <2> DEFINE m == AppendEntry(l, r[1], revoked)
  <2>1. r[1] \in Entry /\ r[2] \in Entry
    BY <1>1, <1>4
  <2>2. m \in Ledger /\ Right(m)
    BY <2>1, AppendEntryType, AppendEntryRight
  <2>3. AppendEntries(l, r) = AppendEntry(m, r[2], revoked)
    BY <1>4 DEF AppendEntries
  <2> HIDE DEF m
  <2>4. QED
    BY <2>1, <2>2, <2>3, AppendEntryRight
<1>5. Len(r) = 0 \/ Len(r) = 1 \/ Len(r) = 2
  <2>1. \A n \in Nat : n <= 2 => n = 0 \/ n = 1 \/ n = 2
    OBVIOUS
  <2>2. QED
    BY <1>1, <2>1 DEF Request
<1>6. QED
  BY <1>2, <1>3, <1>4, <1>5

\* The ledgers a call can start from are right.
LEMMA PrepareRight ==
  ASSUME TypeOK, HeadsInv,
         NEW l \in IF Visible = NoFile THEN {NewLedger} ELSE PrepareForAppend(Visible)
  PROVE  /\ Right(l)
         /\ ChainInv /\ revoked = {} => l.valid
<1>1. Visible \in Ledger /\ Right(Visible)
  BY VisibleType DEF HeadsInv, TypeOK, Visible
<1>2. CASE l = NewLedger
  <2>1. Receipts(NewLedger.entries) = {}
    BY DEF NewLedger, Receipts
  <2>2. QED
    BY <1>2, <2>1, NoReceipts DEF NewLedger, Right
<1>3. CASE l = Replay(Visible.entries, revoked)
  <2>1. ChainInv /\ revoked = {} => Chained(Visible.entries)
    BY VisibleType DEF ChainInv, Visible, TypeOK
  <2>2. QED
    BY <1>3, <2>1, ReplayRight
<1>4. CASE l = Visible /\ CanAppendFromCachedHead(Visible)
  BY <1>1, <1>4 DEF CanAppendFromCachedHead
<1>5. QED
  BY <1>2, <1>3, <1>4 DEF PrepareForAppend


\* A step after which every version was there before, every call works on the
\* ledger it had or on none, derives and writes only if it did so before, and no
\* receipt is trusted again preserves both.
LEMMA ChainQuiet ==
  ASSUME HeadsInv, ChainInv, revoked \subseteq revoked',
         \A i \in DOMAIN disk' : \E j \in DOMAIN disk : disk'[i] = disk[j],
         \A c \in Callers :
           \/ /\ call'[c].ledger = call[c].ledger
              /\ pc'[c] \in {"derive", "write"} => pc[c] \in {"derive", "write"}
           \/ call'[c].ledger = NoFile /\ pc'[c] \notin {"derive", "write"}
  PROVE  HeadsInv' /\ ChainInv'
<1>1. Right(NoFile)
  BY DEF Right, NoFile
<1>2. HeadsInv'
  BY <1>1 DEF HeadsInv
<1>3. ChainInv'
  <2>1. SUFFICES ASSUME revoked' = {}
                 PROVE  /\ \A i \in DOMAIN disk' : Chained(disk'[i].entries)
                        /\ \A c \in Callers : pc'[c] \in {"derive", "write"} => call'[c].ledger.valid
    BY DEF ChainInv
  <2>2. revoked = {}
    BY <2>1
  <2>3. QED
    BY <2>2 DEF ChainInv
<1>4. QED
  BY <1>2, <1>3

\* There is no receipt in a session file at the start.
LEMMA ChainInit == Init => HeadsInv /\ ChainInv
<1> SUFFICES ASSUME Init PROVE HeadsInv /\ ChainInv
  OBVIOUS
<1>1. PICK f \in StartFiles : disk = <<f>>
  BY DEF Init
<1>2. Receipts(f.entries) = {}
  BY <1>1 DEF StartFiles, NoFile, Receipts, IsReceipt, PlainEntry
<1>3. Right(f) /\ Chained(f.entries)
  BY <1>2, NoReceipts DEF StartFiles, NoFile, Right
<1>4. \A c \in Callers : call[c].ledger = NoFile /\ pc[c] = "idle"
  BY DEF Init, NoCall
<1>5. QED
  BY <1>1, <1>3, <1>4 DEF HeadsInv, ChainInv, Right, NoFile

\* Every step keeps the chain.
LEMMA ChainStep == TypeOK /\ HeadsInv /\ ChainInv /\ [Next]_vars => HeadsInv' /\ ChainInv'
<1> SUFFICES ASSUME TypeOK, HeadsInv, ChainInv, [Next]_vars PROVE HeadsInv' /\ ChainInv'
  OBVIOUS
<1>a. /\ pc \in [Callers -> Steps] /\ call \in [Callers -> Call]
      /\ \A c \in Callers : call[c].ledger \in Ledger /\ call[c].request \in Request
  BY DEF TypeOK, Call
<1>b. disk \in Seq(Ledger) /\ Len(disk) \in DOMAIN disk
  BY VisibleType DEF TypeOK
<1>1. ASSUME NEW c \in Callers, Load(c) PROVE HeadsInv' /\ ChainInv'
  <2>1. /\ UNCHANGED <<disk, revoked>> /\ pc' = [pc EXCEPT ![c] = "derive"]
    BY <1>1 DEF Load, Goto
  <2>2. PICK l \in IF Visible = NoFile THEN {NewLedger} ELSE PrepareForAppend(Visible) :
          call' = [call EXCEPT ![c].ledger = l]
    BY <1>1 DEF Load
  <2>3. Right(l) /\ (revoked = {} => l.valid)
    BY PrepareRight
  <2>4. call'[c].ledger = l /\ \A d \in Callers : d # c => call'[d] = call[d] /\ pc'[d] = pc[d]
    BY <1>a, <2>1, <2>2 DEF Call
  <2>5. HeadsInv'
    BY <2>1, <2>3, <2>4 DEF HeadsInv
  <2>6. ChainInv'
    BY <2>1, <2>3, <2>4 DEF ChainInv
  <2>7. QED
    BY <2>5, <2>6
<1>2. ASSUME NEW c \in Callers, Derive(c) PROVE HeadsInv' /\ ChainInv'
  <2> DEFINE before == call[c].ledger
             after == AppendEntries(before, call[c].request)
  <2>1. UNCHANGED <<disk, revoked>> /\ pc[c] = "derive"
    BY <1>2 DEF Derive
  <2>2. CASE /\ before.valid => after.valid
             /\ pc' = [pc EXCEPT ![c] = "write"]
             /\ call' = [call EXCEPT ![c].ledger = after]
    <3>1. Right(before)
      BY DEF HeadsInv
    <3>2. Right(after)
      BY <1>a, <3>1, AppendEntriesRight
    <3>3. revoked = {} => after.valid
      BY <2>1, <2>2 DEF ChainInv
    <3> HIDE DEF after, before
    <3>4. call'[c].ledger = after /\ \A d \in Callers : d # c => call'[d] = call[d] /\ pc'[d] = pc[d]
      BY <1>a, <2>2 DEF Call
    <3>5. HeadsInv'
      BY <2>1, <3>2, <3>4 DEF HeadsInv
    <3>6. ChainInv'
      BY <2>1, <3>3, <3>4 DEF ChainInv
    <3>7. QED
      BY <3>5, <3>6
  <2>3. CASE pc' = [pc EXCEPT ![c] = "unlock"] /\ UNCHANGED call
    BY <1>a, <2>1, <2>3, ChainQuiet
  <2>4. QED
    BY <1>2, <2>2, <2>3 DEF Derive
<1>3. ASSUME NEW c \in Callers, Rename(c) PROVE HeadsInv' /\ ChainInv'
  <2> DEFINE new == call[c].ledger
  <2>1. /\ UNCHANGED <<call, revoked>> /\ pc[c] = "write" /\ pc' = [pc EXCEPT ![c] = "sync"]
        /\ disk' = Append(disk, new)
    BY <1>3 DEF Rename, Goto
  <2>2. Right(new) /\ (revoked = {} => Chained(new.entries))
    BY <2>1 DEF HeadsInv, ChainInv, Right
  <2>3. \A i \in DOMAIN disk' : disk'[i] = new \/ (i \in DOMAIN disk /\ disk'[i] = disk[i])
    BY <1>a, <1>b, <2>1
  <2>4. \A d \in Callers : pc'[d] \in {"derive", "write"} => pc[d] \in {"derive", "write"}
    BY <1>a, <2>1
  <2> HIDE DEF new
  <2>5. HeadsInv'
    BY <2>1, <2>2, <2>3 DEF HeadsInv
  <2>6. ChainInv'
    BY <2>1, <2>2, <2>3, <2>4 DEF ChainInv
  <2>7. QED
    BY <2>5, <2>6
<1>4. ASSUME NEW c \in Callers,
             \/ Begin(c) \/ Cancel(c) \/ LockMutex(c) \/ MutexAcquired(c)
             \/ LockFile(c) \/ CancelledAtFile(c) \/ GiveUp(c) \/ FileFails(c)
             \/ SyncDirFails(c) \/ UnlockFile(c)
      PROVE  HeadsInv' /\ ChainInv'
  <2>1. UNCHANGED <<disk, revoked>>
    BY <1>4 DEF Begin, Cancel, LockMutex, MutexAcquired, LockFile, CancelledAtFile,
                GiveUp, FileFails, SyncDirFails, UnlockFile
  <2>2. \A d \in Callers : call'[d].ledger = call[d].ledger
    <3>1. CASE Begin(c)
      <4>1. PICK r : call' = [call EXCEPT ![c].request = r]
        BY <3>1 DEF Begin
      <4>2. QED
        BY <1>a, <4>1 DEF Call
    <3>2. CASE Cancel(c)
      BY <1>a, <3>2 DEF Cancel, Call
    <3>3. CASE call' = call
      BY <3>3
    <3>4. QED
      BY <1>4, <3>1, <3>2, <3>3
      DEF LockMutex, MutexAcquired, LockFile, CancelledAtFile, GiveUp, FileFails,
          SyncDirFails, UnlockFile
  <2>3. \A d \in Callers : pc'[d] \in {"derive", "write"} => pc[d] \in {"derive", "write"}
    BY <1>4, <1>a DEF Begin, Cancel, LockMutex, MutexAcquired, LockFile, CancelledAtFile,
                      GiveUp, FileFails, SyncDirFails, UnlockFile, Goto
  <2>4. QED
    BY <2>1, <2>2, <2>3, ChainQuiet
<1>5. ASSUME NEW c \in Callers, CancelledAtMutex(c) \/ Return(c) PROVE HeadsInv' /\ ChainInv'
  <2>1. /\ UNCHANGED <<disk, revoked>>
        /\ pc' = [pc EXCEPT ![c] = "idle"] /\ call' = [call EXCEPT ![c] = NoCall]
    BY <1>5 DEF CancelledAtMutex, Return, Goto
  <2>2. \A d \in Callers : \/ d # c /\ pc'[d] = pc[d] /\ call'[d] = call[d]
                           \/ d = c /\ pc'[d] = "idle" /\ call'[d].ledger = NoFile
    BY <1>a, <2>1 DEF NoCall
  <2>3. QED
    BY <2>1, <2>2, ChainQuiet
<1>6. ASSUME NEW c \in Callers, SyncDir(c) PROVE HeadsInv' /\ ChainInv'
  <2>1. /\ UNCHANGED revoked /\ pc' = [pc EXCEPT ![c] = "unlock"]
        /\ disk' = <<Visible>> /\ call' = [call EXCEPT ![c].ok = TRUE]
    BY <1>6 DEF SyncDir, Goto
  <2>2. \A i \in DOMAIN disk' : disk'[i] = disk[Len(disk)]
    BY <2>1 DEF Visible
  <2>3. \A d \in Callers : /\ call'[d].ledger = call[d].ledger
                           /\ pc'[d] \in {"derive", "write"} => pc[d] \in {"derive", "write"}
    BY <1>a, <2>1 DEF Call
  <2>4. QED
    BY <1>b, <2>1, <2>2, <2>3, ChainQuiet
<1>7. ASSUME NEW p \in Processes, GhostStep(p) PROVE HeadsInv' /\ ChainInv'
  BY <1>7, ChainQuiet DEF GhostStep, GhostLocks, GhostUnlocks
<1>8. ASSUME NEW p \in Processes, Crash(p) PROVE HeadsInv' /\ ChainInv'
  <2>1. \A d \in Callers : \/ pc'[d] = pc[d] /\ call'[d] = call[d]
                           \/ pc'[d] = "idle" /\ call'[d].ledger = NoFile
    BY <1>8 DEF Crash, NoCall
  <2>2. UNCHANGED <<disk, revoked>>
    BY <1>8 DEF Crash
  <2>3. QED
    BY <2>1, <2>2, ChainQuiet
<1>9. ASSUME PowerLoss PROVE HeadsInv' /\ ChainInv'
  <2>1. \A d \in Callers : pc'[d] = "idle" /\ call'[d].ledger = NoFile
    BY <1>9 DEF PowerLoss, NoCall
  <2>2. PICK i \in DOMAIN disk : disk' = <<disk[i]>>
    BY <1>9 DEF PowerLoss
  <2>3. UNCHANGED revoked /\ \A j \in DOMAIN disk' : disk'[j] = disk[i]
    BY <1>9, <2>2 DEF PowerLoss
  <2>4. QED
    BY <2>1, <2>3, ChainQuiet
<1>10. ASSUME NEW t \in Revocable, Revoke(t) PROVE HeadsInv' /\ ChainInv'
  BY <1>10, ChainQuiet DEF Revoke
<1>11. CASE UNCHANGED vars
  BY <1>11, ChainQuiet DEF vars
<1>12. QED
  BY <1>1, <1>2, <1>3, <1>4, <1>5, <1>6, <1>7, <1>8, <1>9, <1>10, <1>11
  DEF Next, CallerStep

\* The types and the chain are inductive together.
LEMMA HeadsInvariant == Spec => [](HeadsInv /\ ChainInv)
<1>1. Init => TypeOK /\ HeadsInv /\ ChainInv
  BY InitType, ChainInit
<1>2. (TypeOK /\ HeadsInv /\ ChainInv) /\ [Next]_vars => (TypeOK /\ HeadsInv /\ ChainInv)'
  BY TypeStep, ChainStep
<1>3. QED
  BY <1>1, <1>2, PTL DEF Spec

\* The head a ledger was stored with is that of its newest receipt, and its
\* receipts are one chain (CachedHeadIsRight): the cached fast path of the
\* store never mints on a wrong head.
THEOREM CachedHeads == Spec => []CachedHeadIsRight
<1>1. HeadsInv /\ ChainInv => CachedHeadIsRight
  BY DEF HeadsInv, Right, CachedHeadIsRight
<1>2. QED
  BY <1>1, HeadsInvariant, PTL

\* Two receipts that were minted on the same head never both enter the file
\* (NoForkedChain), however many callers race and whatever crashes.
THEOREM OneChain == Spec => []NoForkedChain
<1>1. HeadsInv /\ ChainInv => NoForkedChain
  BY DEF ChainInv, NoForkedChain
<1>2. QED
  BY <1>1, HeadsInvariant, PTL

-----------------------------------------------------------------------------
(* The store implements the log                                             *)

\* A prefix is an initial subsequence, and ends where it does.
LEMMA PrefixIsSubSeq ==
  ASSUME NEW s \in Seq(Entry), NEW t \in Seq(Entry), IsPrefixOf(s, t)
  PROVE  Len(s) \in Nat /\ Len(t) \in Nat /\ Len(s) <= Len(t) /\ SubSeq(t, 1, Len(s)) = s
  BY DEF IsPrefixOf

\* Every step of the store is one of the log or leaves it alone.
LEMMA LogStep ==
  TypeOK /\ LockInv /\ DurableInv /\ [Next]_vars => [Log!Next]_(Log!logVars)
<1> SUFFICES ASSUME TypeOK, DurableInv, [Next]_vars PROVE Log!Next \/ UNCHANGED Log!logVars
  OBVIOUS
<1> DEFINE log == Visible.entries
           stable == Len(disk[1].entries)
<1>a. /\ disk \in Seq(Ledger) /\ Len(disk) \in DOMAIN disk /\ 1 \in DOMAIN disk
      /\ \A i \in DOMAIN disk : i <= Len(disk) /\ 1 <= i /\ disk[i].entries \in Seq(Entry)
      /\ call \in [Callers -> Call] /\ log \in Seq(Entry)
  <2>1. disk \in Seq(Ledger) /\ Visible \in Ledger /\ Len(disk) \in Nat \ {0}
    BY VisibleType DEF TypeOK
  <2>2. \A l \in Ledger : l.entries \in Seq(Entry)
    BY DEF Ledger
  <2>3. \A i \in DOMAIN disk : disk[i] \in Ledger /\ i <= Len(disk) /\ 1 <= i
    BY <2>1
  <2>4. Len(disk) \in DOMAIN disk /\ 1 \in DOMAIN disk
    BY <2>1
  <2>5. QED
    BY <2>1, <2>2, <2>3, <2>4 DEF TypeOK
<1>1. ASSUME NEW c \in Callers, Rename(c) PROVE Log!Record
  <2>1. UNCHANGED acked /\ pc[c] = "write" /\ disk' = Append(disk, call[c].ledger)
    BY <1>1 DEF Rename, Goto
  <2>2. call[c].ledger.entries \in Seq(Entry) /\ call[c].ledger \in Ledger
    BY <1>a DEF Call, Ledger
  <2>3. Visible' = call[c].ledger /\ disk'[1] = disk[1]
    BY <1>a, <2>1, <2>2 DEF Visible
  <2>4. IsPrefixOf(log, Visible'.entries)
    BY <2>1, <2>3 DEF DurableInv, WorkInv
  <2>5. QED
    BY <1>a, <2>1, <2>2, <2>3, <2>4, PrefixIsSubSeq DEF Log!Record
<1>2. ASSUME NEW c \in Callers, SyncDir(c) PROVE Log!Persist
  <2>1. UNCHANGED acked /\ disk' = <<Visible>>
    BY <1>2 DEF SyncDir
  <2>2. Visible' = Visible /\ disk'[1] = Visible
    BY <2>1 DEF Visible
  <2>3. QED
    BY <2>1, <2>2 DEF Log!Persist
<1>3. ASSUME NEW c \in Callers, Return(c) PROVE Log!Acknowledge
  <2>1. /\ UNCHANGED disk
        /\ acked' = IF call[c].ok THEN acked \cup EntriesOf(call[c].request) ELSE acked
    BY <1>3 DEF Return
  <2>2. IsPrefixOf(disk[1].entries, log) /\ disk[1].entries \in Seq(Entry)
    BY <1>a DEF DurableInv, VersionsGrow, Visible
  <2>3. ASSUME NEW e \in acked' \ acked PROVE \E i \in 1..stable : log[i] = e
    <3>1. e \in EntriesOf(disk[1].entries)
      BY <1>a, <2>1, <2>3 DEF DurableInv, WorkInv
    <3>2. PICK i \in DOMAIN disk[1].entries : disk[1].entries[i] = e
      BY <3>1 DEF EntriesOf
    <3>3. QED
      BY <2>2, <3>2 DEF IsPrefixOf
  <2>4. UNCHANGED Visible
    BY <2>1 DEF Visible
  <2>5. QED
    BY <2>1, <2>3, <2>4 DEF Log!Acknowledge
<1>4. ASSUME PowerLoss PROVE Log!Forget
  <2>1. UNCHANGED acked /\ \E i \in DOMAIN disk : disk' = <<disk[i]>>
    BY <1>4 DEF PowerLoss
  <2>2. PICK i \in DOMAIN disk : disk' = <<disk[i]>>
    BY <2>1
  <2>3. disk'[1] = disk[i] /\ Visible' = disk[i]
    BY <2>2 DEF Visible
  <2>4. IsPrefixOf(disk[1].entries, disk[i].entries) /\ IsPrefixOf(disk[i].entries, log)
    BY <1>a DEF DurableInv, VersionsGrow, Visible
  <2>5. Len(disk[i].entries) \in stable..Len(log) /\ SubSeq(log, 1, Len(disk[i].entries)) = disk[i].entries
    BY <1>a, <2>4, PrefixIsSubSeq
  <2>6. QED
    BY <2>1, <2>3, <2>5 DEF Log!Forget
<1>5. CASE UNCHANGED <<disk, acked>>
  BY <1>5 DEF Visible, Log!logVars
<1>6. \/ UNCHANGED <<disk, acked>>
      \/ PowerLoss
      \/ \E c \in Callers : Rename(c) \/ SyncDir(c) \/ Return(c)
  BY DEF Next, CallerStep, GhostStep, Begin, Cancel, LockMutex, MutexAcquired,
         CancelledAtMutex, GhostLocks, GhostUnlocks, LockFile, CancelledAtFile,
         Load, Derive, GiveUp, FileFails, SyncDirFails, UnlockFile, Crash, Revoke, vars
<1>7. QED
  BY <1>1, <1>2, <1>3, <1>4, <1>5, <1>6 DEF Log!Next

\* The store starts as a log of which everything is durable.
LEMMA LogInit == Init => Log!Init
<1> SUFFICES ASSUME Init PROVE Log!Init
  OBVIOUS
<1>1. Visible \in Ledger
  BY InitType, VisibleType
<1>2. Visible.entries \in Seq(Entry) /\ Len(disk) = 1 /\ acked = {}
  BY <1>1 DEF Init, Ledger
<1>3. QED
  BY <1>2 DEF Log!Init, Visible

\* The store implements the log its clients rely on (ImplementsLog): appends
\* are whole and durable before they are acknowledged, and only a power failure
\* forgets, and only what nobody was told is recorded.
THEOREM StoreIsLog == Spec => ImplementsLog
<1>1. Init => Log!Init
  BY LogInit
<1>2. TypeOK /\ LockInv /\ DurableInv /\ [Next]_vars => [Log!Next]_(Log!logVars)
  BY LogStep
<1>3. QED
  BY <1>1, <1>2, StoreInv, PTL DEF Spec, ImplementsLog, Log!Spec
=============================================================================
