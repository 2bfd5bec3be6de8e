--------------------------- MODULE SessionLedger ---------------------------
(***************************************************************************)
(* The session ledger of one task (internal/core/session/model.go): an     *)
(* append-only sequence of evidence entries in which the receipt entries   *)
(* form a hash chain.                                                      *)
(*                                                                         *)
(* A ledger is a record [entries, head, valid].  The SHA-256 chain head is *)
(* the sequence of the digests hashed into it: two heads are equal exactly *)
(* when the same digests were chained in the same order, which is what the *)
(* code relies on.  The head of an INVALID ledger is NoHead: such a head   *)
(* is always recomputed before use, because an invalid ledger never takes  *)
(* the cached-head path.                                                   *)
(*                                                                         *)
(* A receipt's digest is the hash of its body, which no two receipts share: *)
(* it is modelled by the identity of the entry, its tag.                    *)
(*                                                                          *)
(* The indexes CriterionStates and PhaseBlocks are a function of entries   *)
(* and are left out.                                                       *)
(***************************************************************************)
EXTENDS Naturals, Sequences

CONSTANTS
  Tags,      \* identities of entries: who wrote it, in which call
  NoDigest,  \* the ReceiptDigest of an entry that is not a receipt
  NoHead     \* the head of a ledger that has none, or an invalid one

ASSUME DistinctSentinels == NoDigest \notin Tags /\ NoHead \notin Seq(Tags)

Heads == Seq(Tags)

Entry == [tag : Tags, digest : Tags \cup {NoDigest}, head : Heads]

Ledger == [entries : Seq(Entry), head : Heads \cup {NoHead}, valid : BOOLEAN]

LedgerGenesisHead == << >>

NextLedgerHead(prior, digest) == Append(prior, digest)

\* An entry that is not a receipt, and a receipt minted on top of `prior`.
PlainEntry(tag) == [tag |-> tag, digest |-> NoDigest, head |-> << >>]

ReceiptEntry(tag, prior) ==
  [tag |-> tag, digest |-> tag, head |-> NextLedgerHead(prior, tag)]

IsReceipt(e) == e.digest # NoDigest

\* What New creates when the task has no session file.
NewLedger == [entries |-> << >>, head |-> LedgerGenesisHead, valid |-> TRUE]

-----------------------------------------------------------------------------
(* Replay, by what it computes rather than by its loop.                    *)

\* The positions of the receipts of a sequence of entries.
Receipts(es) == {i \in DOMAIN es : IsReceipt(es[i])}

\* The stored head of the newest receipt; the genesis head without one.
LastHead(es) ==
  IF Receipts(es) = {} THEN LedgerGenesisHead
  ELSE es[CHOOSE i \in Receipts(es) : \A j \in Receipts(es) : j <= i].head

\* Each receipt was minted on the head its predecessor left.
Chained(es) ==
  \A i \in Receipts(es) :
    \/ /\ \A k \in Receipts(es) : k >= i
       /\ es[i].head = NextLedgerHead(LedgerGenesisHead, es[i].digest)
    \/ \E j \in Receipts(es) :
         /\ j < i
         /\ \A k \in Receipts(es) : k <= j \/ k >= i
         /\ es[i].head = NextLedgerHead(es[j].head, es[i].digest)

\* ReplayWithOptions: the receipts chain and the trust policy of the moment
\* rejects none of them.
Replay(es, revoked) ==
  LET ok == Chained(es) /\ \A i \in Receipts(es) : es[i].digest \notin revoked
  IN  [entries |-> es, head |-> IF ok THEN LastHead(es) ELSE NoHead, valid |-> ok]

\* Mutant: a receipt does not advance the cached head.
AppendEntryKeepsHead(l, e, revoked) ==
  LET ok == /\ l.valid
            /\ IsReceipt(e) => /\ e.digest \notin revoked
                               /\ e.head = NextLedgerHead(l.head, e.digest)
  IN  [entries |-> Append(l.entries, e),
       head    |-> IF ok THEN l.head ELSE NoHead,
       valid   |-> ok]

\* AppendEntryWithOptions: one entry on top of a replayed ledger.  A receipt
\* that is not trusted or was minted on another head makes it invalid.
AppendEntry(l, e, revoked) ==
  LET ok == /\ l.valid
            /\ IsReceipt(e) => /\ e.digest \notin revoked
                               /\ e.head = NextLedgerHead(l.head, e.digest)
  IN  [entries |-> Append(l.entries, e),
       head    |-> IF ~ok THEN NoHead ELSE IF IsReceipt(e) THEN e.head ELSE l.head,
       valid   |-> ok]
=============================================================================
