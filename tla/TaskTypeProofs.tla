--------------------------- MODULE TaskTypeProofs ---------------------------
(***************************************************************************)
(* What the read models of ReviewGate answer, for every ledger; then the   *)
(* types of the variables of TaskCommands, and what a process may rely on  *)
(* at each of its steps, for any number of processes, any contracts,       *)
(* starting ledgers and bounds.                                            *)
(***************************************************************************)
EXTENDS TaskCommands, NumberLemmas

\* LastOf is the position of the newest entry of the given types: none after
\* it has one of them.
LEMMA LastOfIs ==
  ASSUME NEW S, NEW es \in Seq(S), NEW types
  PROVE  /\ LastOf(es, types) \in 0..Len(es)
         /\ LastOf(es, types) # 0 => es[LastOf(es, types)].type \in types
         /\ \A j \in (LastOf(es, types) + 1)..Len(es) : es[j].type \notin types
<1> DEFINE Among == {i \in 0..Len(es) : i # 0 => es[i].type \in types}
           IsLast(i) == /\ i # 0 => es[i].type \in types
                        /\ \A j \in (i + 1)..Len(es) : es[j].type \notin types
<1>1. Among \in SUBSET (0..Len(es)) /\ 0 \in Among /\ Len(es) \in Nat
  OBVIOUS
<1>2. PICK last \in Among : \A j \in Among : j <= last
  <2> HIDE DEF Among
  <2> QED
    BY <1>1, GreatestNumber
<1>3. last \in 0..Len(es) /\ IsLast(last)
  BY <1>2
<1>4. LastOf(es, types) = CHOOSE i \in 0..Len(es) : IsLast(i)
  BY DEF LastOf
<1>5. LastOf(es, types) \in 0..Len(es) /\ IsLast(LastOf(es, types))
  <2> HIDE DEF IsLast
  <2> QED
    BY <1>3, <1>4
<1>6. QED
  BY <1>5

\* There is a newest entry of the given types when there is one at all.
LEMMA LastOfFinds ==
  ASSUME NEW S, NEW es \in Seq(S), NEW types
  PROVE  LastOf(es, types) # 0 <=> \E i \in DOMAIN es : es[i].type \in types
  BY LastOfIs

\* A position after which nothing has one of the types is the one LastOf finds.
LEMMA LastOfUnique ==
  ASSUME NEW S, NEW es \in Seq(S), NEW types, NEW i \in DOMAIN es, es[i].type \in types,
         \A j \in (i + 1)..Len(es) : es[j].type \notin types
  PROVE  LastOf(es, types) = i
<1> DEFINE last == LastOf(es, types)
<1>1. /\ last \in 0..Len(es)
      /\ last # 0 => es[last].type \in types
      /\ \A j \in (last + 1)..Len(es) : es[j].type \notin types
  BY LastOfIs
<1>2. last <= i
  <2>1. SUFFICES ASSUME last > i PROVE FALSE
    BY <1>1
  <2>2. last \in (i + 1)..Len(es) /\ last # 0
    BY <1>1, <2>1
  <2>3. QED
    BY <1>1, <2>2
<1>3. i <= last
  <2>1. SUFFICES ASSUME i > last PROVE FALSE
    BY <1>1
  <2>2. i \in (last + 1)..Len(es)
    BY <1>1, <2>1
  <2>3. QED
    BY <1>1, <2>2
<1>4. QED
  BY <1>1, <1>2, <1>3

\* Before cuts a ledger right in front of one of its entries.
LEMMA BeforeIs ==
  ASSUME NEW S, NEW es \in Seq(S), NEW i \in 1..(Len(es) + 1)
  PROVE  /\ Before(es, i) \in Seq(S)
         /\ Len(Before(es, i)) = i - 1
         /\ \A j \in 1..(i - 1) : Before(es, i)[j] = es[j]
  BY DEF Before

\* The running attempt of the current window, if any, is an attempt.
LEMMA LatestAttemptIs ==
  ASSUME NEW S, NEW es \in Seq(S)
  PROVE  /\ LatestAttempt(es) \in 0..Len(es)
         /\ LatestAttempt(es) # 0 => es[LatestAttempt(es)].type = "review_attempt"
<1>1. /\ Before(es, Len(es) + 1) \in Seq(S)
      /\ Len(Before(es, Len(es) + 1)) = Len(es)
      /\ \A j \in 1..Len(es) : Before(es, Len(es) + 1)[j] = es[j]
  BY DEF Before
<1>2. LastOf(Before(es, Len(es) + 1), Attempts) \in 0..Len(es)
  BY <1>1, LastOfIs
<1>3. QED
  BY <1>2 DEF LatestAttempt, AttemptBefore

\* An authority points into the ledger, in front of the position it is asked
\* for, and to an entry when it is valid.
LEMMA AuthorityIs ==
  ASSUME NEW S, NEW es \in Seq(S), NEW i \in 1..(Len(es) + 1)
  PROVE  /\ ReviewGateBefore(es, i).at \in 0..(i - 1)
         /\ ReviewGateBefore(es, i).valid => ReviewGateBefore(es, i).at # 0
<1> DEFINE g == LastOf(Before(es, i), Gates)
<1>1. g \in 0..(i - 1)
  BY BeforeIs, LastOfIs
<1>2. CASE g # 0 /\ es[g].type = "receipt"
  BY <1>1, <1>2 DEF ReviewGateBefore
<1>3. CASE g # 0 /\ es[g].type = "review"
  <2>1. ReviewGateBefore(es, i) = ReviewAuthority(es, g)
    BY <1>3 DEF ReviewGateBefore
  <2>2. ReviewAuthority(es, g).at = g
    BY DEF ReviewAuthority
  <2>3. QED
    BY <1>1, <1>3, <2>1, <2>2
<1>4. CASE ~(g # 0 /\ es[g].type = "receipt") /\ ~(g # 0 /\ es[g].type = "review")
  <2>1. ReviewGateBefore(es, i) = NoAuthority
    BY <1>4 DEF ReviewGateBefore
  <2>2. QED
    BY <1>1, <2>1 DEF NoAuthority
<1>5. QED
  BY <1>2, <1>3, <1>4

\* The same of the two authorities the commands ask for.
LEMMA AuthoritiesPointIntoLedger ==
  ASSUME NEW S, NEW es \in Seq(S)
  PROVE  /\ CurrentReviewGate(es).at \in 0..Len(es)
         /\ HasReceipt(es, CurrentReviewGate(es)) =>
              /\ CurrentReviewGate(es).at \in 1..Len(es)
              /\ es[CurrentReviewGate(es).at].type = "receipt"
         /\ HasReceipt(es, TerminalAuthority(es)) =>
              /\ TerminalAuthority(es).at \in 1..Len(es)
              /\ es[TerminalAuthority(es).at].type = "receipt"
<1> DEFINE c == LastOf(es, {"complete"})
<1>1. /\ CurrentReviewGate(es).at \in 0..Len(es)
      /\ CurrentReviewGate(es).valid => CurrentReviewGate(es).at # 0
  <2>1. Len(es) + 1 \in 1..(Len(es) + 1) /\ (Len(es) + 1) - 1 = Len(es)
    OBVIOUS
  <2>2. QED
    BY <2>1, AuthorityIs DEF CurrentReviewGate
<1>2. c \in 0..Len(es)
  BY LastOfIs
<1>3. CASE c = 0
  <2>1. ~TerminalAuthority(es).valid
    BY <1>3 DEF TerminalAuthority, NoAuthority
  <2>2. QED
    BY <1>1, <2>1 DEF HasReceipt
<1>4. CASE c # 0
  <2>1. TerminalAuthority(es) = ReviewGateBefore(es, c)
    BY <1>4 DEF TerminalAuthority
  <2>2. c \in 1..(Len(es) + 1)
    BY <1>2, <1>4
  <2>3. /\ TerminalAuthority(es).at \in 0..(c - 1)
        /\ TerminalAuthority(es).valid => TerminalAuthority(es).at # 0
    BY <2>1, <2>2, AuthorityIs
  <2>4. TerminalAuthority(es).valid => TerminalAuthority(es).at \in 1..Len(es)
    BY <1>2, <2>3
  <2>5. QED
    BY <1>1, <2>4 DEF HasReceipt
<1>5. QED
  BY <1>3, <1>4

\* What the gate says of the attempt of the current window.
LEMMA ProjectedAttempt ==
  ASSUME NEW S, NEW es \in Seq(S), NEW contract, NEW material, NEW time
  PROVE  LET kind == Project(es, "review", contract, material, time)
             a    == LatestAttempt(es)
         IN  /\ kind = "attempt_stale" => a # 0 /\ Stale(es[a], time)
             /\ a # 0 /\ es[a].status = "running" /\ kind # "attempt_running"
                  => Stale(es[a], time)
             /\ kind = "attempt_failed" => a # 0
  BY DEF Project

-----------------------------------------------------------------------------
(* The steps of a command, and the entries a review attempt leaves.         *)

Steps == {"idle", "load", "append", "save", "reload", "reload review", "open", "repair",
          "run", "criterion", "verdict", "preflight", "prepare", "seal", "start", "provider",
          "record", "override", "sign", "snapshot", "accept", "evidence", "anchor",
          "task file", "latest file", "archive", "done"}

AttemptEntry == [type : {"review_attempt"}, status : {"running", "accepted", "failed", "abandoned"},
                 lease : 0..MaxTime, contract : Contracts, material : Materials, out : Materials]

-----------------------------------------------------------------------------
(* Type correctness                                                         *)

\* What a process at a step may rely on: the ledger `es` it works with can
\* only have grown, and time has passed, since it learned it.
CallOK(step, c, es, t) ==
  /\ c \in Call
  /\ c.seen \in 0..Len(es) /\ c.attempt \in 0..Len(es) /\ c.review \in 0..Len(es)
  /\ c.now <= t
  /\ step \notin {"idle", "done"} => c.contract \in Contracts
  /\ step = "load" => t + Lease <= MaxTime
  /\ step \in {"preflight", "prepare", "seal", "start"} => c.now + Lease <= MaxTime
  /\ step \in {"provider", "record"} =>
       c.attempt \in 1..Len(es) /\ es[c.attempt].type = "review_attempt"
  /\ step \in {"record", "verdict", "evidence"} => c.verdict \in {"pass", "fail"}
  /\ step \in {"anchor", "task file", "latest file", "archive"} => c.receipt \in ReceiptEntry

DataOK ==
  /\ spec \in [contract : Contracts, status : {"draft", "approved", "completed"}]
  /\ work \in Materials
  /\ files \in [task : Commands \cup {NoReceipt}, latest : Commands \cup {NoReceipt}]
  /\ spent \in [edits : 0..MaxEdits, crashes : 0..MaxCrashes]
  /\ work <= spent.edits

TypeInv ==
  /\ DataOK
  /\ ledger \in Seq(Entry)
  /\ now \in 0..MaxTime
  /\ pc \in [Commands -> Steps]
  /\ call \in [Commands -> Call]
  /\ \A n \in Commands : CallOK(pc[n], call[n], ledger, now)

Extends(new, old) ==
  /\ new \in Seq(Entry)
  /\ Len(old) <= Len(new)
  /\ \A i \in 1..Len(old) : new[i] = old[i]

\* A ledger extends itself, and appending entries extends it.
LEMMA LogExtends ==
  ASSUME NEW l \in Seq(Entry), NEW es \in Seq(Entry)
  PROVE  Extends(l, l) /\ Extends(l \o es, l)
  BY DEF Extends

\* The entries that the commands append are entries.
LEMMA EntryTypes ==
  /\ Approval \in Entry /\ Baseline \in Entry /\ Override \in Entry /\ Stage \in Entry
  /\ Terminal("cancel") \in Entry /\ Terminal("fail") \in Entry
  /\ Completion("finalize") \in Entry /\ Completion("complete") \in Entry
  /\ \A s \in {"active", "blocked", "review"} : Build(s) \in Entry
  /\ \A s \in {"pass", "fail"}, c \in Contracts : Criterion(s, c) \in Entry
  /\ \A lease \in 0..MaxTime, c \in Contracts, m, out \in Materials :
       RunningAttempt(lease, c, m, out) \in Entry
  /\ Review("pass", "human", "none", NoMaterial, NoMaterial) \in Entry
  /\ \A s \in {"pass", "fail"}, c \in Contracts, m, packet \in Materials :
       Review(s, "provider", c, m, packet) \in Entry
  BY DEF Entry, Approval, Baseline, Override, Stage, Terminal, Completion, Build, Criterion,
         RunningAttempt, Review

\* An entry of an attempt is one, and so is the entry that closes it; an entry
\* of a receipt is a receipt.
LEMMA TypedEntries ==
  ASSUME NEW e \in Entry
  PROVE  /\ e.type = "review_attempt" =>
              /\ e \in AttemptEntry
              /\ \A s \in {"accepted", "failed", "abandoned"} :
                   CloseAttempt(e, s) \in Entry /\ CloseAttempt(e, s).type = "review_attempt"
         /\ e.type = "receipt" => e \in ReceiptEntry
<1>1. e.type = "review_attempt" => e \in AttemptEntry
  BY DEF Entry, AttemptEntry, ReceiptEntry
<1>2. e.type = "receipt" => e \in ReceiptEntry
  BY DEF Entry, ReceiptEntry
<1>3. ASSUME e \in AttemptEntry, NEW s \in {"accepted", "failed", "abandoned"}
      PROVE  CloseAttempt(e, s) \in AttemptEntry
  BY <1>3 DEF CloseAttempt, AttemptEntry
<1>4. AttemptEntry \subseteq Entry
  BY DEF Entry, AttemptEntry
<1>5. \A a \in AttemptEntry : a.type = "review_attempt"
  BY DEF AttemptEntry
<1>6. QED
  BY <1>1, <1>2, <1>3, <1>4, <1>5

\* Between two calls a process holds nothing.
LEMMA NoCallOK ==
  ASSUME NEW es \in Seq(Entry), NEW t \in Nat, NEW step \in {"idle", "done"}
  PROVE  NoCall \in Call /\ CallOK(step, NoCall, es, t)
<1>1. 0 \in Materials /\ 0 \in 0..MaxTime
  BY BoundsAreNumbers DEF Materials
<1>2. NoCall \in Call
  BY <1>1 DEF NoCall, Call
<1>3. /\ NoCall.seen = 0 /\ NoCall.attempt = 0 /\ NoCall.review = 0 /\ NoCall.now = 0
      /\ 0 \in 0..Len(es) /\ 0 <= t
  BY DEF NoCall
<1>4. /\ step \in {"idle", "done"} /\ step # "load"
      /\ step \notin {"preflight", "prepare", "seal", "start"}
      /\ step \notin {"provider", "record"}
      /\ step \notin {"record", "verdict", "evidence"}
      /\ step \notin {"anchor", "task file", "latest file", "archive"}
  OBVIOUS
<1>5. QED
  BY <1>2, <1>3, <1>4 DEF CallOK

\* What a process relies on stays true while the ledger grows.
LEMMA CallOKGrows ==
  ASSUME NEW step, NEW c, NEW old \in Seq(Entry), NEW new, Extends(new, old), NEW t \in Nat,
         CallOK(step, c, old, t)
  PROVE  CallOK(step, c, new, t)
<1>1. /\ Len(old) \in Nat /\ Len(new) \in Nat /\ Len(old) <= Len(new)
      /\ \A i \in 1..Len(old) : i \in 1..Len(new) /\ new[i] = old[i]
  BY DEF Extends
<1>2. \A i \in 0..Len(old) : i \in 0..Len(new)
  BY <1>1
<1>3. QED
  BY <1>1, <1>2 DEF CallOK

OnlyMoves(n) ==
  pc' = [pc EXCEPT ![n] = pc'[n]] /\ call' = [call EXCEPT ![n] = call'[n]]

\* A process that goes on to a step keeps the invariant when it may be at that
\* step with the data it then holds.
LEMMA Moves ==
  ASSUME TypeInv, NEW n \in Commands, OnlyMoves(n), pc'[n] \in Steps,
         CallOK(pc'[n], call'[n], ledger', now), Extends(ledger', ledger), now' = now, DataOK'
  PROVE  TypeInv'
<1>1. pc' \in [Commands -> Steps]
  BY DEF TypeInv, OnlyMoves
<1>2. call'[n] \in Call
  BY DEF CallOK
<1>3. call' \in [Commands -> Call]
  BY <1>2 DEF TypeInv, OnlyMoves
<1>4. ledger' \in Seq(Entry) /\ now' \in 0..MaxTime /\ now \in Nat
  BY BoundsAreNumbers DEF TypeInv, Extends
<1>5. ASSUME NEW m \in Commands PROVE CallOK(pc'[m], call'[m], ledger', now)
  <2>1. CASE m = n
    BY <2>1
  <2>2. CASE m # n
    <3>1. pc'[m] = pc[m] /\ call'[m] = call[m]
      BY <2>2 DEF OnlyMoves, TypeInv
    <3>2. CallOK(pc[m], call[m], ledger, now) /\ ledger \in Seq(Entry)
      BY DEF TypeInv
    <3>3. CallOK(pc[m], call[m], ledger', now)
      BY <1>4, <3>2, CallOKGrows
    <3>4. QED
      BY <3>1, <3>3
  <2>3. QED
    BY <2>1, <2>2
<1>6. QED
  BY <1>1, <1>3, <1>4, <1>5 DEF TypeInv

\* A process that ends keeps it, whatever it appends.
LEMMA Finishes ==
  ASSUME TypeInv, NEW n \in Commands, Finish(n), Extends(ledger', ledger), now' = now, DataOK'
  PROVE  TypeInv'
<1>1. OnlyMoves(n) /\ pc'[n] = "done" /\ call'[n] = NoCall
  BY DEF Finish, Goto, OnlyMoves, TypeInv
<1>2. ledger' \in Seq(Entry) /\ now \in Nat
  BY BoundsAreNumbers DEF TypeInv, Extends
<1>3. CallOK("done", NoCall, ledger', now)
  BY <1>2, NoCallOK
<1>4. QED
  BY <1>1, <1>3, Moves DEF Steps

\* A process that goes to a step with the data `c` moves, and only it does.
LEMMA GoesTo ==
  ASSUME TypeInv, NEW n \in Commands, NEW step \in Steps, pc' = [pc EXCEPT ![n] = step],
         call' = [call EXCEPT ![n] = call'[n]]
  PROVE  OnlyMoves(n) /\ pc'[n] = step
  BY DEF OnlyMoves, TypeInv

\* The commands start well typed.
LEMMA TypeInit == Init => TypeInv
<1> SUFFICES ASSUME Init PROVE TypeInv
  OBVIOUS
<1> USE DEF Init
<1>1. ledger \in Seq(Entry)
  BY HistoriesAreLedgers DEF IsHistory
<1>2. DataOK
  BY BoundsAreNumbers, FirstContractIsOne DEF DataOK, Materials
<1>3. now = 0 /\ now \in Nat /\ now \in 0..MaxTime
  BY BoundsAreNumbers
<1>4. ASSUME NEW n \in Commands PROVE CallOK(pc[n], call[n], ledger, now)
  <2>1. pc[n] = "idle" /\ call[n] = NoCall
    OBVIOUS
  <2>2. CallOK("idle", NoCall, ledger, now)
    BY <1>1, <1>3, NoCallOK
  <2>3. QED
    BY <2>1, <2>2
<1>5. NoCall \in Call
  BY <1>1, <1>3, NoCallOK
<1>6. QED
  BY <1>1, <1>2, <1>3, <1>4, <1>5 DEF TypeInv, Steps

\* A process that goes to its next step with the data it has.
LEMMA Continues ==
  ASSUME TypeInv, NEW n \in Commands, NEW step \in Steps, Goto(n, step, call[n]),
         CallOK(step, call[n], ledger, now), Extends(ledger', ledger), now' = now, DataOK'
  PROVE  TypeInv'
<1>1. OnlyMoves(n) /\ pc'[n] = step /\ call'[n] = call[n]
  BY DEF Goto, OnlyMoves, TypeInv
<1>2. CallOK(step, call[n], ledger', now)
  BY BoundsAreNumbers, CallOKGrows DEF TypeInv
<1>3. QED
  BY <1>1, <1>2, Moves

\* What the leaves below need of the invariant.
LEMMA TypeFacts ==
  ASSUME TypeInv, NEW n \in Commands
  PROVE  /\ CallOK(pc[n], call[n], ledger, now)
         /\ ledger \in Seq(Entry) /\ Len(ledger) \in Nat
         /\ now \in 0..MaxTime /\ now \in Nat
         /\ Extends(ledger, ledger)
         /\ \A e \in Entry : Extends(ledger \o <<e>>, ledger)
         /\ \A es \in Seq(Entry) : Extends(ledger \o es, ledger)
         /\ UNCHANGED <<spec, work, files, spent>> => DataOK'
<1>1. ledger \in Seq(Entry) /\ now \in 0..MaxTime /\ DataOK
  BY DEF TypeInv
<1>2. UNCHANGED <<spec, work, files, spent>> => DataOK'
  BY <1>1 DEF DataOK
<1>3. \A es \in Seq(Entry) : Extends(ledger, ledger) /\ Extends(ledger \o es, ledger)
  BY <1>1, LogExtends
<1>4. ASSUME NEW e \in Entry PROVE Extends(ledger \o <<e>>, ledger)
  <2>1. <<e>> \in Seq(Entry)
    OBVIOUS
  <2>2. QED
    BY <1>3, <2>1
<1>5. Extends(ledger, ledger)
  BY <1>1 DEF Extends
<1>6. now \in Nat /\ Len(ledger) \in Nat
  BY <1>1, BoundsAreNumbers
<1>7. QED
  BY <1>1, <1>2, <1>3, <1>4, <1>5, <1>6 DEF TypeInv

\* approve keeps the types.
LEMMA ApproveTypes ==
  ASSUME TypeInv, NEW n \in Commands, ApproveBaseline(n) \/ ApproveAppend(n) \/ ApproveSave(n)
  PROVE  TypeInv'
<1>0. /\ CallOK(pc[n], call[n], ledger, now)
      /\ Extends(ledger, ledger) /\ \A e \in Entry : Extends(ledger \o <<e>>, ledger)
      /\ UNCHANGED <<spec, work, files, spent>> => DataOK'
  BY TypeFacts
<1>1. CASE ApproveBaseline(n)
  <2>1. Extends(ledger', ledger) /\ now' = now /\ DataOK'
    BY <1>0, <1>1, EntryTypes DEF ApproveBaseline, Log
  <2>2. pc[n] = "load" /\ (Goto(n, "append", call[n]) \/ Finish(n))
    BY <1>1 DEF ApproveBaseline, At
  <2>3. CallOK("append", call[n], ledger, now)
    BY <1>0, <2>2 DEF CallOK
  <2>4. QED
    BY <2>1, <2>2, <2>3, Continues, Finishes DEF Steps
<1>2. CASE ApproveAppend(n)
  <2>1. Extends(ledger', ledger) /\ now' = now /\ DataOK'
    BY <1>0, <1>2, EntryTypes DEF ApproveAppend, Log
  <2>2. pc[n] = "append" /\ Goto(n, "save", call[n])
    BY <1>2 DEF ApproveAppend, At
  <2>3. CallOK("save", call[n], ledger, now)
    BY <1>0, <2>2 DEF CallOK
  <2>4. QED
    BY <2>1, <2>2, <2>3, Continues DEF Steps
<1>3. CASE ApproveSave(n)
  <2>1. Extends(ledger', ledger) /\ now' = now /\ Finish(n)
    BY <1>0, <1>3 DEF ApproveSave
  <2>2. DataOK'
    BY <1>3 DEF ApproveSave, TypeInv, DataOK
  <2>3. QED
    BY <2>1, <2>2, Finishes
<1>4. QED
  BY <1>1, <1>2, <1>3

\* The same with other data.
LEMMA ContinuesWith ==
  ASSUME TypeInv, NEW n \in Commands, NEW step \in Steps, pc' = [pc EXCEPT ![n] = step],
         call' = [call EXCEPT ![n] = call'[n]], CallOK(step, call'[n], ledger, now),
         Extends(ledger', ledger), now' = now, DataOK'
  PROVE  TypeInv'
<1>1. OnlyMoves(n) /\ pc'[n] = step
  BY GoesTo
<1>2. CallOK(step, call'[n], ledger', now)
  BY BoundsAreNumbers, CallOKGrows DEF TypeInv
<1>3. QED
  BY <1>1, <1>2, Moves

\* build keeps the types.
LEMMA BuildTypes ==
  ASSUME TypeInv, NEW n \in Commands,
         \/ BuildLoad(n) \/ BuildReload(n) \/ BuildOpen(n) \/ BuildRepair(n) \/ BuildRun(n)
         \/ BuildCriterion(n) \/ BuildVerdict(n)
  PROVE  TypeInv'
<1>0. /\ CallOK(pc[n], call[n], ledger, now)
      /\ Extends(ledger, ledger) /\ \A e \in Entry : Extends(ledger \o <<e>>, ledger)
      /\ UNCHANGED <<spec, work, files, spent>> => DataOK'
  BY TypeFacts
<1>1. CASE BuildLoad(n)
  <2>1. Extends(ledger', ledger) /\ now' = now /\ DataOK'
    BY <1>0, <1>1 DEF BuildLoad
  <2>2. /\ pc[n] = "load"
        /\ \/ Goto(n, "reload", call[n])
           \/ Goto(n, "reload review", call[n])
           \/ Finish(n)
    BY <1>1 DEF BuildLoad, At
  <2>3. CallOK("reload", call[n], ledger, now) /\ CallOK("reload review", call[n], ledger, now)
    BY <1>0, <2>2 DEF CallOK
  <2>4. QED
    BY <2>1, <2>2, <2>3, Continues, Finishes DEF Steps
<1>2. CASE BuildReload(n)
  <2>1. Extends(ledger', ledger) /\ now' = now /\ DataOK'
    BY <1>0, <1>2 DEF BuildReload
  <2>2. /\ pc[n] \in {"reload", "reload review"}
        /\ \/ Goto(n, "open", call[n])
           \/ Goto(n, "repair", call[n])
           \/ Goto(n, "run", call[n])
    BY <1>2 DEF BuildReload
  <2>3. \A step \in {"open", "repair", "run"} : CallOK(step, call[n], ledger, now)
    BY <1>0, <2>2 DEF CallOK
  <2>4. QED
    BY <2>1, <2>2, <2>3, Continues DEF Steps
<1>3. CASE BuildOpen(n)
  <2>1. Extends(ledger', ledger) /\ now' = now /\ DataOK'
    BY <1>0, <1>3, EntryTypes DEF BuildOpen, Log
  <2>2. Finish(n)
    BY <1>3 DEF BuildOpen
  <2>3. QED
    BY <2>1, <2>2, Finishes
<1>4. CASE BuildRepair(n)
  <2>1. Extends(ledger', ledger) /\ now' = now /\ DataOK'
    BY <1>0, <1>4, EntryTypes DEF BuildRepair, Log
  <2>2. pc[n] = "repair" /\ Goto(n, "run", call[n])
    BY <1>4 DEF BuildRepair, At
  <2>3. CallOK("run", call[n], ledger, now)
    BY <1>0, <2>2 DEF CallOK
  <2>4. QED
    BY <2>1, <2>2, <2>3, Continues DEF Steps
<1>5. CASE BuildRun(n)
  <2>1. Extends(ledger', ledger) /\ now' = now /\ DataOK'
    BY <1>0, <1>5, EntryTypes DEF BuildRun, Log
  <2>2. pc[n] = "run" /\ Goto(n, "criterion", call[n])
    BY <1>5 DEF BuildRun, At
  <2>3. CallOK("criterion", call[n], ledger, now)
    BY <1>0, <2>2 DEF CallOK
  <2>4. QED
    BY <2>1, <2>2, <2>3, Continues DEF Steps
<1>6. CASE BuildCriterion(n)
  <2>1. pc[n] = "criterion" /\ call[n].contract \in Contracts
    BY <1>0, <1>6 DEF BuildCriterion, At, CallOK
  <2>2. PICK result \in {"pass", "fail"} :
          /\ Log(<<Criterion(result, call[n].contract)>>)
          /\ Goto(n, "verdict", [call[n] EXCEPT !.verdict = result])
    BY <1>6 DEF BuildCriterion
  <2>3. Extends(ledger', ledger) /\ now' = now /\ DataOK'
    BY <1>0, <1>6, <2>1, <2>2, EntryTypes DEF BuildCriterion, Log
  <2>4. /\ pc' = [pc EXCEPT ![n] = "verdict"]
        /\ call' = [call EXCEPT ![n] = call'[n]]
        /\ call'[n] = [call[n] EXCEPT !.verdict = result]
    BY <2>2 DEF Goto, TypeInv
  <2>5. CallOK("verdict", call'[n], ledger, now)
    BY <1>0, <2>1, <2>4 DEF CallOK, Call
  <2>6. QED
    BY <2>3, <2>4, <2>5, ContinuesWith DEF Steps
<1>7. CASE BuildVerdict(n)
  <2>1. Extends(ledger', ledger) /\ now' = now /\ DataOK'
    BY <1>0, <1>7, EntryTypes DEF BuildVerdict, Log
  <2>2. Finish(n)
    BY <1>7 DEF BuildVerdict
  <2>3. QED
    BY <2>1, <2>2, Finishes
<1>8. QED
  BY <1>1, <1>2, <1>3, <1>4, <1>5, <1>6, <1>7

\* What a process has loaded is a ledger.
LEMMA LoadedIs ==
  ASSUME TypeInv, NEW n \in Commands
  PROVE  Loaded(n) \in Seq(Entry)
<1>1. ledger \in Seq(Entry) /\ call[n].seen \in 0..Len(ledger)
  BY TypeFacts DEF CallOK
<1>2. QED
  BY <1>1 DEF Loaded

\* The stage entry, or none, is evidence.
LEMMA StageTypes == ASSUME TypeInv PROVE Extends(ledger \o StageEntries, ledger)
<1>1. Stage \in Entry /\ ledger \in Seq(Entry)
  BY EntryTypes DEF TypeInv
<1>2. StageEntries \in Seq(Entry)
  BY <1>1 DEF StageEntries
<1>3. QED
  BY <1>1, <1>2, LogExtends

\* Closing an attempt appends an entry of an attempt.
LEMMA ClosingTypes ==
  ASSUME NEW es \in Seq(Entry), NEW a \in 1..Len(es), es[a].type = "review_attempt",
         NEW s \in {"accepted", "failed", "abandoned"}
  PROVE  CloseAttempt(es[a], s) \in Entry
<1>1. es[a] \in Entry
  OBVIOUS
<1>2. QED
  BY <1>1, TypedEntries

\* Recording a dossier appends the accepted attempt and its review.
LEMMA RecordTypes ==
  ASSUME TypeInv, NEW n \in Commands, NEW material \in Materials, pc[n] = "record",
         RecordDossier(n, material)
  PROVE  Extends(ledger', ledger)
<1> DEFINE attempt == ledger[call[n].attempt]
           review == Review(call[n].verdict, "provider", call[n].contract, material, attempt.out)
<1>1. /\ ledger \in Seq(Entry)
      /\ call[n].attempt \in 1..Len(ledger) /\ attempt.type = "review_attempt"
      /\ call[n].verdict \in {"pass", "fail"} /\ call[n].contract \in Contracts
  BY TypeFacts DEF CallOK
<1>2. attempt \in AttemptEntry
  BY <1>1, TypedEntries
<1>3. attempt.out \in Materials
  BY <1>2 DEF AttemptEntry
<1>4. CloseAttempt(attempt, "accepted") \in Entry
  BY <1>1, ClosingTypes
<1>5. review \in Entry
  BY <1>1, <1>3, EntryTypes
<1>6. <<CloseAttempt(attempt, "accepted"), review>> \in Seq(Entry)
  BY <1>4, <1>5
<1>7. ledger' = ledger \o <<CloseAttempt(attempt, "accepted"), review>>
  BY DEF RecordDossier, Log
<1>8. QED
  BY <1>1, <1>6, <1>7, LogExtends

\* review keeps the types.
LEMMA ReviewTypes ==
  ASSUME TypeInv, NEW n \in Commands,
         \/ ReviewLoad(n) \/ ReviewPreflight(n) \/ ReviewPrepare(n) \/ ReviewSeal(n)
         \/ ReviewStart(n) \/ ProviderAnswers(n) \/ ReviewFails(n) \/ ReviewRecord(n)
  PROVE  TypeInv'
<1>0. /\ CallOK(pc[n], call[n], ledger, now)
      /\ Extends(ledger, ledger) /\ \A e \in Entry : Extends(ledger \o <<e>>, ledger)
      /\ UNCHANGED <<spec, work, files, spent>> => DataOK'
  BY TypeFacts
<1>1. CASE ReviewLoad(n)
  <2>1. /\ pc[n] = "load" /\ ledger' = ledger /\ now' = now /\ DataOK'
        /\ now \in Nat /\ Len(ledger) \in 0..Len(ledger) /\ now \in 0..MaxTime
    BY <1>0, <1>1, TypeFacts DEF ReviewLoad, At
  <2>2. CASE Finish(n)
    BY <1>0, <2>1, <2>2, Finishes
  <2>3. CASE Goto(n, "preflight", [call[n] EXCEPT !.seen = Len(ledger), !.now = now])
    <3>1. /\ pc' = [pc EXCEPT ![n] = "preflight"]
          /\ call' = [call EXCEPT ![n] = call'[n]]
          /\ call'[n] = [call[n] EXCEPT !.seen = Len(ledger), !.now = now]
      BY <2>3 DEF Goto, TypeInv
    <3>2. call'[n] \in Call
      <4>1. Len(ledger) \in Nat /\ call[n] \in Call
        BY <1>0, TypeFacts DEF CallOK
      <4>2. QED
        BY <2>1, <3>1, <4>1 DEF Call
    <3>3. /\ call'[n].seen = Len(ledger) /\ call'[n].now = now
          /\ call'[n].attempt = call[n].attempt /\ call'[n].review = call[n].review
          /\ call'[n].contract = call[n].contract
      BY <1>0, <3>1 DEF CallOK, Call
    <3>4. CallOK("preflight", call'[n], ledger, now)
      BY <1>0, <2>1, <3>2, <3>3 DEF CallOK
    <3>5. QED
      BY <1>0, <2>1, <3>1, <3>4, ContinuesWith DEF Steps
  <2>4. QED
    BY <1>1, <2>2, <2>3 DEF ReviewLoad
<1>2. CASE ReviewPreflight(n)
  <2> DEFINE es == Loaded(n)
             kind == Project(es, "review", call[n].contract, NoMaterial, call[n].now)
             closed == CloseAttempt(es[LatestAttempt(es)], "abandoned")
  <2>1. pc[n] = "preflight" /\ now' = now /\ DataOK' /\ es \in Seq(Entry)
    BY <1>0, <1>2, LoadedIs DEF ReviewPreflight, At
  <2>2. CASE ledger' = ledger /\ Finish(n)
    BY <1>0, <2>1, <2>2, Finishes
  <2>3. CASE ledger' = ledger /\ Goto(n, "prepare", call[n])
    <3>1. CallOK("prepare", call[n], ledger, now)
      BY <1>0, <2>1 DEF CallOK
    <3>2. QED
      BY <1>0, <2>1, <2>3, <3>1, Continues DEF Steps
  <2>4. CASE /\ kind = "attempt_stale" /\ Log(<<closed>>)
             /\ Goto(n, "prepare", [call[n] EXCEPT !.seen = Len(ledger')])
    <3>1. LatestAttempt(es) # 0
      BY <2>1, <2>4, ProjectedAttempt
    <3>2. LatestAttempt(es) \in 1..Len(es) /\ es[LatestAttempt(es)].type = "review_attempt"
      BY <2>1, <3>1, LatestAttemptIs
    <3>3. closed \in Entry
      BY <2>1, <3>2, ClosingTypes
    <3>4. Extends(ledger', ledger)
      BY <1>0, <2>4, <3>3 DEF Log
    <3>5. OnlyMoves(n) /\ pc'[n] = "prepare" /\ call'[n] = [call[n] EXCEPT !.seen = Len(ledger')]
      BY <2>4 DEF Goto, OnlyMoves, TypeInv
    <3>6. CallOK("prepare", call[n], ledger', now)
      <4>1. CallOK("prepare", call[n], ledger, now) /\ ledger \in Seq(Entry) /\ now \in Nat
        BY <1>0, <2>1, TypeFacts DEF CallOK
      <4>2. QED
        BY <3>4, <4>1, CallOKGrows
    <3>7. Len(ledger') \in Nat
      BY <3>4 DEF Extends
    <3>8. CallOK("prepare", call'[n], ledger', now)
      BY <3>5, <3>6, <3>7 DEF CallOK, Call
    <3>9. QED
      BY <2>1, <3>4, <3>5, <3>8, Moves DEF Steps
  <2>5. QED
    BY <1>2, <2>2, <2>3, <2>4 DEF ReviewPreflight
<1>3. CASE ReviewPrepare(n)
  <2>1. pc[n] = "prepare" /\ now' = now /\ DataOK' /\ work \in Materials
    BY <1>0, <1>3 DEF ReviewPrepare, At, TypeInv, DataOK
  <2>2. CASE ledger' = ledger /\ Finish(n)
    BY <1>0, <2>1, <2>2, Finishes
  <2>3. CASE Log(StageEntries) /\ Goto(n, "seal", [call[n] EXCEPT !.packet = work])
    <3>1. /\ pc' = [pc EXCEPT ![n] = "seal"]
          /\ call' = [call EXCEPT ![n] = call'[n]]
          /\ call'[n] = [call[n] EXCEPT !.packet = work]
      BY <2>3 DEF Goto, TypeInv
    <3>2. CallOK("seal", call'[n], ledger, now)
      BY <1>0, <2>1, <3>1 DEF CallOK, Call
    <3>3. Extends(ledger', ledger)
      BY <2>3, StageTypes DEF Log
    <3>4. QED
      BY <2>1, <3>1, <3>2, <3>3, ContinuesWith DEF Steps
  <2>4. QED
    BY <1>3, <2>2, <2>3 DEF ReviewPrepare
<1>4. CASE ReviewSeal(n)
  <2>1. pc[n] = "seal" /\ now' = now /\ DataOK' /\ work \in Materials
    BY <1>0, <1>4 DEF ReviewSeal, At, TypeInv, DataOK
  <2>2. CASE ledger' = ledger /\ Finish(n)
    BY <1>0, <2>1, <2>2, Finishes
  <2>3. CASE Log(StageEntries) /\ Goto(n, "start", [call[n] EXCEPT !.material = work])
    <3>1. /\ pc' = [pc EXCEPT ![n] = "start"]
          /\ call' = [call EXCEPT ![n] = call'[n]]
          /\ call'[n] = [call[n] EXCEPT !.material = work]
      BY <2>3 DEF Goto, TypeInv
    <3>2. CallOK("start", call'[n], ledger, now)
      BY <1>0, <2>1, <3>1 DEF CallOK, Call
    <3>3. Extends(ledger', ledger)
      BY <2>3, StageTypes DEF Log
    <3>4. QED
      BY <2>1, <3>1, <3>2, <3>3, ContinuesWith DEF Steps
  <2>4. QED
    BY <1>4, <2>2, <2>3 DEF ReviewSeal
<1>5. CASE ReviewStart(n)
  <2> DEFINE attempt == RunningAttempt(call[n].now + Lease, call[n].contract,
                                       call[n].material, call[n].packet)
             abandons == IF StartGate(n) = "attempt_stale"
                         THEN <<CloseAttempt(ledger[LatestAttempt(ledger)], "abandoned")>>
                         ELSE << >>
  <2>1. pc[n] = "start" /\ now' = now /\ DataOK' /\ ledger \in Seq(Entry) /\ now \in Nat
    BY <1>0, <1>5, TypeFacts DEF ReviewStart, At
  <2>2. CASE ledger' = ledger /\ Finish(n)
    BY <1>0, <2>1, <2>2, Finishes
  <2>3. CASE /\ Log(abandons \o <<attempt>>)
             /\ Goto(n, "provider", [call[n] EXCEPT !.attempt = Len(ledger')])
    <3>1. /\ call[n].contract \in Contracts /\ call[n].material \in Materials
          /\ call[n].packet \in Materials /\ call[n].now + Lease \in 0..MaxTime
      <4>1. call[n] \in Call /\ call[n].contract \in Contracts /\ call[n].now + Lease <= MaxTime
        BY <1>0, <2>1 DEF CallOK
      <4>2. /\ call[n].material \in Materials /\ call[n].packet \in Materials
            /\ call[n].now \in 0..MaxTime
        BY <4>1 DEF Call
      <4>3. call[n].now + Lease \in 0..MaxTime
        BY <4>1, <4>2, BoundsAreNumbers
      <4>4. QED
        BY <4>1, <4>2, <4>3
    <3>2. attempt \in Entry /\ attempt.type = "review_attempt"
      BY <3>1, EntryTypes DEF RunningAttempt
    <3>3. abandons \in Seq(Entry)
      <4>1. CASE StartGate(n) = "attempt_stale"
        <5>1. LatestAttempt(ledger) # 0
          BY <2>1, <4>1, ProjectedAttempt DEF StartGate
        <5>2. /\ LatestAttempt(ledger) \in 1..Len(ledger)
              /\ ledger[LatestAttempt(ledger)].type = "review_attempt"
          BY <2>1, <5>1, LatestAttemptIs
        <5>3. CloseAttempt(ledger[LatestAttempt(ledger)], "abandoned") \in Entry
          BY <2>1, <5>2, ClosingTypes
        <5>4. QED
          BY <4>1, <5>3
      <4>2. QED
        BY <4>1
    <3>4. Extends(ledger', ledger) /\ Len(ledger') \in 1..Len(ledger') /\ ledger'[Len(ledger')] = attempt
      <4> HIDE DEF attempt, abandons
      <4>1. ledger' = ledger \o (abandons \o <<attempt>>) /\ abandons \o <<attempt>> \in Seq(Entry)
        BY <2>3, <3>2, <3>3 DEF Log
      <4>2. Extends(ledger', ledger)
        BY <2>1, <4>1, LogExtends
      <4>3. ledger' = Append(ledger \o abandons, attempt) /\ ledger \o abandons \in Seq(Entry)
        BY <2>1, <3>2, <3>3, <4>1
      <4>4. QED
        BY <3>2, <4>2, <4>3
    <3>5. OnlyMoves(n) /\ pc'[n] = "provider" /\ call'[n] = [call[n] EXCEPT !.attempt = Len(ledger')]
      BY <2>3 DEF Goto, OnlyMoves, TypeInv
    <3>6. CallOK("seal", call[n], ledger', now)
      <4>1. CallOK("seal", call[n], ledger, now)
        BY <1>0, <2>1 DEF CallOK
      <4>2. QED
        BY <2>1, <3>4, <4>1, CallOKGrows
    <3>7. CallOK("provider", call'[n], ledger', now)
      <4> HIDE DEF attempt
      <4>1. call[n] \in Call /\ Len(ledger') \in Nat
        BY <3>4, <3>6 DEF CallOK
      <4>2. call'[n] \in Call
        BY <3>5, <4>1 DEF Call
      <4>3. /\ call'[n].attempt = Len(ledger') /\ call'[n].seen = call[n].seen
            /\ call'[n].review = call[n].review /\ call'[n].now = call[n].now
            /\ call'[n].contract = call[n].contract
        BY <3>5, <4>1 DEF Call
      <4>4. QED
        BY <3>2, <3>4, <3>6, <4>2, <4>3 DEF CallOK
    <3>8. QED
      BY <2>1, <3>4, <3>5, <3>7, Moves DEF Steps
  <2>4. QED
    BY <1>5, <2>2, <2>3 DEF ReviewStart
<1>6. CASE ProviderAnswers(n)
  <2>1. pc[n] = "provider" /\ now' = now /\ DataOK' /\ Answers(n) \subseteq {"pass", "fail"}
    BY <1>0, <1>6 DEF ProviderAnswers, At, Answers
  <2>2. PICK verdict \in {"pass", "fail"} : Goto(n, "record", [call[n] EXCEPT !.verdict = verdict])
    BY <1>6, <2>1 DEF ProviderAnswers
  <2>3. Extends(ledger', ledger)
    BY <1>6, StageTypes DEF ProviderAnswers, Log
  <2>4. /\ pc' = [pc EXCEPT ![n] = "record"]
        /\ call' = [call EXCEPT ![n] = call'[n]]
        /\ call'[n] = [call[n] EXCEPT !.verdict = verdict]
    BY <2>2 DEF Goto, TypeInv
  <2>5. CallOK("record", call'[n], ledger, now)
    BY <1>0, <2>1, <2>4 DEF CallOK, Call
  <2>6. QED
    BY <2>1, <2>3, <2>4, <2>5, ContinuesWith DEF Steps
<1>7. CASE ReviewFails(n)
  <2>1. pc[n] \in {"provider", "record"} /\ now' = now /\ DataOK' /\ Finish(n)
    BY <1>0, <1>7 DEF ReviewFails
  <2>2. CloseAttempt(ledger[call[n].attempt], "failed") \in Entry
    BY <1>0, <2>1, ClosingTypes DEF CallOK, TypeInv
  <2>3. Extends(ledger', ledger)
    BY <1>0, <1>7, <2>2 DEF ReviewFails, Log
  <2>4. QED
    BY <2>1, <2>3, Finishes
<1>8. CASE ReviewRecord(n)
  <2>1. pc[n] = "record" /\ now' = now /\ DataOK' /\ Finish(n) /\ work \in Materials
    BY <1>0, <1>8 DEF ReviewRecord, At, TypeInv, DataOK, CallOK, Call
  <2>2. Extends(ledger', ledger)
    BY <1>8, <2>1, RecordTypes DEF ReviewRecord
  <2>3. QED
    BY <2>1, <2>2, Finishes
<1>9. QED
  BY <1>1, <1>2, <1>3, <1>4, <1>5, <1>6, <1>7, <1>8

\* The repair of a packet and the human override keep the types.
LEMMA OtherReviewTypes ==
  ASSUME TypeInv, NEW n \in Commands,
         \/ RepairPacketLoad(n) \/ RepairPacketRecord(n) \/ HumanLoad(n)
         \/ HumanOverride(n) \/ HumanSign(n)
  PROVE  TypeInv'
<1>0. /\ CallOK(pc[n], call[n], ledger, now)
      /\ Extends(ledger, ledger) /\ \A e \in Entry : Extends(ledger \o <<e>>, ledger)
      /\ UNCHANGED <<spec, work, files, spent>> => DataOK'
  BY TypeFacts
<1>1. CASE RepairPacketLoad(n)
  <2> DEFINE last == LatestAttempt(ledger)
  <2>1. /\ pc[n] = "load" /\ ledger' = ledger /\ now' = now /\ DataOK' /\ work \in Materials
        /\ ledger \in Seq(Entry)
    BY <1>0, <1>1 DEF RepairPacketLoad, At, TypeInv, DataOK
  <2>2. CASE Finish(n)
    BY <1>0, <2>1, <2>2, Finishes
  <2>3. ASSUME Project(ledger, "review", call[n].contract, NoMaterial, now) = "attempt_failed",
               NEW verdict \in {"pass", "fail"},
               Goto(n, "record", [call[n] EXCEPT !.attempt = last, !.material = work,
                                                 !.verdict = verdict])
        PROVE  TypeInv'
    <3>1. last \in 1..Len(ledger) /\ ledger[last].type = "review_attempt"
      BY <2>1, <2>3, ProjectedAttempt, LatestAttemptIs
    <3>2. /\ pc' = [pc EXCEPT ![n] = "record"]
          /\ call' = [call EXCEPT ![n] = call'[n]]
          /\ call'[n] = [call[n] EXCEPT !.attempt = last, !.material = work, !.verdict = verdict]
      BY <2>3 DEF Goto, TypeInv
    <3>3. CallOK("record", call'[n], ledger, now)
      <4> HIDE DEF last
      <4>1. call'[n] \in Call
        <5>1. last \in Nat /\ call[n] \in Call
          BY <1>0, <2>1, <3>1 DEF CallOK
        <5>2. work \in Materials /\ verdict \in {"none", "pass", "fail"}
          BY <2>1, <2>3 DEF DataOK, TypeInv
        <5> HIDE DEF Materials
        <5>3. QED
          BY <3>2, <5>1, <5>2 DEF Call
      <4>2. /\ call'[n].attempt = last /\ call'[n].verdict = verdict
            /\ call'[n].seen = call[n].seen /\ call'[n].review = call[n].review
            /\ call'[n].now = call[n].now /\ call'[n].contract = call[n].contract
        BY <1>0, <3>2 DEF CallOK, Call
      <4>3. QED
        BY <1>0, <2>1, <3>1, <4>1, <4>2 DEF CallOK
    <3>4. QED
      BY <1>0, <2>1, <3>2, <3>3, ContinuesWith DEF Steps
  <2>4. QED
    BY <1>1, <2>2, <2>3 DEF RepairPacketLoad
<1>2. CASE RepairPacketRecord(n)
  <2>1. pc[n] = "record" /\ now' = now /\ DataOK' /\ Finish(n) /\ call[n].material \in Materials
    BY <1>0, <1>2 DEF RepairPacketRecord, At, TypeInv, DataOK, CallOK, Call
  <2>2. Extends(ledger', ledger)
    BY <1>2, <2>1, RecordTypes DEF RepairPacketRecord
  <2>3. QED
    BY <2>1, <2>2, Finishes
<1>3. CASE HumanLoad(n)
  <2>1. Extends(ledger', ledger) /\ now' = now /\ DataOK'
    BY <1>0, <1>3 DEF HumanLoad
  <2>2. pc[n] = "load" /\ (Goto(n, "override", call[n]) \/ Finish(n))
    BY <1>3 DEF HumanLoad, At
  <2>3. CallOK("override", call[n], ledger, now)
    BY <1>0, <2>2 DEF CallOK
  <2>4. QED
    BY <2>1, <2>2, <2>3, Continues, Finishes DEF Steps
<1>4. CASE HumanOverride(n)
  <2>1. Extends(ledger', ledger) /\ now' = now /\ DataOK'
    BY <1>0, <1>4, EntryTypes DEF HumanOverride, Log
  <2>2. pc[n] = "override" /\ Goto(n, "sign", call[n])
    BY <1>4 DEF HumanOverride, At
  <2>3. CallOK("sign", call[n], ledger, now)
    BY <1>0, <2>2 DEF CallOK
  <2>4. QED
    BY <2>1, <2>2, <2>3, Continues DEF Steps
<1>5. CASE HumanSign(n)
  <2>1. Extends(ledger', ledger) /\ now' = now /\ DataOK'
    BY <1>0, <1>5, EntryTypes DEF HumanSign, Log
  <2>2. Finish(n)
    BY <1>5 DEF HumanSign
  <2>3. QED
    BY <2>1, <2>2, Finishes
<1>6. QED
  BY <1>1, <1>2, <1>3, <1>4, <1>5

\* The head the newest receipt left is a chain of receipts.
LEMMA LedgerHeadType ==
  ASSUME NEW es \in Seq(Entry)
  PROVE  LedgerHead(es) \in Seq(Commands)
<1> DEFINE r == LastOf(es, {"receipt"})
<1>1. r \in 0..Len(es) /\ (r # 0 => es[r].type \in {"receipt"})
  BY LastOfIs
<1>2. CASE r = 0
  BY <1>2 DEF LedgerHead
<1>3. CASE r # 0
  <2>1. es[r] \in Entry /\ es[r].type = "receipt"
    BY <1>1, <1>3
  <2>2. es[r] \in ReceiptEntry
    BY <2>1, TypedEntries
  <2>3. QED
    BY <1>3, <2>2 DEF LedgerHead, ReceiptEntry
<1>4. QED
  BY <1>2, <1>3

\* A receipt is minted with the types of one.
LEMMA ReceiptType ==
  ASSUME NEW n \in Commands, NEW head \in Seq(Commands), NEW review \in Nat,
         NEW contract \in Contracts, NEW material \in Materials
  PROVE  Receipt(n, head, review, contract, material) \in ReceiptEntry
<1>1. Append(head, n) \in Seq(Commands)
  OBVIOUS
<1>2. QED
  BY <1>1 DEF Receipt, ReceiptEntry

\* The anchor transaction appends entries.
LEMMA AnchorTypes ==
  ASSUME TypeInv, NEW n \in Commands, pc[n] = "anchor"
  PROVE  AnchorEntries(n) \in Seq(Entry)
<1>1. call[n].receipt \in ReceiptEntry /\ call[n].contract \in Contracts
  BY TypeFacts DEF CallOK
<1>2. call[n].receipt \in Entry /\ Criterion("pass", call[n].contract) \in Entry
      /\ Completion("finalize") \in Entry
  BY <1>1, EntryTypes DEF Entry
<1>3. /\ <<Criterion("pass", call[n].contract), call[n].receipt>> \in Seq(Entry)
      /\ <<Completion("finalize")>> \in Seq(Entry) /\ << >> \in Seq(Entry)
  BY <1>2
<1> DEFINE evidence == IF \E i \in Receipts(ledger) : ledger[i].digest = call[n].receipt.digest
                       THEN << >> ELSE <<Criterion("pass", call[n].contract), call[n].receipt>>
           completion == IF LastOf(ledger, {"complete"}) # 0 THEN << >>
                         ELSE <<Completion("finalize")>>
<1>4. evidence \in Seq(Entry) /\ completion \in Seq(Entry)
  BY <1>3
<1>5. AnchorEntries(n) = evidence \o completion
  BY DEF AnchorEntries
<1>6. QED
  <2> HIDE DEF evidence, completion
  <2> QED
    BY <1>4, <1>5

\* finalize keeps the types.
LEMMA FinalizeTypes ==
  ASSUME TypeInv, NEW n \in Commands,
         \/ FinalizeLoad(n) \/ FinalizeSnapshot(n) \/ FinalizeAccept(n)
         \/ FinalizeEvidence(n) \/ FinalizeAnchor(n) \/ FinalizeTaskFile(n)
         \/ FinalizeLatestFile(n) \/ FinalizeArchive(n)
  PROVE  TypeInv'
<1>0. /\ CallOK(pc[n], call[n], ledger, now)
      /\ Extends(ledger, ledger) /\ \A e \in Entry : Extends(ledger \o <<e>>, ledger)
      /\ UNCHANGED <<spec, work, files, spent>> => DataOK'
  BY TypeFacts
<1>1. CASE FinalizeLoad(n)
  <2> DEFINE terminal == TerminalAuthority(ledger)
             current == CurrentReviewGate(ledger)
             authority == IF HasReceipt(ledger, terminal) THEN terminal ELSE current
             loaded == [call[n] EXCEPT !.seen = Len(ledger)]
  <2>1. /\ pc[n] = "load" /\ ledger' = ledger /\ now' = now /\ DataOK'
        /\ ledger \in Seq(Entry) /\ Len(ledger) \in Nat /\ call[n] \in Call
    BY <1>0, <1>1, TypeFacts DEF FinalizeLoad, At, CallOK
  <2>2. loaded \in Call /\ CallOK("load", loaded, ledger, now)
    BY <1>0, <2>1 DEF CallOK, Call
  <2>3. CASE Finish(n)
    BY <1>0, <2>1, <2>3, Finishes
  <2>4. CASE /\ HasReceipt(ledger, authority)
             /\ Goto(n, "anchor", [loaded EXCEPT !.receipt = ledger[authority.at]])
    <3>1. ledger[authority.at] \in ReceiptEntry
      <4>1. authority.at \in 1..Len(ledger) /\ ledger[authority.at].type = "receipt"
        BY <2>1, <2>4, AuthoritiesPointIntoLedger
      <4> HIDE DEF authority
      <4>2. ledger[authority.at] \in Entry
        BY <2>1, <4>1
      <4>3. QED
        BY <4>1, <4>2, TypedEntries
    <3> HIDE DEF authority, loaded
    <3>2. /\ pc' = [pc EXCEPT ![n] = "anchor"]
          /\ call' = [call EXCEPT ![n] = call'[n]]
          /\ call'[n] = [loaded EXCEPT !.receipt = ledger[authority.at]]
      BY <2>4 DEF Goto, TypeInv
    <3>3. CallOK("anchor", call'[n], ledger, now)
      BY <2>1, <2>2, <3>1, <3>2 DEF CallOK, Call
    <3>4. QED
      BY <1>0, <2>1, <3>2, <3>3, ContinuesWith DEF Steps
  <2>5. CASE Goto(n, "snapshot", [loaded EXCEPT !.review = current.at])
    <3>1. current.at \in 0..Len(ledger)
      BY <2>1, AuthoritiesPointIntoLedger
    <3> HIDE DEF current, loaded
    <3>2. /\ pc' = [pc EXCEPT ![n] = "snapshot"]
          /\ call' = [call EXCEPT ![n] = call'[n]]
          /\ call'[n] = [loaded EXCEPT !.review = current.at]
      BY <2>5 DEF Goto, TypeInv
    <3>3. call'[n] \in Call
      <4>1. Len(ledger) \in Nat
        BY <2>1
      <4>2. current.at \in Nat
        BY <3>1, <4>1
      <4>3. loaded \in Call
        BY <2>2 DEF CallOK
      <4>4. QED
        BY <3>2, <4>2, <4>3 DEF Call
    <3>4. /\ call'[n].review = current.at /\ call'[n].seen = loaded.seen
          /\ call'[n].attempt = loaded.attempt /\ call'[n].now = loaded.now
          /\ call'[n].contract = loaded.contract
      BY <2>2, <3>2 DEF Call
    <3>5. CallOK("snapshot", call'[n], ledger, now)
      BY <2>2, <3>1, <3>3, <3>4 DEF CallOK
    <3>6. QED
      BY <1>0, <2>1, <3>2, <3>5, ContinuesWith DEF Steps
  <2>6. QED
    BY <1>1, <2>3, <2>4, <2>5 DEF FinalizeLoad
<1>2. CASE FinalizeSnapshot(n)
  <2>1. /\ pc[n] = "snapshot" /\ ledger' = ledger /\ now' = now /\ DataOK' /\ work \in Materials
        /\ Goto(n, "accept", [call[n] EXCEPT !.material = work])
    BY <1>0, <1>2 DEF FinalizeSnapshot, At, TypeInv, DataOK
  <2>2. /\ pc' = [pc EXCEPT ![n] = "accept"]
        /\ call' = [call EXCEPT ![n] = call'[n]]
        /\ call'[n] = [call[n] EXCEPT !.material = work]
    BY <2>1 DEF Goto, TypeInv
  <2>3. CallOK("accept", call'[n], ledger, now)
    BY <1>0, <2>1, <2>2 DEF CallOK, Call
  <2>4. QED
    BY <1>0, <2>1, <2>2, <2>3, ContinuesWith DEF Steps
<1>3. CASE FinalizeAccept(n)
  <2> DEFINE receipt == Receipt(n, LedgerHead(Loaded(n)), call[n].review,
                                call[n].contract, call[n].material)
  <2>1. /\ pc[n] = "accept" /\ ledger' = ledger /\ now' = now /\ DataOK'
        /\ call[n] \in Call /\ call[n].contract \in Contracts
    BY <1>0, <1>3 DEF FinalizeAccept, At, CallOK
  <2>2. CASE Goto(n, "anchor", [call[n] EXCEPT !.verdict = "pass", !.receipt = receipt])
    <3>1. LedgerHead(Loaded(n)) \in Seq(Commands)
      BY LoadedIs, LedgerHeadType
    <3>2. receipt \in ReceiptEntry
      BY <2>1, <3>1, ReceiptType DEF Call
    <3> HIDE DEF receipt
    <3>3. /\ pc' = [pc EXCEPT ![n] = "anchor"]
          /\ call' = [call EXCEPT ![n] = call'[n]]
          /\ call'[n] = [call[n] EXCEPT !.verdict = "pass", !.receipt = receipt]
      BY <2>2 DEF Goto, TypeInv
    <3>4. call'[n] \in Call
      BY <2>1, <3>2, <3>3 DEF Call
    <3>5. CallOK("anchor", call'[n], ledger, now)
      BY <1>0, <2>1, <3>2, <3>3, <3>4 DEF CallOK, Call
    <3>6. QED
      BY <1>0, <2>1, <3>3, <3>5, ContinuesWith DEF Steps
  <2>3. ASSUME NEW result \in {"pass", "fail"},
               Goto(n, "evidence", [call[n] EXCEPT !.verdict = result])
        PROVE  TypeInv'
    <3>1. /\ pc' = [pc EXCEPT ![n] = "evidence"]
          /\ call' = [call EXCEPT ![n] = call'[n]]
          /\ call'[n] = [call[n] EXCEPT !.verdict = result]
      BY <2>3 DEF Goto, TypeInv
    <3>2. CallOK("evidence", call'[n], ledger, now)
      BY <1>0, <2>1, <3>1 DEF CallOK, Call
    <3>3. QED
      BY <1>0, <2>1, <3>1, <3>2, ContinuesWith DEF Steps
  <2>4. QED
    BY <1>3, <2>2, <2>3 DEF FinalizeAccept
<1>4. CASE FinalizeEvidence(n)
  <2>1. /\ pc[n] = "evidence" /\ now' = now /\ DataOK' /\ Finish(n)
        /\ ledger' = ledger \o <<Criterion(call[n].verdict, call[n].contract)>>
    BY <1>0, <1>4 DEF FinalizeEvidence, At, Log
  <2>2. Criterion(call[n].verdict, call[n].contract) \in Entry
    BY <1>0, <2>1, EntryTypes DEF CallOK
  <2>3. QED
    BY <1>0, <2>1, <2>2, Finishes
<1>5. CASE FinalizeAnchor(n)
  <2>1. pc[n] = "anchor" /\ now' = now /\ DataOK' /\ ledger \in Seq(Entry)
    BY <1>0, <1>5, TypeFacts DEF FinalizeAnchor, At
  <2>2. CASE ledger' = ledger /\ Finish(n)
    BY <1>0, <2>1, <2>2, Finishes
  <2>3. CASE ledger' = ledger \o AnchorEntries(n) /\ Goto(n, "task file", call[n])
    <3>1. Extends(ledger', ledger)
      BY <2>1, <2>3, AnchorTypes, LogExtends
    <3>2. CallOK("task file", call[n], ledger, now)
      BY <1>0, <2>1 DEF CallOK
    <3>3. QED
      BY <2>1, <2>3, <3>1, <3>2, Continues DEF Steps
  <2>4. QED
    BY <1>5, <2>2, <2>3 DEF FinalizeAnchor, Log
<1>6. CASE FinalizeTaskFile(n)
  <2>1. /\ pc[n] = "task file" /\ ledger' = ledger /\ now' = now
        /\ Goto(n, "latest file", call[n])
    BY <1>6 DEF FinalizeTaskFile, At
  <2>2. CallOK("latest file", call[n], ledger, now) /\ call[n].receipt.digest \in Commands
    BY <1>0, <2>1 DEF CallOK, ReceiptEntry
  <2>3. DataOK'
    BY <1>6, <2>2 DEF FinalizeTaskFile, TypeInv, DataOK
  <2>4. QED
    BY <1>0, <2>1, <2>2, <2>3, Continues DEF Steps
<1>7. CASE FinalizeLatestFile(n)
  <2>1. /\ pc[n] = "latest file" /\ ledger' = ledger /\ now' = now
        /\ Goto(n, "archive", call[n])
    BY <1>7 DEF FinalizeLatestFile, At
  <2>2. CallOK("archive", call[n], ledger, now) /\ call[n].receipt.digest \in Commands
    BY <1>0, <2>1 DEF CallOK, ReceiptEntry
  <2>3. DataOK'
    BY <1>7, <2>2 DEF FinalizeLatestFile, TypeInv, DataOK
  <2>4. QED
    BY <1>0, <2>1, <2>2, <2>3, Continues DEF Steps
<1>8. CASE FinalizeArchive(n)
  <2>1. ledger' = ledger /\ now' = now /\ Finish(n)
    BY <1>8 DEF FinalizeArchive
  <2>2. DataOK'
    BY <1>8 DEF FinalizeArchive, TypeInv, DataOK
  <2>3. QED
    BY <1>0, <2>1, <2>2, Finishes
<1>9. QED
  BY <1>1, <1>2, <1>3, <1>4, <1>5, <1>6, <1>7, <1>8

\* complete, cancel and fail keep the types.
LEMMA EndingTypes ==
  ASSUME TypeInv, NEW n \in Commands,
         LegacyLoad(n) \/ LegacyComplete(n) \/ Stop(n)
  PROVE  TypeInv'
<1>0. /\ CallOK(pc[n], call[n], ledger, now)
      /\ Extends(ledger, ledger) /\ \A e \in Entry : Extends(ledger \o <<e>>, ledger)
      /\ UNCHANGED <<spec, work, files, spent>> => DataOK'
  BY TypeFacts
<1>1. CASE LegacyLoad(n)
  <2>1. Extends(ledger', ledger) /\ now' = now /\ DataOK'
    BY <1>0, <1>1 DEF LegacyLoad
  <2>2. pc[n] = "load" /\ (Goto(n, "append", call[n]) \/ Finish(n))
    BY <1>1 DEF LegacyLoad, At
  <2>3. CallOK("append", call[n], ledger, now)
    BY <1>0, <2>2 DEF CallOK
  <2>4. QED
    BY <2>1, <2>2, <2>3, Continues, Finishes DEF Steps
<1>2. CASE LegacyComplete(n)
  <2>1. Extends(ledger', ledger) /\ now' = now /\ DataOK'
    BY <1>0, <1>2, EntryTypes DEF LegacyComplete, Log
  <2>2. Finish(n)
    BY <1>2 DEF LegacyComplete
  <2>3. QED
    BY <2>1, <2>2, Finishes
<1>3. CASE Stop(n)
  <2>1. Extends(ledger', ledger) /\ now' = now /\ DataOK' /\ Finish(n)
    BY <1>0, <1>3, EntryTypes DEF Stop, At, Log
  <2>2. QED
    BY <2>1, Finishes
<1>4. QED
  BY <1>1, <1>2, <1>3

\* The world around the commands keeps the types.
LEMMA WorldTypes == ASSUME TypeInv, EditSpec \/ EditWork \/ Tick PROVE TypeInv'
<1>1. /\ ledger \in Seq(Entry) /\ now \in 0..MaxTime
      /\ pc \in [Commands -> Steps] /\ call \in [Commands -> Call]
      /\ \A n \in Commands : CallOK(pc[n], call[n], ledger, now)
      /\ {Lease, MaxTime, MaxEdits} \subseteq Nat
  BY BoundsAreNumbers DEF TypeInv
<1>2. CASE EditSpec
  <2>1. DataOK'
    BY <1>1, <1>2 DEF EditSpec, TypeInv, DataOK, Materials
  <2>2. QED
    BY <1>1, <1>2, <2>1 DEF EditSpec, TypeInv
<1>3. CASE EditWork
  <2>1. DataOK'
    <3>1. /\ spent.edits \in 0..MaxEdits /\ spent.crashes \in 0..MaxCrashes
          /\ work \in Nat /\ work <= spent.edits
      BY DEF TypeInv, DataOK, Materials
    <3>2. work + 1 \in 0..MaxEdits /\ spent.edits + 1 \in 0..MaxEdits
          /\ work + 1 <= spent.edits + 1
      BY <1>1, <1>3, <3>1 DEF EditWork
    <3>3. spent' = [edits |-> spent.edits + 1, crashes |-> spent.crashes]
      BY <1>3 DEF EditWork, TypeInv, DataOK
    <3>4. work' \in Materials /\ work' <= spent'.edits
      BY <1>3, <3>2, <3>3 DEF EditWork, Materials
    <3>5. spent' \in [edits : 0..MaxEdits, crashes : 0..MaxCrashes]
      BY <3>1, <3>2, <3>3
    <3>6. QED
      BY <1>3, <3>4, <3>5 DEF EditWork, TypeInv, DataOK
  <2>2. QED
    BY <1>1, <1>3, <2>1 DEF EditWork, TypeInv
<1>4. CASE Tick
  <2>1. now' = now + 1 /\ now' \in 0..MaxTime
    BY <1>1, <1>4 DEF Tick
  <2>2. DataOK'
    BY <1>4 DEF Tick, TypeInv, DataOK
  <2>3. ASSUME NEW n \in Commands PROVE CallOK(pc[n], call[n], ledger, now + 1)
    <3>1. CallOK(pc[n], call[n], ledger, now)
      BY <1>1
    <3>2. call[n].now \in 0..MaxTime /\ call[n].now <= now
      BY <3>1 DEF CallOK, Call
    <3>3. pc[n] = "load" => now + 1 + Lease <= MaxTime
      BY <1>4 DEF Tick
    <3>4. call[n].now <= now + 1
      BY <1>1, <3>2
    <3>5. QED
      BY <3>1, <3>3, <3>4 DEF CallOK
  <2>4. UNCHANGED <<ledger, pc, call>>
    BY <1>4 DEF Tick
  <2>5. QED
    BY <1>1, <2>1, <2>2, <2>3, <2>4 DEF TypeInv
<1>5. QED
  BY <1>2, <1>3, <1>4

\* A process that starts or dies keeps the types.
LEMMA ProcessTypes ==
  ASSUME TypeInv, NEW n \in Commands, Begin(n) \/ Crash(n)
  PROVE  TypeInv'
<1>0. /\ CallOK(pc[n], call[n], ledger, now)
      /\ Extends(ledger, ledger) /\ \A e \in Entry : Extends(ledger \o <<e>>, ledger)
      /\ UNCHANGED <<spec, work, files, spent>> => DataOK'
  BY TypeFacts
<1>1. CASE Begin(n)
  <2>1. /\ pc[n] = "idle" /\ now + Lease <= MaxTime /\ ledger' = ledger /\ now' = now /\ DataOK'
        /\ ledger \in Seq(Entry) /\ now \in Nat
    BY <1>0, <1>1, TypeFacts DEF Begin
  <2>2. PICK kind \in Kinds :
          Goto(n, "load", [NoCall EXCEPT !.kind = kind, !.contract = spec.contract,
                                         !.status = spec.status])
    BY <1>1 DEF Begin
  <2>3. /\ pc' = [pc EXCEPT ![n] = "load"]
        /\ call' = [call EXCEPT ![n] = call'[n]]
        /\ call'[n] = [NoCall EXCEPT !.kind = kind, !.contract = spec.contract,
                                     !.status = spec.status]
    BY <2>2 DEF Goto, TypeInv
  <2>4. NoCall \in Call /\ CallOK("idle", NoCall, ledger, now)
    BY <2>1, NoCallOK
  <2>5. spec.contract \in Contracts /\ spec.status \in Statuses
    BY DEF TypeInv, DataOK, Statuses
  <2>6. call'[n] \in Call
    BY <2>3, <2>4, <2>5 DEF Call
  <2>7. /\ call'[n].seen = 0 /\ call'[n].attempt = 0 /\ call'[n].review = 0 /\ call'[n].now = 0
        /\ call'[n].contract = spec.contract
    BY <2>3 DEF NoCall
  <2>8. CallOK("load", call'[n], ledger, now)
    BY <2>1, <2>5, <2>6, <2>7 DEF CallOK
  <2>9. QED
    BY <1>0, <2>1, <2>3, <2>8, ContinuesWith DEF Steps
<1>2. CASE Crash(n)
  <2>1. ledger' = ledger /\ now' = now /\ Finish(n)
    BY <1>2 DEF Crash
  <2>2. DataOK'
    BY <1>2, BoundsAreNumbers DEF Crash, TypeInv, DataOK
  <2>3. QED
    BY <1>0, <2>1, <2>2, Finishes
<1>3. QED
  BY <1>1, <1>2

\* Every step keeps the types.
LEMMA TypeStep == TypeInv /\ [Next]_vars => TypeInv'
<1> SUFFICES ASSUME TypeInv, [Next]_vars PROVE TypeInv'
  OBVIOUS
<1>1. CASE UNCHANGED vars
  BY <1>1 DEF vars, TypeInv, DataOK
<1>2. CASE \E n \in Commands : Begin(n) \/ Crash(n)
  BY <1>2, ProcessTypes
<1>3. CASE EditSpec \/ EditWork \/ Tick
  BY <1>3, WorldTypes
<1>4. ASSUME NEW n \in Commands, Step(n) PROVE TypeInv'
  BY <1>4, ApproveTypes, BuildTypes, ReviewTypes, OtherReviewTypes, FinalizeTypes, EndingTypes
  DEF Step
<1>5. QED
  BY <1>1, <1>2, <1>3, <1>4 DEF Next

\* The invariant holds in every reachable state.
LEMMA TypeInvariant == Spec => []TypeInv
  BY TypeInit, TypeStep, PTL DEF Spec

\* Every variable keeps its type and what a process points at stays in the
\* ledger (TypeOK), for any number of processes.
THEOREM TypeCorrect == Spec => []TypeOK
<1>1. TypeInv => TypeOK
  BY DEF TypeInv, TypeOK, DataOK, CallOK
<1>2. QED
  BY <1>1, TypeInvariant, PTL
=============================================================================
