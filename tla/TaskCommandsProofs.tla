------------------------- MODULE TaskCommandsProofs -------------------------
(***************************************************************************)
(* The safety of the commands of one task, for any number of processes,    *)
(* any contracts, starting ledgers and bounds: what a receipt, a receipt   *)
(* file, a completed spec and an approved spec stand for, when a reviewer  *)
(* may start, and that what status advises gets the task completed.        *)
(***************************************************************************)
EXTENDS TaskTypeProofs, TaskStatus

-----------------------------------------------------------------------------
(* What the steps append                                                    *)

\* The step a process must be at to publish a receipt or save an approval.
Publishing == {"save", "task file", "latest file", "archive"}

\* Nothing but evidence in between: no receipt, no completion by finalize, and
\* reviews as they are recorded.
Ordinary(new, old) ==
  /\ Extends(new, old)
  /\ \A i \in (Len(old) + 1)..Len(new) :
       /\ new[i].type # "receipt"
       /\ new[i].type = "complete" => new[i].by = "complete"
       /\ new[i].type = "review" =>
            \/ new[i].by = "human" /\ new[i].status = "pass"
            \/ i > 1 /\ new[i - 1].type = "review_attempt" /\ new[i - 1].out = new[i].packet

Harmless(n) ==
  /\ Ordinary(ledger', ledger)
  /\ UNCHANGED <<spec, files>>
  /\ OnlyMoves(n)
  /\ pc'[n] \notin Publishing

PlainTypes == {"approval", "workspace_baseline", "review_override", "review_stage", "cancel",
               "fail", "build", "criterion", "review_attempt"}

\* No entry is ordinary, and so is one that is neither a verdict nor an end.
LEMMA OrdinaryOne ==
  ASSUME NEW l \in Seq(Entry)
  PROVE  /\ Ordinary(l, l)
         /\ \A e \in Entry : e.type \in PlainTypes => Ordinary(l \o <<e>>, l)
<1>1. Ordinary(l, l)
  <2>1. Extends(l, l)
    BY LogExtends
  <2>2. (Len(l) + 1)..Len(l) = {}
    OBVIOUS
  <2>3. QED
    BY <2>1, <2>2 DEF Ordinary
<1>2. ASSUME NEW e \in Entry, e.type \in PlainTypes PROVE Ordinary(l \o <<e>>, l)
  <2>0. <<e>> \in Seq(Entry)
    OBVIOUS
  <2>1. Extends(l \o <<e>>, l)
    BY <2>0, LogExtends
  <2>2. Len(l \o <<e>>) = Len(l) + 1 /\ (l \o <<e>>)[Len(l) + 1] = e
    OBVIOUS
  <2>3. \A i \in (Len(l) + 1)..Len(l \o <<e>>) : (l \o <<e>>)[i] = e
    BY <2>2
  <2>4. e.type \notin {"receipt", "complete", "review"}
    BY <1>2 DEF PlainTypes
  <2>5. QED
    BY <2>1, <2>3, <2>4 DEF Ordinary
<1>3. QED
  BY <1>1, <1>2

\* So are two of them.
LEMMA OrdinaryTwo ==
  ASSUME NEW l \in Seq(Entry), NEW d \in Entry, NEW e \in Entry,
         d.type \in PlainTypes, e.type \in PlainTypes
  PROVE  Ordinary(l \o <<d, e>>, l)
<1>0. <<d, e>> \in Seq(Entry)
  OBVIOUS
<1>1. Extends(l \o <<d, e>>, l)
  BY <1>0, LogExtends
<1>2. /\ Len(l \o <<d, e>>) = Len(l) + 2
      /\ (l \o <<d, e>>)[Len(l) + 1] = d /\ (l \o <<d, e>>)[Len(l) + 2] = e
  OBVIOUS
<1>3. \A i \in (Len(l) + 1)..Len(l \o <<d, e>>) : (l \o <<d, e>>)[i] = d \/ (l \o <<d, e>>)[i] = e
  BY <1>2
<1>4. {d.type, e.type} \cap {"receipt", "complete", "review"} = {}
  BY DEF PlainTypes
<1>5. QED
  BY <1>1, <1>3, <1>4 DEF Ordinary

\* The types of the entries the constructors make.
LEMMA ConstructedTypes ==
  /\ Approval.type = "approval" /\ Baseline.type = "workspace_baseline"
  /\ Override.type = "review_override" /\ Stage.type = "review_stage"
  /\ \A s : Build(s).type = "build"
  /\ \A s, c : Criterion(s, c).type = "criterion"
  /\ \A t : Terminal(t).type = t
  /\ \A lease, c, m, out : RunningAttempt(lease, c, m, out).type = "review_attempt"
  BY DEF Approval, Baseline, Override, Stage, Build, Criterion, Terminal, RunningAttempt

\* A dossier is an ordinary review.
LEMMA RecordIsOrdinary ==
  ASSUME TypeInv, NEW n \in Commands, NEW material \in Materials, pc[n] = "record",
         RecordDossier(n, material)
  PROVE  Ordinary(ledger', ledger)
<1> DEFINE attempt == ledger[call[n].attempt]
           closed == CloseAttempt(attempt, "accepted")
           review == Review(call[n].verdict, "provider", call[n].contract, material, attempt.out)
<1>0. /\ ledger \in Seq(Entry) /\ call[n].attempt \in 1..Len(ledger)
      /\ ledger[call[n].attempt].type = "review_attempt"
  BY TypeFacts DEF CallOK
<1>1. /\ ledger \in Seq(Entry) /\ Len(ledger) \in Nat
      /\ attempt \in Entry /\ attempt.type = "review_attempt"
  BY <1>0
<1>2. attempt \in AttemptEntry
  BY <1>1, TypedEntries
<1>3. closed.type = "review_attempt" /\ closed.out = attempt.out
  BY <1>2 DEF CloseAttempt, AttemptEntry
<1>4. review.type = "review" /\ review.packet = attempt.out
  BY DEF Review
<1>5. ledger' = ledger \o <<closed, review>>
  BY DEF RecordDossier, Log
<1> HIDE DEF attempt, closed, review
<1>6. /\ Len(ledger') = Len(ledger) + 2
      /\ ledger'[Len(ledger) + 1] = closed /\ ledger'[Len(ledger) + 2] = review
  BY <1>1, <1>5
<1>7. Extends(ledger', ledger)
  BY RecordTypes
<1>8. ASSUME NEW i \in (Len(ledger) + 1)..Len(ledger')
      PROVE  \/ ledger'[i].type = "review_attempt"
             \/ /\ ledger'[i].type = "review" /\ i > 1
                /\ ledger'[i - 1].type = "review_attempt"
                /\ ledger'[i - 1].out = ledger'[i].packet
  <2>1. CASE i = Len(ledger) + 1
    BY <1>3, <1>6, <2>1
  <2>2. CASE i = Len(ledger) + 2
    BY <1>1, <1>3, <1>4, <1>6, <2>2
  <2>3. QED
    BY <1>1, <1>6, <2>1, <2>2
<1>9. QED
  BY <1>7, <1>8 DEF Ordinary

\* So is the review a human signs.
LEMMA SignIsOrdinary ==
  ASSUME TypeInv, NEW n \in Commands, HumanSign(n)
  PROVE  Ordinary(ledger', ledger)
<1> DEFINE review == Review("pass", "human", "none", NoMaterial, NoMaterial)
<1>1. review.type = "review" /\ review.by = "human" /\ review.status = "pass" /\ review \in Entry
  BY EntryTypes DEF Review
<1>2. ledger' = ledger \o <<review>> /\ ledger \in Seq(Entry)
  BY DEF HumanSign, Log, TypeInv
<1> HIDE DEF review
<1>3. Extends(ledger', ledger)
  <2>1. <<review>> \in Seq(Entry)
    BY <1>1
  <2>2. QED
    BY <1>2, <2>1, LogExtends
<1>4. \A i \in (Len(ledger) + 1)..Len(ledger') : ledger'[i] = review
  BY <1>1, <1>2
<1>5. QED
  BY <1>1, <1>3, <1>4 DEF Ordinary

\* And a legacy completion.
LEMMA LegacyIsOrdinary ==
  ASSUME TypeInv, NEW n \in Commands, LegacyComplete(n)
  PROVE  Ordinary(ledger', ledger)
<1> DEFINE end == Completion("complete")
<1>1. end.type = "complete" /\ end.by = "complete" /\ end \in Entry
  BY EntryTypes DEF Completion
<1>2. ledger' = ledger \o <<end>> /\ ledger \in Seq(Entry)
  BY DEF LegacyComplete, Log, TypeInv
<1> HIDE DEF end
<1>3. Extends(ledger', ledger)
  <2>1. <<end>> \in Seq(Entry)
    BY <1>1
  <2>2. QED
    BY <1>2, <2>1, LogExtends
<1>4. \A i \in (Len(ledger) + 1)..Len(ledger') : ledger'[i] = end
  BY <1>1, <1>2
<1>5. QED
  BY <1>1, <1>3, <1>4 DEF Ordinary

\* And the stage entry, or none.
LEMMA StageIsOrdinary == ASSUME TypeInv PROVE Ordinary(ledger \o StageEntries, ledger)
<1>1. ledger \in Seq(Entry) /\ Stage \in Entry /\ Stage.type \in PlainTypes
  BY EntryTypes, ConstructedTypes DEF TypeInv, PlainTypes
<1>2. CASE StageEntries = << >>
  <2>1. ledger \o << >> = ledger
    BY <1>1
  <2>2. QED
    BY <1>1, <1>2, <2>1, OrdinaryOne
<1>3. CASE StageEntries = <<Stage>>
  BY <1>1, <1>3, OrdinaryOne
<1>4. QED
  BY <1>2, <1>3 DEF StageEntries

\* A process that goes on to a step that publishes nothing, whatever it then
\* holds, is harmless when what it appends is ordinary.
LEMMA GoesHarmless ==
  ASSUME TypeInv, NEW n \in Commands, NEW step \in Steps \ Publishing, NEW c,
         Goto(n, step, c), Ordinary(ledger', ledger), UNCHANGED <<spec, files>>
  PROVE  Harmless(n)
<1>1. OnlyMoves(n) /\ pc'[n] = step
  BY DEF Goto, OnlyMoves, TypeInv
<1>2. QED
  BY <1>1 DEF Harmless

\* So is one that ends.
LEMMA EndsHarmless ==
  ASSUME TypeInv, NEW n \in Commands, Finish(n), Ordinary(ledger', ledger),
         UNCHANGED <<spec, files>>
  PROVE  Harmless(n)
<1>1. "done" \in Steps \ Publishing
  BY DEF Steps, Publishing
<1>2. QED
  BY <1>1, GoesHarmless DEF Finish

\* The steps of approve, build and the endings that are harmless.
LEMMA PlainStepsHarmless ==
  ASSUME TypeInv, NEW n \in Commands,
         \/ ApproveBaseline(n) \/ BuildLoad(n) \/ BuildReload(n) \/ BuildOpen(n)
         \/ BuildRepair(n) \/ BuildRun(n) \/ BuildCriterion(n) \/ BuildVerdict(n)
         \/ LegacyLoad(n) \/ LegacyComplete(n) \/ Stop(n)
  PROVE  Harmless(n)
<1>0. /\ CallOK(pc[n], call[n], ledger, now)
      /\ Ordinary(ledger, ledger)
      /\ \A e \in Entry : e.type \in PlainTypes => Ordinary(ledger \o <<e>>, ledger)
  BY TypeFacts, OrdinaryOne
<1>1. /\ {"append", "reload", "reload review", "open", "repair", "run", "criterion",
          "verdict"} \subseteq Steps \ Publishing
      /\ {"approval", "workspace_baseline", "build", "criterion", "cancel", "fail"}
           \subseteq PlainTypes
  BY DEF Steps, Publishing, PlainTypes
<1>2. CASE ApproveBaseline(n)
  <2>1. Ordinary(ledger', ledger) /\ UNCHANGED <<spec, files>>
    BY <1>0, <1>1, <1>2, EntryTypes, ConstructedTypes DEF ApproveBaseline, Log
  <2>2. Goto(n, "append", call[n]) \/ Finish(n)
    BY <1>2 DEF ApproveBaseline
  <2>3. QED
    BY <1>1, <2>1, <2>2, GoesHarmless, EndsHarmless
<1>3. CASE BuildLoad(n)
  <2>1. Ordinary(ledger', ledger) /\ UNCHANGED <<spec, files>>
    BY <1>0, <1>3 DEF BuildLoad
  <2>2. \/ Goto(n, "reload review", call[n]) \/ Goto(n, "reload", call[n]) \/ Finish(n)
    BY <1>3 DEF BuildLoad
  <2>3. QED
    BY <1>1, <2>1, <2>2, GoesHarmless, EndsHarmless
<1>4. CASE BuildReload(n)
  <2>1. Ordinary(ledger', ledger) /\ UNCHANGED <<spec, files>>
    BY <1>0, <1>4 DEF BuildReload
  <2>2. \/ Goto(n, "open", call[n]) \/ Goto(n, "repair", call[n]) \/ Goto(n, "run", call[n])
    BY <1>4 DEF BuildReload
  <2>3. QED
    BY <1>1, <2>1, <2>2, GoesHarmless
<1>5. CASE BuildOpen(n) \/ BuildRepair(n) \/ BuildRun(n)
  <2>1. Ordinary(ledger', ledger) /\ UNCHANGED <<spec, files>>
    <3>1. Build("active") \in Entry /\ Build("active").type \in PlainTypes
      BY <1>1, EntryTypes, ConstructedTypes
    <3>2. ledger' = ledger \o <<Build("active")>> /\ UNCHANGED <<spec, files>>
      BY <1>5 DEF BuildOpen, BuildRepair, BuildRun, Log
    <3>3. Ordinary(ledger \o <<Build("active")>>, ledger)
      BY <1>0, <3>1
    <3>4. QED
      BY <3>2, <3>3
  <2>2. \/ Goto(n, "run", call[n]) \/ Goto(n, "criterion", call[n]) \/ Finish(n)
    BY <1>5 DEF BuildOpen, BuildRepair, BuildRun
  <2>3. QED
    BY <1>1, <2>1, <2>2, GoesHarmless, EndsHarmless
<1>6. CASE BuildCriterion(n)
  <2>1. pc[n] = "criterion" /\ call[n].contract \in Contracts
    BY <1>0, <1>6 DEF BuildCriterion, At, CallOK
  <2>2. PICK result \in {"pass", "fail"} :
          /\ Log(<<Criterion(result, call[n].contract)>>)
          /\ Goto(n, "verdict", [call[n] EXCEPT !.verdict = result])
    BY <1>6 DEF BuildCriterion
  <2>3. Ordinary(ledger', ledger) /\ UNCHANGED <<spec, files>>
    <3>0. Criterion(result, call[n].contract) \in Entry
      BY <2>1, EntryTypes
    <3>1. Criterion(result, call[n].contract).type \in PlainTypes
      BY ConstructedTypes DEF PlainTypes
    <3>2. Ordinary(ledger \o <<Criterion(result, call[n].contract)>>, ledger)
      BY <1>0, <3>0, <3>1
    <3>3. ledger' = ledger \o <<Criterion(result, call[n].contract)>> /\ UNCHANGED <<spec, files>>
      BY <1>6, <2>2 DEF BuildCriterion, Log
    <3>4. QED
      BY <3>2, <3>3
  <2>4. QED
    BY <1>1, <2>2, <2>3, GoesHarmless
<1>7. CASE BuildVerdict(n)
  <2>1. Ordinary(ledger', ledger) /\ UNCHANGED <<spec, files>> /\ Finish(n)
    BY <1>0, <1>1, <1>7, EntryTypes, ConstructedTypes DEF BuildVerdict, Log
  <2>2. QED
    BY <2>1, EndsHarmless
<1>8. CASE LegacyLoad(n)
  <2>1. Ordinary(ledger', ledger) /\ UNCHANGED <<spec, files>>
    BY <1>0, <1>8 DEF LegacyLoad
  <2>2. Goto(n, "append", call[n]) \/ Finish(n)
    BY <1>8 DEF LegacyLoad
  <2>3. QED
    BY <1>1, <2>1, <2>2, GoesHarmless, EndsHarmless
<1>9. CASE LegacyComplete(n)
  <2>1. Ordinary(ledger', ledger)
    BY <1>9, LegacyIsOrdinary
  <2>2. QED
    BY <1>9, <2>1, EndsHarmless DEF LegacyComplete
<1>10. CASE Stop(n)
  <2>1. Terminal(call[n].kind) \in Entry /\ Terminal(call[n].kind).type \in PlainTypes
    BY <1>1, <1>10, EntryTypes, ConstructedTypes DEF Stop, At
  <2>2. Ordinary(ledger', ledger)
    BY <1>0, <1>10, <2>1 DEF Stop, Log
  <2>3. QED
    BY <1>10, <2>2, EndsHarmless DEF Stop
<1>11. QED
  BY <1>2, <1>3, <1>4, <1>5, <1>6, <1>7, <1>8, <1>9, <1>10

\* Every step of a review is harmless.
LEMMA ReviewStepsHarmless ==
  ASSUME TypeInv, NEW n \in Commands,
         \/ ReviewLoad(n) \/ ReviewPreflight(n) \/ ReviewPrepare(n) \/ ReviewSeal(n)
         \/ ReviewStart(n) \/ ProviderAnswers(n) \/ ReviewFails(n) \/ ReviewRecord(n)
  PROVE  Harmless(n)
<1>0. /\ CallOK(pc[n], call[n], ledger, now)
      /\ ledger \in Seq(Entry)
      /\ Ordinary(ledger, ledger)
      /\ Ordinary(ledger \o StageEntries, ledger)
      /\ \A e \in Entry : e.type \in PlainTypes => Ordinary(ledger \o <<e>>, ledger)
  BY TypeFacts, OrdinaryOne, StageIsOrdinary
<1>1. /\ {"preflight", "prepare", "seal", "start", "provider", "record"} \subseteq Steps \ Publishing
      /\ "review_attempt" \in PlainTypes
  BY DEF Steps, Publishing, PlainTypes
<1>2. CASE ReviewLoad(n)
  <2>1. Ordinary(ledger', ledger) /\ UNCHANGED <<spec, files>>
    BY <1>0, <1>2 DEF ReviewLoad
  <2>2. \/ Goto(n, "preflight", [call[n] EXCEPT !.seen = Len(ledger), !.now = now])
        \/ Finish(n)
    BY <1>2 DEF ReviewLoad
  <2>3. QED
    BY <1>1, <2>1, <2>2, GoesHarmless, EndsHarmless
<1>3. CASE ReviewPreflight(n)
  <2> DEFINE es == Loaded(n)
             kind == Project(es, "review", call[n].contract, NoMaterial, call[n].now)
             closed == CloseAttempt(es[LatestAttempt(es)], "abandoned")
  <2>1. es \in Seq(Entry) /\ UNCHANGED <<spec, files>>
    BY <1>3, LoadedIs DEF ReviewPreflight
  <2>2. CASE ledger' = ledger /\ Finish(n)
    BY <1>0, <2>1, <2>2, EndsHarmless
  <2>3. CASE ledger' = ledger /\ Goto(n, "prepare", call[n])
    BY <1>0, <1>1, <2>1, <2>3, GoesHarmless
  <2>4. CASE /\ kind = "attempt_stale" /\ Log(<<closed>>)
             /\ Goto(n, "prepare", [call[n] EXCEPT !.seen = Len(ledger')])
    <3>1. LatestAttempt(es) # 0
      BY <2>1, <2>4, ProjectedAttempt
    <3>2. LatestAttempt(es) \in 1..Len(es) /\ es[LatestAttempt(es)].type = "review_attempt"
      BY <2>1, <3>1, LatestAttemptIs
    <3>3. closed \in Entry /\ closed.type = "review_attempt"
      <4>1. es[LatestAttempt(es)] \in Entry
        BY <2>1, <3>2
      <4>2. QED
        BY <3>2, <4>1, TypedEntries
    <3>4. Ordinary(ledger', ledger)
      BY <1>0, <1>1, <2>4, <3>3 DEF Log
    <3>5. QED
      BY <1>1, <2>1, <2>4, <3>4, GoesHarmless
  <2>5. QED
    BY <1>3, <2>2, <2>3, <2>4 DEF ReviewPreflight
<1>4. CASE ReviewPrepare(n) \/ ReviewSeal(n)
  <2>1. Ordinary(ledger', ledger) /\ UNCHANGED <<spec, files>>
    BY <1>0, <1>4 DEF ReviewPrepare, ReviewSeal, Log
  <2>2. \/ Goto(n, "seal", [call[n] EXCEPT !.packet = work])
        \/ Goto(n, "start", [call[n] EXCEPT !.material = work])
        \/ Finish(n)
    BY <1>4 DEF ReviewPrepare, ReviewSeal
  <2>3. QED
    BY <1>1, <2>1, <2>2, GoesHarmless, EndsHarmless
<1>5. CASE ReviewStart(n)
  <2> DEFINE attempt == RunningAttempt(call[n].now + Lease, call[n].contract,
                                       call[n].material, call[n].packet)
             closed == CloseAttempt(ledger[LatestAttempt(ledger)], "abandoned")
             abandons == IF StartGate(n) = "attempt_stale" THEN <<closed>> ELSE << >>
  <2>1. pc[n] = "start" /\ UNCHANGED <<spec, files>>
    BY <1>5 DEF ReviewStart, At
  <2>2. CASE ledger' = ledger /\ Finish(n)
    BY <1>0, <2>1, <2>2, EndsHarmless
  <2>3. CASE /\ Log(abandons \o <<attempt>>)
             /\ Goto(n, "provider", [call[n] EXCEPT !.attempt = Len(ledger')])
    <3>1. attempt \in Entry /\ attempt.type = "review_attempt"
      <4>1. /\ call[n].contract \in Contracts /\ call[n].material \in Materials
            /\ call[n].packet \in Materials /\ call[n].now + Lease \in 0..MaxTime
        BY <1>0, <2>1, BoundsAreNumbers DEF CallOK, Call
      <4>2. QED
        BY <4>1, EntryTypes, ConstructedTypes
    <3>2. Ordinary(ledger', ledger)
      <4>1. CASE StartGate(n) = "attempt_stale"
        <5>1. LatestAttempt(ledger) # 0
          BY <1>0, <4>1, ProjectedAttempt DEF StartGate
        <5>2. /\ LatestAttempt(ledger) \in 1..Len(ledger)
              /\ ledger[LatestAttempt(ledger)].type = "review_attempt"
          BY <1>0, <5>1, LatestAttemptIs
        <5>3. closed \in Entry /\ closed.type = "review_attempt"
          <6>1. ledger[LatestAttempt(ledger)] \in Entry
            BY <1>0, <5>2
          <6>2. QED
            BY <5>2, <6>1, TypedEntries
        <5>4. ledger' = ledger \o <<closed, attempt>>
          <6> HIDE DEF closed, attempt
          <6> QED
            BY <2>3, <4>1 DEF Log
        <5>5. QED
          BY <1>0, <1>1, <3>1, <5>3, <5>4, OrdinaryTwo
      <4>2. CASE StartGate(n) # "attempt_stale"
        <5>1. ledger' = ledger \o <<attempt>>
          <6> HIDE DEF attempt
          <6> QED
            BY <2>3, <4>2 DEF Log
        <5>2. QED
          BY <1>0, <1>1, <3>1, <5>1
      <4>3. QED
        BY <4>1, <4>2
    <3>3. QED
      BY <1>1, <2>1, <2>3, <3>2, GoesHarmless
  <2>4. QED
    BY <1>5, <2>2, <2>3 DEF ReviewStart
<1>6. CASE ProviderAnswers(n)
  <2>1. PICK verdict \in Answers(n) : Goto(n, "record", [call[n] EXCEPT !.verdict = verdict])
    BY <1>6 DEF ProviderAnswers
  <2>2. Ordinary(ledger', ledger) /\ UNCHANGED <<spec, files>>
    BY <1>0, <1>6 DEF ProviderAnswers, Log
  <2>3. QED
    BY <1>1, <2>1, <2>2, GoesHarmless
<1>7. CASE ReviewFails(n)
  <2>1. pc[n] \in {"provider", "record"} /\ UNCHANGED <<spec, files>> /\ Finish(n)
    BY <1>7 DEF ReviewFails
  <2>2. /\ call[n].attempt \in 1..Len(ledger)
        /\ ledger[call[n].attempt].type = "review_attempt"
    BY <1>0, <2>1 DEF CallOK
  <2>3. ledger[call[n].attempt] \in Entry
    BY <1>0, <2>2
  <2>4. /\ CloseAttempt(ledger[call[n].attempt], "failed") \in Entry
        /\ CloseAttempt(ledger[call[n].attempt], "failed").type = "review_attempt"
    BY <2>2, <2>3, TypedEntries
  <2>5. Ordinary(ledger', ledger)
    BY <1>0, <1>1, <1>7, <2>4 DEF ReviewFails, Log
  <2>6. QED
    BY <2>1, <2>5, EndsHarmless
<1>8. CASE ReviewRecord(n)
  <2>1. pc[n] = "record" /\ UNCHANGED <<spec, files>> /\ Finish(n) /\ work \in Materials
    BY <1>8 DEF ReviewRecord, At, TypeInv, DataOK
  <2>2. Ordinary(ledger', ledger)
    BY <1>8, <2>1, RecordIsOrdinary DEF ReviewRecord
  <2>3. QED
    BY <2>1, <2>2, EndsHarmless
<1>9. QED
  BY <1>2, <1>3, <1>4, <1>5, <1>6, <1>7, <1>8

\* So is every step of a packet's repair and of a human's override, and what
\* finalize does before it anchors.
LEMMA OtherStepsHarmless ==
  ASSUME TypeInv, NEW n \in Commands,
         \/ RepairPacketLoad(n) \/ RepairPacketRecord(n)
         \/ HumanLoad(n) \/ HumanOverride(n) \/ HumanSign(n)
         \/ FinalizeLoad(n) \/ FinalizeSnapshot(n) \/ FinalizeAccept(n) \/ FinalizeEvidence(n)
  PROVE  Harmless(n)
<1>0. /\ CallOK(pc[n], call[n], ledger, now)
      /\ Ordinary(ledger, ledger)
      /\ \A e \in Entry : e.type \in PlainTypes => Ordinary(ledger \o <<e>>, ledger)
  BY TypeFacts, OrdinaryOne
<1>1. /\ {"record", "override", "sign", "snapshot", "accept", "evidence", "anchor"}
           \subseteq Steps \ Publishing
      /\ {"review_override", "criterion"} \subseteq PlainTypes
  BY DEF Steps, Publishing, PlainTypes
<1>2. CASE RepairPacketLoad(n)
  <2>1. Ordinary(ledger', ledger) /\ UNCHANGED <<spec, files>>
    BY <1>0, <1>2 DEF RepairPacketLoad
  <2>2. Finish(n) \/ \E c : Goto(n, "record", c)
    BY <1>2 DEF RepairPacketLoad
  <2>3. QED
    BY <1>1, <2>1, <2>2, GoesHarmless, EndsHarmless
<1>3. CASE RepairPacketRecord(n)
  <2>1. pc[n] = "record" /\ UNCHANGED <<spec, files>> /\ Finish(n) /\ call[n].material \in Materials
    BY <1>0, <1>3 DEF RepairPacketRecord, At, CallOK, Call
  <2>2. Ordinary(ledger', ledger)
    BY <1>3, <2>1, RecordIsOrdinary DEF RepairPacketRecord
  <2>3. QED
    BY <2>1, <2>2, EndsHarmless
<1>4. CASE HumanLoad(n) \/ HumanOverride(n)
  <2>1. Ordinary(ledger', ledger) /\ UNCHANGED <<spec, files>>
    BY <1>0, <1>1, <1>4, EntryTypes, ConstructedTypes DEF HumanLoad, HumanOverride, Log
  <2>2. \/ Goto(n, "override", call[n]) \/ Goto(n, "sign", call[n]) \/ Finish(n)
    BY <1>4 DEF HumanLoad, HumanOverride
  <2>3. QED
    BY <1>1, <2>1, <2>2, GoesHarmless, EndsHarmless
<1>5. CASE HumanSign(n)
  <2>1. Ordinary(ledger', ledger)
    BY <1>5, SignIsOrdinary
  <2>2. QED
    BY <1>5, <2>1, EndsHarmless DEF HumanSign
<1>6. CASE FinalizeLoad(n)
  <2>1. Ordinary(ledger', ledger) /\ UNCHANGED <<spec, files>>
    BY <1>0, <1>6 DEF FinalizeLoad
  <2>2. Finish(n) \/ \E step \in {"anchor", "snapshot"}, c \in {call'[n]} : Goto(n, step, c)
    BY <1>6 DEF FinalizeLoad, Goto, TypeInv
  <2>3. QED
    BY <1>1, <2>1, <2>2, GoesHarmless, EndsHarmless
<1>7. CASE FinalizeSnapshot(n)
  <2>1. /\ Ordinary(ledger', ledger) /\ UNCHANGED <<spec, files>>
        /\ Goto(n, "accept", [call[n] EXCEPT !.material = work])
    BY <1>0, <1>7 DEF FinalizeSnapshot
  <2>2. QED
    BY <1>1, <2>1, GoesHarmless
<1>8. CASE FinalizeAccept(n)
  <2>1. Ordinary(ledger', ledger) /\ UNCHANGED <<spec, files>>
    BY <1>0, <1>8 DEF FinalizeAccept
  <2>2. \E step \in {"anchor", "evidence"}, c \in {call'[n]} : Goto(n, step, c)
    BY <1>8 DEF FinalizeAccept, Goto, TypeInv
  <2>3. QED
    BY <1>1, <2>1, <2>2, GoesHarmless
<1>9. CASE FinalizeEvidence(n)
  <2>1. /\ pc[n] = "evidence" /\ UNCHANGED <<spec, files>> /\ Finish(n)
        /\ ledger' = ledger \o <<Criterion(call[n].verdict, call[n].contract)>>
    BY <1>9 DEF FinalizeEvidence, At, Log
  <2>2. call[n].verdict \in {"pass", "fail"} /\ call[n].contract \in Contracts
    BY <1>0, <2>1 DEF CallOK
  <2>3. Ordinary(ledger', ledger)
    BY <1>0, <1>1, <2>1, <2>2, EntryTypes, ConstructedTypes
  <2>4. QED
    BY <2>1, <2>3, EndsHarmless
<1>10. QED
  BY <1>2, <1>3, <1>4, <1>5, <1>6, <1>7, <1>8, <1>9

\* All that is left: the approval and what follows it, and what finalize does
\* from its anchor on.
LEMMA StepsAreHarmless ==
  ASSUME TypeInv, NEW n \in Commands, Step(n)
  PROVE  \/ Harmless(n) \/ ApproveAppend(n) \/ ApproveSave(n)
         \/ FinalizeAnchor(n) \/ FinalizeTaskFile(n) \/ FinalizeLatestFile(n)
         \/ FinalizeArchive(n)
  BY PlainStepsHarmless, ReviewStepsHarmless, OtherStepsHarmless DEF Step

-----------------------------------------------------------------------------
(* Receipts, files and approvals                                            *)

Has(es, type) == \E i \in DOMAIN es : es[i].type = type
Anchored(digest, es) == \E i \in Receipts(es) : es[i].digest = digest

\* One receipt; a completion by finalize stands right behind it, and it has
\* one, unless a legacy complete left its own.
LedgerOK(es) ==
  /\ ReviewsAreRecorded(es)
  /\ \A i, j \in Receipts(es) : i = j
  /\ \A i \in Receipts(es) :
       \/ i + 1 \in DOMAIN es /\ es[i + 1].type = "complete"
       \/ \E c \in DOMAIN es : es[c].type = "complete" /\ es[c].by = "complete"
  /\ \A i \in DOMAIN es :
       es[i].type = "complete" /\ es[i].by = "finalize" => i > 1 /\ es[i - 1].type = "receipt"

\* The files and the spec name what the ledger holds.
FilesOK(es, f, s) ==
  /\ f.task # NoReceipt => Anchored(f.task, es)
  /\ f.latest # NoReceipt => f.latest = f.task
  /\ s.status = "completed" => f.latest # NoReceipt
  /\ s.status = "approved" => Has(es, "approval")

\* What a process that saves or publishes has done before.
PublishOK(step, c, es, f) ==
  /\ step = "save" => Has(es, "approval")
  /\ step \in {"task file", "latest file", "archive"} => Anchored(c.receipt.digest, es)
  /\ step \in {"latest file", "archive"} => f.task # NoReceipt
  /\ step = "archive" => f.latest # NoReceipt

SafeInv ==
  /\ TypeInv
  /\ LedgerOK(ledger)
  /\ FilesOK(ledger, files, spec)
  /\ \A n \in Commands : PublishOK(pc[n], call[n], ledger, files)

\* What a ledger holds it keeps.
LEMMA ExtendsKeeps ==
  ASSUME NEW old \in Seq(Entry), NEW new, Extends(new, old)
  PROVE  /\ \A type : Has(old, type) => Has(new, type)
         /\ \A d : Anchored(d, old) => Anchored(d, new)
         /\ \A c, f, step : PublishOK(step, c, old, f) => PublishOK(step, c, new, f)
         /\ \A f, s : FilesOK(old, f, s) => FilesOK(new, f, s)
<1>1. /\ Len(old) \in Nat /\ Len(new) \in Nat /\ Len(old) <= Len(new)
      /\ DOMAIN old = 1..Len(old) /\ DOMAIN new = 1..Len(new)
      /\ \A i \in DOMAIN old : i \in DOMAIN new /\ new[i] = old[i]
  BY DEF Extends
<1>2. \A type : Has(old, type) => Has(new, type)
  BY <1>1 DEF Has
<1>3. \A d : Anchored(d, old) => Anchored(d, new)
  BY <1>1 DEF Anchored, Receipts
<1>4. \A c, f, step : PublishOK(step, c, old, f) => PublishOK(step, c, new, f)
  BY <1>2, <1>3 DEF PublishOK
<1>5. \A f, s : FilesOK(old, f, s) => FilesOK(new, f, s)
  BY <1>2, <1>3 DEF FilesOK
<1>6. QED
  BY <1>2, <1>3, <1>4, <1>5

\* Ordinary evidence keeps the ledger as it must be.
LEMMA OrdinaryKeeps ==
  ASSUME NEW old \in Seq(Entry), NEW new, Ordinary(new, old), LedgerOK(old)
  PROVE  LedgerOK(new)
<1>1. /\ Len(old) \in Nat /\ Len(new) \in Nat /\ Len(old) <= Len(new)
      /\ DOMAIN old = 1..Len(old) /\ DOMAIN new = 1..Len(new)
      /\ \A i \in DOMAIN old : i \in DOMAIN new /\ new[i] = old[i]
      /\ \A i \in DOMAIN new : i \in DOMAIN old \/ i \in (Len(old) + 1)..Len(new)
  BY DEF Ordinary, Extends
<1>2. ReviewsAreRecorded(new)
  <2>1. SUFFICES ASSUME NEW i \in DOMAIN new, new[i].type = "review"
                 PROVE  \/ new[i].by = "human" /\ new[i].status = "pass"
                        \/ /\ i > 1 /\ new[i - 1].type = "review_attempt"
                           /\ new[i - 1].out = new[i].packet
    BY DEF ReviewsAreRecorded
  <2>2. CASE i \in DOMAIN old
    <3>1. i > 1 => i - 1 \in DOMAIN old
      BY <1>1, <2>2
    <3>2. QED
      BY <1>1, <2>1, <2>2, <3>1 DEF LedgerOK, ReviewsAreRecorded
  <2>3. CASE i \in (Len(old) + 1)..Len(new)
    BY <2>1, <2>3 DEF Ordinary
  <2>4. QED
    BY <1>1, <2>2, <2>3
<1>3. Receipts(new) = Receipts(old)
  BY <1>1 DEF Receipts, Ordinary
<1>4. ASSUME NEW i \in Receipts(new)
      PROVE  \/ i + 1 \in DOMAIN new /\ new[i + 1].type = "complete"
             \/ \E c \in DOMAIN new : new[c].type = "complete" /\ new[c].by = "complete"
  BY <1>1, <1>3, <1>4 DEF LedgerOK
<1>5. ASSUME NEW i \in DOMAIN new, new[i].type = "complete", new[i].by = "finalize"
      PROVE  i > 1 /\ new[i - 1].type = "receipt"
  <2>1. i \in DOMAIN old
    BY <1>1, <1>5 DEF Ordinary
  <2>2. i > 1 /\ old[i - 1].type = "receipt"
    BY <1>1, <1>5, <2>1 DEF LedgerOK
  <2>3. i - 1 \in DOMAIN old
    BY <1>1, <2>1, <2>2
  <2>4. QED
    BY <1>1, <2>2, <2>3
<1>6. QED
  BY <1>2, <1>3, <1>4, <1>5 DEF LedgerOK

\* The anchor transaction anchors one receipt with its completion, or finds
\* that it has been.
LEMMA AnchorKeeps ==
  ASSUME TypeInv, LedgerOK(ledger), NEW n \in Commands, pc[n] = "anchor", MayAnchor(n)
  PROVE  LET new == ledger \o AnchorEntries(n)
         IN  LedgerOK(new) /\ Extends(new, ledger) /\ Anchored(call[n].receipt.digest, new)
<1> DEFINE receipt == call[n].receipt
           evidence == Criterion("pass", call[n].contract)
           seen == \E i \in Receipts(ledger) : ledger[i].digest = receipt.digest
           new == ledger \o AnchorEntries(n)
<1>1. /\ ledger \in Seq(Entry) /\ Len(ledger) \in Nat /\ DOMAIN ledger = 1..Len(ledger)
      /\ call[n].receipt \in ReceiptEntry /\ call[n].contract \in Contracts
  <2>1. ledger \in Seq(Entry) /\ CallOK(pc[n], call[n], ledger, now)
    BY TypeFacts
  <2>2. call[n].receipt \in ReceiptEntry /\ call[n].contract \in Contracts
    BY <2>1 DEF CallOK
  <2>3. QED
    BY <2>1, <2>2
<1>2. Extends(new, ledger)
  BY <1>1, AnchorTypes, LogExtends
<1>3. receipt.type = "receipt" /\ evidence.type = "criterion"
  BY <1>1, ConstructedTypes DEF ReceiptEntry
<1>4. LastOf(ledger, {"complete"}) # 0 <=> Has(ledger, "complete")
  BY <1>1, LastOfFinds DEF Has
<1>5. CASE seen
  <2>1. Has(ledger, "complete")
    BY <1>5 DEF LedgerOK, Has
  <2>2. AnchorEntries(n) = << >> \o << >>
    BY <1>4, <1>5, <2>1 DEF AnchorEntries
  <2>3. ledger \o (<< >> \o << >>) = ledger
    BY <1>1
  <2>4. new = ledger
    BY <2>2, <2>3
  <2>5. QED
    BY <1>2, <1>5, <2>4 DEF Anchored
<1>6. CASE ~seen
  <2>1. Receipts(ledger) = {}
    BY <1>6 DEF MayAnchor
  <2>2. \A i \in DOMAIN ledger : ledger[i].type # "receipt"
    BY <2>1 DEF Receipts
  <2>3. \A i \in DOMAIN ledger : ledger[i].type = "complete" => ledger[i].by = "complete"
    <3>1. ASSUME NEW i \in DOMAIN ledger, ledger[i].type = "complete" PROVE ledger[i].by = "complete"
      <4>1. ledger[i] \in Entry
        BY <1>1
      <4>2. ledger[i].by \in {"finalize", "complete"}
        BY <3>1, <4>1 DEF Entry, ReceiptEntry
      <4>3. ledger[i].by # "finalize"
        <5>1. SUFFICES ASSUME ledger[i].by = "finalize" PROVE FALSE
          OBVIOUS
        <5>2. i > 1 /\ ledger[i - 1].type = "receipt"
          BY <3>1, <5>1 DEF LedgerOK
        <5>3. i - 1 \in DOMAIN ledger
          BY <1>1, <5>2
        <5>4. QED
          BY <2>2, <5>2, <5>3
      <4>4. QED
        BY <4>2, <4>3
    <3>2. QED
      BY <3>1
  <2>4. CASE Has(ledger, "complete")
    <3>1. AnchorEntries(n) = <<evidence, receipt>> \o << >>
      BY <1>4, <1>6, <2>4 DEF AnchorEntries
    <3> HIDE DEF receipt, evidence
    <3>2. new = ledger \o <<evidence, receipt>>
      BY <1>1, <3>1
    <3>3. /\ Len(new) = Len(ledger) + 2 /\ DOMAIN new = 1..(Len(ledger) + 2)
          /\ \A i \in DOMAIN ledger : new[i] = ledger[i]
          /\ new[Len(ledger) + 1] = evidence /\ new[Len(ledger) + 2] = receipt
      BY <1>1, <3>2
    <3> HIDE DEF new
    <3>4. PICK c \in DOMAIN ledger : ledger[c].type = "complete" /\ ledger[c].by = "complete"
      BY <2>3, <2>4 DEF Has
    <3>5. c \in DOMAIN new /\ new[c].type = "complete" /\ new[c].by = "complete"
      BY <1>1, <3>3, <3>4
    <3>6. \A i \in DOMAIN new : i \in DOMAIN ledger \/ i = Len(ledger) + 1 \/ i = Len(ledger) + 2
      BY <1>1, <3>3
    <3>7. Receipts(new) = {Len(ledger) + 2}
      BY <1>1, <1>3, <2>2, <3>3, <3>6 DEF Receipts
    <3>8. ReviewsAreRecorded(new)
      <4>1. SUFFICES ASSUME NEW i \in DOMAIN ledger, ledger[i].type = "review"
                     PROVE  \/ new[i].by = "human" /\ new[i].status = "pass"
                            \/ /\ i > 1 /\ new[i - 1].type = "review_attempt"
                               /\ new[i - 1].out = new[i].packet
        BY <1>3, <3>3, <3>6 DEF ReviewsAreRecorded
      <4>2. i > 1 => i - 1 \in DOMAIN ledger
        BY <1>1
      <4>3. QED
        BY <3>3, <4>1, <4>2 DEF LedgerOK, ReviewsAreRecorded
    <3>9. \A i \in DOMAIN new : new[i].type = "complete" => new[i].by = "complete"
      BY <1>3, <2>3, <3>3, <3>6
    <3>10. LedgerOK(new)
      BY <3>5, <3>7, <3>8, <3>9 DEF LedgerOK
    <3>11. Anchored(receipt.digest, new)
      BY <3>3, <3>7 DEF Anchored
    <3>12. QED
      BY <1>2, <3>10, <3>11 DEF new, receipt
  <2>5. CASE ~Has(ledger, "complete")
    <3> DEFINE end == Completion("finalize")
    <3>1. AnchorEntries(n) = <<evidence, receipt>> \o <<end>>
      BY <1>4, <1>6, <2>5 DEF AnchorEntries
    <3>2. end.type = "complete" /\ end.by = "finalize"
      BY DEF Completion
    <3> HIDE DEF receipt, evidence, end
    <3>3. new = ledger \o <<evidence, receipt, end>>
      BY <1>1, <3>1
    <3>4. /\ Len(new) = Len(ledger) + 3 /\ DOMAIN new = 1..(Len(ledger) + 3)
          /\ \A i \in DOMAIN ledger : new[i] = ledger[i]
          /\ new[Len(ledger) + 1] = evidence /\ new[Len(ledger) + 2] = receipt
          /\ new[Len(ledger) + 3] = end
      BY <1>1, <3>3
    <3> HIDE DEF new
    <3>5. \A i \in DOMAIN new : \/ i \in DOMAIN ledger
                                \/ i \in {Len(ledger) + 1, Len(ledger) + 2, Len(ledger) + 3}
      BY <1>1, <3>4
    <3>6. Receipts(new) = {Len(ledger) + 2}
      BY <1>1, <1>3, <2>2, <3>2, <3>4, <3>5 DEF Receipts
    <3>7. ReviewsAreRecorded(new)
      <4>1. SUFFICES ASSUME NEW i \in DOMAIN ledger, ledger[i].type = "review"
                     PROVE  \/ new[i].by = "human" /\ new[i].status = "pass"
                            \/ /\ i > 1 /\ new[i - 1].type = "review_attempt"
                               /\ new[i - 1].out = new[i].packet
        BY <1>3, <3>2, <3>4, <3>5 DEF ReviewsAreRecorded
      <4>2. i > 1 => i - 1 \in DOMAIN ledger
        BY <1>1
      <4>3. QED
        BY <3>4, <4>1, <4>2 DEF LedgerOK, ReviewsAreRecorded
    <3>8. \A i \in DOMAIN new : new[i].type = "complete" => i = Len(ledger) + 3
      BY <1>3, <2>5, <3>4, <3>5 DEF Has
    <3>9. /\ Len(ledger) + 3 > 1 /\ (Len(ledger) + 3) - 1 = Len(ledger) + 2
          /\ (Len(ledger) + 2) + 1 = Len(ledger) + 3 /\ Len(ledger) + 3 \in DOMAIN new
      BY <1>1, <3>4
    <3>10. \A i \in Receipts(new) : i + 1 \in DOMAIN new /\ new[i + 1].type = "complete"
      BY <3>2, <3>4, <3>6, <3>9
    <3>11. \A i \in DOMAIN new : new[i].type = "complete" => i > 1 /\ new[i - 1].type = "receipt"
      BY <1>3, <3>4, <3>8, <3>9
    <3>12. LedgerOK(new)
      BY <3>6, <3>7, <3>10, <3>11 DEF LedgerOK
    <3>13. Anchored(receipt.digest, new)
      BY <3>4, <3>6 DEF Anchored
    <3>14. QED
      BY <1>2, <3>12, <3>13 DEF new, receipt
  <2>6. QED
    BY <2>4, <2>5
<1>7. QED
  BY <1>5, <1>6

\* The commands start safe.
LEMMA SafeInit == Init => SafeInv
<1> SUFFICES ASSUME Init PROVE SafeInv
  OBVIOUS
<1>1. TypeInv
  BY TypeInit
<1>2. IsHistory(ledger)
  BY HistoriesAreLedgers DEF Init
<1>3. LedgerOK(ledger)
  BY <1>2 DEF IsHistory, LedgerOK, Receipts
<1>4. FilesOK(ledger, files, spec)
  <2>1. files.task = NoReceipt /\ files.latest = NoReceipt
    BY DEF Init
  <2>2. spec.status = IF ledger = Drafted THEN "draft" ELSE "approved"
    BY DEF Init
  <2>3. ledger # Drafted => Has(ledger, "approval")
    BY <1>2 DEF IsHistory, Has
  <2>4. QED
    BY <2>1, <2>2, <2>3 DEF FilesOK
<1>5. \A n \in Commands : PublishOK(pc[n], call[n], ledger, files)
  BY DEF Init, PublishOK
<1>6. QED
  BY <1>1, <1>3, <1>4, <1>5 DEF SafeInv

\* A file that is there stays, and the other processes have published what
\* they had.
LEMMA OthersPublish ==
  ASSUME SafeInv, NEW n \in Commands, OnlyMoves(n), Extends(ledger', ledger),
         files.task # NoReceipt => files'.task # NoReceipt,
         files.latest # NoReceipt => files'.latest # NoReceipt,
         PublishOK(pc'[n], call'[n], ledger', files')
  PROVE  \A m \in Commands : PublishOK(pc'[m], call'[m], ledger', files')
<1>1. SUFFICES ASSUME NEW m \in Commands, m # n PROVE PublishOK(pc'[m], call'[m], ledger', files')
  OBVIOUS
<1>2. pc'[m] = pc[m] /\ call'[m] = call[m]
  BY <1>1 DEF OnlyMoves, SafeInv, TypeInv
<1>3. PublishOK(pc[m], call[m], ledger', files)
  BY ExtendsKeeps DEF SafeInv, TypeInv
<1>4. PublishOK(pc[m], call[m], ledger', files')
  BY <1>3 DEF PublishOK
<1>5. QED
  BY <1>2, <1>4

\* A harmless step is.
LEMMA HarmlessSafe ==
  ASSUME SafeInv, NEW n \in Commands, Harmless(n), TypeInv'
  PROVE  SafeInv'
<1>1. Extends(ledger', ledger) /\ ledger \in Seq(Entry) /\ files' = files /\ spec' = spec
  BY DEF Harmless, Ordinary, SafeInv, TypeInv
<1>2. LedgerOK(ledger')
  BY <1>1, OrdinaryKeeps DEF Harmless, SafeInv
<1>3. FilesOK(ledger', files', spec')
  BY <1>1, ExtendsKeeps DEF SafeInv
<1>4. PublishOK(pc'[n], call'[n], ledger', files')
  BY DEF Harmless, Publishing, PublishOK
<1>5. \A m \in Commands : PublishOK(pc'[m], call'[m], ledger', files')
  BY <1>1, <1>4, OthersPublish DEF Harmless
<1>6. QED
  BY <1>2, <1>3, <1>5 DEF SafeInv

\* approve appends its approval before it saves the spec.
LEMMA ApproveSafe ==
  ASSUME SafeInv, NEW n \in Commands, ApproveAppend(n) \/ ApproveSave(n), TypeInv'
  PROVE  SafeInv'
<1>0. TypeInv /\ ledger \in Seq(Entry) /\ Extends(ledger, ledger)
  BY TypeFacts DEF SafeInv
<1>1. CASE ApproveAppend(n)
  <2>1. /\ files' = files /\ spec' = spec /\ ledger' = ledger \o <<Approval>>
        /\ Goto(n, "save", call[n])
    BY <1>1 DEF ApproveAppend, Log
  <2>2. OnlyMoves(n) /\ pc'[n] = "save"
    BY <1>0, <2>1 DEF Goto, OnlyMoves, TypeInv
  <2>3. Approval \in Entry /\ Approval.type \in PlainTypes /\ Approval.type = "approval"
    BY EntryTypes, ConstructedTypes DEF PlainTypes
  <2>4. Ordinary(ledger', ledger)
    BY <1>0, <2>1, <2>3, OrdinaryOne
  <2>5. LedgerOK(ledger') /\ Extends(ledger', ledger)
    BY <1>0, <2>4, OrdinaryKeeps DEF SafeInv, Ordinary
  <2>6. FilesOK(ledger', files', spec')
    BY <1>0, <2>1, <2>5, ExtendsKeeps DEF SafeInv
  <2>7. Has(ledger', "approval")
    <3>1. Len(ledger) + 1 \in DOMAIN ledger' /\ ledger'[Len(ledger) + 1] = Approval
      BY <1>0, <2>1
    <3>2. QED
      BY <2>3, <3>1 DEF Has
  <2>8. PublishOK(pc'[n], call'[n], ledger', files')
    BY <2>2, <2>7 DEF PublishOK
  <2>9. \A m \in Commands : PublishOK(pc'[m], call'[m], ledger', files')
    BY <2>1, <2>2, <2>5, <2>8, OthersPublish
  <2>10. QED
    BY <2>5, <2>6, <2>9 DEF SafeInv
<1>2. CASE ApproveSave(n)
  <2>1. /\ pc[n] = "save" /\ files' = files /\ ledger' = ledger /\ Finish(n)
        /\ spec' = IF spec.status = "draft" THEN [spec EXCEPT !.status = "approved"] ELSE spec
    BY <1>2 DEF ApproveSave, At
  <2>2. OnlyMoves(n) /\ pc'[n] = "done"
    BY <1>0, <2>1 DEF Finish, Goto, OnlyMoves, TypeInv
  <2>3. Has(ledger, "approval")
    BY <2>1 DEF SafeInv, PublishOK
  <2>4. spec'.status = spec.status \/ spec'.status = "approved"
    BY <1>0, <2>1 DEF TypeInv, DataOK
  <2>5. FilesOK(ledger', files', spec')
    BY <2>1, <2>3, <2>4 DEF SafeInv, FilesOK
  <2>6. PublishOK(pc'[n], call'[n], ledger', files')
    BY <2>2 DEF PublishOK
  <2>7. \A m \in Commands : PublishOK(pc'[m], call'[m], ledger', files')
    BY <1>0, <2>1, <2>2, <2>6, OthersPublish
  <2>8. QED
    BY <2>1, <2>5, <2>7 DEF SafeInv
<1>3. QED
  BY <1>1, <1>2

\* finalize publishes what it has anchored, one file after the other.
LEMMA FinalizeSafe ==
  ASSUME SafeInv, NEW n \in Commands, TypeInv',
         \/ FinalizeAnchor(n) \/ FinalizeTaskFile(n) \/ FinalizeLatestFile(n)
         \/ FinalizeArchive(n)
  PROVE  SafeInv'
<1>0. /\ TypeInv /\ ledger \in Seq(Entry) /\ Extends(ledger, ledger)
      /\ CallOK(pc[n], call[n], ledger, now)
      /\ files \in [task : Commands \cup {NoReceipt}, latest : Commands \cup {NoReceipt}]
      /\ LedgerOK(ledger) /\ FilesOK(ledger, files, spec)
      /\ PublishOK(pc[n], call[n], ledger, files)
  BY TypeFacts DEF SafeInv, TypeInv, DataOK
<1>1. CASE FinalizeAnchor(n)
  <2>1. pc[n] = "anchor" /\ files' = files /\ spec' = spec
    BY <1>1 DEF FinalizeAnchor, At
  <2>2. CASE ledger' = ledger /\ Finish(n)
    <3>1. OnlyMoves(n) /\ pc'[n] = "done"
      BY <1>0, <2>2 DEF Finish, Goto, OnlyMoves, TypeInv
    <3>2. PublishOK(pc'[n], call'[n], ledger', files')
      BY <3>1 DEF PublishOK
    <3>3. \A m \in Commands : PublishOK(pc'[m], call'[m], ledger', files')
      BY <1>0, <2>1, <2>2, <3>1, <3>2, OthersPublish
    <3>4. QED
      BY <1>0, <2>1, <2>2, <3>3 DEF SafeInv
  <2>3. CASE /\ MayAnchor(n) /\ ledger' = ledger \o AnchorEntries(n)
             /\ Goto(n, "task file", call[n])
    <3>1. OnlyMoves(n) /\ pc'[n] = "task file" /\ call'[n] = call[n]
      BY <1>0, <2>3 DEF Goto, OnlyMoves, TypeInv
    <3>2. /\ LedgerOK(ledger') /\ Extends(ledger', ledger)
          /\ Anchored(call[n].receipt.digest, ledger')
      BY <1>0, <2>1, <2>3, AnchorKeeps
    <3>3. FilesOK(ledger', files', spec')
      BY <1>0, <2>1, <3>2, ExtendsKeeps
    <3>4. PublishOK(pc'[n], call'[n], ledger', files')
      BY <3>1, <3>2 DEF PublishOK
    <3>5. \A m \in Commands : PublishOK(pc'[m], call'[m], ledger', files')
      BY <2>1, <3>1, <3>2, <3>4, OthersPublish
    <3>6. QED
      BY <3>2, <3>3, <3>5 DEF SafeInv
  <2>4. QED
    BY <1>1, <2>2, <2>3 DEF FinalizeAnchor, Log
<1>2. \A d, e : Anchored(d, ledger) /\ Anchored(e, ledger) => d = e
  BY <1>0 DEF Anchored, LedgerOK
<1>3. CASE FinalizeTaskFile(n)
  <2>1. /\ pc[n] = "task file" /\ ledger' = ledger /\ spec' = spec
        /\ files' = [files EXCEPT !.task = call[n].receipt.digest]
        /\ Goto(n, "latest file", call[n])
    BY <1>3 DEF FinalizeTaskFile, At
  <2>2. call[n].receipt.digest \in Commands /\ Anchored(call[n].receipt.digest, ledger)
    BY <1>0, <2>1 DEF CallOK, ReceiptEntry, PublishOK
  <2>3. /\ files'.task = call[n].receipt.digest /\ files'.task # NoReceipt
        /\ files'.latest = files.latest
    BY <1>0, <2>1, <2>2, NoReceiptIsNone
  <2>4. files.latest # NoReceipt => files.latest = files'.task
    BY <1>0, <1>2, <2>2, <2>3 DEF FilesOK
  <2>5. FilesOK(ledger', files', spec')
    BY <1>0, <2>1, <2>2, <2>3, <2>4 DEF FilesOK
  <2>6. OnlyMoves(n) /\ pc'[n] = "latest file" /\ call'[n] = call[n]
    BY <1>0, <2>1 DEF Goto, OnlyMoves, TypeInv
  <2>7. PublishOK(pc'[n], call'[n], ledger', files')
    BY <2>1, <2>2, <2>3, <2>6 DEF PublishOK
  <2>8. \A m \in Commands : PublishOK(pc'[m], call'[m], ledger', files')
    BY <1>0, <2>1, <2>3, <2>6, <2>7, OthersPublish
  <2>9. QED
    BY <1>0, <2>1, <2>5, <2>8 DEF SafeInv
<1>4. CASE FinalizeLatestFile(n)
  <2>1. /\ pc[n] = "latest file" /\ ledger' = ledger /\ spec' = spec
        /\ files' = [files EXCEPT !.latest = call[n].receipt.digest]
        /\ Goto(n, "archive", call[n])
    BY <1>4 DEF FinalizeLatestFile, At
  <2>2. /\ call[n].receipt.digest \in Commands /\ Anchored(call[n].receipt.digest, ledger)
        /\ files.task # NoReceipt
    BY <1>0, <2>1 DEF CallOK, ReceiptEntry, PublishOK
  <2>3. /\ files'.latest = call[n].receipt.digest /\ files'.latest # NoReceipt
        /\ files'.task = files.task
    BY <1>0, <2>1, <2>2, NoReceiptIsNone
  <2>4. files'.latest = files'.task
    BY <1>0, <1>2, <2>2, <2>3 DEF FilesOK
  <2>5. FilesOK(ledger', files', spec')
    BY <1>0, <2>1, <2>3, <2>4 DEF FilesOK
  <2>6. OnlyMoves(n) /\ pc'[n] = "archive" /\ call'[n] = call[n]
    BY <1>0, <2>1 DEF Goto, OnlyMoves, TypeInv
  <2>7. PublishOK(pc'[n], call'[n], ledger', files')
    BY <2>1, <2>2, <2>3, <2>6 DEF PublishOK
  <2>8. \A m \in Commands : PublishOK(pc'[m], call'[m], ledger', files')
    BY <1>0, <2>1, <2>3, <2>6, <2>7, OthersPublish
  <2>9. QED
    BY <1>0, <2>1, <2>5, <2>8 DEF SafeInv
<1>5. CASE FinalizeArchive(n)
  <2>1. /\ pc[n] = "archive" /\ ledger' = ledger /\ files' = files /\ Finish(n)
        /\ spec' = [spec EXCEPT !.status = "completed"]
    BY <1>5 DEF FinalizeArchive, At
  <2>2. files.latest # NoReceipt
    BY <1>0, <2>1 DEF PublishOK
  <2>3. spec'.status = "completed"
    BY <1>0, <2>1 DEF TypeInv, DataOK
  <2>4. FilesOK(ledger', files', spec')
    BY <1>0, <2>1, <2>2, <2>3 DEF FilesOK
  <2>5. OnlyMoves(n) /\ pc'[n] = "done"
    BY <1>0, <2>1 DEF Finish, Goto, OnlyMoves, TypeInv
  <2>6. PublishOK(pc'[n], call'[n], ledger', files')
    BY <2>5 DEF PublishOK
  <2>7. \A m \in Commands : PublishOK(pc'[m], call'[m], ledger', files')
    BY <1>0, <2>1, <2>5, <2>6, OthersPublish
  <2>8. QED
    BY <1>0, <2>1, <2>4, <2>7 DEF SafeInv
<1>6. QED
  BY <1>1, <1>3, <1>4, <1>5

\* A process that starts or dies is harmless.
LEMMA ProcessesHarmless ==
  ASSUME TypeInv, NEW n \in Commands, Begin(n) \/ Crash(n)
  PROVE  Harmless(n)
<1>1. Ordinary(ledger, ledger)
  BY TypeFacts, OrdinaryOne
<1>2. "load" \in Steps \ Publishing
  BY DEF Steps, Publishing
<1>3. CASE Begin(n)
  <2>1. PICK kind \in Kinds :
          Goto(n, "load", [NoCall EXCEPT !.kind = kind, !.contract = spec.contract,
                                         !.status = spec.status])
    BY <1>3 DEF Begin
  <2>2. Ordinary(ledger', ledger) /\ UNCHANGED <<spec, files>>
    BY <1>1, <1>3 DEF Begin
  <2>3. QED
    BY <1>2, <2>1, <2>2, GoesHarmless
<1>4. CASE Crash(n)
  <2>1. Ordinary(ledger', ledger) /\ UNCHANGED <<spec, files>> /\ Finish(n)
    BY <1>1, <1>4 DEF Crash
  <2>2. QED
    BY <2>1, EndsHarmless
<1>5. QED
  BY <1>3, <1>4

\* The operator, who edits contracts and files, never touches the status, and
\* neither does the clock.
LEMMA WorldSafe ==
  ASSUME SafeInv, EditSpec \/ EditWork \/ Tick, TypeInv'
  PROVE  SafeInv'
<1>1. UNCHANGED <<ledger, files, pc, call>>
  BY DEF EditSpec, EditWork, Tick
<1>2. spec'.status = spec.status
  BY DEF EditSpec, EditWork, Tick, SafeInv, TypeInv, DataOK
<1>3. FilesOK(ledger', files', spec')
  BY <1>1, <1>2 DEF SafeInv, FilesOK
<1>4. QED
  BY <1>1, <1>3 DEF SafeInv

\* Every step is safe.
LEMMA SafeStep == SafeInv /\ [Next]_vars => SafeInv'
<1> SUFFICES ASSUME SafeInv, [Next]_vars PROVE SafeInv'
  OBVIOUS
<1>1. TypeInv /\ TypeInv'
  BY TypeStep DEF SafeInv
<1>2. CASE UNCHANGED vars
  BY <1>1, <1>2 DEF vars, SafeInv
<1>3. CASE EditSpec \/ EditWork \/ Tick
  BY <1>1, <1>3, WorldSafe
<1>4. ASSUME NEW n \in Commands, Begin(n) \/ Crash(n) PROVE SafeInv'
  BY <1>1, <1>4, ProcessesHarmless, HarmlessSafe
<1>5. ASSUME NEW n \in Commands, Step(n) PROVE SafeInv'
  BY <1>1, <1>5, StepsAreHarmless, HarmlessSafe, ApproveSafe, FinalizeSafe
<1>6. QED
  BY <1>2, <1>3, <1>4, <1>5 DEF Next

\* The commands of a task are safe in every reachable state.
LEMMA SafeInvariant == Spec => []SafeInv
  BY SafeInit, SafeStep, PTL DEF Spec

-----------------------------------------------------------------------------
(* What follows                                                             *)

\* However many finalize processes race, one receipt is anchored (OneReceipt).
THEOREM OnlyOneReceipt == Spec => []OneReceipt
<1>1. SafeInv => OneReceipt
  BY DEF SafeInv, LedgerOK, OneReceipt
<1>2. QED
  BY <1>1, SafeInvariant, PTL

\* The receipt files and the archived spec name what the ledger anchored
\* (NothingUnanchored), however finalize processes race or die.
THEOREM NothingIsUnanchored == Spec => []NothingUnanchored
<1>1. SafeInv => NothingUnanchored
  <2>1. SUFFICES ASSUME SafeInv PROVE NothingUnanchored
    OBVIOUS
  <2>2. ledger \in Seq(Entry) /\ LedgerOK(ledger) /\ FilesOK(ledger, files, spec)
    BY <2>1 DEF SafeInv, TypeInv
  <2>3. \A d : Anchored(d, ledger) => LastOf(ledger, {"complete"}) # 0
    <3>1. ASSUME NEW d, Anchored(d, ledger) PROVE Has(ledger, "complete")
      BY <2>2, <3>1 DEF Anchored, LedgerOK, Has
    <3>2. Has(ledger, "complete") => LastOf(ledger, {"complete"}) # 0
      BY <2>2, LastOfFinds DEF Has
    <3>3. QED
      BY <3>1, <3>2
  <2>4. \A d : Anchored(d, ledger) => d \in {ledger[i].digest : i \in Receipts(ledger)}
    BY DEF Anchored
  <2>5. QED
    BY <2>2, <2>3, <2>4 DEF NothingUnanchored, FilesOK
<1>2. QED
  BY <1>1, SafeInvariant, PTL

\* A spec that says approved has its approval in the ledger (ApprovalIsLogged).
THEOREM ApprovalsAreLogged == Spec => []ApprovalIsLogged
<1>1. SafeInv => ApprovalIsLogged
  <2>1. SUFFICES ASSUME SafeInv, spec.status = "approved"
                 PROVE  LastOf(ledger, {"approval"}) # 0
    BY DEF ApprovalIsLogged
  <2>2. ledger \in Seq(Entry) /\ Has(ledger, "approval")
    BY <2>1 DEF SafeInv, TypeInv, FilesOK
  <2>3. QED
    BY <2>2, LastOfFinds DEF Has
<1>2. QED
  BY <1>1, SafeInvariant, PTL

\* The completion stands right behind the receipt, which therefore authorises it.
LEMMA SafeRecoverable == SafeInv => ReceiptRecoverable
<1> DEFINE c == LastOf(ledger, {"complete"})
<1>1. SUFFICES ASSUME SafeInv, Receipts(ledger) # {},
                      \A i \in DOMAIN ledger :
                        ledger[i].type = "complete" => ledger[i].by = "finalize"
               PROVE  HasReceipt(ledger, TerminalAuthority(ledger))
  BY DEF ReceiptRecoverable
<1>2. /\ ledger \in Seq(Entry) /\ Len(ledger) \in Nat /\ DOMAIN ledger = 1..Len(ledger)
      /\ LedgerOK(ledger)
  BY <1>1 DEF SafeInv, TypeInv
<1>3. \E i \in DOMAIN ledger : ledger[i].type = "complete"
  BY <1>1, <1>2 DEF LedgerOK
<1>4. c # 0 /\ c \in 0..Len(ledger) /\ ledger[c].type = "complete"
  BY <1>2, <1>3, LastOfFinds, LastOfIs
<1>5. c \in DOMAIN ledger /\ c > 1 /\ ledger[c - 1].type = "receipt"
  BY <1>1, <1>2, <1>4 DEF LedgerOK
<1> HIDE DEF c
<1>6. /\ Before(ledger, c) \in Seq(Entry) /\ Len(Before(ledger, c)) = c - 1
      /\ Before(ledger, c)[c - 1].type = "receipt" /\ c - 1 \in DOMAIN Before(ledger, c)
  <2>1. /\ Before(ledger, c) \in Seq(Entry) /\ Len(Before(ledger, c)) = c - 1
        /\ \A j \in 1..(c - 1) : Before(ledger, c)[j] = ledger[j]
    <3>1. c \in 1..(Len(ledger) + 1)
      BY <1>2, <1>5
    <3>2. QED
      BY <1>2, <3>1, BeforeIs
  <2>2. c - 1 \in 1..(c - 1)
    BY <1>2, <1>5
  <2>3. QED
    BY <1>5, <2>1, <2>2
<1>7. LastOf(Before(ledger, c), Gates) = c - 1
  <2>1. Before(ledger, c)[c - 1].type \in Gates
    BY <1>6 DEF Gates
  <2>2. ((c - 1) + 1)..Len(Before(ledger, c)) = {}
    BY <1>2, <1>5, <1>6
  <2>3. QED
    BY <1>6, <2>1, <2>2, LastOfUnique
<1>8. c - 1 # 0
  BY <1>2, <1>5
<1>9. ReviewGateBefore(ledger, c) = [found |-> TRUE, valid |-> TRUE, at |-> c - 1]
  BY <1>5, <1>7, <1>8 DEF ReviewGateBefore
<1>10. TerminalAuthority(ledger) = [found |-> TRUE, valid |-> TRUE, at |-> c - 1]
  BY <1>4, <1>9 DEF TerminalAuthority, c
<1>11. QED
  BY <1>5, <1>10 DEF HasReceipt

\* Whatever follows it, a finalize run again finds the receipt of a task that
\* only finalize has completed (ReceiptRecoverable).
THEOREM ReceiptsAreRecoverable == Spec => []ReceiptRecoverable
  BY SafeRecoverable, SafeInvariant, PTL

\* Of a review: what its entry may say.
LEMMA ReviewEntries ==
  ASSUME NEW e \in Entry, e.type = "review"
  PROVE  e.status \in {"pass", "fail"} /\ e.by \in {"provider", "human"}
  BY DEF Entry, ReceiptEntry

\* In a ledger whose reviews are recorded as they are, the attempt of the
\* review at i is the entry in front of it.
LEMMA AttemptOfReview ==
  ASSUME NEW es \in Seq(Entry), NEW i \in DOMAIN es, i > 1, es[i - 1].type = "review_attempt"
  PROVE  AttemptBefore(es, i) = i - 1
<1>1. Len(es) \in Nat /\ i \in 1..Len(es) /\ i \in 1..(Len(es) + 1) /\ i - 1 \in 1..(i - 1)
  OBVIOUS
<1>2. /\ Before(es, i) \in Seq(Entry) /\ Len(Before(es, i)) = i - 1
      /\ Before(es, i)[i - 1] = es[i - 1]
  BY <1>1, BeforeIs
<1>3. i - 1 \in DOMAIN Before(es, i) /\ ((i - 1) + 1)..Len(Before(es, i)) = {}
  BY <1>1, <1>2
<1>4. Before(es, i)[i - 1].type \in Attempts
  BY <1>2 DEF Attempts
<1>5. LastOf(Before(es, i), Attempts) = i - 1
  BY <1>2, <1>3, <1>4, LastOfUnique
<1>6. QED
  BY <1>1, <1>5 DEF AttemptBefore

\* A provider's pass that authorises completion after a failed review rests on
\* something new (PassAfterFailIsNew), whichever commands raced.
THEOREM PassesAfterFailuresAreNew == Spec => []PassAfterFailIsNew
<1>1. SafeInv => PassAfterFailIsNew
  <2> DEFINE gate == CurrentReviewGate(ledger)
             g == gate.at
             before == Before(ledger, g)
             fail == LastOf(before, {"review"})
             r == LastOf(before, Verdicts)
  <2>1. SUFFICES ASSUME SafeInv, gate.valid, ledger[g].type = "review",
                        ledger[g].by = "provider", fail # 0
                 PROVE  \/ ledger[fail].status = "pass"
                        \/ ledger[fail].packet # ledger[g].packet
                        \/ \E i \in fail..g : ledger[i].type \in Repairs \cup Resets
    BY DEF PassAfterFailIsNew
  <2>2. /\ ledger \in Seq(Entry) /\ Len(ledger) \in Nat /\ DOMAIN ledger = 1..Len(ledger)
        /\ ReviewsAreRecorded(ledger)
    BY <2>1 DEF SafeInv, TypeInv, LedgerOK
  <2>3. gate = ReviewAuthority(ledger, g) /\ g \in 1..Len(ledger)
    <3> DEFINE last == LastOf(Before(ledger, Len(ledger) + 1), Gates)
    <3>1. g \in 1..Len(ledger)
      <4>1. Len(ledger) + 1 \in 1..(Len(ledger) + 1) /\ (Len(ledger) + 1) - 1 = Len(ledger)
        BY <2>2
      <4>2. g \in 0..Len(ledger) /\ g # 0
        BY <2>1, <2>2, <4>1, AuthorityIs DEF CurrentReviewGate
      <4>3. QED
        BY <2>2, <4>2
    <3>2. CASE last # 0 /\ ledger[last].type = "review"
      <4>1. gate = ReviewAuthority(ledger, last)
        BY <3>2 DEF CurrentReviewGate, ReviewGateBefore
      <4>2. gate.at = last
        BY <4>1 DEF ReviewAuthority
      <4>3. QED
        BY <3>1, <4>1, <4>2
    <3>3. CASE last # 0 /\ ledger[last].type = "receipt"
      <4>1. g = last
        BY <3>3 DEF CurrentReviewGate, ReviewGateBefore
      <4>2. QED
        BY <2>1, <3>3, <4>1
    <3>4. CASE ~(last # 0 /\ ledger[last].type \in {"review", "receipt"})
      <4>1. gate = NoAuthority
        BY <3>4 DEF CurrentReviewGate, ReviewGateBefore
      <4>2. QED
        BY <2>1, <4>1 DEF NoAuthority
    <3>5. QED
      BY <3>2, <3>3, <3>4
  <2>4. ~UnrepairedFailureBefore(ledger, g)
    <3>1. ledger[g].by # "human"
      BY <2>1
    <3>2. QED
      BY <2>1, <2>3, <3>1 DEF ReviewAuthority
  <2> HIDE DEF gate, g
  <2>5. /\ before \in Seq(Entry) /\ Len(before) = g - 1 /\ DOMAIN before = 1..(g - 1)
        /\ \A j \in 1..(g - 1) : before[j] = ledger[j]
    <3>1. g \in 1..(Len(ledger) + 1)
      BY <2>2, <2>3
    <3>2. /\ before \in Seq(Entry) /\ Len(before) = g - 1
          /\ \A j \in 1..(g - 1) : before[j] = ledger[j]
      BY <2>2, <3>1, BeforeIs
    <3>3. QED
      BY <3>2
  <2> HIDE DEF before
  <2>6. /\ fail \in 1..(g - 1) /\ before[fail].type = "review"
        /\ \A j \in (fail + 1)..(g - 1) : before[j].type # "review"
    BY <2>1, <2>2, <2>3, <2>5, LastOfIs
  <2>7. /\ r \in 0..(g - 1) /\ (r # 0 => before[r].type \in Verdicts)
        /\ \A j \in (r + 1)..(g - 1) : before[j].type \notin Verdicts
    BY <2>5, LastOfIs
  <2> HIDE DEF fail, r
  <2>8. r # 0 /\ fail <= r
    <3>1. "review" \in Verdicts
      BY DEF Verdicts
    <3>2. ~(fail \in (r + 1)..(g - 1))
      BY <2>6, <2>7, <3>1
    <3>3. QED
      BY <2>2, <2>3, <2>6, <2>7, <3>2
  <2>9. r \in 1..(g - 1) /\ ledger[r] = before[r] /\ ledger[fail] = before[fail] /\ r \in fail..g
    BY <2>2, <2>3, <2>5, <2>6, <2>7, <2>8
  <2>10. CASE ledger[r].type \in Repairs \cup Resets
    BY <2>9, <2>10
  <2>11. CASE ledger[r].type \notin Repairs \cup Resets
    <3>1. ledger[r].type = "review"
      BY <2>7, <2>8, <2>9, <2>11 DEF Verdicts
    <3>2. r = fail
      <4>1. ~(r \in (fail + 1)..(g - 1))
        BY <2>6, <2>9, <3>1
      <4>2. QED
        BY <2>2, <2>3, <2>6, <2>8, <2>9, <4>1
    <3>3. ledger[fail] \in Entry /\ fail \in DOMAIN ledger /\ g \in DOMAIN ledger
      BY <2>2, <2>3, <2>6
    <3>4. CASE ledger[fail].status # "fail"
      BY <2>6, <2>9, <3>3, <3>4, ReviewEntries
    <3>5. CASE ledger[fail].status = "fail"
      <4>1. AttemptChangedBetween(ledger, fail, g)
        BY <2>4, <2>8, <3>1, <3>2, <3>5 DEF UnrepairedFailureBefore, r, before
      <4>2. /\ g > 1 /\ ledger[g - 1].type = "review_attempt"
            /\ ledger[g - 1].out = ledger[g].packet
        BY <2>1, <2>2, <3>3 DEF ReviewsAreRecorded
      <4>3. /\ fail > 1 /\ ledger[fail - 1].type = "review_attempt"
            /\ ledger[fail - 1].out = ledger[fail].packet
        BY <2>2, <2>6, <2>9, <3>3, <3>5 DEF ReviewsAreRecorded
      <4>4. AttemptBefore(ledger, g) = g - 1 /\ AttemptBefore(ledger, fail) = fail - 1
        BY <2>2, <3>3, <4>2, <4>3, AttemptOfReview
      <4>5. ledger[fail - 1].out # ledger[g - 1].out
        BY <4>1, <4>4 DEF AttemptChangedBetween
      <4>6. QED
        BY <4>2, <4>3, <4>5
    <3>6. QED
      BY <3>4, <3>5
  <2>12. QED
    BY <2>10, <2>11
<1>2. QED
  BY <1>1, SafeInvariant, PTL

\* A step only moves its own process.
LEMMA StepsMoveOne ==
  ASSUME TypeInv, NEW n \in Commands, Begin(n) \/ Crash(n) \/ Step(n)
  PROVE  OnlyMoves(n)
<1>1. CASE Harmless(n)
  BY <1>1 DEF Harmless
<1>2. CASE ApproveAppend(n) \/ ApproveSave(n)
  BY <1>2 DEF ApproveAppend, ApproveSave, Finish, Goto, OnlyMoves, TypeInv
<1>3. CASE \/ FinalizeAnchor(n) \/ FinalizeTaskFile(n) \/ FinalizeLatestFile(n)
           \/ FinalizeArchive(n)
  BY <1>3 DEF FinalizeAnchor, FinalizeTaskFile, FinalizeLatestFile, FinalizeArchive,
              Finish, Goto, OnlyMoves, TypeInv
<1>4. QED
  BY <1>1, <1>2, <1>3, StepsAreHarmless, ProcessesHarmless

\* Only a reviewer's own transaction takes it from its set-up to its provider.
LEMMA OnlyStartStarts ==
  ASSUME TypeInv, NEW n \in Commands, pc[n] = "start", pc'[n] = "provider", [Next]_vars
  PROVE  ReviewStart(n)
<1>1. CASE UNCHANGED vars
  BY <1>1 DEF vars
<1>2. CASE EditSpec \/ EditWork \/ Tick
  BY <1>2 DEF EditSpec, EditWork, Tick
<1>3. ASSUME NEW m \in Commands, Begin(m) \/ Crash(m) PROVE ReviewStart(n)
  <2>1. OnlyMoves(m) /\ (Begin(m) => pc[m] = "idle") /\ (Crash(m) => pc'[m] = "done")
    BY <1>3, StepsMoveOne DEF Begin, Crash, Finish, Goto, TypeInv
  <2>2. CASE m = n
    BY <1>3, <2>1, <2>2
  <2>3. CASE m # n
    BY <2>1, <2>3 DEF OnlyMoves, TypeInv
  <2>4. QED
    BY <2>2, <2>3
<1>4. ASSUME NEW m \in Commands, Step(m) PROVE ReviewStart(n)
  <2>1. OnlyMoves(m)
    BY <1>4, StepsMoveOne
  <2>2. CASE m # n
    BY <2>1, <2>2 DEF OnlyMoves, TypeInv
  <2>3. CASE m = n
    <3>1. ~(\/ ApproveBaseline(n) \/ ApproveAppend(n) \/ ApproveSave(n)
            \/ BuildLoad(n) \/ BuildReload(n) \/ BuildOpen(n) \/ BuildRepair(n)
            \/ BuildRun(n) \/ BuildCriterion(n) \/ BuildVerdict(n))
      BY DEF ApproveBaseline, ApproveAppend, ApproveSave, BuildLoad, BuildReload, BuildOpen,
             BuildRepair, BuildRun, BuildCriterion, BuildVerdict, At
    <3>2. ~(\/ ReviewLoad(n) \/ ReviewPreflight(n) \/ ReviewPrepare(n) \/ ReviewSeal(n)
            \/ ProviderAnswers(n) \/ ReviewFails(n) \/ ReviewRecord(n)
            \/ RepairPacketLoad(n) \/ RepairPacketRecord(n)
            \/ HumanLoad(n) \/ HumanOverride(n) \/ HumanSign(n))
      BY DEF ReviewLoad, ReviewPreflight, ReviewPrepare, ReviewSeal, ProviderAnswers,
             ReviewFails, ReviewRecord, RepairPacketLoad, RepairPacketRecord, HumanLoad,
             HumanOverride, HumanSign, At
    <3>3. ~(\/ FinalizeLoad(n) \/ FinalizeSnapshot(n) \/ FinalizeAccept(n)
            \/ FinalizeEvidence(n) \/ FinalizeAnchor(n) \/ FinalizeTaskFile(n)
            \/ FinalizeLatestFile(n) \/ FinalizeArchive(n)
            \/ LegacyLoad(n) \/ LegacyComplete(n) \/ Stop(n))
      BY DEF FinalizeLoad, FinalizeSnapshot, FinalizeAccept, FinalizeEvidence, FinalizeAnchor,
             FinalizeTaskFile, FinalizeLatestFile, FinalizeArchive, LegacyLoad,
             LegacyComplete, Stop, At
    <3>4. QED
      BY <1>4, <2>3, <3>1, <3>2, <3>3 DEF Step
  <2>4. QED
    BY <2>2, <2>3
<1>5. QED
  BY <1>1, <1>2, <1>3, <1>4 DEF Next

\* No reviewer starts a provider while an attempt is running on a lease that
\* has not ended (StartsWhenFree), however much happened during its set-up.
THEOREM ReviewersStartWhenFree == Spec => StartsWhenFree
<1>1. TypeInv /\ [Next]_vars =>
        [\A n \in Commands :
           LET a == LatestAttempt(ledger)
           IN  (pc[n] = "start" /\ pc'[n] = "provider")
                 => (a # 0 /\ ledger[a].status = "running" => now >= ledger[a].lease)]_vars
  <2> DEFINE a == LatestAttempt(ledger)
  <2>1. SUFFICES ASSUME TypeInv, [Next]_vars, NEW n \in Commands,
                        pc[n] = "start", pc'[n] = "provider",
                        a # 0, ledger[a].status = "running"
                 PROVE  now >= ledger[a].lease
    OBVIOUS
  <2>2. ReviewStart(n)
    BY <2>1, OnlyStartStarts
  <2>3. ledger \in Seq(Entry) /\ CallOK(pc[n], call[n], ledger, now) /\ now \in Nat
    BY <2>1, TypeFacts
  <2>4. StartGate(n) # "attempt_running"
    <3>1. SUFFICES ASSUME StartGate(n) = "attempt_running" PROVE FALSE
      OBVIOUS
    <3>2. Finish(n)
      BY <2>2, <3>1 DEF ReviewStart
    <3>3. pc'[n] = "done"
      BY <2>1, <3>2 DEF Finish, Goto, TypeInv
    <3>4. QED
      BY <2>1, <3>3
  <2>5. Stale(ledger[a], call[n].now)
    BY <2>1, <2>3, <2>4, ProjectedAttempt DEF StartGate
  <2>6. call[n].now >= ledger[a].lease /\ call[n].now <= now /\ call[n].now \in 0..MaxTime
    BY <2>3, <2>5 DEF Stale, CallOK, Call
  <2>7. ledger[a].lease \in Nat
    <3>1. a \in 1..Len(ledger) /\ ledger[a].type = "review_attempt"
      BY <2>1, <2>3, LatestAttemptIs
    <3>2. ledger[a] \in Entry
      BY <2>3, <3>1
    <3>3. ledger[a] \in AttemptEntry
      BY <3>1, <3>2, TypedEntries
    <3>4. QED
      BY <3>3, BoundsAreNumbers DEF AttemptEntry
  <2>8. QED
    BY <2>3, <2>6, <2>7, BoundsAreNumbers
<1>2. QED
  BY <1>1, TypeInvariant, PTL DEF Spec, StartsWhenFree

-----------------------------------------------------------------------------
(* What a receipt rests on                                                  *)

\* A passing review in the first i entries, of the contract, was the gate's
\* authority at some moment of theirs.
Backed(review, contract, es, i) ==
  /\ review \in 1..i
  /\ es[review].by = "human" \/ es[review].contract = contract
  /\ \E k \in review..i :
       CurrentReviewGate(SubSeq(es, 1, k)) = [found |-> TRUE, valid |-> TRUE, at |-> review]

\* The steps of a finalize process on its way to a receipt.
Minting == {"snapshot", "accept", "anchor"}

MintOK(step, c, es) ==
  /\ step \in {"snapshot", "accept"} => Backed(c.review, c.contract, es, Len(es))
  /\ step = "anchor" =>
       \/ \E i \in Receipts(es) : es[i] = c.receipt
       \/ Backed(c.receipt.review, c.receipt.contract, es, Len(es))

RestsInv ==
  /\ SafeInv
  /\ \A i \in Receipts(ledger) : Backed(ledger[i].review, ledger[i].contract, ledger, i - 1)
  /\ \A n \in Commands : MintOK(pc[n], call[n], ledger)

\* What backs a receipt stays.
LEMMA BackedStays ==
  ASSUME NEW old \in Seq(Entry), NEW new, Extends(new, old)
  PROVE  /\ \A review, contract : \A i \in 0..Len(old), j \in 0..Len(new) :
              i <= j /\ Backed(review, contract, old, i) => Backed(review, contract, new, j)
         /\ \A step, c : MintOK(step, c, old) => MintOK(step, c, new)
<1>1. /\ Len(old) \in Nat /\ Len(new) \in Nat /\ Len(old) <= Len(new) /\ new \in Seq(Entry)
      /\ DOMAIN old = 1..Len(old) /\ DOMAIN new = 1..Len(new)
      /\ \A i \in DOMAIN old : i \in DOMAIN new /\ new[i] = old[i]
  BY DEF Extends
<1>2. ASSUME NEW k \in 1..Len(old) PROVE SubSeq(new, 1, k) = SubSeq(old, 1, k)
  BY <1>1
<1>3. ASSUME NEW review, NEW contract, NEW i \in 0..Len(old), NEW j \in 0..Len(new), i <= j,
             Backed(review, contract, old, i)
      PROVE  Backed(review, contract, new, j)
  <2>1. review \in 1..i /\ review \in 1..j /\ review \in DOMAIN old
    BY <1>1, <1>3 DEF Backed
  <2>2. PICK k \in review..i :
          CurrentReviewGate(SubSeq(old, 1, k)) = [found |-> TRUE, valid |-> TRUE, at |-> review]
    BY <1>3 DEF Backed
  <2>3. k \in 1..Len(old) /\ k \in review..j
    BY <1>1, <1>3, <2>1, <2>2
  <2>4. CurrentReviewGate(SubSeq(new, 1, k)) = [found |-> TRUE, valid |-> TRUE, at |-> review]
    BY <1>2, <2>2, <2>3
  <2>5. new[review] = old[review]
    BY <1>1, <2>1
  <2>6. QED
    BY <1>3, <2>1, <2>3, <2>4, <2>5 DEF Backed
<1>4. ASSUME NEW step, NEW c, MintOK(step, c, old) PROVE MintOK(step, c, new)
  <2>1. \A review, contract :
          Backed(review, contract, old, Len(old)) => Backed(review, contract, new, Len(new))
    <3>1. Len(old) \in 0..Len(old) /\ Len(new) \in 0..Len(new)
      BY <1>1
    <3>2. QED
      BY <1>1, <1>3, <3>1
  <2>2. ASSUME NEW i \in Receipts(old) PROVE i \in Receipts(new) /\ new[i] = old[i]
    BY <1>1, <2>2 DEF Receipts
  <2>3. QED
    BY <1>4, <2>1, <2>2 DEF MintOK
<1>5. QED
  BY <1>3, <1>4

\* The receipts that ordinary evidence leaves stay backed.
LEMMA OrdinaryBacked ==
  ASSUME NEW old \in Seq(Entry), NEW new, Ordinary(new, old),
         \A i \in Receipts(old) : Backed(old[i].review, old[i].contract, old, i - 1)
  PROVE  \A i \in Receipts(new) : Backed(new[i].review, new[i].contract, new, i - 1)
<1>1. /\ Len(old) \in Nat /\ Len(new) \in Nat /\ Len(old) <= Len(new) /\ Extends(new, old)
      /\ DOMAIN old = 1..Len(old) /\ DOMAIN new = 1..Len(new)
      /\ \A i \in DOMAIN old : i \in DOMAIN new /\ new[i] = old[i]
  BY DEF Ordinary, Extends
<1>2. ASSUME NEW i \in Receipts(new)
      PROVE  Backed(new[i].review, new[i].contract, new, i - 1)
  <2>1. i \in DOMAIN new /\ new[i].type = "receipt"
    BY <1>2 DEF Receipts
  <2>2. i \in DOMAIN old
    BY <1>1, <2>1 DEF Ordinary
  <2>3. i \in Receipts(old) /\ new[i] = old[i]
    BY <1>1, <2>1, <2>2 DEF Receipts
  <2>4. i - 1 \in 0..Len(old) /\ i - 1 \in 0..Len(new) /\ i - 1 <= i - 1
    BY <1>1, <2>2
  <2>5. Backed(old[i].review, old[i].contract, old, i - 1)
    BY <2>3
  <2>6. QED
    BY <1>1, <2>3, <2>4, <2>5, BackedStays
<1>3. QED
  BY <1>2

\* When the gate says passed and there is no receipt, it is by a passing
\* review, a human's or one of the contract.
LEMMA PassedByReview ==
  ASSUME NEW es \in Seq(Entry), NEW status, NEW contract, NEW material, NEW t,
         Project(es, status, contract, material, t) = "review_passed",
         ~HasReceipt(es, CurrentReviewGate(es))
  PROVE  Backed(CurrentReviewGate(es).at, contract, es, Len(es))
<1> DEFINE gate == CurrentReviewGate(es)
           g == LastOf(Before(es, Len(es) + 1), Gates)
<1>1. /\ gate.valid
      /\ es[gate.at].type = "review" => ~StaleAuthority(es[gate.at], contract, material)
  BY DEF Project
<1>2. es[gate.at].type # "receipt"
  BY <1>1 DEF HasReceipt
<1>3. g # 0 /\ es[g].type = "review"
  <2>1. CASE g # 0 /\ es[g].type = "receipt"
    <3>1. gate = [found |-> TRUE, valid |-> TRUE, at |-> g]
      BY <2>1 DEF CurrentReviewGate, ReviewGateBefore
    <3>2. gate.at = g
      BY <3>1
    <3>3. QED
      BY <1>2, <2>1, <3>2
  <2>2. CASE ~(g # 0 /\ es[g].type \in {"receipt", "review"})
    <3>1. gate = NoAuthority
      BY <2>2 DEF CurrentReviewGate, ReviewGateBefore
    <3>2. QED
      BY <1>1, <3>1 DEF NoAuthority
  <2>3. QED
    BY <2>1, <2>2
<1>4. gate = ReviewAuthority(es, g)
  BY <1>3 DEF CurrentReviewGate, ReviewGateBefore
<1>5. gate = [found |-> TRUE, valid |-> TRUE, at |-> g]
  <2> DEFINE passes == /\ es[g].status = "pass"
                      /\ IF es[g].by = "human" THEN AuditedOverride(es, g)
                                               ELSE ~UnrepairedFailureBefore(es, g)
  <2>1. gate = [found |-> TRUE, at |-> g, valid |-> passes]
    BY <1>4 DEF ReviewAuthority
  <2>2. passes \in BOOLEAN
    OBVIOUS
  <2> HIDE DEF passes, gate, g
  <2>3. gate.valid = passes
    BY <2>1
  <2>4. passes = TRUE
    BY <1>1, <2>2, <2>3
  <2>5. QED
    BY <2>1, <2>4
<1>6. gate.at = g
  BY <1>5
<1>7. g \in 1..Len(es) /\ Len(es) \in g..Len(es)
  <2>1. gate.at \in 0..Len(es) /\ Len(es) \in Nat
    BY AuthoritiesPointIntoLedger
  <2>2. QED
    BY <1>3, <1>6, <2>1
<1>8. es[g].by = "human" \/ es[g].contract = contract
  BY <1>1, <1>3, <1>6 DEF StaleAuthority
<1>9. SubSeq(es, 1, Len(es)) = es
  OBVIOUS
<1> HIDE DEF gate, g
<1>10. CurrentReviewGate(SubSeq(es, 1, Len(es))) = [found |-> TRUE, valid |-> TRUE, at |-> g]
  BY <1>5, <1>9 DEF gate
<1>11. Backed(g, contract, es, Len(es))
  BY <1>7, <1>8, <1>10 DEF Backed
<1>12. QED
  BY <1>6, <1>11 DEF gate

\* Only finalize mints.
LEMMA OnlyFinalizeMints ==
  ASSUME TypeInv, NEW n \in Commands, Begin(n) \/ Crash(n) \/ Step(n)
  PROVE  \/ FinalizeLoad(n) \/ FinalizeSnapshot(n) \/ FinalizeAccept(n)
         \/ pc'[n] \notin Minting
<1>0. pc \in [Commands -> Steps]
  BY DEF TypeInv
<1>1. CASE Begin(n) \/ Crash(n)
  BY <1>0, <1>1 DEF Begin, Crash, Finish, Goto, Minting
<1>2. CASE \/ ApproveBaseline(n) \/ ApproveAppend(n) \/ ApproveSave(n)
           \/ BuildLoad(n) \/ BuildReload(n) \/ BuildOpen(n) \/ BuildRepair(n)
           \/ BuildRun(n) \/ BuildCriterion(n) \/ BuildVerdict(n)
  BY <1>0, <1>2 DEF ApproveBaseline, ApproveAppend, ApproveSave, BuildLoad, BuildReload, BuildOpen,
     BuildRepair, BuildRun, BuildCriterion, BuildVerdict, Finish, Goto, Minting
<1>3. CASE \/ ReviewLoad(n) \/ ReviewPreflight(n) \/ ReviewPrepare(n) \/ ReviewSeal(n)
           \/ ReviewStart(n) \/ ProviderAnswers(n) \/ ReviewFails(n) \/ ReviewRecord(n)
  BY <1>0, <1>3 DEF ReviewLoad, ReviewPreflight, ReviewPrepare, ReviewSeal, ReviewStart,
     ProviderAnswers, ReviewFails, ReviewRecord, Finish, Goto, Minting
<1>4. CASE \/ RepairPacketLoad(n) \/ RepairPacketRecord(n)
           \/ HumanLoad(n) \/ HumanOverride(n) \/ HumanSign(n)
  BY <1>0, <1>4 DEF RepairPacketLoad, RepairPacketRecord, HumanLoad, HumanOverride, HumanSign,
     Finish, Goto, Minting
<1>5. CASE \/ FinalizeEvidence(n) \/ FinalizeAnchor(n) \/ FinalizeTaskFile(n)
           \/ FinalizeLatestFile(n) \/ FinalizeArchive(n)
           \/ LegacyLoad(n) \/ LegacyComplete(n) \/ Stop(n)
  BY <1>0, <1>5 DEF FinalizeEvidence, FinalizeAnchor, FinalizeTaskFile, FinalizeLatestFile,
     FinalizeArchive, LegacyLoad, LegacyComplete, Stop, Finish, Goto, Minting
<1>6. QED
  BY <1>1, <1>2, <1>3, <1>4, <1>5 DEF Step

\* And what it mints is backed.
LEMMA MintsBacked ==
  ASSUME RestsInv, NEW n \in Commands,
         FinalizeLoad(n) \/ FinalizeSnapshot(n) \/ FinalizeAccept(n)
  PROVE  MintOK(pc'[n], call'[n], ledger)
<1>0. /\ TypeInv /\ ledger \in Seq(Entry) /\ call[n] \in Call
      /\ pc \in [Commands -> Steps] /\ call \in [Commands -> Call]
      /\ MintOK(pc[n], call[n], ledger)
  BY DEF RestsInv, SafeInv, TypeInv
<1>1. CASE Finish(n)
  BY <1>0, <1>1 DEF Finish, Goto, MintOK
<1>2. CASE FinalizeLoad(n)
  <2> DEFINE terminal == TerminalAuthority(ledger)
             current == CurrentReviewGate(ledger)
             authority == IF HasReceipt(ledger, terminal) THEN terminal ELSE current
             loaded == [call[n] EXCEPT !.seen = Len(ledger)]
  <2>1. loaded \in Call /\ loaded.contract = call[n].contract
    <3>1. Len(ledger) \in Nat
      BY <1>0
    <3>2. QED
      BY <1>0, <3>1 DEF Call
  <2>2. CASE /\ HasReceipt(ledger, authority)
             /\ Goto(n, "anchor", [loaded EXCEPT !.receipt = ledger[authority.at]])
    <3>1. authority.at \in Receipts(ledger)
      <4>1. authority.at \in 1..Len(ledger) /\ ledger[authority.at].type = "receipt"
        BY <1>0, <2>2, AuthoritiesPointIntoLedger
      <4> HIDE DEF authority
      <4>2. QED
        BY <1>0, <4>1 DEF Receipts
    <3> HIDE DEF authority, loaded
    <3>2. pc'[n] = "anchor" /\ call'[n].receipt = ledger[authority.at]
      BY <1>0, <2>1, <2>2 DEF Goto, Call
    <3>3. QED
      BY <3>1, <3>2 DEF MintOK
  <2>3. CASE /\ ~HasReceipt(ledger, authority)
             /\ Gate(n, Status(n, ledger)) = "review_passed"
             /\ Goto(n, "snapshot", [loaded EXCEPT !.review = current.at])
    <3>1. ~HasReceipt(ledger, current)
      BY <2>3
    <3>2. Backed(current.at, call[n].contract, ledger, Len(ledger))
      BY <1>0, <2>3, <3>1, PassedByReview DEF Gate
    <3> HIDE DEF current, loaded
    <3>3. /\ pc'[n] = "snapshot" /\ call'[n].review = current.at
          /\ call'[n].contract = call[n].contract
      BY <1>0, <2>1, <2>3 DEF Goto, Call
    <3>4. QED
      BY <3>2, <3>3 DEF MintOK
  <2>4. QED
    BY <1>1, <1>2, <2>2, <2>3 DEF FinalizeLoad
<1>3. CASE FinalizeSnapshot(n)
  <2>1. pc[n] = "snapshot" /\ Goto(n, "accept", [call[n] EXCEPT !.material = work])
    BY <1>3 DEF FinalizeSnapshot, At
  <2>2. /\ pc'[n] = "accept" /\ call'[n].review = call[n].review
        /\ call'[n].contract = call[n].contract
    BY <1>0, <2>1 DEF Goto, Call
  <2>3. QED
    BY <1>0, <2>1, <2>2 DEF MintOK
<1>4. CASE FinalizeAccept(n)
  <2>1. pc[n] = "accept"
    BY <1>4 DEF FinalizeAccept, At
  <2>2. CASE pc'[n] = "evidence"
    BY <2>2 DEF MintOK
  <2>3. CASE Goto(n, "anchor",
                  [call[n] EXCEPT !.verdict = "pass",
                                  !.receipt = Receipt(n, LedgerHead(Loaded(n)), call[n].review,
                                                      call[n].contract, call[n].material)])
    <3>1. /\ pc'[n] = "anchor"
          /\ call'[n].receipt = Receipt(n, LedgerHead(Loaded(n)), call[n].review,
                                        call[n].contract, call[n].material)
      BY <1>0, <2>3 DEF Goto, Call
    <3>2. call'[n].receipt.review = call[n].review /\ call'[n].receipt.contract = call[n].contract
      BY <3>1 DEF Receipt
    <3>3. QED
      BY <1>0, <2>1, <3>1, <3>2 DEF MintOK
  <2>4. QED
    BY <1>0, <1>4, <2>2, <2>3 DEF FinalizeAccept, Goto
<1>5. QED
  BY <1>2, <1>3, <1>4

\* The receipt that is anchored is backed.
LEMMA AnchorsBacked ==
  ASSUME RestsInv, NEW n \in Commands, FinalizeAnchor(n)
  PROVE  \A i \in Receipts(ledger') : Backed(ledger'[i].review, ledger'[i].contract, ledger', i - 1)
<1> DEFINE receipt == call[n].receipt
           evidence == Criterion("pass", call[n].contract)
           tail == IF LastOf(ledger, {"complete"}) # 0 THEN << >> ELSE <<Completion("finalize")>>
<1>0. /\ TypeInv /\ ledger \in Seq(Entry) /\ Len(ledger) \in Nat /\ DOMAIN ledger = 1..Len(ledger)
      /\ LedgerOK(ledger) /\ MintOK(pc[n], call[n], ledger)
      /\ \A i \in Receipts(ledger) : Backed(ledger[i].review, ledger[i].contract, ledger, i - 1)
  BY DEF RestsInv, SafeInv, TypeInv
<1>1. pc[n] = "anchor"
  BY DEF FinalizeAnchor, At
<1>2. CASE ledger' = ledger
  BY <1>0, <1>2
<1>3. CASE MayAnchor(n) /\ ledger' = ledger \o AnchorEntries(n)
  <2>1. CASE \E i \in Receipts(ledger) : ledger[i].digest = receipt.digest
    <3>1. \E i \in DOMAIN ledger : ledger[i].type = "complete"
      BY <1>0, <2>1 DEF LedgerOK
    <3>2. LastOf(ledger, {"complete"}) # 0
      BY <1>0, <3>1, LastOfFinds
    <3>3. AnchorEntries(n) = << >> \o << >>
      BY <2>1, <3>2 DEF AnchorEntries
    <3>4. ledger' = ledger
      BY <1>0, <1>3, <3>3
    <3>5. QED
      BY <1>2, <3>4
  <2>2. CASE ~\E i \in Receipts(ledger) : ledger[i].digest = receipt.digest
    <3>1. Receipts(ledger) = {}
      BY <1>3, <2>2 DEF MayAnchor
    <3>2. Backed(receipt.review, receipt.contract, ledger, Len(ledger))
      BY <1>0, <1>1, <3>1 DEF MintOK
    <3>3. Extends(ledger', ledger)
      BY <1>0, <1>1, <1>3, AnchorTypes, LogExtends
    <3>4. /\ receipt \in Entry /\ evidence \in Entry /\ tail \in Seq(Entry)
          /\ evidence.type = "criterion" /\ \A i \in 1..Len(tail) : tail[i].type = "complete"
      <4>1. CallOK("anchor", call[n], ledger, now)
        BY <1>0, <1>1, TypeFacts
      <4>2. call[n].receipt \in ReceiptEntry /\ call[n].contract \in Contracts
        BY <4>1 DEF CallOK
      <4>3. /\ receipt \in Entry
            /\ evidence \in Entry /\ evidence.type = "criterion"
        <5>1. receipt \in Entry
          BY <4>2 DEF Entry
        <5>2. evidence \in Entry
          BY <4>2, EntryTypes
        <5>3. evidence.type = "criterion"
          BY <4>2, ConstructedTypes
        <5>4. QED
          BY <5>1, <5>2, <5>3
      <4>4. Completion("finalize") \in Entry /\ Completion("finalize").type = "complete"
        BY EntryTypes DEF Completion
      <4>5. QED
        BY <4>3, <4>4
    <3>5. AnchorEntries(n) = <<evidence, receipt>> \o tail
      BY <2>2 DEF AnchorEntries
    <3> HIDE DEF receipt, evidence, tail
    <3>6. <<evidence, receipt>> \in Seq(Entry) /\ Len(<<evidence, receipt>>) = 2
      BY <3>4
    <3>7. ledger' = ledger \o (<<evidence, receipt>> \o tail)
      BY <1>3, <3>5
    <3>8. /\ Len(tail) \in Nat /\ Len(ledger') = Len(ledger) + 2 + Len(tail)
          /\ DOMAIN ledger' = 1..(Len(ledger) + 2 + Len(tail))
          /\ ledger'[Len(ledger) + 1] = evidence /\ ledger'[Len(ledger) + 2] = receipt
      BY <1>0, <3>4, <3>6, <3>7
    <3>9. \A i \in DOMAIN ledger : ledger'[i] = ledger[i] /\ ledger[i].type # "receipt"
      BY <1>0, <3>1, <3>3 DEF Extends, Receipts
    <3>10. ASSUME NEW i \in DOMAIN ledger', i > Len(ledger) + 2 PROVE ledger'[i].type = "complete"
      <4>1. i - (Len(ledger) + 2) \in 1..Len(tail)
        BY <1>0, <3>8, <3>10
      <4>2. ledger'[i] = tail[i - (Len(ledger) + 2)]
        BY <1>0, <3>4, <3>6, <3>7, <3>8, <3>10
      <4>3. QED
        BY <3>4, <4>1, <4>2
    <3>11. Receipts(ledger') \subseteq {Len(ledger) + 2}
      <4>1. SUFFICES ASSUME NEW i \in DOMAIN ledger', ledger'[i].type = "receipt"
                     PROVE  i = Len(ledger) + 2
        BY DEF Receipts
      <4>2. i \notin DOMAIN ledger /\ ~(i > Len(ledger) + 2) /\ i # Len(ledger) + 1
        BY <3>4, <3>8, <3>9, <3>10, <4>1
      <4>3. QED
        BY <1>0, <3>8, <4>2
    <3>12. Backed(receipt.review, receipt.contract, ledger', Len(ledger) + 1)
      <4>1. /\ Len(ledger) \in 0..Len(ledger) /\ Len(ledger) + 1 \in 0..Len(ledger')
            /\ Len(ledger) <= Len(ledger) + 1
        BY <1>0, <3>8
      <4>2. QED
        BY <1>0, <3>2, <3>3, <4>1, BackedStays
    <3>13. (Len(ledger) + 2) - 1 = Len(ledger) + 1
      BY <1>0
    <3>14. QED
      BY <3>8, <3>11, <3>12, <3>13
  <2>3. QED
    BY <2>1, <2>2
<1>4. QED
  BY <1>2, <1>3 DEF FinalizeAnchor, Log

\* No process is about to mint at the start, and there is no receipt.
LEMMA RestsInit == Init => RestsInv
<1> SUFFICES ASSUME Init PROVE RestsInv
  OBVIOUS
<1>1. Receipts(ledger) = {}
  BY HistoriesAreLedgers DEF Init, IsHistory, Receipts
<1>2. \A n \in Commands : MintOK(pc[n], call[n], ledger)
  BY DEF Init, MintOK
<1>3. QED
  BY <1>1, <1>2, SafeInit DEF RestsInv

\* A step leaves every receipt backed and its ledger extended.
LEMMA StepsBacked ==
  ASSUME RestsInv, NEW n \in Commands, Begin(n) \/ Crash(n) \/ Step(n)
  PROVE  /\ Extends(ledger', ledger)
         /\ \A i \in Receipts(ledger') :
              Backed(ledger'[i].review, ledger'[i].contract, ledger', i - 1)
<1>0. /\ TypeInv /\ ledger \in Seq(Entry) /\ Ordinary(ledger, ledger)
      /\ \A i \in Receipts(ledger) : Backed(ledger[i].review, ledger[i].contract, ledger, i - 1)
  BY OrdinaryOne DEF RestsInv, SafeInv, TypeInv
<1>1. CASE Ordinary(ledger', ledger)
  BY <1>0, <1>1, OrdinaryBacked DEF Ordinary
<1>2. CASE ApproveAppend(n)
  <2>1. Approval \in Entry /\ Approval.type \in PlainTypes
    BY EntryTypes, ConstructedTypes DEF PlainTypes
  <2>2. Ordinary(ledger', ledger)
    BY <1>0, <1>2, <2>1, OrdinaryOne DEF ApproveAppend, Log
  <2>3. QED
    BY <1>1, <2>2
<1>3. CASE \/ ApproveSave(n) \/ FinalizeTaskFile(n) \/ FinalizeLatestFile(n)
           \/ FinalizeArchive(n)
  <2>1. ledger' = ledger
    BY <1>3 DEF ApproveSave, FinalizeTaskFile, FinalizeLatestFile, FinalizeArchive
  <2>2. QED
    BY <1>0, <1>1, <2>1
<1>4. CASE FinalizeAnchor(n)
  <2>1. Extends(ledger', ledger)
    <3>1. pc[n] = "anchor" /\ Extends(ledger, ledger)
      BY <1>0, <1>4, LogExtends DEF FinalizeAnchor, At
    <3>2. Extends(ledger \o AnchorEntries(n), ledger)
      BY <1>0, <3>1, AnchorTypes, LogExtends
    <3>3. QED
      BY <1>4, <3>1, <3>2 DEF FinalizeAnchor, Log
  <2>2. QED
    BY <1>4, <2>1, AnchorsBacked
<1>5. QED
  BY <1>0, <1>1, <1>2, <1>3, <1>4, StepsAreHarmless, ProcessesHarmless DEF Harmless

\* Every step keeps what receipts rest on.
LEMMA RestsStep == RestsInv /\ [Next]_vars => RestsInv'
<1> SUFFICES ASSUME RestsInv, [Next]_vars PROVE RestsInv'
  OBVIOUS
<1>1. SafeInv' /\ TypeInv /\ ledger \in Seq(Entry)
  BY SafeStep DEF RestsInv, SafeInv, TypeInv
<1>2. CASE UNCHANGED vars \/ EditSpec \/ EditWork \/ Tick
  <2>1. ledger' = ledger /\ pc' = pc /\ call' = call
    BY <1>2 DEF vars, EditSpec, EditWork, Tick
  <2>2. QED
    BY <1>1, <2>1 DEF RestsInv
<1>3. ASSUME NEW n \in Commands, Begin(n) \/ Crash(n) \/ Step(n) PROVE RestsInv'
  <2>1. /\ OnlyMoves(n) /\ Extends(ledger', ledger)
        /\ \A i \in Receipts(ledger') :
             Backed(ledger'[i].review, ledger'[i].contract, ledger', i - 1)
    BY <1>1, <1>3, StepsMoveOne, StepsBacked
  <2>2. MintOK(pc'[n], call'[n], ledger')
    <3>1. CASE FinalizeLoad(n) \/ FinalizeSnapshot(n) \/ FinalizeAccept(n)
      BY <1>1, <2>1, <3>1, MintsBacked, BackedStays
    <3>2. CASE pc'[n] \notin Minting
      BY <3>2 DEF Minting, MintOK
    <3>3. QED
      BY <1>1, <1>3, <3>1, <3>2, OnlyFinalizeMints
  <2>3. ASSUME NEW m \in Commands, m # n PROVE MintOK(pc'[m], call'[m], ledger')
    <3>1. pc'[m] = pc[m] /\ call'[m] = call[m]
      BY <1>1, <2>1, <2>3 DEF OnlyMoves, TypeInv
    <3>2. MintOK(pc[m], call[m], ledger)
      BY DEF RestsInv
    <3>3. QED
      BY <1>1, <2>1, <3>1, <3>2, BackedStays
  <2>4. \A m \in Commands : MintOK(pc'[m], call'[m], ledger')
    BY <2>2, <2>3
  <2>5. QED
    BY <1>1, <2>1, <2>4 DEF RestsInv
<1>4. QED
  BY <1>2, <1>3 DEF Next

\* A receipt rests on a passing review that was the gate's authority before
\* the receipt was anchored, and signs the contract that was reviewed
\* (ReceiptRestsOnReview), whatever happened between the two.
THEOREM ReceiptsRestOnReviews == Spec => []ReceiptRestsOnReview
<1>1. RestsInv => ReceiptRestsOnReview
  BY DEF RestsInv, Backed, ReceiptRestsOnReview
<1>2. Spec => []RestsInv
  BY RestsInit, RestsStep, PTL DEF Spec
<1>3. QED
  BY <1>1, <1>2, PTL

-----------------------------------------------------------------------------
(* Where status leads                                                       *)

\* Following the advice as often as the property does.
LEMMA FollowedIs ==
  ASSUME NEW v, NEW repairs
  PROVE  Followed(v, repairs) =
           Follow(Follow(Follow(Follow(Follow(Follow(v, repairs), repairs), repairs), repairs), repairs), repairs)
<1> DEFINE v1 == Follow(v, repairs)  v2 == Follow(v1, repairs)  v3 == Follow(v2, repairs)
           v4 == Follow(v3, repairs)  v5 == Follow(v4, repairs)  v6 == Follow(v5, repairs)
           g == [k \in 0..Advices |->
                   IF k = 0 THEN v ELSE IF k = 1 THEN v1 ELSE IF k = 2 THEN v2 ELSE IF k = 3 THEN v3
                   ELSE IF k = 4 THEN v4 ELSE IF k = 5 THEN v5 ELSE v6]
           f == CHOOSE f : f = [k \in 0..Advices |-> IF k = 0 THEN v ELSE Follow(f[k - 1], repairs)]
<1>1. 0..Advices = {0, 1, 2, 3, 4, 5, 6}
  BY DEF Advices
<1>2. g[0] = v /\ g[1] = v1 /\ g[2] = v2 /\ g[3] = v3 /\ g[4] = v4 /\ g[5] = v5 /\ g[6] = v6
  BY <1>1
<1>3. g = [k \in 0..Advices |-> IF k = 0 THEN v ELSE Follow(g[k - 1], repairs)]
  <2>1. \A k \in 0..Advices : g[k] = IF k = 0 THEN v ELSE Follow(g[k - 1], repairs)
    <3> HIDE DEF g
    <3>1. QED
      BY <1>1, <1>2
  <2>2. QED
    BY <2>1
<1> HIDE DEF g
<1>4. f = [k \in 0..Advices |-> IF k = 0 THEN v ELSE Follow(f[k - 1], repairs)]
  BY <1>3
<1>5. Followed(v, repairs) = f[Advices]
  BY DEF Followed
<1> HIDE DEF f
<1>6. f[0] = v /\ f[1] = v1 /\ f[2] = v2 /\ f[3] = v3 /\ f[4] = v4 /\ f[5] = v5 /\ f[6] = v6
  BY <1>1, <1>4
<1>7. QED
  BY <1>5, <1>6 DEF Advices

\* A ledger is a sequence of entries; the ones that are followed here may be of
\* other material, and leased for longer, than the bounds of the model allow.
Evidence(es) == \E S : es \in Seq(S)

LEMMA EvidenceGrows ==
  ASSUME NEW es, Evidence(es), NEW e
  PROVE  /\ Evidence(Append(es, e)) /\ Len(es) \in Nat
         /\ Len(Append(es, e)) = Len(es) + 1 /\ Append(es, e)[Len(es) + 1] = e
         /\ \A i \in 1..Len(es) : Append(es, e)[i] = es[i]
         /\ es \o <<e>> = Append(es, e)
<1>1. PICK S : es \in Seq(S)
  BY DEF Evidence
<1>2. es \in Seq(S \cup {e})
  BY <1>1
<1>3. Append(es, e) \in Seq(S \cup {e})
  BY <1>2
<1>4. es \o <<e>> = Append(es, e)
  BY <1>2, SMTT(60)
<1>5. QED
  BY <1>2, <1>3, <1>4 DEF Evidence

\* The newest entry of the types, when one more entry is there.
LEMMA LastAppended ==
  ASSUME NEW es, Evidence(es), NEW e, NEW types
  PROVE  LastOf(Append(es, e), types) = IF e.type \in types THEN Len(es) + 1 ELSE LastOf(es, types)
<1> DEFINE new == Append(es, e)  last == LastOf(es, types)
<1>1. PICK S : new \in Seq(S)
  BY EvidenceGrows DEF Evidence
<1>2. PICK T : es \in Seq(T)
  BY DEF Evidence
<1>3. Len(es) \in Nat /\ Len(new) = Len(es) + 1 /\ new[Len(es) + 1] = e /\ \A i \in 1..Len(es) : new[i] = es[i]
  BY EvidenceGrows
<1> HIDE DEF new
<1>4. /\ last \in 0..Len(es) /\ (last # 0 => es[last].type \in types)
      /\ \A j \in (last + 1)..Len(es) : es[j].type \notin types
  BY <1>2, LastOfIs
<1>5. DOMAIN new = 1..Len(new)
  BY <1>1
<1>6. CASE e.type \in types
  <2>1. Len(es) + 1 \in DOMAIN new /\ \A j \in (Len(es) + 1 + 1)..Len(new) : new[j].type \notin types
    BY <1>3, <1>5
  <2>2. LastOf(new, types) = Len(es) + 1
    BY <1>1, <1>3, <1>6, <2>1, LastOfUnique
  <2>3. QED
    BY <1>6, <2>2 DEF new
<1>7. CASE e.type \notin types /\ last # 0
  <2>1. last \in DOMAIN new /\ new[last].type \in types /\ \A j \in (last + 1)..Len(new) : new[j].type \notin types
    BY <1>3, <1>4, <1>5, <1>7
  <2>2. LastOf(new, types) = last
    BY <1>1, <2>1, LastOfUnique
  <2>3. QED
    BY <1>7, <2>2 DEF new
<1>8. CASE e.type \notin types /\ last = 0
  <2>1. \A j \in DOMAIN new : new[j].type \notin types
    BY <1>3, <1>4, <1>5, <1>8
  <2>2. LastOf(new, types) = 0
    BY <1>1, <2>1, LastOfFinds
  <2>3. QED
    BY <1>8, <2>2 DEF new
<1>9. QED
  BY <1>6, <1>7, <1>8

\* What stood before a position stays there.
LEMMA BeforeAppended ==
  ASSUME NEW es, Evidence(es), NEW e
  PROVE  /\ Before(Append(es, e), Len(es) + 1) = es
         /\ Before(es, Len(es) + 1) = es
         /\ \A i \in 1..Len(es) : Before(Append(es, e), i) = Before(es, i)
<1> DEFINE new == Append(es, e)
<1>1. PICK S : es \in Seq(S) /\ new \in Seq(S)
  <2>1. PICK T : es \in Seq(T)
    BY DEF Evidence
  <2>2. es \in Seq(T \cup {e}) /\ Append(es, e) \in Seq(T \cup {e})
    BY <2>1
  <2>3. QED
    BY <2>2
<1>2. Len(es) \in Nat /\ Len(new) = Len(es) + 1 /\ \A i \in 1..Len(es) : new[i] = es[i]
  BY EvidenceGrows
<1> HIDE DEF new
<1>3. /\ Before(new, Len(es) + 1) \in Seq(S) /\ Len(Before(new, Len(es) + 1)) = Len(es)
      /\ \A j \in 1..Len(es) : Before(new, Len(es) + 1)[j] = es[j]
  <2>1. Len(es) + 1 \in 1..(Len(new) + 1) /\ (Len(es) + 1) - 1 = Len(es)
    BY <1>2
  <2>2. QED
    BY <1>1, <1>2, <2>1, BeforeIs
<1>4. /\ Before(es, Len(es) + 1) \in Seq(S) /\ Len(Before(es, Len(es) + 1)) = Len(es)
      /\ \A j \in 1..Len(es) : Before(es, Len(es) + 1)[j] = es[j]
  <2>1. Len(es) + 1 \in 1..(Len(es) + 1) /\ (Len(es) + 1) - 1 = Len(es)
    BY <1>2
  <2>2. QED
    BY <1>1, <1>2, <2>1, BeforeIs
<1>5. ASSUME NEW s \in Seq(S), NEW t \in Seq(S), Len(s) = Len(t), \A j \in 1..Len(t) : s[j] = t[j]
      PROVE  s = t
  BY <1>5
<1>6. Before(new, Len(es) + 1) = es
  BY <1>1, <1>3, <1>5
<1>7. Before(es, Len(es) + 1) = es
  BY <1>1, <1>4, <1>5
<1>8. ASSUME NEW i \in 1..Len(es) PROVE Before(new, i) = Before(es, i)
  <2>1. i \in 1..(Len(new) + 1) /\ i \in 1..(Len(es) + 1) /\ \A j \in 1..(i - 1) : j \in 1..Len(es)
    BY <1>2
  <2>2. Before(new, i) \in Seq(S) /\ Len(Before(new, i)) = i - 1 /\ \A j \in 1..(i - 1) : Before(new, i)[j] = new[j]
    BY <1>1, <2>1, BeforeIs
  <2>3. Before(es, i) \in Seq(S) /\ Len(Before(es, i)) = i - 1 /\ \A j \in 1..(i - 1) : Before(es, i)[j] = es[j]
    BY <1>1, <2>1, BeforeIs
  <2>4. QED
    BY <1>2, <1>5, <2>1, <2>2, <2>3
<1>9. QED
  BY <1>6, <1>7, <1>8 DEF new

\* What one more entry makes of the lifecycle.
LEMMA LifecycleAppended ==
  ASSUME NEW es, Evidence(es), NEW e, NEW status, NEW contract
  PROVE  /\ AcceptancePassed(Append(es, e), contract) <=>
              IF e.type = "criterion"
              THEN e.status = "pass" /\ e.criterion = CriterionOf[contract]
              ELSE AcceptancePassed(es, contract)
         /\ e.type = "approval" => Lifecycle(Append(es, e), status) = "approved"
         /\ e.type = "build"    => Lifecycle(Append(es, e), status) = e.status
         /\ e.type = "review"   => Lifecycle(Append(es, e), status) = "review"
         /\ e.type = "complete" => Lifecycle(Append(es, e), status) = "completed"
         /\ e.type \notin LifecycleTypes => Lifecycle(Append(es, e), status) = Lifecycle(es, status)
<1> DEFINE new == Append(es, e)
<1>1. Len(es) \in Nat /\ new[Len(es) + 1] = e /\ \A i \in 1..Len(es) : new[i] = es[i]
  BY EvidenceGrows
<1>2. ASSUME NEW types
      PROVE  /\ LastOf(new, types) = IF e.type \in types THEN Len(es) + 1 ELSE LastOf(es, types)
             /\ LastOf(es, types) \in 0..Len(es)
  <2>1. PICK S : es \in Seq(S)
    BY DEF Evidence
  <2>2. QED
    BY <2>1, LastAppended, LastOfIs
<1> HIDE DEF new
<1>3. AcceptancePassed(new, contract) <=>
        IF e.type = "criterion" THEN e.status = "pass" /\ e.criterion = CriterionOf[contract]
        ELSE AcceptancePassed(es, contract)
  <2>1. LastOf(new, {"criterion"}) = IF e.type = "criterion" THEN Len(es) + 1 ELSE LastOf(es, {"criterion"})
    BY <1>2
  <2>2. CASE e.type = "criterion"
    BY <1>1, <2>1, <2>2 DEF AcceptancePassed
  <2>3. CASE e.type # "criterion"
    BY <1>1, <1>2, <2>1, <2>3 DEF AcceptancePassed
  <2>4. QED
    BY <2>2, <2>3
<1>4. CASE e.type \in LifecycleTypes
  <2>1. LastOf(new, LifecycleTypes) = Len(es) + 1 /\ Len(es) + 1 # 0
    BY <1>1, <1>2, <1>4
  <2>2. /\ e.type = "approval" => Lifecycle(new, status) = "approved"
        /\ e.type = "build"    => Lifecycle(new, status) = e.status
        /\ e.type = "review"   => Lifecycle(new, status) = "review"
        /\ e.type = "complete" => Lifecycle(new, status) = "completed"
    BY <1>1, <2>1 DEF Lifecycle
  <2>3. QED
    BY <1>3, <1>4, <2>2 DEF new
<1>5. CASE e.type \notin LifecycleTypes
  <2>1. LastOf(new, LifecycleTypes) = LastOf(es, LifecycleTypes) /\ LastOf(es, LifecycleTypes) \in 0..Len(es)
    BY <1>2, <1>5
  <2>2. Lifecycle(new, status) = Lifecycle(es, status)
    <3>1. PICK i \in 0..Len(es) : i = LastOf(es, LifecycleTypes)
      BY <2>1
    <3>2. i # 0 => new[i] = es[i]
      BY <1>1
    <3>3. CASE i = 0
      BY <2>1, <3>1, <3>3 DEF Lifecycle
    <3>4. CASE i # 0
      <4>1. es[i].type \in LifecycleTypes
        <5>1. PICK S : es \in Seq(S)
          BY DEF Evidence
        <5>2. QED
          BY <3>1, <3>4, <5>1, LastOfIs
      <4>2. QED
        BY <2>1, <3>1, <3>2, <3>4, <4>1 DEF Lifecycle, LifecycleTypes
    <3>5. QED
      BY <3>3, <3>4
  <2>3. QED
    BY <1>3, <1>5, <2>2 DEF new, LifecycleTypes
<1>6. QED
  BY <1>4, <1>5

\* ... and of the attempt the gate waits for.
LEMMA AttemptAppended ==
  ASSUME NEW es, Evidence(es), NEW e
  PROVE  LatestAttempt(Append(es, e)) =
           IF e.type = "review_attempt" THEN Len(es) + 1
           ELSE IF e.type \in Attempts THEN 0 ELSE LatestAttempt(es)
<1> DEFINE new == Append(es, e)
<1>1. /\ Len(es) \in Nat /\ Len(new) = Len(es) + 1 /\ new[Len(es) + 1] = e
      /\ \A i \in 1..Len(es) : new[i] = es[i]
  BY EvidenceGrows
<1>2. Evidence(new)
  BY EvidenceGrows
<1>3. LastOf(new, Attempts) = IF e.type \in Attempts THEN Len(es) + 1 ELSE LastOf(es, Attempts)
  BY LastAppended
<1>4. LastOf(es, Attempts) \in 0..Len(es)
  <2>1. PICK S : es \in Seq(S)
    BY DEF Evidence
  <2>2. QED
    BY <2>1, LastOfIs
<1> HIDE DEF new
<1>5. Before(new, Len(new) + 1) = new
  BY <1>2, BeforeAppended
<1>6. Before(es, Len(es) + 1) = es
  BY BeforeAppended
<1>7. LatestAttempt(es) = LET a == LastOf(es, Attempts) IN IF a # 0 /\ es[a].type = "review_attempt" THEN a ELSE 0
  BY <1>6 DEF LatestAttempt, AttemptBefore
<1>8. LatestAttempt(new) = LET a == LastOf(new, Attempts) IN IF a # 0 /\ new[a].type = "review_attempt" THEN a ELSE 0
  BY <1>5 DEF LatestAttempt, AttemptBefore
<1>9. CASE e.type \in Attempts
  BY <1>1, <1>3, <1>8, <1>9 DEF new
<1>10. CASE e.type \notin Attempts
  <2>1. e.type # "review_attempt"
    BY <1>10 DEF Attempts
  <2>2. QED
    BY <1>1, <1>3, <1>4, <1>7, <1>8, <1>10, <2>1 DEF new
<1>11. QED
  BY <1>9, <1>10

\* The newest evidence that counts for the verdict is a failed review.
FailedLast(es) ==
  LET r == LastOf(es, Verdicts) IN r # 0 /\ es[r].type = "review" /\ es[r].status = "fail"

\* A build at the end of the ledger asks for a review.
LEMMA GateAfterBuild ==
  ASSUME NEW es, Evidence(es), NEW e, e.type = "build", NEW contract, NEW material, NEW time
  PROVE  /\ Project(Append(es, e), "review", contract, material, time)
              \in {"needs_operator_decision", "stale_after_build", "ready_for_review"}
         /\ LatestAttempt(Append(es, e)) = 0
         /\ ~FailedLast(Append(es, e))
<1> DEFINE new == Append(es, e)
<1>1. Len(es) \in Nat /\ Len(new) = Len(es) + 1 /\ new[Len(es) + 1] = e /\ Evidence(new)
  BY EvidenceGrows
<1>2. LastOf(new, Verdicts) = Len(es) + 1 /\ LastOf(new, Gates) = Len(es) + 1
  <2>1. "build" \in Verdicts /\ "build" \in Gates
    BY DEF Verdicts, Gates, Attempts, Repairs
  <2>2. QED
    BY <2>1, LastAppended
<1>3. LatestAttempt(new) = 0
  <2>1. e.type # "review_attempt" /\ e.type \in Attempts
    BY DEF Attempts, Verdicts, Repairs
  <2>2. QED
    BY <2>1, AttemptAppended
<1> HIDE DEF new
<1>4. ~FailedLast(new)
  BY <1>1, <1>2 DEF FailedLast
<1>5. LatestVisibleReview(new) = 0
  BY <1>1, <1>2 DEF LatestVisibleReview
<1>6. CurrentReviewGate(new) = NoAuthority
  <2>1. Before(new, Len(new) + 1) = new
    BY <1>1, BeforeAppended
  <2>2. new[LastOf(new, Gates)].type = "build"
    BY <1>1, <1>2
  <2>3. QED
    BY <2>1, <2>2 DEF CurrentReviewGate, ReviewGateBefore
<1>7. Project(new, "review", contract, material, time)
        \in {"needs_operator_decision", "stale_after_build", "ready_for_review"}
  BY <1>3, <1>5, <1>6 DEF Project, NoAuthority
<1>8. QED
  BY <1>3, <1>4, <1>7 DEF new

\* A provider's pass at the end of the ledger passes the gate, or is refused
\* because it follows a failure.
LEMMA GateAfterPass ==
  ASSUME NEW es, Evidence(es), NEW e, e.type = "review", e.status = "pass", e.by = "provider",
         NEW contract, NEW material, e.contract = contract, e.material = material, NEW time
  PROVE  /\ Project(Append(es, e), "review", contract, material, time) \in {"review_passed", "invalid"}
         /\ ~FailedLast(es) => Project(Append(es, e), "review", contract, material, time) = "review_passed"
         /\ LatestAttempt(Append(es, e)) = 0
         /\ ~FailedLast(Append(es, e))
<1> DEFINE new == Append(es, e)  at == Len(es) + 1
<1>1. /\ Len(es) \in Nat /\ Len(new) = at /\ new[at] = e /\ Evidence(new)
      /\ \A i \in 1..Len(es) : new[i] = es[i]
  BY EvidenceGrows
<1>2. LastOf(new, Verdicts) = at /\ LastOf(new, Gates) = at
  <2>1. "review" \in Verdicts /\ "review" \in Gates
    BY DEF Verdicts, Gates, Attempts, Repairs
  <2>2. QED
    BY <2>1, LastAppended
<1>3. LatestAttempt(new) = 0
  <2>1. e.type # "review_attempt" /\ e.type \in Attempts
    BY DEF Attempts, Verdicts, Repairs
  <2>2. QED
    BY <2>1, AttemptAppended
<1>4. Before(new, at) = es /\ LastOf(es, Verdicts) \in 0..Len(es)
  <2>1. PICK S : es \in Seq(S)
    BY DEF Evidence
  <2>2. QED
    BY <2>1, BeforeAppended, LastOfIs
<1> HIDE DEF new
<1>5. ~FailedLast(new)
  BY <1>1, <1>2 DEF FailedLast
<1>6. LatestVisibleReview(new) = at /\ RepairedReview(new) = 0
  BY <1>1, <1>2 DEF LatestVisibleReview, RepairedReview, Repairs
<1>7. CurrentReviewGate(new) = ReviewAuthority(new, at)
  <2>1. Before(new, Len(new) + 1) = new
    BY <1>1, BeforeAppended
  <2>2. new[LastOf(new, Gates)].type = "review" /\ LastOf(new, Gates) # 0
    BY <1>1, <1>2
  <2>3. QED
    BY <1>2, <2>1, <2>2 DEF CurrentReviewGate, ReviewGateBefore
<1>8. /\ ReviewAuthority(new, at).found = TRUE /\ ReviewAuthority(new, at).at = at
      /\ ReviewAuthority(new, at).valid = (new[at].status = "pass" /\ IF new[at].by = "human" THEN AuditedOverride(new, at)
                                              ELSE ~UnrepairedFailureBefore(new, at))
  BY Zenon DEF ReviewAuthority
<1>9. ~FailedLast(es) => ReviewAuthority(new, at).valid
  <2>1. ~FailedLast(es) => ~UnrepairedFailureBefore(new, at)
    BY <1>1, <1>4 DEF FailedLast, UnrepairedFailureBefore
  <2>2. QED
    BY <1>1, <1>8, <2>1
<1>10. ~StaleAuthority(new[at], contract, material)
  BY <1>1 DEF StaleAuthority
<1>11. Project(new, "review", contract, material, time) =
         IF ReviewAuthority(new, at).valid THEN "review_passed" ELSE "invalid"
  <2>1. new[at].status = "pass"
    BY <1>1
  <2>2. QED
    BY <1>3, <1>6, <1>7, <1>8, <1>10, <2>1 DEF Project
<1>12. QED
  BY <1>3, <1>5, <1>9, <1>11 DEF new

\* Either nothing was minted and the task is not completed, or the receipt
\* authorises its completion.
Recoverable(es) ==
  \/ Receipts(es) = {} /\ LastOf(es, {"complete"}) = 0
  \/ HasReceipt(es, TerminalAuthority(es))

\* A receipt authorises where it is the newest entry that matters.
LEMMA ReceiptAuthority ==
  ASSUME NEW es, NEW i
  PROVE  LET g == LastOf(Before(es, i), Gates)
         IN  HasReceipt(es, ReviewGateBefore(es, i)) <=> g # 0 /\ es[g].type = "receipt"
<1> DEFINE g == LastOf(Before(es, i), Gates)
<1>1. CASE g # 0 /\ es[g].type = "receipt"
  <2>1. ReviewGateBefore(es, i) = [found |-> TRUE, valid |-> TRUE, at |-> g]
    BY <1>1 DEF ReviewGateBefore
  <2>2. QED
    BY <1>1, <2>1 DEF HasReceipt
<1>2. CASE g # 0 /\ es[g].type = "review"
  <2>1. ReviewGateBefore(es, i) = ReviewAuthority(es, g)
    BY <1>2 DEF ReviewGateBefore
  <2>2. ReviewAuthority(es, g).at = g
    BY DEF ReviewAuthority
  <2>3. QED
    BY <1>2, <2>1, <2>2 DEF HasReceipt
<1>3. CASE ~(g # 0 /\ es[g].type = "receipt") /\ ~(g # 0 /\ es[g].type = "review")
  <2>1. ReviewGateBefore(es, i) = NoAuthority
    BY <1>3 DEF ReviewGateBefore
  <2>2. QED
    BY <1>3, <2>1 DEF HasReceipt, NoAuthority
<1>4. QED
  BY <1>1, <1>2, <1>3

\* Another entry leaves the receipt its authority.
LEMMA RecoverableAppended ==
  ASSUME NEW es, Evidence(es), Recoverable(es), NEW e, e.type \notin {"receipt", "complete"}
  PROVE  Recoverable(Append(es, e))
<1> DEFINE new == Append(es, e)  c == LastOf(es, {"complete"})
<1>1. /\ Len(es) \in Nat /\ Len(new) = Len(es) + 1 /\ new[Len(es) + 1] = e
      /\ \A i \in 1..Len(es) : new[i] = es[i]
  BY EvidenceGrows
<1>2. LastOf(new, {"complete"}) = c
  BY LastAppended
<1>3. PICK S : es \in Seq(S)
  BY DEF Evidence
<1>4. PICK T : new \in Seq(T)
  BY EvidenceGrows DEF Evidence
<1>5. c \in 0..Len(es)
  BY <1>3, LastOfIs
<1>6. CASE Receipts(es) = {} /\ c = 0
  <2>1. DOMAIN new = 1..Len(new) /\ DOMAIN es = 1..Len(es)
    BY <1>3, <1>4
  <2>2. Receipts(new) = {}
    <3> HIDE DEF new
    <3>1. QED
      BY <1>1, <1>6, <2>1 DEF Receipts
  <2>3. QED
    BY <1>2, <1>6, <2>2 DEF Recoverable
<1>7. CASE HasReceipt(es, TerminalAuthority(es))
  <2>1. c # 0
    BY <1>7, Zenon DEF TerminalAuthority, NoAuthority, HasReceipt
  <2>2. TerminalAuthority(es) = ReviewGateBefore(es, c) /\ TerminalAuthority(new) = ReviewGateBefore(new, c)
    BY <1>2, <2>1 DEF TerminalAuthority
  <2>3. Before(new, c) = Before(es, c)
    BY <1>5, <2>1, BeforeAppended
  <2>4. PICK g : g = LastOf(Before(es, c), Gates)
    OBVIOUS
  <2>5. g # 0 /\ es[g].type = "receipt"
    BY <1>7, <2>2, <2>4, ReceiptAuthority
  <2>6. g \in 1..Len(es)
    <3>1. c \in 1..(Len(es) + 1)
      BY <1>1, <1>5, <2>1
    <3>2. Before(es, c) \in Seq(S) /\ Len(Before(es, c)) = c - 1
      BY <1>3, <3>1, BeforeIs
    <3>3. g \in 0..(c - 1)
      BY <2>4, <3>2, LastOfIs
    <3>4. QED
      BY <1>1, <1>5, <2>5, <3>3
  <2>7. new[g].type = "receipt"
    BY <1>1, <2>5, <2>6
  <2>8. HasReceipt(new, ReviewGateBefore(new, c))
    BY <2>3, <2>4, <2>5, <2>7, ReceiptAuthority
  <2>9. QED
    BY <2>2, <2>8 DEF Recoverable
<1>8. QED
  BY <1>6, <1>7 DEF Recoverable

\* Who finalizes finds the receipt, or the gate where nothing was minted yet.
LEMMA CurrentReceipt ==
  ASSUME NEW es, Evidence(es), HasReceipt(es, CurrentReviewGate(es))
  PROVE  Receipts(es) # {}
<1>1. PICK S : es \in Seq(S)
  BY DEF Evidence
<1>2. CurrentReviewGate(es).at \in 1..Len(es) /\ es[CurrentReviewGate(es).at].type = "receipt"
  BY <1>1, AuthoritiesPointIntoLedger
<1>3. QED
  BY <1>1, <1>2 DEF Receipts

-----------------------------------------------------------------------------
(* What a command makes of the task.                                        *)

\* A ledger, a spec file, the material and the clock, of whatever type.
IsView(v) ==
  \E es, contract, status, material, time :
    v = [es |-> es, spec |-> [contract |-> contract, status |-> status],
         work |-> material, now |-> time]

LEMMA RecordIsView ==
  ASSUME NEW es, NEW contract, NEW status, NEW material, NEW time
  PROVE  IsView([es |-> es, spec |-> [contract |-> contract, status |-> status],
                 work |-> material, now |-> time])
  BY DEF IsView

\* Commands change one part of it at a time.
LEMMA ViewWith ==
  ASSUME NEW v, IsView(v), NEW es
  PROVE  /\ IsView(Extended(v, es))
         /\ Extended(v, es).es = v.es \o es
         /\ Extended(v, es).spec = v.spec /\ Extended(v, es).work = v.work
         /\ Extended(v, es).now = v.now
<1>1. PICK old, contract, status, material, time :
        v = [es |-> old, spec |-> [contract |-> contract, status |-> status],
             work |-> material, now |-> time]
  BY DEF IsView
<1>2. Extended(v, es) = [es |-> old \o es, spec |-> [contract |-> contract, status |-> status],
                         work |-> material, now |-> time]
  <2>1. Extended(v, es) = [v EXCEPT !.es = v.es \o es]
    BY Zenon DEF Extended
  <2>2. PICK new : new = v.es \o es
    OBVIOUS
  <2>3. new = old \o es
    BY <1>1, <2>2
  <2>4. [v EXCEPT !.es = new] = [es |-> new, spec |-> [contract |-> contract, status |-> status],
                                 work |-> material, now |-> time]
    BY <1>1
  <2>5. QED
    BY <2>1, <2>2, <2>3, <2>4
<1>3. IsView(Extended(v, es))
  BY <1>2 DEF IsView
<1>4. QED
  BY <1>1, <1>2, <1>3

LEMMA ViewAs ==
  ASSUME NEW v, IsView(v), NEW to
  PROVE  LET w == [v EXCEPT !.spec.status = to]
         IN  /\ IsView(w)
             /\ w.es = v.es /\ w.work = v.work /\ w.now = v.now
             /\ w.spec.contract = v.spec.contract /\ w.spec.status = to
<1> DEFINE w == [v EXCEPT !.spec.status = to]
<1>1. PICK old, contract, status, material, time :
        v = [es |-> old, spec |-> [contract |-> contract, status |-> status],
             work |-> material, now |-> time]
  BY DEF IsView
<1>2. w = [es |-> old, spec |-> [contract |-> contract, status |-> to],
           work |-> material, now |-> time]
  BY <1>1
<1> HIDE DEF w
<1>3. IsView(w)
  BY <1>2 DEF IsView
<1>4. QED
  BY <1>1, <1>2, <1>3 DEF w

LEMMA ViewOf ==
  ASSUME NEW v, IsView(v), NEW x
  PROVE  LET w == [v EXCEPT !.work = x]
         IN  /\ IsView(w) /\ w.es = v.es /\ w.spec = v.spec /\ w.now = v.now /\ w.work = x
<1> DEFINE w == [v EXCEPT !.work = x]
<1>1. PICK old, contract, status, material, time :
        v = [es |-> old, spec |-> [contract |-> contract, status |-> status],
             work |-> material, now |-> time]
  BY DEF IsView
<1>2. w = [es |-> old, spec |-> [contract |-> contract, status |-> status],
           work |-> x, now |-> time]
  BY <1>1
<1> HIDE DEF w
<1>3. IsView(w)
  BY <1>2 DEF IsView
<1>4. QED
  BY <1>1, <1>2, <1>3 DEF w

LEMMA ViewAt ==
  ASSUME NEW v, IsView(v), NEW x, NEW w, w = [v EXCEPT !.now = x]
  PROVE  IsView(w) /\ w.es = v.es /\ w.spec = v.spec /\ w.work = v.work /\ w.now = x
<1>1. PICK old, contract, status, material, time :
        v = [es |-> old, spec |-> [contract |-> contract, status |-> status],
             work |-> material, now |-> time]
  BY DEF IsView
<1>2. w = [es |-> old, spec |-> [contract |-> contract, status |-> status],
           work |-> material, now |-> x]
  BY <1>1
<1>3. IsView(w)
  <2>1. IsView([es |-> old, spec |-> [contract |-> contract, status |-> status],
                work |-> material, now |-> x])
    BY RecordIsView
  <2>2. QED
    BY <1>2, <2>1, Zenon
<1>4. QED
  BY <1>1, <1>2, <1>3

\* Two, three or four entries at once are entries one by one.
LEMMA AppendedTwice ==
  ASSUME NEW es, Evidence(es), NEW a, NEW b
  PROVE  /\ es \o <<a, b>> = Append(Append(es, a), b)
         /\ es \o (<< >> \o <<a, b>>) = Append(Append(es, a), b)
         /\ es \o (<<a>> \o <<b>>) = Append(Append(es, a), b)
<1>1. PICK S : es \in Seq(S) /\ a \in S /\ b \in S
  <2>1. PICK T : es \in Seq(T)
    BY DEF Evidence
  <2>2. es \in Seq(T \cup {a, b})
    BY <2>1
  <2>3. QED
    BY <2>2
<1>2. /\ <<a, b>> = <<a>> \o <<b>>
      /\ << >> \o <<a, b>> = <<a, b>>
  <2>1. <<a>> \in Seq(S) /\ <<b>> \in Seq(S) /\ <<a, b>> \in Seq(S)
    BY <1>1
  <2>2. <<a, b>> = <<a>> \o <<b>>
    <3>1. Evidence(<<a>>)
      BY <2>1 DEF Evidence
    <3>2. <<a>> \o <<b>> = Append(<<a>>, b)
      BY <3>1, EvidenceGrows
    <3>3. PICK new \in Seq(S) : new = Append(<<a>>, b)
      <4>1. PICK one \in Seq(S) : one = <<a>>
        BY <2>1
      <4>2. Append(one, b) \in Seq(S)
        BY <1>1, <4>1
      <4>3. QED
        BY <4>1, <4>2, Zenon
    <3>4. Len(<<a>>) = 1 /\ <<a>>[1] = a
      OBVIOUS
    <3>5. Len(new) = 2 /\ new[1] = a /\ new[2] = b
      <4>1. /\ Len(new) = Len(<<a>>) + 1 /\ new[Len(<<a>>) + 1] = b
            /\ \A i \in 1..Len(<<a>>) : new[i] = <<a>>[i]
        BY <3>1, <3>3, EvidenceGrows
      <4>2. QED
        BY <3>4, <4>1
    <3>6. new = <<a, b>>
      <4>1. PICK two \in Seq(S) : two = <<a, b>>
        BY <2>1
      <4>2. Len(two) = 2 /\ two[1] = a /\ two[2] = b
        BY <4>1
      <4>3. \A i \in 1..Len(new) : new[i] = two[i]
        BY <3>5, <4>2
      <4>4. new = two
        BY <3>5, <4>2, <4>3
      <4>5. QED
        BY <4>1, <4>4
    <3>7. QED
      BY <3>2, <3>3, <3>6
  <2>3. << >> \o <<a, b>> = <<a, b>>
    BY <2>1, SMTT(60)
  <2>4. QED
    BY <2>2, <2>3
<1>3. es \o <<a, b>> = Append(Append(es, a), b)
  BY <1>1, SMTT(60)
<1>4. QED
  BY <1>2, <1>3

LEMMA AppendedThrice ==
  ASSUME NEW es, Evidence(es), NEW a, NEW b, NEW c
  PROVE  /\ es \o <<a, b, c>> = Append(Append(Append(es, a), b), c)
         /\ es \o (<< >> \o <<a, b, c>>) = Append(Append(Append(es, a), b), c)
         /\ es \o (<<a, b>> \o <<c>>) = Append(Append(Append(es, a), b), c)
<1>1. PICK S : es \in Seq(S) /\ a \in S /\ b \in S /\ c \in S
  <2>1. PICK T : es \in Seq(T)
    BY DEF Evidence
  <2>2. es \in Seq(T \cup {a, b, c})
    BY <2>1
  <2>3. QED
    BY <2>2
<1>2. <<a, b, c>> = <<a, b>> \o <<c>> /\ << >> \o <<a, b, c>> = <<a, b, c>>
  OBVIOUS
<1>3. es \o <<a, b>> = Append(Append(es, a), b)
  BY AppendedTwice
<1>4. es \o (<<a, b>> \o <<c>>) = (es \o <<a, b>>) \o <<c>>
  BY <1>1, SMTT(60)
<1>5. Append(Append(es, a), b) \o <<c>> = Append(Append(Append(es, a), b), c)
  <2>1. Evidence(Append(Append(es, a), b))
    BY EvidenceGrows
  <2>2. QED
    BY <2>1, EvidenceGrows
<1>6. QED
  BY <1>2, <1>3, <1>4, <1>5

LEMMA AppendedToOne ==
  ASSUME NEW es, Evidence(es), NEW x, NEW a, NEW b, NEW c
  PROVE  es \o (<<x>> \o <<a, b, c>>) = Append(Append(Append(Append(es, x), a), b), c)
<1>1. PICK S : es \in Seq(S) /\ x \in S /\ a \in S /\ b \in S /\ c \in S
  <2>1. PICK T : es \in Seq(T)
    BY DEF Evidence
  <2>2. es \in Seq(T \cup {x, a, b, c})
    BY <2>1
  <2>3. QED
    BY <2>2
<1>2. es \o (<<x>> \o <<a, b, c>>) = (es \o <<x>>) \o <<a, b, c>>
  BY <1>1, SMTT(60)
<1>3. es \o <<x>> = Append(es, x) /\ Evidence(Append(es, x))
  BY EvidenceGrows
<1>4. QED
  BY <1>2, <1>3, AppendedThrice, SMTT(60)

\* The entries the commands append, as far as a reader of the ledger tells them.
LEMMA EntriesSay ==
  /\ Baseline.type = "workspace_baseline" /\ Approval.type = "approval"
  /\ \A s : Build(s).type = "build" /\ Build(s).status = s
  /\ \A s, c : /\ Criterion(s, c).type = "criterion" /\ Criterion(s, c).status = s
               /\ Criterion(s, c).criterion = CriterionOf[c]
  /\ \A by : Completion(by).type = "complete"
  /\ \A lease, c, m, out, s :
       /\ RunningAttempt(lease, c, m, out).type = "review_attempt"
       /\ CloseAttempt(RunningAttempt(lease, c, m, out), s).type = "review_attempt"
  /\ \A s, by, c, m, p :
       /\ Review(s, by, c, m, p).type = "review" /\ Review(s, by, c, m, p).status = s
       /\ Review(s, by, c, m, p).by = by /\ Review(s, by, c, m, p).contract = c
       /\ Review(s, by, c, m, p).material = m
  BY DEF Baseline, Approval, Build, Criterion, Completion, RunningAttempt, CloseAttempt, Review

\* The task as status finds it, between two commands.
Asked(v) == IsView(v) /\ Evidence(v.es) /\ Recoverable(v.es)

\* Passed the gate.
Passed(v) == Asked(v) /\ StatusOf(v) = "review" /\ KindOf(v) = "review_passed"

\* A finalize recovers the receipt or mints one, and completes the task.
LEMMA FinalizeSettles ==
  ASSUME NEW v, Passed(v), NEW repairs
  PROVE  Settled(Carry(v, repairs))
<1> DEFINE archived == [v EXCEPT !.spec.status = "completed"]
<1>1. Carry(v, repairs) = CarryFinalize(v)
  <2>1. NextAction(v) = "finalize"
    BY DEF Passed, NextAction, ReviewAdvice
  <2>2. QED
    BY <2>1 DEF Carry
<1>2. Asked(v) /\ Evidence(v.es) /\ IsView(v)
  BY DEF Passed, Asked
<1>3. /\ IsView(archived) /\ archived.es = v.es /\ archived.spec.status = "completed"
  BY <1>2, ViewAs
<1> HIDE DEF archived
<1>4. ASSUME NEW w, IsView(w), NEW es, Evidence(es), w.es = es \o <<Completion("finalize")>>
      PROVE  Settled(w)
  <2>1. w.es = Append(es, Completion("finalize"))
    BY <1>4, EvidenceGrows
  <2>2. Lifecycle(w.es, w.spec.status) = "completed"
    <3>1. PICK e : e = Completion("finalize")
      OBVIOUS
    <3>2. e.type = "complete"
      BY <3>1, EntriesSay
    <3>3. PICK status : status = w.spec.status
      OBVIOUS
    <3>4. Lifecycle(Append(es, e), status) = "completed"
      BY <1>4, <3>2, LifecycleAppended
    <3>5. QED
      BY <2>1, <3>1, <3>3, <3>4
  <2>3. QED
    BY <2>2 DEF Settled, StatusOf, FromSession
<1>5. CASE HasReceipt(v.es, TerminalAuthority(v.es)) \/ HasReceipt(v.es, CurrentReviewGate(v.es))
  <2>1. CASE LastOf(v.es, {"complete"}) # 0
    <3>1. CarryFinalize(v) = Extended(archived, << >>)
      BY <1>5, <2>1 DEF CarryFinalize, archived
    <3>2. HasReceipt(v.es, TerminalAuthority(v.es))
      BY <1>2, <2>1 DEF Asked, Recoverable
    <3>3. v.es \o << >> = v.es
      <4>1. PICK S : v.es \in Seq(S)
        BY <1>2 DEF Evidence
      <4>2. QED
        BY <4>1
    <3>4. Extended(archived, << >>).es = v.es /\ Extended(archived, << >>).spec.status = "completed"
      BY <1>3, <3>3, ViewWith
    <3>5. QED
      BY <1>1, <3>1, <3>2, <3>4 DEF Settled
  <2>2. CASE LastOf(v.es, {"complete"}) = 0
    <3>1. CarryFinalize(v) = Extended(archived, <<Completion("finalize")>>)
      BY <1>5, <2>2 DEF CarryFinalize, archived
    <3>2. /\ IsView(Extended(archived, <<Completion("finalize")>>))
          /\ Extended(archived, <<Completion("finalize")>>).es = v.es \o <<Completion("finalize")>>
      BY <1>3, ViewWith
    <3>3. QED
      BY <1>1, <1>2, <1>4, <3>1, <3>2
  <2>3. QED
    BY <2>1, <2>2
<1>6. CASE ~(HasReceipt(v.es, TerminalAuthority(v.es)) \/ HasReceipt(v.es, CurrentReviewGate(v.es)))
  <2>1. Receipts(v.es) = {} /\ LastOf(v.es, {"complete"}) = 0
    BY <1>2, <1>6 DEF Asked, Recoverable
  <2>2. KindOf(v) = "review_passed"
    BY DEF Passed
  <2>3. PICK c, m : CarryFinalize(v) = Extended(archived, <<c, m>> \o <<Completion("finalize")>>)
    BY <1>6, <2>1, <2>2 DEF CarryFinalize, archived
  <2>4. v.es \o (<<c, m>> \o <<Completion("finalize")>>)
          = Append(Append(Append(v.es, c), m), Completion("finalize"))
    BY <1>2, AppendedThrice
  <2>5. Evidence(Append(Append(v.es, c), m))
    BY <1>2, EvidenceGrows
  <2>6. Append(Append(Append(v.es, c), m), Completion("finalize"))
          = Append(Append(v.es, c), m) \o <<Completion("finalize")>>
    BY <2>5, EvidenceGrows
  <2>7. /\ IsView(Extended(archived, <<c, m>> \o <<Completion("finalize")>>))
        /\ Extended(archived, <<c, m>> \o <<Completion("finalize")>>).es
             = Append(Append(v.es, c), m) \o <<Completion("finalize")>>
    BY <1>3, <2>4, <2>6, ViewWith, ZenonT(120)
  <2>8. QED
    BY <1>1, <1>4, <2>3, <2>5, <2>7
<1>7. QED
  BY <1>5, <1>6

\* Another attempt, or another state of one, changes nothing but that.
LEMMA AttemptKeeps ==
  ASSUME NEW es, Evidence(es), Recoverable(es), NEW e, e.type = "review_attempt",
         NEW status, NEW contract
  PROVE  /\ Evidence(Append(es, e)) /\ Recoverable(Append(es, e))
         /\ Lifecycle(Append(es, e), status) = Lifecycle(es, status)
         /\ AcceptancePassed(Append(es, e), contract) <=> AcceptancePassed(es, contract)
         /\ FailedLast(Append(es, e)) <=> FailedLast(es)
<1> DEFINE new == Append(es, e)  r == LastOf(es, Verdicts)
<1>1. e.type \notin LifecycleTypes /\ e.type # "criterion" /\ e.type \notin Verdicts
      /\ e.type \notin {"receipt", "complete"}
  BY DEF LifecycleTypes, Verdicts, Repairs, Resets
<1>2. Evidence(new) /\ Recoverable(new)
  BY <1>1, EvidenceGrows, RecoverableAppended
<1>3. /\ Lifecycle(new, status) = Lifecycle(es, status)
      /\ AcceptancePassed(new, contract) <=> AcceptancePassed(es, contract)
  BY <1>1, LifecycleAppended
<1>4. LastOf(new, Verdicts) = r
  BY <1>1, LastAppended
<1>5. r \in 0..Len(es)
  <2>1. PICK S : es \in Seq(S)
    BY DEF Evidence
  <2>2. QED
    BY <2>1, LastOfIs
<1>6. Len(es) \in Nat /\ \A i \in 1..Len(es) : new[i] = es[i]
  BY EvidenceGrows
<1> HIDE DEF new
<1>7. FailedLast(new) <=> FailedLast(es)
  BY <1>4, <1>5, <1>6 DEF FailedLast
<1>8. QED
  BY <1>2, <1>3, <1>7 DEF new

\* What refuses a review refuses it without the material.
LEMMA RefusedWithout ==
  ASSUME NEW es, NEW contract, NEW material, NEW other, NEW time, NEW kind,
         kind \in {"attempt_running", "review_failed"},
         Project(es, "review", contract, other, time) = kind
  PROVE  Project(es, "review", contract, material, time) = kind
  BY DEF Project

\* A review the gate asks for is run, and passes it; only behind a failure may
\* its pass be refused.
LEMMA ReviewPasses ==
  ASSUME NEW v, Asked(v), StatusOf(v) = "review", NextAction(v) \in {"review", "force_review"},
         LatestAttempt(v.es) = 0 \/ v.es \in Seq(Entry), NEW repairs
  PROVE  LET w == Carry(v, repairs)
         IN  /\ Asked(w) /\ StatusOf(w) = "review"
             /\ KindOf(w) \in {"review_passed", "invalid"}
             /\ ~FailedLast(v.es) => KindOf(w) = "review_passed"
             /\ LatestAttempt(w.es) = 0 /\ ~FailedLast(w.es)
<1> DEFINE kind == KindOf(v)
           contract == v.spec.contract
           a == RunningAttempt(v.now + Lease, contract, v.work, v.work)
           accepted == CloseAttempt(a, "accepted")
           pass == Review("pass", "provider", contract, v.work, v.work)
           closed == CloseAttempt(v.es[LatestAttempt(v.es)], "abandoned")
           base == IF kind = "attempt_stale" THEN Append(v.es, closed) ELSE v.es
           before == Append(Append(base, a), accepted)
           after == Append(before, pass)
           w == Carry(v, repairs)
<1>1. /\ a.type = "review_attempt" /\ accepted.type = "review_attempt"
      /\ pass.type = "review" /\ pass.status = "pass" /\ pass.by = "provider"
      /\ pass.contract = contract /\ pass.material = v.work
  BY EntriesSay
<1>2. IsView(v) /\ Evidence(v.es) /\ Recoverable(v.es)
  BY DEF Asked
<1>3. /\ NextAction(v) = "review" =>
           kind \notin {"attempt_running", "review_failed", "review_passed", "needs_operator_decision"}
      /\ NextAction(v) = "force_review" => kind = "needs_operator_decision"
  BY DEF NextAction, ReviewAdvice
<1>4. Project(v.es, "review", contract, NoMaterial, v.now) \notin {"attempt_running", "review_failed"}
  <2>1. SUFFICES ASSUME Project(v.es, "review", contract, NoMaterial, v.now)
                          \in {"attempt_running", "review_failed"}
                 PROVE  FALSE
    OBVIOUS
  <2>2. Project(v.es, "review", contract, v.work, v.now) \in {"attempt_running", "review_failed"}
    BY <2>1, RefusedWithout
  <2>3. kind \in {"attempt_running", "review_failed"}
    BY <2>2 DEF KindOf
  <2>4. QED
    BY <1>3, <2>3
<1>5. PICK abandons : /\ abandons = IF kind = "attempt_stale" THEN <<closed>> ELSE << >>
                      /\ w = Extended(v, abandons \o <<a, accepted, pass>>)
  <2>1. CASE NextAction(v) = "review"
    BY <1>3, <1>4, <2>1 DEF Carry, CarryReview
  <2>2. CASE NextAction(v) = "force_review"
    BY <1>3, <1>4, <2>2 DEF Carry, CarryReview
  <2>3. QED
    BY <2>1, <2>2
<1>6. kind = "attempt_stale" => closed.type = "review_attempt"
  <2>1. SUFFICES ASSUME kind = "attempt_stale" PROVE closed.type = "review_attempt"
    OBVIOUS
  <2>2. LatestAttempt(v.es) # 0
    BY <2>1 DEF KindOf, Project
  <2>3. v.es \in Seq(Entry)
    BY <2>2
  <2>4. /\ LatestAttempt(v.es) \in 1..Len(v.es) /\ v.es[LatestAttempt(v.es)] \in Entry
        /\ v.es[LatestAttempt(v.es)].type = "review_attempt"
    BY <2>2, <2>3, LatestAttemptIs
  <2>5. QED
    BY <2>4, TypedEntries
<1> HIDE DEF kind, contract, a, accepted, pass, closed, w
<1>7. v.es \o (abandons \o <<a, accepted, pass>>) = after
  <2>0. Evidence(v.es)
    BY <1>2
  <2>1. CASE kind = "attempt_stale"
    <3>1. v.es \o (<<closed>> \o <<a, accepted, pass>>) = Append(Append(Append(Append(v.es, closed), a), accepted), pass)
      BY <2>0, AppendedToOne, SMTT(60)
    <3>2. abandons = <<closed>> /\ base = Append(v.es, closed)
      BY <1>5, <2>1
    <3>3. QED
      BY <3>1, <3>2, Zenon
  <2>2. CASE kind # "attempt_stale"
    <3>1. v.es \o <<a, accepted, pass>> = Append(Append(Append(v.es, a), accepted), pass)
      BY <2>0, AppendedThrice, SMTT(60)
    <3>2. <<>> \o <<a, accepted, pass>> = <<a, accepted, pass>>
      OBVIOUS
    <3>3. abandons = <<>> /\ base = v.es
      BY <1>5, <2>2
    <3>4. QED
      BY <3>1, <3>2, <3>3, Zenon
  <2>3. QED
    BY <2>1, <2>2
<1>8. ASSUME NEW status
      PROVE  /\ Evidence(base) /\ Recoverable(base)
             /\ Lifecycle(base, status) = Lifecycle(v.es, status)
             /\ AcceptancePassed(base, contract) <=> AcceptancePassed(v.es, contract)
             /\ FailedLast(base) <=> FailedLast(v.es)
  BY <1>2, <1>6, AttemptKeeps
<1> HIDE DEF base
<1>9. ASSUME NEW status
      PROVE  /\ Evidence(before) /\ Recoverable(before)
             /\ Lifecycle(before, status) = Lifecycle(v.es, status)
             /\ AcceptancePassed(before, contract) <=> AcceptancePassed(v.es, contract)
             /\ FailedLast(before) <=> FailedLast(v.es)
  <2> DEFINE mid == Append(base, a)
  <2>1. /\ Evidence(mid) /\ Recoverable(mid)
        /\ Lifecycle(mid, status) = Lifecycle(v.es, status)
        /\ AcceptancePassed(mid, contract) <=> AcceptancePassed(v.es, contract)
        /\ FailedLast(mid) <=> FailedLast(v.es)
    BY <1>1, <1>8, AttemptKeeps
  <2> HIDE DEF mid
  <2>2. /\ Evidence(Append(mid, accepted)) /\ Recoverable(Append(mid, accepted))
        /\ Lifecycle(Append(mid, accepted), status) = Lifecycle(v.es, status)
        /\ AcceptancePassed(Append(mid, accepted), contract) <=> AcceptancePassed(v.es, contract)
        /\ FailedLast(Append(mid, accepted)) <=> FailedLast(v.es)
    BY <1>1, <2>1, AttemptKeeps
  <2>3. QED
    BY <2>2 DEF mid
<1> HIDE DEF before
<1>10. /\ IsView(w) /\ w.es = after /\ w.spec = v.spec /\ w.work = v.work /\ w.now = v.now
  BY <1>2, <1>5, <1>7, ViewWith
<1>11. Evidence(after) /\ Recoverable(after)
  <2>1. pass.type \notin {"receipt", "complete"} /\ Evidence(before) /\ Recoverable(before)
    BY <1>1, <1>9
  <2>2. QED
    BY <2>1, EvidenceGrows, RecoverableAppended
<1>12. StatusOf(w) = "review"
  <2>1. AcceptancePassed(v.es, contract)
    BY DEF StatusOf, FromSession, contract
  <2>2. AcceptancePassed(before, contract) /\ Evidence(before)
    BY <1>9, <2>1
  <2>3. pass.type # "criterion"
    BY <1>1
  <2>4. AcceptancePassed(after, contract) /\ \A s : Lifecycle(after, s) = "review"
    BY <1>1, <2>2, <2>3, LifecycleAppended
  <2>5. QED
    BY <1>10, <2>4 DEF StatusOf, FromSession, contract
<1>13. /\ Project(after, "review", contract, v.work, v.now) \in {"review_passed", "invalid"}
       /\ ~FailedLast(v.es) => Project(after, "review", contract, v.work, v.now) = "review_passed"
       /\ LatestAttempt(after) = 0 /\ ~FailedLast(after)
  <2>1. Evidence(before) /\ (FailedLast(before) <=> FailedLast(v.es))
    BY <1>9
  <2>2. /\ Project(after, "review", contract, v.work, v.now) \in {"review_passed", "invalid"}
        /\ ~FailedLast(before) => Project(after, "review", contract, v.work, v.now) = "review_passed"
        /\ LatestAttempt(after) = 0 /\ ~FailedLast(after)
    BY <1>1, <2>1, GateAfterPass
  <2>3. QED
    BY <2>1, <2>2
<1>14. KindOf(w) = Project(after, "review", contract, v.work, v.now)
  BY <1>10, <1>12 DEF KindOf, contract
<1>15. QED
  BY <1>10, <1>11, <1>12, <1>13, <1>14 DEF Asked, w

\* Waiting for a review that can only pass.
Reviewable(v) ==
  /\ Asked(v)
  /\ StatusOf(v) = "review" /\ NextAction(v) \in {"review", "force_review"}
  /\ LatestAttempt(v.es) = 0 /\ ~FailedLast(v.es)

\* To be built, or to be reviewed whatever the ledger holds.
Workable(v) ==
  /\ Asked(v)
  /\ \/ StatusOf(v) \in {"active", "blocked"}
     \/ StatusOf(v) = "review" /\ NextAction(v) = "build"
     \/ /\ StatusOf(v) = "review" /\ NextAction(v) \in {"review", "force_review"}
        /\ v.es \in Seq(Entry)

\* To be opened, or waiting for a reviewer.
Startable(v) ==
  /\ Asked(v)
  /\ \/ StatusOf(v) = "approved"
     \/ NextAction(v) = "status" /\ v.es \in Seq(Entry)

\* To be approved.
Approvable(v) == Asked(v) /\ StatusOf(v) = "draft" /\ v.spec.status = "draft"

\* What the gate reports where the advice is a review.
LEMMA ReviewIsNext ==
  ASSUME NEW v, StatusOf(v) = "review",
         KindOf(v) \in {"invalid", "stale_after_build", "ready_for_review",
                        "needs_operator_decision", "attempt_stale"}
  PROVE  NextAction(v) \in {"review", "force_review"}
  BY DEF NextAction, ReviewAdvice

\* The review passes.
LEMMA ReviewableLeadsOn ==
  ASSUME NEW v, Reviewable(v), NEW repairs
  PROVE  Passed(Carry(v, repairs))
  BY ReviewPasses DEF Reviewable, Passed

\* A build of what is not approved any more ends where a review can only pass.
LEMMA BuildAsks ==
  ASSUME NEW v, Asked(v), NextAction(v) = "build", StatusOf(v) \in {"active", "blocked", "review"},
         NEW repairs
  PROVE  Reviewable(Carry(v, repairs))
<1> DEFINE contract == v.spec.contract
           w == Carry(v, repairs)
           from == IF repairs THEN [v EXCEPT !.work = MaxEdits + 1] ELSE v
           o == Build("active")  c == Criterion("pass", contract)  r == Build("review")
           base == IF StatusOf(v) = "review" THEN Append(v.es, o) ELSE v.es
           judging == Append(Append(base, o), c)
           after == Append(judging, r)
<1>1. /\ o.type = "build" /\ r.type = "build" /\ r.status = "review"
      /\ c.type = "criterion" /\ c.status = "pass" /\ c.criterion = CriterionOf[contract]
  BY EntriesSay
<1>2. IsView(v) /\ Evidence(v.es) /\ Recoverable(v.es)
  BY DEF Asked
<1>3. IsView(from) /\ from.es = v.es /\ from.spec = v.spec /\ from.now = v.now
  <2>1. CASE repairs
    BY <1>2, <2>1, ViewOf
  <2>2. CASE ~repairs
    BY <1>2, <2>2
  <2>3. QED
    BY <2>1, <2>2
<1>4. PICK new : /\ new = IF StatusOf(v) = "review" THEN <<o>> \o <<o, c, r>> ELSE <<o, c, r>>
                 /\ w = Extended(from, new)
  <2>1. w = CarryBuild(v, repairs)
    BY DEF Carry
  <2>2. CASE StatusOf(v) = "review"
    BY <2>1, <2>2 DEF CarryBuild
  <2>3. CASE StatusOf(v) # "review"
    BY <2>1, <2>3 DEF CarryBuild
  <2>4. QED
    BY <2>2, <2>3
<1> HIDE DEF contract, from, o, c, r, w
<1>5. v.es \o new = after
  <2>0. Evidence(v.es)
    BY <1>2
  <2>1. CASE StatusOf(v) = "review"
    <3>1. v.es \o (<<o>> \o <<o, c, r>>) = Append(Append(Append(Append(v.es, o), o), c), r)
      BY <2>0, AppendedToOne, SMTT(60)
    <3>2. new = <<o>> \o <<o, c, r>> /\ base = Append(v.es, o)
      BY <1>4, <2>1
    <3>3. QED
      BY <3>1, <3>2
  <2>2. CASE StatusOf(v) # "review"
    <3>1. v.es \o <<o, c, r>> = Append(Append(Append(v.es, o), c), r)
      BY <2>0, AppendedThrice, SMTT(60)
    <3>2. new = <<o, c, r>> /\ base = v.es
      BY <1>4, <2>2
    <3>3. QED
      BY <3>1, <3>2
  <2>3. QED
    BY <2>1, <2>2
<1>6. o.type \notin {"receipt", "complete"} /\ c.type \notin {"receipt", "complete"}
      /\ r.type \notin {"receipt", "complete"}
  BY <1>1
<1>7. Evidence(base) /\ Recoverable(base)
  BY <1>2, <1>6, EvidenceGrows, RecoverableAppended
<1> HIDE DEF base
<1>8. Evidence(judging) /\ Recoverable(judging) /\ AcceptancePassed(judging, contract)
  <2>1. Evidence(Append(base, o)) /\ Recoverable(Append(base, o))
    BY <1>6, <1>7, EvidenceGrows, RecoverableAppended
  <2>2. AcceptancePassed(judging, contract)
    BY <1>1, <2>1, LifecycleAppended
  <2>3. QED
    BY <1>6, <2>1, <2>2, EvidenceGrows, RecoverableAppended
<1> HIDE DEF judging
<1>9. Evidence(after) /\ Recoverable(after)
  BY <1>6, <1>8, EvidenceGrows, RecoverableAppended
<1>10. /\ IsView(w) /\ w.es = after /\ w.spec = v.spec
  BY <1>3, <1>4, <1>5, ViewWith, ZenonT(120)
<1>11. StatusOf(w) = "review"
  <2>1. r.type # "criterion"
    BY <1>1
  <2>2. AcceptancePassed(after, contract) /\ \A s : Lifecycle(after, s) = "review"
    BY <1>1, <1>8, <2>1, LifecycleAppended
  <2>3. QED
    BY <1>10, <2>2 DEF StatusOf, FromSession, contract
<1>12. /\ LatestAttempt(after) = 0 /\ ~FailedLast(after)
       /\ KindOf(w) \in {"needs_operator_decision", "stale_after_build", "ready_for_review"}
  <2>1. \A m, t : /\ Project(after, "review", contract, m, t)
                       \in {"needs_operator_decision", "stale_after_build", "ready_for_review"}
                  /\ LatestAttempt(after) = 0 /\ ~FailedLast(after)
    BY <1>1, <1>8, GateAfterBuild
  <2>2. KindOf(w) = Project(after, "review", contract, w.work, w.now)
    BY <1>10, <1>11 DEF KindOf, contract
  <2>3. QED
    BY <2>1, <2>2
<1>13. NextAction(w) \in {"review", "force_review"}
  BY <1>11, <1>12, ReviewIsNext
<1>14. QED
  BY <1>9, <1>10, <1>11, <1>12, <1>13 DEF Reviewable, Asked, w

\* Built or reviewed, it has passed or waits for a review that can only pass.
LEMMA WorkableLeadsOn ==
  ASSUME NEW v, Workable(v), NEW repairs
  PROVE  Reviewable(Carry(v, repairs)) \/ Passed(Carry(v, repairs))
<1>1. CASE StatusOf(v) \in {"active", "blocked"}
  <2>1. NextAction(v) = "build"
    BY <1>1 DEF NextAction
  <2>2. QED
    BY <1>1, <2>1, BuildAsks DEF Workable
<1>2. CASE StatusOf(v) = "review" /\ NextAction(v) = "build"
  BY <1>2, BuildAsks DEF Workable
<1>3. CASE StatusOf(v) = "review" /\ NextAction(v) \in {"review", "force_review"} /\ v.es \in Seq(Entry)
  <2> DEFINE w == Carry(v, repairs)
  <2>1. /\ Asked(w) /\ StatusOf(w) = "review" /\ KindOf(w) \in {"review_passed", "invalid"}
        /\ LatestAttempt(w.es) = 0 /\ ~FailedLast(w.es)
    BY <1>3, ReviewPasses DEF Workable
  <2> HIDE DEF w
  <2>2. CASE KindOf(w) = "review_passed"
    BY <2>1, <2>2 DEF Passed, w
  <2>3. CASE KindOf(w) = "invalid"
    <3>1. NextAction(w) \in {"review", "force_review"}
      BY <2>1, <2>3, ReviewIsNext
    <3>2. QED
      BY <2>1, <3>1 DEF Reviewable, w
  <2>4. QED
    BY <2>1, <2>2, <2>3
<1>4. QED
  BY <1>1, <1>2, <1>3 DEF Workable

\* An approved task is opened; a running attempt has its lease end.
LEMMA StartableLeadsOn ==
  ASSUME NEW v, Startable(v), NEW repairs
  PROVE  Workable(Carry(v, repairs))
<1> DEFINE w == Carry(v, repairs)
<1>1. IsView(v) /\ Evidence(v.es) /\ Recoverable(v.es)
  BY DEF Startable, Asked
<1>2. CASE StatusOf(v) = "approved"
  <2> DEFINE from == IF repairs THEN [v EXCEPT !.work = MaxEdits + 1] ELSE v
             o == Build("active")
  <2>1. NextAction(v) = "build"
    BY <1>2 DEF NextAction
  <2>2. w = Extended(from, <<o>>)
    BY <1>2, <2>1 DEF Carry, CarryBuild
  <2>3. IsView(from) /\ from.es = v.es
    <3>1. CASE repairs
      BY <1>1, <3>1, ViewOf
    <3>2. CASE ~repairs
      BY <1>1, <3>2
    <3>3. QED
      BY <3>1, <3>2
  <2>4. o.type = "build" /\ o.status = "active"
    BY EntriesSay
  <2> HIDE DEF from, o, w
  <2>5. IsView(w) /\ w.es = Append(v.es, o)
    <3>1. IsView(w) /\ w.es = v.es \o <<o>>
      BY <2>2, <2>3, ViewWith
    <3>2. v.es \o <<o>> = Append(v.es, o)
      BY <1>1, EvidenceGrows
    <3>3. QED
      BY <3>1, <3>2
  <2>6. Asked(w)
    BY <1>1, <2>4, <2>5, EvidenceGrows, RecoverableAppended DEF Asked
  <2>7. \A s : Lifecycle(w.es, s) = "active"
    BY <1>1, <2>4, <2>5, LifecycleAppended
  <2>8. StatusOf(w) = "active"
    BY <2>7 DEF StatusOf, FromSession
  <2>9. QED
    BY <2>6, <2>8 DEF Workable, w
<1>3. CASE NextAction(v) = "status" /\ v.es \in Seq(Entry)
  <2> DEFINE a == LatestAttempt(v.es)
  <2>1. StatusOf(v) = "review" /\ KindOf(v) = "attempt_running"
    <3>1. StatusOf(v) = "review"
      BY <1>3 DEF NextAction
    <3>2. QED
      BY <1>3, <3>1 DEF NextAction, ReviewAdvice
  <2>2. a # 0 /\ v.es[a].status = "running"
    BY <2>1 DEF KindOf, Project
  <2>3. a \in 1..Len(v.es) /\ v.es[a] \in Entry /\ v.es[a].type = "review_attempt"
    BY <1>3, <2>2, LatestAttemptIs
  <2>4. v.es[a].lease \in 0..MaxTime
    <3>1. v.es[a] \in AttemptEntry
      BY <2>3, TypedEntries
    <3>2. QED
      BY <3>1 DEF AttemptEntry
  <2>5. w = [v EXCEPT !.now = v.es[a].lease]
    <3>1. w = Wait(v)
      BY <1>3 DEF Carry
    <3>2. QED
      BY <2>2, <3>1, Zenon DEF Wait
  <2> HIDE DEF w
  <2>6. /\ IsView(w) /\ w.es = v.es /\ w.spec = v.spec /\ w.work = v.work /\ w.now = v.es[a].lease
    <3>1. PICK x : x = v.es[a].lease
      OBVIOUS
    <3>2. w = [v EXCEPT !.now = x]
      BY <2>5, <3>1
    <3>3. QED
      BY <1>1, <3>1, <3>2, ViewAt
  <2>7. StatusOf(w) = "review"
    BY <2>1, <2>6 DEF StatusOf
  <2>8. Stale(w.es[a], w.now)
    BY <2>2, <2>4, <2>6 DEF Stale
  <2>9. KindOf(w) = "attempt_stale"
    <3>1. LatestAttempt(w.es) = a
      BY <2>6
    <3> HIDE DEF a
    <3>2. Project(w.es, "review", w.spec.contract, w.work, w.now) = "attempt_stale"
      BY <2>2, <2>8, <3>1 DEF Project, Stale
    <3>3. QED
      BY <2>7, <3>2 DEF KindOf
  <2>10. NextAction(w) \in {"review", "force_review"}
    BY <2>7, <2>9, ReviewIsNext
  <2>11. QED
    BY <1>1, <1>3, <2>6, <2>7, <2>10 DEF Workable, Asked, w
<1>4. QED
  BY <1>2, <1>3 DEF Startable

\* A draft is approved.
LEMMA ApprovableLeadsOn ==
  ASSUME NEW v, Approvable(v), NEW repairs
  PROVE  Startable(Carry(v, repairs))
<1> DEFINE w == Carry(v, repairs)
           from == Extended(v, <<Baseline, Approval>>)
<1>1. IsView(v) /\ Evidence(v.es) /\ Recoverable(v.es)
  BY DEF Approvable, Asked
<1>2. w = [from EXCEPT !.spec.status = "approved"]
  <2>1. NextAction(v) = "approve"
    BY DEF Approvable, NextAction
  <2>2. w = CarryApprove(v)
    BY <2>1 DEF Carry
  <2>3. QED
    BY <2>2, Zenon DEF CarryApprove, Approvable
<1>3. IsView(from) /\ from.es = Append(Append(v.es, Baseline), Approval)
  <2>1. IsView(from) /\ from.es = v.es \o <<Baseline, Approval>>
    BY <1>1, ViewWith
  <2>2. v.es \o <<Baseline, Approval>> = Append(Append(v.es, Baseline), Approval)
    BY <1>1, AppendedTwice
  <2>3. QED
    BY <2>1, <2>2
<1> HIDE DEF from, w
<1>4. IsView(w) /\ w.es = Append(Append(v.es, Baseline), Approval)
  BY <1>2, <1>3, ViewAs
<1>5. /\ Baseline.type \notin {"receipt", "complete"} /\ Approval.type \notin {"receipt", "complete"}
      /\ Approval.type = "approval"
  BY EntriesSay
<1>6. Evidence(Append(v.es, Baseline)) /\ Recoverable(Append(v.es, Baseline))
  BY <1>1, <1>5, EvidenceGrows, RecoverableAppended
<1>7. Asked(w)
  BY <1>4, <1>5, <1>6, EvidenceGrows, RecoverableAppended DEF Asked
<1>8. \A s : Lifecycle(w.es, s) = "approved"
  BY <1>4, <1>5, <1>6, LifecycleAppended
<1>9. StatusOf(w) = "approved"
  BY <1>8 DEF StatusOf, FromSession
<1>10. QED
  BY <1>7, <1>9 DEF Startable, w

-----------------------------------------------------------------------------
(* Whatever happened, the advice leads on.                                  *)

\* How far from settled: k commands at most.
Within(k, v) ==
  \/ Settled(v)
  \/ k >= 1 /\ Passed(v)
  \/ k >= 2 /\ Reviewable(v)
  \/ k >= 3 /\ Workable(v)
  \/ k >= 4 /\ Startable(v)
  \/ k >= 5 /\ Approvable(v)

\* Each command the advice names brings it one nearer.
LEMMA FollowLeadsOn ==
  ASSUME NEW k \in 1..5, NEW v, Within(k, v), NEW repairs
  PROVE  Within(k - 1, Follow(v, repairs))
<1>1. CASE Settled(v)
  BY <1>1 DEF Within, Follow
<1>2. CASE ~Settled(v)
  <2> DEFINE w == Carry(v, repairs)
  <2>1. Follow(v, repairs) = w
    BY <1>2 DEF Follow
  <2>2. CASE k >= 1 /\ Passed(v)
    BY <2>1, <2>2, FinalizeSettles DEF Within
  <2>3. CASE k >= 2 /\ Reviewable(v)
    <3>1. Passed(w)
      BY <2>3, ReviewableLeadsOn
    <3>2. QED
      BY <2>1, <2>3, <3>1 DEF Within
  <2>4. CASE k >= 3 /\ Workable(v)
    <3>1. Reviewable(w) \/ Passed(w)
      BY <2>4, WorkableLeadsOn
    <3>2. QED
      BY <2>1, <2>4, <3>1 DEF Within
  <2>5. CASE k >= 4 /\ Startable(v)
    <3>1. Workable(w)
      BY <2>5, StartableLeadsOn
    <3>2. QED
      BY <2>1, <2>5, <3>1 DEF Within
  <2>6. CASE k >= 5 /\ Approvable(v)
    <3>1. Startable(w)
      BY <2>6, ApprovableLeadsOn
    <3>2. QED
      BY <2>1, <2>6, <3>1 DEF Within
  <2>7. QED
    BY <1>2, <2>2, <2>3, <2>4, <2>5, <2>6 DEF Within
<1>3. QED
  BY <1>1, <1>2

\* Five of them settle it; the sixth finds it settled.
LEMMA FollowedSettles ==
  ASSUME NEW v, Within(5, v), NEW repairs
  PROVE  Settled(Followed(v, repairs))
<1> DEFINE v1 == Follow(v, repairs)  v2 == Follow(v1, repairs)  v3 == Follow(v2, repairs)
           v4 == Follow(v3, repairs)  v5 == Follow(v4, repairs)  v6 == Follow(v5, repairs)
<1>1. Followed(v, repairs) = v6
  BY FollowedIs
<1>2. Within(4, v1)
  <2>1. Within(5 - 1, v1)
    BY FollowLeadsOn
  <2>2. QED
    BY <2>1
<1> HIDE DEF v1
<1>3. Within(3, v2)
  <2>1. Within(4 - 1, v2)
    BY <1>2, FollowLeadsOn
  <2>2. QED
    BY <2>1
<1> HIDE DEF v2
<1>4. Within(2, v3)
  <2>1. Within(3 - 1, v3)
    BY <1>3, FollowLeadsOn
  <2>2. QED
    BY <2>1
<1> HIDE DEF v3
<1>5. Within(1, v4)
  <2>1. Within(2 - 1, v4)
    BY <1>4, FollowLeadsOn
  <2>2. QED
    BY <2>1
<1> HIDE DEF v4
<1>6. Within(0, v5)
  <2>1. Within(1 - 1, v5)
    BY <1>5, FollowLeadsOn
  <2>2. QED
    BY <2>1
<1> HIDE DEF v5
<1>7. Settled(v5)
  BY <1>6 DEF Within
<1>8. v6 = v5
  BY <1>7 DEF Follow
<1>9. QED
  BY <1>1, <1>7, <1>8

\* The status of a ledger of entries and a spec file is one of eight.
LEMMA StatusIs ==
  ASSUME NEW es \in Seq(Entry), NEW status \in {"draft", "approved", "completed"}, NEW contract
  PROVE  /\ FromSession(es, status, contract) \in Statuses
         /\ FromSession(es, status, contract) = "draft" => status = "draft"
<1> DEFINE i == LastOf(es, LifecycleTypes)
<1>1. i \in 0..Len(es) /\ (i # 0 => es[i].type \in LifecycleTypes)
  BY LastOfIs
<1>2. CASE i = 0
  <2>1. Lifecycle(es, status) = status
    BY <1>2 DEF Lifecycle
  <2>2. QED
    BY <2>1 DEF FromSession, Statuses
<1>3. CASE i # 0
  <2>1. es[i] \in Entry /\ es[i].type \in LifecycleTypes
    BY <1>1, <1>3
  <2>2. es[i].type = "build" => es[i].status \in {"active", "blocked", "review"}
    BY <2>1 DEF Entry, ReceiptEntry
  <2> HIDE DEF i
  <2>3. Lifecycle(es, status) \in Statuses \ {"draft"}
    BY <1>3, <2>1, <2>2 DEF Lifecycle, LifecycleTypes, Statuses, i
  <2>4. QED
    BY <2>3 DEF FromSession, Statuses
<1>4. QED
  BY <1>2, <1>3

\* What the commands leave behind, whatever they, edits and crashes did, is a
\* task that five commands settle.
LEMMA LeftWithin ==
  ASSUME SafeInv, \A i \in DOMAIN ledger : ledger[i].type = "complete" => ledger[i].by = "finalize"
  PROVE  Within(5, Now)
<1>1. ledger \in Seq(Entry) /\ spec \in [contract : Contracts, status : {"draft", "approved", "completed"}]
  BY DEF SafeInv, TypeInv, DataOK
<1>2. PICK v : v = Now
  OBVIOUS
<1>3. v.es = ledger /\ v.spec = spec /\ IsView(v)
  <2>1. spec = [contract |-> spec.contract, status |-> spec.status]
    BY <1>1
  <2>2. v = [es |-> ledger, spec |-> spec, work |-> work, now |-> now]
    BY <1>2 DEF Now
  <2>3. PICK s : s = [contract |-> spec.contract, status |-> spec.status]
    OBVIOUS
  <2>4. spec = s
    BY <2>1, <2>3
  <2>5. v = [es |-> ledger, spec |-> [contract |-> spec.contract, status |-> spec.status],
             work |-> work, now |-> now]
    BY <2>2, <2>3, <2>4
  <2>6. IsView(v)
    BY <2>5 DEF IsView
  <2>7. QED
    BY <2>2, <2>6
<1>4. Recoverable(ledger)
  <2>1. CASE Receipts(ledger) # {}
    BY <2>1, SafeRecoverable DEF ReceiptRecoverable, Recoverable
  <2>2. CASE Receipts(ledger) = {}
    <3>1. LastOf(ledger, {"complete"}) = 0
      <4>1. SUFFICES ASSUME LastOf(ledger, {"complete"}) # 0 PROVE FALSE
        OBVIOUS
      <4>2. PICK i \in DOMAIN ledger : ledger[i].type = "complete"
        BY <1>1, <4>1, LastOfFinds
      <4>3. i > 1 /\ ledger[i - 1].type = "receipt"
        BY <4>2 DEF SafeInv, LedgerOK
      <4>4. i - 1 \in DOMAIN ledger
        BY <1>1, <4>2, <4>3
      <4>5. QED
        BY <2>2, <4>3, <4>4 DEF Receipts
    <3>2. QED
      BY <2>2, <3>1 DEF Recoverable
  <2>3. QED
    BY <2>1, <2>2
<1>5. Asked(v) /\ v.es \in Seq(Entry)
  BY <1>1, <1>3, <1>4 DEF Asked, Evidence
<1>6. /\ StatusOf(v) \in Statuses
      /\ StatusOf(v) = "draft" => v.spec.status = "draft"
  <2>1. PICK status \in {"draft", "approved", "completed"} : status = v.spec.status
    BY <1>1, <1>3
  <2>2. QED
    BY <1>5, <2>1, StatusIs DEF StatusOf
<1> SUFFICES Within(5, v)
  BY <1>2
<1>7. CASE StatusOf(v) \in {"completed", "failed", "cancelled"}
  BY <1>7 DEF Within, Settled
<1>8. CASE StatusOf(v) = "draft"
  BY <1>5, <1>6, <1>8 DEF Within, Approvable
<1>9. CASE StatusOf(v) = "approved"
  BY <1>5, <1>9 DEF Within, Startable
<1>10. CASE StatusOf(v) \in {"active", "blocked"}
  BY <1>5, <1>10 DEF Within, Workable
<1>11. CASE StatusOf(v) = "review"
  <2>1. /\ NextAction(v) \in {"status", "force_review", "build", "finalize", "review"}
        /\ NextAction(v) = "finalize" => KindOf(v) = "review_passed"
    BY <1>11 DEF NextAction, ReviewAdvice
  <2>2. CASE NextAction(v) = "status"
    BY <1>5, <2>2 DEF Within, Startable
  <2>3. CASE NextAction(v) \in {"build", "review", "force_review"}
    BY <1>5, <1>11, <2>3 DEF Within, Workable
  <2>4. CASE NextAction(v) = "finalize"
    BY <1>5, <1>11, <2>1, <2>4 DEF Within, Passed
  <2>5. QED
    BY <2>1, <2>2, <2>3, <2>4
<1>12. QED
  BY <1>6, <1>7, <1>8, <1>9, <1>10, <1>11 DEF Statuses

\* An operator who runs what status advises, one command after the other, gets
\* the task settled, from every state its commands, edits and crashes can leave
\* (AdviceLeadsOn).
THEOREM AdviceSettles == Spec => []AdviceLeadsOn
<1>1. SafeInv => AdviceLeadsOn
  BY LeftWithin, FollowedSettles DEF AdviceLeadsOn
<1>2. QED
  BY <1>1, SafeInvariant, PTL
=============================================================================
