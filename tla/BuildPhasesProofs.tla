------------------------- MODULE BuildPhasesProofs -------------------------
(***************************************************************************)
(* Builds of a task with phases judge them in order, and a rerun judges    *)
(* everything: for any number of processes, any contracts an edit may put  *)
(* in the spec, any number of edits, failing commands and crashes.         *)
(***************************************************************************)
EXTENDS BuildPhases, NumberLemmas, SequenceTheorems

-----------------------------------------------------------------------------
(* The inductive invariant.  What is said of a process is said of its step *)
(* and of what it holds, `c`, so that it can be said of the step to come.  *)

\* A phase the session `s` knows was recorded when what stood before it was
\* done, and one it has as completed is done.
Recorded(s) ==
  \A p \in Phases :
    /\ s.blocks[p] = "pending"   => s.before[p] = Phases
    /\ s.blocks[p] # "pending"   => s.before[p] \subseteq s.done
    /\ s.blocks[p] = "completed" => p \in s.done

\* What a later session may not lose.
Grows(s, t) ==
  /\ s.done \subseteq t.done
  /\ \A p \in Phases : /\ s.blocks[p] # "pending" => t.blocks[p] # "pending"
                       /\ t.before[p] \subseteq s.before[p]

\* An earlier look at the session `s` shows no phase further than it is.
Known(seen, s) ==
  \A p \in Phases :
    /\ seen.blocks[p] # "pending"   => s.blocks[p] # "pending"
    /\ seen.blocks[p] = "completed" => p \in s.done

\* What PhasesInOrder asks for.
Due(contract, phase, s) ==
  (IF phase = Final THEN Earlier(contract, Final)
   ELSE Earlier(contract, phase) \cap s.before[phase]) \subseteq s.done

Orderly(step, c, s) ==
  /\ Known(c.seen, s)
  /\ c.rerun => Earlier(c.contract, Final) \subseteq s.done
  /\ step \in {"final", "list", "criterion", "verdict"} => Due(c.contract, c.phase, s)
  /\ step = "advance" => Earlier(c.contract, c.phase) \subseteq s.done

\* Where a process is in the command, and in its contract.
Placed(step, c) ==
  /\ step \in {"look", "reload", "attach", "open", "opened", "reopen", "rerun"} => c.through = 0
  /\ step \in {"continue", "advance", "advanced"} => ~c.rerun
  /\ step = "rerun" => c.rerun
  /\ step \in {"final", "list"} /\ c.phase = Final => CriteriaOf(c.contract, Final) # {}
  /\ step = "criterion" => c.queue # << >>
  /\ step \in {"verdict", "block", "advance"} => c.phase \in Phases
  /\ step \in {"final", "final verdict"} => c.phase = Final

\* A rerun has judged the phases it is through with, and of the phase it is at
\* what is not in the queue any more.
Covered(c, phase) == \A k \in CriteriaOf(c.contract, phase) : k.id \in c.ran

AtPhase(c) ==
  /\ c.through \in DOMAIN c.contract.phases
  /\ c.contract.phases[c.through] = c.phase
  /\ \A i \in DOMAIN c.contract.phases : i < c.through => Covered(c, c.contract.phases[i])

AtFinal(c) == \A i \in DOMAIN c.contract.phases : Covered(c, c.contract.phases[i])

InQueue(c) ==
  \A k \in CriteriaOf(c.contract, c.phase) :
    k.id \in c.ran \/ \E i \in DOMAIN c.queue : c.queue[i] = k

Judging(step, c) ==
  c.rerun =>
    /\ step \in {"list", "criterion", "verdict"} /\ c.phase # Final => AtPhase(c)
    /\ step \in {"list", "criterion", "final", "final verdict"} /\ c.phase = Final => AtFinal(c)
    /\ step = "criterion" => InQueue(c)
    /\ step \in {"verdict", "final verdict"} => Covered(c, c.phase)

Holds(step, c, s) ==
  step \in Steps /\ c \in Calls /\ Placed(step, c) /\ Orderly(step, c, s) /\ Judging(step, c)

BuildInv ==
  /\ TypeOK
  /\ Recorded(session)
  /\ \A b \in Builders : Holds(pc[b], call[b], session)

-----------------------------------------------------------------------------
(* Sessions, and what an append does to one.                                *)

LEMMA EarlierArePhases == \A contract, phase : Earlier(contract, phase) \subseteq Phases
  BY DEF Earlier

Follows(s, t) == t \in Session /\ Recorded(t) /\ Grows(s, t)

LEMMA Stays ==
  ASSUME NEW s \in Session, Recorded(s)
  PROVE  Follows(s, s)
  BY DEF Follows, Grows

\* An append that is about something else leaves the phases as they are.
LEMMA SamePhases ==
  ASSUME NEW s \in Session, NEW t \in Session, Recorded(s),
         t.blocks = s.blocks, t.done = s.done, t.before = s.before
  PROVE  Follows(s, t)
  BY DEF Follows, Grows, Recorded

LEMMA BuildFollows ==
  ASSUME NEW s \in Session, Recorded(s), NEW status \in {"active", "blocked", "review"}
  PROVE  Follows(s, WithBuild(s, status))
<1>1. WithBuild(s, status) \in Session
  BY DEF WithBuild, Session
<1>2. /\ WithBuild(s, status).blocks = s.blocks
      /\ WithBuild(s, status).done = s.done
      /\ WithBuild(s, status).before = s.before
  BY DEF WithBuild, Session
<1>3. QED
  BY <1>1, <1>2, SamePhases

LEMMA StateInSession ==
  ASSUME NEW s \in Session, NEW phase \in Phases \cup {Final}, NEW k \in Criterion,
         NEW status \in {"pass", "fail", "pending"}
  PROVE  /\ WithState(s, phase, k, status) \in Session
         /\ WithState(s, phase, k, status).blocks = s.blocks
         /\ WithState(s, phase, k, status).done = s.done
         /\ WithState(s, phase, k, status).before = s.before
<1> DEFINE r == [phase |-> phase, status |-> status, kind |-> k.kind, command |-> k.command]
           R == [phase : Phases \cup {Final}, status : {"pass", "fail", "pending"},
                 kind : CommandKinds \cup {"manual"}, command : Commands \cup {NoCommand}]
<1>1. k.kind \in CommandKinds \cup {"manual"} /\ k.command \in Commands \cup {NoCommand}
      /\ k.id \in Ids
  BY DEF Criterion
<1>2. r \in R
  BY <1>1
<1>3. s.states \in [Ids -> R \cup {None}]
  BY DEF Session
<1> HIDE DEF r
<1>4. [s.states EXCEPT ![k.id] = r] \in [Ids -> R \cup {None}]
  BY <1>1, <1>2, <1>3
<1>5. WithState(s, phase, k, status) = [s EXCEPT !.states = [s.states EXCEPT ![k.id] = r]]
  BY Zenon DEF WithState, r, Session
<1>6. QED
  BY <1>4, <1>5 DEF Session

LEMMA StateFollows ==
  ASSUME NEW s \in Session, Recorded(s), NEW phase \in Phases \cup {Final},
         NEW k \in Criterion, NEW status \in {"pass", "fail", "pending"}
  PROVE  Follows(s, WithState(s, phase, k, status))
  BY StateInSession, SamePhases

LEMMA ManualFollows ==
  ASSUME NEW s \in Session, Recorded(s), NEW phase \in Phases \cup {Final},
         NEW k \in Criterion, NEW disposition \in {"pass", "fail"}
  PROVE  Follows(s, WithManual(s, phase, k, disposition))
<1> DEFINE t == WithState(s, phase, k, disposition)
           m == [t.manual EXCEPT ![<<k.id, phase>>] = disposition]
<1>1. t \in Session /\ t.blocks = s.blocks /\ t.done = s.done /\ t.before = s.before
  BY StateInSession
<1> HIDE DEF t
<1>2. k.id \in Ids
  BY DEF Criterion
<1>3. m \in [Ids \X (Phases \cup {Final}) -> {"pass", "fail", None}]
  BY <1>1, <1>2 DEF Session
<1>4. WithManual(s, phase, k, disposition) = [t EXCEPT !.manual = m]
  BY <1>1, Zenon DEF WithManual, t, Session
<1> HIDE DEF m
<1>5. [t EXCEPT !.manual = m] \in Session /\ [t EXCEPT !.manual = m].blocks = t.blocks
      /\ [t EXCEPT !.manual = m].done = t.done /\ [t EXCEPT !.manual = m].before = t.before
  BY <1>1, <1>3 DEF Session
<1>6. QED
  BY <1>1, <1>4, <1>5, SamePhases

\* A phase is recorded, and for the first time only when all before it is done.
LEMMA PhaseFollows ==
  ASSUME NEW s \in Session, Recorded(s), NEW contract, NEW phase \in Phases,
         NEW status \in {"active", "blocked", "completed"},
         s.blocks[phase] = "pending" => Earlier(contract, phase) \subseteq s.done
  PROVE  /\ Follows(s, WithPhase(s, contract, phase, status))
         /\ status = "completed" => phase \in WithPhase(s, contract, phase, status).done
<1> DEFINE t      == WithPhase(s, contract, phase, status)
           done   == IF status = "completed" THEN s.done \cup {phase} ELSE s.done
           first  == IF s.blocks[phase] = "pending" THEN Earlier(contract, phase)
                     ELSE s.before[phase]
           blocks == [s.blocks EXCEPT ![phase] = status]
           before == [s.before EXCEPT ![phase] = first]
<1>1. t = [s EXCEPT !.blocks = blocks, !.done = done, !.before = before]
  BY Zenon DEF WithPhase, Session
<1>2. /\ s.blocks \in [Phases -> {"pending", "active", "blocked", "completed"}]
      /\ s.done \in SUBSET Phases
      /\ s.before \in [Phases -> SUBSET Phases]
  BY DEF Session
<1>3. blocks \in [Phases -> {"pending", "active", "blocked", "completed"}]
  BY <1>2
<1>4. done \in SUBSET Phases /\ s.done \subseteq done /\ (status = "completed" => phase \in done)
  BY <1>2
<1>5. first \in SUBSET Phases
  BY <1>2, EarlierArePhases
<1>5a. before \in [Phases -> SUBSET Phases]
  <2> HIDE DEF first
  <2> QED
    BY <1>2, <1>5
<1>6. \A p \in Phases : /\ blocks[p] = IF p = phase THEN status ELSE s.blocks[p]
                        /\ before[p] = IF p = phase THEN first ELSE s.before[p]
  <2> HIDE DEF first
  <2> QED
    BY <1>2
<1>7. t \in Session /\ t.blocks = blocks /\ t.done = done /\ t.before = before
  <2> HIDE DEF t, blocks, done, before
  <2> QED
    BY <1>1, <1>3, <1>4, <1>5a DEF Session
<1>8. Recorded(t)
  <2>1. first \subseteq done
    BY <1>4 DEF Recorded
  <2> SUFFICES ASSUME NEW p \in Phases
               PROVE  /\ blocks[p] = "pending"   => before[p] = Phases
                      /\ blocks[p] # "pending"   => before[p] \subseteq done
                      /\ blocks[p] = "completed" => p \in done
    BY <1>7, Zenon DEF Recorded
  <2> HIDE DEF t, first, done, blocks, before
  <2>2. CASE p = phase
    BY <2>1, <2>2, <1>4, <1>6
  <2>3. CASE p # phase
    BY <2>3, <1>4, <1>6 DEF Recorded
  <2>4. QED
    BY <2>2, <2>3
<1>9. Grows(s, t)
  <2>1. first \subseteq s.before[phase]
    BY <1>5 DEF Recorded
  <2> HIDE DEF t, first, done, blocks, before
  <2> QED
    BY <2>1, <1>4, <1>6, <1>7 DEF Grows
<1>10. QED
  BY <1>4, <1>7, <1>8, <1>9 DEF Follows

-----------------------------------------------------------------------------
(* The projection: which phase comes next, and what is behind it.           *)

LEMMA ContractTypes ==
  ASSUME NEW c \in Contracts
  PROVE  /\ c.phases \in Seq(Phases)
         /\ \A i \in DOMAIN c.phases : i \in Nat /\ i > 0 /\ c.phases[i] \in Phases
         /\ \A p \in Phases \cup {Final} : c.criteria[p] \in Seq(Criterion)
         /\ \A p \in Phases : CriteriaOf(c, p) # {} => \E i \in DOMAIN c.phases : c.phases[i] = p
         /\ Final \notin Phases
<1>1. c \in Contract
  BY ContractsAreContracts
<1>2. c.phases \in Seq(Phases) /\ c.criteria \in [Phases \cup {Final} -> Seq(Criterion)]
  BY <1>1 DEF Contract
<1>3. \A i \in DOMAIN c.phases : i \in Nat /\ i > 0 /\ c.phases[i] \in Phases
  BY <1>2
<1>4. QED
  BY <1>2, <1>3, ContractsAreContracts, FinalIsNoPhase

LEMMA CriteriaTypes ==
  ASSUME NEW c \in Contracts, NEW p \in Phases \cup {Final}
  PROVE  /\ CriteriaOf(c, p) \subseteq Criterion
         /\ CriteriaOf(c, p) = {} <=> c.criteria[p] = << >>
<1>1. c.criteria[p] \in Seq(Criterion)
  BY ContractTypes
<1> DEFINE q == c.criteria[p]
<1>2. CriteriaOf(c, p) = {q[i] : i \in DOMAIN q}
  BY DEF CriteriaOf
<1> HIDE DEF q
<1>3. q \in Seq(Criterion)
  BY <1>1 DEF q
<1>4. {q[i] : i \in DOMAIN q} \subseteq Criterion
  BY <1>3
<1>5. {q[i] : i \in DOMAIN q} = {} <=> q = << >>
  <2>1. q # << >> => 1 \in DOMAIN q
    BY <1>3
  <2>2. q = << >> => DOMAIN q = {}
    BY <1>3
  <2>3. QED
    BY <2>1, <2>2
<1>6. QED
  BY <1>2, <1>4, <1>5 DEF q

\* What stands before the first place of a phase.
LEMMA EarlierStandBefore ==
  ASSUME NEW c \in Contracts, NEW i \in DOMAIN c.phases, NEW q \in Earlier(c, c.phases[i])
  PROVE  /\ CriteriaOf(c, q) # {}
         /\ \E j \in DOMAIN c.phases : j < i /\ c.phases[j] = q
<1>1. PICK j \in DOMAIN c.phases : c.phases[j] = q /\ \A l \in 1..j : c.phases[l] # c.phases[i]
  BY DEF Earlier
<1>2. i \in Nat /\ j \in Nat /\ i > 0
  BY ContractTypes
<1>3. j < i
  BY <1>1, <1>2
<1>4. QED
  BY <1>1, <1>3 DEF Earlier

LEMMA PhaseStatusIs ==
  ASSUME NEW c, NEW s \in Session, NEW p \in Phases
  PROVE  /\ PhaseStatus(c, s, p) \in {"pending", "active", "blocked", "completed"}
         /\ PhaseStatus(c, s, p) = "pending"   => s.blocks[p] = "pending"
         /\ PhaseStatus(c, s, p) = "blocked"   => s.blocks[p] = "blocked"
         /\ PhaseStatus(c, s, p) = "completed" => s.blocks[p] = "completed"
         /\ PhaseStatus(c, s, p) # "pending"   => s.blocks[p] # "pending"
<1>1. s.blocks[p] \in {"pending", "active", "blocked", "completed"}
  BY DEF Session
<1>2. QED
  BY <1>1 DEF PhaseStatus

LEMMA FirstPhaseIs ==
  ASSUME NEW c \in Contracts, NEW s \in Session, NEW states
  PROVE  LET p == FirstPhase(c, s, states)
         IN  \/ /\ p = Final
                /\ \A j \in DOMAIN c.phases : PhaseStatus(c, s, c.phases[j]) \notin states
             \/ \E i \in DOMAIN c.phases :
                  /\ p = c.phases[i] /\ p \in Phases
                  /\ PhaseStatus(c, s, p) \in states
                  /\ \A j \in DOMAIN c.phases :
                       j < i => PhaseStatus(c, s, c.phases[j]) \notin states
<1> DEFINE hits == {i \in DOMAIN c.phases : PhaseStatus(c, s, c.phases[i]) \in states}
           least == CHOOSE i \in hits : \A j \in hits : i <= j
<1>1. FirstPhase(c, s, states) = IF hits = {} THEN Final ELSE c.phases[least]
  BY DEF FirstPhase
<1>2. CASE hits = {}
  BY <1>1, <1>2
<1>3. CASE hits # {}
  <2>1. hits \in SUBSET Nat
    BY ContractTypes
  <2>2. \E i \in hits : \A j \in hits : i <= j
    <3> HIDE DEF hits
    <3> QED
      BY <2>1, <1>3, LeastNumber
  <2>3. least \in hits /\ \A j \in hits : least <= j
    <3> HIDE DEF hits
    <3> QED
      BY <2>2
  <2> HIDE DEF least
  <2>4. least \in DOMAIN c.phases /\ c.phases[least] \in Phases
    BY <2>3, ContractTypes
  <2>5. ASSUME NEW j \in hits, j < least
        PROVE  FALSE
    <3> HIDE DEF hits
    <3>1. j \in Nat /\ least \in Nat /\ least <= j
      BY <2>1, <2>3
    <3>2. QED
      BY <2>5, <3>1
  <2>6. QED
    BY <1>1, <1>3, <2>3, <2>4, <2>5
<1>4. QED
  BY <1>2, <1>3

\* All the phases with criteria before a phase are recorded as completed.
Behind(contract, s, p) == \A q \in Earlier(contract, p) : s.blocks[q] = "completed"

LEMMA BehindIsDone ==
  ASSUME NEW contract, NEW p, NEW seen, NEW s, Behind(contract, seen, p), Known(seen, s)
  PROVE  Earlier(contract, p) \subseteq s.done
  BY EarlierArePhases DEF Behind, Known

\* The next phase: nothing with criteria before it is left to complete.
LEMMA PendingPhaseIs ==
  ASSUME NEW c \in Contracts, NEW s \in Session
  PROVE  PendingPhase(c, s) \in Phases \cup {Final} /\ Behind(c, s, PendingPhase(c, s))
<1> DEFINE p == PendingPhase(c, s)
           open == {"pending", "active", "blocked"}
<1>1. \A j \in DOMAIN c.phases :
        PhaseStatus(c, s, c.phases[j]) \notin open => s.blocks[c.phases[j]] = "completed"
  BY PhaseStatusIs, ContractTypes
<1>2. \/ p = Final /\ \A j \in DOMAIN c.phases : PhaseStatus(c, s, c.phases[j]) \notin open
      \/ \E i \in DOMAIN c.phases :
           /\ p = c.phases[i] /\ p \in Phases
           /\ \A j \in DOMAIN c.phases : j < i => PhaseStatus(c, s, c.phases[j]) \notin open
  BY FirstPhaseIs DEF PendingPhase
<1> HIDE DEF p, open
<1>3. CASE p = Final /\ \A j \in DOMAIN c.phases : PhaseStatus(c, s, c.phases[j]) \notin open
  BY <1>1, <1>3 DEF Behind, Earlier, p
<1>4. ASSUME NEW i \in DOMAIN c.phases, p = c.phases[i], p \in Phases,
             \A j \in DOMAIN c.phases : j < i => PhaseStatus(c, s, c.phases[j]) \notin open
      PROVE  p \in Phases /\ Behind(c, s, p)
  <2> SUFFICES ASSUME NEW q \in Earlier(c, p)
               PROVE  s.blocks[q] = "completed"
    BY <1>4 DEF Behind
  <2>1. PICK j \in DOMAIN c.phases : j < i /\ c.phases[j] = q
    BY <1>4, EarlierStandBefore
  <2>2. QED
    BY <1>1, <1>4, <2>1
<1>5. QED
  BY <1>2, <1>3, <1>4 DEF p

\* A task at review has all its phases with criteria completed.
LEMMA ReviewIsBehindAll ==
  ASSUME NEW c \in Contracts, NEW s \in Session, Status(c, s) = "review"
  PROVE  Behind(c, s, Final)
<1>1. \A p \in Phases \cup {Final} : ~Stale(c, s, p)
  BY DEF Status
<1> SUFFICES ASSUME NEW q \in Earlier(c, Final)
             PROVE  s.blocks[q] = "completed"
  BY DEF Behind
<1>2. q \in Phases /\ CriteriaOf(c, q) # {} /\ Final \notin Phases
  BY FinalIsNoPhase DEF Earlier
<1>3. PhaseStatus(c, s, q) = "completed"
  BY <1>1, <1>2 DEF Stale
<1>4. QED
  BY <1>2, <1>3, PhaseStatusIs

LEMMA StalePhaseIs ==
  ASSUME NEW c \in Contracts, NEW s \in Session,
         NEW p \in Phases \cup {Final}, Stale(c, s, p)
  PROVE  StalePhase(c, s) \in Phases \cup {Final} /\ Behind(c, s, StalePhase(c, s))
<1> DEFINE stale == {i \in DOMAIN c.phases : Stale(c, s, c.phases[i])}
           least == CHOOSE i \in stale : \A j \in stale : i <= j
<1>1. CASE Stale(c, s, Final)
  BY <1>1, PendingPhaseIs DEF StalePhase
<1>2. CASE ~Stale(c, s, Final)
  <2>1. PICK i \in DOMAIN c.phases : c.phases[i] = p
    BY <1>2, ContractTypes DEF Stale
  <2>2. stale \in SUBSET Nat /\ i \in stale
    BY <2>1, ContractTypes
  <2>3. \E m \in stale : \A j \in stale : m <= j
    <3> HIDE DEF stale
    <3> QED
      BY <2>2, LeastNumber
  <2>4. least \in stale /\ \A j \in stale : least <= j
    <3> HIDE DEF stale
    <3> QED
      BY <2>3
  <2>5. StalePhase(c, s) = c.phases[least]
    BY <1>2 DEF StalePhase
  <2> HIDE DEF least
  <2>6. least \in DOMAIN c.phases /\ c.phases[least] \in Phases
    BY <2>4, ContractTypes
  <2>7. \A j \in DOMAIN c.phases : j < least => ~Stale(c, s, c.phases[j])
    <3>1. ASSUME NEW j \in stale, j < least
          PROVE  FALSE
      <4> HIDE DEF stale
      <4>1. j \in Nat /\ least \in Nat /\ least <= j
        BY <2>2, <2>4
      <4>2. QED
        BY <3>1, <4>1
    <3>2. QED
      BY <3>1
  <2>8. ASSUME NEW q \in Earlier(c, c.phases[least])
        PROVE  s.blocks[q] = "completed"
    <3>1. PICK j \in DOMAIN c.phases : j < least /\ c.phases[j] = q
      BY <2>6, EarlierStandBefore
    <3>2. q \in Phases /\ CriteriaOf(c, q) # {} /\ Final \notin Phases
      BY FinalIsNoPhase DEF Earlier
    <3>3. PhaseStatus(c, s, q) = "completed"
      BY <2>7, <3>1, <3>2 DEF Stale
    <3>4. QED
      BY <3>2, <3>3, PhaseStatusIs
  <2>9. QED
    BY <2>5, <2>6, <2>8 DEF Behind
<1>3. QED
  BY <1>1, <1>2

\* The phase a build goes on with: one that is recorded, or the next one.
LEMMA CurrentPhaseIs ==
  ASSUME NEW c \in Contracts, NEW s \in Session
  PROVE  LET p == CurrentPhase(c, s)
         IN  /\ p \in Phases \cup {Final}
             /\ (p \in Phases /\ s.blocks[p] # "pending") \/ Behind(c, s, p)
<1> DEFINE Fits(p) == /\ p \in Phases \cup {Final}
                      /\ (p \in Phases /\ s.blocks[p] # "pending") \/ Behind(c, s, p)
<1>1. Fits(PendingPhase(c, s))
  BY PendingPhaseIs
<1>2. Fits(ActivePhase(c, s))
  <2> DEFINE p == FirstPhase(c, s, {"active"})
  <2>1. p = Final \/ (p \in Phases /\ PhaseStatus(c, s, p) = "active")
    BY FirstPhaseIs
  <2> HIDE DEF p
  <2>2. p = Final \/ (p \in Phases /\ s.blocks[p] # "pending")
    BY <2>1, PhaseStatusIs
  <2>3. ActivePhase(c, s) = IF p # Final THEN p ELSE PendingPhase(c, s)
    BY DEF ActivePhase, p
  <2>4. QED
    BY <1>1, <2>2, <2>3
<1>3. Fits(BlockedPhase(c, s))
  <2> DEFINE p == FirstPhase(c, s, {"blocked"})
  <2>1. p = Final \/ (p \in Phases /\ PhaseStatus(c, s, p) = "blocked")
    BY FirstPhaseIs
  <2> HIDE DEF p
  <2>2. p = Final \/ (p \in Phases /\ s.blocks[p] # "pending")
    BY <2>1, PhaseStatusIs
  <2>3. BlockedPhase(c, s) = IF p # Final THEN p ELSE ActivePhase(c, s)
    BY DEF BlockedPhase, p
  <2>4. QED
    BY <1>2, <2>2, <2>3
<1>4. s.status = "review" /\ Status(c, s) = "active" => Fits(StalePhase(c, s))
  <2> SUFFICES ASSUME s.status = "review", Status(c, s) = "active"
               PROVE  Fits(StalePhase(c, s))
    OBVIOUS
  <2>1. PICK p \in Phases \cup {Final} : Stale(c, s, p)
    BY DEF Status
  <2>2. QED
    BY <2>1, StalePhaseIs
<1> HIDE DEF Fits
<1>5. Fits(CurrentPhase(c, s))
  <2>1. CASE s.status = "active"
    BY <1>2, <2>1 DEF CurrentPhase
  <2>2. CASE s.status = "blocked"
    BY <1>3, <2>2 DEF CurrentPhase
  <2>3. CASE s.status = "review" /\ Status(c, s) = "active"
    BY <1>4, <2>3 DEF CurrentPhase
  <2>4. CASE /\ s.status # "active" /\ s.status # "blocked"
             /\ ~(s.status = "review" /\ Status(c, s) = "active")
    BY <1>1, <2>4 DEF CurrentPhase
  <2>5. QED
    BY <2>1, <2>2, <2>3, <2>4
<1>6. QED
  BY <1>5 DEF Fits

-----------------------------------------------------------------------------
(* Processes.                                                               *)

LEMMA NothingSeen ==
  /\ Approved \in Session
  /\ \A s : Known(Approved, s)
  /\ \A s \in Session : Attached(s) \in Session /\ \A t : Known(Attached(s), t)
<1>1. Approved \in Session
  BY DEF Approved, Session
<1>2. \A s : Known(Approved, s)
  BY DEF Approved, Known
<1>3. ASSUME NEW s \in Session
      PROVE  /\ Attached(s) \in Session
             /\ Attached(s).blocks = Approved.blocks /\ Attached(s).done = Approved.done
  <2>1. s.manual \in [Ids \X (Phases \cup {Final}) -> {"pass", "fail", None}]
    BY DEF Session
  <2>2. QED
    BY <1>1, <2>1 DEF Attached, Session
<1>4. QED
  BY <1>1, <1>2, <1>3 DEF Known

LEMMA IdleHolds ==
  ASSUME NEW s
  PROVE  Idle \in Calls /\ Holds("idle", Idle, s)
<1>1. FirstContract \in Contracts
  BY ContractsAreContracts
<1>2. Idle \in Calls /\ Idle.seen = Approved /\ Idle.rerun = FALSE
  BY <1>1, NothingSeen DEF Idle, Call, Calls
<1>3. QED
  BY <1>2, NothingSeen DEF Holds, Placed, Orderly, Judging, Steps

\* A process keeps what it may rely on while others append.
LEMMA HoldsStays ==
  ASSUME NEW s, NEW t, Grows(s, t), NEW step, NEW c, Holds(step, c, s)
  PROVE  Holds(step, c, t)
<1>1. Known(c.seen, t)
  BY DEF Holds, Orderly, Known, Grows
<1>2. c \in Calls /\ c.phase \in Phases \cup {Final}
  BY DEF Holds, Calls
<1>3. Due(c.contract, c.phase, s) => Due(c.contract, c.phase, t)
  BY <1>2 DEF Due, Grows
<1>4. QED
  BY <1>1, <1>3 DEF Holds, Orderly, Grows

\* The process b goes on, and may rely on what it needs at its next step.
Moved(b) == \E step, c : Goto(b, step, c) /\ Holds(step, c, session')

LEMMA DoneMoves ==
  ASSUME NEW b \in Builders, Done(b)
  PROVE  Moved(b)
  BY IdleHolds DEF Done, Moved

\* What a step of b may rely on.
LEMMA Before ==
  ASSUME BuildInv, NEW b \in Builders
  PROVE  /\ session \in Session /\ Recorded(session) /\ Known(session, session)
         /\ call[b] \in Calls /\ pc[b] \in Steps
         /\ Known(call[b].seen, session)
         /\ call[b].rerun => Earlier(call[b].contract, Final) \subseteq session.done
         /\ Placed(pc[b], call[b])
         /\ Orderly(pc[b], call[b], session)
         /\ Judging(pc[b], call[b])
<1>1. Holds(pc[b], call[b], session)
  BY DEF BuildInv
<1>2. Known(session, session)
  BY DEF BuildInv, Recorded, Known
<1>3. QED
  BY <1>1, <1>2 DEF BuildInv, TypeOK, Holds, Orderly

LEMMA CallFields ==
  ASSUME NEW c \in Calls
  PROVE  /\ c.contract \in Contracts /\ c.seen \in Session /\ c.phase \in Phases \cup {Final}
         /\ c.rerun \in BOOLEAN /\ c.failed \in BOOLEAN /\ c.queue \in Seq(Criterion)
         /\ c.ran \in SUBSET Ids /\ c.through \in Nat
         /\ c.evidence \in Dispositions \cup {NoEvidence}
  BY DEF Calls

\* What a process holds when it looks at the session.
LEMMA SeenFields ==
  ASSUME NEW c \in Calls, NEW s \in Session
  PROVE  LET d == [c EXCEPT !.seen = s]
         IN  /\ d \in Calls /\ d.seen = s
             /\ d.contract = c.contract /\ d.rerun = c.rerun /\ d.through = c.through
             /\ d.phase = c.phase /\ d.queue = c.queue /\ d.ran = c.ran
             /\ d.evidence = c.evidence /\ d.failed = c.failed
  BY DEF Calls

LEMMA ForgetFields ==
  ASSUME NEW c \in Calls
  PROVE  /\ Forget(c) \in Calls /\ Forget(c).seen = Approved
         /\ Forget(c).contract = c.contract /\ Forget(c).rerun = c.rerun
         /\ Forget(c).through = c.through /\ Forget(c).phase = c.phase
         /\ Forget(c).queue = c.queue /\ Forget(c).ran = c.ran /\ Forget(c).failed = c.failed
  BY NothingSeen DEF Forget, Calls

-----------------------------------------------------------------------------
(* Run.                                                                     *)

LEMMA BeginKeeps ==
  ASSUME BuildInv, NEW b \in Builders, NEW e \in Dispositions \cup {NoEvidence}, Begin(b, e)
  PROVE  Follows(session, session') /\ Moved(b)
<1> DEFINE c == Call(spec, e)
<1>1. session' = session /\ Goto(b, "look", c) /\ spec \in Contracts
  BY DEF Begin, BuildInv, TypeOK
<1>2. c \in Calls /\ c.seen = Approved /\ c.rerun = FALSE /\ c.through = 0
  BY <1>1, NothingSeen DEF Call, Calls
<1>3. Holds("look", c, session)
  <2> HIDE DEF c
  <2> QED
    BY <1>2, NothingSeen DEF Holds, Placed, Orderly, Judging, Steps
<1>4. QED
  BY <1>1, <1>3, Stays, Before DEF Moved

LEMMA LookKeeps ==
  ASSUME BuildInv, NEW b \in Builders, Look(b)
  PROVE  Follows(session, session') /\ Moved(b)
<1>1. PICK c \in Calls : c = call[b]
  BY Before
<1>2. PICK again \in BOOLEAN : again = (Status(c.contract, session) = "review")
  BY Zenon
<1> DEFINE d == [c EXCEPT !.rerun = again]
<1>3. session' = session /\ Goto(b, "reload", d) /\ pc[b] = "look"
  BY <1>1, <1>2, Zenon DEF Look
<1>4. /\ d \in Calls /\ d.contract = c.contract /\ d.seen = c.seen /\ d.rerun = again
      /\ d.through = c.through
  BY DEF Calls
<1>5. c.through = 0
  BY <1>1, <1>3, Before DEF Placed
<1>6. again => Earlier(c.contract, Final) \subseteq session.done
  <2> SUFFICES ASSUME again
               PROVE  Earlier(c.contract, Final) \subseteq session.done
    OBVIOUS
  <2>1. Status(c.contract, session) = "review"
    BY <1>2
  <2>2. Behind(c.contract, session, Final)
    BY <2>1, ReviewIsBehindAll, Before, CallFields
  <2>3. QED
    BY <2>2, BehindIsDone, Before
<1>7. Holds("reload", d, session)
  <2> HIDE DEF d
  <2> QED
    BY <1>1, <1>4, <1>5, <1>6, Before DEF Holds, Placed, Orderly, Judging, Steps
<1>8. QED
  BY <1>3, <1>7, Stays, Before DEF Moved

\* What comes after the evidence.
LEMMA AfterEvidenceIs ==
  ASSUME NEW c
  PROVE  \/ AfterEvidence(c) = "open"
         \/ AfterEvidence(c) = "rerun" /\ c.rerun
         \/ AfterEvidence(c) = "continue" /\ ~c.rerun
  BY DEF AfterEvidence

LEMMA AfterEvidenceHolds ==
  ASSUME NEW s, NEW c \in Calls, Known(c.seen, s), c.through = 0,
         c.rerun => Earlier(c.contract, Final) \subseteq s.done
  PROVE  Holds(AfterEvidence(c), c, s)
  BY AfterEvidenceIs DEF Holds, Placed, Orderly, Judging, Steps

LEMMA ReloadKeeps ==
  ASSUME BuildInv, NEW b \in Builders, Reload(b)
  PROVE  Follows(session, session') /\ Moved(b)
<1>1. PICK c \in Calls : c = call[b]
  BY Before
<1> DEFINE d == [c EXCEPT !.seen = session]
<1>2. /\ session' = session /\ pc[b] = "reload"
      /\ Goto(b, AfterEvidence(d), d) \/ Goto(b, "attach", d) \/ Done(b)
  BY <1>1 DEF Reload
<1>3. /\ d \in Calls /\ d.contract = c.contract /\ d.seen = session /\ d.rerun = c.rerun
      /\ d.through = c.through
  BY Before, SeenFields
<1>4. c.through = 0 /\ Known(session, session)
      /\ (c.rerun => Earlier(c.contract, Final) \subseteq session.done)
  BY <1>1, <1>2, Before DEF Placed
<1> HIDE DEF d
<1>5. Holds(AfterEvidence(d), d, session)
  BY <1>3, <1>4, AfterEvidenceHolds
<1>6. Holds("attach", d, session)
  BY <1>3, <1>4 DEF Holds, Placed, Orderly, Judging, Steps
<1>7. QED
  BY <1>2, <1>5, <1>6, DoneMoves, Stays, Before DEF Moved

LEMMA AttachKeeps ==
  ASSUME BuildInv, NEW b \in Builders, Attach(b)
  PROVE  Follows(session, session') /\ Moved(b)
<1>1. PICK c \in Calls : c = call[b]
  BY Before
<1>2. PICK x \in Manual(c.contract, c.evidence.id) :
        \/ session' = session /\ (Done(b) \/ Goto(b, AfterEvidence(c), c))
        \/ /\ session' = WithManual(session, x[1], x[2], c.evidence.status)
           /\ Goto(b, AfterEvidence(Seen(b)), Seen(b))
  BY <1>1, Zenon DEF Attach, Append1
<1>3. c.through = 0 /\ Known(c.seen, session)
      /\ (c.rerun => Earlier(c.contract, Final) \subseteq session.done)
  BY <1>1, Before DEF Attach, Placed
<1>4. CASE session' = session /\ (Done(b) \/ Goto(b, AfterEvidence(c), c))
  <2>1. Holds(AfterEvidence(c), c, session)
    BY <1>3, AfterEvidenceHolds
  <2>2. QED
    BY <1>4, <2>1, DoneMoves, Stays, Before DEF Moved
<1>5. CASE /\ session' = WithManual(session, x[1], x[2], c.evidence.status)
           /\ Goto(b, AfterEvidence(Seen(b)), Seen(b))
  <2>1. x[1] \in Phases \cup {Final} /\ x[2] \in Criterion /\ x[2].id = c.evidence.id
    BY DEF Manual
  <2>3. c.evidence.status \in {"pass", "fail"}
    BY CallFields DEF Dispositions, NoEvidence
  <2>4. Follows(session, session')
    BY <1>5, <2>1, <2>3, ManualFollows, Before
  <2> DEFINE d == [c EXCEPT !.seen = session']
  <2>5. d \in Calls /\ d.contract = c.contract /\ d.seen = session' /\ d.rerun = c.rerun
        /\ d.through = c.through
    BY <2>4, SeenFields DEF Follows
  <2>6. Seen(b) = d
    BY <1>1 DEF Seen
  <2> HIDE DEF d
  <2>7. Known(session', session')
    BY <2>4 DEF Follows, Recorded, Known
  <2>8. c.rerun => Earlier(c.contract, Final) \subseteq session'.done
    BY <1>3, <2>4 DEF Follows, Grows
  <2>9. Holds(AfterEvidence(d), d, session')
    BY <1>3, <2>5, <2>7, <2>8, AfterEvidenceHolds
  <2>10. QED
    BY <1>5, <2>4, <2>6, <2>9 DEF Moved
<1>6. QED
  BY <1>2, <1>4, <1>5

-----------------------------------------------------------------------------
(* openBuild.                                                               *)

LEMMA OpenedMoves ==
  ASSUME BuildInv, NEW b \in Builders, Opened(b), Follows(session, session'),
         call[b].through = 0
  PROVE  Moved(b)
<1>1. PICK c \in Calls : c = call[b]
  BY Before
<1>2. CASE Done(b)
  BY <1>2, DoneMoves
<1>3. CASE Goto(b, "reopen", Forget(c))
  <2>1. c.rerun => Earlier(c.contract, Final) \subseteq session'.done
    BY <1>1, Before DEF Follows, Grows
  <2>2. Holds("reopen", Forget(c), session')
    BY <1>1, <2>1, ForgetFields, NothingSeen DEF Holds, Placed, Orderly, Judging, Steps
  <2>3. QED
    BY <1>3, <2>2 DEF Moved
<1>4. QED
  BY <1>1, <1>2, <1>3 DEF Opened

LEMMA OpenPhaseKeeps ==
  ASSUME BuildInv, NEW b \in Builders, OpenPhase(b)
  PROVE  Follows(session, session') /\ Moved(b)
<1>1. PICK c \in Calls : c = call[b]
  BY Before
<1>2. PICK p : p = PendingPhase(c.contract, c.seen)
  OBVIOUS
<1>3. c.through = 0 /\ Known(c.seen, session)
  BY <1>1, Before DEF OpenPhase, Placed
<1>4. CASE p = Final
  <2>1. session' = WithBuild(session, "active") /\ Opened(b)
    BY <1>1, <1>2, <1>4 DEF OpenPhase, Append1
  <2>2. Follows(session, session')
    BY <2>1, BuildFollows, Before
  <2>3. QED
    BY <1>1, <1>3, <2>1, <2>2, OpenedMoves
<1>5. CASE p # Final
  <2> DEFINE d == [c EXCEPT !.seen = Approved]
  <2>1. session' = WithPhase(session, c.contract, p, "active") /\ Goto(b, "opened", d)
    BY <1>1, <1>2, <1>5 DEF OpenPhase, Append1
  <2>2. p \in Phases /\ Behind(c.contract, c.seen, p)
    BY <1>2, <1>5, PendingPhaseIs, CallFields
  <2>3. Earlier(c.contract, p) \subseteq session.done
    BY <1>3, <2>2, BehindIsDone
  <2>4. Follows(session, session')
    BY <2>1, <2>2, <2>3, PhaseFollows, Before
  <2>5. d \in Calls /\ d.contract = c.contract /\ d.seen = Approved /\ d.rerun = c.rerun
        /\ d.through = c.through
    BY NothingSeen, SeenFields
  <2>6. c.rerun => Earlier(c.contract, Final) \subseteq session'.done
    BY <1>1, <2>4, Before DEF Follows, Grows
  <2>7. Holds("opened", d, session')
    <3> HIDE DEF d
    <3> QED
      BY <1>3, <2>5, <2>6, NothingSeen DEF Holds, Placed, Orderly, Judging, Steps
  <2>8. QED
    BY <2>1, <2>4, <2>7 DEF Moved
<1>6. QED
  BY <1>4, <1>5

LEMMA OpenBuildKeeps ==
  ASSUME BuildInv, NEW b \in Builders, OpenBuild(b)
  PROVE  Follows(session, session') /\ Moved(b)
<1>1. session' = WithBuild(session, "active") /\ Opened(b) /\ pc[b] = "opened"
  BY DEF OpenBuild, Append1
<1>2. Follows(session, session')
  BY <1>1, BuildFollows, Before
<1>3. call[b].through = 0
  BY <1>1, Before DEF Placed
<1>4. QED
  BY <1>1, <1>2, <1>3, OpenedMoves

LEMMA ReopenKeeps ==
  ASSUME BuildInv, NEW b \in Builders, Reopen(b)
  PROVE  Follows(session, session') /\ Moved(b)
<1>1. PICK c \in Calls : c = call[b]
  BY Before
<1> DEFINE d    == [c EXCEPT !.seen = session]
           step == IF c.rerun THEN "rerun" ELSE "continue"
<1>2. session' = session /\ Goto(b, step, d) /\ c.through = 0
  BY <1>1, Before DEF Reopen, Placed
<1>3. /\ d \in Calls /\ d.contract = c.contract /\ d.seen = session /\ d.rerun = c.rerun
      /\ d.through = c.through
  BY Before, SeenFields
<1>4. c.rerun => Earlier(c.contract, Final) \subseteq session.done
  BY <1>1, Before
<1>5. Holds(step, d, session)
  <2> HIDE DEF d
  <2> QED
    BY <1>2, <1>3, <1>4, Before DEF Holds, Placed, Orderly, Judging, Steps
<1>6. QED
  BY <1>2, <1>5, Stays, Before DEF Moved

-----------------------------------------------------------------------------
(* continueBuild, rerunAcceptanceForReviewRepair, runFinalAcceptance.       *)

\* Phases are not Final, so that all of them stand before it.
LEMMA EarlierThanFinal ==
  ASSUME NEW c \in Contracts, NEW p \in Phases
  PROVE  Earlier(c, p) \subseteq Earlier(c, Final)
<1>1. \A i \in DOMAIN c.phases : c.phases[i] # Final
  BY ContractTypes
<1>2. \A i \in DOMAIN c.phases : i \in Nat /\ 1..i \subseteq DOMAIN c.phases
  BY ContractTypes
<1>3. QED
  BY <1>1, <1>2 DEF Earlier

LEMMA ToFinalMoves ==
  ASSUME NEW b \in Builders, NEW c \in Calls, ToFinal(b, c),
         Earlier(c.contract, Final) \subseteq session'.done,
         c.rerun => AtFinal(c)
  PROVE  Moved(b)
<1> DEFINE d    == [Forget(c) EXCEPT !.phase = Final, !.failed = FALSE]
           step == IF CriteriaOf(c.contract, Final) = {} THEN "final verdict" ELSE "final"
<1>1. Goto(b, step, d)
  BY DEF ToFinal
<1>2. /\ d \in Calls /\ d.contract = c.contract /\ d.seen = Approved /\ d.rerun = c.rerun
      /\ d.ran = c.ran /\ d.phase = Final
  BY ForgetFields DEF Calls
<1> HIDE DEF d
<1>3. d.rerun => AtFinal(d)
  BY <1>2 DEF AtFinal, Covered
<1>4. Due(d.contract, d.phase, session')
  BY <1>2 DEF Due
<1>5. step = "final verdict" => Covered(d, d.phase)
  BY <1>2 DEF Covered
<1>6. Holds(step, d, session')
  <2>1. Placed(step, d)
    BY <1>2 DEF Placed
  <2>2. Orderly(step, d, session')
    BY <1>2, <1>4, NothingSeen DEF Orderly
  <2>3. Judging(step, d)
    BY <1>2, <1>3, <1>5 DEF Judging
  <2>4. step \in Steps
    BY DEF Steps
  <2>5. QED
    BY <1>2, <2>1, <2>2, <2>3, <2>4 DEF Holds
<1>7. QED
  BY <1>1, <1>6 DEF Moved

LEMMA ContinueKeeps ==
  ASSUME BuildInv, NEW b \in Builders, Continue(b)
  PROVE  Follows(session, session') /\ Moved(b)
<1>1. PICK c \in Calls : c = call[b]
  BY Before
<1>2. PICK p : p = CurrentPhase(c.contract, c.seen)
  OBVIOUS
<1>3. ~c.rerun /\ Known(c.seen, session)
  BY <1>1, Before DEF Continue, Placed
<1>4. /\ p \in Phases \cup {Final}
      /\ (p \in Phases /\ c.seen.blocks[p] # "pending") \/ Behind(c.contract, c.seen, p)
  BY <1>2, CurrentPhaseIs, CallFields
<1>5. CASE p = Final
  <2>1. session' = session /\ ToFinal(b, c)
    BY <1>1, <1>2, <1>5 DEF Continue
  <2>2. Earlier(c.contract, Final) \subseteq session.done
    BY <1>3, <1>4, <1>5, BehindIsDone, FinalIsNoPhase
  <2>3. QED
    BY <1>3, <2>1, <2>2, ToFinalMoves, Stays, Before
<1>6. CASE p # Final
  <2> DEFINE d == [Forget(c) EXCEPT !.phase = p]
  <2>1. session' = WithBuild(session, "active") /\ Goto(b, "list", d)
    BY <1>1, <1>2, <1>6 DEF Continue, Append1
  <2>2. Follows(session, session')
    BY <2>1, BuildFollows, Before
  <2>3. Due(c.contract, p, session)
    <3>1. CASE p \in Phases /\ c.seen.blocks[p] # "pending"
      <4>1. session.before[p] \subseteq session.done
        BY <1>3, <3>1, Before DEF Known, Recorded
      <4>2. QED
        BY <1>6, <4>1 DEF Due
    <3>2. CASE Behind(c.contract, c.seen, p)
      BY <1>3, <3>2, BehindIsDone DEF Due
    <3>3. QED
      BY <1>4, <3>1, <3>2
  <2>4. /\ d \in Calls /\ d.contract = c.contract /\ d.seen = Approved /\ d.rerun = c.rerun
        /\ d.phase = p
    BY <1>4, ForgetFields DEF Calls
  <2> HIDE DEF d
  <2>5. Due(d.contract, d.phase, session')
    BY <1>4, <2>2, <2>3, <2>4 DEF Due, Follows, Grows
  <2>6. Holds("list", d, session')
    BY <1>3, <1>6, <2>4, <2>5, NothingSeen DEF Holds, Placed, Orderly, Judging, Steps
  <2>7. QED
    BY <2>1, <2>2, <2>6 DEF Moved
<1>7. QED
  BY <1>5, <1>6

\* A rerun goes on to the next phase that has criteria, or to the end.
LEMMA RerunNextMoves ==
  ASSUME NEW b \in Builders, NEW c \in Calls, RerunNext(b, c), c.rerun,
         Earlier(c.contract, Final) \subseteq session'.done,
         \A i \in DOMAIN c.contract.phases : i <= c.through => Covered(c, c.contract.phases[i])
  PROVE  Moved(b)
<1>1. \A i \in DOMAIN c.contract.phases :
        i \notin Ahead(c) /\ ~(i <= c.through) => Covered(c, c.contract.phases[i])
  <2>1. \A i \in DOMAIN c.contract.phases : i \in Nat
    BY CallFields, ContractTypes
  <2>2. c.through \in Nat
    BY CallFields
  <2>3. \A i \in DOMAIN c.contract.phases :
          i \notin Ahead(c) /\ ~(i <= c.through) => CriteriaOf(c.contract, c.contract.phases[i]) = {}
    BY <2>1, <2>2 DEF Ahead
  <2>4. QED
    BY <2>3 DEF Covered
<1>2. CASE Ahead(c) = {} /\ ToFinal(b, c)
  <2>1. AtFinal(c)
    BY <1>1, <1>2 DEF AtFinal
  <2>2. QED
    BY <1>2, <2>1, ToFinalMoves
<1>3. ASSUME NEW i \in Ahead(c), \A j \in Ahead(c) : i <= j,
             Goto(b, "list", [Forget(c) EXCEPT !.phase = c.contract.phases[i], !.through = i])
      PROVE  Moved(b)
  <2> DEFINE d == [Forget(c) EXCEPT !.phase = c.contract.phases[i], !.through = i]
  <2>1. /\ i \in DOMAIN c.contract.phases /\ i \in Nat /\ c.contract.phases[i] \in Phases
        /\ Final \notin Phases
    BY CallFields, ContractTypes DEF Ahead
  <2>2. /\ d \in Calls /\ d.contract = c.contract /\ d.seen = Approved /\ d.rerun = c.rerun
        /\ d.ran = c.ran /\ d.phase = c.contract.phases[i] /\ d.through = i
    <3>1. PICK p \in Phases : p = c.contract.phases[i]
      BY <2>1
    <3>2. PICK f \in Calls : f = Forget(c)
      BY ForgetFields
    <3>3. [f EXCEPT !.phase = p, !.through = i] \in Calls
      BY <2>1 DEF Calls
    <3>4. /\ d.contract = f.contract /\ d.seen = f.seen /\ d.rerun = f.rerun /\ d.ran = f.ran
          /\ d.phase = p /\ d.through = i /\ d \in Calls
      BY <3>1, <3>2, <3>3 DEF Calls
    <3>5. QED
      BY <3>1, <3>2, <3>4, ForgetFields
  <2>3. Goto(b, "list", d)
    BY <1>3
  <2> HIDE DEF d
  <2>4. AtPhase(d)
    <3> SUFFICES ASSUME NEW j \in DOMAIN c.contract.phases, j < i
                 PROVE  Covered(c, c.contract.phases[j])
      BY <2>1, <2>2 DEF AtPhase, Covered
    <3>1. j \in Nat
      BY CallFields, ContractTypes
    <3>2. j \notin Ahead(c)
      BY <1>3, <2>1, <3>1
    <3>3. QED
      BY <1>1, <3>2
  <2>5. Due(d.contract, d.phase, session')
    <3>1. Earlier(c.contract, c.contract.phases[i]) \subseteq session'.done
      BY <2>1, EarlierThanFinal, CallFields
    <3>2. QED
      BY <2>2, <3>1 DEF Due
  <2>6. Holds("list", d, session')
    BY <2>1, <2>2, <2>4, <2>5, NothingSeen DEF Holds, Placed, Orderly, Judging, Steps
  <2>7. QED
    BY <2>3, <2>6 DEF Moved
<1>4. QED
  BY <1>2, <1>3 DEF RerunNext

LEMMA RerunKeeps ==
  ASSUME BuildInv, NEW b \in Builders, Rerun(b)
  PROVE  Follows(session, session') /\ Moved(b)
<1>1. PICK c \in Calls : c = call[b]
  BY Before
<1>2. session' = WithBuild(session, "active") /\ RerunNext(b, c) /\ pc[b] = "rerun"
  BY <1>1 DEF Rerun, Append1
<1>3. Follows(session, session')
  BY <1>2, BuildFollows, Before
<1>4. c.rerun /\ c.through = 0 /\ Earlier(c.contract, Final) \subseteq session.done
  BY <1>1, <1>2, Before DEF Placed
<1>5. Earlier(c.contract, Final) \subseteq session'.done
  BY <1>3, <1>4 DEF Follows, Grows
<1>6. \A i \in DOMAIN c.contract.phases : ~(i <= c.through)
  BY <1>4, CallFields, ContractTypes
<1>7. QED
  BY <1>2, <1>3, <1>4, <1>5, <1>6, RerunNextMoves

LEMMA FinalBuildKeeps ==
  ASSUME BuildInv, NEW b \in Builders, FinalBuild(b)
  PROVE  Follows(session, session') /\ Moved(b)
<1>1. PICK c \in Calls : c = call[b]
  BY Before
<1>2. session' = WithBuild(session, "active") /\ Goto(b, "list", c) /\ pc[b] = "final"
  BY <1>1 DEF FinalBuild, Append1
<1>3. Follows(session, session')
  BY <1>2, BuildFollows, Before
<1>4. Holds("final", c, session')
  BY <1>1, <1>2, <1>3, HoldsStays DEF BuildInv, Follows
<1>5. c.phase = Final /\ CriteriaOf(c.contract, Final) # {}
  BY <1>4 DEF Holds, Placed
<1>6. Holds("list", c, session')
  BY <1>4, <1>5 DEF Holds, Placed, Orderly, Judging, Steps
<1>7. QED
  BY <1>2, <1>3, <1>6 DEF Moved

-----------------------------------------------------------------------------
(* runCriterionList.                                                        *)

LEMMA ListCriteriaKeeps ==
  ASSUME BuildInv, NEW b \in Builders, ListCriteria(b)
  PROVE  Follows(session, session') /\ Moved(b)
<1>1. PICK c \in Calls : c = call[b]
  BY Before
<1> DEFINE queue == c.contract.criteria[c.phase]
           step  == IF queue = << >> THEN "verdict" ELSE "criterion"
           d     == [c EXCEPT !.seen = Attached(session), !.queue = queue, !.failed = FALSE]
<1>2. session' = session /\ Goto(b, step, d) /\ pc[b] = "list"
  BY <1>1 DEF ListCriteria
<1>3. queue \in Seq(Criterion) /\ (CriteriaOf(c.contract, c.phase) = {} <=> queue = << >>)
  BY CallFields, ContractTypes, CriteriaTypes
<1>4. PICK seen \in Session : seen = Attached(session) /\ \A t : Known(seen, t)
  BY Before, NothingSeen
<1>5. /\ d \in Calls /\ d.contract = c.contract /\ d.seen = seen /\ d.rerun = c.rerun
      /\ d.ran = c.ran /\ d.phase = c.phase /\ d.through = c.through /\ d.queue = queue
  <2> HIDE DEF queue
  <2> QED
    BY <1>3, <1>4 DEF Calls
<1>6. Orderly("list", c, session) /\ Judging("list", c) /\ Placed("list", c)
  BY <1>1, <1>2, Before
<1>7. step = "verdict" => CriteriaOf(c.contract, c.phase) = {} /\ c.phase \in Phases
  BY <1>3, <1>6, CallFields DEF Placed
<1>8. \A k \in CriteriaOf(c.contract, c.phase) : \E i \in DOMAIN queue : queue[i] = k
  BY DEF CriteriaOf
<1> HIDE DEF d, queue
<1>9. Placed(step, d)
  BY <1>5, <1>7 DEF Placed
<1>10. Orderly(step, d, session)
  BY <1>4, <1>5, <1>6 DEF Orderly
<1>11. Judging(step, d)
  <2> SUFFICES ASSUME c.rerun
               PROVE  Judging(step, d)
    BY <1>5 DEF Judging
  <2>1. /\ c.phase # Final => AtPhase(c)
        /\ c.phase = Final => AtFinal(c)
    BY <1>6 DEF Judging
  <2>2. /\ c.phase # Final => AtPhase(d)
        /\ c.phase = Final => AtFinal(d)
    BY <2>1, <1>5 DEF AtPhase, AtFinal, Covered
  <2>3. InQueue(d)
    BY <1>5, <1>8 DEF InQueue
  <2>4. step = "verdict" => Covered(d, d.phase)
    BY <1>5, <1>7 DEF Covered
  <2>5. QED
    BY <1>5, <2>2, <2>3, <2>4 DEF Judging
<1>12. Holds(step, d, session)
  BY <1>5, <1>9, <1>10, <1>11 DEF Holds, Steps
<1>13. QED
  BY <1>2, <1>12, Stays, Before DEF Moved

\* A criterion is through: what is left to judge is in the rest of the queue.
LEMMA JudgedMoves ==
  ASSUME NEW b \in Builders, NEW c \in Calls, NEW status, c.queue # << >>,
         Judged(b, c, status), Known(c.seen, session'),
         c.rerun => Earlier(c.contract, Final) \subseteq session'.done,
         Due(c.contract, c.phase, session'), Judging("criterion", c)
  PROVE  Moved(b)
<1> DEFINE rest == Tail(c.queue)
           ran  == IF c.rerun THEN c.ran \cup {Head(c.queue).id} ELSE c.ran
           d    == [c EXCEPT !.queue = rest, !.failed = @ \/ status # "pass",
                             !.ran = IF c.rerun THEN @ \cup {Head(c.queue).id} ELSE @]
<1>1. /\ rest \in Seq(Criterion) /\ Head(c.queue) \in Criterion
      /\ c.queue[1] = Head(c.queue)
      /\ \A i \in DOMAIN c.queue : i # 1 => \E j \in DOMAIN rest : rest[j] = c.queue[i]
  <2>1. PICK q \in Seq(Criterion) : q = c.queue /\ q # << >>
    BY CallFields
  <2>2. /\ Tail(q) \in Seq(Criterion) /\ Head(q) \in Criterion /\ q[1] = Head(q)
        /\ Len(Tail(q)) = Len(q) - 1 /\ Len(q) \in Nat
        /\ \A j \in 1..(Len(q) - 1) : Tail(q)[j] = q[j + 1]
    BY <2>1
  <2>3. ASSUME NEW i \in DOMAIN q, i # 1
        PROVE  \E j \in DOMAIN Tail(q) : Tail(q)[j] = q[i]
    <3>1. i \in 1..Len(q) /\ DOMAIN Tail(q) = 1..(Len(q) - 1)
      BY <2>1, <2>2
    <3>2. i - 1 \in 1..(Len(q) - 1) /\ (i - 1) + 1 = i
      BY <2>2, <2>3, <3>1
    <3>3. Tail(q)[i - 1] = q[i]
      BY <2>2, <3>2
    <3>4. QED
      BY <3>1, <3>2, <3>3
  <2>4. QED
    BY <2>1, <2>2, <2>3
<1>2. PICK bad \in BOOLEAN : bad = (c.failed \/ status # "pass")
  BY Zenon
<1>3. ran \in SUBSET Ids /\ c.ran \subseteq ran /\ (c.rerun => Head(c.queue).id \in ran)
  BY <1>1, CallFields DEF Criterion
<1>4. d = [c EXCEPT !.queue = rest, !.failed = bad, !.ran = ran]
  BY <1>2, Zenon DEF Calls
<1>5. /\ d \in Calls /\ d.contract = c.contract /\ d.seen = c.seen /\ d.rerun = c.rerun
      /\ d.ran = ran /\ d.phase = c.phase /\ d.through = c.through /\ d.queue = rest
  <2> HIDE DEF d, rest, ran
  <2> QED
    BY <1>1, <1>3, <1>4 DEF Calls
<1>6. \/ rest # << >> /\ Goto(b, "criterion", d)
      \/ rest = << >> /\ c.phase # Final /\ Goto(b, "verdict", Forget(d))
      \/ rest = << >> /\ c.phase = Final /\ Goto(b, "final verdict", Forget(d))
  BY Zenon DEF Judged
<1> HIDE DEF d
<1>7. c.rerun => InQueue(d)
  <2> SUFFICES ASSUME c.rerun, NEW k \in CriteriaOf(c.contract, c.phase)
               PROVE  k.id \in ran \/ \E j \in DOMAIN rest : rest[j] = k
    BY <1>5 DEF InQueue
  <2>1. k.id \in c.ran \/ \E i \in DOMAIN c.queue : c.queue[i] = k
    BY DEF Judging, InQueue
  <2> HIDE DEF rest, ran
  <2>2. CASE k.id \in c.ran
    BY <1>3, <2>2
  <2>3. ASSUME NEW i \in DOMAIN c.queue, c.queue[i] = k
        PROVE  k.id \in ran \/ \E j \in DOMAIN rest : rest[j] = k
    BY <1>1, <1>3, <2>3
  <2>4. QED
    BY <2>1, <2>2, <2>3
<1>8. c.rerun => (c.phase # Final => AtPhase(d)) /\ (c.phase = Final => AtFinal(d))
  <2> SUFFICES ASSUME c.rerun
               PROVE  (c.phase # Final => AtPhase(d)) /\ (c.phase = Final => AtFinal(d))
    OBVIOUS
  <2>1. (c.phase # Final => AtPhase(c)) /\ (c.phase = Final => AtFinal(c))
    BY DEF Judging
  <2> HIDE DEF ran
  <2>2. QED
    BY <2>1, <1>3, <1>5 DEF AtPhase, AtFinal, Covered
<1>9. Due(d.contract, d.phase, session') /\ Known(d.seen, session')
      /\ (d.rerun => Earlier(d.contract, Final) \subseteq session'.done)
  BY <1>5
<1> HIDE DEF rest, ran
<1>10. CASE rest # << >> /\ Goto(b, "criterion", d)
  <2>1. Holds("criterion", d, session')
    BY <1>5, <1>7, <1>8, <1>9, <1>10 DEF Holds, Placed, Orderly, Judging, Steps
  <2>2. QED
    BY <1>10, <2>1 DEF Moved
<1>11. CASE rest = << >>
  <2> DEFINE f    == Forget(d)
             step == IF c.phase = Final THEN "final verdict" ELSE "verdict"
  <2>1. Goto(b, step, f)
    BY <1>6, <1>11
  <2>2. /\ f \in Calls /\ f.seen = Approved /\ f.contract = d.contract /\ f.rerun = d.rerun
        /\ f.through = d.through /\ f.phase = d.phase /\ f.ran = d.ran
    BY <1>5, ForgetFields
  <2> HIDE DEF f
  <2>3. c.phase \in Phases \cup {Final}
    BY CallFields
  <2>4. f.rerun => Covered(f, f.phase)
    <3>1. DOMAIN rest = {}
      BY <1>11
    <3>2. QED
      BY <1>5, <1>7, <2>2, <3>1 DEF InQueue, Covered
  <2>5. f.rerun => (c.phase # Final => AtPhase(f)) /\ (c.phase = Final => AtFinal(f))
    BY <1>5, <1>8, <2>2 DEF AtPhase, AtFinal, Covered
  <2>6. Placed(step, f)
    BY <1>5, <2>2, <2>3 DEF Placed
  <2>7. Orderly(step, f, session')
    BY <1>9, <2>2, NothingSeen DEF Orderly
  <2>8. Judging(step, f)
    BY <1>5, <2>2, <2>4, <2>5 DEF Judging
  <2>9. Holds(step, f, session')
    BY <2>2, <2>6, <2>7, <2>8 DEF Holds, Steps
  <2>10. QED
    BY <2>1, <2>9 DEF Moved
<1>12. QED
  BY <1>6, <1>10, <1>11

LEMMA ReuseEvidenceKeeps ==
  ASSUME BuildInv, NEW b \in Builders, ReuseEvidence(b)
  PROVE  Follows(session, session') /\ Moved(b)
<1>1. PICK c \in Calls : c = call[b]
  BY Before
<1>2. PICK m : session' = session /\ pc[b] = "criterion" /\ Judged(b, c, m)
  BY <1>1 DEF ReuseEvidence
<1>3. Orderly("criterion", c, session) /\ Judging("criterion", c) /\ Placed("criterion", c)
  BY <1>1, <1>2, Before
<1>4. /\ Known(c.seen, session) /\ Due(c.contract, c.phase, session) /\ c.queue # << >>
      /\ c.rerun => Earlier(c.contract, Final) \subseteq session.done
  BY <1>3 DEF Orderly, Placed
<1>5. Moved(b)
  BY <1>2, <1>3, <1>4, JudgedMoves
<1>6. QED
  BY <1>2, <1>5, Stays, Before

LEMMA EvaluateKeeps ==
  ASSUME BuildInv, NEW b \in Builders, Evaluate(b)
  PROVE  Follows(session, session') /\ Moved(b)
<1>1. PICK c \in Calls : c = call[b]
  BY Before
<1>2. pc[b] = "criterion"
  BY DEF Evaluate
<1>3. Orderly("criterion", c, session) /\ Judging("criterion", c) /\ Placed("criterion", c)
  BY <1>1, <1>2, Before
<1>4. PICK k : k = Head(c.queue)
  OBVIOUS
<1>5. k \in Criterion
  BY <1>3, <1>4, CallFields DEF Placed
<1>6. PICK verdict \in Verdicts(k) :
        /\ session' = WithState(session, c.phase, k, verdict)
        /\ Judged(b, [c EXCEPT !.seen = Attached(session')], verdict)
  BY <1>1, <1>4 DEF Evaluate, Append1
<1>7. verdict \in {"pass", "fail", "pending"}
  BY DEF Verdicts, Judge
<1>8. Follows(session, session')
  BY <1>5, <1>6, <1>7, StateFollows, CallFields, Before
<1>9. PICK seen \in Session : seen = Attached(session') /\ \A t : Known(seen, t)
  BY <1>8, NothingSeen DEF Follows
<1>10. PICK d \in Calls : /\ d = [c EXCEPT !.seen = seen]
                          /\ d.contract = c.contract /\ d.seen = seen /\ d.rerun = c.rerun
                          /\ d.through = c.through /\ d.phase = c.phase
                          /\ d.queue = c.queue /\ d.ran = c.ran
  BY SeenFields
<1>11. Judging("criterion", d)
  BY <1>3, <1>10 DEF Judging, AtPhase, AtFinal, InQueue, Covered
<1>12. d.rerun => Earlier(d.contract, Final) \subseteq session'.done
  BY <1>3, <1>8, <1>10 DEF Orderly, Follows, Grows
<1>13. Due(d.contract, d.phase, session')
  BY <1>3, <1>8, <1>10, CallFields DEF Orderly, Due, Follows, Grows
<1>14. d.queue # << >>
  BY <1>3, <1>10 DEF Placed
<1>15. Moved(b)
  BY <1>6, <1>9, <1>10, <1>11, <1>12, <1>13, <1>14, JudgedMoves
<1>16. QED
  BY <1>8, <1>15

-----------------------------------------------------------------------------
(* What comes after a list.                                                 *)

LEMMA PhaseVerdictKeeps ==
  ASSUME BuildInv, NEW b \in Builders, PhaseVerdict(b)
  PROVE  Follows(session, session') /\ Moved(b)
<1>1. PICK c \in Calls : c = call[b]
  BY Before
<1>2. pc[b] = "verdict"
  BY DEF PhaseVerdict
<1>3. Orderly("verdict", c, session) /\ Judging("verdict", c) /\ Placed("verdict", c)
  BY <1>1, <1>2, Before
<1>4. c.phase \in Phases /\ c.phase # Final /\ c.contract \in Contracts
  BY <1>3, FinalIsNoPhase, CallFields DEF Placed
<1>5. session.blocks[c.phase] = "pending" => Earlier(c.contract, c.phase) \subseteq session.done
  <2> SUFFICES ASSUME session.blocks[c.phase] = "pending"
               PROVE  Earlier(c.contract, c.phase) \subseteq session.done
    OBVIOUS
  <2>1. session.before[c.phase] = Phases
    BY <1>4, Before DEF Recorded
  <2>2. QED
    BY <1>3, <1>4, <2>1, EarlierArePhases DEF Orderly, Due
<1>6. CASE /\ session' = WithPhase(session, c.contract, c.phase, "blocked")
           /\ Goto(b, "block", c)
  <2>1. Follows(session, session')
    BY <1>4, <1>5, <1>6, PhaseFollows, Before
  <2>2. Holds("verdict", c, session')
    BY <1>1, <1>2, <2>1, HoldsStays DEF BuildInv, Follows
  <2>3. Holds("block", c, session')
    BY <1>4, <2>2 DEF Holds, Placed, Orderly, Judging, Steps
  <2>4. QED
    BY <1>6, <2>1, <2>3 DEF Moved
<1>7. CASE /\ session' = WithPhase(session, c.contract, c.phase, "completed")
           /\ IF c.rerun THEN RerunNext(b, c)
              ELSE LET next == PendingPhase(c.contract, session')
                   IN  IF next = Final THEN ToFinal(b, c)
                       ELSE Goto(b, "advance", [c EXCEPT !.phase = next])
  <2>1. Follows(session, session')
    BY <1>4, <1>5, <1>7, PhaseFollows, Before
  <2>2. session' \in Session /\ Known(session', session')
    BY <2>1 DEF Follows, Recorded, Known
  <2>3. CASE c.rerun
    <3>1. Earlier(c.contract, Final) \subseteq session'.done
      BY <1>3, <2>1, <2>3 DEF Orderly, Follows, Grows
    <3>2. AtPhase(c) /\ Covered(c, c.phase)
      BY <1>3, <1>4, <2>3 DEF Judging
    <3>3. ASSUME NEW i \in DOMAIN c.contract.phases, i <= c.through
          PROVE  Covered(c, c.contract.phases[i])
      <4>1. i \in Nat /\ c.through \in Nat
        BY <1>4, ContractTypes, CallFields
      <4>2. i < c.through \/ i = c.through
        BY <3>3, <4>1
      <4>3. QED
        BY <3>2, <4>2 DEF AtPhase
    <3>4. QED
      BY <1>7, <2>1, <2>3, <3>1, <3>3, RerunNextMoves
  <2>4. CASE ~c.rerun
    <3>1. PICK next : next = PendingPhase(c.contract, session')
      OBVIOUS
    <3>2. next \in Phases \cup {Final} /\ Behind(c.contract, session', next)
      BY <1>4, <2>2, <3>1, PendingPhaseIs
    <3>3. Earlier(c.contract, next) \subseteq session'.done
      BY <2>2, <3>2, BehindIsDone
    <3>4. CASE next = Final
      BY <1>7, <2>1, <2>4, <3>1, <3>3, <3>4, ToFinalMoves
    <3>5. CASE next # Final
      <4> DEFINE d == [c EXCEPT !.phase = next]
      <4>1. Goto(b, "advance", d)
        BY <1>7, <2>4, <3>1, <3>5
      <4>2. /\ d \in Calls /\ d.contract = c.contract /\ d.seen = c.seen /\ d.rerun = c.rerun
            /\ d.phase = next
        BY <3>2 DEF Calls
      <4> HIDE DEF d
      <4>3. Known(d.seen, session')
        BY <1>3, <2>1, <4>2 DEF Orderly, Known, Follows, Grows
      <4>4. Holds("advance", d, session')
        BY <2>4, <3>2, <3>3, <3>5, <4>2, <4>3 DEF Holds, Placed, Orderly, Judging, Steps
      <4>5. QED
        BY <2>1, <4>1, <4>4 DEF Moved
    <3>6. QED
      BY <3>4, <3>5
  <2>5. QED
    BY <2>3, <2>4
<1>8. QED
  BY <1>1, <1>6, <1>7 DEF PhaseVerdict, Append1

LEMMA BlockBuildKeeps ==
  ASSUME BuildInv, NEW b \in Builders, BlockBuild(b)
  PROVE  Follows(session, session') /\ Moved(b)
  BY BuildFollows, DoneMoves, Before DEF BlockBuild, Append1

LEMMA AdvancePhaseKeeps ==
  ASSUME BuildInv, NEW b \in Builders, AdvancePhase(b)
  PROVE  Follows(session, session') /\ Moved(b)
<1>1. PICK c \in Calls : c = call[b]
  BY Before
<1>2. /\ pc[b] = "advance" /\ Goto(b, "advanced", c)
      /\ session' = WithPhase(session, c.contract, c.phase, "active")
  BY <1>1 DEF AdvancePhase, Append1
<1>3. Holds("advance", c, session)
  BY <1>1, <1>2 DEF BuildInv
<1>4. c.phase \in Phases /\ Earlier(c.contract, c.phase) \subseteq session.done
  BY <1>3 DEF Holds, Placed, Orderly
<1>5. Follows(session, session')
  BY <1>2, <1>4, PhaseFollows, Before
<1>6. Holds("advance", c, session')
  BY <1>3, <1>5, HoldsStays DEF Follows
<1>7. Holds("advanced", c, session')
  BY <1>6 DEF Holds, Placed, Orderly, Judging, Steps
<1>8. QED
  BY <1>2, <1>5, <1>7 DEF Moved

LEMMA AdvanceBuildKeeps ==
  ASSUME BuildInv, NEW b \in Builders, AdvanceBuild(b)
  PROVE  Follows(session, session') /\ Moved(b)
  BY BuildFollows, DoneMoves, Before DEF AdvanceBuild, Append1

LEMMA FinalVerdictKeeps ==
  ASSUME BuildInv, NEW b \in Builders, FinalVerdict(b)
  PROVE  Follows(session, session') /\ Moved(b)
<1>1. PICK status \in {"blocked", "review"} : session' = WithBuild(session, status)
  BY DEF FinalVerdict, Append1
<1>2. Follows(session, session')
  BY <1>1, BuildFollows, Before
<1>3. QED
  BY <1>2, DoneMoves DEF FinalVerdict

-----------------------------------------------------------------------------
(* Every step, and the theorems.                                            *)

LEMMA Counted ==
  ASSUME TypeOK, NEW bad, Bounded(bad)
  PROVE  trouble' \in 0..MaxTrouble
<1>1. MaxTrouble \in Nat /\ trouble \in 0..MaxTrouble
  BY BoundIsNatural DEF TypeOK
<1>2. CASE bad
  BY <1>1, <1>2 DEF Bounded
<1>3. CASE ~bad
  BY <1>1, <1>3 DEF Bounded
<1>4. QED
  BY <1>2, <1>3

\* The process that goes on may rely on what it needs, the others on what they
\* had.
LEMMA MovedKeeps ==
  ASSUME BuildInv, NEW b \in Builders, Follows(session, session'), Moved(b),
         spec' \in Contracts, trouble' \in 0..MaxTrouble
  PROVE  BuildInv'
<1>1. PICK step, c : Goto(b, step, c) /\ Holds(step, c, session')
  BY DEF Moved
<1>2. /\ pc' = [pc EXCEPT ![b] = step] /\ call' = [call EXCEPT ![b] = c]
      /\ step \in Steps /\ c \in Calls
  BY <1>1 DEF Goto, Holds
<1>3. TypeOK'
  BY <1>2 DEF BuildInv, TypeOK, Follows
<1>4. ASSUME NEW o \in Builders
      PROVE  Holds(pc'[o], call'[o], session')
  <2>1. CASE o = b
    BY <1>1, <1>2, <2>1 DEF BuildInv, TypeOK
  <2>2. CASE o # b
    <3>1. pc'[o] = pc[o] /\ call'[o] = call[o]
      BY <1>2, <2>2 DEF BuildInv, TypeOK
    <3>2. Holds(pc[o], call[o], session)
      BY DEF BuildInv
    <3>3. QED
      BY <3>1, <3>2, HoldsStays DEF Follows
  <2>3. QED
    BY <2>1, <2>2
<1>5. QED
  BY <1>3, <1>4 DEF BuildInv, Follows

LEMMA BuildInvInit == Init => BuildInv
<1> SUFFICES ASSUME Init PROVE BuildInv
  OBVIOUS
<1>1. session = Approved /\ spec = FirstContract /\ trouble = 0
  BY DEF Init
<1>2. pc = [b \in Builders |-> "idle"] /\ call = [b \in Builders |-> Idle]
  BY DEF Init
<1>3. TypeOK
  BY <1>1, <1>2, NothingSeen, IdleHolds, ContractsAreContracts, BoundIsNatural DEF TypeOK, Steps
<1>4. Recorded(session)
  BY <1>1 DEF Recorded, Approved
<1>5. \A b \in Builders : Holds(pc[b], call[b], session)
  BY <1>2, IdleHolds
<1>6. QED
  BY <1>3, <1>4, <1>5 DEF BuildInv

LEMMA StepKeeps ==
  ASSUME BuildInv, NEW b \in Builders, Step(b)
  PROVE  Follows(session, session') /\ Moved(b)
  BY LookKeeps, ReloadKeeps, AttachKeeps, OpenPhaseKeeps, OpenBuildKeeps, ReopenKeeps,
     ContinueKeeps, RerunKeeps, FinalBuildKeeps, ListCriteriaKeeps, ReuseEvidenceKeeps,
     EvaluateKeeps, PhaseVerdictKeeps, BlockBuildKeeps, AdvancePhaseKeeps, AdvanceBuildKeeps,
     FinalVerdictKeeps DEF Step

\* A step of a builder leaves the spec, and counts what it does.
LEMMA StepLeaves ==
  ASSUME BuildInv, NEW b \in Builders, Step(b)
  PROVE  spec' = spec /\ trouble' \in 0..MaxTrouble
<1>1. TypeOK
  BY DEF BuildInv
<1>2. CASE Evaluate(b)
  <2>1. \E bad : Bounded(bad)
    BY <1>2 DEF Evaluate
  <2>2. QED
    BY <1>1, <1>2, <2>1, Counted DEF Evaluate
<1>3. CASE Look(b) \/ Reload(b) \/ Attach(b) \/ OpenPhase(b) \/ OpenBuild(b) \/ Reopen(b)
  BY <1>1, <1>3 DEF TypeOK, Look, Reload, Attach, OpenPhase, OpenBuild, Reopen
<1>4. CASE Continue(b) \/ Rerun(b) \/ FinalBuild(b) \/ ListCriteria(b) \/ ReuseEvidence(b)
  BY <1>1, <1>4 DEF TypeOK, Continue, Rerun, FinalBuild, ListCriteria, ReuseEvidence
<1>5. CASE \/ PhaseVerdict(b) \/ BlockBuild(b) \/ AdvancePhase(b) \/ AdvanceBuild(b)
           \/ FinalVerdict(b)
  BY <1>1, <1>5 DEF TypeOK, PhaseVerdict, BlockBuild, AdvancePhase, AdvanceBuild, FinalVerdict
<1>6. QED
  BY <1>2, <1>3, <1>4, <1>5 DEF Step

LEMMA BuildInvStep == BuildInv /\ [Next]_vars => BuildInv'
<1> SUFFICES ASSUME BuildInv, [Next]_vars PROVE BuildInv'
  OBVIOUS
<1>1. spec \in Contracts /\ TypeOK
  BY DEF BuildInv, TypeOK
<1>2. ASSUME NEW b \in Builders, NEW e \in Dispositions \cup {NoEvidence}, Begin(b, e)
      PROVE  BuildInv'
  <2>1. spec' = spec /\ trouble' \in 0..MaxTrouble
    BY <1>1, <1>2, Counted DEF Begin
  <2>2. QED
    BY <1>1, <1>2, <2>1, BeginKeeps, MovedKeeps
<1>3. ASSUME NEW b \in Builders, Step(b)
      PROVE  BuildInv'
  BY <1>1, <1>3, StepKeeps, StepLeaves, MovedKeeps
<1>4. ASSUME NEW b \in Builders, Crash(b)
      PROVE  BuildInv'
  <2>1. spec' = spec /\ session' = session /\ Done(b) /\ trouble' \in 0..MaxTrouble
    BY <1>1, <1>4, Counted DEF Crash
  <2>2. QED
    BY <1>1, <2>1, DoneMoves, Stays, Before, MovedKeeps
<1>5. CASE EditSpec
  <2>1. spec' \in Contracts /\ trouble' \in 0..MaxTrouble
    BY <1>1, <1>5, Counted DEF EditSpec
  <2>2. session' = session /\ pc' = pc /\ call' = call
    BY <1>5 DEF EditSpec
  <2>3. QED
    BY <2>1, <2>2 DEF BuildInv, TypeOK
<1>6. CASE UNCHANGED vars
  BY <1>6 DEF vars, BuildInv, TypeOK
<1>7. QED
  BY <1>2, <1>3, <1>4, <1>5, <1>6 DEF Next

THEOREM BuildInvariant == Spec => []BuildInv
  BY BuildInvInit, BuildInvStep, PTL DEF Spec

\* TypeOK: whatever builds race, die or are repeated, and whatever is edited,
\* sessions and processes have their types.
THEOREM BuildTypeCorrect == Spec => []TypeOK
<1>1. BuildInv => TypeOK
  BY DEF BuildInv
<1>2. QED
  BY <1>1, BuildInvariant, PTL

\* PhasesInOrder, for any contracts: nothing later is judged before what an
\* earlier phase asks for has been completed once.
THEOREM PhasesAreInOrder == Spec => []PhasesInOrder
<1>1. ASSUME BuildInv PROVE PhasesInOrder
  <2> SUFFICES ASSUME NEW b \in Builders, pc[b] = "criterion"
               PROVE  Due(call[b].contract, call[b].phase, session)
    BY FinalIsNoPhase DEF PhasesInOrder, Due
  <2>1. QED
    BY <1>1, Before DEF Orderly
<1>2. QED
  BY <1>1, BuildInvariant, PTL

\* RerunJudgesAll, for any contracts: a task that was at review goes back there
\* only when this very call has judged all its criteria.
THEOREM RerunsJudgeAll == Spec => RerunJudgesAll
<1> DEFINE All(b) == (pc[b] = "final verdict" /\ call[b].rerun /\ ~call[b].failed /\ session' # session)
                       => \A p \in Phases \cup {Final} : \A k \in CriteriaOf(call[b].contract, p) :
                            k.id \in call[b].ran
<1>1. ASSUME BuildInv, NEW b \in Builders PROVE All(b)
  <2> SUFFICES ASSUME pc[b] = "final verdict", call[b].rerun,
                      NEW p \in Phases \cup {Final}, NEW k \in CriteriaOf(call[b].contract, p)
               PROVE  k.id \in call[b].ran
    OBVIOUS
  <2>1. PICK c \in Calls : c = call[b]
    BY <1>1, Before
  <2>2. Placed("final verdict", c) /\ Judging("final verdict", c)
    BY <1>1, <2>1, Before
  <2>3. c.phase = Final
    BY <2>2 DEF Placed
  <2>4. AtFinal(c) /\ Covered(c, Final)
    BY <2>1, <2>2, <2>3 DEF Judging
  <2>5. CASE p = Final
    BY <2>1, <2>4, <2>5 DEF Covered
  <2>6. CASE p \in Phases
    <3>1. PICK i \in DOMAIN c.contract.phases : c.contract.phases[i] = p
      BY <2>1, <2>6, ContractTypes, CallFields
    <3>2. QED
      BY <2>1, <2>4, <3>1 DEF AtFinal, Covered
  <2>7. QED
    BY <2>5, <2>6
<1>2. BuildInv => [\A b \in Builders : All(b)]_vars
  BY <1>1
<1>3. QED
  BY <1>2, BuildInvariant, PTL DEF RerunJudgesAll
=============================================================================
