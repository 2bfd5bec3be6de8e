------------------------- MODULE ProviderCallProofs -------------------------
(***************************************************************************)
(* Theorems about ProviderCall, for any packets, providers, timeouts and    *)
(* sizes: the output of a run is complete, an acknowledged submission       *)
(* decides, and only a provider that ended by itself gives a verdict.       *)
(***************************************************************************)
EXTENDS ProviderCall, SequenceTheorems, TLAPS

-----------------------------------------------------------------------------
(* The runner: who may still print, and when a result is one. *)

IsRunner(r) ==
  r = [pc |-> r.pc, left |-> r.left, idle |-> r.idle, grace |-> r.grace,
       why |-> r.why, result |-> r.result]

IsChild(c) ==
  c \in [state : {"none", "running", "exited"}, exit : {c.exit}, termed : BOOLEAN,
         killed : BOOLEAN, helper : {"none", "inside", "outside"}]

\* What the pumps have not read yet is what was printed last, and what was
\* kept stands right before it.
Captured ==
  /\ capture \in [kept : Seq(Chunks), dropped : Nat, silence : Nat]
  /\ printed \in Seq(Chunks) /\ pipe \in Seq(Chunks)
  /\ Len(capture.kept) <= MaxCapture /\ Len(printed) <= MaxOutput
  /\ Len(printed) = capture.dropped + Len(capture.kept) + Len(pipe)
  /\ \A i \in 1..Len(capture.kept) : capture.kept[i] = printed[capture.dropped + i]
  /\ \A i \in 1..Len(pipe) : pipe[i] = printed[capture.dropped + Len(capture.kept) + i]

\* A child is there from its start on, it is asked to stop only by a runner that
\* reports why, and it is reaped only when nobody can print any more.
RunInv ==
  /\ ctx \in {"live", "cancelled"}
  /\ IsRunner(runner)
  /\ runner.pc \in {"idle", "waiting", "terminating", "killing", "returned"}
  /\ runner.result.err \in {"", "cancelled", "timeout", "idle", "start", "wait"}
  /\ IsChild(child)
  /\ waitCh \in {"pumping", "drained", "reaped", "taken"}
  /\ child.state = "none" =>
       /\ ~Running /\ child.helper = "none" /\ printed = <<>> /\ waitCh = "pumping"
       /\ ~child.termed
       /\ runner.pc = "returned" => runner.result.err # ""
  /\ runner.pc = "idle" => child.state = "none" /\ runner.result.exit = child.exit
  /\ runner.pc = "waiting" => ~child.termed
  /\ waitCh # "pumping" => pipe = <<>> /\ child.helper = "none" /\ child.state = "exited"
  /\ runner.pc = "returned" /\ child.state # "none" =>
       /\ waitCh = "taken"
       /\ runner.result.exit = child.exit
       /\ runner.result.text = capture.kept /\ runner.result.dropped = capture.dropped
       /\ child.termed => runner.result.err # ""

RunnerActs ==
  \/ \E idle \in {0, IdleTimeout} : Start(idle)
  \/ RunnerStep \/ Tick \/ Forks \/ HelperEnds \/ Interrupt
  \/ \E c \in Chunks : Prints(c)
  \/ \E code \in ExitCodes : Exits(code)

\* Every step of a call is one of the runner and its world, or leaves them alone.
LEMMA RunnerActsOnly == Next => RunnerActs \/ UNCHANGED runnerVars
<1> SUFFICES ASSUME Next PROVE RunnerActs \/ UNCHANGED runnerVars
  OBVIOUS
<1>1. CASE Invoke
  <2>1. ProviderIdleTimeout(call.agent) \in {0, IdleTimeout}
    BY DEF ProviderIdleTimeout
  <2>2. QED
    BY <1>1, <2>1 DEF Invoke, RunnerActs
<1>2. CASE Runs \/ ProviderForks \/ DescendantEnds \/ OperatorInterrupts
  BY <1>2 DEF Runs, ProviderForks, DescendantEnds, OperatorInterrupts, RunnerActs
<1>3. CASE ProviderPrints
  BY <1>3 DEF ProviderPrints, RunnerActs
<1>4. CASE \E code \in ExitCodes : ProviderExits(code)
  BY <1>4 DEF ProviderExits, RunnerActs
<1>5. CASE Choose \/ InvokeLocal \/ ReadResponse \/ Judge \/ Report
  BY <1>5 DEF Choose, InvokeLocal, ReadResponse, Judge, Report
<1>6. CASE CodexWrites \/ ProviderCallsTool \/ ServerWorks \/ ServerStops
  BY <1>6 DEF CodexWrites, ProviderCallsTool, ServerWorks, ServerStops
<1>7. CASE Over
  BY <1>7 DEF Over, vars
<1>8. QED
  BY <1>1, <1>2, <1>3, <1>4, <1>5, <1>6, <1>7 DEF Next

\* What slidingBuffer.Write keeps: the newest chunks, and the rest is counted.
LEMMA SlidingWriteKeeps ==
  ASSUME NEW S, NEW kept \in Seq(S), NEW c \in S, NEW excess \in Nat, excess <= Len(kept),
         NEW next, next = SubSeq(Append(kept, c), excess + 1, Len(kept) + 1)
  PROVE  /\ next \in Seq(S) /\ Len(next) = Len(kept) + 1 - excess
         /\ \A i \in 1..Len(next) :
              next[i] = IF i + excess <= Len(kept) THEN kept[i + excess] ELSE c
<1> DEFINE all == Append(kept, c)
<1>1. all \in Seq(S) /\ Len(all) = Len(kept) + 1
  OBVIOUS
<1>2. \A i \in 1..Len(all) : all[i] = IF i <= Len(kept) THEN kept[i] ELSE c
  OBVIOUS
<1>3. excess <= Len(kept) /\ Len(kept) \in Nat
  OBVIOUS
<1>4. /\ next \in Seq(S) /\ Len(next) = Len(kept) + 1 - excess
      /\ \A i \in 1..Len(next) : next[i] = all[i + excess]
  <2> DEFINE m == excess + 1
             n == Len(kept) + 1
  <2>1. m \in Int /\ n \in Int /\ m <= n /\ m - 1 = excess
    BY <1>3
  <2>2. \A i \in m..n : all[i] \in S
    BY <1>1, <1>3
  <2>3. /\ SubSeq(all, m, n) \in Seq(S)
        /\ Len(SubSeq(all, m, n)) = n - m + 1
        /\ \A i \in 1..(n - m + 1) : SubSeq(all, m, n)[i] = all[m + i - 1]
    <3> HIDE DEF all, m, n
    <3>1. QED
      BY <2>1, <2>2, SubSeqProperties, SMTT(60)
  <2>4. next = SubSeq(all, m, n)
    OBVIOUS
  <2>5. n - m + 1 = Len(kept) + 1 - excess
    BY <1>3
  <2>6. \A i \in 1..Len(next) : m + i - 1 = i + excess
    BY <2>1, <2>3, <2>4
  <2> HIDE DEF all, m, n
  <2>7. QED
    BY <2>3, <2>4, <2>5, <2>6
<1>7. ASSUME NEW i \in 1..Len(next) PROVE i + excess \in 1..Len(all)
  <2> HIDE DEF all
  <2>1. QED
    BY <1>1, <1>4
<1>8. ASSUME NEW i \in 1..Len(next)
      PROVE  next[i] = IF i + excess <= Len(kept) THEN kept[i + excess] ELSE c
  <2> HIDE DEF all
  <2>1. QED
    BY <1>2, <1>4, <1>7
<1>9. QED
  BY <1>4, <1>8

-----------------------------------------------------------------------------
(* The two invariants of the runner. *)

\* Each step of the runner and of its world keeps track of what was captured.
LEMMA CapturedKeeps ==
  ASSUME Captured, RunInv, RunnerActs \/ UNCHANGED runnerVars
  PROVE  Captured'
<1>0. MaxCapture \in Nat \ {0} /\ MaxOutput \in Nat
  BY RunnerAssumption
<1>k. PICK kept \in Seq(Chunks), d \in Nat, silence \in Nat :
      capture = [kept |-> kept, dropped |-> d, silence |-> silence]
  BY DEF Captured
<1>l. PICK k \in Nat : k = Len(kept)
  OBVIOUS
<1>p. PICK p \in Nat : p = Len(pipe)
  <2>1. pipe \in Seq(Chunks)
    BY DEF Captured
  <2>2. QED
    BY <2>1
<1>a. /\ printed \in Seq(Chunks) /\ pipe \in Seq(Chunks)
      /\ k <= MaxCapture /\ Len(printed) = d + k + p /\ d + k + p <= MaxOutput
      /\ \A i \in 1..k : kept[i] = printed[d + i]
      /\ \A i \in 1..p : pipe[i] = printed[d + k + i]
  BY <1>k, <1>l, <1>p DEF Captured
<1>1. CASE Pump
  <2>1. /\ pipe # <<>> /\ pipe' = Tail(pipe) /\ printed' = printed
        /\ capture' = CaptureWrite(Head(pipe))
    BY <1>1 DEF Pump
  <2>2. Head(pipe) \in Chunks /\ Head(pipe) = pipe[1] /\ p # 0
    BY <1>a, <1>p, <2>1
  <2>c. PICK c \in Chunks : c = Head(pipe)
    BY <2>2
  <2>m. PICK m \in Nat : m = MaxCapture
    BY <1>0
  <2>e. PICK e \in Nat : (k + 1 > m => e = k + 1 - m) /\ (~(k + 1 > m) => e = 0)
    <3>1. CASE k + 1 > m
      <4>1. k + 1 - m \in Nat
        BY <3>1
      <4>2. QED
        BY <3>1, <4>1
    <3>2. CASE ~(k + 1 > m)
      BY <3>2
    <3>3. QED
      BY <3>1, <3>2
  <2> DEFINE next == SubSeq(Append(kept, c), e + 1, k + 1)
  <2>3. Len(Append(kept, c)) = k + 1
    BY <1>l
  <2>4. capture' = [kept |-> next, dropped |-> d + e, silence |-> 0]
    <3> DEFINE all == Append(capture.kept, c)
               over == IF Len(all) > MaxCapture THEN Len(all) - MaxCapture ELSE 0
    <3>1. capture' =
            [[capture EXCEPT !.kept = SubSeq(all, over + 1, Len(all)), !.dropped = @ + over] EXCEPT !.silence = 0]
      BY <2>1, <2>c, Zenon DEF CaptureWrite, SlidingWrite
    <3>2. all = Append(kept, c) /\ Len(all) = k + 1
      BY <1>k, <2>3
    <3>o. over = IF k + 1 > m THEN k + 1 - m ELSE 0
      BY <2>m, <3>2
    <3>p. over = e
      BY <2>e, <3>o
    <3>q. SubSeq(all, over + 1, Len(all)) = next
      BY <3>2, <3>p
    <3> HIDE DEF all, over, next
    <3>3. [[capture EXCEPT !.kept = next, !.dropped = @ + e] EXCEPT !.silence = 0]
            = [kept |-> next, dropped |-> d + e, silence |-> 0]
      <4>1. [capture EXCEPT !.kept = next] = [kept |-> next, dropped |-> d, silence |-> silence]
        BY <1>k
      <4>2. capture.dropped = d
        BY <1>k
      <4>3. [[kept |-> next, dropped |-> d, silence |-> silence] EXCEPT !.dropped = d + e]
              = [kept |-> next, dropped |-> d + e, silence |-> silence]
        OBVIOUS
      <4>4. [[kept |-> next, dropped |-> d + e, silence |-> silence] EXCEPT !.silence = 0]
              = [kept |-> next, dropped |-> d + e, silence |-> 0]
        OBVIOUS
      <4>5. [capture EXCEPT !.kept = next, !.dropped = @ + e] = [[capture EXCEPT !.kept = next] EXCEPT !.dropped = d + e]
        BY <4>2
      <4>6. QED
        BY <4>1, <4>3, <4>4, <4>5, Zenon
    <3>4. QED
      BY <3>1, <3>p, <3>q, <3>3, Zenon
  <2>5. e <= k /\ k + 1 - e <= m
    <3>1. m # 0 /\ k <= m
      BY <1>0, <1>a, <2>m
    <3>2. QED
      BY <2>e, <3>1
  <2>6. /\ next \in Seq(Chunks) /\ Len(next) = k + 1 - e
        /\ \A i \in 1..(k + 1 - e) : next[i] = IF i + e <= k THEN kept[i + e] ELSE c
    <3>1. k = Len(kept) /\ e <= Len(kept)
      BY <1>l, <2>5
    <3>2. next = SubSeq(Append(kept, c), e + 1, Len(kept) + 1)
      BY <3>1
    <3> HIDE DEF next
    <3>3. /\ next \in Seq(Chunks) /\ Len(next) = Len(kept) + 1 - e
          /\ \A i \in 1..Len(next) : next[i] = IF i + e <= Len(kept) THEN kept[i + e] ELSE c
      BY <3>1, <3>2, SlidingWriteKeeps
    <3>4. QED
      BY <3>1, <3>3
  <2>7. /\ Tail(pipe) \in Seq(Chunks) /\ Len(Tail(pipe)) = p - 1
        /\ \A i \in 1..(p - 1) : Tail(pipe)[i] = pipe[i + 1]
    BY <1>a, <1>p, <2>1, HeadTailProperties
  <2> HIDE DEF next
  <2>8. ASSUME NEW i \in 1..(k + 1 - e) PROVE next[i] = printed[d + e + i]
    <3>1. CASE i + e <= k
      <4>1. i + e \in 1..k /\ d + (i + e) = d + e + i
        BY <3>1
      <4>2. QED
        BY <1>a, <2>6, <3>1, <4>1
    <3>2. CASE ~(i + e <= k)
      <4>1. d + k + 1 = d + e + i /\ 1 \in 1..p
        BY <2>2, <2>5, <3>2
      <4>2. QED
        BY <1>a, <2>2, <2>6, <2>c, <3>2, <4>1
    <3>3. QED
      BY <3>1, <3>2
  <2>9. ASSUME NEW i \in 1..(p - 1) PROVE Tail(pipe)[i] = printed[d + e + (k + 1 - e) + i]
    <3>1. i + 1 \in 1..p /\ d + k + (i + 1) = d + e + (k + 1 - e) + i
      OBVIOUS
    <3>2. QED
      BY <1>a, <2>7, <3>1
  <2>10. d + k + p = d + e + (k + 1 - e) + (p - 1) /\ d + e \in Nat
    OBVIOUS
  <2>b. /\ capture'.kept = next /\ capture'.dropped = d + e
        /\ capture' \in [kept : Seq(Chunks), dropped : Nat, silence : Nat]
    BY <2>4, <2>6, <2>10
  <2>11. QED
    BY <1>a, <2>1, <2>b, <2>m, <2>4, <2>5, <2>6, <2>7, <2>8, <2>9, <2>10 DEF Captured
<1>2. CASE \E c \in Chunks : Prints(c)
  <2> PICK c \in Chunks : Prints(c)
    BY <1>2
  <2>1. /\ Len(printed) < MaxOutput /\ capture' = capture
        /\ pipe' = Append(pipe, c) /\ printed' = Append(printed, c)
    BY DEF Prints
  <2>2. /\ printed' \in Seq(Chunks) /\ pipe' \in Seq(Chunks)
        /\ Len(printed') = d + k + p + 1 /\ Len(pipe') = p + 1
        /\ \A i \in 1..(d + k + p) : printed'[i] = printed[i]
        /\ \A i \in 1..p : pipe'[i] = pipe[i]
        /\ printed'[d + k + p + 1] = c /\ pipe'[p + 1] = c
    <3>1. /\ printed' \in Seq(Chunks) /\ Len(printed') = Len(printed) + 1
          /\ \A i \in 1..Len(printed) : printed'[i] = printed[i]
          /\ printed'[Len(printed) + 1] = c
      BY <1>a, <2>1
    <3>2. /\ pipe' \in Seq(Chunks) /\ Len(pipe') = p + 1
          /\ \A i \in 1..p : pipe'[i] = pipe[i]
          /\ pipe'[p + 1] = c
      BY <1>a, <1>p, <2>1
    <3>3. QED
      BY <1>a, <3>1, <3>2
  <2>3. ASSUME NEW i \in 1..k PROVE kept[i] = printed'[d + i]
    <3>1. d + i \in 1..(d + k + p)
      OBVIOUS
    <3>2. QED
      BY <1>a, <2>2, <3>1
  <2>4. ASSUME NEW i \in 1..(p + 1) PROVE pipe'[i] = printed'[d + k + i]
    <3>1. CASE i = p + 1
      <4>1. d + k + i = d + k + p + 1
        BY <3>1
      <4>2. QED
        BY <2>2, <3>1, <4>1
    <3>2. CASE i # p + 1
      <4>1. i \in 1..p /\ d + k + i \in 1..(d + k + p)
        BY <3>2
      <4>2. QED
        BY <1>a, <2>2, <4>1
    <3>3. QED
      BY <3>1, <3>2
  <2>5. d + k + p + 1 = d + k + (p + 1) /\ d + k + p + 1 <= MaxOutput
    BY <1>0, <1>a, <2>1
  <2>6. QED
    BY <1>a, <1>k, <1>l, <1>p, <2>1, <2>2, <2>3, <2>4, <2>5 DEF Captured
<1>3. CASE Tick
  <2>1. capture' = [capture EXCEPT !.silence = IF @ <= runner.idle THEN @ + 1 ELSE @]
        /\ UNCHANGED <<pipe, printed>>
    BY <1>3 DEF Tick
  <2>2. PICK later \in Nat : capture' = [capture EXCEPT !.silence = later]
    <3>1. CASE capture.silence <= runner.idle
      <4>1. capture' = [capture EXCEPT !.silence = silence + 1]
        BY <1>k, <2>1, <3>1
      <4>2. silence + 1 \in Nat
        OBVIOUS
      <4>3. QED
        BY <4>1, <4>2
    <3>2. CASE ~(capture.silence <= runner.idle)
      <4>1. capture' = [capture EXCEPT !.silence = silence]
        BY <1>k, <2>1, <3>2
      <4>2. QED
        BY <4>1
    <3>3. QED
      BY <3>1, <3>2
  <2>3. capture' = [kept |-> kept, dropped |-> d, silence |-> later]
    BY <1>k, <2>2
  <2>4. QED
    BY <1>a, <1>k, <1>l, <1>p, <2>1, <2>3 DEF Captured
<1>4. ASSUME UNCHANGED <<capture, pipe, printed>> PROVE Captured'
  BY <1>4 DEF Captured
<1>5. CASE PumpsDone \/ Reap \/ Exited \/ Cancelled \/ TimedOut \/ Silent \/ Stopped \/ Kill
  BY <1>4, <1>5 DEF PumpsDone, Reap, Exited, Cancelled, TimedOut, Silent, Terminate, Stopped, Kill
<1>6. CASE \/ Forks \/ HelperEnds \/ Interrupt \/ \E code \in ExitCodes : Exits(code)
           \/ \E idle \in {0, IdleTimeout} : Start(idle)
  BY <1>4, <1>6 DEF Forks, HelperEnds, Interrupt, Exits, Start
<1>7. CASE UNCHANGED runnerVars
  BY <1>4, <1>7 DEF runnerVars
<1>8. QED
  BY <1>1, <1>2, <1>3, <1>5, <1>6, <1>7 DEF RunnerActs, RunnerStep

\* The errors of a run that started nothing.
LEMMA StartErrors ==
  /\ [NoResult EXCEPT !.exit = -1, !.reason = "cancelled", !.err = "cancelled"].err = "cancelled"
  /\ [NoResult EXCEPT !.err = "start"].err = "start"
<1>1. PICK f \in BOOLEAN :
        NoResult = [exit |-> 0, reason |-> "", err |-> "", text |-> <<>>, dropped |-> 0, diagnostic |-> f]
  BY Zenon DEF NoResult
<1>2. PICK one : one = -1
  OBVIOUS
<1>3. [NoResult EXCEPT !.err = "start"].err = "start"
  BY <1>1
<1>4. [NoResult EXCEPT !.exit = one, !.reason = "cancelled", !.err = "cancelled"].err = "cancelled"
  BY <1>1
<1>5. QED
  BY <1>2, <1>3, <1>4, Zenon

\* A child and a result stay what they are, whatever the runner does next.
LEMMA RunInvKeeps ==
  ASSUME Captured, RunInv, RunnerActs \/ UNCHANGED runnerVars
  PROVE  RunInv'
<1>1. CASE Pump
  <2>1. /\ Running /\ waitCh = "pumping" /\ UNCHANGED <<ctx, runner, child, printed, waitCh>>
    BY <1>1 DEF Pump, RunInv
  <2>2. QED
    BY <2>1 DEF RunInv, Running
<1>2. CASE PumpsDone
  BY <1>2 DEF PumpsDone, RunInv, Running, PipeHeld, IsChild
<1>3. CASE Reap
  BY <1>3 DEF Reap, RunInv, Running
<1>4. ASSUME runner.pc \in {"waiting", "terminating", "killing"}, waitCh = "reaped", waitCh' = "taken",
             UNCHANGED <<ctx, child, pipe, capture, printed>>,
             NEW reason, NEW err \in {"", "cancelled", "timeout", "idle", "start", "wait"},
             child.termed => err # "",
             Returned(reason, err)
      PROVE  RunInv'
  <2>1. PICK diagnostic \in BOOLEAN :
          runner' = [runner EXCEPT !.pc = "returned",
                       !.result = [exit |-> child.exit, reason |-> reason, err |-> err,
                                   text |-> capture.kept, dropped |-> capture.dropped,
                                   diagnostic |-> diagnostic]]
    BY <1>4, Zenon DEF Returned
  <2>2. /\ IsRunner(runner') /\ runner'.pc = "returned"
        /\ runner'.result = [exit |-> child.exit, reason |-> reason, err |-> err,
                             text |-> capture.kept, dropped |-> capture.dropped,
                             diagnostic |-> diagnostic]
    BY <2>1 DEF RunInv, IsRunner
  <2>3. /\ runner'.result.exit = child.exit /\ runner'.result.err = err
        /\ runner'.result.text = capture.kept /\ runner'.result.dropped = capture.dropped
    <3>1. PICK r : r = [exit |-> child.exit, reason |-> reason, err |-> err, text |-> capture.kept,
                        dropped |-> capture.dropped, diagnostic |-> diagnostic]
      BY Zenon
    <3>2. r.exit = child.exit /\ r.err = err /\ r.text = capture.kept /\ r.dropped = capture.dropped
      BY <3>1
    <3>3. QED
      BY <2>2, <3>1, <3>2, Zenon
  <2>4. child.state = "exited" /\ pipe = <<>> /\ child.helper = "none" /\ IsChild(child)
        /\ ctx \in {"live", "cancelled"}
    BY <1>4 DEF RunInv
  <2>5. IsRunner(runner') /\ runner'.pc = "returned"
    BY <2>2
  <2>6. /\ ctx' = ctx /\ child' = child /\ pipe' = pipe /\ capture' = capture
        /\ waitCh' = "taken" /\ err \in {"", "cancelled", "timeout", "idle", "start", "wait"}
        /\ child.termed => err # ""
    BY <1>4
  <2>7. QED
    BY <2>3, <2>4, <2>5, <2>6 DEF RunInv, Running
<1>5. CASE Exited
  <2>1. PICK err \in {"", "wait"} : Returned("", err)
    BY <1>5, Zenon DEF Exited
  <2>2. ~child.termed
    BY <1>5 DEF Exited, RunInv
  <2>3. QED
    BY <1>4, <1>5, <2>1, <2>2 DEF Exited
<1>6. CASE Stopped
  <2>1. ErrOf(runner.why) \in {"cancelled", "timeout", "idle"}
    BY DEF ErrOf
  <2>2. QED
    BY <1>4, <1>6, <2>1 DEF Stopped
<1>7. CASE Cancelled \/ TimedOut \/ Silent
  <2>1. PICK why : runner.pc = "waiting" /\ Terminate(why)
    BY <1>7 DEF Cancelled, TimedOut, Silent
  <2>2. /\ IsRunner(runner') /\ runner'.pc = "terminating" /\ runner'.result = runner.result
    BY <2>1 DEF Terminate, RunInv, IsRunner
  <2>3. /\ IsChild(child') /\ child'.state = child.state /\ child'.helper = child.helper
        /\ child'.exit = child.exit /\ UNCHANGED <<ctx, pipe, capture, printed, waitCh>>
    BY <2>1 DEF Terminate, RunInv, IsChild
  <2>4. QED
    BY <2>1, <2>2, <2>3 DEF RunInv, Running
<1>8. CASE Kill
  <2>1. /\ IsRunner(runner') /\ runner'.pc = "killing" /\ runner'.result = runner.result
        /\ runner.pc = "terminating"
    BY <1>8 DEF Kill, RunInv, IsRunner
  <2>2. /\ IsChild(child') /\ child'.state = child.state /\ child'.helper = child.helper
        /\ child'.exit = child.exit /\ child'.termed = child.termed
        /\ UNCHANGED <<ctx, pipe, capture, printed, waitCh>>
    BY <1>8 DEF Kill, RunInv, IsChild
  <2>3. QED
    BY <2>1, <2>2 DEF RunInv, Running
<1>9. CASE Tick
  <2>1. /\ IsRunner(runner') /\ runner'.pc = runner.pc /\ runner'.result = runner.result
        /\ Running /\ UNCHANGED <<ctx, child, pipe, printed, waitCh>>
    BY <1>9 DEF Tick, RunInv, IsRunner
  <2>2. QED
    BY <2>1 DEF RunInv, Running
<1>10. CASE \E idle \in {0, IdleTimeout} : Start(idle)
  <2>1. PICK idle \in {0, IdleTimeout} : Start(idle)
    BY <1>10
  <2>2. /\ runner.pc = "idle" /\ child.state = "none" /\ UNCHANGED <<ctx, pipe, capture, printed, waitCh>>
    BY <2>1 DEF Start, RunInv
  <2>3. CASE UNCHANGED child /\ runner'.pc = "returned" /\ IsRunner(runner')
             /\ runner'.result.err \in {"cancelled", "start"}
    BY <2>2, <2>3 DEF RunInv, Running
  <2>4. CASE /\ child' = [child EXCEPT !.state = "running"]
             /\ runner' = [runner EXCEPT !.pc = "waiting", !.idle = idle]
    <3>1. IsRunner(runner') /\ runner'.pc = "waiting" /\ runner'.result = runner.result
      BY <2>4 DEF RunInv, IsRunner
    <3>2. IsChild(child') /\ child'.state = "running" /\ child'.helper = child.helper
          /\ child'.termed = child.termed
      BY <2>4 DEF RunInv, IsChild
    <3>3. QED
      BY <2>2, <3>1, <3>2 DEF RunInv, Running
  <2>5. \A result : /\ result.err \in {"cancelled", "start"}
                   /\ runner' = [runner EXCEPT !.pc = "returned", !.result = result]
          => runner'.pc = "returned" /\ IsRunner(runner') /\ runner'.result.err \in {"cancelled", "start"}
    BY DEF RunInv, IsRunner
  <2>6. /\ [NoResult EXCEPT !.exit = -1, !.reason = "cancelled", !.err = "cancelled"].err = "cancelled"
        /\ [NoResult EXCEPT !.err = "start"].err = "start"
    BY StartErrors
  <2>7. CASE /\ runner' = [runner EXCEPT !.pc = "returned",
                           !.result = [NoResult EXCEPT !.exit = -1, !.reason = "cancelled", !.err = "cancelled"]]
             /\ UNCHANGED child
    <3> DEFINE result == [NoResult EXCEPT !.exit = -1, !.reason = "cancelled", !.err = "cancelled"]
    <3>1. result.err \in {"cancelled", "start"} /\ runner' = [runner EXCEPT !.pc = "returned", !.result = result]
      BY <2>6, <2>7, Zenon
    <3>2. PICK r : r = result
      OBVIOUS
    <3>3. r.err \in {"cancelled", "start"} /\ runner' = [runner EXCEPT !.pc = "returned", !.result = r]
      BY <3>1, <3>2, Zenon
    <3> HIDE DEF result
    <3>4. runner'.pc = "returned" /\ IsRunner(runner') /\ runner'.result.err \in {"cancelled", "start"}
      BY <2>5, <3>3
    <3>5. QED
      BY <2>3, <2>7, <3>4
  <2>8. CASE /\ runner' = [runner EXCEPT !.pc = "returned", !.result = [NoResult EXCEPT !.err = "start"]]
             /\ UNCHANGED child
    <3> DEFINE result == [NoResult EXCEPT !.err = "start"]
    <3>1. result.err \in {"cancelled", "start"} /\ runner' = [runner EXCEPT !.pc = "returned", !.result = result]
      BY <2>6, <2>8, Zenon
    <3>2. PICK r : r = result
      OBVIOUS
    <3>3. r.err \in {"cancelled", "start"} /\ runner' = [runner EXCEPT !.pc = "returned", !.result = r]
      BY <3>1, <3>2, Zenon
    <3> HIDE DEF result
    <3>4. runner'.pc = "returned" /\ IsRunner(runner') /\ runner'.result.err \in {"cancelled", "start"}
      BY <2>5, <3>3
    <3>5. QED
      BY <2>3, <2>8, <3>4
  <2>9. QED
    BY <2>1, <2>4, <2>7, <2>8, Zenon DEF Start
<1>11. CASE \E c \in Chunks : Prints(c)
  <2>1. PipeHeld /\ UNCHANGED <<ctx, runner, child, capture, waitCh>>
    BY <1>11 DEF Prints
  <2>2. child.state # "none" /\ waitCh = "pumping"
    BY <2>1 DEF PipeHeld, RunInv
  <2>3. QED
    BY <2>1, <2>2 DEF RunInv, Running
<1>12. CASE Forks \/ HelperEnds
  <2>1. PICK where \in {"none", "inside", "outside"} :
          /\ child' = [child EXCEPT !.helper = where]
          /\ child.state = "running" \/ where = "none"
          /\ UNCHANGED <<ctx, runner, pipe, capture, printed, waitCh>>
    BY <1>12 DEF Forks, HelperEnds
  <2>2. /\ IsChild(child') /\ child'.state = child.state /\ child'.helper = where
        /\ child'.exit = child.exit /\ child'.termed = child.termed
    BY <2>1 DEF RunInv, IsChild
  <2>3. QED
    BY <2>1, <2>2 DEF RunInv, Running
<1>13. CASE \E code \in ExitCodes : Exits(code)
  <2>1. PICK code \in ExitCodes : Exits(code)
    BY <1>13
  <2>2. /\ child.state = "running" /\ IsChild(child') /\ child'.state = "exited"
        /\ child'.helper = child.helper /\ child'.termed = child.termed
        /\ UNCHANGED <<ctx, runner, pipe, capture, printed, waitCh>>
    BY <2>1 DEF Exits, RunInv, IsChild
  <2>3. QED
    BY <2>2 DEF RunInv, Running
<1>14. CASE Interrupt
  BY <1>14 DEF Interrupt, RunInv, Running
<1>15. CASE UNCHANGED runnerVars
  BY <1>15 DEF runnerVars, RunInv, Running
<1>16. QED
  BY <1>1, <1>2, <1>3, <1>5, <1>6, <1>7, <1>8, <1>9, <1>10, <1>11, <1>12, <1>13, <1>14, <1>15
     DEF RunnerActs, RunnerStep

\* A call starts with nothing printed and no child.
LEMMA RunnerStarts == Init => Captured /\ RunInv
<1> SUFFICES ASSUME Init PROVE Captured /\ RunInv
  OBVIOUS
<1>1. /\ ctx = "live" /\ pipe = <<>> /\ printed = <<>> /\ waitCh = "pumping"
      /\ capture = [kept |-> <<>>, dropped |-> 0, silence |-> 0]
  BY DEF Init, RunnerInit
<1>2. Captured
  <2>1. MaxCapture \in Nat /\ MaxOutput \in Nat
    BY RunnerAssumption
  <2>2. QED
    BY <1>1, <2>1 DEF Captured
<1>3. PICK no \in BOOLEAN :
        child = [state |-> "none", exit |-> 0, termed |-> no, killed |-> no, helper |-> "none"] /\ ~no
  BY Zenon DEF Init, RunnerInit
<1>4. IsChild(child) /\ child.state = "none" /\ child.helper = "none" /\ ~child.termed /\ child.exit = 0
  BY <1>3 DEF IsChild
<1>5. PICK result : result = NoResult
  OBVIOUS
<1>6. result.err = "" /\ result.exit = 0
  <2>1. PICK f \in BOOLEAN :
          result = [exit |-> 0, reason |-> "", err |-> "", text |-> <<>>, dropped |-> 0, diagnostic |-> f]
    BY <1>5, Zenon DEF NoResult
  <2>2. QED
    BY <2>1
<1>7. runner = [pc |-> "idle", left |-> Timeout, idle |-> 0, grace |-> Grace, why |-> "", result |-> result]
  BY <1>5, Zenon DEF Init, RunnerInit
<1>8. IsRunner(runner) /\ runner.pc = "idle" /\ runner.result.err = "" /\ runner.result.exit = 0
  BY <1>6, <1>7 DEF IsRunner
<1>9. QED
  BY <1>1, <1>2, <1>4, <1>8 DEF RunInv, Running

\* The runner and its world keep both invariants, whatever the rest of the call does.
LEMMA RunnerInv == Spec => [](Captured /\ RunInv)
<1>1. Captured /\ RunInv /\ [Next]_vars => (Captured /\ RunInv)'
  <2> SUFFICES ASSUME Captured, RunInv, [Next]_vars PROVE (Captured /\ RunInv)'
    OBVIOUS
  <2>1. RunnerActs \/ UNCHANGED runnerVars
    BY RunnerActsOnly DEF vars
  <2>2. QED
    BY <2>1, CapturedKeeps, RunInvKeeps
<1>2. QED
  BY <1>1, RunnerStarts, PTL DEF Spec

\* A sequence that another one ends with is its suffix.
LEMMA SuffixOf ==
  ASSUME NEW S, NEW t \in Seq(S), NEW w \in Seq(S), NEW d \in Nat, Len(w) = d + Len(t),
         \A i \in 1..Len(t) : t[i] = w[d + i]
  PROVE  IsSuffix(t, w)
<1>1. PICK n \in Nat : n = Len(t)
  OBVIOUS
<1>2. PICK m \in Nat : m = Len(w)
  OBVIOUS
<1>3. m = d + n
  BY <1>1, <1>2
<1>4. PICK rt : rt = Reverse(t)
  OBVIOUS
<1>5. PICK rw : rw = Reverse(w)
  OBVIOUS
<1>6. /\ rt = [i \in 1..n |-> t[(n - i) + 1]]
      /\ rw = [i \in 1..m |-> w[(m - i) + 1]]
  BY <1>1, <1>2, <1>4, <1>5 DEF Reverse
<1>7. \A i \in 1..n : t[i] \in S
  BY <1>1
<1>8. \A i \in 1..m : w[i] \in S
  BY <1>2
<1>9. rt \in Seq(S) /\ Len(rt) = n
  <2>1. \A i \in 1..n : (n - i) + 1 \in 1..n
    OBVIOUS
  <2>2. rt \in [1..n -> S]
    BY <1>6, <1>7, <2>1
  <2>3. QED
    BY <2>2, SeqDef
<1>10. rw \in Seq(S) /\ Len(rw) = m
  <2>1. \A i \in 1..m : (m - i) + 1 \in 1..m
    OBVIOUS
  <2>2. rw \in [1..m -> S]
    BY <1>6, <1>8, <2>1
  <2>3. QED
    BY <2>2, SeqDef, SMTT(30)
<1>11. ASSUME NEW i \in 1..n PROVE rt[i] = rw[i]
  <2>1. /\ (n - i) + 1 \in 1..n /\ i \in 1..m
        /\ d + ((n - i) + 1) = (m - i) + 1
    BY <1>3
  <2>2. t[(n - i) + 1] = w[d + ((n - i) + 1)]
    BY <1>1, <2>1
  <2>3. QED
    BY <1>6, <2>1, <2>2
<1>12. SubSeq(rt, 1, n) = SubSeq(rw, 1, n)
  <2>1. /\ SubSeq(rt, 1, n) \in Seq(S) /\ Len(SubSeq(rt, 1, n)) = n
        /\ \A i \in 1..n : SubSeq(rt, 1, n)[i] = rt[i]
    BY <1>9
  <2>2. /\ SubSeq(rw, 1, n) \in Seq(S) /\ Len(SubSeq(rw, 1, n)) = n
        /\ \A i \in 1..n : SubSeq(rw, 1, n)[i] = rw[i]
    BY <1>3, <1>10
  <2>3. QED
    BY <1>11, <2>1, <2>2, SeqEqual
<1>13. IsPrefix(rt, rw)
  BY <1>3, <1>9, <1>10, <1>12 DEF IsPrefix
<1>14. QED
  BY <1>4, <1>5, <1>13 DEF IsSuffix

\* When Run returns, all that was printed was read, nobody can print any more,
\* and the result is the newest part of it with the rest counted
\* (OutputComplete), for any sizes of the capture and any provider.
THEOREM OutputIsComplete == Spec => []OutputComplete
<1>1. Captured /\ RunInv => OutputComplete
  <2> SUFFICES ASSUME Captured, RunInv, runner.pc = "returned", child.state # "none"
               PROVE  /\ pipe = <<>> /\ ~PipeHeld
                      /\ runner.result.dropped + Len(runner.result.text) = Len(printed)
                      /\ IsSuffix(runner.result.text, printed)
    BY DEF OutputComplete
  <2>1. /\ pipe = <<>> /\ child.helper = "none" /\ child.state = "exited"
        /\ runner.result.text = capture.kept /\ runner.result.dropped = capture.dropped
    BY DEF RunInv
  <2>2. PICK d \in Nat, kept \in Seq(Chunks) : d = capture.dropped /\ kept = capture.kept
    BY DEF Captured
  <2>3. /\ printed \in Seq(Chunks) /\ Len(printed) = d + Len(kept) + Len(pipe)
        /\ \A i \in 1..Len(kept) : kept[i] = printed[d + i]
    BY <2>2 DEF Captured
  <2>4. Len(printed) = d + Len(kept)
    BY <2>1, <2>3
  <2>5. IsSuffix(kept, printed)
    BY <2>3, <2>4, SuffixOf
  <2>6. QED
    BY <2>1, <2>2, <2>4, <2>5 DEF PipeHeld
<1>2. QED
  BY <1>1, RunnerInv, PTL

-----------------------------------------------------------------------------
(* What a provider hands in, and what is made of it. *)

\* A dossier that parses to itself, so that reading it again changes nothing.
Settled(schema, q) == q \in Dossier /\ q \notin {NoPacket, Removed} /\ Parse(schema, <<q>>) = q

\* What is handed in is normalised only once: the encoded dossier of an accepted
\* submission parses to itself (ParseText of both commands).
LEMMA ReviewSettles ==
  ASSUME NEW p \in ReviewDossier, Parse("review", <<p>>) # NoPacket
  PROVE  Settled("review", Parse("review", <<p>>))
<1>1. \A q \in Dossier : q \notin {Noise, NoPacket, Removed}
  BY DossiersAssumption
<1>2. ASSUME NEW q \in ReviewDossier
      PROVE  Parse("review", <<q>>) = IF ValidReview(NormalizeReview(q)) /\ NormalizeReview(q) # NoPacket
                                        THEN NormalizeReview(q) ELSE NoPacket
  <2>1. ToSet(<<q>>) = {q} /\ Last(<<q>>) = q /\ <<q>> # <<>>
    BY DEF ToSet, Last
  <2>2. q # Noise
    BY <1>1 DEF Dossier
  <2>3. DecodeReview(<<q>>) = NormalizeReview(q)
    BY <2>1, <2>2 DEF DecodeReview
  <2>4. QED
    BY <2>3, Zenon DEF Parse, ParseReview
<1> DEFINE fs == [i \in DOMAIN p.findings |->
                    IF p.findings[i].status = "" THEN [p.findings[i] EXCEPT !.status = "open"] ELSE p.findings[i]]
           v == IF p.verdict = "" /\ fs # <<>> THEN VerdictFromFindings(fs) ELSE p.verdict
<1>3. PICK q : q = NormalizeReview(p)
  OBVIOUS
<1>4. Parse("review", <<p>>) = q /\ ValidReview(q)
  BY <1>2, <1>3
<1>5. q = [p EXCEPT !.findings = fs, !.verdict = v]
  <2>1. q = [p EXCEPT !.findings = fs, !.verdict = IF @ = "" /\ fs # <<>> THEN VerdictFromFindings(fs) ELSE @]
    BY <1>3, Zenon DEF NormalizeReview
  <2>2. [p EXCEPT !.findings = fs].verdict = p.verdict
    BY DEF ReviewDossier
  <2>3. QED
    BY <2>1, <2>2, Zenon
<1>6. fs \in Seq(ReviewFinding) /\ v \in Word
  <2>1. p.findings \in Seq(ReviewFinding) /\ p.verdict \in Word
    BY DEF ReviewDossier
  <2>2. PICK n \in Nat : n = Len(p.findings)
    BY <2>1
  <2>3. DOMAIN p.findings = 1..n /\ \A i \in 1..n : p.findings[i] \in ReviewFinding
    BY <2>1, <2>2
  <2>4. ASSUME NEW f \in ReviewFinding PROVE [f EXCEPT !.status = "open"] \in ReviewFinding
    <3>1. PICK x \in BOOLEAN, y \in BOOLEAN : f = [blocks |-> x, status |-> f.status, grounded |-> y]
      BY DEF ReviewFinding
    <3>2. [f EXCEPT !.status = "open"] = [blocks |-> x, status |-> "open", grounded |-> y]
      BY <3>1
    <3>3. QED
      BY <3>2 DEF ReviewFinding, Word
  <2>5. fs \in [1..n -> ReviewFinding]
    BY <2>3, <2>4
  <2>6. v \in Word
    <3>1. VerdictFromFindings(fs) \in {"pass", "fail"}
      BY Zenon DEF VerdictFromFindings
    <3>2. v = p.verdict \/ v = VerdictFromFindings(fs)
      BY Zenon
    <3>3. {"pass", "fail"} \subseteq Word
      BY DEF Word
    <3> HIDE DEF fs, v
    <3>4. QED
      BY <2>1, <3>1, <3>2, <3>3
  <2>7. QED
    BY <2>5, <2>6, SeqDef
<1> HIDE DEF fs, v
<1>7. PICK ws, wv : ws = fs /\ wv = v
  OBVIOUS
<1>8. q \in ReviewDossier /\ q.findings = ws /\ q.verdict = wv
  BY <1>5, <1>6, <1>7 DEF ReviewDossier
<1>9. NormalizeReview(q) = q
  <2>1. q.verdict # "" /\ \A i \in DOMAIN q.findings : q.findings[i].status # ""
    BY <1>4 DEF ValidReview, ValidFinding, Resolved
  <2> DEFINE gs == [i \in DOMAIN q.findings |->
                      IF q.findings[i].status = "" THEN [q.findings[i] EXCEPT !.status = "open"] ELSE q.findings[i]]
  <2>2. gs = q.findings
    <3>1. PICK n \in Nat : q.findings \in [1..n -> ReviewFinding]
      BY <1>8, SeqDef DEF ReviewDossier
    <3>2. QED
      BY <2>1, <3>1
  <2>3. NormalizeReview(q) =
          [q EXCEPT !.findings = gs, !.verdict = IF @ = "" /\ gs # <<>> THEN VerdictFromFindings(gs) ELSE @]
    BY Zenon DEF NormalizeReview
  <2> HIDE DEF gs
  <2>4. [q EXCEPT !.findings = gs] = q
    BY <1>8, <2>2 DEF ReviewDossier
  <2>5. [q EXCEPT !.verdict = IF @ = "" /\ gs # <<>> THEN VerdictFromFindings(gs) ELSE @] = [q EXCEPT !.verdict = q.verdict]
    BY <2>1, Zenon
  <2>6. [q EXCEPT !.verdict = q.verdict] = q
    BY <1>8 DEF ReviewDossier
  <2>7. QED
    BY <2>3, <2>4, <2>5, <2>6, Zenon
<1>10. QED
  BY <1>1, <1>2, <1>4, <1>8, <1>9 DEF Settled, Dossier

LEMMA HardenSettles ==
  ASSUME NEW p \in HardenDossier, Parse("harden", <<p>>) # NoPacket
  PROVE  Settled("harden", Parse("harden", <<p>>))
<1>1. \A q \in Dossier : q \notin {Noise, NoPacket, Removed}
  BY DossiersAssumption
<1>2. ASSUME NEW q \in HardenDossier
      PROVE  Parse("harden", <<q>>) = IF ValidHarden(NormalizeHarden(q)) THEN NormalizeHarden(q) ELSE NoPacket
  <2>1. ToSet(<<q>>) = {q} /\ Len(<<q>>) = 1 /\ <<q>>[1] = q
    BY DEF ToSet
  <2>2. q # Noise
    BY <1>1 DEF Dossier
  <2>3. QED
    BY <2>1, <2>2 DEF Parse, ParseHarden
<1> DEFINE Kept(o) == IF o.result = "blocks" /\ o.status = "" THEN [o EXCEPT !.status = "open"] ELSE o
           os == [i \in DOMAIN p.observations |-> Kept(p.observations[i])]
<1>3. PICK q : q = NormalizeHarden(p)
  OBVIOUS
<1>4. Parse("harden", <<p>>) = q
  BY <1>2, <1>3
<1>5. q = [p EXCEPT !.observations = os]
  BY <1>3, Zenon DEF NormalizeHarden
<1>6. PICK n \in Nat : p.observations \in [1..n -> HardenObservation]
  BY SeqDef DEF HardenDossier
<1>7. ASSUME NEW o \in HardenObservation
      PROVE  Kept(o) \in HardenObservation /\ ~(Kept(o).result = "blocks" /\ Kept(o).status = "")
  <2>1. PICK x \in BOOLEAN :
          o = [dimension |-> o.dimension, result |-> o.result, grounded |-> x, status |-> o.status]
    BY DEF HardenObservation
  <2>2. PICK w : w = [dimension |-> o.dimension, result |-> o.result, grounded |-> x, status |-> "open"]
    OBVIOUS
  <2>3. [o EXCEPT !.status = "open"] = w /\ w.status = "open" /\ w \in HardenObservation
    BY <2>1, <2>2 DEF HardenObservation, Word
  <2>4. Kept(o) = IF o.result = "blocks" /\ o.status = "" THEN w ELSE o
    BY <2>3, Zenon
  <2> HIDE DEF Kept
  <2>5. QED
    BY <2>3, <2>4
<1>8. \A i \in 1..n : p.observations[i] \in HardenObservation
  BY <1>6
<1>9. DOMAIN p.observations = 1..n
  BY <1>6
<1> HIDE DEF Kept
<1>10. /\ os \in [1..n -> HardenObservation]
       /\ \A i \in 1..n : ~(os[i].result = "blocks" /\ os[i].status = "")
  BY <1>7, <1>8, <1>9
<1> HIDE DEF os
<1>11. PICK ws : ws = os
  OBVIOUS
<1>12. q \in HardenDossier /\ q.observations = ws
  <2>1. ws \in Seq(HardenObservation)
    BY <1>10, <1>11, SeqDef
  <2>2. QED
    BY <1>5, <1>11, <2>1 DEF HardenDossier
<1>13. NormalizeHarden(q) = q
  <2> DEFINE gs == [i \in DOMAIN q.observations |->
                      IF q.observations[i].result = "blocks" /\ q.observations[i].status = ""
                        THEN [q.observations[i] EXCEPT !.status = "open"] ELSE q.observations[i]]
  <2>1. gs = q.observations
    BY <1>10, <1>11, <1>12
  <2>2. NormalizeHarden(q) = [q EXCEPT !.observations = gs]
    BY Zenon DEF NormalizeHarden
  <2> HIDE DEF gs
  <2>3. [q EXCEPT !.observations = gs] = q
    BY <1>12, <2>1 DEF HardenDossier
  <2>4. QED
    BY <2>2, <2>3
<1>14. q # NoPacket /\ q # Removed /\ q \in Dossier
  BY <1>1, <1>12 DEF Dossier
<1>15. QED
  BY <1>2, <1>4, <1>12, <1>13, <1>14 DEF Settled

\* What counts as a dossier is valid.
LEMMA ParseValid ==
  ASSUME NEW schema \in {"review", "harden"}, NEW text, Parse(schema, text) # NoPacket
  PROVE  IF schema = "review" THEN ValidReview(Parse(schema, text)) ELSE ValidHarden(Parse(schema, text))
<1>1. CASE schema = "review"
  BY <1>1, Zenon DEF Parse, ParseReview
<1>2. CASE schema = "harden"
  <2>1. Parse(schema, text) = ParseHarden(text)
    BY <1>2 DEF Parse
  <2>2. ParseHarden(text) # NoPacket => ValidHarden(ParseHarden(text))
    BY Zenon DEF ParseHarden
  <2>3. QED
    BY <1>2, <2>1, <2>2
<1>3. QED
  BY <1>1, <1>2

IsOutcome(o) ==
  o = [kind |-> o.kind, dossier |-> o.dossier, rejected |-> o.rejected, unread |-> o.unread, artifact |-> o.artifact]

LEMMA Outcomes ==
  ASSUME NEW rejected, NEW d
  PROVE  /\ IsOutcome(NoOutcome) /\ NoOutcome.kind = "none"
         /\ IsOutcome(Failed(rejected)) /\ Failed(rejected).kind = "failed"
         /\ IsOutcome(Answered(d)) /\ Answered(d).kind = "dossier" /\ Answered(d).dossier = d
         /\ IsOutcome([Failed(rejected) EXCEPT !.unread = TRUE])
         /\ [Failed(rejected) EXCEPT !.unread = TRUE].kind = "failed"
         /\ [Failed(rejected) EXCEPT !.unread = TRUE].unread
<1>1. PICK no, yes : no = FALSE /\ yes = TRUE
  OBVIOUS
<1>2. PICK o : o = [kind |-> "none", dossier |-> NoPacket, rejected |-> <<>>, unread |-> no, artifact |-> no]
  OBVIOUS
<1>3. NoOutcome = o
  BY <1>1, <1>2, Zenon DEF NoOutcome
<1>4. IsOutcome(o) /\ o.kind = "none"
  BY <1>2 DEF IsOutcome
<1>5. PICK f : f = [kind |-> "failed", dossier |-> NoPacket, rejected |-> rejected, unread |-> no, artifact |-> no]
  OBVIOUS
<1>6. IsOutcome(f) /\ f.kind = "failed" /\ f = [o EXCEPT !.kind = "failed", !.rejected = rejected]
  <2>1. IsOutcome(f) /\ f.kind = "failed"
    BY <1>5 DEF IsOutcome
  <2>2. [o EXCEPT !.kind = "failed"]
          = [kind |-> "failed", dossier |-> NoPacket, rejected |-> <<>>, unread |-> no, artifact |-> no]
    BY <1>2
  <2>3. [[kind |-> "failed", dossier |-> NoPacket, rejected |-> <<>>, unread |-> no, artifact |-> no]
           EXCEPT !.rejected = rejected]
          = [kind |-> "failed", dossier |-> NoPacket, rejected |-> rejected, unread |-> no, artifact |-> no]
    OBVIOUS
  <2>4. QED
    BY <1>5, <2>1, <2>2, <2>3, Zenon
<1>7. PICK a : a = [kind |-> "dossier", dossier |-> d, rejected |-> <<>>, unread |-> no, artifact |-> no]
  OBVIOUS
<1>8. /\ IsOutcome(a) /\ a.kind = "dossier" /\ a.dossier = d
      /\ a = [o EXCEPT !.kind = "dossier", !.dossier = d]
  <2>1. IsOutcome(a) /\ a.kind = "dossier" /\ a.dossier = d
    BY <1>7 DEF IsOutcome
  <2>2. [o EXCEPT !.kind = "dossier"]
          = [kind |-> "dossier", dossier |-> NoPacket, rejected |-> <<>>, unread |-> no, artifact |-> no]
    BY <1>2
  <2>3. [[kind |-> "dossier", dossier |-> NoPacket, rejected |-> <<>>, unread |-> no, artifact |-> no]
           EXCEPT !.dossier = d]
          = [kind |-> "dossier", dossier |-> d, rejected |-> <<>>, unread |-> no, artifact |-> no]
    OBVIOUS
  <2>4. QED
    BY <1>7, <2>1, <2>2, <2>3, Zenon
<1>9. PICK u : u = [f EXCEPT !.unread = yes]
  OBVIOUS
<1>10. IsOutcome(u) /\ u.kind = "failed" /\ u.unread = yes
  BY <1>5, <1>9 DEF IsOutcome
<1>11. Failed(rejected) = f /\ Answered(d) = a
  BY <1>3, <1>6, <1>8, Zenon DEF Failed, Answered
<1>12. QED
  BY <1>1, <1>3, <1>4, <1>6, <1>8, <1>9, <1>10, <1>11, Zenon

\* The judgement: a dossier only from a run that was not stopped, whose text
\* parses, and whose exit code fits.
LEMMA Judged ==
  ASSUME NEW result, NEW text, NEW schema, NEW o, o = DossierFromProviderResult(result, text, schema)
  PROVE  /\ IsOutcome(o) /\ o.kind \in {"dossier", "failed"}
         /\ o.kind = "dossier" =>
              /\ result.err = "" /\ o.dossier = Parse(schema, text) /\ o.dossier # NoPacket
              /\ result.exit # 0 => Refuses(schema, o.dossier)
         /\ result.err = "" /\ result.exit = 0 /\ Parse(schema, text) # NoPacket =>
              o.dossier = Parse(schema, text)
<1> DEFINE d == Parse(schema, text)
<1>1. \/ result.err # "" /\ o = Failed(<<>>)
      \/ d = NoPacket /\ \E rejected : o = Failed(rejected)
      \/ result.exit # 0 /\ ~Refuses(schema, d) /\ o = Failed(<<>>)
      \/ /\ result.err = "" /\ d # NoPacket /\ (result.exit # 0 => Refuses(schema, d))
         /\ o = Answered(d)
  BY Zenon DEF DossierFromProviderResult
<1>2. \A r : IsOutcome(Failed(r)) /\ Failed(r).kind = "failed"
  BY Outcomes, Zenon
<1>3. IsOutcome(Answered(d)) /\ Answered(d).kind = "dossier" /\ Answered(d).dossier = d
  BY Outcomes, Zenon
<1> HIDE DEF d
<1>4. CASE o.kind = "failed"
  <2>1. IsOutcome(o) /\ (result.err # "" \/ d = NoPacket \/ result.exit # 0)
    BY <1>1, <1>2, <1>3, <1>4
  <2>2. QED
    BY <1>4, <2>1 DEF d
<1>5. CASE o = Answered(d) /\ result.err = "" /\ d # NoPacket /\ (result.exit # 0 => Refuses(schema, d))
  BY <1>3, <1>5 DEF d
<1>6. QED
  BY <1>1, <1>2, <1>4, <1>5

-----------------------------------------------------------------------------
(* The call. *)

IsCall(c) ==
  /\ c = [pc |-> c.pc, agent |-> c.agent, schema |-> c.schema, heard |-> c.heard,
          text |-> c.text, outcome |-> c.outcome]
  /\ IsOutcome(c.outcome)

\* The runner after its part: it has returned, or the local provider left it idle.
RunnerDone == runner.pc = IF call.agent = "local" THEN "idle" ELSE "returned"

\* The steps of a call, and that its runner is done when its result is read.
CallInv ==
  /\ IsCall(call)
  /\ call.pc \in {"select", "run", "wait", "clean", "judge", "report", "over"}
  /\ call.schema \in {"review", "harden"}
  /\ call.pc \in {"select", "run", "wait", "judge"} => call.outcome.kind = "none"
  /\ call.pc = "select" => call.agent = "none"
  /\ call.pc = "clean" => call.outcome.kind = "failed"
  /\ call.pc \in {"run", "wait", "judge", "clean", "report"} => call.agent # "none"
  /\ call.pc \in {"select", "run"} => runner.pc = "idle"
  /\ call.pc = "wait" => call.agent # "local"
  /\ call.pc \in {"judge", "clean", "report"} => RunnerDone
  /\ call.pc = "over" /\ call.agent # "none" => RunnerDone
  /\ call.outcome.kind = "dossier" => call.agent # "none"

\* What Next does to a call.
CallSteps ==
  \/ Choose \/ Invoke \/ InvokeLocal \/ ReadResponse \/ Judge \/ Report
  \/ \E code \in ExitCodes : ProviderExits(code)

LEMMA CallActsOnly == Next => CallSteps \/ (UNCHANGED call /\ ~Invoke)
<1> SUFFICES ASSUME Next PROVE CallSteps \/ (UNCHANGED call /\ ~Invoke)
  OBVIOUS
<1>1. CASE CallSteps
  BY <1>1
<1>2. CASE ~CallSteps
  <2>1. ~Invoke
    BY <1>2 DEF CallSteps
  <2>2. CASE Runs \/ ProviderPrints \/ CodexWrites \/ ProviderCallsTool \/ ProviderForks
    BY <2>1, <2>2 DEF Runs, ProviderPrints, CodexWrites, ProviderCallsTool, ProviderForks
  <2>3. CASE DescendantEnds \/ OperatorInterrupts \/ ServerWorks \/ ServerStops \/ Over
    BY <2>1, <2>3 DEF DescendantEnds, OperatorInterrupts, ServerWorks, ServerStops, Over, vars
  <2>4. QED
    BY <1>2, <2>2, <2>3 DEF Next, CallSteps
<1>3. QED
  BY <1>1, <1>2

\* A runner that is not started stays idle, and one that has returned stays so.
LEMMA ReturnedStays ==
  ASSUME RunInv, RunnerActs \/ UNCHANGED runnerVars, runner.pc = "returned"
  PROVE  /\ runner' = runner /\ child.state # "running"
         /\ child'.exit = child.exit /\ child'.termed = child.termed
<1>1. child.state # "running"
  BY DEF RunInv
<1>2. CASE Forks \/ HelperEnds
  <2>1. runner' = runner /\ \E where : child' = [child EXCEPT !.helper = where]
    BY <1>2 DEF Forks, HelperEnds
  <2>2. QED
    BY <1>1, <2>1 DEF RunInv, IsChild
<1>3. CASE \/ UNCHANGED runnerVars \/ Reap \/ Interrupt \/ \E c \in Chunks : Prints(c)
  BY <1>1, <1>3 DEF runnerVars, Reap, Interrupt, Prints
<1>4. ~(Pump \/ PumpsDone \/ Exited \/ Cancelled \/ TimedOut \/ Silent \/ Stopped \/ Kill \/ Tick)
  BY DEF Pump, PumpsDone, Exited, Cancelled, TimedOut, Silent, Stopped, Kill, Tick, Running
<1>5. ~\E code \in ExitCodes : Exits(code)
  BY <1>1 DEF Exits
<1>6. ~\E idle \in {0, IdleTimeout} : Start(idle)
  BY DEF Start
<1>7. QED
  BY <1>1, <1>2, <1>3, <1>4, <1>5, <1>6 DEF RunnerActs, RunnerStep

LEMMA IdleStays ==
  ASSUME RunInv, Next, ~Invoke, runner.pc = "idle"
  PROVE  runner' = runner /\ child' = child
<1>1. child.state = "none" /\ ~Running /\ waitCh = "pumping" /\ child.helper = "none"
  BY DEF RunInv
<1>2. CASE Choose \/ InvokeLocal \/ ReadResponse \/ Judge \/ Report \/ Over
  BY <1>2 DEF Choose, InvokeLocal, ReadResponse, Judge, Report, Over, vars, runnerVars
<1>3. CASE CodexWrites \/ ProviderCallsTool \/ ServerWorks \/ ServerStops
  BY <1>3 DEF CodexWrites, ProviderCallsTool, ServerWorks, ServerStops, runnerVars
<1>4. CASE Runs
  BY <1>1, <1>4 DEF Runs, RunnerStep, Pump, PumpsDone, Reap, Exited, Cancelled, TimedOut, Silent,
                    Stopped, Kill, Tick, Running
<1>5. CASE ProviderPrints \/ ProviderForks \/ DescendantEnds \/ OperatorInterrupts
  BY <1>1, <1>5 DEF ProviderPrints, Prints, ProviderForks, Forks, DescendantEnds, HelperEnds,
                    OperatorInterrupts, Interrupt
<1>6. CASE \E code \in ExitCodes : ProviderExits(code)
  BY <1>1, <1>6 DEF ProviderExits, Exits
<1>7. QED
  BY <1>2, <1>3, <1>4, <1>5, <1>6 DEF Next

\* What the three steps of a call that look at more than its own state amount to.
LEMMA ChooseAmounts ==
  ASSUME Choose
  PROVE  \/ \E o : IsOutcome(o) /\ o.kind = "failed" /\ call' = [call EXCEPT !.pc = "over", !.outcome = o]
         \/ \E agent : \E schema \in {"review", "harden"} :
              agent # "none" /\ call' = [call EXCEPT !.pc = "run", !.agent = agent, !.schema = schema]
<1>1. PICK r \in Requests :
        IF SelectProvider(r) = "none"
          THEN call' = [call EXCEPT !.pc = "over", !.outcome = Failed(<<>>)]
          ELSE call' = [call EXCEPT !.pc = "run", !.agent = SelectProvider(r), !.schema = r.schema]
  BY Zenon DEF Choose
<1>2. PICK o : o = Failed(<<>>)
  OBVIOUS
<1>3. IsOutcome(o) /\ o.kind = "failed"
  BY <1>2, Outcomes, Zenon
<1>4. PICK schema \in {"review", "harden"} : schema = r.schema
  BY DossiersAssumption
<1>5. PICK agent : agent = SelectProvider(r)
  OBVIOUS
<1>6. CASE agent = "none"
  <2>1. call' = [call EXCEPT !.pc = "over", !.outcome = o]
    BY <1>1, <1>2, <1>5, <1>6, Zenon
  <2>2. QED
    BY <1>3, <2>1
<1>7. CASE agent # "none"
  <2>1. call' = [call EXCEPT !.pc = "run", !.agent = agent, !.schema = schema]
    BY <1>1, <1>4, <1>5, <1>7, Zenon
  <2>2. QED
    BY <1>7, <2>1
<1>8. QED
  BY <1>6, <1>7

LEMMA ReadAmounts ==
  ASSUME CallInv, ReadResponse
  PROVE  \/ HasServer /\ HasSubmission /\ call' = [call EXCEPT !.pc = "judge", !.text = <<file>>]
         \/ ~HasServer /\ \E text : call' = [call EXCEPT !.pc = "judge", !.text = text]
         \/ HasServer /\ \E o : /\ IsOutcome(o) /\ o.kind = "failed" /\ (o.unread \/ ~HasSubmission)
                                /\ call' = [call EXCEPT !.pc = "clean", !.outcome = o]
<1>1. CASE ReadSubmission /\ HasSubmission
  <2>1. call' = [call EXCEPT !.pc = "judge", !.text = <<file>>, !.outcome = @] /\ HasServer
    BY <1>1, Zenon DEF ReadSubmission
  <2>2. [call EXCEPT !.pc = "judge", !.text = <<file>>, !.outcome = @]
          = [call EXCEPT !.pc = "judge", !.text = <<file>>]
    BY DEF CallInv, IsCall
  <2>3. QED
    BY <1>1, <2>1, <2>2
<1>2. CASE ReadSubmission /\ ~HasSubmission
  <2>1. PICK o : o = Failed(NoSubmissionRepairText)
    OBVIOUS
  <2>2. IsOutcome(o) /\ o.kind = "failed"
    BY <2>1, Outcomes, Zenon
  <2>3. call' = [call EXCEPT !.pc = "clean", !.text = @, !.outcome = o] /\ HasServer
    BY <1>2, <2>1, Zenon DEF ReadSubmission
  <2>4. [call EXCEPT !.pc = "clean", !.text = @, !.outcome = o] = [call EXCEPT !.pc = "clean", !.outcome = o]
    BY DEF CallInv, IsCall
  <2>5. QED
    BY <1>2, <2>2, <2>3, <2>4
<1>3. CASE SubmissionUnreadable
  <2>1. PICK o : o = [Failed(<<>>) EXCEPT !.unread = TRUE]
    OBVIOUS
  <2>2. IsOutcome(o) /\ o.kind = "failed" /\ o.unread
    BY <2>1, Outcomes, Zenon
  <2>3. call' = [call EXCEPT !.pc = "clean", !.outcome = o] /\ HasServer
    BY <1>3, <2>1, Zenon DEF SubmissionUnreadable
  <2>4. QED
    BY <2>2, <2>3
<1>4. CASE ReadCodexOutput \/ ReadCommandOutput
  <2>1. ~HasServer
    BY <1>4 DEF ReadCodexOutput, ReadCommandOutput, HasServer
  <2>2. \E text : call' = [call EXCEPT !.pc = "judge", !.text = text]
    BY <1>4, Zenon DEF ReadCodexOutput, ReadCommandOutput
  <2>3. QED
    BY <2>1, <2>2
<1>5. QED
  BY <1>1, <1>2, <1>3, <1>4 DEF ReadResponse

LEMMA ReportAmounts ==
  ASSUME CallInv, Report
  PROVE  \E o : /\ IsOutcome(o) /\ o.kind = call.outcome.kind
                /\ o.dossier = call.outcome.dossier /\ o.unread = call.outcome.unread
                /\ call' = [call EXCEPT !.pc = "over", !.outcome = o]
<1>1. PICK a : call' = [call EXCEPT !.pc = "over", !.outcome.artifact = a]
  BY DEF Report
<1>2. PICK o : o = [call.outcome EXCEPT !.artifact = a]
  OBVIOUS
<1>3. /\ IsOutcome(o) /\ o.kind = call.outcome.kind
      /\ o.dossier = call.outcome.dossier /\ o.unread = call.outcome.unread
  BY <1>2 DEF CallInv, IsCall, IsOutcome
<1>4. [call EXCEPT !.pc = "over"].outcome = call.outcome
  BY DEF CallInv, IsCall
<1>5. call' = [[call EXCEPT !.pc = "over"] EXCEPT !.outcome = o]
  BY <1>1, <1>2, <1>4, Zenon
<1>6. QED
  BY <1>3, <1>5, Zenon

\* The steps of a call stay in order.
LEMMA CallInvKeeps ==
  ASSUME RunInv, CallInv, Next
  PROVE  CallInv'
<1>a. RunnerActs \/ UNCHANGED runnerVars
  BY RunnerActsOnly
<1>b. runner.pc = "returned" => runner'.pc = "returned"
  BY <1>a, ReturnedStays
<1>c. runner.pc = "idle" /\ ~Invoke => runner'.pc = "idle"
  BY IdleStays
<1>d. ASSUME RunnerDone, call'.agent = call.agent, call.pc # "run" PROVE RunnerDone'
  <2>1. ~Invoke
    BY <1>d DEF Invoke
  <2>2. runner'.pc = runner.pc
    BY <1>b, <1>c, <1>d, <2>1 DEF RunnerDone
  <2>3. QED
    BY <1>d, <2>2 DEF RunnerDone
<1>1. CASE Choose
  <2>1. call.pc = "select" /\ UNCHANGED runnerVars
    BY <1>1 DEF Choose
  <2>2. CASE \E o : IsOutcome(o) /\ o.kind = "failed" /\ call' = [call EXCEPT !.pc = "over", !.outcome = o]
    BY <2>1, <2>2 DEF CallInv, IsCall, runnerVars
  <2>3. CASE \E agent : \E schema \in {"review", "harden"} :
               agent # "none" /\ call' = [call EXCEPT !.pc = "run", !.agent = agent, !.schema = schema]
    BY <2>1, <2>3 DEF CallInv, IsCall, runnerVars
  <2>4. QED
    BY <1>1, <2>2, <2>3, ChooseAmounts
<1>2. CASE Invoke
  <2>1. call' = [call EXCEPT !.pc = "wait"] /\ call.pc = "run" /\ call.agent # "local"
    BY <1>2 DEF Invoke
  <2>2. QED
    BY <2>1 DEF CallInv, IsCall
<1>L. CASE InvokeLocal
  <2>1. /\ \E text : call' = [call EXCEPT !.pc = "judge", !.text = text]
        /\ call.pc = "run" /\ call.agent = "local" /\ UNCHANGED runnerVars
    BY <1>L, Zenon DEF InvokeLocal
  <2>2. QED
    BY <2>1 DEF CallInv, IsCall, RunnerDone, runnerVars
<1>3. CASE ReadResponse
  <2>1. call.pc = "wait" /\ RunnerDone /\ call.agent # "none"
    BY <1>3 DEF ReadResponse, CallInv, RunnerDone
  <2>2. CASE \E text : call' = [call EXCEPT !.pc = "judge", !.text = text]
    BY <1>d, <2>1, <2>2 DEF CallInv, IsCall
  <2>3. CASE \E o : IsOutcome(o) /\ o.kind = "failed" /\ call' = [call EXCEPT !.pc = "clean", !.outcome = o]
    BY <1>d, <2>1, <2>3 DEF CallInv, IsCall
  <2>4. QED
    BY <1>3, <2>2, <2>3, ReadAmounts
<1>4. CASE Judge
  <2>1. PICK o : IsOutcome(o) /\ call' = [call EXCEPT !.pc = "report", !.outcome = o]
    <3>1. PICK o : o = IF call.pc = "judge"
                         THEN DossierFromProviderResult(runner.result, call.text, call.schema) ELSE call.outcome
      OBVIOUS
    <3>2. IsOutcome(o)
      <4>1. CASE call.pc = "judge"
        BY <3>1, <4>1, Judged
      <4>2. CASE call.pc # "judge"
        BY <3>1, <4>2 DEF CallInv, IsCall
      <4>3. QED
        BY <4>1, <4>2
    <3>3. call' = [call EXCEPT !.pc = "report", !.outcome = o]
      BY <1>4, <3>1, Zenon DEF Judge
    <3>4. QED
      BY <3>2, <3>3
  <2>2. call.pc \in {"judge", "clean"} /\ call.agent # "none" /\ RunnerDone
    BY <1>4 DEF Judge, CallInv
  <2>3. QED
    BY <1>d, <2>1, <2>2 DEF CallInv, IsCall
<1>5. CASE Report
  <2>1. call.pc = "report" /\ RunnerDone /\ call.agent # "none"
    BY <1>5 DEF Report, CallInv
  <2>2. PICK o : /\ IsOutcome(o) /\ o.kind = call.outcome.kind
                 /\ call' = [call EXCEPT !.pc = "over", !.outcome = o]
    BY <1>5, ReportAmounts
  <2>3. QED
    BY <1>d, <2>1, <2>2 DEF CallInv, IsCall
<1>6. CASE \E code \in ExitCodes : ProviderExits(code)
  <2>1. call' = [call EXCEPT !.heard = Len(replies)] /\ ~Invoke
    <3>1. call' = [call EXCEPT !.heard = Len(replies)] /\ child.state = "running"
      BY <1>6 DEF ProviderExits, Exits
    <3>2. runner.pc # "idle"
      BY <3>1 DEF RunInv
    <3>3. QED
      BY <3>1, <3>2 DEF Invoke, Start
  <2>2. PICK n : n = Len(replies)
    OBVIOUS
  <2>3. call' = [call EXCEPT !.heard = n]
    BY <2>1, <2>2
  <2>4. /\ IsCall(call') /\ call'.pc = call.pc /\ call'.agent = call.agent
        /\ call'.schema = call.schema /\ call'.outcome = call.outcome
    BY <2>3 DEF CallInv, IsCall
  <2>5. QED
    BY <1>c, <1>d, <2>1, <2>4 DEF CallInv
<1>7. CASE UNCHANGED call /\ ~Invoke
  BY <1>c, <1>d, <1>7 DEF CallInv
<1>8. QED
  BY <1>1, <1>2, <1>3, <1>4, <1>5, <1>6, <1>7, <1>L, CallActsOnly DEF CallSteps

\* A call that is over stays judged: what its dossier, its child and its schema
\* are no longer changes.
Earned(schema, d, c) ==
  /\ d # NoPacket /\ ~c.termed /\ (c.exit # 0 => Refuses(schema, d))
  /\ IF schema = "review" THEN ValidReview(d) ELSE ValidHarden(d)

EarnedInv == call.outcome.kind = "dossier" => Earned(call.schema, call.outcome.dossier, child)

LEMMA EarnedKeeps ==
  ASSUME RunInv, CallInv, EarnedInv, Next
  PROVE  EarnedInv'
<1>a. RunnerActs \/ UNCHANGED runnerVars
  BY RunnerActsOnly
<1>1. CASE Judge /\ call.pc = "judge"
  <2>1. PICK o : o = DossierFromProviderResult(runner.result, call.text, call.schema)
    OBVIOUS
  <2>2. call' = [call EXCEPT !.pc = "report", !.outcome = o] /\ UNCHANGED runnerVars
    BY <1>1, <2>1, Zenon DEF Judge
  <2>3. call'.schema = call.schema /\ call'.outcome = o /\ child' = child
    BY <2>2 DEF CallInv, IsCall, runnerVars
  <2>4. o.kind = "dossier" =>
          /\ runner.result.err = "" /\ o.dossier = Parse(call.schema, call.text) /\ o.dossier # NoPacket
          /\ runner.result.exit # 0 => Refuses(call.schema, o.dossier)
    <3>1. PICK result, text, schema : result = runner.result /\ text = call.text /\ schema = call.schema
      OBVIOUS
    <3>2. o = DossierFromProviderResult(result, text, schema)
      BY <2>1, <3>1
    <3>3. o.kind = "dossier" =>
            /\ result.err = "" /\ o.dossier = Parse(schema, text) /\ o.dossier # NoPacket
            /\ result.exit # 0 => Refuses(schema, o.dossier)
      BY <3>2, Judged
    <3>4. QED
      BY <3>1, <3>3
  <2>5. runner.result.err = "" => ~child.termed /\ runner.result.exit = child.exit
    BY <1>1 DEF RunInv, CallInv, RunnerDone
  <2>6. call.schema \in {"review", "harden"}
    BY DEF CallInv
  <2>7. o.kind = "dossier" => Earned(call.schema, o.dossier, child)
    <3> SUFFICES ASSUME o.kind = "dossier" PROVE Earned(call.schema, o.dossier, child)
      OBVIOUS
    <3>1. IF call.schema = "review" THEN ValidReview(o.dossier) ELSE ValidHarden(o.dossier)
      BY <2>4, <2>6, ParseValid
    <3>2. QED
      BY <2>4, <2>5, <3>1 DEF Earned
  <2>8. QED
    BY <2>3, <2>7 DEF EarnedInv
<1>2. CASE call.outcome.kind = "dossier" /\ ~Judge
  <2>1. call.pc \in {"report", "over"} /\ runner.pc \in {"idle", "returned"}
    BY <1>2 DEF CallInv, RunnerDone
  <2>2. child'.exit = child.exit /\ child'.termed = child.termed /\ child.state # "running"
    <3>1. CASE runner.pc = "returned"
      BY <1>a, <3>1, ReturnedStays
    <3>2. CASE runner.pc = "idle"
      <4>1. ~Invoke
        BY <2>1 DEF Invoke
      <4>2. QED
        BY <3>2, <4>1, IdleStays DEF RunInv
    <3>3. QED
      BY <2>1, <3>1, <3>2
  <2>3. call'.schema = call.schema /\ call'.outcome.dossier = call.outcome.dossier
    <3>1. CASE UNCHANGED call
      BY <3>1
    <3>2. CASE Report
      BY <3>2, ReportAmounts DEF CallInv, IsCall
    <3>3. ~(Choose \/ Invoke \/ InvokeLocal \/ ReadResponse \/ Judge \/ \E code \in ExitCodes : ProviderExits(code))
      BY <1>2, <2>1, <2>2 DEF Choose, Invoke, InvokeLocal, ReadResponse, ProviderExits, Exits
    <3>4. QED
      BY <3>1, <3>2, <3>3, CallActsOnly DEF CallSteps
  <2>4. QED
    BY <1>2, <2>2, <2>3 DEF EarnedInv, Earned
<1>3. CASE call.outcome.kind # "dossier" /\ ~(Judge /\ call.pc = "judge")
  <2>1. call'.outcome.kind # "dossier"
    <3>1. CASE Choose
      <4>1. CASE \E o : IsOutcome(o) /\ o.kind = "failed" /\ call' = [call EXCEPT !.pc = "over", !.outcome = o]
        BY <4>1 DEF CallInv, IsCall
      <4>2. CASE \E agent : \E schema \in {"review", "harden"} :
                   agent # "none" /\ call' = [call EXCEPT !.pc = "run", !.agent = agent, !.schema = schema]
        BY <1>3, <4>2 DEF CallInv, IsCall
      <4>3. QED
        BY <3>1, <4>1, <4>2, ChooseAmounts
    <3>2. CASE Invoke \/ \E code \in ExitCodes : ProviderExits(code)
      <4>1. \/ call' = [call EXCEPT !.pc = "wait"]
            \/ call' = [call EXCEPT !.heard = Len(replies)]
        BY <3>2 DEF Invoke, ProviderExits
      <4>2. QED
        BY <1>3, <4>1 DEF CallInv, IsCall
    <3>3. CASE ReadResponse
      <4>1. CASE \E text : call' = [call EXCEPT !.pc = "judge", !.text = text]
        BY <1>3, <4>1 DEF CallInv, IsCall
      <4>2. CASE \E o : IsOutcome(o) /\ o.kind = "failed" /\ call' = [call EXCEPT !.pc = "clean", !.outcome = o]
        BY <4>2 DEF CallInv, IsCall
      <4>3. QED
        BY <3>3, <4>1, <4>2, ReadAmounts
    <3>4. CASE Judge
      <4>1. call' = [call EXCEPT !.pc = "report", !.outcome = call.outcome]
        BY <1>3, <3>4, Zenon DEF Judge
      <4>2. QED
        BY <1>3, <4>1 DEF CallInv, IsCall
    <3>5. CASE Report
      BY <1>3, <3>5, ReportAmounts DEF CallInv, IsCall
    <3>6. CASE InvokeLocal
      <4>1. \E text : call' = [call EXCEPT !.pc = "judge", !.text = text]
        BY <3>6, Zenon DEF InvokeLocal
      <4>2. QED
        BY <1>3, <4>1 DEF CallInv, IsCall
    <3>7. QED
      BY <1>3, <3>1, <3>2, <3>3, <3>4, <3>5, <3>6, CallActsOnly DEF CallSteps
  <2>2. QED
    BY <2>1 DEF EarnedInv
<1>4. CASE call.outcome.kind = "dossier" /\ Judge
  <2>1. call.pc \in {"judge", "clean"}
    BY <1>4 DEF Judge
  <2>2. QED
    BY <1>4, <2>1 DEF CallInv
<1>5. QED
  BY <1>1, <1>2, <1>3, <1>4

-----------------------------------------------------------------------------
(* The hand-in. *)

Answer == [packet : Dossier \cup {NoPacket}, accepted : BOOLEAN]

IsServer(w) == w = [pc |-> w.pc, arg |-> w.arg, submitted |-> w.submitted]

\* What the server wrote and what it answered, whoever reads the file.
ServedInv ==
  /\ IsServer(server) /\ server.submitted \in BOOLEAN
  /\ replies \in Seq(Answer)
  /\ call.pc = "select" => server.pc = "down" /\ replies = <<>> /\ call.heard = 0
  /\ server.pc = "writing" => ~server.submitted /\ Settled(call.schema, server.arg)
  /\ server.pc = "renamed" => server.submitted /\ Settled(call.schema, server.arg)
  /\ \A i \in 1..Len(replies) : replies[i].accepted =>
       server.submitted /\ Settled(call.schema, replies[i].packet)

\* The file holds what was accepted until the call is judged.
PlacedInv ==
  HasServer /\ call.pc \in {"run", "wait", "judge", "clean"} =>
    /\ server.pc = "renamed" => file = server.arg
    /\ \A i \in 1..Len(replies) : replies[i].accepted => file = replies[i].packet

Decides(i) ==
  /\ call.pc = "judge" => call.text = <<replies[i].packet>>
  /\ call.pc = "clean" => call.outcome.unread
  /\ call.pc \in {"report", "over"} /\ runner.result.err = "" /\ child.exit = 0 =>
       call.outcome.unread \/ call.outcome.dossier = replies[i].packet

\* The call goes on with what the provider heard was accepted.
HeardInv ==
  /\ call.heard \in 0..Len(replies)
  /\ HasServer => \A i \in 1..call.heard : replies[i].accepted => Decides(i)

\* What the server is asked, settles.
LEMMA RequestSettles ==
  ASSUME CallInv, NEW p \in Raw[call.schema], Parse(call.schema, <<p>>) # NoPacket
  PROVE  Settled(call.schema, Parse(call.schema, <<p>>))
<1>1. CASE call.schema = "review"
  <2>1. p \in ReviewDossier
    BY <1>1, DossiersAssumption
  <2>2. QED
    BY <1>1, <2>1, ReviewSettles
<1>2. CASE call.schema = "harden"
  <2>1. p \in HardenDossier
    BY <1>2, DossiersAssumption
  <2>2. QED
    BY <1>2, <2>1, HardenSettles
<1>3. QED
  BY <1>1, <1>2 DEF CallInv

\* What the steps of the server amount to: nothing, the end, an argument that is
\* taken, the file put in place, or an answer.
Answers(p, accepted) == replies' = Append(replies, [packet |-> p, accepted |-> accepted])

LEMMA ServerAmounts ==
  ASSUME CallInv, ServedInv, ProviderCallsTool \/ ServerWorks \/ ServerStops
  PROVE  /\ UNCHANGED <<runnerVars, call>>
         /\ \/ /\ UNCHANGED <<file, replies>> /\ IsServer(server') /\ server'.submitted = server.submitted
               /\ \/ server'.pc \in {"reading", "over"}
                  \/ /\ server'.pc = "writing" /\ ~server.submitted
                     /\ Settled(call.schema, server'.arg)
            \/ /\ server.pc = "writing" /\ server'.pc = "renamed" /\ server'.submitted = TRUE
               /\ server'.arg = server.arg /\ IsServer(server')
               /\ file' = server.arg /\ UNCHANGED replies
            \/ /\ server' = server /\ server.pc = "reading" /\ Answers(NoPacket, FALSE) /\ UNCHANGED file
            \/ /\ server.pc = "writing" /\ server'.pc = "reading" /\ server'.submitted = server.submitted
               /\ IsServer(server') /\ Answers(server.arg, FALSE) /\ UNCHANGED file
            \/ /\ server.pc = "renamed" /\ server'.pc = "reading" /\ server'.submitted = server.submitted
               /\ IsServer(server') /\ Answers(server.arg, TRUE) /\ UNCHANGED file
<1>0. UNCHANGED <<runnerVars, call>>
  BY DEF ProviderCallsTool, ServerWorks, ServerStops
<1>s. IsServer(server)
  BY DEF ServedInv
<1>1. CASE Serve \/ ServerEnds
  <2>1. PICK pc \in {"reading", "over"} : server' = [server EXCEPT !.pc = pc] /\ UNCHANGED <<file, replies>>
    BY <1>1 DEF Serve, ServerEnds
  <2>2. IsServer(server') /\ server'.submitted = server.submitted /\ server'.pc \in {"reading", "over"}
    BY <1>s, <2>1 DEF IsServer
  <2>3. QED
    BY <1>0, <2>1, <2>2
<1>2. CASE ServerKilled
  <2>1. server' = [server EXCEPT !.pc = "over", !.arg = NoPacket] /\ UNCHANGED <<file, replies>>
    BY <1>2 DEF ServerKilled
  <2>2. IsServer(server') /\ server'.submitted = server.submitted /\ server'.pc = "over"
    BY <1>s, <2>1 DEF IsServer
  <2>3. QED
    BY <1>0, <2>1, <2>2
<1>3. ASSUME NEW p \in Raw[call.schema], ToolCall(call.schema, p)
      PROVE  \/ /\ UNCHANGED <<file, replies>> /\ IsServer(server') /\ server'.submitted = server.submitted
                /\ server'.pc = "writing" /\ ~server.submitted /\ Settled(call.schema, server'.arg)
             \/ /\ server' = server /\ server.pc = "reading" /\ Answers(NoPacket, FALSE) /\ UNCHANGED file
  <2>1. PICK d : d = Parse(call.schema, <<p>>)
    OBVIOUS
  <2>2. /\ server.pc = "reading" /\ UNCHANGED file
        /\ IF server.submitted \/ d = NoPacket
             THEN Answers(NoPacket, FALSE) /\ UNCHANGED server
             ELSE server' = [server EXCEPT !.pc = "writing", !.arg = d] /\ UNCHANGED replies
    BY <1>3, <2>1, Zenon DEF ToolCall, Reply, Answers
  <2>3. CASE server.submitted \/ d = NoPacket
    BY <2>2, <2>3
  <2>4. CASE ~(server.submitted \/ d = NoPacket)
    <3>1. server' = [server EXCEPT !.pc = "writing", !.arg = d] /\ UNCHANGED <<file, replies>>
      BY <2>2, <2>4
    <3>2. Settled(call.schema, d)
      BY <2>1, <2>4, RequestSettles
    <3>3. /\ IsServer(server') /\ server'.submitted = server.submitted
          /\ server'.pc = "writing" /\ server'.arg = d
      BY <1>s, <3>1 DEF IsServer
    <3>4. QED
      BY <2>4, <3>1, <3>2, <3>3
  <2>5. QED
    BY <2>3, <2>4
<1>4. CASE WriteAtomic
  <2>1. PICK yes : yes = TRUE
    OBVIOUS
  <2>2. /\ server.pc = "writing"
        /\ \/ /\ file' = server.arg /\ UNCHANGED replies
              /\ server' = [server EXCEPT !.pc = "renamed", !.submitted = yes]
           \/ /\ Answers(server.arg, FALSE) /\ UNCHANGED file
              /\ server' = [server EXCEPT !.pc = "reading", !.arg = NoPacket]
    BY <1>4, <2>1, Zenon DEF WriteAtomic, Reply, Answers
  <2>3. CASE server' = [server EXCEPT !.pc = "renamed", !.submitted = yes] /\ file' = server.arg /\ UNCHANGED replies
    <3>1. /\ IsServer(server') /\ server'.pc = "renamed" /\ server'.submitted = yes
          /\ server'.arg = server.arg
      BY <1>s, <2>3 DEF IsServer
    <3>2. QED
      BY <1>0, <2>1, <2>2, <2>3, <3>1
  <2>4. CASE /\ server' = [server EXCEPT !.pc = "reading", !.arg = NoPacket]
             /\ Answers(server.arg, FALSE) /\ UNCHANGED file
    <3>1. IsServer(server') /\ server'.pc = "reading" /\ server'.submitted = server.submitted
      BY <1>s, <2>4 DEF IsServer
    <3>2. QED
      BY <1>0, <2>2, <2>4, <3>1
  <2>5. QED
    BY <2>2, <2>3, <2>4
<1>5. CASE RespondAccepted
  <2>1. /\ server.pc = "renamed" /\ Answers(server.arg, TRUE) /\ UNCHANGED file
        /\ server' = [server EXCEPT !.pc = "reading", !.arg = NoPacket]
    BY <1>5, Zenon DEF RespondAccepted, Reply, Answers
  <2>2. IsServer(server') /\ server'.pc = "reading" /\ server'.submitted = server.submitted
    BY <1>s, <2>1 DEF IsServer
  <2>3. QED
    BY <1>0, <2>1, <2>2
<1>6. Serve \/ ServerEnds \/ ServerKilled \/ WriteAtomic \/ RespondAccepted
        \/ \E p \in Raw[call.schema] : ToolCall(call.schema, p)
  BY DEF ProviderCallsTool, ServerWorks, ServerStops
<1>7. QED
  BY <1>0, <1>1, <1>2, <1>3, <1>4, <1>5, <1>6

\* An answer is added at the end.
LEMMA AnswerAdded ==
  ASSUME replies \in Seq(Answer), NEW p \in Dossier \cup {NoPacket}, NEW accepted \in BOOLEAN,
         Answers(p, accepted)
  PROVE  /\ replies' \in Seq(Answer) /\ Len(replies') = Len(replies) + 1
         /\ \A i \in 1..Len(replies) : replies'[i] = replies[i]
         /\ replies'[Len(replies')].packet = p
         /\ replies'[Len(replies')].accepted = accepted
<1>1. PICK answer : answer = [packet |-> p, accepted |-> accepted]
  OBVIOUS
<1>2. answer \in Answer /\ answer.packet = p /\ answer.accepted = accepted
  BY <1>1 DEF Answer
<1>3. replies' = Append(replies, answer)
  BY <1>1, Zenon DEF Answers
<1>4. /\ replies' \in Seq(Answer) /\ Len(replies') = Len(replies) + 1
      /\ \A i \in 1..Len(replies) : replies'[i] = replies[i]
      /\ replies'[Len(replies) + 1] = answer
  BY <1>2, <1>3, AppendProperties
<1>5. QED
  BY <1>2, <1>4

HandInv == ServedInv /\ PlacedInv /\ HeardInv

\* Whatever the server does, what was accepted is in the file, and nothing that
\* the call goes on with changes.
LEMMA ServerKeeps ==
  ASSUME RunInv, CallInv, HandInv, ProviderCallsTool \/ ServerWorks \/ ServerStops
  PROVE  HandInv'
<1>1. /\ UNCHANGED <<runnerVars, call>> /\ HasServer' = HasServer
      /\ runner' = runner /\ child' = child /\ call' = call
  BY ServerAmounts DEF HandInv, HasServer, runnerVars
<1>2. call.pc # "select"
  <2>1. CASE call.pc = "select"
    <3>1. server.pc = "down" /\ ~HasServer
      BY <2>1 DEF CallInv, HandInv, ServedInv, HasServer
    <3>2. QED
      BY <3>1 DEF ProviderCallsTool, ServerWorks, WriteAtomic, RespondAccepted, ServerStops, ServerEnds,
                  ServerKilled
  <2>2. QED
    BY <2>1
<1>3. CASE /\ UNCHANGED <<file, replies>> /\ IsServer(server') /\ server'.submitted = server.submitted
           /\ \/ server'.pc \in {"reading", "over"}
              \/ /\ server'.pc = "writing" /\ ~server.submitted
                 /\ Settled(call.schema, server'.arg)
  <2>1. ServedInv'
    BY <1>1, <1>2, <1>3 DEF HandInv, ServedInv
  <2>2. PlacedInv'
    BY <1>1, <1>3 DEF HandInv, PlacedInv
  <2>3. HeardInv'
    BY <1>1, <1>3 DEF HandInv, HeardInv, Decides
  <2>4. QED
    BY <2>1, <2>2, <2>3 DEF HandInv
<1>4. CASE /\ server.pc = "writing" /\ server'.pc = "renamed" /\ server'.submitted = TRUE
           /\ server'.arg = server.arg /\ IsServer(server')
           /\ file' = server.arg /\ UNCHANGED replies
  <2>1. \A i \in 1..Len(replies) : ~replies[i].accepted
    BY <1>4 DEF HandInv, ServedInv
  <2>2. server'.submitted \in BOOLEAN
    BY <1>4
  <2>3. ServedInv'
    BY <1>1, <1>2, <1>4, <2>1, <2>2 DEF HandInv, ServedInv
  <2>4. PlacedInv'
    BY <1>1, <1>4, <2>1 DEF HandInv, PlacedInv
  <2>5. HeardInv'
    BY <1>1, <1>4 DEF HandInv, HeardInv, Decides
  <2>6. QED
    BY <2>3, <2>4, <2>5 DEF HandInv
<1>5. ASSUME NEW p \in Dossier \cup {NoPacket}, NEW accepted \in BOOLEAN, Answers(p, accepted),
             UNCHANGED file, IsServer(server'), server'.submitted = server.submitted,
             server'.pc = "reading",
             accepted => server.submitted /\ Settled(call.schema, p) /\ (PlacedInv /\ HasServer
                           /\ call.pc \in {"run", "wait", "judge", "clean"} => file = p)
      PROVE  HandInv'
  <2>1. /\ replies' \in Seq(Answer) /\ Len(replies') = Len(replies) + 1
        /\ \A i \in 1..Len(replies) : replies'[i] = replies[i]
        /\ replies'[Len(replies')].packet = p
        /\ replies'[Len(replies')].accepted = accepted
    BY <1>5, AnswerAdded DEF HandInv, ServedInv
  <2>2. PICK n \in Nat : n = Len(replies)
    BY DEF HandInv, ServedInv
  <2>3. /\ Len(replies') = n + 1
        /\ \A i \in 1..(n + 1) : i \in 1..n \/ i = n + 1
    BY <2>1, <2>2
  <2>4. ServedInv'
    BY <1>1, <1>2, <1>5, <2>1, <2>2, <2>3 DEF HandInv, ServedInv
  <2>5. PlacedInv'
    BY <1>1, <1>5, <2>1, <2>2, <2>3 DEF HandInv, PlacedInv
  <2>6. HeardInv'
    <3>1. call.heard \in 0..n /\ call.heard \in 0..(n + 1)
      BY <2>2 DEF HandInv, HeardInv
    <3>2. \A i \in 1..call.heard : i \in 1..n
      BY <3>1
    <3>3. QED
      BY <1>1, <2>1, <2>2, <2>3, <3>1, <3>2 DEF HandInv, HeardInv, Decides
  <2>7. QED
    BY <2>4, <2>5, <2>6 DEF HandInv
<1>6. CASE server' = server /\ server.pc = "reading" /\ Answers(NoPacket, FALSE) /\ UNCHANGED file
  BY <1>5, <1>6 DEF HandInv, ServedInv
<1>7. CASE /\ server.pc = "writing" /\ server'.pc = "reading" /\ server'.submitted = server.submitted
           /\ IsServer(server') /\ Answers(server.arg, FALSE) /\ UNCHANGED file
  <2>1. server.arg \in Dossier
    BY <1>7 DEF HandInv, ServedInv, Settled
  <2>2. QED
    BY <1>5, <1>7, <2>1
<1>8. CASE /\ server.pc = "renamed" /\ server'.pc = "reading" /\ server'.submitted = server.submitted
           /\ IsServer(server') /\ Answers(server.arg, TRUE) /\ UNCHANGED file
  <2>1. server.arg \in Dossier /\ server.submitted /\ Settled(call.schema, server.arg)
    BY <1>8 DEF HandInv, ServedInv, Settled
  <2>2. PlacedInv /\ HasServer /\ call.pc \in {"run", "wait", "judge", "clean"} => file = server.arg
    BY <1>8 DEF PlacedInv
  <2>3. QED
    BY <1>5, <1>8, <2>1, <2>2
<1>9. QED
  BY <1>3, <1>4, <1>6, <1>7, <1>8, ServerAmounts DEF HandInv

\* The call picks up what was accepted, and keeps it to the end.
LEMMA CallKeeps ==
  ASSUME RunInv, CallInv, HandInv, Next, CallSteps
  PROVE  HandInv'
<1>a. RunnerActs \/ UNCHANGED runnerVars
  BY RunnerActsOnly
<1>n. PICK n \in Nat : n = Len(replies)
  BY DEF HandInv, ServedInv
<1>1. CASE Choose
  <2>1. /\ call.pc = "select" /\ UNCHANGED <<server, file, replies>>
        /\ server.pc = "down" /\ replies = <<>> /\ call.heard = 0 /\ call.agent = "none"
    BY <1>1 DEF Choose, serverVars, HandInv, ServedInv, CallInv
  <2>2. /\ call'.pc \in {"run", "over"} /\ call'.heard = 0
    <3>1. CASE \E o : IsOutcome(o) /\ o.kind = "failed" /\ call' = [call EXCEPT !.pc = "over", !.outcome = o]
      BY <2>1, <3>1 DEF CallInv, IsCall
    <3>2. CASE \E agent : \E schema \in {"review", "harden"} :
                 agent # "none" /\ call' = [call EXCEPT !.pc = "run", !.agent = agent, !.schema = schema]
      BY <2>1, <3>2 DEF CallInv, IsCall
    <3>3. QED
      BY <1>1, <3>1, <3>2, ChooseAmounts
  <2>3. ServedInv'
    BY <2>1, <2>2 DEF HandInv, ServedInv
  <2>4. PlacedInv' /\ HeardInv'
    BY <2>1, <2>2 DEF PlacedInv, HeardInv
  <2>5. QED
    BY <2>3, <2>4 DEF HandInv
<1>2. ASSUME UNCHANGED <<server, replies>>, call'.agent = call.agent, call'.schema = call.schema,
             call'.pc # "select", call'.heard \in 0..n,
             call'.pc \in {"run", "wait", "judge", "clean"} =>
               file' = file /\ call.pc \in {"run", "wait", "judge", "clean"},
             HasServer => \A i \in 1..call'.heard : replies[i].accepted => Decides(i)'
      PROVE  HandInv'
  <2>1. HasServer' = HasServer
    BY <1>2 DEF HasServer
  <2>2. ServedInv'
    BY <1>2 DEF HandInv, ServedInv
  <2>3. PlacedInv'
    BY <1>2, <2>1 DEF HandInv, PlacedInv
  <2>4. HeardInv'
    BY <1>2, <1>n, <2>1 DEF HeardInv
  <2>5. QED
    BY <2>2, <2>3, <2>4 DEF HandInv
<1>h. call.heard \in 0..n /\ (HasServer => \A i \in 1..call.heard : replies[i].accepted => Decides(i))
  BY <1>n DEF HandInv, HeardInv
<1>i. \A i \in 1..call.heard : i \in 1..n
  BY <1>h
<1>3. CASE Invoke
  <2>1. /\ call' = [call EXCEPT !.pc = "wait"] /\ call.pc = "run" /\ UNCHANGED <<server, file, replies>>
    BY <1>3 DEF Invoke, serverVars
  <2>2. /\ call'.pc = "wait" /\ call'.agent = call.agent /\ call'.schema = call.schema
        /\ call'.heard = call.heard
    BY <2>1 DEF CallInv, IsCall
  <2>3. \A i : Decides(i)'
    BY <2>2 DEF Decides
  <2>4. QED
    BY <1>2, <1>h, <2>1, <2>2, <2>3
<1>4. CASE ReadResponse
  <2>1. /\ call.pc = "wait" /\ UNCHANGED <<server, file, replies>>
    BY <1>4 DEF ReadResponse, serverVars
  <2>2. HasServer => \A i \in 1..n : replies[i].accepted =>
          file = replies[i].packet /\ Settled(call.schema, file) /\ HasSubmission
    BY <1>n, <2>1 DEF HandInv, PlacedInv, ServedInv, Settled, HasSubmission
  <2>3. CASE HasServer /\ HasSubmission /\ call' = [call EXCEPT !.pc = "judge", !.text = <<file>>]
    <3>1. PICK text : text = <<file>>
      OBVIOUS
    <3>2. call' = [call EXCEPT !.pc = "judge", !.text = text]
      BY <2>3, <3>1
    <3>3. /\ call'.pc = "judge" /\ call'.agent = call.agent /\ call'.schema = call.schema
          /\ call'.heard = call.heard /\ call'.text = text
      BY <3>2 DEF CallInv, IsCall
    <3>4. \A i \in 1..call.heard : replies[i].accepted => Decides(i)'
      BY <1>i, <2>1, <2>2, <2>3, <3>1, <3>3 DEF Decides
    <3>5. QED
      BY <1>2, <1>h, <2>1, <3>3, <3>4
  <2>4. CASE ~HasServer /\ \E text : call' = [call EXCEPT !.pc = "judge", !.text = text]
    <3>1. /\ call'.pc = "judge" /\ call'.agent = call.agent /\ call'.schema = call.schema
          /\ call'.heard = call.heard
      BY <2>4 DEF CallInv, IsCall
    <3>2. QED
      BY <1>2, <1>h, <2>1, <2>4, <3>1
  <2>5. CASE HasServer /\ \E o : /\ IsOutcome(o) /\ o.kind = "failed" /\ (o.unread \/ ~HasSubmission)
                                 /\ call' = [call EXCEPT !.pc = "clean", !.outcome = o]
    <3>1. PICK o : (o.unread \/ ~HasSubmission) /\ call' = [call EXCEPT !.pc = "clean", !.outcome = o]
      BY <2>5
    <3>2. /\ call'.pc = "clean" /\ call'.agent = call.agent /\ call'.schema = call.schema
          /\ call'.heard = call.heard /\ call'.outcome = o
      BY <3>1 DEF CallInv, IsCall
    <3>3. \A i \in 1..call.heard : replies[i].accepted => Decides(i)'
      BY <1>i, <2>2, <2>5, <3>1, <3>2 DEF Decides
    <3>4. QED
      BY <1>2, <1>h, <2>1, <3>2, <3>3
  <2>6. QED
    BY <1>4, <2>3, <2>4, <2>5, ReadAmounts
<1>5. CASE Judge
  <2>1. PICK o : o = IF call.pc = "judge"
                       THEN DossierFromProviderResult(runner.result, call.text, call.schema) ELSE call.outcome
    OBVIOUS
  <2>2. /\ call' = [call EXCEPT !.pc = "report", !.outcome = o] /\ call.pc \in {"judge", "clean"}
        /\ UNCHANGED <<runnerVars, server, replies>>
    BY <1>5, <2>1, Zenon DEF Judge
  <2>3. /\ call'.pc = "report" /\ call'.agent = call.agent /\ call'.schema = call.schema
        /\ call'.heard = call.heard /\ call'.outcome = o /\ runner' = runner /\ child' = child
    BY <2>2 DEF CallInv, IsCall, runnerVars
  <2>4. ASSUME HasServer, NEW i \in 1..call.heard, replies[i].accepted
        PROVE  Decides(i)'
    <3>1. Decides(i) /\ i \in 1..n /\ Settled(call.schema, replies[i].packet)
      BY <1>h, <1>i, <1>n, <2>4 DEF HandInv, ServedInv
    <3>2. CASE call.pc = "clean"
      BY <2>1, <2>3, <3>1, <3>2 DEF Decides
    <3>3. CASE call.pc = "judge" /\ runner.result.err = "" /\ child.exit = 0
      <4>1. PICK result, text, schema : result = runner.result /\ text = call.text /\ schema = call.schema
        OBVIOUS
      <4>2. o = DossierFromProviderResult(result, text, schema)
        BY <2>1, <3>3, <4>1
      <4>3. result.err = "" /\ result.exit = 0
        BY <3>3, <4>1 DEF RunInv, CallInv, RunnerDone
      <4>4. Parse(schema, text) = replies[i].packet /\ Parse(schema, text) # NoPacket
        BY <3>1, <3>3, <4>1 DEF Decides, Settled
      <4>5. o.dossier = replies[i].packet
        BY <4>2, <4>3, <4>4, Judged
      <4>6. QED
        BY <2>2, <2>3, <4>5 DEF Decides
    <3>4. CASE call.pc = "judge" /\ ~(runner.result.err = "" /\ child.exit = 0)
      BY <2>3, <3>4 DEF Decides
    <3>5. QED
      BY <2>2, <3>2, <3>3, <3>4
  <2>5. QED
    BY <1>2, <1>h, <2>2, <2>3, <2>4
<1>6. CASE Report
  <2>1. PICK o : /\ o.dossier = call.outcome.dossier /\ o.unread = call.outcome.unread
                 /\ call' = [call EXCEPT !.pc = "over", !.outcome = o]
    BY <1>6, ReportAmounts
  <2>2. call.pc = "report" /\ UNCHANGED <<runnerVars, server, file, replies>>
    BY <1>6 DEF Report, serverVars
  <2>3. /\ call'.pc = "over" /\ call'.agent = call.agent /\ call'.schema = call.schema
        /\ call'.heard = call.heard /\ call'.outcome = o /\ runner' = runner /\ child' = child
    BY <2>1, <2>2 DEF CallInv, IsCall, runnerVars
  <2>4. HasServer => \A i \in 1..call.heard : replies[i].accepted => Decides(i)'
    BY <1>h, <2>1, <2>2, <2>3 DEF Decides
  <2>5. QED
    BY <1>2, <1>h, <2>2, <2>3, <2>4
<1>7. CASE \E code \in ExitCodes : ProviderExits(code)
  <2>1. /\ child.state = "running" /\ call' = [call EXCEPT !.heard = Len(replies)]
        /\ UNCHANGED <<server, file, replies>>
    BY <1>7 DEF ProviderExits, Exits, serverVars
  <2>2. runner.pc \notin {"idle", "returned"}
    BY <2>1 DEF RunInv
  <2>3. call.pc = "wait" \/ (call.pc = "over" /\ call.agent = "none")
    BY <2>2 DEF CallInv, RunnerDone
  <2>4. call' = [call EXCEPT !.heard = n]
    BY <1>n, <2>1
  <2>5. /\ call'.pc = call.pc /\ call'.agent = call.agent /\ call'.schema = call.schema
        /\ call'.heard = n
    BY <2>4 DEF CallInv, IsCall
  <2>6. HasServer => \A i : Decides(i)'
    BY <2>3, <2>5 DEF Decides, HasServer
  <2>7. QED
    BY <1>2, <2>1, <2>3, <2>5, <2>6
<1>8. CASE InvokeLocal
  <2>1. /\ \E text : call' = [call EXCEPT !.pc = "judge", !.text = text]
        /\ call.pc = "run" /\ call.agent = "local" /\ UNCHANGED <<server, file, replies>>
    BY <1>8, Zenon DEF InvokeLocal, serverVars
  <2>2. /\ call'.pc = "judge" /\ call'.agent = call.agent /\ call'.schema = call.schema
        /\ call'.heard = call.heard
    BY <2>1 DEF CallInv, IsCall
  <2>3. ~HasServer
    BY <2>1 DEF HasServer
  <2>4. QED
    BY <1>2, <1>h, <2>1, <2>2, <2>3
<1>9. QED
  BY <1>1, <1>3, <1>4, <1>5, <1>6, <1>7, <1>8 DEF CallSteps

\* The file and the call keep what was accepted, whatever is done.
LEMMA HandInvKeeps ==
  ASSUME RunInv, CallInv, HandInv, Next
  PROVE  HandInv'
<1>1. CASE CallSteps
  BY <1>1, CallKeeps
<1>2. CASE ProviderCallsTool \/ ServerWorks \/ ServerStops
  BY <1>2, ServerKeeps
<1>3. ASSUME UNCHANGED <<server, replies, call>>, UNCHANGED file \/ ~HasServer
      PROVE  HandInv'
  <2>1. HasServer' = HasServer
    BY <1>3 DEF HasServer
  <2>2. ServedInv'
    BY <1>3 DEF HandInv, ServedInv
  <2>3. PlacedInv'
    BY <1>3, <2>1 DEF HandInv, PlacedInv
  <2>4. call.pc = "over" /\ HasServer => call.agent # "none"
    BY DEF HasServer
  <2>5. HasServer /\ call.pc \in {"report", "over"} =>
          runner' = runner /\ child'.exit = child.exit
    <3> SUFFICES ASSUME HasServer, call.pc \in {"report", "over"}
                 PROVE  runner' = runner /\ child'.exit = child.exit
      OBVIOUS
    <3>1. runner.pc = "returned"
      BY <2>4 DEF CallInv, RunnerDone, HasServer
    <3>2. QED
      BY <3>1, RunnerActsOnly, ReturnedStays
  <2>6. HeardInv'
    BY <1>3, <2>1, <2>5 DEF HandInv, HeardInv, Decides
  <2>7. QED
    BY <2>2, <2>3, <2>6 DEF HandInv
<1>4. CASE CodexWrites
  <2>1. ~HasServer /\ UNCHANGED <<server, replies, call>>
    BY <1>4 DEF CodexWrites, HasServer
  <2>2. QED
    BY <1>3, <2>1
<1>5. CASE Runs \/ ProviderPrints \/ ProviderForks \/ DescendantEnds \/ OperatorInterrupts \/ Over
  <2>1. UNCHANGED <<server, file, replies, call>>
    BY <1>5 DEF Runs, ProviderPrints, ProviderForks, DescendantEnds, OperatorInterrupts, Over, vars, serverVars
  <2>2. QED
    BY <1>3, <2>1
<1>6. QED
  BY <1>1, <1>2, <1>4, <1>5 DEF Next, CallSteps

CallIInv == Captured /\ RunInv /\ CallInv /\ EarnedInv /\ HandInv

LEMMA CallStarts == Init => CallIInv
<1> SUFFICES ASSUME Init PROVE CallIInv
  OBVIOUS
<1>1. PICK o : o = NoOutcome
  OBVIOUS
<1>2. IsOutcome(o) /\ o.kind = "none"
  BY <1>1, Outcomes, Zenon
<1>3. call = [pc |-> "select", agent |-> "none", schema |-> "review", heard |-> 0,
              text |-> <<>>, outcome |-> o]
  BY <1>1, Zenon DEF Init
<1>4. /\ IsCall(call) /\ call.pc = "select" /\ call.agent = "none" /\ call.schema = "review"
      /\ call.heard = 0 /\ call.outcome.kind = "none"
  BY <1>2, <1>3 DEF IsCall
<1>5. PICK no \in BOOLEAN : server = [pc |-> "down", arg |-> NoPacket, submitted |-> no] /\ ~no
  BY Zenon DEF Init, ServerInit
<1>6. /\ IsServer(server) /\ server.pc = "down" /\ server.submitted \in BOOLEAN /\ replies = <<>>
  BY <1>5 DEF IsServer, Init, ServerInit
<1>7. runner.pc = "idle"
  <2>1. PICK result : runner = [pc |-> "idle", left |-> Timeout, idle |-> 0, grace |-> Grace, why |-> "", result |-> result]
    BY Zenon DEF Init, RunnerInit
  <2>2. QED
    BY <2>1
<1>8. CallInv /\ EarnedInv
  BY <1>4, <1>7 DEF CallInv, EarnedInv
<1>9. HandInv
  BY <1>4, <1>6 DEF HandInv, ServedInv, PlacedInv, HeardInv, HasServer
<1>10. QED
  BY <1>8, <1>9, RunnerStarts DEF CallIInv

LEMMA CallInductive == Spec => []CallIInv
<1>1. CallIInv /\ [Next]_vars => CallIInv'
  <2> SUFFICES ASSUME CallIInv, [Next]_vars PROVE CallIInv'
    OBVIOUS
  <2>1. CASE Next
    BY <2>1, RunnerActsOnly, CapturedKeeps, RunInvKeeps, CallInvKeeps, EarnedKeeps, HandInvKeeps DEF CallIInv
  <2>2. CASE UNCHANGED vars
    <3>1. UNCHANGED runnerVars /\ UNCHANGED <<runner, child, server, file, replies, call>>
      BY <2>2 DEF vars, runnerVars, serverVars
    <3>2. Captured' /\ RunInv'
      BY <3>1, CapturedKeeps, RunInvKeeps DEF CallIInv
    <3>3. CallInv' /\ EarnedInv'
      BY <3>1 DEF CallIInv, CallInv, EarnedInv, RunnerDone
    <3>4. HandInv'
      BY <3>1 DEF CallIInv, HandInv, ServedInv, PlacedInv, HeardInv, Decides, HasServer
    <3>5. QED
      BY <3>2, <3>3, <3>4 DEF CallIInv
  <2>3. QED
    BY <2>1, <2>2
<1>2. QED
  BY <1>1, CallStarts, PTL DEF Spec

\* A verdict is earned (VerdictIsEarned): for any provider, any timing and any
\* output, a dossier comes from a process that was not stopped and whose exit
\* code fits it, it is valid, and a pass hides no blocker.
THEOREM VerdictsAreEarned == Spec => []VerdictIsEarned
<1>1. CallIInv => VerdictIsEarned
  <2> SUFFICES ASSUME CallIInv, call.outcome.kind = "dossier", NEW d, d = call.outcome.dossier
               PROVE  /\ ~child.termed
                      /\ child.exit # 0 => Refuses(call.schema, d)
                      /\ IF call.schema = "review"
                           THEN ValidReview(d) /\ (d.verdict = "pass" => \A i \in DOMAIN d.findings :
                                  d.findings[i].blocks => d.findings[i].status \in Resolved)
                           ELSE ValidHarden(d)
    BY Zenon DEF VerdictIsEarned
  <2>1. Earned(call.schema, d, child)
    BY DEF CallIInv, EarnedInv
  <2>2. ASSUME ValidReview(d), d.verdict = "pass", NEW i \in DOMAIN d.findings, d.findings[i].blocks
        PROVE  d.findings[i].status \in Resolved
    <3>1. VerdictFromFindings(d.findings) # "fail"
      BY <2>2 DEF ValidReview
    <3>2. ~BlocksCompletion(d.findings[i])
      BY <3>1 DEF VerdictFromFindings
    <3>3. QED
      BY <2>2, <3>2 DEF BlocksCompletion
  <2>3. QED
    BY <2>1, <2>2 DEF Earned
<1>2. QED
  BY <1>1, CallInductive, PTL

\* An acknowledged submission decides (HeardSubmissionDecides): if the provider
\* was told that its submission is accepted and then ended well, the call ends
\* with that submission, whatever the server does later and whenever it is killed.
THEOREM HeardSubmissionsDecide == Spec => []HeardSubmissionDecides
<1>1. CallIInv => HeardSubmissionDecides
  <2> SUFFICES ASSUME CallIInv, call.outcome.kind # "none", HasServer, runner.result.err = "", child.exit = 0,
                      NEW i \in 1..call.heard, replies[i].accepted
               PROVE  call.outcome.unread \/ call.outcome.dossier = replies[i].packet
    BY DEF HeardSubmissionDecides
  <2>1. Decides(i)
    BY DEF CallIInv, HandInv, HeardInv
  <2>2. call.pc \in {"clean", "report", "over"}
    BY DEF CallIInv, CallInv
  <2>3. QED
    BY <2>1, <2>2 DEF Decides
<1>2. QED
  BY <1>1, CallInductive, PTL
=============================================================================
