--------------------------- MODULE ProcessRunner ---------------------------
(***************************************************************************)
(* process.Runner: one child process with its watchdogs.  The runner starts *)
(* the child in a process group of its own, two pumps move its output into  *)
(* a bounded capture, and a select waits for the first of: the process is   *)
(* reaped, the context is cancelled, the absolute timer, the idle ticker.   *)
(* A stopped child gets SIGTERM, a grace period, and SIGKILL.               *)
(*                                                                          *)
(* The two output streams are one pipe here: both must end before the       *)
(* process is reaped, and both count as activity.                           *)
(***************************************************************************)
EXTENDS Integers, Sequences, SequencesExt

CONSTANTS
  Chunks,       \* what the child can print in one write
  Timeout,      \* execution.Request.Timeout, in ticks
  IdleTimeout,  \* the idle timeout of a request that has one, in ticks
  Grace,        \* TerminateGrace, in ticks
  MaxCapture,   \* how many chunks a sliding buffer keeps
  MaxOutput     \* bound on the writes of one child

ASSUME RunnerAssumption ==
  /\ {Timeout, IdleTimeout, Grace, MaxCapture} \subseteq Nat \ {0}
  /\ MaxOutput \in Nat

VARIABLES
  ctx,       \* the root context: "live" or "cancelled"
  runner,    \* the goroutine in Run and waitProcess
  child,     \* the process, and a descendant that shares its output pipe
  pipe,      \* printed and not yet read by a pump
  capture,   \* the sliding buffer, what it dropped, ticks since the last activity
  printed,   \* everything the child's side ever wrote (history)
  waitCh     \* "pumping", "drained", "reaped" or "taken"

runnerVars == <<ctx, runner, child, pipe, capture, printed, waitCh>>

NoResult == [exit |-> 0, reason |-> "", err |-> "", text |-> <<>>, dropped |-> 0, diagnostic |-> FALSE]

RunnerTypeOK ==
  /\ ctx \in {"live", "cancelled"}
  /\ runner.pc \in {"idle", "waiting", "terminating", "killing", "returned"}
  /\ runner.result.err \in {"", "cancelled", "timeout", "idle", "start", "wait"}
  /\ child.state \in {"none", "running", "exited"}
  /\ child.helper \in {"none", "inside", "outside"}
  /\ Len(capture.kept) <= MaxCapture
  /\ capture.dropped \in 0..MaxOutput
  /\ waitCh \in {"pumping", "drained", "reaped", "taken"}

RunnerInit ==
  /\ ctx = "live"
  /\ runner = [pc |-> "idle", left |-> Timeout, idle |-> 0, grace |-> Grace, why |-> "", result |-> NoResult]
  /\ child = [state |-> "none", exit |-> 0, termed |-> FALSE, killed |-> FALSE, helper |-> "none"]
  /\ pipe = <<>>
  /\ capture = [kept |-> <<>>, dropped |-> 0, silence |-> 0]
  /\ printed = <<>>
  /\ waitCh = "pumping"

Running == runner.pc \in {"waiting", "terminating", "killing"}
PipeHeld == child.state = "running" \/ child.helper # "none"

-----------------------------------------------------------------------------
(* The capture. *)

\* slidingBuffer.Write: keep the newest MaxCapture chunks.
SlidingWrite(buf, c) ==
  LET all == Append(buf.kept, c)
      excess == IF Len(all) > MaxCapture THEN Len(all) - MaxCapture ELSE 0
  IN  [buf EXCEPT !.kept = SubSeq(all, excess + 1, Len(all)), !.dropped = @ + excess]

\* capture.write
CaptureWrite(c) == [SlidingWrite(capture, c) EXCEPT !.silence = 0]

\* One Read of a pump.  A write of the child is one chunk.
Pump ==
  /\ Running
  /\ pipe # <<>>
  /\ capture' = CaptureWrite(Head(pipe))
  /\ pipe' = Tail(pipe)
  /\ UNCHANGED <<ctx, runner, child, printed, waitCh>>

\* Mutant: the goroutine waits for the process before the pumps.
PumpsDoneEarly ==
  /\ Running
  /\ waitCh = "pumping"
  /\ child.state = "exited"
  /\ waitCh' = "drained"
  /\ UNCHANGED <<ctx, runner, child, pipe, capture, printed>>

\* Both pumps have seen the end of file: every process that holds the write
\* end of a pipe has exited.
PumpsDone ==
  /\ Running
  /\ waitCh = "pumping"
  /\ pipe = <<>>
  /\ ~PipeHeld
  /\ waitCh' = "drained"
  /\ UNCHANGED <<ctx, runner, child, pipe, capture, printed>>

\* waitCh <- cmd.Wait()
Reap ==
  /\ waitCh = "drained"
  /\ child.state = "exited"
  /\ waitCh' = "reaped"
  /\ UNCHANGED <<ctx, runner, child, pipe, capture, printed>>

-----------------------------------------------------------------------------
(* The runner. *)

\* Run up to the select of waitProcess.  A done context starts nothing, and a
\* command that cannot be started returns at once.
Start(idle) ==
  /\ runner.pc = "idle"
  /\ \/ /\ ctx = "cancelled"
        /\ runner' = [runner EXCEPT !.pc = "returned",
                        !.result = [NoResult EXCEPT !.exit = -1, !.reason = "cancelled", !.err = "cancelled"]]
        /\ UNCHANGED child
     \/ /\ ctx = "live"
        /\ runner' = [runner EXCEPT !.pc = "returned", !.result = [NoResult EXCEPT !.err = "start"]]
        /\ UNCHANGED child
     \/ /\ ctx = "live"
        /\ child' = [child EXCEPT !.state = "running"]
        /\ runner' = [runner EXCEPT !.pc = "waiting", !.idle = idle]
  /\ UNCHANGED <<ctx, pipe, capture, printed, waitCh>>

\* The snapshot and the diagnostic file after waitProcess; the file may fail.
Returned(reason, err) ==
  \E diagnostic \in BOOLEAN :
    runner' = [runner EXCEPT !.pc = "returned",
                 !.result = [exit |-> child.exit, reason |-> reason, err |-> err,
                             text |-> capture.kept, dropped |-> capture.dropped,
                             diagnostic |-> diagnostic]]

\* case err := <-waitCh.  An exit code is no error (normalizeExit); of a child
\* that ended well, copying its input can still have failed.
Exited ==
  /\ runner.pc = "waiting"
  /\ waitCh = "reaped"
  /\ waitCh' = "taken"
  /\ \E err \in {"", "wait"} : (err = "wait" => child.exit = 0) /\ Returned("", err)
  /\ UNCHANGED <<ctx, child, pipe, capture, printed>>

\* terminate: SIGTERM to the group; the select then waits with a timer.
Terminate(why) ==
  /\ child' = [child EXCEPT !.termed = TRUE]
  /\ runner' = [runner EXCEPT !.pc = "terminating", !.why = why]
  /\ UNCHANGED <<ctx, pipe, capture, printed, waitCh>>

Cancelled == runner.pc = "waiting" /\ ctx = "cancelled" /\ Terminate("cancelled")

TimedOut ==
  /\ runner.pc = "waiting"
  /\ runner.left = 0
  /\ Terminate("absolute_timeout")

\* The ticker: silence is measured from the last read of a pump.
Silent ==
  /\ runner.pc = "waiting"
  /\ runner.idle > 0
  /\ capture.silence > runner.idle
  /\ Terminate("idle_timeout")

ErrOf(why) ==
  CASE why = "cancelled" -> "cancelled"
    [] why = "absolute_timeout" -> "timeout"
    [] OTHER -> "idle"

\* The process went away in the grace period or after the kill.  Nothing
\* bounds this receive.
Stopped ==
  /\ runner.pc \in {"terminating", "killing"}
  /\ waitCh = "reaped"
  /\ waitCh' = "taken"
  /\ Returned(runner.why, ErrOf(runner.why))
  /\ UNCHANGED <<ctx, child, pipe, capture, printed>>

\* Mutant: the group is only asked to stop again.
KillAsks ==
  /\ runner.pc = "terminating"
  /\ runner.grace = 0
  /\ runner' = [runner EXCEPT !.pc = "killing"]
  /\ UNCHANGED <<ctx, child, pipe, capture, printed, waitCh>>

\* SIGKILL to the group: a descendant that left the group does not get it.
Kill ==
  /\ runner.pc = "terminating"
  /\ runner.grace = 0
  /\ runner' = [runner EXCEPT !.pc = "killing"]
  /\ child' = [child EXCEPT !.killed = TRUE]
  /\ UNCHANGED <<ctx, pipe, capture, printed, waitCh>>

-----------------------------------------------------------------------------
(* The world: the child, its descendants, the operator and the clock. *)

Prints(c) ==
  /\ PipeHeld
  /\ ~(child.killed /\ child.helper # "outside")
  /\ Len(printed) < MaxOutput
  /\ pipe' = Append(pipe, c)
  /\ printed' = Append(printed, c)
  /\ UNCHANGED <<ctx, runner, child, capture, waitCh>>

\* A descendant inherits the output and stays in the group or leaves it.
Forks ==
  /\ child.state = "running" /\ ~child.killed
  /\ child.helper = "none"
  /\ \E where \in {"inside", "outside"} : child' = [child EXCEPT !.helper = where]
  /\ UNCHANGED <<ctx, runner, pipe, capture, printed, waitCh>>

HelperEnds ==
  /\ child.helper # "none"
  /\ child' = [child EXCEPT !.helper = "none"]
  /\ UNCHANGED <<ctx, runner, pipe, capture, printed, waitCh>>

\* A child that was killed ends with -1, any other with what it likes.
Exits(code) ==
  /\ child.state = "running"
  /\ child.killed => code = -1
  /\ child' = [child EXCEPT !.state = "exited", !.exit = code]
  /\ UNCHANGED <<ctx, runner, pipe, capture, printed, waitCh>>

\* RootContextWithOptions: the first interrupt cancels the context; the second
\* only adds an escalation that main installs no handler for.
Interrupt ==
  /\ ctx = "live"
  /\ runner.pc \in {"idle", "waiting"}   \* later it changes nothing
  /\ ctx' = "cancelled"
  /\ UNCHANGED <<runner, child, pipe, capture, printed, waitCh>>

\* The timers of waitProcess and terminate run down, silence grows; past the
\* limits time no longer matters.
Tick ==
  /\ Running
  /\ runner' = [runner EXCEPT !.left = IF @ > 0 THEN @ - 1 ELSE @,
                              !.grace = IF runner.pc = "terminating" /\ @ > 0 THEN @ - 1 ELSE @]
  /\ capture' = [capture EXCEPT !.silence = IF @ <= runner.idle THEN @ + 1 ELSE @]
  /\ UNCHANGED <<ctx, child, pipe, printed, waitCh>>

RunnerStep == Pump \/ PumpsDone \/ Reap \/ Exited \/ Cancelled \/ TimedOut \/ Silent \/ Stopped \/ Kill
HelperKilled == child.killed /\ child.helper = "inside" /\ HelperEnds
=============================================================================
