----------------------------- MODULE EvidenceLog -----------------------------
(***************************************************************************)
(* What the session store promises the commands of scafld, without locks,  *)
(* files or processes: a log that grows by whole appends, of which a power *)
(* failure can take back only what nobody was told is recorded.            *)
(***************************************************************************)
EXTENDS Naturals, Sequences

CONSTANT Entries  \* what can be recorded

VARIABLES
  log,     \* the entries a reader sees
  stable,  \* how many of them survive anything
  acked    \* the entries whose writer was told they are recorded

logVars == <<log, stable, acked>>

Init ==
  /\ log \in Seq(Entries)
  /\ stable = Len(log)
  /\ acked = {}

\* The entries of one call become visible together, after all others.
Record ==
  /\ Len(log') >= Len(log)
  /\ log' \in Seq(Entries)
  /\ SubSeq(log', 1, Len(log)) = log
  /\ UNCHANGED <<stable, acked>>

\* Everything visible is durable.
Persist ==
  /\ stable' = Len(log)
  /\ UNCHANGED <<log, acked>>

\* A writer learns that durable entries are recorded.
Acknowledge ==
  /\ acked \subseteq acked'
  /\ \A e \in acked' \ acked : \E i \in 1..stable : log[i] = e
  /\ UNCHANGED <<log, stable>>

\* A power failure takes back some of the entries that are not durable.
Forget ==
  /\ stable' \in stable..Len(log)
  /\ log' = SubSeq(log, 1, stable')
  /\ UNCHANGED acked

Next == Record \/ Persist \/ Acknowledge \/ Forget

Spec == Init /\ [][Next]_logVars
=============================================================================
