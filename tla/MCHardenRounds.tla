--------------------------- MODULE MCHardenRounds ---------------------------
(***************************************************************************)
(* Values for model checking HardenRounds.                                  *)
(***************************************************************************)
EXTENDS HardenRounds, TLC

CONSTANTS p1, p2

Draft(harden) == [NewDraft(0) EXCEPT !.harden = harden]
In(dir, doc) == [d \in ToSet(Dirs) |-> IF d = dir THEN doc ELSE Absent]

\* A fresh draft, one an older version hardened, one with a round the operator
\* is working on, and an approved spec.
Fresh == In("drafts", Draft("not_run"))
Legacy == In("drafts", Draft("passed"))
Opened == In("drafts", [WithRound(Draft("not_run"), "operator", 0) EXCEPT !.rounds[1].obs = "ok"])
Ready == In("approved", [Draft("not_run") EXCEPT !.status = "approved"])

\* Two commands, in one second or in two, and which process runs which.
Run(a, b, now) == { (p1 :> [kind |-> a, now |-> 1]) @@ (p2 :> [kind |-> b, now |-> now]),
                    (p2 :> [kind |-> a, now |-> 1]) @@ (p1 :> [kind |-> b, now |-> now]) }
On(dirs, runs) == [commands : UNION runs, files : dirs]

MCScenarios ==
  On({Fresh}, { Run("provider", b, 1) : b \in {"provider", "repair", "mark", "approve_reason"} })
  \cup On({Fresh}, { Run("provider", b, 2) : b \in {"mark", "approve_reason"} })
  \cup On({Fresh, Legacy, Opened}, { Run("manual", b, 2) : b \in {"approve", "mark", "approve_reason"} })
  \cup On({Fresh, Ready}, { Run(a, "archive", 2) : a \in {"plan", "approve"} } \cup { Run("plan", "approve_reason", 2) })
  \cup On({Fresh, Ready}, { Run(a, a, 2) : a \in {"approve", "archive"} })
MCMaxEdits == [contract |-> 1, notes |-> 1, filled |-> 1]
Swaps == Permutations(Procs)
=============================================================================
