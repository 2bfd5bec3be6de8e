--------------------------- MODULE MCBuildPhases ---------------------------
(***************************************************************************)
(* Values for model checking BuildPhases.                                  *)
(***************************************************************************)
EXTENDS BuildPhases

CONSTANTS b1, b2, p1, p2, k1, k2, test, lint

\* One phase, for a person to verify, then the task's own command.
Short ==
  [phases |-> <<p1>>,
   criteria |-> [x \in {p1, p2, Final} |->
     CASE x = p1    -> <<[id |-> k1, kind |-> "manual", command |-> NoCommand]>>
       [] x = p2    -> << >>
       [] x = Final -> <<[id |-> k2, kind |-> "exit_code_zero", command |-> test]>>]]

\* The edit makes the first criterion a command, and the task's own criterion
\* that of a second phase.
Longer ==
  [phases |-> <<p1, p2>>,
   criteria |-> [x \in {p1, p2, Final} |->
     CASE x = p1    -> <<[id |-> k1, kind |-> "no_matches", command |-> lint]>>
       [] x = p2    -> Short.criteria[Final]
       [] x = Final -> << >>]]

MCShort == {Short, Longer}
MCBoth == {b1, b2}
=============================================================================
