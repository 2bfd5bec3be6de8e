--------------------------- MODULE MCTaskCommands ---------------------------
(***************************************************************************)
(* Values for model checking TaskCommands.                                 *)
(***************************************************************************)
EXTENDS TaskStatus, TLC

CONSTANTS x, y, z

MCCommands == {x, y, z}
MCPair == {x, y}
MCSymmetry == Permutations(MCCommands)

\* "reworded" is "first" in other prose; "retested" declares another
\* acceptance criterion.
MCCriterionOf == ("first" :> "k1") @@ ("reworded" :> "k1") @@ ("retested" :> "k2")

\* Where the task starts from.
MCBuilt      == {Built}
MCUnreviewed == {Built, Reviewed("fail")}
MCReviewed   == {Reviewed("pass"), Reviewed("fail")}
MCAll        == {Drafted, Built, Reviewed("pass"), Reviewed("fail")}
=============================================================================
