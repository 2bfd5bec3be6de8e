----------------------------- MODULE MCReceipts -----------------------------
(***************************************************************************)
(* A repository of one commit with a source file, a file the task may add, *)
(* an ignored file, a file outside the scope and the spec.                 *)
(***************************************************************************)
EXTENDS Receipts, TLC

CONSTANTS claude, codex, src, new, gen, out, spc, b1, b2

MCPaths    == {src, new, gen, out, spc}
MCOutputs  == {<<gen, b1>>, <<src, b2>>, <<out, b1>>}

\* a directory with two files, and the source file by its name; "."
MCScopes   == {{src, new, gen}, MCPaths}
MCHints    == {MCPaths}
MCAlone    == [s \in MCScopes |-> IF s = MCPaths THEN {} ELSE {src}]

\* Any two files are similar enough to be one renaming; identical ones come first.
MCDetected(was, set) ==
    LET left == {p \in MCPaths : was[p] # Gone /\ set[p] = Gone}
        came == {p \in MCPaths : was[p] = Gone /\ set[p] # Gone}
        Apart(ps) == \A r, q \in ps : r[1] = q[1] \/ r[2] = q[2] => r = q
        Same(ps)  == {r \in ps : set[r[2]] = was[r[1]]}
        Worth(ps) == 10 * Cardinality(Same(ps)) + Cardinality(ps)
    IN  IF left = {} \/ came = {} THEN {}
        ELSE CHOOSE ps \in SUBSET (left \X came) :
                Apart(ps) /\ \A qs \in SUBSET (left \X came) : Apart(qs) => Worth(qs) <= Worth(ps)

First == [p \in MCPaths |-> IF p \in {src, out, spc} THEN b1 ELSE Gone]
Other == [First EXCEPT ![src] = Gone, ![new] = b1, ![out] = Gone]
Moved == [Other EXCEPT ![new] = Gone, ![src] = b2]

\* the task has added a file, or has moved one and edited it with the criterion's
\* file still to write, and left an ignored file behind; or nothing is committed yet
MCRepositories ==
    {[commits |-> <<[tree |-> First, parent |-> 0]>>, head |-> 1, index |-> First,
      work |-> [First EXCEPT ![new] = b1, ![gen] = b1], flags |-> {}],
     [commits |-> <<[tree |-> Other, parent |-> 0]>>, head |-> 1, index |-> Moved,
      work |-> [Moved EXCEPT ![gen] = b1], flags |-> {}],
     [commits |-> << >>, head |-> 0, index |-> Bare,
      work |-> [First EXCEPT ![out] = Gone], flags |-> {}]}

Vendor == Permutations(Vendors)
=============================================================================
