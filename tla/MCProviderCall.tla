--------------------------- MODULE MCProviderCall ---------------------------
(***************************************************************************)
(* Values for model checking ProviderCall.                                  *)
(***************************************************************************)
EXTENDS ProviderCall, TLC

Finding(blocks, status) == [blocks |-> blocks, status |-> status, grounded |-> TRUE]
Review(verdict, findings) == [verdict |-> verdict, summary |-> TRUE, attacks |-> 1, findings |-> findings]

\* A clean pass, a refusal whose verdict is derived, a pass that hides a blocker.
ReviewRaw == {
  Review("pass", <<>>),
  Review("", <<Finding(TRUE, "")>>),
  Review("pass", <<Finding(TRUE, "open")>>)}

Observed == <<"design", "scope", "path", "command", "timing", "rollback">>
Harden(decision, result) ==
  [summary |-> TRUE, decision |-> decision, edits |-> 0,
   observations |-> [i \in 1..6 |-> [dimension |-> Observed[i], result |-> IF i = 1 THEN result ELSE "clean",
                                     grounded |-> TRUE, status |-> ""]]]
HardenRaw == { Harden("keep", "blocks") }

MCRaw == [review |-> ReviewRaw, harden |-> HardenRaw]
MCChunks == { Review("pass", <<>>), Noise }

Request(schema, provider, command, declared, markers, available) ==
  [schema |-> schema, provider |-> provider, command |-> command, declared |-> declared,
   markers |-> markers, fallback |-> "disable", available |-> available]

\* The other of two installed providers, whatever says who the host is; a host
\* of its own challenger; an explicit provider; a command; the local provider.
MCRequests == {
  Request("review", "auto", FALSE, "undeclared", <<"claude">>, {"claude", "codex"}),
  Request("review", "", FALSE, "codex", <<"claude">>, {"claude", "codex"}),
  Request("harden", "gemini", FALSE, "", <<>>, {}),
  Request("review", "", TRUE, "undeclared", <<>>, {}),
  Request("review", "auto", FALSE, "claude", <<>>, {"claude"}),
  Request("review", "local", FALSE, "undeclared", <<>>, {}),
  Request("harden", "local", FALSE, "undeclared", <<>>, {})}
MCOutputs == ("command" :> 2) @@ ("codex" :> 1) @@ ("claude" :> 0) @@ ("gemini" :> 1) @@ ("local" :> 0)
MCExitCodes == {-1, 0}
=============================================================================
