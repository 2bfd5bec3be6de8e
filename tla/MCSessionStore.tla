--------------------------- MODULE MCSessionStore ---------------------------
(* Instances of SessionStore for TLC: two goroutines of one scafld process  *)
(* and one of another, with at most MaxCalls appends each.                  *)
EXTENDS SessionStore

CONSTANTS a1, a2, b1, p, q

MCProcess == [c \in Callers |-> IF c = b1 THEN q ELSE p]

MCTags == (Callers \X (1..MaxCalls)) \cup {OldTag}

\* The receipt of a1's first call may lose its trust.
MCRevocable == {<<a1, 1>>}
=============================================================================
