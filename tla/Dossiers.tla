------------------------------ MODULE Dossiers ------------------------------
(***************************************************************************)
(* What a provider hands in: a ReviewDossier (core/review) or a             *)
(* HardenDossier (core/harden), and how text becomes one.  A text is a      *)
(* sequence of lines; a line is a JSON object in dossier shape or Noise.    *)
(* Required strings are the flags "summary", "named" and "grounded".        *)
(***************************************************************************)
EXTENDS Integers, Sequences, SequencesExt

CONSTANTS Noise, NoPacket

\* The JSON objects in dossier shape, before anything is checked.  A string can
\* be anything; the words that normalising writes are named for the provers,
\* which know nothing of STRING.
Word == STRING \cup {"open", "pass", "fail"}
ReviewFinding == [blocks : BOOLEAN, status : Word, grounded : BOOLEAN]
ReviewDossier == [verdict : Word, summary : BOOLEAN, attacks : Nat, findings : Seq(ReviewFinding)]
HardenObservation == [dimension : Word, result : Word, grounded : BOOLEAN, status : Word]
HardenDossier == [summary : BOOLEAN, decision : Word, edits : Nat, observations : Seq(HardenObservation)]
Dossier == ReviewDossier \cup HardenDossier

Resolved == {"fixed", "accepted_risk", "superseded"}
Dimensions == {"design", "scope", "path", "command", "timing", "rollback"}

\* Finding.BlocksCompletion: a status nobody knows still blocks.
BlocksCompletion(f) == f.blocks /\ f.status \notin Resolved

VerdictFromFindings(fs) == IF \E i \in DOMAIN fs : BlocksCompletion(fs[i]) THEN "fail" ELSE "pass"

\* NormalizeDossier: a missing status is open, a missing verdict is derived.
NormalizeReview(d) ==
  LET fs == [i \in DOMAIN d.findings |->
               IF d.findings[i].status = "" THEN [d.findings[i] EXCEPT !.status = "open"] ELSE d.findings[i]]
  IN  [d EXCEPT !.findings = fs,
         !.verdict = IF @ = "" /\ fs # <<>> THEN VerdictFromFindings(fs) ELSE @]

ValidFinding(f) ==
  /\ f.status \in {"open"} \cup Resolved
  /\ BlocksCompletion(f) => f.grounded

\* validateDossier of the review command: shape, and a verdict that follows
\* from the findings.
ValidReview(d) ==
  /\ d.verdict \in {"pass", "fail"}
  /\ d.summary
  /\ d.attacks > 0
  /\ \A i \in DOMAIN d.findings : ValidFinding(d.findings[i])
  /\ d.verdict = VerdictFromFindings(d.findings)

\* ObservationBlocksApproval
BlocksApproval(o) == o.result = "blocks" /\ o.status \notin Resolved

NormalizeHarden(d) ==
  [d EXCEPT !.observations =
     [i \in DOMAIN d.observations |->
        IF d.observations[i].result = "blocks" /\ d.observations[i].status = ""
          THEN [d.observations[i] EXCEPT !.status = "open"] ELSE d.observations[i]]]

MissingDimensions(os) == Dimensions \ {os[i].dimension : i \in DOMAIN os}

\* ValidateDossier of the harden command.
ValidHarden(d) ==
  /\ d.summary
  /\ d.decision \in {"keep", "shrink", "reframe", "reject"}
  /\ d.observations # <<>>
  /\ \A i \in DOMAIN d.observations :
       /\ d.observations[i].dimension \in Dimensions
       /\ d.observations[i].result \in {"clean", "advisory", "blocks", "n/a"}
       /\ d.observations[i].grounded
       /\ d.observations[i].status \in {"", "open"} \cup Resolved
  /\ MissingDimensions(d.observations) = {}

ShapeRequiresRevision(d) == d.decision # "keep" \/ d.edits > 0

\* VerdictFromDossier
HardenVerdict(d) ==
  IF \/ ShapeRequiresRevision(d)
     \/ MissingDimensions(d.observations) # {}
     \/ \E i \in DOMAIN d.observations : BlocksApproval(d.observations[i])
    THEN "needs_revision" ELSE "pass"

-----------------------------------------------------------------------------
\* decodeDossierText and decodeNDJSON: every line is a frame, and the last
\* dossier counts.
DecodeReview(lines) ==
  IF lines = <<>> \/ Noise \in ToSet(lines) THEN NoPacket ELSE NormalizeReview(Last(lines))

\* ParseText of the review command.
ParseReview(lines) ==
  LET d == DecodeReview(lines) IN IF d # NoPacket /\ ValidReview(d) THEN d ELSE NoPacket

\* ParseText of the harden command takes one JSON value.
ParseHarden(lines) ==
  IF Len(lines) # 1 \/ Noise \in ToSet(lines) THEN NoPacket
  ELSE LET d == NormalizeHarden(lines[1]) IN IF ValidHarden(d) THEN d ELSE NoPacket

Parse(schema, lines) == IF schema = "review" THEN ParseReview(lines) ELSE ParseHarden(lines)

\* The verdict with which a provider may also exit non-zero.
Refuses(schema, d) == IF schema = "review" THEN d.verdict = "fail" ELSE HardenVerdict(d) = "needs_revision"
=============================================================================
