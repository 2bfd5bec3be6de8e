\* Two commands over one spec, one act of the operator, one fault or crash.
SPECIFICATION Spec
CONSTANTS
  p1 = p1
  p2 = p2
  Procs = {p1, p2}
  Absent = Absent
  Scenarios <- MCScenarios
  MaxEdits <- MCMaxEdits
  MaxFaults = 1
  MaxActs = 1
SYMMETRY Swaps
INVARIANTS TypeOK SpecSurvives PassCoversDraft NoStackedRounds OverrideIsLogged NotesSurvive RoundsAreClosed
