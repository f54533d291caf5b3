CONSTANTS
  p1 = p1
  p2 = p2
  p3 = p3
  Process = {p1, p2, p3}
  None = None
  Cadence = 1
  MaxChains = 3
  MaxAnswers = 2
  MaxPrefs = 1
  Full = {5, 11, 20}
  Earlier <- Near
  MaxRows = 3
  Torn = Torn
  MaxLearnings = 3
  MaxCommands = 4
SPECIFICATION AnySpec
SYMMETRY Alike
INVARIANTS
  TypesOK
  CountsKept
  LocksExclude
  HistoryExplains
  MigrationSound
CHECK_DEADLOCK FALSE
