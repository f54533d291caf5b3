CONSTANTS
  None = None
  Changes = 1
  Moves = 1
  Lists <- TheLists
  Marks <- TheMarks
  Requests <- TheRequests
  r1 = r1
  r2 = r2
  r3 = r3
  Request = {r1, r2, r3}
  Tool <- Tools
  Stamps <- Instants
  Calls = 1
  Window = 2
  MaxTime = 3
  s1 = s1
  s2 = s2
  Stream = {s1, s2}
  Patterns <- ThePatterns
  Onces <- Prefixes
  BufferSize = 2
  MaxEvents = 2
  MaxLines = 2
  MaxLost = 1
  c1 = c1
  c2 = c2
  c3 = c3
  Client = {c1, c2, c3}
  MaxConnections = 1
  MaxSends = 2
  Segment <- Segments
  Presets <- ThePresets
  Overrides <- TheOverrides
  Needs <- TheNeeds
  File = {"f", "g"}
  PathLists <- Named
  Budgets <- TheBudgets
  Sizes <- TheSizes
  ChunkSize = 4
  Overlap = 2
SPECIFICATION AnySpec
SYMMETRY Alike
INVARIANTS
  TypesOK
  VerdictBacked
  PickSound
  LimitsKept
  NothingLost
CHECK_DEADLOCK FALSE
