CONSTANTS
  c1 = c1
  c2 = c2
  s1 = s1
  Client = {c1, c2}
  Id = {s1}
  Max = 3
  IterBound = 4
  Answering <- Anyone
  Idle = Idle
  single = single
  iterative = iterative
  continuous = continuous
  Mode = {single, iterative, continuous}
  SingleMode = single
  MaxOf <- Limits
  LiveMax = 5
  Absent = Absent
  Torn = Torn
SPECIFICATION AnySpec
CHECK_DEADLOCK FALSE
INVARIANTS
  TypesOK
  SessionsComplete
  OutcomeHonest
PROPERTIES
  ReviewsEnd
  ImplementRounds
