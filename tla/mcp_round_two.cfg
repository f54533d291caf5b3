CONSTANTS
  Client = {c1, c2}
  Id = {s1}
  Max = 2
  IterBound = 3
  Answering = {{"cardiologist", "neurologist"}}
  Absent = Absent
  Torn = Torn
  Idle = Idle
SPECIFICATION Spec
CHECK_DEADLOCK FALSE
INVARIANT ReviewsHaveInput
