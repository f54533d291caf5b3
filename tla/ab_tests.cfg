CONSTANTS
  c1 = c1
  c2 = c2
  t1 = t1
  t2 = t2
  temperature = temperature
  auth_mode = auth_mode
  keep = keep
  adopt = adopt
  Client = {c1, c2}
  Test = {t1, t2}
  Param = {temperature, auth_mode}
  Forbidden = {auth_mode}
  Verdict = {keep}
  NoTest = NoTest
  Idle = Idle
SPECIFICATION Spec
INVARIANTS
  ForbiddenNeverTested
  IndexSound
  SlotHasRun
PROPERTIES
  TerminalExit
