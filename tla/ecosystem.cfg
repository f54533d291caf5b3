CONSTANTS
  s1 = s1
  d1 = d1
  b1 = b1
  b2 = b2
  Server = {s1}
  Doctor = {d1}
  FirstConfig <- Users
  Serial = TRUE
  Mortal = {s1}
  MaxKills = 2
  MaxFaults = 1
  Missing = Missing
  Cap = {"evidence_store", "cross_exam"}
  Use <- Uses
  Context = {b1, b2}
  None = None
SPECIFICATION EitherSpec
INVARIANTS
  TypesOK
  SettingsKept
  Agreement
  ReportsTrue
PROPERTIES
  Atomic
  PhaseConverges
  SafeModeHeld
