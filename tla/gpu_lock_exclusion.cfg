CONSTANTS
  p1 = p1
  p2 = p2
  p3 = p3
  a1 = a1
  a2 = a2
  b1 = b1
  c1 = c1
  g1 = g1
  g2 = g2
  g3 = g3
  Proc <- MCProc
  Thread <- MCThread
  ProcOf <- MCProcOf
  Gate <- MCGate
  GateOf <- MCGateOf
  Earlier <- MCEarlier
  NoThread = NoThread
  NoPid = NoPid
  NoFile = NoFile
SPECIFICATION Spec
CHECK_DEADLOCK FALSE
INVARIANT MutualExclusion
