CONSTANTS
  me = me
  other = other
  t1 = t1
  t2 = t2
  Writer = {me, other}
  Self = me
  MAX_RECEIPTS = 2
  MaxAppends = 4
  N = 3
  Worker = {t1, t2}
  Quotas = {0, 1, 2}
  Routes <- Mixed
SPECIFICATION WaitingSpec
INVARIANTS
  TypeOK
  InOrder
  RecentKept
  AbortJustified
PROPERTIES
  Returns
