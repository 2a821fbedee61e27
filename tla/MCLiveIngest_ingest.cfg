SPECIFICATION Spec
CONSTANTS
  e1 = e1  e2 = e2  e3 = e3  e4 = e4  e5 = e5
  pa = pa  pb = pb
  nil = nil
  Events = {e1, e2, e3, e4, e5}
  History = {e1, e2}
  Time <- ThreeSeconds
  KindOf <- Mixed
  KindOrder <- TwoKinds
  Limit = 1
  MaxPages = 2
  Pollers = {pa, pb}
  InOrder = FALSE
  Nil = nil
INVARIANTS HistoryNeverReplayed SelectionInv
PROPERTY PassesOnlyOverlooked
