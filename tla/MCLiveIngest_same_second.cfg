SPECIFICATION Spec
CONSTANTS
  e1 = e1  e2 = e2  e3 = e3  e4 = e4  e5 = e5
  pa = pa  pb = pb
  nil = nil
  Events = {e1, e2, e3, e4}
  History = {e1}
  Time <- SameSecond
  KindOf <- Plain
  KindOrder <- OneKind
  Limit = 2
  MaxPages = 2
  Pollers = {pa}
  InOrder = TRUE
  Nil = nil
PROPERTY ResumeNeverSkips
