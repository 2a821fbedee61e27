SPECIFICATION FairSpec
CONSTANTS
  e1 = e1  e2 = e2  e3 = e3  e4 = e4  e5 = e5
  pa = pa  pb = pb
  nil = nil
  Events = {e1, e2, e3, e4}
  History = {e1}
  Time <- Distinct
  KindOf <- Plain
  KindOrder <- OneKind
  Limit = 1
  MaxPages = 3
  Pollers = {pa}
  InOrder = TRUE
  Nil = nil
PROPERTIES ResumeNeverSkips ImplementsFeed EventuallyHandled
