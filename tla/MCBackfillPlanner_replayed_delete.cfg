SPECIFICATION Spec
CONSTANTS
  a1 = a1  a2 = a2
  v1 = v1  v2 = v2  v3 = v3  d1 = d1
  pa = pa  pb = pb
  nil = nil
  Accounts = {a1, a2}
  Videos = {v1, v2, v3}
  Deletes = {d1}
  Author <- OneAuthor
  Target <- Deletion
  Created <- AccountOrder
  At <- EventOrder
  BatchSize = 1
  HistoryLimit = 3
  Planners = {pa}
  Nil = nil
INVARIANT DeletedNeverPublished
