SPECIFICATION Spec
CONSTANTS
  v1 = v1  v2 = v2  d1 = d1
  wa = wa  wb = wb
  r1 = r1  r2 = r2
  b1 = b1  b2 = b2
  nil = nil
  Videos = {v1}
  Deletes = {d1}
  Target <- OneTarget
  Workers = {wa, wb}
  Remote = {wb}
  Lanes = {"live"}
  LaneOf <- AllLive
  Rkeys = {r1, r2}
  Blobs = {b1, b2}
  MaxAttempts = 2
  Nil = nil
INVARIANTS KeysNeverShared OneRecordPerEvent NeverDiverges PublishedIsVisible
PROPERTY ImplementsSlots
