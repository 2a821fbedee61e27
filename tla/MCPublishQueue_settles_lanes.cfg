SPECIFICATION FairSpec
CONSTANTS
  v1 = v1  v2 = v2  d1 = d1
  wa = wa  wb = wb
  r1 = r1  r2 = r2
  b1 = b1  b2 = b2
  nil = nil
  Videos = {v1}
  Deletes = {d1}
  Target <- OneTarget
  Workers = {wa, wb}
  Remote = {}
  Lanes = {"live", "backfill"}
  LaneOf <- LiveAndBackfill
  Rkeys = {r1, r2}
  Blobs = {b1}
  MaxAttempts = 3
  Nil = nil
PROPERTIES EventuallySettled FinalStaysFinal AnswersHold DeletionHonoured
INVARIANT ToldPublishedIsVisible
