SPECIFICATION FairSpec
CONSTANTS
  t1 = t1  t2 = t2
  Tasks = {t1, t2}
  ReadsFail = TRUE
INVARIANTS WishInv PublishesOnlyAsWished
PROPERTIES StaysHidden ReconcileRepairs
