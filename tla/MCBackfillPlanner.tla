--------------------------- MODULE MCBackfillPlanner ---------------------------
EXTENDS BackfillPlanner, TLC
CONSTANTS a1, a2, v1, v2, v3, d1, pa, pb, nil
OneAuthor == [e \in {v1, v2, v3, d1} |-> a1]
Deletion == d1 :> v2
AccountOrder == (a1 :> 1) @@ (a2 :> 2)
EventOrder == (v1 :> 1) @@ (v2 :> 2) @@ (v3 :> 3) @@ (d1 :> 4)
================================================================================
