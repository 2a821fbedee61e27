------------------------------ MODULE MCLiveIngest -----------------------------
EXTENDS LiveIngest, TLC
CONSTANTS e1, e2, e3, e4, e5, pa, pb, nil
TwoKinds == <<"34236", "34235">>
OneKind == <<"34236">>
Mixed == [e \in {e1, e4, e5} |-> "34236"] @@ [e \in {e2, e3} |-> "34235"]
Plain == [e \in {e1, e2, e3, e4} |-> "34236"]
Distinct == e1 :> 1 @@ e2 :> 2 @@ e3 :> 3 @@ e4 :> 4
SameSecond == e1 :> 1 @@ e2 :> 2 @@ e3 :> 3 @@ e4 :> 3
ThreeSeconds == e1 :> 1 @@ e2 :> 1 @@ e3 :> 3 @@ e4 :> 2 @@ e5 :> 3
================================================================================
