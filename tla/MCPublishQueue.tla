----------------------------- MODULE MCPublishQueue ----------------------------
EXTENDS CrosspostStatus, TLC
CONSTANTS v1, v2, d1, wa, wb, r1, r2, b1, b2, nil
OneTarget == d1 :> v1
AllLive == [w \in {wa, wb} |-> "live"]
LiveAndBackfill == wa :> "live" @@ wb :> "backfill"
================================================================================
