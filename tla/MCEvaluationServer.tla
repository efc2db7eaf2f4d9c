------------------------- MODULE MCEvaluationServer -------------------------
EXTENDS EvaluationServer, TLC

CONSTANTS hook, page, s1, s2, c1, c2

MCCouponOf == s1 :> c1 @@ s2 :> c2

=============================================================================
