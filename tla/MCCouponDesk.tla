----------------------------- MODULE MCCouponDesk -----------------------------
EXTENDS CouponDesk, TLC

CONSTANTS m1, m2

MCCalendar == <<m1, m2>>

L(b, part, p, l) == [bet |-> b, part |-> part, side |-> "both", pick |-> p, line |-> l]

Win == L("winner", "match", "home", "none")
Away == L("winner", "match", "away", "none")
Over == L("goals", "match", "over", "1_5")
HalfOver == L("goals", "half", "over", "1_5")

Q(l, b, o) == [label |-> l, maker |-> b, odd |-> o]

\* Two bookmakers for a market of m1 or one for another, the lines of two halves of m2's.
MCAnswers ==
  (m1 :> {<<Q(Win, "a", 20), Q(Win, "b", 30)>>, <<Q(Away, "b", 26)>>}) @@
  (m2 :> {<<Q(Over, "a", 14), Q(HalfOver, "a", 40)>>})

HomeWin == <<"home_win">>
Over15 == <<"over", "1_5">>

MCMarkets == {HomeWin, Over15}

MCPredictions ==
  (m1 :> [confidence |-> (HomeWin :> 60), predictions |-> (HomeWin :> 52) @@ (Over15 :> 40)]) @@
  (m2 :> [confidence |-> (Over15 :> 70), predictions |-> (<<"predicted_goals">> :> 99)])

MCRequests == {[min |-> 5, max |-> 50, picks |-> 2, conf |-> 55]}
=============================================================================
