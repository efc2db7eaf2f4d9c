---------------------------- MODULE MCCouponPicker ----------------------------
EXTENDS CouponPicker, TLC

CONSTANTS m1, m2, m3

Cand(m, k, p, q) == [match |-> m, market |-> k, conf |-> p, quote |-> q]

\* Safe and bold markets, two odds within 0.05 of one another, one without a quote.
Universe == {
  Cand(m1, "home_win", 89, 12), Cand(m1, "btts", 60, 20), Cand(m1, "over_2_5", 51, 0),
  Cand(m2, "home_win", 70, 25), Cand(m2, "draw", 47, 60),
  Cand(m3, "home_win", 57, 24), Cand(m3, "away_win", 52, 30), Cand(m3, "draw", 55, 19)}

\* A match with so many markets that the swaps of a single selection do not get
\* through them.
Ladder == {
  Cand(m1, "home_win", 89, 12), Cand(m1, "btts", 60, 20),
  Cand(m1, "over_2_5", 60, 22), Cand(m1, "draw", 60, 24), Cand(m1, "away_win", 60, 26)}

\* A match whose best candidate is too much for the interval from 5 to 6 and whose
\* other one is in it: the answer is empty.
Skipped == {Cand(m1, "home_win", 60, 70), Cand(m1, "draw", 58, 55)}

MCOffers == SUBSET Universe \cup {Ladder, Skipped}

Ask(a, b, n, p) == [min |-> a, max |-> b, picks |-> n, conf |-> p]

MCRequests ==
  {Ask(5, 6, 2, 55), Ask(5, 50, 1, 55), Ask(5, 8, 3, 45), Ask(10, 12, 3, 60),
   Ask(10, 40, 2, 80), Ask(20, 50, 3, 45), Ask(50, 50, 3, 55)}
=============================================================================
