------------------------------ MODULE CouponData ------------------------------
(***************************************************************************)
(* What a coupon is made of: the candidates Generate builds from the       *)
(* predictions and the odds, and what a selection of them is worth.        *)
(* Decimal odds are fractions, so that their products are exact.           *)
(***************************************************************************)
EXTENDS Integers, Sequences, SequencesExt

CONSTANTS
  Matches,
  Markets    \* the ML markets isCouponMarket lets through

\* conf is a percentage, at least 45 (buildCandidatePool); quote is the best odd of a bookmaker in tenths, at most 10
\* when there is none.  A market's selection is the market itself.
Candidate == [match : Matches, market : Markets, conf : 45..100, quote : Nat]

\* The fraction p is more than q.
Above(p, q) == p[1] * q[2] > q[1] * p[2]

Quoted(c) == c.quote > 10

\* The bookmaker's odd, else the fair odd of the confidence.
effectiveOdd(c) ==
  IF Quoted(c) THEN <<c.quote, 10>> ELSE <<100, c.conf>>

\* Confidence plus half the edge over the odd, if there is an edge.
candidateScore(c) ==
  IF Quoted(c) /\ c.conf * c.quote > 1000
  THEN <<3 * c.conf * c.quote - 1000, 200 * c.quote>>
  ELSE <<c.conf, 100>>

combinedOddProduct(s) ==
  FoldLeft(LAMBDA p, c : LET o == effectiveOdd(c) IN <<p[1] * o[1], p[2] * o[2]>>, <<1, 1>>, s)

\* A selection, as a sequence, is worth no more and no less than a whole odd.
AtMost(s, odd) == ~Above(combinedOddProduct(s), <<odd, 1>>)

AtLeast(s, odd) == ~Above(<<odd, 1>>, combinedOddProduct(s))

UsesMatch(s, m) == \E i \in DOMAIN s : s[i].match = m

OnePerMatch(s) == \A i, j \in DOMAIN s : s[i].match = s[j].match => i = j

\* What a user asks for: the interval of the combined odd, the number of
\* selections and the least confidence.
Request == [min : 5..50, max : 5..50, picks : 1..10, conf : 1..100]

\* Generate refuses an empty interval.
Valid(r) == r.min <= r.max

\* The least confidence of the second attempt; the third takes 50.
Relaxed(r) == IF r.conf > 58 THEN r.conf - 8 ELSE 50

\* What a user may be given out of S: selections on different matches, no more
\* than asked for, worth no more than asked for, none of them unlikely.
Playable(s, S, r) ==
  /\ s \in Seq(S)
  /\ OnePerMatch(s)
  /\ Len(s) <= r.picks
  /\ s # <<>> => AtMost(s, r.max)
  /\ \A i \in DOMAIN s : s[i].conf >= r.conf \/ s[i].conf >= 50
=============================================================================
