----------------------------- MODULE CouponPicker -----------------------------
(***************************************************************************)
(* pickForOddsTarget: up to three attempts at a selection whose combined   *)
(* odd is in the interval asked for.  An attempt takes the best candidate  *)
(* of each match, fills a selection greedily and then changes it one       *)
(* candidate at a time.  Where the code's order is that of a Go map or of  *)
(* an unstable sort, any order may happen.                                 *)
(***************************************************************************)
EXTENDS CouponData

CONSTANTS
  Offers,   \* the sets of candidates a request may find
  Requests  \* the requests

ASSUME CouponPickerAssumption ==
  /\ Offers \subseteq SUBSET Candidate
  /\ Requests \subseteq {r \in Request : Valid(r)}

VARIABLES
  cands,    \* the candidates
  req,      \* the request
  attempt,  \* 1 to 3, 0 before the first
  phase,
  pool,     \* the best candidate of each match
  selected,
  swaps     \* passes of swapTowardInterval's loop in this attempt

vars == <<cands, req, attempt, phase, pool, selected, swaps>>

Phases == {"begin", "fill", "swap", "judge", "shrink", "done"}

Init ==
  /\ cands \in Offers
  /\ req \in Requests
  /\ attempt = 0 /\ phase = "begin" /\ pool = {} /\ selected = <<>> /\ swaps = 0

-----------------------------------------------------------------------------
\* A variant whose last attempt looks at the odd only.
Eligible_OddOnly(a) ==
  CASE a = 1 -> {c \in cands : c.conf >= req.conf}
    [] a = 2 -> {c \in cands : c.conf >= Relaxed(req)}
    [] a = 3 -> {c \in cands : ~Above(<<175, 100>>, effectiveOdd(c))}

\* The candidates of attempt a: filterByConfidence, and for the last attempt the
\* condition on the odd.
Eligible(a) ==
  CASE a = 1 -> {c \in cands : c.conf >= req.conf}
    [] a = 2 -> {c \in cands : c.conf >= Relaxed(req)}
    [] a = 3 -> {c \in cands : c.conf >= 50 /\ ~Above(<<175, 100>>, effectiveOdd(c))}

\* The odds of c and d differ by more than 0.05.
OddsDiffer(c, d) ==
  LET o == effectiveOdd(c)
      p == effectiveOdd(d)
      gap == 20 * (o[1] * p[2] - p[1] * o[2])
  IN  gap > o[2] * p[2] \/ -gap > o[2] * p[2]

\* c goes before d: by odd when the interval is ambitious and the odds differ.
Before(c, d, minOdd) ==
  IF minOdd >= 10 /\ OddsDiffer(c, d)
  THEN Above(effectiveOdd(c), effectiveOdd(d))
  ELSE Above(candidateScore(c), candidateScore(d))

\* The candidates of match m in S one of which comes first when they are sorted;
\* Before is not transitive, so a sorted list is one without neighbours in the
\* wrong order.
Firsts(S, m, minOdd) ==
  {s[1] : s \in {t \in SetToSeqs({c \in S : c.match = m}) :
                   \A i \in 1..Len(t) - 1 : ~Before(t[i + 1], t[i], minOdd)}}

\* bestPerMatchForTarget: one candidate of each match in S.
BestPerMatch(S, minOdd) ==
  LET ms == {c.match : c \in S}
  IN  {{f[m] : m \in ms} : f \in {g \in [ms -> S] : \A m \in ms : g[m] \in Firsts(S, m, minOdd)}}

InInterval(s) == AtLeast(s, req.min) /\ AtMost(s, req.max)

StartAttempt(a) ==
  /\ attempt' = a
  /\ phase' = "fill"
  /\ pool' \in BestPerMatch(Eligible(a), req.min)
  /\ selected' = <<>>
  /\ swaps' = 0
  /\ UNCHANGED <<cands, req>>

GoTo(p) == phase' = p /\ UNCHANGED <<cands, req, attempt, pool, swaps>>

\* Without candidates there is nothing to pick.
Begin ==
  /\ phase = "begin"
  /\ \/ cands = {} /\ GoTo("done") /\ UNCHANGED selected
     \/ cands # {} /\ StartAttempt(1)

-----------------------------------------------------------------------------
\* greedyFillTowardMin.

\* What may still be added without exceeding the interval.
Fits ==
  {c \in pool : ~UsesMatch(selected, c.match) /\ AtMost(Append(selected, c), req.max)}

\* A variant that counts one too far.
MayFill_OffByOne == Len(selected) <= req.picks /\ ~InInterval(selected) /\ Fits # {}

\* The pool is not exhausted, nor is the number of selections, nor is the
\* selection good enough.
MayFill == Len(selected) < req.picks /\ ~InInterval(selected) /\ Fits # {}

\* The highest odd that fits; at the least odd asked for the filling ends.
Fill ==
  /\ phase = "fill" /\ MayFill
  /\ \E c \in Fits :
       /\ \A d \in Fits : ~Above(effectiveOdd(d), effectiveOdd(c))
       /\ selected' = Append(selected, c)
       /\ GoTo(IF AtLeast(selected', req.min) THEN "swap" ELSE "fill")

EndFill ==
  /\ phase = "fill" /\ ~MayFill
  /\ GoTo("swap")
  /\ UNCHANGED selected

-----------------------------------------------------------------------------
\* swapTowardInterval.

\* A variant that does not compare with the greatest odd.
Improves_NoLimit(s) == Above(combinedOddProduct(s), combinedOddProduct(selected))

\* s is worth more than the selection and not more than asked for.
Improves(s) ==
  Above(combinedOddProduct(s), combinedOddProduct(selected)) /\ AtMost(s, req.max)

\* The selection with c in place i.
With(i, c) == [selected EXCEPT ![i] = c]

\* Another market of the match in place i.
Alternatives(i) ==
  {c \in Eligible(attempt) :
     c.match = selected[i].match /\ c.market # selected[i].market /\ Improves(With(i, c))}

\* The first place with the lowest odd.
Worst ==
  CHOOSE i \in DOMAIN selected :
    \A j \in DOMAIN selected :
      \/ Above(effectiveOdd(selected[j]), effectiveOdd(selected[i]))
      \/ ~Above(effectiveOdd(selected[i]), effectiveOdd(selected[j])) /\ i <= j

\* A selection with a candidate of another match, at the end or, when there are
\* enough, instead of the worst.
Extensions ==
  {IF Len(selected) < req.picks THEN Append(selected, c) ELSE With(Worst, c) :
     c \in {d \in Eligible(attempt) : ~UsesMatch(selected, d.match)}}

Better == {s \in Extensions : Improves(s)}

\* A variant that swaps once only.
MaySwap_Once ==
  /\ selected # <<>>
  /\ swaps < 1
  /\ ~AtLeast(selected, req.min)

MaySwap ==
  /\ selected # <<>>
  /\ swaps < 2 * req.picks
  /\ ~AtLeast(selected, req.min)

\* An alternative for the first place that has one.
SwapMarket ==
  /\ phase = "swap" /\ MaySwap
  /\ \E i \in DOMAIN selected :
       /\ \A j \in 1..i - 1 : Alternatives(j) = {}
       /\ \E c \in Alternatives(i) : selected' = With(i, c)
  /\ swaps' = swaps + 1
  /\ UNCHANGED <<cands, req, attempt, phase, pool>>

\* A match that is not used yet, if no alternative helps.
SwapMatch ==
  /\ phase = "swap" /\ MaySwap
  /\ \A i \in DOMAIN selected : Alternatives(i) = {}
  /\ selected' \in Better
  /\ swaps' = swaps + 1
  /\ UNCHANGED <<cands, req, attempt, phase, pool>>

EndSwap ==
  /\ phase = "swap"
  /\ MaySwap => Better = {} /\ \A i \in DOMAIN selected : Alternatives(i) = {}
  /\ GoTo("judge")
  /\ UNCHANGED selected

-----------------------------------------------------------------------------
\* A variant that tries the last attempt for as long as it fails.
Again_Repeats ==
  IF AtLeast(selected, req.min) THEN {}
  ELSE IF attempt = 1 THEN {2} ELSE {a \in {3} : Eligible(a) # {}}

\* A variant that always tries a second time.
Again_Always == IF attempt = 1 THEN {2} ELSE {}

\* The next attempt, if the selection is worth less than asked for: a second one
\* always, a third one when the interval is ambitious.
Again ==
  IF AtLeast(selected, req.min) THEN {}
  ELSE CASE attempt = 1 -> {2}
         [] attempt = 2 -> {a \in {3} : req.min >= 10 /\ Eligible(a) # {}}
         [] attempt = 3 -> {}

\* The new attempt starts from nothing, even if it ends with less.
TryAgain ==
  /\ phase = "judge"
  /\ \E a \in Again : StartAttempt(a)

Accept ==
  /\ phase = "judge" /\ Again = {}
  /\ GoTo("shrink")
  /\ UNCHANGED selected

-----------------------------------------------------------------------------
\* shrinkToMaxOdd.

TooMuch == Len(selected) > 1 /\ ~AtMost(selected, req.max)

\* The confidence per odd by which a selection is dropped.
Value(c) ==
  IF c.quote > 0 THEN <<c.conf * effectiveOdd(c)[2], effectiveOdd(c)[1]>> ELSE <<c.conf, 1>>

\* The first place with the lowest value.
Least ==
  CHOOSE i \in DOMAIN selected :
    \A j \in DOMAIN selected :
      \/ Above(Value(selected[j]), Value(selected[i]))
      \/ ~Above(Value(selected[i]), Value(selected[j])) /\ i <= j

\* Its selection is removed, for as long as there is too much.
Shrink ==
  /\ phase = "shrink"
  /\ selected' = IF TooMuch THEN RemoveAt(selected, Least) ELSE selected
  /\ GoTo(IF TooMuch THEN "shrink" ELSE "done")

-----------------------------------------------------------------------------
Next ==
  \/ Begin \/ Fill \/ EndFill \/ SwapMarket \/ SwapMatch \/ EndSwap
  \/ TryAgain \/ Accept \/ Shrink

Spec == Init /\ [][Next]_vars

\* The function runs to its end.
FairSpec == Spec /\ WF_vars(Next)

-----------------------------------------------------------------------------
TypeOK ==
  /\ cands \in Offers /\ req \in Requests
  /\ attempt \in 0..3 /\ phase \in Phases
  /\ pool \subseteq cands
  /\ selected \in Seq(cands) /\ Len(selected) <= req.picks
  /\ swaps \in 0..2 * req.picks

\* At no time is the selection worth more than asked for: the shrinking at the end
\* never takes anything away.
NeverTooMuch == selected # <<>> => AtMost(selected, req.max)

\* A selection in the interval is what the user gets: neither a later attempt nor
\* the shrinking touches it.
ReachedStays == [][InInterval(selected) => selected' = selected]_vars

\* An answer worth less than asked for cannot be helped by one step among the
\* candidates of the last attempt, unless the bound of the loop cut the swapping
\* short: no other market of one of its matches, no other match while there is room
\* and none instead of the worst when there is none brings it nearer to the interval.
\* An empty answer promises less, since nothing is swapped into it: of each match one
\* candidate, the one its candidates' order puts first, is too much by itself; others
\* of the match might have done.
CannotBeHelped ==
  phase = "done" /\ ~AtLeast(selected, req.min) =>
    \/ swaps = 2 * req.picks
    \/ /\ selected # <<>>
       /\ \A c \in Eligible(attempt), i \in DOMAIN selected :
            selected[i].match = c.match /\ selected[i].market # c.market
              => ~Improves(With(i, c))
       /\ \A c \in Eligible(attempt) :
            ~UsesMatch(selected, c.match)
              => ~Improves(IF Len(selected) < req.picks THEN Append(selected, c)
                                                         ELSE With(Worst, c))
    \/ /\ selected = <<>>
       /\ cands # {} => \A c \in Eligible(attempt) :
            \E d \in Firsts(Eligible(attempt), c.match, req.min) : ~AtMost(<<d>>, req.max)

\* The answer of the abstract specification, while and when there is one.
P == INSTANCE CouponPick WITH answer <- IF phase = "done" THEN <<selected>> ELSE <<>>

\* Every answer is a playable one of this request's candidates, and there is one.
ImplementsPick == P!Spec

\* pickForOddsTarget returns: swaps raise the odd and attempts are three.
Terminates == <>(phase = "done")
=============================================================================
