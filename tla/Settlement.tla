------------------------------ MODULE Settlement ------------------------------
(***************************************************************************)
(* What the evaluation promises: a match ends once, what was predicted of  *)
(* it is settled after its end and only once, a market of the score by the *)
(* final result, and a selection of a coupon gets one verdict, which some  *)
(* settled prediction bears out.  Nothing is ever taken back.              *)
(***************************************************************************)
CONSTANTS
  Matches,
  Results   \* how a match may end: the home side "ahead", or otherwise

VARIABLES
  result,   \* result[m]  the final result, "open" before it
  outcomes, \* settled predictions: match, pred, market, actual, correct
  verdicts  \* judged selections: pick (coupon, match, market), actual, correct

vars == <<result, outcomes, verdicts>>

Init ==
  /\ result = [m \in Matches |-> "open"]
  /\ outcomes = {}
  /\ verdicts = {}

End(m) ==
  /\ result[m] = "open"
  /\ \E r \in Results : result' = [result EXCEPT ![m] = r]
  /\ UNCHANGED <<outcomes, verdicts>>

\* What is settled already stays, and is not settled again.
Settle ==
  /\ outcomes \subseteq outcomes'
  /\ \A o \in outcomes' \ outcomes :
       /\ result[o.match] # "open"
       /\ o.market = "home_win" => o.actual = (result[o.match] = "ahead")
       /\ \A p \in outcomes' :
            <<p.match, p.pred, p.market>> = <<o.match, o.pred, o.market>> => p = o
  /\ UNCHANGED <<result, verdicts>>

\* An outcome bears a verdict out.
BearsOut(o, v) ==
  /\ o.match = v.pick[2] /\ o.market = v.pick[3]
  /\ o.actual = v.actual /\ o.correct = v.correct

Judge ==
  /\ verdicts \subseteq verdicts'
  /\ \A v \in verdicts' \ verdicts :
       /\ result[v.pick[2]] # "open"
       /\ \E o \in outcomes : BearsOut(o, v)
       /\ \A w \in verdicts' : w.pick = v.pick => w = v
  /\ UNCHANGED <<result, outcomes>>

Next == (\E m \in Matches : End(m)) \/ Settle \/ Judge

Spec == Init /\ [][Next]_vars
=============================================================================
