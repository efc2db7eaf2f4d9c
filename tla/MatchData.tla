------------------------------ MODULE MatchData ------------------------------
(***************************************************************************)
(* What the collector and the backend share about a match: its row in      *)
(* PostgreSQL (only the status matters here) and its two Redis keys,       *)
(* live:match:<id> and prediction:<id>.  Saved predictions are the rows of *)
(* the predictions table in creation order, so a prediction is named by    *)
(* its index and the latest one is the last.                               *)
(***************************************************************************)
EXTENDS Naturals, Sequences, FiniteSets

CONSTANT Matches

ASSUME MatchesAssumption == Matches # {}

VARIABLES
  status,     \* status[m]    the status column of m's row, "none" without a row
  liveKey,    \* liveKey[m]   does live:match:m exist?
  predCache,  \* predCache[m] the prediction cached under prediction:m, 0 if none
  preds       \* preds[m]     the rows of the predictions table for m

dataVars == <<status, liveKey, predCache, preds>>

RowStatus ==
  {"scheduled", "live", "finished", "postponed", "cancelled", "suspended"}

Origins == {"poll", "read", "analyze"}

\* A saved prediction: the match status its features were built from, and
\* whether it was made on behalf of the poller, a reader or an analysis.
Prediction == [basis : RowStatus, by : Origins]

IsLive(p) == p.basis = "live"

DataTypeOK ==
  /\ status \in [Matches -> RowStatus \cup {"none"}]
  /\ liveKey \in [Matches -> BOOLEAN]
  /\ predCache \in [Matches -> Nat]
  /\ preds \in [Matches -> Seq(Prediction)]

DataInit ==
  /\ status = [m \in Matches |-> "none"]
  /\ liveKey = [m \in Matches |-> FALSE]
  /\ predCache = [m \in Matches |-> 0]
  /\ preds = [m \in Matches |-> <<>>]

-----------------------------------------------------------------------------
\* The statements the two programs run on this state, one per call.  Every caller
\* ignores an error of Redis, so a command on a key may change nothing.

UpsertMatch(m, s) == status' = [status EXCEPT ![m] = s]

SetLiveKey(m) == liveKey' \in {liveKey, [liveKey EXCEPT ![m] = TRUE]}

DelLiveKey(m) == liveKey' \in {liveKey, [liveKey EXCEPT ![m] = FALSE]}

SetPrediction(m, id) == predCache' \in {predCache, [predCache EXCEPT ![m] = id]}

DelPrediction(m) == predCache' \in {predCache, [predCache EXCEPT ![m] = 0]}

SavePrediction(m, p) == preds' = [preds EXCEPT ![m] = Append(@, p)]

GetLatestPrediction(m) == Len(preds[m])
=============================================================================
