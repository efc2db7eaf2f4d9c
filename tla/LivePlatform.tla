----------------------------- MODULE LivePlatform -----------------------------
(***************************************************************************)
(* The collector and the backend on one PostgreSQL and one Redis: the      *)
(* composition of MatchSync and Predictions, with the properties that need *)
(* both.                                                                   *)
(***************************************************************************)
EXTENDS MatchSync, Predictions

vars == <<syncVars, predVars, dataVars>>

Init == DataInit /\ SyncInit /\ PredInit

\* A step of the collector or of the world around it.
Collect == SyncNext /\ UNCHANGED predVars

Next ==
  \/ Collect
  \/ PredNext /\ UNCHANGED syncVars

Spec == Init /\ [][Next]_vars

-----------------------------------------------------------------------------
\* The ticker of the poller fires for ever, one poll at a time, and for
\* each match the model answers sometimes.
PollFairness ==
  LET v == <<predVars, dataVars>>
  IN  /\ WF_v(Poll)
      /\ \A m \in Matches : WF_v(PollMatch(m))
      /\ WF_v(RunPrediction(Poller))
      /\ \A m \in Matches : /\ SF_v(req[Poller].m = m /\ ReadMatch(Poller))
                           /\ SF_v(req[Poller].m = m /\ Save(Poller))

\* The collector on its own, while nobody asks for predictions.
CollectorSpec == Init /\ [][Collect]_vars

\* The whole system, the poller's goroutine doing its work.
PollSpec == Spec /\ PollFairness

-----------------------------------------------------------------------------
TypeOK == DataTypeOK /\ SyncTypeOK /\ PredTypeOK

\* The cached prediction of a match is a row of the predictions table for that
\* match: a row is saved before it is cached, by every path that caches.
CachedPredictionIsSaved ==
  \A m \in Matches : predCache[m] \in 0..Len(preds[m])

\* A match is announced as finished only when the API has declared it over, and
\* only if its row held another status before: an import of old results, however
\* its jobs overlap, stays silent.
AnnouncedFinishIsReal ==
  \A m \in Matches : \A e \in published[m] :
    e[2] = "finished" => /\ api[m] \in Over
                         /\ opened[m]
                         /\ e[1] \notin {"none", "finished"}

\* A prediction marked live is one of a match that has been in play, even when
\* the poller's list or a job's snapshot is out of date.
LivePredictionWasInPlay ==
  \A m \in Matches :
    (\E i \in 1..Len(preds[m]) : IsLive(preds[m][i])) => api[m] \notin {"NS", "TBD", "PST"}

\* Reads run the model for a match at most once per concurrent request, once more
\* per failed read of the table and once more per run whose result was lost, by the
\* ML service or the insert: afterwards the row answers, even though the collector
\* keeps deleting the cache entry.
ReadsRunModelOnce ==
  \A m \in Matches : readRuns[m] <= Cardinality(Readers) + misreads + lost[m]

\* A finished row is that of a match the API has declared over, and it goes back
\* only by a job whose copy of the API's answer is older than that.
RegressionNeedsStaleAnswer ==
  [][\A m \in Matches :
       status[m] = "finished" /\ status'[m] # "finished" =>
         /\ api[m] \in Over
         /\ \E w \in Workers : /\ run[w].pc = "write"
                               /\ run[w].cur = m
                               /\ run[w].snap[m] \notin Over]_vars

\* A match whose row stays live gets a live prediction.
LiveMatchGetsLivePrediction ==
  \A m \in Matches :
    <>[](status[m] = "live")
      => <>(\E i \in 1..Len(preds[m]) : IsLive(preds[m][i]))
=============================================================================
