------------------------------ MODULE Evaluation ------------------------------
(***************************************************************************)
(* What happens after the final whistle: the collector's jobs write the    *)
(* result and, team by team, the statistics; runs of the evaluation, one   *)
(* per live sync and any number at a time, turn saved predictions into     *)
(* outcomes and judge the selections of coupons.  Each SQL statement is a  *)
(* step.                                                                   *)
(***************************************************************************)
EXTENDS Naturals, Sequences, FiniteSets, FiniteSetsExt

CONSTANTS
  Matches,
  Teams,      \* the two teams of a match
  Corners,    \* Corners[m][t]: the corners of team t when m is over
  Coupons,    \* saved coupons
  Evaluators, \* concurrent runs of the evaluation
  Answers,    \* what the model may say: functions from Markets to Sayings
  MaxReports, \* bound: states of a match the API reports
  MaxPreds    \* bound: predictions saved per match

\* The markets with an INSERT of their own, one read off the score and one off the
\* statistics, and one of the many that coupons offer and no statement settles:
\* double chances, unders, a team's goals, result and both teams to score, ...
Evaluated == {"home_win", "over_corners_9_5"}

Markets == Evaluated \cup {"double_chance_1x"}

\* The probability of a market: at least 0.5, from 0.45 to 0.5, lower, or not
\* among the prediction's.
Sayings == {"likely", "close", "unlikely", "absent"}

ASSUME EvaluationAssumption ==
  /\ IsFiniteSet(Teams) /\ Teams # {}
  /\ Corners \in [Matches -> [Teams -> Nat]]
  /\ Answers \subseteq [Markets -> Sayings]
  /\ IsFiniteSet(Evaluators)
  /\ MaxReports \in Nat /\ MaxPreds \in Nat

VARIABLES
  reports,    \* reports[m]  every state of m the API has reported, oldest first
  row,        \* row[m]      status and score of the match row
  todo,       \* todo[m]     teams whose statistics a details job has still to write
  stats,      \* stats[m]    teams with a match_statistics row
  preds,      \* preds[m]    saved predictions, oldest first
  outcomes,   \* prediction_outcomes
  picks,      \* coupon_selections
  verdicts,   \* coupon_selection_outcomes
  eval        \* eval[e]     the next step of run e

worldVars == <<reports, row, todo, stats, preds, picks>>
resultVars == <<outcomes, verdicts>>
vars == <<worldVars, resultVars, eval>>

\* A match as the API reports it, and as UpsertMatch stores it in one statement:
\* "ahead" when the home side leads, "null" before there is a score.
State ==
  [status : {"scheduled", "live", "finished"}, score : {"null", "ahead", "level"}]

Steps == {"idle", "score", "stats", "coupons"}

Outcome ==
  [match : Matches, pred : Nat, market : Markets, actual : BOOLEAN, correct : BOOLEAN]

Pick == Coupons \X Matches \X Markets

Verdict == [pick : Pick, actual : BOOLEAN, correct : BOOLEAN]

Kickoff == [status |-> "scheduled", score |-> "null"]

Init ==
  /\ reports = [m \in Matches |-> <<Kickoff>>]
  /\ row = [m \in Matches |-> Kickoff]
  /\ todo = [m \in Matches |-> {}]
  /\ stats = [m \in Matches |-> {}]
  /\ preds = [m \in Matches |-> <<>>]
  /\ outcomes = {}
  /\ picks = {}
  /\ verdicts = {}
  /\ eval = [e \in Evaluators |-> "idle"]

-----------------------------------------------------------------------------
\* The match and the collector.

Latest(s) == s[Len(s)]

IsOver(m) == Latest(reports[m]).status = "finished"

\* A match goes from scheduled through play to its end; the final result stands.
Report(m) ==
  /\ ~IsOver(m)
  /\ Len(reports[m]) < MaxReports
  /\ \E s \in State :
       /\ s.score # "null" /\ s.status # "scheduled" /\ s # Latest(reports[m])
       /\ reports' = [reports EXCEPT ![m] = Append(@, s)]
  /\ UNCHANGED <<row, todo, stats, preds, picks, resultVars, eval>>

Upsert(m, s) ==
  /\ row' = [row EXCEPT ![m] = s]
  /\ UNCHANGED <<reports, todo, stats, preds, picks, resultVars, eval>>

\* A variant that keeps the score a finished row already has.
WriteRow_KeepsScore(m) ==
  \E i \in 1..Len(reports[m]) :
    Upsert(m, IF row[m].score = "null" THEN reports[m][i]
                                       ELSE [reports[m][i] EXCEPT !.score = row[m].score])

\* A job writes what the API told it, now or some time ago.
WriteRow(m) == \E i \in 1..Len(reports[m]) : Upsert(m, reports[m][i])

\* GetFinishedMatchesWithoutStats, and the answer of the API for the match.
StartDetails(m) ==
  /\ row[m].status = "finished"
  /\ stats[m] = {} /\ todo[m] = {}
  /\ todo' = [todo EXCEPT ![m] = Teams]
  /\ UNCHANGED <<reports, row, stats, preds, picks, resultVars, eval>>

\* syncFixtureDetails: one upsert per team, whose failure is not looked at.
WriteStats(m, t) ==
  /\ t \in todo[m]
  /\ todo' = [todo EXCEPT ![m] = @ \ {t}]
  /\ stats' \in {stats, [stats EXCEPT ![m] = @ \cup {t}]}
  /\ UNCHANGED <<reports, row, preds, picks, resultVars, eval>>

\* The collector stops in the middle.
AbandonDetails(m) ==
  /\ todo[m] # {}
  /\ todo' = [todo EXCEPT ![m] = {}]
  /\ UNCHANGED <<reports, row, stats, preds, picks, resultVars, eval>>

-----------------------------------------------------------------------------
\* The backend's requests, at any time.

Predict(m) ==
  /\ Len(preds[m]) < MaxPreds
  /\ \E a \in Answers : preds' = [preds EXCEPT ![m] = Append(@, a)]
  /\ UNCHANGED <<reports, row, todo, stats, picks, resultVars, eval>>

\* Generate picks markets of at least 0.45 (and of the confidence the user asks
\* for) from a prediction of a match that was scheduled when the request began, and
\* saves them later, one per match of a coupon.
SavePick(c, m, k) ==
  /\ \A p \in picks : <<p[1], p[2]>> # <<c, m>>
  /\ \E i \in 1..Len(preds[m]) : preds[m][i][k] \in {"likely", "close"}
  /\ picks' = picks \cup {<<c, m, k>>}
  /\ UNCHANGED <<reports, row, todo, stats, preds, resultVars, eval>>

-----------------------------------------------------------------------------
\* RunEvaluation.

GoTo(e, s) == eval' = [eval EXCEPT ![e] = s]

Begin(e) ==
  /\ eval[e] = "idle"
  /\ GoTo(e, "score")
  /\ UNCHANGED <<worldVars, resultVars>>

\* A variant whose NOT EXISTS forgets the prediction.
Unsettled_ByMarket(m, k) ==
  {i \in 1..Len(preds[m]) :
     /\ preds[m][i][k] # "absent"
     /\ \A o \in outcomes : <<o.match, o.market>> # <<m, k>>}

\* The predictions of m that answer market k and have no outcome for it yet.
Unsettled(m, k) ==
  {i \in 1..Len(preds[m]) :
     /\ preds[m][i][k] # "absent"
     /\ \A o \in outcomes : <<o.match, o.pred, o.market>> # <<m, i, k>>}

\* What an INSERT adds for market k of the matches in S, of which those in T
\* came true.
NewOutcomes(k, S, T) ==
  UNION {{[match |-> m, pred |-> i, market |-> k, actual |-> m \in T,
           correct |-> (m \in T <=> preds[m][i][k] = "likely")] : i \in Unsettled(m, k)} : m \in S}

HomeWins == {m \in Matches : row[m].score = "ahead"}

WithScore == {m \in Matches : row[m].score # "null"}

Finished == {m \in Matches : row[m].status = "finished"}

\* A variant without the condition on the status.
EvaluateScores_Early(e) ==
  /\ eval[e] = "score"
  /\ outcomes' = outcomes \cup NewOutcomes("home_win", WithScore, HomeWins)
  /\ GoTo(e, "stats")
  /\ UNCHANGED <<worldVars, verdicts>>

EvaluateScores(e) ==
  /\ eval[e] = "score"
  /\ outcomes' = outcomes \cup NewOutcomes("home_win", Finished \cap WithScore, HomeWins)
  /\ GoTo(e, "stats")
  /\ UNCHANGED <<worldVars, verdicts>>

\* The corners of the teams in S are over the line of 9.5.
ManyCorners(m, S) == MapThenSumSet(LAMBDA t : Corners[m][t], S) > 9

WithStats == {m \in Matches : stats[m] # {}}

\* Over the teams that have a row, as long as there is one.
EvaluateStats(e) ==
  /\ eval[e] = "stats"
  /\ outcomes' = outcomes \cup
       NewOutcomes("over_corners_9_5", Finished \cap WithStats,
                   {m \in Matches : ManyCorners(m, stats[m])})
  /\ GoTo(e, "coupons")
  /\ UNCHANGED <<worldVars, verdicts>>

\* An error of either statement ends the run.
EvaluationFails(e) ==
  /\ eval[e] \in {"score", "stats"}
  /\ GoTo(e, "idle")
  /\ UNCHANGED <<worldVars, resultVars>>

Judged(p) == \E v \in verdicts : v.pick = p

\* An outcome says of a pick what a verdict does.
Concerns(o, v) ==
  /\ <<o.match, o.market>> = <<v.pick[2], v.pick[3]>>
  /\ <<o.actual, o.correct>> = <<v.actual, v.correct>>

ToJudge == {p \in picks : row[p[2]].status = "finished" /\ ~Judged(p)}

\* A variant that takes the outcomes of every prediction.
NewVerdicts_AnyPrediction ==
  {v \in [pick : ToJudge, actual : BOOLEAN, correct : BOOLEAN] :
     \E o \in outcomes : Concerns(o, v)}

\* A variant that joins on the match of a pick and forgets its market.
NewVerdicts_EveryMarket ==
  {v \in Verdict :
     /\ \E p \in ToJudge : <<p[1], p[2]>> = <<v.pick[1], v.pick[2]>>
     /\ \E o \in outcomes : o.pred = Len(preds[o.match]) /\ Concerns(o, v)}

\* The picks on finished matches, judged by the outcome of the newest prediction.
NewVerdicts ==
  {v \in [pick : ToJudge, actual : BOOLEAN, correct : BOOLEAN] :
     \E o \in outcomes : o.pred = Len(preds[o.match]) /\ Concerns(o, v)}

\* A variant that judges all picks anew, by what is the newest prediction now.
JudgeCoupons_Anew(e) ==
  /\ eval[e] = "coupons"
  /\ verdicts' =
       {v \in [pick : {p \in picks : row[p[2]].status = "finished"},
               actual : BOOLEAN, correct : BOOLEAN] :
          \E o \in outcomes : o.pred = Len(preds[o.match]) /\ Concerns(o, v)}
  /\ GoTo(e, "idle")
  /\ UNCHANGED <<worldVars, outcomes>>

\* The notifications and the refresh of model_performance, which follow, change
\* nothing that is modelled here.
JudgeCoupons(e) ==
  /\ eval[e] = "coupons"
  /\ verdicts' = verdicts \cup NewVerdicts
  /\ GoTo(e, "idle")
  /\ UNCHANGED <<worldVars, outcomes>>

\* Its error is ignored.
JudgeFails(e) ==
  /\ eval[e] = "coupons"
  /\ GoTo(e, "idle")
  /\ UNCHANGED <<worldVars, resultVars>>

-----------------------------------------------------------------------------
RunEvaluation(e) ==
  \/ Begin(e) \/ EvaluateScores(e) \/ EvaluateStats(e) \/ EvaluationFails(e)
  \/ JudgeCoupons(e) \/ JudgeFails(e)

Collect(m) ==
  \/ Report(m) \/ WriteRow(m) \/ StartDetails(m) \/ AbandonDetails(m)
  \/ \E t \in Teams : WriteStats(m, t)

Next ==
  \/ \E m \in Matches : Collect(m) \/ Predict(m)
  \/ \E c \in Coupons, m \in Matches, k \in Markets : SavePick(c, m, k)
  \/ \E e \in Evaluators : RunEvaluation(e)

Spec == Init /\ [][Next]_vars

\* The collector starts an evaluation after each live sync, for ever; each of its
\* statements succeeds sometimes.
Fairness ==
  /\ WF_vars(\E e \in Evaluators : Begin(e))
  /\ \A e \in Evaluators :
       /\ SF_vars(EvaluateScores(e)) /\ SF_vars(EvaluateStats(e)) /\ SF_vars(JudgeCoupons(e))

FairSpec == Spec /\ Fairness

-----------------------------------------------------------------------------
TypeOK ==
  /\ reports \in [Matches -> Seq(State)] /\ \A m \in Matches : reports[m] # <<>>
  /\ row \in [Matches -> State]
  /\ todo \in [Matches -> SUBSET Teams] /\ stats \in [Matches -> SUBSET Teams]
  /\ preds \in [Matches -> Seq(Answers)]
  /\ outcomes \subseteq Outcome
  /\ picks \subseteq Pick
  /\ verdicts \subseteq [pick : picks, actual : BOOLEAN, correct : BOOLEAN]
  /\ eval \in [Evaluators -> Steps]

\* The outcome of a score market is the final result's, whatever old answers the
\* collector's jobs write over the row and however the evaluations overlap.
ScoreOutcomesAreFinal ==
  \A o \in outcomes :
    o.market = "home_win" =>
      /\ IsOver(o.match)
      /\ o.actual = (Latest(reports[o.match]).score = "ahead")

\* A prediction has one outcome per market, and a pick one verdict, though runs
\* overlap and newer predictions are saved in between.
NothingIsJudgedTwice ==
  /\ \A o, p \in outcomes :
       <<o.match, o.pred, o.market>> = <<p.match, p.pred, p.market>> => o = p
  /\ \A v, w \in verdicts : v.pick = w.pick => v = w

\* A pick on the home side counts as correct exactly when the home side won in the
\* end, however late the result and the verdict came, provided every prediction of
\* the match calls it likely.
VerdictFollowsFinalScore ==
  \A v \in verdicts :
    LET m == v.pick[2]
    IN  /\ v.pick[3] = "home_win"
        /\ \A i \in 1..Len(preds[m]) : preds[m][i]["home_win"] = "likely"
        => v.correct = (Latest(reports[m]).score = "ahead")

\* A pick of an evaluated market on a match that is over for good is judged, unless
\* the newest prediction does not answer its market or, for a statistic, no team has a
\* row.  A pick of another market never is: no statement writes outcomes of it.
EveryPickIsJudged ==
  \A c \in Coupons, m \in Matches, k \in Evaluated :
    <>[](/\ <<c, m, k>> \in picks /\ row[m].status = "finished"
         /\ preds[m][Len(preds[m])][k] # "absent"
         /\ k = "over_corners_9_5" => stats[m] # {})
      => <>Judged(<<c, m, k>>)

\* The final results, which only the reports know.
Ledger == INSTANCE Settlement WITH
       Results <- {"ahead", "level"},
       result <- [m \in Matches |-> IF IsOver(m) THEN Latest(reports[m]).score ELSE "open"]

\* Runs that overlap, fail half-way and read rows which late answers overwrite still
\* settle and judge as one ledger would: nothing before the end of its match, nothing
\* twice, nothing changed later.
ImplementsSettlement == Ledger!Spec

\* What the notification says of a selection, "correct", is that it came true.
CorrectSelectionsCameTrue ==
  \A v \in verdicts : v.correct => v.actual
=============================================================================
