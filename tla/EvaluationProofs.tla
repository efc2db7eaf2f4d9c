--------------------------- MODULE EvaluationProofs ---------------------------
(***************************************************************************)
(* Proofs about Evaluation, for any matches, coupons, markets' answers and *)
(* number of overlapping runs: types, that nothing is judged twice, that   *)
(* the outcomes of the score are those of the final result, and that the   *)
(* statements together implement Settlement.                               *)
(***************************************************************************)
EXTENDS Evaluation, TLAPS

-----------------------------------------------------------------------------
\* Types.

LEMMA TypeInit == Init => TypeOK
<1>1. Kickoff \in State /\ <<Kickoff>> \in Seq(State) /\ <<Kickoff>> # <<>>
  BY DEF Kickoff, State
<1>2. <<>> \in Seq(Answers)
  OBVIOUS
<1>. QED
  BY <1>1, <1>2 DEF Init, TypeOK, Steps

LEMMA CollectType ==
  ASSUME TypeOK, NEW m \in Matches, Collect(m)
  PROVE  TypeOK'
<1>. USE DEF resultVars
<1>1. CASE Report(m)
  <2>1. PICK s \in State : reports' = [reports EXCEPT ![m] = Append(@, s)]
    BY <1>1 DEF Report
  <2>2. reports[m] \in Seq(State)
    BY DEF TypeOK
  <2>3. Append(reports[m], s) \in Seq(State) /\ Append(reports[m], s) # <<>>
    BY <2>2
  <2>4. reports' \in [Matches -> Seq(State)] /\ \A n \in Matches : reports'[n] # <<>>
    BY <2>1, <2>3 DEF TypeOK
  <2>. QED
    BY <1>1, <2>4 DEF Report, TypeOK
<1>2. CASE WriteRow(m)
  <2>1. PICK i \in 1..Len(reports[m]) : Upsert(m, reports[m][i])
    BY <1>2 DEF WriteRow
  <2>2. reports[m][i] \in State
    BY <2>1 DEF TypeOK
  <2>. QED
    BY <2>1, <2>2 DEF Upsert, TypeOK
<1>3. CASE StartDetails(m)
  BY <1>3 DEF StartDetails, TypeOK
<1>4. CASE AbandonDetails(m)
  BY <1>4 DEF AbandonDetails, TypeOK
<1>5. CASE \E t \in Teams : WriteStats(m, t)
  <2>1. PICK t \in Teams : WriteStats(m, t)
    BY <1>5
  <2>2. /\ todo' \in [Matches -> SUBSET Teams]
        /\ [stats EXCEPT ![m] = @ \cup {t}] \in [Matches -> SUBSET Teams]
    BY <2>1 DEF WriteStats, TypeOK
  <2>3. stats' \in [Matches -> SUBSET Teams]
    BY <2>1, <2>2 DEF WriteStats, TypeOK
  <2>. QED
    BY <2>1, <2>2, <2>3 DEF WriteStats, TypeOK
<1>. QED
  BY <1>1, <1>2, <1>3, <1>4, <1>5 DEF Collect

LEMMA RequestType ==
  ASSUME TypeOK, NEW m \in Matches,
         \/ Predict(m)
         \/ \E c \in Coupons, k \in Markets : SavePick(c, m, k)
  PROVE  TypeOK'
<1>. USE DEF resultVars
<1>1. CASE Predict(m)
  <2>1. PICK a \in Answers : preds' = [preds EXCEPT ![m] = Append(@, a)]
    BY <1>1 DEF Predict
  <2>2. preds' \in [Matches -> Seq(Answers)]
    BY <2>1 DEF TypeOK
  <2>. QED
    BY <1>1, <2>2 DEF Predict, TypeOK
<1>2. CASE \E c \in Coupons, k \in Markets : SavePick(c, m, k)
  <2>1. PICK c \in Coupons, k \in Markets : SavePick(c, m, k)
    BY <1>2
  <2>2. picks' \subseteq Pick /\ picks \subseteq picks'
    BY <2>1 DEF SavePick, TypeOK, Pick
  <2>3. verdicts' \subseteq [pick : picks', actual : BOOLEAN, correct : BOOLEAN]
    BY <2>1, <2>2 DEF SavePick, TypeOK
  <2>. QED
    BY <2>1, <2>2, <2>3 DEF SavePick, TypeOK
<1>. QED
  BY <1>1, <1>2

LEMMA NewOutcomesType ==
  ASSUME TypeOK, NEW k \in Markets, NEW S \in SUBSET Matches, NEW T
  PROVE  NewOutcomes(k, S, T) \subseteq Outcome
<1>1. \A m \in S : Unsettled(m, k) \subseteq Nat
  BY DEF Unsettled, TypeOK
<1>2. ASSUME NEW o \in NewOutcomes(k, S, T)
      PROVE  o \in Outcome
  <2>1. PICK m \in S : \E i \in Unsettled(m, k) :
          o = [match |-> m, pred |-> i, market |-> k, actual |-> m \in T,
               correct |-> (m \in T <=> preds[m][i][k] = "likely")]
    BY <1>2 DEF NewOutcomes
  <2>. QED
    BY <1>1, <2>1 DEF Outcome
<1>. QED
  BY <1>2

LEMMA EvaluationType ==
  ASSUME TypeOK, NEW e \in Evaluators, RunEvaluation(e)
  PROVE  TypeOK'
<1>. USE DEF worldVars, resultVars, GoTo, Steps
<1>1. eval' \in [Evaluators -> Steps]
  BY DEF RunEvaluation, Begin, EvaluateScores, EvaluateStats, EvaluationFails,
         JudgeCoupons, JudgeFails, TypeOK
<1>2. CASE Begin(e) \/ EvaluationFails(e) \/ JudgeFails(e)
  BY <1>1, <1>2 DEF Begin, EvaluationFails, JudgeFails, TypeOK
<1>3. CASE EvaluateScores(e)
  <2>1. outcomes' \subseteq Outcome
    BY <1>3, NewOutcomesType DEF EvaluateScores, TypeOK, Markets, Evaluated, Finished
  <2>. QED
    BY <1>1, <1>3, <2>1 DEF EvaluateScores, TypeOK
<1>4. CASE EvaluateStats(e)
  <2>1. outcomes' \subseteq Outcome
    BY <1>4, NewOutcomesType DEF EvaluateStats, TypeOK, Markets, Evaluated, Finished
  <2>. QED
    BY <1>1, <1>4, <2>1 DEF EvaluateStats, TypeOK
<1>5. CASE JudgeCoupons(e)
  <2>1. NewVerdicts \subseteq [pick : picks, actual : BOOLEAN, correct : BOOLEAN]
    BY DEF NewVerdicts, ToJudge
  <2>. QED
    BY <1>1, <1>5, <2>1 DEF JudgeCoupons, TypeOK
<1>. QED
  BY <1>2, <1>3, <1>4, <1>5 DEF RunEvaluation

\* The tables keep their types and every verdict is of a saved selection.
THEOREM TypeCorrect == Spec => []TypeOK
<1>1. ASSUME TypeOK, [Next]_vars
      PROVE  TypeOK'
  <2>1. CASE \E m \in Matches : Collect(m) \/ Predict(m)
    BY <1>1, <2>1, CollectType, RequestType
  <2>2. CASE \E c \in Coupons, m \in Matches, k \in Markets : SavePick(c, m, k)
    BY <1>1, <2>2, RequestType
  <2>3. CASE \E e \in Evaluators : RunEvaluation(e)
    BY <1>1, <2>3, EvaluationType
  <2>4. CASE UNCHANGED vars
    BY <1>1, <2>4 DEF vars, worldVars, resultVars, TypeOK
  <2>. QED
    BY <1>1, <2>1, <2>2, <2>3, <2>4 DEF Next
<1>. QED
  BY <1>1, TypeInit, PTL DEF Spec

-----------------------------------------------------------------------------
\* Once.

\* An outcome that an INSERT adds is of a prediction and market that had none.
LEMMA NewOutcomesAreNew ==
  ASSUME NEW k, NEW S \in SUBSET Matches, NEW T, NEW o \in NewOutcomes(k, S, T)
  PROVE  /\ o.match \in S /\ o.market = k
         /\ o.actual = (o.match \in T)
         /\ o.correct = (o.match \in T <=> preds[o.match][o.pred][k] = "likely")
         /\ \A p \in outcomes :
              <<p.match, p.pred, p.market>> # <<o.match, o.pred, o.market>>
<1>1. PICK m \in S : \E i \in Unsettled(m, k) :
        o = [match |-> m, pred |-> i, market |-> k, actual |-> m \in T,
             correct |-> (m \in T <=> preds[m][i][k] = "likely")]
  BY DEF NewOutcomes
<1>2. PICK i \in Unsettled(m, k) :
        o = [match |-> m, pred |-> i, market |-> k, actual |-> m \in T,
             correct |-> (m \in T <=> preds[m][i][k] = "likely")]
  BY <1>1
<1>3. /\ o.match = m /\ o.pred = i /\ o.market = k /\ o.actual = (m \in T)
      /\ o.correct = (m \in T <=> preds[m][i][k] = "likely")
  BY <1>2
<1>4. \A p \in outcomes : <<p.match, p.pred, p.market>> # <<m, i, k>>
  BY DEF Unsettled
<1>. QED
  BY <1>3, <1>4

OutcomeOnce ==
  \A o, p \in outcomes :
    <<o.match, o.pred, o.market>> = <<p.match, p.pred, p.market>> => o = p

VerdictOnce == \A v, w \in verdicts : v.pick = w.pick => v = w

LEMMA InsertKeepsOnce ==
  ASSUME TypeOK, OutcomeOnce, NEW k \in Markets, NEW S \in SUBSET Matches, NEW T,
         outcomes' = outcomes \cup NewOutcomes(k, S, T)
  PROVE  OutcomeOnce'
<1>. SUFFICES ASSUME NEW o \in outcomes', NEW p \in outcomes',
                     <<o.match, o.pred, o.market>> = <<p.match, p.pred, p.market>>
              PROVE  o = p
  BY DEF OutcomeOnce
<1>1. CASE o \in outcomes /\ p \in outcomes
  BY <1>1 DEF OutcomeOnce
<1>2. CASE o \in NewOutcomes(k, S, T) /\ p \in NewOutcomes(k, S, T)
  <2>1. o \in Outcome /\ p \in Outcome
    BY <1>2, NewOutcomesType
  <2>2. o.match = p.match /\ o.pred = p.pred /\ o.market = p.market
    OBVIOUS
  <2>3. o.actual = p.actual /\ o.correct = p.correct
    BY <1>2, <2>2, NewOutcomesAreNew
  <2>. QED
    BY <2>1, <2>2, <2>3 DEF Outcome
<1>3. CASE o \in outcomes /\ p \in NewOutcomes(k, S, T)
  BY <1>3, NewOutcomesAreNew
<1>4. CASE o \in NewOutcomes(k, S, T) /\ p \in outcomes
  BY <1>4, NewOutcomesAreNew
<1>. QED
  BY <1>1, <1>2, <1>3, <1>4

\* A run judges what had no verdict, by the one outcome of the newest prediction.
LEMMA JudgeKeepsOnce ==
  ASSUME TypeOK, OutcomeOnce, VerdictOnce, verdicts' = verdicts \cup NewVerdicts
  PROVE  VerdictOnce'
<1>. SUFFICES ASSUME NEW v \in verdicts', NEW w \in verdicts', v.pick = w.pick
              PROVE  v = w
  BY DEF VerdictOnce
<1>1. CASE v \in verdicts /\ w \in verdicts
  BY <1>1 DEF VerdictOnce
<1>2. \A x \in NewVerdicts : ~Judged(x.pick)
  BY DEF NewVerdicts, ToJudge
<1>3. CASE v \in NewVerdicts /\ w \in NewVerdicts
  <2>1. PICK o \in outcomes : o.pred = Len(preds[o.match]) /\ Concerns(o, v)
    BY <1>3 DEF NewVerdicts
  <2>2. PICK p \in outcomes : p.pred = Len(preds[p.match]) /\ Concerns(p, w)
    BY <1>3 DEF NewVerdicts
  <2>3. o.match = p.match /\ o.market = p.market
    BY <2>1, <2>2 DEF Concerns
  <2>4. o = p
    BY <2>1, <2>2, <2>3 DEF OutcomeOnce
  <2>5. v.actual = w.actual /\ v.correct = w.correct
    BY <2>1, <2>2, <2>4 DEF Concerns
  <2>6. /\ v \in [pick : ToJudge, actual : BOOLEAN, correct : BOOLEAN]
        /\ w \in [pick : ToJudge, actual : BOOLEAN, correct : BOOLEAN]
    BY <1>3 DEF NewVerdicts
  <2>. QED
    BY <2>5, <2>6
<1>. QED
  BY <1>1, <1>2, <1>3 DEF Judged

\* However runs overlap, and whatever is saved in between, a prediction has one
\* outcome per market and a selection one verdict.
THEOREM JudgedOnce == Spec => []NothingIsJudgedTwice
<1>1. Init => OutcomeOnce /\ VerdictOnce
  BY DEF Init, OutcomeOnce, VerdictOnce
<1>2. ASSUME TypeOK, OutcomeOnce, VerdictOnce, [Next]_vars
      PROVE  (OutcomeOnce /\ VerdictOnce)'
  <2>1. CASE UNCHANGED resultVars
    BY <1>2, <2>1 DEF resultVars, OutcomeOnce, VerdictOnce
  <2>2. ASSUME NEW e \in Evaluators, EvaluateScores(e)
        PROVE  (OutcomeOnce /\ VerdictOnce)'
    <3>1. OutcomeOnce'
      BY <1>2, <2>2, InsertKeepsOnce DEF EvaluateScores, Finished, Markets, Evaluated
    <3>. QED
      BY <1>2, <2>2, <3>1 DEF EvaluateScores, VerdictOnce
  <2>3. ASSUME NEW e \in Evaluators, EvaluateStats(e)
        PROVE  (OutcomeOnce /\ VerdictOnce)'
    <3>1. OutcomeOnce'
      BY <1>2, <2>3, InsertKeepsOnce DEF EvaluateStats, Finished, Markets, Evaluated
    <3>. QED
      BY <1>2, <2>3, <3>1 DEF EvaluateStats, VerdictOnce
  <2>4. ASSUME NEW e \in Evaluators, JudgeCoupons(e)
        PROVE  (OutcomeOnce /\ VerdictOnce)'
    <3>1. VerdictOnce'
      BY <1>2, <2>4, JudgeKeepsOnce DEF JudgeCoupons
    <3>. QED
      BY <1>2, <2>4, <3>1 DEF JudgeCoupons, OutcomeOnce
  <2>5. \/ UNCHANGED resultVars
        \/ \E e \in Evaluators : EvaluateScores(e) \/ EvaluateStats(e) \/ JudgeCoupons(e)
    BY <1>2 DEF Next, vars, Collect, Report, WriteRow, Upsert, StartDetails, WriteStats,
       AbandonDetails, Predict, SavePick, RunEvaluation, Begin, EvaluationFails, JudgeFails
  <2>. QED
    BY <2>1, <2>2, <2>3, <2>4, <2>5
<1>3. OutcomeOnce /\ VerdictOnce => NothingIsJudgedTwice
  BY DEF OutcomeOnce, VerdictOnce, NothingIsJudgedTwice
<1>. QED
  BY <1>1, <1>2, <1>3, TypeCorrect, PTL DEF Spec

-----------------------------------------------------------------------------
\* The final result.

\* The API reports "finished" once, at the end of a match's reports.
FinishedIsLast ==
  \A m \in Matches : \A i \in 1..Len(reports[m]) :
    reports[m][i].status = "finished" => i = Len(reports[m])

\* A row that says finished holds the final report, however old the answers that
\* jobs write.
RowIsFinal ==
  \A m \in Matches :
    row[m].status = "finished" => IsOver(m) /\ row[m] = Latest(reports[m])

FinalInv == FinishedIsLast /\ RowIsFinal /\ ScoreOutcomesAreFinal

LEMMA FinalInit == Init => FinalInv
<1>1. Len(<<Kickoff>>) = 1 /\ <<Kickoff>>[1] = Kickoff
  OBVIOUS
<1>2. Kickoff.status # "finished"
  BY DEF Kickoff
<1>. QED
  BY <1>1, <1>2 DEF Init, FinalInv, FinishedIsLast, RowIsFinal, ScoreOutcomesAreFinal

\* A report is only added to a match that is not over, so it disturbs no row that
\* says finished and no outcome.
LEMMA ReportKeepsFinal ==
  ASSUME TypeOK, FinalInv, NEW m \in Matches, Report(m)
  PROVE  FinalInv'
<1>. USE DEF FinalInv
<1>1. PICK s \in State : reports' = [reports EXCEPT ![m] = Append(@, s)]
  BY DEF Report
<1>2. reports[m] \in Seq(State) /\ reports[m] # <<>> /\ Len(reports[m]) \in Nat
  BY DEF TypeOK
<1>3. /\ reports'[m] = Append(reports[m], s)
      /\ Len(reports'[m]) = Len(reports[m]) + 1
      /\ \A i \in 1..Len(reports[m]) : reports'[m][i] = reports[m][i]
      /\ \A n \in Matches \ {m} : reports'[n] = reports[n]
  BY <1>1, <1>2 DEF TypeOK
<1>4. reports[m][Len(reports[m])].status # "finished"
  BY DEF Report, IsOver, Latest
<1>5. \A i \in 1..Len(reports[m]) : reports[m][i].status # "finished"
  BY <1>4 DEF FinishedIsLast
<1>6. FinishedIsLast'
  <2>. SUFFICES ASSUME NEW n \in Matches, NEW i \in 1..Len(reports'[n]),
                       reports'[n][i].status = "finished"
                PROVE  i = Len(reports'[n])
    BY DEF FinishedIsLast
  <2>1. CASE n = m
    <3>1. i \notin 1..Len(reports[m])
      BY <1>3, <1>5, <2>1
    <3>. QED
      BY <1>2, <1>3, <2>1, <3>1
  <2>2. CASE n # m
    BY <1>3, <2>2 DEF FinishedIsLast
  <2>. QED
    BY <2>1, <2>2
<1>7. ~IsOver(m) /\ row' = row /\ outcomes' = outcomes
  BY DEF Report, resultVars
<1>8. RowIsFinal'
  BY <1>3, <1>7 DEF RowIsFinal, IsOver, Latest
<1>9. ScoreOutcomesAreFinal'
  <2>1. \A o \in outcomes : o.match \in Matches
    BY DEF TypeOK, Outcome
  <2>2. \A o \in outcomes : o.market = "home_win" => o.match # m
    BY <1>7 DEF ScoreOutcomesAreFinal
  <2>. QED
    BY <1>3, <1>7, <2>1, <2>2 DEF ScoreOutcomesAreFinal, IsOver, Latest
<1>. QED
  BY <1>6, <1>8, <1>9

\* Only the last report can be written as finished.
LEMMA WriteRowKeepsFinal ==
  ASSUME TypeOK, FinalInv, NEW m \in Matches, WriteRow(m)
  PROVE  FinalInv'
<1>. USE DEF FinalInv
<1>1. PICK i \in 1..Len(reports[m]) : Upsert(m, reports[m][i])
  BY DEF WriteRow
<1>2. /\ row' = [row EXCEPT ![m] = reports[m][i]]
      /\ reports' = reports /\ outcomes' = outcomes
  BY <1>1 DEF Upsert, resultVars
<1>3. reports[m][i].status = "finished" => reports[m][i] = Latest(reports[m])
  BY DEF FinishedIsLast, Latest
<1>4. RowIsFinal'
  BY <1>2, <1>3 DEF RowIsFinal, IsOver, TypeOK
<1>. QED
  BY <1>2, <1>4 DEF FinishedIsLast, ScoreOutcomesAreFinal, IsOver

\* The INSERT reads the score of rows that say finished.
LEMMA ScoresKeepFinal ==
  ASSUME TypeOK, FinalInv, NEW e \in Evaluators, EvaluateScores(e)
  PROVE  FinalInv'
<1>. USE DEF FinalInv
<1>1. /\ outcomes' = outcomes \cup NewOutcomes("home_win", Finished \cap WithScore, HomeWins)
      /\ reports' = reports /\ row' = row
  BY DEF EvaluateScores, worldVars
<1>2. ASSUME NEW o \in NewOutcomes("home_win", Finished \cap WithScore, HomeWins)
      PROVE  IsOver(o.match) /\ o.actual = (Latest(reports[o.match]).score = "ahead")
  <2>1. Finished \cap WithScore \in SUBSET Matches
    BY DEF Finished
  <2>2. o.match \in Finished /\ o.actual = (o.match \in HomeWins)
    BY <1>2, <2>1, NewOutcomesAreNew
  <2>3. /\ o.match \in Matches
        /\ IsOver(o.match) /\ row[o.match] = Latest(reports[o.match])
    BY <2>2 DEF Finished, RowIsFinal
  <2>. QED
    BY <2>2, <2>3 DEF HomeWins
<1>3. ScoreOutcomesAreFinal'
  BY <1>1, <1>2 DEF ScoreOutcomesAreFinal, IsOver
<1>. QED
  BY <1>1, <1>3 DEF FinishedIsLast, RowIsFinal, IsOver

\* The other INSERT adds nothing about the score.
LEMMA StatsKeepFinal ==
  ASSUME TypeOK, FinalInv, NEW e \in Evaluators, EvaluateStats(e)
  PROVE  FinalInv'
<1>. USE DEF FinalInv
<1>. DEFINE Added == NewOutcomes("over_corners_9_5", Finished \cap WithStats,
                                {m \in Matches : ManyCorners(m, stats[m])})
<1>1. outcomes' = outcomes \cup Added /\ reports' = reports /\ row' = row
  BY DEF EvaluateStats, worldVars
<1>2. \A o \in Added : o.market # "home_win"
  BY NewOutcomesAreNew DEF Finished
<1>3. ScoreOutcomesAreFinal'
  BY <1>1, <1>2 DEF ScoreOutcomesAreFinal, IsOver
<1>. QED
  BY <1>1, <1>3 DEF FinishedIsLast, RowIsFinal, IsOver

LEMMA FinalStep == TypeOK /\ FinalInv /\ [Next]_vars => FinalInv'
<1>. SUFFICES ASSUME TypeOK, FinalInv, [Next]_vars PROVE FinalInv'
  OBVIOUS
<1>1. CASE UNCHANGED <<reports, row, outcomes>>
  BY <1>1 DEF FinalInv, FinishedIsLast, RowIsFinal, ScoreOutcomesAreFinal, IsOver
<1>2. \/ UNCHANGED <<reports, row, outcomes>>
      \/ \E m \in Matches : Report(m) \/ WriteRow(m)
      \/ \E e \in Evaluators : EvaluateScores(e) \/ EvaluateStats(e)
  BY DEF Next, vars, worldVars, resultVars, Collect, StartDetails, WriteStats,
     AbandonDetails, Predict, SavePick, RunEvaluation, Begin, EvaluationFails,
     JudgeCoupons, JudgeFails
<1>. QED
  BY <1>1, <1>2, ReportKeepsFinal, WriteRowKeepsFinal, ScoresKeepFinal, StatsKeepFinal

\* Whatever old answers jobs write and however evaluations overlap, the outcome of
\* a score market is the one of the final result.
THEOREM ScoresAreFinal == Spec => []ScoreOutcomesAreFinal
<1>1. FinalInv => ScoreOutcomesAreFinal
  BY DEF FinalInv
<1>. QED
  BY <1>1, FinalInit, FinalStep, TypeCorrect, PTL DEF Spec

-----------------------------------------------------------------------------
\* Verdicts.

\* An outcome is of a saved prediction, and correct when the prediction leaned the
\* way the match went.
OutcomeReadsPrediction ==
  \A o \in outcomes :
    /\ o.pred \in 1..Len(preds[o.match])
    /\ o.correct = (o.actual <=> preds[o.match][o.pred][o.market] = "likely")

VerdictHasOutcome == \A v \in verdicts : \E o \in outcomes : Concerns(o, v)

VerdictInv == OutcomeReadsPrediction /\ VerdictHasOutcome

LEMMA InsertKeepsVerdicts ==
  ASSUME TypeOK, VerdictInv, NEW k \in Markets, NEW S \in SUBSET Matches, NEW T,
         outcomes' = outcomes \cup NewOutcomes(k, S, T), UNCHANGED <<preds, verdicts>>
  PROVE  VerdictInv'
<1>. USE DEF VerdictInv
<1>1. ASSUME NEW o \in NewOutcomes(k, S, T)
      PROVE  o.pred \in 1..Len(preds[o.match])
  <2>1. PICK m \in S : \E i \in Unsettled(m, k) :
          o = [match |-> m, pred |-> i, market |-> k, actual |-> m \in T,
               correct |-> (m \in T <=> preds[m][i][k] = "likely")]
    BY <1>1 DEF NewOutcomes
  <2>. QED
    BY <2>1 DEF Unsettled
<1>2. ASSUME NEW o \in NewOutcomes(k, S, T)
      PROVE  o.correct = (o.actual <=> preds[o.match][o.pred][o.market] = "likely")
  <2>1. o.market = k /\ o.actual = (o.match \in T)
    BY <1>2, NewOutcomesAreNew
  <2>2. o.correct = (o.match \in T <=> preds[o.match][o.pred][k] = "likely")
    BY <1>2, NewOutcomesAreNew
  <2>. QED
    BY <2>1, <2>2
<1>3. OutcomeReadsPrediction'
  BY <1>1, <1>2 DEF OutcomeReadsPrediction
<1>4. VerdictHasOutcome'
  BY DEF VerdictHasOutcome, Concerns
<1>. QED
  BY <1>3, <1>4

\* A saved prediction is never changed.
LEMMA PredictKeepsVerdicts ==
  ASSUME TypeOK, VerdictInv, NEW m \in Matches, Predict(m)
  PROVE  VerdictInv'
<1>. USE DEF VerdictInv
<1>1. PICK a \in Answers : preds' = [preds EXCEPT ![m] = Append(@, a)]
  BY DEF Predict
<1>2. preds[m] \in Seq(Answers)
  BY DEF TypeOK
<1>3. /\ Len(preds[m]) \in Nat /\ Len(preds'[m]) = Len(preds[m]) + 1
      /\ \A i \in 1..Len(preds[m]) : preds'[m][i] = preds[m][i]
      /\ \A n \in Matches \ {m} : preds'[n] = preds[n]
  BY <1>1, <1>2 DEF TypeOK
<1>4. /\ outcomes' = outcomes /\ verdicts' = verdicts
      /\ \A o \in outcomes : o.match \in Matches
  BY DEF Predict, resultVars, TypeOK, Outcome
<1>5. OutcomeReadsPrediction'
  <2>. SUFFICES ASSUME NEW o \in outcomes
                PROVE  /\ o.pred \in 1..Len(preds'[o.match])
                       /\ preds'[o.match][o.pred] = preds[o.match][o.pred]
    BY <1>4 DEF OutcomeReadsPrediction
  <2>1. CASE o.match = m
    BY <1>3, <2>1 DEF OutcomeReadsPrediction
  <2>2. CASE o.match # m
    BY <1>3, <1>4, <2>2 DEF OutcomeReadsPrediction
  <2>. QED
    BY <2>1, <2>2
<1>. QED
  BY <1>4, <1>5 DEF VerdictHasOutcome

LEMMA JudgeKeepsVerdicts ==
  ASSUME VerdictInv, NEW e \in Evaluators, JudgeCoupons(e)
  PROVE  VerdictInv'
<1>1. \A v \in NewVerdicts : \E o \in outcomes : Concerns(o, v)
  BY DEF NewVerdicts
<1>. QED
  BY <1>1 DEF JudgeCoupons, worldVars, VerdictInv, OutcomeReadsPrediction, VerdictHasOutcome

\* The verdict on a selection of the home side is right, as long as no prediction of
\* the match doubted it.
THEOREM VerdictsFollowTheScore == Spec => []VerdictFollowsFinalScore
<1>1. Init => VerdictInv
  BY DEF Init, VerdictInv, OutcomeReadsPrediction, VerdictHasOutcome
<1>2. ASSUME TypeOK, VerdictInv, [Next]_vars
      PROVE  VerdictInv'
  <2>1. CASE UNCHANGED <<preds, outcomes, verdicts>>
    BY <1>2, <2>1 DEF VerdictInv, OutcomeReadsPrediction, VerdictHasOutcome
  <2>2. CASE \E e \in Evaluators : EvaluateScores(e)
    BY <1>2, <2>2, InsertKeepsVerdicts DEF EvaluateScores, worldVars, Finished, Markets, Evaluated
  <2>3. CASE \E e \in Evaluators : EvaluateStats(e)
    BY <1>2, <2>3, InsertKeepsVerdicts DEF EvaluateStats, worldVars, Finished, Markets, Evaluated
  <2>4. \/ UNCHANGED <<preds, outcomes, verdicts>>
        \/ \E m \in Matches : Predict(m)
        \/ \E e \in Evaluators : EvaluateScores(e) \/ EvaluateStats(e) \/ JudgeCoupons(e)
    BY <1>2 DEF Next, vars, worldVars, resultVars, Collect, Report, WriteRow, Upsert,
       StartDetails, WriteStats, AbandonDetails, SavePick, RunEvaluation, Begin,
       EvaluationFails, JudgeFails
  <2>. QED
    BY <1>2, <2>1, <2>2, <2>3, <2>4, PredictKeepsVerdicts, JudgeKeepsVerdicts
<1>3. TypeOK /\ VerdictInv /\ ScoreOutcomesAreFinal => VerdictFollowsFinalScore
  <2>. SUFFICES ASSUME TypeOK, VerdictInv, ScoreOutcomesAreFinal,
                       NEW v \in verdicts, v.pick[3] = "home_win",
                       \A i \in 1..Len(preds[v.pick[2]]) :
                         preds[v.pick[2]][i]["home_win"] = "likely"
                PROVE  v.correct = (Latest(reports[v.pick[2]]).score = "ahead")
    BY DEF VerdictFollowsFinalScore
  <2>1. PICK o \in outcomes : Concerns(o, v)
    BY DEF VerdictInv, VerdictHasOutcome
  <2>2. /\ o.match = v.pick[2] /\ o.market = "home_win"
        /\ o.actual = v.actual /\ o.correct = v.correct
    BY <2>1 DEF Concerns
  <2>3. o.actual \in BOOLEAN /\ o.correct \in BOOLEAN
    BY DEF TypeOK, Outcome
  <2>4. o.correct = o.actual
    BY <2>2, <2>3 DEF VerdictInv, OutcomeReadsPrediction
  <2>5. o.actual = (Latest(reports[o.match]).score = "ahead")
    BY <2>2 DEF ScoreOutcomesAreFinal
  <2>. QED
    BY <2>2, <2>4, <2>5
<1>. QED
  BY <1>1, <1>2, <1>3, TypeCorrect, ScoresAreFinal, PTL DEF Spec

-----------------------------------------------------------------------------
\* The ledger.

\* The final results as the reports tell them.
Result == [m \in Matches |-> IF IsOver(m) THEN Latest(reports[m]).score ELSE "open"]

LEMMA LedgerInit == Init => Ledger!Init
<1>. SUFFICES ASSUME Init PROVE Ledger!Init
  OBVIOUS
<1>1. ASSUME NEW m \in Matches
      PROVE  ~IsOver(m)
  <2>1. reports[m] = <<Kickoff>> /\ Len(<<Kickoff>>) = 1 /\ <<Kickoff>>[1] = Kickoff
    BY DEF Init
  <2>. QED
    BY <2>1 DEF IsOver, Latest, Kickoff
<1>. QED
  BY <1>1 DEF Init, Ledger!Init

\* A report opens no result again: it changes none, or ends its match.
LEMMA ReportIsEnd ==
  ASSUME TypeOK, NEW m \in Matches, Report(m)
  PROVE  Ledger!End(m) \/ UNCHANGED <<Result, outcomes, verdicts>>
<1>1. PICK s \in State :
        /\ s.score # "null" /\ reports' = [reports EXCEPT ![m] = Append(@, s)]
  BY DEF Report
<1>2. /\ reports'[m] = Append(reports[m], s)
      /\ \A n \in Matches \ {m} : reports'[n] = reports[n]
  BY <1>1 DEF TypeOK
<1>3. Latest(reports'[m]) = s
  <2>1. reports[m] \in Seq(State)
    BY DEF TypeOK
  <2>. QED
    BY <1>2, <2>1 DEF Latest
<1>4. Result[m] = "open" /\ Result \in [Matches -> {"open", "null", "ahead", "level"}]
  <2>1. \A n \in Matches : Latest(reports[n]) \in State
    <3>. SUFFICES ASSUME NEW n \in Matches PROVE Latest(reports[n]) \in State
      OBVIOUS
    <3>1. reports[n] \in Seq(State) /\ reports[n] # <<>>
      BY DEF TypeOK
    <3>. QED
      BY <3>1 DEF Latest
  <2>. QED
    BY <2>1 DEF Report, Result, State
<1>5. Result' = [Result EXCEPT ![m] = IF s.status = "finished" THEN s.score ELSE "open"]
  <2>1. \A n \in Matches \ {m} : Result'[n] = Result[n]
    BY <1>2 DEF Result, IsOver, Latest
  <2>2. Result'[m] = IF s.status = "finished" THEN s.score ELSE "open"
    BY <1>3 DEF Result, IsOver
  <2>3. Result' = [n \in Matches |-> Result'[n]]
    BY DEF Result
  <2>. QED
    BY <1>4, <2>1, <2>2, <2>3
<1>6. UNCHANGED <<outcomes, verdicts>>
  BY DEF Report, resultVars
<1>7. CASE s.status = "finished"
  <2>1. s.score \in {"ahead", "level"}
    BY <1>1 DEF State
  <2>2. Result' = [Result EXCEPT ![m] = s.score]
    BY <1>5, <1>7
  <2>. QED
    BY <1>4, <1>6, <2>1, <2>2 DEF Ledger!End, Result
<1>8. CASE s.status # "finished"
  <2>1. Result' = Result
    BY <1>4, <1>5, <1>8
  <2>. QED
    BY <1>6, <2>1
<1>. QED
  BY <1>7, <1>8

\* An INSERT of outcomes, of matches whose rows say finished, settles.
LEMMA InsertSettles ==
  ASSUME TypeOK, FinalInv, (OutcomeOnce /\ FinalInv)', NEW k \in Markets,
         NEW U \in SUBSET Finished, NEW T,
         outcomes' = outcomes \cup NewOutcomes(k, U, T), UNCHANGED <<reports, verdicts>>
  PROVE  Ledger!Settle
<1>1. UNCHANGED <<Result, verdicts>>
  BY DEF Result, IsOver
<1>2. U \in SUBSET Matches
  BY DEF Finished
<1>3. ASSUME NEW o \in outcomes' \ outcomes
      PROVE  /\ Result[o.match] # "open"
             /\ o.market = "home_win" => o.actual = (Result[o.match] = "ahead")
  <2>1. o \in NewOutcomes(k, U, T)
    BY <1>3
  <2>2. o.match \in Finished
    BY <1>2, <2>1, NewOutcomesAreNew
  <2>3. o.match \in Matches /\ IsOver(o.match) /\ reports[o.match] \in Seq(State)
    BY <2>2 DEF Finished, FinalInv, RowIsFinal, TypeOK
  <2>4. Result[o.match] = Latest(reports[o.match]).score
    BY <2>3 DEF Result
  <2>5. Latest(reports[o.match]) \in State
    <3>1. reports[o.match] # <<>>
      BY <2>3 DEF TypeOK
    <3>. QED
      BY <2>3, <3>1 DEF Latest
  <2>6. o.market = "home_win" => o.actual = (Latest(reports[o.match]).score = "ahead")
    BY <1>3 DEF FinalInv, ScoreOutcomesAreFinal, Latest
  <2>. QED
    BY <2>4, <2>5, <2>6 DEF State
<1>4. ASSUME NEW o \in outcomes', NEW p \in outcomes',
             <<p.match, p.pred, p.market>> = <<o.match, o.pred, o.market>>
      PROVE  p = o
  BY <1>4 DEF OutcomeOnce
<1>5. outcomes \subseteq outcomes'
  OBVIOUS
<1>. QED
  BY <1>1, <1>3, <1>4, <1>5 DEF Ledger!Settle, Result

LEMMA JudgeJudges ==
  ASSUME TypeOK, FinalInv, VerdictOnce', NEW e \in Evaluators, JudgeCoupons(e)
  PROVE  Ledger!Judge
<1>1. UNCHANGED <<Result, outcomes>> /\ verdicts' = verdicts \cup NewVerdicts
  BY DEF JudgeCoupons, worldVars, Result, IsOver
<1>2. ASSUME NEW v \in verdicts' \ verdicts
      PROVE  Result[v.pick[2]] # "open" /\ \E o \in outcomes : Ledger!BearsOut(o, v)
  <2>1. v \in NewVerdicts
    BY <1>1, <1>2
  <2>2. v.pick \in picks /\ row[v.pick[2]].status = "finished"
    BY <2>1 DEF NewVerdicts, ToJudge
  <2>3. v.pick[2] \in Matches
    BY <2>2 DEF TypeOK, Pick
  <2>4. IsOver(v.pick[2]) /\ row[v.pick[2]] = Latest(reports[v.pick[2]])
    BY <2>2, <2>3 DEF FinalInv, RowIsFinal
  <2>5. Result[v.pick[2]] = row[v.pick[2]].score
    BY <2>3, <2>4 DEF Result
  <2>6. Result[v.pick[2]] # "open"
    BY <2>3, <2>5 DEF TypeOK, State
  <2>7. \E o \in outcomes : Ledger!BearsOut(o, v)
    BY <2>1 DEF NewVerdicts, Concerns, Ledger!BearsOut
  <2>. QED
    BY <2>6, <2>7
<1>3. ASSUME NEW v \in verdicts', NEW w \in verdicts', w.pick = v.pick
      PROVE  w = v
  BY <1>3 DEF VerdictOnce
<1>4. verdicts \subseteq verdicts'
  BY <1>1
<1>. QED
  BY <1>1, <1>2, <1>3, <1>4 DEF Ledger!Judge, Result

LEMMA LedgerStep ==
  ASSUME TypeOK, FinalInv, (OutcomeOnce /\ VerdictOnce /\ FinalInv)', [Next]_vars
  PROVE  [Ledger!Next]_<<Result, outcomes, verdicts>>
<1>1. CASE UNCHANGED <<reports, outcomes, verdicts>>
  BY <1>1 DEF Result, IsOver, Latest
<1>2. CASE \E m \in Matches : Report(m)
  BY <1>2, ReportIsEnd DEF Ledger!Next
<1>3. ASSUME NEW e \in Evaluators, EvaluateScores(e)
      PROVE  Ledger!Next
  <2>1. Finished \cap WithScore \in SUBSET Finished /\ "home_win" \in Markets
    BY DEF Markets, Evaluated
  <2>. QED
    BY <1>3, <2>1, InsertSettles DEF EvaluateScores, worldVars, Ledger!Next
<1>4. ASSUME NEW e \in Evaluators, EvaluateStats(e)
      PROVE  Ledger!Next
  <2>1. Finished \cap WithStats \in SUBSET Finished /\ "over_corners_9_5" \in Markets
    BY DEF Markets, Evaluated
  <2>. QED
    BY <1>4, <2>1, InsertSettles DEF EvaluateStats, worldVars, Ledger!Next
<1>5. CASE \E e \in Evaluators : JudgeCoupons(e)
  BY <1>5, JudgeJudges DEF Ledger!Next
<1>6. \/ UNCHANGED <<reports, outcomes, verdicts>>
      \/ \E m \in Matches : Report(m)
      \/ \E e \in Evaluators : EvaluateScores(e) \/ EvaluateStats(e) \/ JudgeCoupons(e)
  BY DEF Next, vars, worldVars, resultVars, Collect, WriteRow, Upsert, StartDetails, WriteStats,
     AbandonDetails, Predict, SavePick, RunEvaluation, Begin, EvaluationFails, JudgeFails
<1>. QED
  BY <1>1, <1>2, <1>3, <1>4, <1>5, <1>6

\* The four statements of any number of overlapping runs, against jobs that write old
\* answers over the rows, are steps of one ledger that settles and judges after the
\* end, once and for good.
THEOREM EvaluationImplementsSettlement == Spec => ImplementsSettlement
<1>1. TypeOK /\ FinalInv /\ (OutcomeOnce /\ VerdictOnce /\ FinalInv)' /\ [Next]_vars
        => [Ledger!Next]_<<Result, outcomes, verdicts>>
  BY LedgerStep
<1>2. NothingIsJudgedTwice => OutcomeOnce /\ VerdictOnce
  BY DEF NothingIsJudgedTwice, OutcomeOnce, VerdictOnce
<1>3. Spec => [](OutcomeOnce /\ VerdictOnce)
  BY <1>2, JudgedOnce, PTL
<1>4. Spec => []FinalInv
  BY FinalInit, FinalStep, TypeCorrect, PTL DEF Spec
<1>. QED
  BY <1>1, <1>3, <1>4, TypeCorrect, LedgerInit, PTL
     DEF Spec, ImplementsSettlement, Ledger!Spec, Ledger!vars, Result
=============================================================================
