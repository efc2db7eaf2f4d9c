-------------------------- MODULE EvaluationServer --------------------------
(***************************************************************************)
(* POST /evaluation/run as the backend serves it to several callers at     *)
(* once: the statements of RunEvaluation, the connections they take from   *)
(* the one pgx pool, the notifications of the verdicts they reach and the  *)
(* metrics they publish.  What the outcomes and verdicts say is the matter *)
(* of Evaluation; here a selection is settled once its match is over.      *)
(***************************************************************************)
EXTENDS Naturals, FiniteSets

CONSTANTS
  Callers,    \* requests that may be under way at a time
  PoolSize,   \* connections of the pool
  Selections, \* selections of saved coupons
  Coupons,
  CouponOf    \* the coupon of a selection

ASSUME ServerAssumption ==
  /\ IsFiniteSet(Callers)
  /\ PoolSize \in Nat \ {0}
  /\ CouponOf \in [Selections -> Coupons]

VARIABLES
  over,     \* selections whose match is finished
  outcomes, \* selections whose market has an outcome
  verdict,  \* of a selection: "none", "fresh" for five minutes, then "old"
  table,    \* model_performance: one copy of the metrics per refresh that left one
  pc,       \* where the request of a caller is
  mine,     \* verdicts the caller's run has reached and not asked for yet
  todo,     \* verdicts in the rows its notification query has not handed out
  del,      \* copies of the metrics that its refresh deletes
  alone,    \* no other refresh was under way since its own began
  told,     \* verdicts counted in a notification
  missed    \* verdicts a run could not tell, for an error or a caller who left

runVars == <<mine, todo>>
refreshVars == <<table, del, alone>>
toldVars == <<told, missed>>
vars == <<over, outcomes, verdict, table, pc, mine, todo, del, alone, told, missed>>

-----------------------------------------------------------------------------
Steps == {"idle", "evaluate", "judge", "query", "tell", "refresh", "insert"}

\* A copy of the metrics: who inserted it and the outcomes it counts.
Metrics == [by : Callers, of : SUBSET Selections]

Init ==
  /\ over = {}
  /\ outcomes = {}
  /\ verdict = [s \in Selections |-> "none"]
  /\ table = {}
  /\ pc = [c \in Callers |-> "idle"]
  /\ mine = [c \in Callers |-> {}]
  /\ todo = [c \in Callers |-> {}]
  /\ del = [c \in Callers |-> {}]
  /\ alone = [c \in Callers |-> FALSE]
  /\ told = {}
  /\ missed = {}

-----------------------------------------------------------------------------
(* The pool: a request in these steps keeps a connection between them, the *)
(* open rows or the statements of one Exec; any other statement takes one  *)
(* and gives it back.                                                      *)
Holders == {c \in Callers : pc[c] \in {"tell", "insert"}}

\* Mistake: CreateNotification by a query whose rows stay open.
Free_RowsLeftOpen == 2 * Cardinality(Holders) < PoolSize

Free == Cardinality(Holders) < PoolSize

GoTo(c, s) == pc' = [pc EXCEPT ![c] = s]

\* The collector records the end of the matches of some selections.
Finish(s) ==
  /\ over' = over \cup {s}
  /\ s \notin over
  /\ UNCHANGED <<outcomes, verdict, pc, runVars, refreshVars, toldVars>>

Ask(c) ==
  /\ pc[c] = "idle"
  /\ GoTo(c, "evaluate")
  /\ UNCHANGED <<over, outcomes, verdict, runVars, refreshVars, toldVars>>

\* Mistake: without asking for finished matches.
Evaluate_Unfinished(c) ==
  /\ pc[c] = "evaluate"
  /\ Free
  /\ outcomes' = Selections
  /\ GoTo(c, "judge")
  /\ UNCHANGED <<over, verdict, runVars, refreshVars, toldVars>>

\* EvaluateFinishedPredictions: every outcome that is missing.
Evaluate(c) ==
  /\ pc[c] = "evaluate"
  /\ Free
  /\ outcomes' = outcomes \cup over
  /\ GoTo(c, "judge")
  /\ UNCHANGED <<over, verdict, runVars, refreshVars, toldVars>>

\* Its error ends the request.
EvaluateFails(c) ==
  /\ pc[c] = "evaluate"
  /\ GoTo(c, "idle")
  /\ UNCHANGED <<over, outcomes, verdict, runVars, refreshVars, toldVars>>

\* EvaluateUserCoupons: the selections with an outcome and no verdict.
Judge(c) ==
  LET new == {s \in outcomes : verdict[s] = "none"}
  IN  /\ pc[c] = "judge"
      /\ Free
      /\ verdict' = [s \in Selections |-> IF s \in new THEN "fresh" ELSE verdict[s]]
      /\ mine' = [mine EXCEPT ![c] = new]
      /\ GoTo(c, "query")
      /\ UNCHANGED <<over, outcomes, todo, refreshVars, toldVars>>

\* Its error is dropped.
JudgeFails(c) ==
  /\ pc[c] = "judge"
  /\ GoTo(c, "query")
  /\ UNCHANGED <<over, outcomes, verdict, runVars, refreshVars, toldVars>>

\* NotifyRecentCouponEvaluations opens its rows, a row for each coupon with a
\* verdict of the last five minutes; without one the rows close at once.
Query(c) ==
  LET fresh == {s \in Selections : verdict[s] = "fresh"}
  IN  /\ pc[c] = "query"
      /\ Free
      /\ todo' = [todo EXCEPT ![c] = fresh]
      /\ mine' = [mine EXCEPT ![c] = {}]
      /\ GoTo(c, IF fresh = {} THEN "refresh" ELSE "tell")
      /\ UNCHANGED <<over, outcomes, verdict, refreshVars, toldVars>>

QueryFails(c) ==
  /\ pc[c] = "query"
  /\ GoTo(c, "refresh")
  /\ missed' = missed \cup mine[c]
  /\ mine' = [mine EXCEPT ![c] = {}]
  /\ UNCHANGED <<over, outcomes, verdict, todo, refreshVars, told>>

\* Mistake: only the first row is told.
Tell_FirstRowOnly(c) ==
  /\ pc[c] = "tell"
  /\ Free
  /\ \E coupon \in {CouponOf[s] : s \in todo[c]} :
       told' = told \cup {s \in todo[c] : CouponOf[s] = coupon}
  /\ todo' = [todo EXCEPT ![c] = {}]
  /\ GoTo(c, "refresh")
  /\ UNCHANGED <<over, outcomes, verdict, mine, refreshVars, missed>>

\* CreateNotification for one row, on a second connection; the rows close
\* after the last.
Tell(c) ==
  /\ pc[c] = "tell"
  /\ Free
  /\ \E coupon \in {CouponOf[s] : s \in todo[c]} :
       LET row == {s \in todo[c] : CouponOf[s] = coupon}
           rest == todo[c] \ row
       IN  /\ told' = told \cup row
           /\ todo' = [todo EXCEPT ![c] = rest]
           /\ GoTo(c, IF rest = {} THEN "refresh" ELSE "tell")
  /\ UNCHANGED <<over, outcomes, verdict, mine, refreshVars, missed>>

\* Its error gives up the rows that are left.
TellFails(c) ==
  /\ pc[c] = "tell"
  /\ GoTo(c, "refresh")
  /\ missed' = missed \cup todo[c]
  /\ todo' = [todo EXCEPT ![c] = {}]
  /\ UNCHANGED <<over, outcomes, verdict, mine, refreshVars, told>>

Refreshing == {c \in Callers : pc[c] = "insert"}

\* The DELETE of RefreshModelPerformance: the copies it takes with the commit
\* and what the others see of the table until then.
DeleteOf(c, copies, left) ==
  /\ pc[c] = "refresh"
  /\ Free
  /\ del' = [del EXCEPT ![c] = copies]
  /\ table' = left
  /\ alone' = [d \in Callers |-> d = c /\ Refreshing = {}]
  /\ GoTo(c, "insert")
  /\ UNCHANGED <<over, outcomes, verdict, runVars, toldVars>>

\* Mistakes: no DELETE, a DELETE of its own copy only, one that is committed
\* before the INSERT.
Delete_Skipped(c) == DeleteOf(c, {}, table)

Delete_OwnOnly(c) == DeleteOf(c, {x \in table : x.by = c}, table)

Delete_Commits(c) == DeleteOf(c, {}, {})

\* RefreshModelPerformance, one transaction: DELETE, on the copies that are
\* committed when it starts ...
Delete(c) == DeleteOf(c, table, table)

\* The transaction, if the request has one, is over.
Leave(c) ==
  /\ GoTo(c, "idle")
  /\ del' = [del EXCEPT ![c] = {}]
  /\ alone' = [alone EXCEPT ![c] = FALSE]

\* ... then INSERT and the commit.  A copy that another refresh deleted first
\* is waited for and skipped.
Insert(c) ==
  /\ pc[c] = "insert"
  /\ table' = (table \ del[c]) \cup
                (IF outcomes = {} THEN {} ELSE {[by |-> c, of |-> outcomes]})
  /\ Leave(c)
  /\ UNCHANGED <<over, outcomes, verdict, runVars, toldVars>>

\* An error rolls it back.
RefreshFails(c) ==
  /\ pc[c] \in {"refresh", "insert"}
  /\ Leave(c)
  /\ UNCHANGED <<over, outcomes, verdict, table, runVars, toldVars>>

\* A caller gives up, after two minutes or with the page, and the server notices:
\* the context ends, and with it every wait, open row and transaction.  It need
\* not notice (nobody reads the body of the request), so nothing relies on it.
HangUp(c) ==
  /\ pc[c] # "idle"
  /\ Leave(c)
  /\ missed' = missed \cup mine[c] \cup todo[c]
  /\ mine' = [mine EXCEPT ![c] = {}]
  /\ todo' = [todo EXCEPT ![c] = {}]
  /\ UNCHANGED <<over, outcomes, verdict, table, told>>

\* Five minutes after the verdict, when the run that reached it is past its
\* query, the very next statement: this bounds how long the two may take.
Age(s) ==
  /\ verdict[s] = "fresh"
  /\ \A c \in Callers : s \notin mine[c]
  /\ verdict' = [verdict EXCEPT ![s] = "old"]
  /\ UNCHANGED <<over, outcomes, pc, runVars, refreshVars, toldVars>>

-----------------------------------------------------------------------------
Advance(c) ==
  Evaluate(c) \/ Judge(c) \/ Query(c) \/ Tell(c) \/ Delete(c) \/ Insert(c)

Fail(c) ==
  EvaluateFails(c) \/ JudgeFails(c) \/ QueryFails(c) \/ TellFails(c) \/ RefreshFails(c)

Next ==
  \/ \E c \in Callers : Ask(c) \/ Advance(c) \/ Fail(c) \/ HangUp(c)
  \/ \E s \in Selections : Finish(s) \/ Age(s)

Spec == Init /\ [][Next]_vars

\* The pool serves its waiters in the order they came, and the database answers.
Fairness == \A c \in Callers : SF_vars(Advance(c))

FairSpec == Spec /\ Fairness

-----------------------------------------------------------------------------
(* Properties.                                                             *)

\* Types, and never more connections in use than the pool has: whatever steps
\* the requests are in when others are answered, fail or are given up.
TypeOK ==
  /\ over \subseteq Selections
  /\ outcomes \subseteq over
  /\ verdict \in [Selections -> {"none", "fresh", "old"}]
  /\ table \subseteq Metrics
  /\ pc \in [Callers -> Steps]
  /\ mine \in [Callers -> SUBSET Selections]
  /\ todo \in [Callers -> SUBSET Selections]
  /\ del \in [Callers -> SUBSET Metrics]
  /\ alone \in [Callers -> BOOLEAN]
  /\ told \subseteq Selections
  /\ missed \subseteq Selections
  /\ Cardinality(Holders) <= PoolSize

\* A verdict leaves the five minutes of the notification query only once its
\* user is told of it, unless a run that had it to tell failed or was given up:
\* the window, the order judge-then-notify and the overlap of runs lose none.
ToldUnlessMissed ==
  \A s \in Selections :
    verdict[s] = "old" => s \in told \cup missed \cup UNION {todo[c] : c \in Callers}

\* Overlapping refreshes may both keep their copy of the metrics, and each keeps
\* one at most however often it runs: GET /performance lists a metric at most
\* as many times as evaluations overlap.
OneCopyEach ==
  \A x, y \in table : x.by = y.by => x = y

\* A refresh that no other overlaps leaves one copy, which counts every outcome
\* there is: it repairs what overlapping ones, errors and hang-ups left.
LoneRefreshRepairs ==
  [][\A c \in Callers :
       pc[c] = "insert" /\ alone[c] /\ table' # table =>
         table' = {[by |-> c, of |-> outcomes]}]_vars

\* Once published, metrics are never seen missing: the deletion shows only
\* together with what replaces it, and is undone with it.
MetricsNeverVanish ==
  [][table # {} => table' # {}]_vars

\* Every connection belongs to a request that waits for a second one.
AllWait == Cardinality({c \in Callers : pc[c] = "tell"}) = PoolSize

\* Every request is answered, except in the one way the code leaves open:
\* CreateNotification wants a second connection while the rows keep the first,
\* so as many overlapping runs as the pool has connections wait for each other.
EveryRunEnds ==
  \A c \in Callers : pc[c] # "idle" ~> (pc[c] = "idle" \/ AllWait)
=============================================================================
