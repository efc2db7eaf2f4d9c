----------------------- MODULE EvaluationServerProofs -----------------------
(***************************************************************************)
(* Proofs about EvaluationServer, for any number of requests, selections   *)
(* and connections: the notifications lose no verdict but by an error, and *)
(* what is published of the metrics.                                       *)
(***************************************************************************)
EXTENDS EvaluationServer, FiniteSetTheorems, TLAPS

Types ==
  /\ over \subseteq Selections
  /\ outcomes \subseteq over
  /\ verdict \in [Selections -> {"none", "fresh", "old"}]
  /\ table \subseteq Metrics
  /\ pc \in [Callers -> Steps]
  /\ mine \in [Callers -> SUBSET Selections]
  /\ todo \in [Callers -> SUBSET Selections]
  /\ del \in [Callers -> SUBSET Metrics]
  /\ alone \in [Callers -> BOOLEAN]
  /\ told \subseteq Selections
  /\ missed \subseteq Selections

PoolHolds == Cardinality(Holders) <= PoolSize

\* A run keeps what it has to tell while it is on the way to tell it.
InHand ==
  \A c \in Callers :
    /\ mine[c] # {} => pc[c] = "query"
    /\ todo[c] # {} => pc[c] = "tell"
    /\ \A s \in mine[c] : verdict[s] = "fresh"

\* A verdict is told, missed or in the hands of a run.
Accounted ==
  \A s \in Selections : verdict[s] # "none" =>
    \/ s \in told \cup missed
    \/ \E c \in Callers : s \in mine[c] \cup todo[c]

\* A refresh under way has its own earlier copy among those it deletes, and every
\* copy if no other was under way since.
Replaces ==
  \A c \in Callers : pc[c] = "insert" =>
    /\ \A x \in table : x.by = c => x \in del[c]
    /\ alone[c] => /\ table \subseteq del[c]
                   /\ Refreshing = {c}

IInv ==
  /\ Types
  /\ PoolHolds
  /\ InHand
  /\ Accounted
  /\ Replaces
  /\ OneCopyEach
  /\ table # {} => outcomes # {}

-----------------------------------------------------------------------------
LEMMA HoldersAreFinite == IsFiniteSet(Holders)
  <1>1. Holders \subseteq Callers
    BY DEF Holders
  <1> QED
    BY <1>1, FS_Subset, ServerAssumption

\* Connections are given back, or one is taken that is free.
LEMMA PoolStep ==
  ASSUME PoolHolds, NEW c,
         Holders' \subseteq Holders \/ (Free /\ Holders' \subseteq Holders \cup {c})
  PROVE  PoolHolds'
  <1>1. CASE Holders' \subseteq Holders
    <2>1. Cardinality(Holders') <= Cardinality(Holders)
      BY <1>1, HoldersAreFinite, FS_Subset
    <2>2. Cardinality(Holders) \in Nat /\ Cardinality(Holders') \in Nat
      BY <1>1, HoldersAreFinite, FS_Subset, FS_CardinalityType
    <2> QED
      BY <2>1, <2>2, ServerAssumption DEF PoolHolds
  <1>2. CASE Free /\ Holders' \subseteq Holders \cup {c}
    <2>1. /\ IsFiniteSet(Holders \cup {c})
          /\ Cardinality(Holders \cup {c}) <= Cardinality(Holders) + 1
      <3>1. Cardinality(Holders) \in Nat
        BY HoldersAreFinite, FS_CardinalityType
      <3>2. /\ IsFiniteSet(Holders \cup {c})
            /\ \/ Cardinality(Holders \cup {c}) = Cardinality(Holders)
               \/ Cardinality(Holders \cup {c}) = Cardinality(Holders) + 1
        BY HoldersAreFinite, FS_AddElement, Zenon
      <3> QED
        BY <3>1, <3>2
    <2>2. /\ IsFiniteSet(Holders')
          /\ Cardinality(Holders') <= Cardinality(Holders \cup {c})
      BY <1>2, <2>1, FS_Subset
    <2>3. /\ Cardinality(Holders) \in Nat
          /\ Cardinality(Holders') \in Nat
          /\ Cardinality(Holders \cup {c}) \in Nat
      BY <2>1, <2>2, HoldersAreFinite, FS_CardinalityType
    <2> QED
      BY <1>2, <2>1, <2>2, <2>3, ServerAssumption DEF Free, PoolHolds
  <1> QED
    BY <1>1, <1>2

LEMMA InitIInv == Init => IInv
  <1> SUFFICES ASSUME Init PROVE IInv
    OBVIOUS
  <1>1. Types /\ InHand /\ Accounted /\ Replaces /\ OneCopyEach /\ (table # {} => outcomes # {})
    BY DEF Init, Types, Metrics, Steps, InHand, Accounted, Replaces, OneCopyEach
  <1>2. Holders = {}
    BY DEF Init, Holders
  <1>3. PoolHolds
    BY <1>2, FS_EmptySet, ServerAssumption DEF PoolHolds
  <1> QED
    BY <1>1, <1>3 DEF IInv

LEMMA FinishStep ==
  ASSUME IInv, NEW s \in Selections, Finish(s) PROVE IInv'
  <1> USE DEF IInv, Finish, runVars, refreshVars, toldVars
  <1>1. Types'
    BY ServerAssumption DEF Types, Steps, Metrics
  <1>2. PoolHolds'
    <2>1. Holders' \subseteq Holders
      BY DEF Types, Holders
    <2> QED
      BY <2>1, PoolStep
  <1>3. InHand'
    BY DEF Types, InHand
  <1>4. Accounted'
    BY DEF Types, InHand, Accounted
  <1>5. Replaces'
    BY DEF Types, Replaces, Refreshing
  <1>6. OneCopyEach'
    BY DEF Types, Replaces, OneCopyEach
  <1>7. (table # {} => outcomes # {})'
    BY DEF Types
  <1> QED
    BY <1>1, <1>2, <1>3, <1>4, <1>5, <1>6, <1>7

LEMMA AgeStep ==
  ASSUME IInv, NEW s \in Selections, Age(s) PROVE IInv'
  <1> USE DEF IInv, Age, runVars, refreshVars, toldVars
  <1>1. Types'
    BY ServerAssumption DEF Types, Steps, Metrics
  <1>2. PoolHolds'
    <2>1. Holders' \subseteq Holders
      BY DEF Types, Holders
    <2> QED
      BY <2>1, PoolStep
  <1>3. InHand'
    BY DEF Types, InHand
  <1>4. Accounted'
    BY DEF Types, InHand, Accounted
  <1>5. Replaces'
    BY DEF Types, Replaces, Refreshing
  <1>6. OneCopyEach'
    BY DEF Types, Replaces, OneCopyEach
  <1>7. (table # {} => outcomes # {})'
    BY DEF Types
  <1> QED
    BY <1>1, <1>2, <1>3, <1>4, <1>5, <1>6, <1>7

LEMMA AskStep ==
  ASSUME IInv, NEW c \in Callers, Ask(c) PROVE IInv'
  <1> USE DEF IInv, Ask, GoTo, runVars, refreshVars, toldVars
  <1>1. Types'
    BY ServerAssumption DEF Types, Steps, Metrics
  <1>2. PoolHolds'
    <2>1. Holders' \subseteq Holders
      BY DEF Types, Holders
    <2> QED
      BY <2>1, PoolStep
  <1>3. InHand'
    BY DEF Types, InHand
  <1>4. Accounted'
    BY DEF Types, InHand, Accounted
  <1>5. Replaces'
    BY DEF Types, Replaces, Refreshing
  <1>6. OneCopyEach'
    BY DEF Types, Replaces, OneCopyEach
  <1>7. (table # {} => outcomes # {})'
    BY DEF Types
  <1> QED
    BY <1>1, <1>2, <1>3, <1>4, <1>5, <1>6, <1>7

LEMMA EvaluateStep ==
  ASSUME IInv, NEW c \in Callers, Evaluate(c) PROVE IInv'
  <1> USE DEF IInv, Evaluate, GoTo, runVars, refreshVars, toldVars
  <1>1. Types'
    BY ServerAssumption DEF Types, Steps, Metrics
  <1>2. PoolHolds'
    <2>1. Holders' \subseteq Holders
      BY DEF Types, Holders
    <2> QED
      BY <2>1, PoolStep
  <1>3. InHand'
    BY DEF Types, InHand
  <1>4. Accounted'
    BY DEF Types, InHand, Accounted
  <1>5. Replaces'
    BY DEF Types, Replaces, Refreshing
  <1>6. OneCopyEach'
    BY DEF Types, Replaces, OneCopyEach
  <1>7. (table # {} => outcomes # {})'
    BY DEF Types
  <1> QED
    BY <1>1, <1>2, <1>3, <1>4, <1>5, <1>6, <1>7

LEMMA EvaluateFailsStep ==
  ASSUME IInv, NEW c \in Callers, EvaluateFails(c) PROVE IInv'
  <1> USE DEF IInv, EvaluateFails, GoTo, runVars, refreshVars, toldVars
  <1>1. Types'
    BY ServerAssumption DEF Types, Steps, Metrics
  <1>2. PoolHolds'
    <2>1. Holders' \subseteq Holders
      BY DEF Types, Holders
    <2> QED
      BY <2>1, PoolStep
  <1>3. InHand'
    BY DEF Types, InHand
  <1>4. Accounted'
    BY DEF Types, InHand, Accounted
  <1>5. Replaces'
    BY DEF Types, Replaces, Refreshing
  <1>6. OneCopyEach'
    BY DEF Types, Replaces, OneCopyEach
  <1>7. (table # {} => outcomes # {})'
    BY DEF Types
  <1> QED
    BY <1>1, <1>2, <1>3, <1>4, <1>5, <1>6, <1>7

LEMMA JudgeStep ==
  ASSUME IInv, NEW c \in Callers, Judge(c) PROVE IInv'
  <1> USE DEF IInv, Judge, GoTo, runVars, refreshVars, toldVars
  <1>1. Types'
    BY ServerAssumption DEF Types, Steps, Metrics
  <1>2. PoolHolds'
    <2>1. Holders' \subseteq Holders
      BY DEF Types, Holders
    <2> QED
      BY <2>1, PoolStep
  <1>3. InHand'
    BY DEF Types, InHand
  <1>4. Accounted'
    BY DEF Types, InHand, Accounted
  <1>5. Replaces'
    BY DEF Types, Replaces, Refreshing
  <1>6. OneCopyEach'
    BY DEF Types, Replaces, OneCopyEach
  <1>7. (table # {} => outcomes # {})'
    BY DEF Types
  <1> QED
    BY <1>1, <1>2, <1>3, <1>4, <1>5, <1>6, <1>7

LEMMA JudgeFailsStep ==
  ASSUME IInv, NEW c \in Callers, JudgeFails(c) PROVE IInv'
  <1> USE DEF IInv, JudgeFails, GoTo, runVars, refreshVars, toldVars
  <1>1. Types'
    BY ServerAssumption DEF Types, Steps, Metrics
  <1>2. PoolHolds'
    <2>1. Holders' \subseteq Holders
      BY DEF Types, Holders
    <2> QED
      BY <2>1, PoolStep
  <1>3. InHand'
    BY DEF Types, InHand
  <1>4. Accounted'
    BY DEF Types, InHand, Accounted
  <1>5. Replaces'
    BY DEF Types, Replaces, Refreshing
  <1>6. OneCopyEach'
    BY DEF Types, Replaces, OneCopyEach
  <1>7. (table # {} => outcomes # {})'
    BY DEF Types
  <1> QED
    BY <1>1, <1>2, <1>3, <1>4, <1>5, <1>6, <1>7

LEMMA QueryStep ==
  ASSUME IInv, NEW c \in Callers, Query(c) PROVE IInv'
  <1> USE DEF IInv, Query, GoTo, runVars, refreshVars, toldVars
  <1>1. Types'
    BY ServerAssumption DEF Types, Steps, Metrics
  <1>2. PoolHolds'
    <2>1. Free /\ Holders' \subseteq Holders \cup {c}
      BY DEF Types, Holders
    <2> QED
      BY <2>1, PoolStep
  <1>3. InHand'
    BY DEF Types, InHand
  <1>4. Accounted'
    BY DEF Types, InHand, Accounted
  <1>5. Replaces'
    BY DEF Types, Replaces, Refreshing
  <1>6. OneCopyEach'
    BY DEF Types, Replaces, OneCopyEach
  <1>7. (table # {} => outcomes # {})'
    BY DEF Types
  <1> QED
    BY <1>1, <1>2, <1>3, <1>4, <1>5, <1>6, <1>7

LEMMA QueryFailsStep ==
  ASSUME IInv, NEW c \in Callers, QueryFails(c) PROVE IInv'
  <1> USE DEF IInv, QueryFails, GoTo, runVars, refreshVars, toldVars
  <1>1. Types'
    BY ServerAssumption DEF Types, Steps, Metrics
  <1>2. PoolHolds'
    <2>1. Holders' \subseteq Holders
      BY DEF Types, Holders
    <2> QED
      BY <2>1, PoolStep
  <1>3. InHand'
    BY DEF Types, InHand
  <1>4. Accounted'
    BY DEF Types, InHand, Accounted
  <1>5. Replaces'
    BY DEF Types, Replaces, Refreshing
  <1>6. OneCopyEach'
    BY DEF Types, Replaces, OneCopyEach
  <1>7. (table # {} => outcomes # {})'
    BY DEF Types
  <1> QED
    BY <1>1, <1>2, <1>3, <1>4, <1>5, <1>6, <1>7

LEMMA TellStep ==
  ASSUME IInv, NEW c \in Callers, Tell(c) PROVE IInv'
  <1> USE DEF IInv, Tell, GoTo, runVars, refreshVars, toldVars
  <1>1. Types'
    BY ServerAssumption DEF Types, Steps, Metrics
  <1>2. PoolHolds'
    <2>1. Holders' \subseteq Holders
      BY DEF Types, Holders
    <2> QED
      BY <2>1, PoolStep
  <1>3. InHand'
    BY DEF Types, InHand
  <1>4. Accounted'
    BY DEF Types, InHand, Accounted
  <1>5. Replaces'
    BY DEF Types, Replaces, Refreshing
  <1>6. OneCopyEach'
    BY DEF Types, Replaces, OneCopyEach
  <1>7. (table # {} => outcomes # {})'
    BY DEF Types
  <1> QED
    BY <1>1, <1>2, <1>3, <1>4, <1>5, <1>6, <1>7

LEMMA TellFailsStep ==
  ASSUME IInv, NEW c \in Callers, TellFails(c) PROVE IInv'
  <1> USE DEF IInv, TellFails, GoTo, runVars, refreshVars, toldVars
  <1>1. Types'
    BY ServerAssumption DEF Types, Steps, Metrics
  <1>2. PoolHolds'
    <2>1. Holders' \subseteq Holders
      BY DEF Types, Holders
    <2> QED
      BY <2>1, PoolStep
  <1>3. InHand'
    BY DEF Types, InHand
  <1>4. Accounted'
    BY DEF Types, InHand, Accounted
  <1>5. Replaces'
    BY DEF Types, Replaces, Refreshing
  <1>6. OneCopyEach'
    BY DEF Types, Replaces, OneCopyEach
  <1>7. (table # {} => outcomes # {})'
    BY DEF Types
  <1> QED
    BY <1>1, <1>2, <1>3, <1>4, <1>5, <1>6, <1>7

LEMMA DeleteStep ==
  ASSUME IInv, NEW c \in Callers, Delete(c) PROVE IInv'
  <1> USE DEF IInv, Delete, DeleteOf, GoTo, runVars, refreshVars, toldVars
  <1>1. Types'
    BY ServerAssumption DEF Types, Steps, Metrics
  <1>2. PoolHolds'
    <2>1. Free /\ Holders' \subseteq Holders \cup {c}
      BY DEF Types, Holders
    <2> QED
      BY <2>1, PoolStep
  <1>3. InHand'
    BY DEF Types, InHand
  <1>4. Accounted'
    BY DEF Types, InHand, Accounted
  <1>5. Replaces'
    BY DEF Types, Replaces, Refreshing
  <1>6. OneCopyEach'
    BY DEF Types, Replaces, OneCopyEach
  <1>7. (table # {} => outcomes # {})'
    BY DEF Types
  <1> QED
    BY <1>1, <1>2, <1>3, <1>4, <1>5, <1>6, <1>7

LEMMA InsertStep ==
  ASSUME IInv, NEW c \in Callers, Insert(c) PROVE IInv'
  <1> USE DEF IInv, Insert, Leave, GoTo, runVars, refreshVars, toldVars
  <1>1. Types'
    BY ServerAssumption DEF Types, Steps, Metrics
  <1>2. PoolHolds'
    <2>1. Holders' \subseteq Holders
      BY DEF Types, Holders
    <2> QED
      BY <2>1, PoolStep
  <1>3. InHand'
    BY DEF Types, InHand
  <1>4. Accounted'
    BY DEF Types, InHand, Accounted
  <1>5. Replaces'
    BY DEF Types, Replaces, Refreshing
  <1>6. OneCopyEach'
    BY DEF Types, Replaces, OneCopyEach
  <1>7. (table # {} => outcomes # {})'
    BY DEF Types
  <1> QED
    BY <1>1, <1>2, <1>3, <1>4, <1>5, <1>6, <1>7

LEMMA RefreshFailsStep ==
  ASSUME IInv, NEW c \in Callers, RefreshFails(c) PROVE IInv'
  <1> USE DEF IInv, RefreshFails, Leave, GoTo, runVars, refreshVars, toldVars
  <1>1. Types'
    BY ServerAssumption DEF Types, Steps, Metrics
  <1>2. PoolHolds'
    <2>1. Holders' \subseteq Holders
      BY DEF Types, Holders
    <2> QED
      BY <2>1, PoolStep
  <1>3. InHand'
    BY DEF Types, InHand
  <1>4. Accounted'
    BY DEF Types, InHand, Accounted
  <1>5. Replaces'
    BY DEF Types, Replaces, Refreshing
  <1>6. OneCopyEach'
    BY DEF Types, Replaces, OneCopyEach
  <1>7. (table # {} => outcomes # {})'
    BY DEF Types
  <1> QED
    BY <1>1, <1>2, <1>3, <1>4, <1>5, <1>6, <1>7

LEMMA HangUpStep ==
  ASSUME IInv, NEW c \in Callers, HangUp(c) PROVE IInv'
  <1> USE DEF IInv, HangUp, Leave, GoTo, runVars, refreshVars, toldVars
  <1>1. Types'
    BY ServerAssumption DEF Types, Steps, Metrics
  <1>2. PoolHolds'
    <2>1. Holders' \subseteq Holders
      BY DEF Types, Holders
    <2> QED
      BY <2>1, PoolStep
  <1>3. InHand'
    BY DEF Types, InHand
  <1>4. Accounted'
    BY DEF Types, InHand, Accounted
  <1>5. Replaces'
    BY DEF Types, Replaces, Refreshing
  <1>6. OneCopyEach'
    BY DEF Types, Replaces, OneCopyEach
  <1>7. (table # {} => outcomes # {})'
    BY DEF Types
  <1> QED
    BY <1>1, <1>2, <1>3, <1>4, <1>5, <1>6, <1>7

LEMMA StutterStep ==
  ASSUME IInv, UNCHANGED vars PROVE IInv'
  <1> USE DEF IInv, vars
  <1>1. PoolHolds'
    <2>1. Holders' \subseteq Holders
      BY DEF Holders
    <2> QED
      BY <2>1, PoolStep
  <1> QED
    BY <1>1 DEF Types, InHand, Accounted, Replaces, Refreshing, OneCopyEach

LEMMA NextIInv == IInv /\ [Next]_vars => IInv'
  <1> SUFFICES ASSUME IInv, [Next]_vars PROVE IInv'
    OBVIOUS
  <1>1. CASE UNCHANGED vars
    BY <1>1, StutterStep
  <1>2. ASSUME NEW c \in Callers, Ask(c) \/ Advance(c) \/ Fail(c) \/ HangUp(c) PROVE IInv'
    BY <1>2, AskStep, EvaluateStep, EvaluateFailsStep, JudgeStep, JudgeFailsStep, QueryStep,
           QueryFailsStep, TellStep, TellFailsStep, DeleteStep, InsertStep, RefreshFailsStep, HangUpStep DEF Advance, Fail
  <1>3. ASSUME NEW s \in Selections, Finish(s) \/ Age(s) PROVE IInv'
    BY <1>3, FinishStep, AgeStep
  <1> QED
    BY <1>1, <1>2, <1>3 DEF Next

LEMMA Inductive == Spec => []IInv
  BY InitIInv, NextIInv, PTL DEF Spec

-----------------------------------------------------------------------------
\* TypeOK, for any number of requests and connections: with it, the pool is
\* never over its size.
THEOREM TypeCorrect == Spec => []TypeOK
  <1>1. IInv => TypeOK
    BY DEF IInv, Types, PoolHolds, TypeOK
  <1> QED
    BY <1>1, Inductive, PTL

\* ToldUnlessMissed: no verdict slips out of the notification window untold but
\* by an error or a hang-up, however many runs overlap.
THEOREM VerdictsAreTold == Spec => []ToldUnlessMissed
  <1>1. IInv => ToldUnlessMissed
    BY DEF IInv, Types, InHand, Accounted, ToldUnlessMissed
  <1> QED
    BY <1>1, Inductive, PTL

\* OneCopyEach: overlapping refreshes leave at most one copy of the metrics each.
THEOREM CopiesAreBounded == Spec => []OneCopyEach
  <1>1. IInv => OneCopyEach
    BY DEF IInv
  <1> QED
    BY <1>1, Inductive, PTL

\* LoneRefreshRepairs: a refresh that no other overlaps leaves exactly one copy,
\* of every outcome.
THEOREM LoneRefreshIsExact == Spec => LoneRefreshRepairs
  <1> DEFINE A == \A c \in Callers :
                    pc[c] = "insert" /\ alone[c] /\ table' # table =>
                      table' = {[by |-> c, of |-> outcomes]}
  <1>1. IInv /\ [Next]_vars => [A]_vars
    <2> SUFFICES ASSUME IInv, Next, NEW c \in Callers,
                        pc[c] = "insert", alone[c], table' # table
                 PROVE  table' = {[by |-> c, of |-> outcomes]}
      OBVIOUS
    <2>1. PICK d \in Callers : Insert(d)
      BY DEF Next, Advance, Fail, HangUp, Ask, Finish, Age, Evaluate, EvaluateFails, Judge,
             JudgeFails, Query, QueryFails, Tell, TellFails, Delete, DeleteOf, RefreshFails,
             refreshVars
    <2>2. d = c /\ table \subseteq del[c]
      BY <2>1 DEF IInv, Replaces, Refreshing, Insert
    <2>3. outcomes # {}
      BY <2>1, <2>2 DEF IInv, Insert
    <2> QED
      BY <2>1, <2>2, <2>3 DEF Insert
  <1>2. Spec => [][A]_vars
    BY <1>1, Inductive, PTL DEF Spec
  <1> QED
    BY <1>2 DEF LoneRefreshRepairs

\* MetricsNeverVanish: published metrics are never seen missing.
THEOREM MetricsStay == Spec => MetricsNeverVanish
  <1>1. IInv /\ [Next]_vars => [table # {} => table' # {}]_vars
    <2> SUFFICES ASSUME IInv, Next, table # {} PROVE table' # {}
      OBVIOUS
    <2>1. CASE table' = table
      BY <2>1
    <2>2. CASE \E c \in Callers : Insert(c)
      BY <2>2 DEF IInv, Insert
    <2> QED
      BY <2>1, <2>2 DEF Next, Advance, Fail, HangUp, Ask, Finish, Age, Evaluate, EvaluateFails,
             Judge, JudgeFails, Query, QueryFails, Tell, TellFails, Delete, DeleteOf,
             RefreshFails, refreshVars
  <1> QED
    BY <1>1, Inductive, PTL DEF Spec, MetricsNeverVanish

-----------------------------------------------------------------------------
\* The conditions under which Advance lets a request go on.
CanAdvance(c) ==
  \/ pc[c] = "insert"
  \/ Free /\ pc[c] \in {"evaluate", "judge", "query", "refresh"}
  \/ Free /\ pc[c] = "tell" /\ todo[c] # {}

\* Rows stay open only while there is one to tell.
RowsAreLeft == \A c \in Callers : pc[c] = "tell" => todo[c] # {}

LEMMA RowsInit == Init => RowsAreLeft
  BY DEF Init, RowsAreLeft

LEMMA RowsStep == IInv /\ RowsAreLeft /\ [Next]_vars => RowsAreLeft'
  <1> SUFFICES ASSUME IInv, RowsAreLeft, [Next]_vars PROVE RowsAreLeft'
    OBVIOUS
  <1> USE DEF IInv, Types
  <1>1. ASSUME NEW c \in Callers,
               \A d \in Callers : d # c => pc'[d] = pc[d] /\ todo'[d] = todo[d],
               pc'[c] = "tell" => todo'[c] # {}
        PROVE  RowsAreLeft'
    BY <1>1 DEF RowsAreLeft
  <1>2. CASE UNCHANGED <<pc, todo>>
    BY <1>2 DEF RowsAreLeft
  <1>3. ASSUME NEW c \in Callers, Query(c)
        PROVE  RowsAreLeft'
    BY <1>1, <1>3 DEF Query, GoTo
  <1>4. ASSUME NEW c \in Callers, Tell(c)
        PROVE  RowsAreLeft'
    <2>1. PICK coupon \in {CouponOf[s] : s \in todo[c]} :
            LET rest == todo[c] \ {s \in todo[c] : CouponOf[s] = coupon}
            IN  /\ todo' = [todo EXCEPT ![c] = rest]
                /\ pc' = [pc EXCEPT ![c] = IF rest = {} THEN "refresh" ELSE "tell"]
      BY <1>4 DEF Tell, GoTo
    <2> DEFINE rest == todo[c] \ {s \in todo[c] : CouponOf[s] = coupon}
    <2>2. /\ todo' = [todo EXCEPT ![c] = rest]
          /\ pc' = [pc EXCEPT ![c] = IF rest = {} THEN "refresh" ELSE "tell"]
      BY <2>1
    <2> HIDE DEF rest
    <2> QED
      BY <1>1, <2>2
  <1>5. ASSUME NEW c \in Callers,
               \/ Ask(c) \/ Evaluate(c) \/ Judge(c) \/ Delete(c) \/ Insert(c)
               \/ Fail(c) \/ HangUp(c)
        PROVE  RowsAreLeft'
    <2>1. \A d \in Callers : d # c => pc'[d] = pc[d] /\ todo'[d] = todo[d]
      BY <1>5 DEF Ask, Evaluate, Judge, Delete, DeleteOf, Insert, Fail, EvaluateFails, JudgeFails,
                  QueryFails, TellFails, RefreshFails, HangUp, Leave, GoTo, runVars
    <2>2. pc'[c] # "tell"
      BY <1>5 DEF Ask, Evaluate, Judge, Delete, DeleteOf, Insert, Fail, EvaluateFails, JudgeFails,
                  QueryFails, TellFails, RefreshFails, HangUp, Leave, GoTo
    <2> QED
      BY <1>1, <2>1, <2>2
  <1>6. ASSUME NEW s \in Selections, Finish(s) \/ Age(s)
        PROVE  RowsAreLeft'
    BY <1>2, <1>6 DEF Finish, Age, runVars
  <1> QED
    BY <1>2, <1>3, <1>4, <1>5, <1>6 DEF Next, Advance, vars

\* Requests that overlap get stuck in one way only: as long as one is under way,
\* either every connection belongs to a run that waits for a second one, or some
\* request can go on.  Waiting for each other needs as many of them as the pool has
\* connections.
THEOREM OnlyOneDeadlock ==
  Spec => []((\E c \in Callers : pc[c] # "idle") => AllWait \/ \E c \in Callers : CanAdvance(c))
  <1>1. ASSUME IInv, RowsAreLeft, NEW c \in Callers, pc[c] # "idle",
               ~AllWait, \A d \in Callers : ~CanAdvance(d)
        PROVE  FALSE
    <2>1. \A d \in Callers : pc[d] # "insert"
      BY <1>1 DEF CanAdvance
    <2>2. Holders = {d \in Callers : pc[d] = "tell"}
      BY <2>1 DEF Holders
    <2>3. ~Free
      BY <1>1, <2>1 DEF IInv, Types, Steps, RowsAreLeft, CanAdvance
    <2>4. Cardinality(Holders) = PoolSize
      BY <1>1, <2>3, HoldersAreFinite, FS_CardinalityType, ServerAssumption
         DEF IInv, PoolHolds, Free
    <2> QED
      BY <1>1, <2>2, <2>4 DEF AllWait
  <1>2. IInv /\ RowsAreLeft =>
          ((\E c \in Callers : pc[c] # "idle") => AllWait \/ \E c \in Callers : CanAdvance(c))
    BY <1>1
  <1> QED
    BY <1>2, Inductive, RowsInit, RowsStep, PTL DEF Spec
=============================================================================
