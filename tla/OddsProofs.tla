------------------------------ MODULE OddsProofs ------------------------------
(***************************************************************************)
(* What the operators of Odds return, for any rows: the best odd of a      *)
(* market is an odd of one of its rows and no row has a better one; a      *)
(* trend is one of three words.  The greatest element of a finite set is   *)
(* found by the well-foundedness of inclusion, without induction.          *)
(***************************************************************************)
EXTENDS Odds, FiniteSetTheorems, WellFoundedInduction, TLAPS

\* The image of a finite set is finite.
LEMMA FiniteImage ==
  ASSUME NEW f, IsFiniteSet(DOMAIN f)
  PROVE  IsFiniteSet({f[x] : x \in DOMAIN f})
<1>. DEFINE T == {f[x] : x \in DOMAIN f}
            g == [x \in DOMAIN f |-> f[x]]
<1>1. g \in Surjection(DOMAIN f, T)
  BY DEF Surjection
<1>. QED
  BY <1>1, FS_Surjection

\* A finite set of integers has a greatest element: the set of those above it is
\* a minimal one.
LEMMA HasGreatest ==
  ASSUME NEW S, IsFiniteSet(S), S # {}, S \subseteq Int
  PROVE  \E x \in S : \A y \in S : x >= y
<1>. DEFINE above(x) == {y \in S : y > x}
            T == {above(x) : x \in S}
<1>1. T \subseteq FiniteSubsetsOf(S) /\ T # {}
  <2>1. \A B \in T : B \in SUBSET S
    OBVIOUS
  <2>2. T # {}
    OBVIOUS
  <2>. HIDE DEF T
  <2>. QED
    BY <2>1, <2>2, FS_FiniteSubsetsOfFinite
<1>2. PICK A \in T : \A B \in T : <<B, A>> \notin StrictSubsetOrdering(S)
  <2>. HIDE DEF T
  <2>. QED
    BY <1>1, WFMin, FS_StrictSubsetOrderingWellFounded
<1>3. PICK x \in S : A = above(x)
  BY <1>2
<1>4. ASSUME NEW y \in above(x) PROVE FALSE
  <2>1. above(y) \subseteq above(x) /\ y \notin above(y) /\ above(y) \in T
    <3>1. y \in S /\ y \in Int /\ x \in Int /\ y > x
      BY <1>4
    <3>2. \A z \in S : z > y => z > x
      BY <3>1
    <3>3. ~(y > y)
      BY <3>1
    <3>. QED
      BY <3>1, <3>2, <3>3
  <2>2. <<above(y), A>> \in StrictSubsetOrdering(S)
    BY <1>3, <1>4, <2>1 DEF StrictSubsetOrdering
  <2>. QED
    BY <1>2, <2>1, <2>2
<1>. QED
  BY <1>4

\* Max is the greatest element.
LEMMA MaxOf ==
  ASSUME NEW S, IsFiniteSet(S), S # {}, S \subseteq Int
  PROVE  Max(S) \in S /\ \A y \in S : Max(S) >= y
<1>1. \E x \in S : \A y \in S : x >= y
  BY HasGreatest
<1>. QED
  BY <1>1 DEF Max

\* Rows as they come from match_odds: finitely many, with natural odds.
Rows(rows) == IsFiniteSet(rows) /\ \A r \in rows : r.odd \in Nat

\* The best odd of a market is 0 or the odd of one of its rows, and no row of the
\* market has a better one.
LEMMA BestOdd ==
  ASSUME NEW rows, Rows(rows), NEW k
  PROVE  LET o == OddsSummaryForMarket(rows, k)
         IN  /\ o \in Nat
             /\ o = 0 \/ \E r \in OddsFor(rows, k) : r.odd = o
             /\ \A r \in OddsFor(rows, k) : o >= r.odd
<1>. DEFINE mine == OddsFor(rows, k)
            S == {0} \cup {r.odd : r \in mine}
            f == [r \in mine |-> r.odd]
<1>1. IsFiniteSet(mine) /\ mine \subseteq rows
  BY FS_Subset DEF OddsFor, Rows
<1>2. {r.odd : r \in mine} = {f[r] : r \in DOMAIN f} /\ DOMAIN f = mine
  OBVIOUS
<1>3. IsFiniteSet({r.odd : r \in mine})
  <2>. HIDE DEF f, mine
  <2>. QED
    BY <1>1, <1>2, FiniteImage
<1>4. IsFiniteSet(S) /\ S # {} /\ S \subseteq Nat /\ S \subseteq Int
  <2>1. IsFiniteSet(S)
    BY <1>3, FS_Singleton, FS_Union
  <2>2. \A r \in mine : r.odd \in Nat
    BY <1>1 DEF Rows
  <2>. QED
    BY <2>1, <2>2
<1>5. Max(S) \in S /\ \A y \in S : Max(S) >= y
  <2>. HIDE DEF S
  <2>. QED
    BY <1>4, MaxOf
<1>6. OddsSummaryForMarket(rows, k) = Max(S)
  BY DEF OddsSummaryForMarket
<1>. QED
  BY <1>4, <1>5, <1>6

\* A trend is flat, up or down, whatever the history.
LEMMA TrendWords ==
  ASSUME NEW rows, NEW k
  PROVE  OddTrendForMarket(rows, k) \in {"flat", "up", "down"}
BY DEF OddTrendForMarket
=============================================================================
