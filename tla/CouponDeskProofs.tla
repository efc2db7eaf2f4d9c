--------------------------- MODULE CouponDeskProofs ---------------------------
(***************************************************************************)
(* Proofs about CouponDesk, whatever the odds, the requests and the        *)
(* failures: what a user is told is stored is stored, a coupon's combined  *)
(* odd is that of the odds stored with it, and every odd in it was         *)
(* published for its market.  For the first two nothing is assumed of the  *)
(* elements of the sequences, and products stay unexpanded.                *)
(***************************************************************************)
EXTENDS CouponDesk, OddsProofs, SequenceTheorems

IsSeq(s) == \E S : s \in Seq(S)

LEMMA SeqShape ==
  ASSUME NEW s, IsSeq(s)
  PROVE  Len(s) \in Nat /\ DOMAIN s = 1..Len(s)
BY DEF IsSeq

\* Sequences with the same elements are the same, whatever sets they are over.
LEMMA SameSeq ==
  ASSUME NEW s, NEW t, IsSeq(s), IsSeq(t), Len(s) = Len(t),
         \A j \in 1..Len(s) : s[j] = t[j]
  PROVE  s = t
<1>1. PICK S : s \in Seq(S)
  BY DEF IsSeq
<1>2. PICK T : t \in Seq(T)
  BY DEF IsSeq
<1>3. s = [j \in 1..Len(s) |-> s[j]] /\ t = [j \in 1..Len(t) |-> t[j]]
  BY <1>1, <1>2
<1>. QED
  BY <1>3, Zenon

LEMMA EmptyIsSeq == IsSeq(<<>>) /\ Len(<<>>) = 0 /\ DOMAIN <<>> = {}
<1>1. <<>> \in Seq({})
  OBVIOUS
<1>. QED
  BY <1>1 DEF IsSeq

LEMMA AppendShape ==
  ASSUME NEW s, IsSeq(s), NEW e
  PROVE  /\ IsSeq(Append(s, e)) /\ Len(Append(s, e)) = Len(s) + 1
         /\ DOMAIN Append(s, e) = 1..Len(s) + 1
         /\ \A i \in 1..Len(s) : Append(s, e)[i] = s[i]
         /\ Append(s, e)[Len(s) + 1] = e
<1>1. PICK S : s \in Seq(S)
  BY DEF IsSeq
<1>2. s \in Seq(S \cup {e})
  BY <1>1
<1>3. Append(s, e) \in Seq(S \cup {e})
  BY <1>2
<1>. QED
  BY <1>2, <1>3 DEF IsSeq

LEMMA ExceptRows ==
  ASSUME NEW c, c = [odd |-> c.odd, rows |-> c.rows], NEW x
  PROVE  [c EXCEPT !.rows = x] = [odd |-> c.odd, rows |-> x]
OBVIOUS

\* Changing one element of a sequence.
LEMMA ExceptShape ==
  ASSUME NEW s, IsSeq(s), NEW i \in DOMAIN s, NEW e
  PROVE  LET t == [s EXCEPT ![i] = e]
         IN  /\ IsSeq(t) /\ Len(t) = Len(s) /\ DOMAIN t = DOMAIN s
             /\ \A j \in DOMAIN s : t[j] = IF j = i THEN e ELSE s[j]
<1>1. PICK S : s \in Seq(S)
  BY DEF IsSeq
<1>2. s \in Seq(S \cup {e}) /\ i \in 1..Len(s)
  BY <1>1
<1>3. [s EXCEPT ![i] = e] \in Seq(S \cup {e})
      /\ Len([s EXCEPT ![i] = e]) = Len(s)
  BY <1>2, ExceptSeq
<1>. QED
  BY <1>2, <1>3 DEF IsSeq

-----------------------------------------------------------------------------
\* A saved selection is its candidate, with an odd if it had none.
Keeps(s, c) ==
  /\ s.match = c.match /\ s.market = c.market /\ s.conf = c.conf
  /\ Quoted(c) => s.quote = c.quote

IsCandidate(c) ==
  c = [match |-> c.match, market |-> c.market, conf |-> c.conf, quote |-> c.quote]

IsCoupon(c) == c = [odd |-> c.odd, rows |-> c.rows] /\ IsSeq(c.rows)

\* What is in the database when a coupon is being saved, and what users were told.
SavedInv ==
  /\ IsSeq(coupons) /\ IsSeq(told) /\ IsSeq(selections)
  /\ \A i \in DOMAIN coupons : IsCoupon(coupons[i])
  /\ \A i \in DOMAIN told :
       told[i].ok => told[i].coupon \in DOMAIN coupons
                     /\ coupons[told[i].coupon].rows = told[i].shown
  /\ \A n \in notices :
       n.coupon \in DOMAIN coupons /\ Len(coupons[n.coupon].rows) = n.count
  /\ phase = "save" =>
       /\ Len(coupons) \in DOMAIN coupons
       /\ Len(Stored) <= Len(selections)
       /\ \A j \in 1..Len(Stored) : Stored[j] = selections[j]
       /\ \A i \in DOMAIN told : told[i].ok => told[i].coupon # Len(coupons)
       /\ \A n \in notices : n.coupon # Len(coupons)

LEMMA SavedInit == Init => SavedInv
BY EmptyIsSeq DEF Init, SavedInv

LEMMA SavedStep == SavedInv /\ [Next]_vars => SavedInv'
<1>. SUFFICES ASSUME SavedInv, [Next]_vars PROVE SavedInv'
  OBVIOUS
<1>. USE DEF SavedInv
<1>0. /\ Len(coupons) \in Nat /\ DOMAIN coupons = 1..Len(coupons)
      /\ Len(told) \in Nat /\ DOMAIN told = 1..Len(told)
      /\ Len(selections) \in Nat /\ DOMAIN selections = 1..Len(selections)
  BY SeqShape
<1>1. ASSUME UNCHANGED <<coupons, told, selections, notices>>, phase' = "save" => phase = "save"
      PROVE  SavedInv'
  BY <1>1 DEF Stored
<1>2. CASE Collect \/ Predict \/ QuoteCandidate \/ Pick \/ UNCHANGED vars
  <2>1. UNCHANGED <<coupons, told, selections, notices>> /\ (phase' = "save" => phase = "save")
    BY <1>2 DEF Collect, StartSync, GetOdds, WriteOdd, WriteHistory, collectorLeaves, deskVars,
                Predict, QuoteCandidate, Pick, vars
  <2>. QED
    BY <1>1, <2>1
<1>3. ASSUME NEW ok, NEW shown, Respond(ok, shown), UNCHANGED coupons, IsSeq(selections'),
             \A n \in notices' : n \in notices \/
               (n.coupon \in DOMAIN coupons /\ Len(coupons[n.coupon].rows) = n.count),
             ok = TRUE => /\ Len(coupons) \in DOMAIN coupons
                          /\ coupons[Len(coupons)].rows = shown,
             ok \in BOOLEAN
      PROVE  SavedInv'
  <2>. DEFINE new == [ok |-> ok, coupon |-> Len(coupons), shown |-> shown]
  <2>1. told' = Append(told, new) /\ phase' = "idle"
    BY <1>3 DEF Respond
  <2>2. /\ IsSeq(told') /\ DOMAIN told' = 1..Len(told) + 1
        /\ \A i \in 1..Len(told) : told'[i] = told[i]
        /\ told'[Len(told) + 1] = new
    BY <2>1, AppendShape
  <2>3. \A i \in DOMAIN told' :
          told'[i].ok => /\ told'[i].coupon \in DOMAIN coupons
                         /\ coupons[told'[i].coupon].rows = told'[i].shown
    <3>. SUFFICES ASSUME NEW i \in 1..Len(told) + 1, told'[i].ok
                  PROVE  /\ told'[i].coupon \in DOMAIN coupons
                         /\ coupons[told'[i].coupon].rows = told'[i].shown
      BY <2>2
    <3>1. CASE i \in 1..Len(told)
      BY <1>0, <2>2, <3>1
    <3>2. CASE i = Len(told) + 1
      BY <1>3, <2>2, <3>2
    <3>. QED
      BY <1>0, <3>1, <3>2
  <2>. QED
    BY <1>3, <2>1, <2>2, <2>3
<1>4. CASE List
  <2>1. IsSeq(selections') /\ UNCHANGED notices
    BY <1>4, EmptyIsSeq DEF List
  <2>2. CASE UNCHANGED coupons /\ Respond(FALSE, <<>>)
    BY <1>3, <2>1, <2>2
  <2>3. CASE phase' = "predict" /\ UNCHANGED <<coupons, told>>
    BY <2>1, <2>3
  <2>. QED
    BY <1>4, <2>2, <2>3 DEF List
<1>5. CASE ReadOdds
  <2>1. IsSeq(selections')
    <3>1. \E e : selections' = Append(selections, e)
      BY <1>5 DEF ReadOdds
    <3>. QED
      BY <3>1, AppendShape
  <2>. QED
    BY <1>5, <2>1 DEF ReadOdds
<1>6. CASE ReadTrend
  <2>1. IsSeq(selections')
    <3>1. CASE UNCHANGED selections
      BY <3>1
    <3>2. ASSUME NEW x, selections' = [selections EXCEPT ![Len(selections)].trend = x]
          PROVE  IsSeq(selections')
      <4>1. CASE Len(selections) \in DOMAIN selections
        BY <3>2, <4>1, ExceptShape
      <4>2. CASE Len(selections) \notin DOMAIN selections
        <5>1. selections' = selections
          BY <1>0, <3>2, <4>2, EmptyIsSeq
        <5>. QED
          BY <5>1
      <4>. QED
        BY <4>1, <4>2
    <3>. QED
      BY <1>6, <3>1, <3>2 DEF ReadTrend
  <2>. QED
    BY <1>6, <2>1 DEF ReadTrend
<1>7. CASE InsertCoupon
  <2>1. CASE UNCHANGED coupons /\ Respond(FALSE, <<>>)
    BY <1>3, <1>7, <2>1 DEF InsertCoupon
  <2>2. CASE /\ coupons' = Append(coupons, [odd |-> combined, rows |-> <<>>])
             /\ phase' = "save" /\ UNCHANGED told
    <3>1. /\ IsSeq(coupons') /\ Len(coupons') = Len(coupons) + 1
          /\ DOMAIN coupons' = 1..Len(coupons) + 1
          /\ \A i \in 1..Len(coupons) : coupons'[i] = coupons[i]
          /\ coupons'[Len(coupons) + 1].rows = <<>>
      BY <2>2, AppendShape
    <3>2. \A i \in DOMAIN coupons' : IsCoupon(coupons'[i])
      BY <1>0, <2>2, <3>1, AppendShape, EmptyIsSeq DEF IsCoupon
    <3>3. Len(coupons') \in DOMAIN coupons' /\ coupons'[Len(coupons')].rows = <<>>
      BY <1>0, <3>1
    <3>4. UNCHANGED <<selections, notices>>
      BY <1>7 DEF InsertCoupon
    <3>5. DOMAIN coupons \subseteq DOMAIN coupons' /\ Len(coupons') \notin DOMAIN coupons
      BY <1>0, <3>1
    <3>6. Len(coupons'[Len(coupons')].rows) = 0
      BY <3>3, EmptyIsSeq
    <3>. QED
      BY <1>0, <2>2, <3>1, <3>2, <3>3, <3>4, <3>5, <3>6 DEF Stored
  <2>. QED
    BY <1>7, <2>1, <2>2 DEF InsertCoupon
<1>8. CASE InsertSelection
  <2>1. CASE InsertFails
    BY <1>3, <1>8, <2>1 DEF InsertFails, InsertSelection
  <2>2. CASE /\ coupons' = [coupons EXCEPT ![Len(coupons)].rows =
                              Append(@, selections[Len(Stored) + 1])]
             /\ UNCHANGED <<phase, told>>
    <3>. DEFINE n == Len(coupons)
                row == selections[Len(Stored) + 1]
    <3>0. /\ n \in DOMAIN coupons /\ IsSeq(Stored) /\ Len(Stored) \in Nat
          /\ Len(Stored) < Len(selections) /\ phase = "save"
      BY <1>8, SeqShape DEF InsertSelection, Stored, IsCoupon
    <3>1. coupons' = [coupons EXCEPT ![n] = [odd |-> coupons[n].odd, rows |-> Append(Stored, row)]]
      <4>. DEFINE c == coupons[n]
      <4>1. c = [odd |-> c.odd, rows |-> c.rows]
        BY <3>0 DEF IsCoupon
      <4>2. coupons' = [coupons EXCEPT ![n] = [c EXCEPT !.rows = Append(c.rows, row)]]
        BY <2>2
      <4>. HIDE DEF c, row, n, SavedInv
      <4>3. [c EXCEPT !.rows = Append(c.rows, row)] =
              [odd |-> c.odd, rows |-> Append(c.rows, row)]
        BY <4>1, ExceptRows
      <4>4. coupons' = [coupons EXCEPT ![n] = [odd |-> c.odd, rows |-> Append(c.rows, row)]]
        BY <4>2, <4>3
      <4>5. c.rows = Stored
        BY DEF c, n, Stored
      <4>. QED
        BY <4>4, <4>5 DEF c
    <3>2. /\ IsSeq(coupons') /\ Len(coupons') = n /\ DOMAIN coupons' = DOMAIN coupons
          /\ \A i \in DOMAIN coupons : i # n => coupons'[i] = coupons[i]
          /\ coupons'[n] = [odd |-> coupons[n].odd, rows |-> Append(Stored, row)]
      <4>. DEFINE e == [odd |-> coupons[n].odd, rows |-> Append(Stored, row)]
      <4>1. coupons' = [coupons EXCEPT ![n] = e]
        BY <3>1
      <4>. HIDE DEF e
      <4>2. /\ IsSeq(coupons') /\ Len(coupons') = n /\ DOMAIN coupons' = DOMAIN coupons
            /\ \A i \in DOMAIN coupons : coupons'[i] = IF i = n THEN e ELSE coupons[i]
        BY <3>0, <4>1, ExceptShape
      <4>. QED
        BY <3>0, <4>2 DEF e
    <3>3. Len(coupons'[n].rows) = Len(Stored) + 1 /\ IsCoupon(coupons'[n])
          /\ \A j \in 1..Len(Stored) + 1 : coupons'[n].rows[j] = selections[j]
      <4>1. /\ \A j \in 1..Len(Stored) : Append(Stored, row)[j] = selections[j]
            /\ Append(Stored, row)[Len(Stored) + 1] = selections[Len(Stored) + 1]
        BY <3>0, AppendShape
      <4>2. \A j \in 1..Len(Stored) + 1 : Append(Stored, row)[j] = selections[j]
        BY <3>0, <4>1
      <4>. QED
        BY <3>0, <3>2, <4>2, AppendShape DEF IsCoupon
    <3>4. UNCHANGED <<selections, notices, told, phase>>
      BY <1>8, <2>2 DEF InsertSelection
    <3>5. \A i \in DOMAIN coupons' : IsCoupon(coupons'[i])
      BY <3>2, <3>3
    <3>. QED
      BY <1>0, <3>0, <3>2, <3>3, <3>4, <3>5 DEF Stored
  <2>. QED
    BY <1>8, <2>1, <2>2 DEF InsertSelection
<1>9. CASE Finish
  <2>1. Stored = selections
    <3>1. IsSeq(Stored) /\ IsSeq(selections) /\ Len(Stored) = Len(selections)
      BY <1>9 DEF Finish, Stored, IsCoupon
    <3>2. \A j \in 1..Len(Stored) : Stored[j] = selections[j]
      BY <1>9 DEF Finish
    <3>. QED
      BY ONLY <3>1, <3>2, SameSeq
  <2>2. Len(coupons) \in DOMAIN coupons /\ Respond(TRUE, selections)
        /\ UNCHANGED <<coupons, selections>>
    BY <1>9 DEF Finish
  <2>3. \A n \in notices' : n \in notices \/
          (n.coupon \in DOMAIN coupons /\ Len(coupons[n.coupon].rows) = n.count)
    BY <1>9, <2>1, <2>2 DEF Finish, Stored
  <2>. QED
    BY <1>3, <2>1, <2>2, <2>3 DEF Stored
<1>. QED
  BY <1>2, <1>4, <1>5, <1>6, <1>7, <1>8, <1>9 DEF Next, Generate

\* What a user is told is saved is what the database holds, of every request.
THEOREM ToldIsTrue == Spec => []ToldIsStored
<1>1. SavedInv => ToldIsStored
  BY DEF SavedInv, ToldIsStored
<1>. QED
  BY SavedInit, SavedStep, <1>1, PTL DEF Spec

-----------------------------------------------------------------------------
LEMMA ExceptQuote ==
  ASSUME NEW c, IsCandidate(c), NEW x
  PROVE  IsCandidate([c EXCEPT !.quote = x])
<1>1. [[match |-> c.match, market |-> c.market, conf |-> c.conf, quote |-> c.quote]
         EXCEPT !.quote = x]
      = [match |-> c.match, market |-> c.market, conf |-> c.conf, quote |-> x]
  OBVIOUS
<1>. QED
  BY <1>1 DEF IsCandidate

\* The selections follow what was picked, in its order, and the combined odd is
\* that of what was picked, up to the answer.
OddInv ==
  /\ IsSeq(chosen)
  /\ \A c \in todo \cup cands : IsCandidate(c)
  /\ \A j \in DOMAIN chosen : IsCandidate(chosen[j])
  /\ Len(selections) <= Len(chosen)
  /\ \A j \in DOMAIN selections : Keeps(selections[j], chosen[j])
  /\ phase \in {"predict", "quote"} => selections = <<>>
  /\ phase = "trend" => Len(selections) # 0
  /\ phase \in {"enrich", "trend", "save"} => combined = combinedOddProduct(chosen)
  /\ phase = "save" => coupons[Len(coupons)].odd = combined /\ Len(selections) = Len(chosen)
  /\ phase = "idle" /\ Len(told) # 0 /\ told[Len(told)].ok =>
       /\ coupons[told[Len(told)].coupon].odd = combinedOddProduct(chosen)
       /\ told[Len(told)].shown = selections
       /\ Len(selections) = Len(chosen)

LEMMA OddInit == Init => OddInv
BY EmptyIsSeq DEF Init, OddInv

\* A request that ends well, or with an error.
LEMMA RespondKeepsOdds ==
  ASSUME SavedInv, NEW ok \in BOOLEAN, NEW shown, Respond(ok, shown), UNCHANGED coupons,
         IsSeq(chosen'), \A c \in todo' \cup cands' : IsCandidate(c),
         \A j \in DOMAIN chosen' : IsCandidate(chosen'[j]),
         Len(selections') <= Len(chosen'),
         \A j \in DOMAIN selections' : Keeps(selections'[j], chosen'[j]),
         ok = TRUE => /\ coupons[Len(coupons)].odd = combinedOddProduct(chosen')
                      /\ shown = selections' /\ Len(selections') = Len(chosen')
  PROVE  OddInv'
<1>. DEFINE new == [ok |-> ok, coupon |-> Len(coupons), shown |-> shown]
<1>1. told' = Append(told, new) /\ phase' = "idle"
  BY DEF Respond
<1>2. Len(told') = Len(told) + 1 /\ told'[Len(told) + 1] = new /\ Len(told) \in Nat
  BY <1>1, AppendShape, SeqShape DEF SavedInv
<1>3. told'[Len(told')] = new
  BY <1>2
<1>. QED
  BY <1>1, <1>2, <1>3 DEF OddInv

LEMMA OddStep == SavedInv /\ SavedInv' /\ OddInv /\ [Next]_vars => OddInv'
<1>. SUFFICES ASSUME SavedInv, SavedInv', OddInv, [Next]_vars PROVE OddInv'
  OBVIOUS
<1>0. /\ Len(selections) \in Nat /\ DOMAIN selections = 1..Len(selections)
      /\ Len(chosen) \in Nat /\ DOMAIN chosen = 1..Len(chosen)
  BY SeqShape DEF SavedInv, OddInv
<1>1. CASE Collect \/ UNCHANGED vars
  <2>1. UNCHANGED <<deskVars, coupons, told>>
    BY <1>1 DEF Collect, StartSync, GetOdds, WriteOdd, WriteHistory, collectorLeaves, vars
  <2>. QED
    BY <2>1 DEF deskVars, OddInv
<1>2. CASE List
  <2>1. /\ chosen' = <<>> /\ selections' = <<>> /\ todo' = {} /\ cands' = {}
        /\ IsSeq(chosen') /\ Len(chosen') = 0 /\ DOMAIN chosen' = {}
    BY <1>2, EmptyIsSeq DEF List
  <2>2. CASE UNCHANGED coupons /\ Respond(FALSE, <<>>)
    <3>1. /\ \A c \in todo' \cup cands' : IsCandidate(c)
          /\ \A j \in DOMAIN chosen' : IsCandidate(chosen'[j])
          /\ \A j \in DOMAIN selections' : Keeps(selections'[j], chosen'[j])
          /\ Len(selections') <= Len(chosen')
      BY <2>1
    <3>. QED
      BY <2>1, <2>2, <3>1, RespondKeepsOdds
  <2>3. CASE phase' = "predict"
    BY <2>1, <2>3 DEF OddInv
  <2>. QED
    BY <1>2, <2>2, <2>3 DEF List
<1>3. CASE Predict
  <2>1. \A c \in todo' : IsCandidate(c)
    BY <1>3 DEF Predict, buildCandidatePool, IsCandidate
  <2>. QED
    BY <1>3, <2>1 DEF Predict, OddInv
<1>4. CASE QuoteCandidate
  <2>1. PICK c \in todo :
          /\ todo' = todo \ {c}
          /\ \/ cands' = cands \cup
                   {[c EXCEPT !.quote = OddsSummaryForMarket(book[c.match], c.market)]}
             \/ cands' = cands \cup {c}
    BY <1>4 DEF QuoteCandidate
  <2>2. \A d \in todo' \cup cands' : IsCandidate(d)
    BY <2>1, ExceptQuote DEF OddInv
  <2>. QED
    BY <1>4, <2>2 DEF QuoteCandidate, OddInv
<1>5. CASE Pick
  <2>1. chosen' \in Seq(cands) /\ combined' = combinedOddProduct(chosen')
    BY <1>5 DEF Pick, Playable
  <2>2. /\ IsSeq(chosen') /\ \A j \in DOMAIN chosen' : chosen'[j] \in cands
        /\ Len(chosen') \in Nat
    BY <2>1 DEF IsSeq
  <2>3. selections' = <<>> /\ Len(selections') = 0 /\ DOMAIN selections' = {}
    BY <1>5, EmptyIsSeq DEF Pick, OddInv
  <2>4. phase' = "enrich" /\ UNCHANGED <<todo, cands>>
    BY <1>5 DEF Pick
  <2>. QED
    BY <2>1, <2>2, <2>3, <2>4 DEF OddInv
<1>6. CASE ReadOdds
  <2>. DEFINE c == chosen[Len(selections) + 1]
  <2>1. PICK q, t : /\ selections' = Append(selections, Row(c, q, t))
                    /\ Quoted(c) => q = c.quote
    BY <1>6 DEF ReadOdds, Requoted
  <2>2. Keeps(Row(c, q, t), c)
    BY <2>1 DEF Keeps, Row
  <2>3. /\ Len(selections') = Len(selections) + 1 /\ DOMAIN selections' = 1..Len(selections) + 1
        /\ \A j \in 1..Len(selections) : selections'[j] = selections[j]
        /\ selections'[Len(selections) + 1] = Row(c, q, t)
    BY <2>1, AppendShape DEF SavedInv
  <2>4. /\ phase = "enrich" /\ phase' \in {"enrich", "trend"}
        /\ Len(selections) < Len(chosen) /\ UNCHANGED <<todo, cands, chosen, combined>>
    BY <1>6 DEF ReadOdds, More
  <2>5. \A j \in DOMAIN selections' : Keeps(selections'[j], chosen[j])
    <3>. SUFFICES ASSUME NEW j \in 1..Len(selections) + 1 PROVE Keeps(selections'[j], chosen[j])
      BY <2>3
    <3>1. CASE j \in 1..Len(selections)
      BY <1>0, <2>3, <3>1 DEF OddInv
    <3>2. CASE j = Len(selections) + 1
      BY <2>2, <2>3, <3>2
    <3>. QED
      BY <1>0, <3>1, <3>2
  <2>. QED
    <3>1. Len(selections') <= Len(chosen') /\ Len(selections') # 0
      BY <1>0, <2>3, <2>4
    <3>2. combined' = combinedOddProduct(chosen')
      BY <2>4 DEF OddInv
    <3>. QED
      BY <2>4, <2>5, <3>1, <3>2 DEF OddInv
<1>7. CASE ReadTrend
  <2>. DEFINE n == Len(selections)
  <2>1. phase = "trend" /\ phase' = "enrich" /\ UNCHANGED <<todo, cands, chosen, combined>>
    BY <1>7 DEF ReadTrend
  <2>2. n \in DOMAIN selections
    BY <1>0, <2>1 DEF OddInv
  <2>3. Len(selections') = n /\ \A j \in DOMAIN selections' : Keeps(selections'[j], chosen[j])
    <3>1. CASE UNCHANGED selections
      BY <3>1 DEF OddInv
    <3>2. ASSUME NEW x, selections' = [selections EXCEPT ![n].trend = x]
          PROVE  Len(selections') = n /\ \A j \in DOMAIN selections' : Keeps(selections'[j], chosen[j])
      <4>. DEFINE e == [selections[n] EXCEPT !.trend = x]
      <4>1. Keeps(e, chosen[n])
        BY <2>2 DEF OddInv, Keeps
      <4>2. selections' = [selections EXCEPT ![n] = e]
        BY <3>2
      <4>. HIDE DEF e
      <4>3. /\ Len(selections') = n /\ DOMAIN selections' = DOMAIN selections
            /\ \A j \in DOMAIN selections : selections'[j] = IF j = n THEN e ELSE selections[j]
        BY <2>2, <4>2, ExceptShape DEF SavedInv
      <4>. QED
        BY <4>1, <4>3 DEF OddInv
    <3>. QED
      BY <1>7, <3>1, <3>2 DEF ReadTrend
  <2>. QED
    BY <2>1, <2>3 DEF OddInv
<1>8. CASE InsertCoupon
  <2>1. CASE UNCHANGED coupons /\ Respond(FALSE, <<>>)
    <3>1. UNCHANGED <<todo, cands, chosen, selections>>
      BY <1>8 DEF InsertCoupon
    <3>. QED
      BY <2>1, <3>1, RespondKeepsOdds DEF OddInv
  <2>2. CASE coupons' = Append(coupons, [odd |-> combined, rows |-> <<>>]) /\ phase' = "save"
    <3>1. Len(coupons') = Len(coupons) + 1 /\ coupons'[Len(coupons) + 1].odd = combined
      BY <2>2, AppendShape DEF SavedInv
    <3>2. /\ phase = "enrich" /\ Len(selections) = Len(chosen)
          /\ UNCHANGED <<todo, cands, chosen, combined, selections>>
      <4>1. /\ phase = "enrich" /\ ~(Len(selections) < Len(chosen))
            /\ UNCHANGED <<todo, cands, chosen, combined, selections>>
        BY <1>8 DEF InsertCoupon, More
      <4>2. Len(selections) <= Len(chosen)
        BY DEF OddInv
      <4>3. Len(selections) = Len(chosen)
        <5>. DEFINE n == Len(selections)
                    k == Len(chosen)
        <5>1. n \in Nat /\ k \in Nat /\ ~(n < k) /\ n <= k
          BY <1>0, <4>1, <4>2
        <5>. HIDE DEF n, k
        <5>2. n = k
          BY <5>1
        <5>. QED
          BY <5>2 DEF n, k
      <4>. QED
        BY <4>1, <4>3
    <3>. QED
      BY <2>2, <3>1, <3>2 DEF OddInv
  <2>. QED
    BY <1>8, <2>1, <2>2 DEF InsertCoupon
<1>9. CASE InsertSelection
  <2>1. UNCHANGED <<todo, cands, chosen, combined, selections>> /\ phase = "save"
    BY <1>9 DEF InsertSelection
  <2>2. CASE InsertFails
    BY <2>1, <2>2, RespondKeepsOdds DEF InsertFails, OddInv
  <2>3. CASE /\ coupons' = [coupons EXCEPT ![Len(coupons)].rows =
                              Append(@, selections[Len(Stored) + 1])]
             /\ UNCHANGED <<phase, told>>
    <3>. DEFINE n == Len(coupons)
                e == [coupons[n] EXCEPT !.rows = Append(@, selections[Len(Stored) + 1])]
    <3>1. n \in DOMAIN coupons /\ coupons' = [coupons EXCEPT ![n] = e]
      BY <2>1, <2>3 DEF SavedInv
    <3>2. e.odd = coupons[n].odd
      <4>1. coupons[n] = [odd |-> coupons[n].odd, rows |-> coupons[n].rows]
        BY <3>1 DEF SavedInv, IsCoupon
      <4>. DEFINE rows == Append(coupons[n].rows, selections[Len(Stored) + 1])
      <4>2. e = [coupons[n] EXCEPT !.rows = rows]
        OBVIOUS
      <4>3. [coupons[n] EXCEPT !.rows = rows] = [odd |-> coupons[n].odd, rows |-> rows]
        <5>. HIDE DEF rows
        <5>. QED
          BY <4>1, ExceptRows
      <4>. QED
        BY <4>2, <4>3
    <3>. HIDE DEF e
    <3>3. Len(coupons') = n /\ coupons'[n] = e
      BY <3>1, ExceptShape DEF SavedInv
    <3>. QED
      BY <2>1, <2>3, <3>2, <3>3 DEF OddInv
  <2>. QED
    BY <1>9, <2>2, <2>3 DEF InsertSelection
<1>10. CASE Finish
  <2>1. /\ Respond(TRUE, selections) /\ phase = "save"
        /\ UNCHANGED <<coupons, todo, cands, chosen, combined, selections>>
    BY <1>10 DEF Finish
  <2>. QED
    BY <2>1, RespondKeepsOdds DEF OddInv
<1>. QED
  BY <1>1, <1>2, <1>3, <1>4, <1>5, <1>6, <1>7, <1>8, <1>9, <1>10 DEF Next, Generate

\* The combined odd of the coupon a user was just told of is the product of the
\* odds stored with it, unless an odd was filled in after the pick.
THEOREM CombinedOddIsTrue == Spec => []CombinedOddIsStored
<1>1. SavedInv /\ OddInv => CombinedOddIsStored
  <2>. SUFFICES
         ASSUME SavedInv, OddInv, NEW i \in DOMAIN told, i = Len(told), phase = "idle", told[i].ok,
                \A j \in DOMAIN chosen :
                  \/ Quoted(chosen[j])
                  \/ coupons[told[i].coupon].rows[j].quote = chosen[j].quote
         PROVE  LET c == coupons[told[i].coupon]
                IN  combinedOddProduct([j \in DOMAIN c.rows |-> AsSaved(c.rows[j])]) = c.odd
    BY DEF CombinedOddIsStored
  <2>. DEFINE c == coupons[told[i].coupon]
              stored == [j \in DOMAIN c.rows |-> AsSaved(c.rows[j])]
  <2>1. i # 0
    BY SeqShape DEF SavedInv
  <2>2. c.rows = selections /\ c.odd = combinedOddProduct(chosen) /\ Len(selections) = Len(chosen)
    BY <2>1 DEF SavedInv, OddInv
  <2>3. DOMAIN selections = DOMAIN chosen /\ DOMAIN chosen = 1..Len(chosen)
    BY <2>2, SeqShape DEF SavedInv, OddInv
  <2>4. \A j \in DOMAIN chosen : AsSaved(selections[j]) = chosen[j]
    BY <2>2, <2>3 DEF AsSaved, Keeps, IsCandidate, OddInv
  <2>5. chosen = [j \in DOMAIN chosen |-> chosen[j]]
    BY DEF OddInv, IsSeq
  <2>6. stored = chosen
    BY <2>2, <2>3, <2>4, <2>5
  <2>. QED
    BY <2>2, <2>6
<1>. QED
  BY SavedInit, SavedStep, OddInit, OddStep, <1>1, PTL DEF Spec

-----------------------------------------------------------------------------
\* Some bookmaker's row of the answers of the API.
Published(m, q) == \E a \in Answers[m] : q \in Range(a)

\* match_odds holds finitely many rows, all of them published for their match, and
\* so are the rows SyncOdds has still to write.
FeedInv ==
  /\ book \in [Matches -> SUBSET Quote]
  /\ \A m \in Matches : IsFiniteSet(book[m]) /\ \A q \in book[m] : Published(m, q)
  /\ feed \in [matches : Seq(Matches), rows : Seq(Quote), half : BOOLEAN]
  /\ feed.rows # <<>> =>
       feed.matches # <<>>
       /\ \A i \in DOMAIN feed.rows : Published(Head(feed.matches), feed.rows[i])
  /\ feed.half => feed.rows # <<>>
  /\ syncs \in 0..MaxSyncs

LEMMA FeedInit == Init => FeedInv
<1>. SUFFICES ASSUME Init PROVE FeedInv
  OBVIOUS
<1>1. \A m \in Matches : book[m] = {}
  BY DEF Init
<1>2. feed \in [matches : Seq(Matches), rows : Seq(Quote), half : BOOLEAN] /\ feed.rows = <<>>
      /\ feed.half = FALSE
  BY DEF Init, Idle
<1>3. syncs \in 0..MaxSyncs /\ book \in [Matches -> SUBSET Quote]
  BY CouponDeskAssumption DEF Init
<1>. QED
  BY <1>1, <1>2, <1>3, FS_EmptySet DEF FeedInv

\* The rest of a sequence.
LEMMA TailShape ==
  ASSUME NEW S, NEW s \in Seq(S), s # <<>>
  PROVE  /\ Tail(s) \in Seq(S) /\ Head(s) \in S /\ Len(Tail(s)) = Len(s) - 1
         /\ DOMAIN Tail(s) = 1..Len(s) - 1
         /\ \A i \in 1..Len(s) - 1 : i + 1 \in DOMAIN s /\ Tail(s)[i] = s[i + 1]
         /\ 1 \in DOMAIN s /\ Head(s) = s[1]
<1>1. Len(s) \in Nat /\ Len(s) # 0 /\ DOMAIN s = 1..Len(s)
  BY EmptySeq
<1>. QED
  BY <1>1, HeadTailProperties

\* What is to come is a part of the calendar.
LEMMA ToComeShape ==
  ASSUME NEW ms \in ToCome
  PROVE  ms \in Seq(Matches) /\ Range(ms) \subseteq Matches
<1>1. PICK i \in 1..Len(Calendar) + 1 : ms = SubSeq(Calendar, i, Len(Calendar))
  BY DEF ToCome
<1>2. ms \in Seq(Matches)
  BY <1>1, CouponDeskAssumption, SubSeqProperties
<1>. QED
  BY <1>2 DEF Range

LEMMA ExceptFeed ==
  ASSUME NEW f, f = [matches |-> f.matches, rows |-> f.rows, half |-> f.half],
         NEW a, NEW b, NEW c
  PROVE  [f EXCEPT !.rows = a, !.half = b, !.matches = c]
           = [matches |-> c, rows |-> a, half |-> b]
<1>. DEFINE g == [f EXCEPT !.rows = a, !.half = b, !.matches = c]
<1>1. DOMAIN g = DOMAIN f /\ g = [x \in DOMAIN f |-> g[x]]
  OBVIOUS
<1>2. DOMAIN f = {"matches", "rows", "half"}
  OBVIOUS
<1>3. g["rows"] = a /\ g["half"] = b /\ g["matches"] = c
  BY <1>2
<1>. HIDE DEF g
<1>4. g = [matches |-> c, rows |-> a, half |-> b]
  BY <1>1, <1>2, <1>3
<1>. QED
  BY <1>4 DEF g

\* What is left to do after a row is as it should be.
LEMMA NextRowKeeps ==
  ASSUME FeedInv, feed.rows # <<>>
  PROVE  /\ NextRow \in [matches : Seq(Matches), rows : Seq(Quote), half : BOOLEAN]
         /\ NextRow.half = FALSE
         /\ NextRow.rows # <<>> =>
              NextRow.matches # <<>>
              /\ \A i \in DOMAIN NextRow.rows : Published(Head(NextRow.matches), NextRow.rows[i])
<1>. DEFINE ms == IF Len(feed.rows) = 1 THEN Tail(feed.matches) ELSE feed.matches
<1>1. feed \in [matches : Seq(Matches), rows : Seq(Quote), half : BOOLEAN]
      /\ feed.matches \in Seq(Matches) /\ feed.rows \in Seq(Quote) /\ feed.matches # <<>>
  BY DEF FeedInv
<1>2. NextRow = [matches |-> ms, rows |-> Tail(feed.rows), half |-> FALSE]
  <2>1. feed = [matches |-> feed.matches, rows |-> feed.rows, half |-> feed.half]
    BY <1>1
  <2>2. NextRow = [feed EXCEPT !.rows = Tail(feed.rows), !.half = FALSE, !.matches = ms]
    BY DEF NextRow
  <2>. HIDE DEF ms
  <2>. QED
    BY <2>1, <2>2, ExceptFeed
<1>3. /\ Tail(feed.rows) \in Seq(Quote) /\ ms \in Seq(Matches)
      /\ DOMAIN Tail(feed.rows) = 1..Len(feed.rows) - 1
      /\ \A i \in 1..Len(feed.rows) - 1 :
           i + 1 \in DOMAIN feed.rows /\ Tail(feed.rows)[i] = feed.rows[i + 1]
      /\ Len(Tail(feed.rows)) = Len(feed.rows) - 1
  BY <1>1, TailShape
<1>4. Tail(feed.rows) # <<>> => ms = feed.matches
  <2>1. Tail(feed.rows) # <<>> => Len(Tail(feed.rows)) # 0
    BY <1>3, EmptySeq
  <2>2. Len(feed.rows) = 1 => Len(Tail(feed.rows)) = 0
    BY <1>3
  <2>. QED
    BY <2>1, <2>2
<1>5. \A i \in DOMAIN Tail(feed.rows) : Published(Head(feed.matches), Tail(feed.rows)[i])
  BY <1>3 DEF FeedInv
<1>. HIDE DEF ms
<1>. QED
  BY <1>1, <1>2, <1>3, <1>4, <1>5

LEMMA FeedStep == FeedInv /\ [Next]_vars => FeedInv'
<1>. SUFFICES ASSUME FeedInv, [Next]_vars PROVE FeedInv'
  OBVIOUS
<1>0. feed.matches \in Seq(Matches) /\ feed.rows \in Seq(Quote) /\ feed.half \in BOOLEAN
  BY DEF FeedInv
<1>1. CASE StartSync
  <2>1. PICK ms \in ToCome : feed' = [Idle EXCEPT !.matches = ms]
    BY <1>1 DEF StartSync
  <2>2. ms \in Seq(Matches)
    BY ToComeShape
  <2>3. feed' = [matches |-> ms, rows |-> <<>>, half |-> FALSE]
    BY <2>1 DEF Idle
  <2>4. syncs' \in 0..MaxSyncs
    BY <1>1, CouponDeskAssumption DEF StartSync, FeedInv
  <2>5. feed' \in [matches : Seq(Matches), rows : Seq(Quote), half : BOOLEAN]
    BY <2>2, <2>3
  <2>. QED
    BY <1>1, <2>3, <2>4, <2>5 DEF StartSync, FeedInv
<1>2. CASE GetOdds
  <2>0. /\ feed.rows = <<>> /\ feed.matches # <<>> /\ UNCHANGED <<book, syncs>>
        /\ ~feed.half
    BY <1>2 DEF GetOdds, FeedInv
  <2>1. Tail(feed.matches) \in Seq(Matches) /\ Head(feed.matches) \in Matches
    BY <1>0, <2>0, TailShape
  <2>2. ASSUME NEW a \in Answers[Head(feed.matches)],
               feed' = [feed EXCEPT !.rows = a, !.matches = IF a = <<>> THEN Tail(@) ELSE @]
        PROVE  FeedInv'
    <3>1. a \in Seq(Quote) /\ \A i \in DOMAIN a : a[i] \in Range(a)
      BY <2>1, CouponDeskAssumption DEF Range
    <3>. DEFINE ms == IF a = <<>> THEN Tail(feed.matches) ELSE feed.matches
    <3>2. feed' = [matches |-> ms, rows |-> a, half |-> FALSE]
      BY <2>0, <2>2 DEF FeedInv
    <3>3. ms \in Seq(Matches) /\ (a # <<>> => ms = feed.matches)
      BY <1>0, <2>1
    <3>4. \A i \in DOMAIN a : Published(Head(feed.matches), a[i])
      BY <3>1 DEF Published
    <3>. HIDE DEF ms
    <3>5. feed' \in [matches : Seq(Matches), rows : Seq(Quote), half : BOOLEAN]
      BY <3>1, <3>2, <3>3
    <3>. QED
      BY <2>0, <3>2, <3>3, <3>4, <3>5 DEF FeedInv
  <2>3. CASE feed' = [feed EXCEPT !.matches = Tail(@)]
    <3>1. feed' = [matches |-> Tail(feed.matches), rows |-> <<>>, half |-> FALSE]
      BY <2>0, <2>3 DEF FeedInv
    <3>2. feed' \in [matches : Seq(Matches), rows : Seq(Quote), half : BOOLEAN]
      BY <2>1, <3>1
    <3>. QED
      BY <2>0, <3>1, <3>2 DEF FeedInv
  <2>. QED
    BY <1>2, <2>2, <2>3 DEF GetOdds
<1>3. CASE WriteOdd
  <2>. DEFINE m == Head(feed.matches)
              r == Head(feed.rows)
  <2>0. feed.rows # <<>> /\ ~feed.half /\ UNCHANGED syncs
    BY <1>3 DEF WriteOdd
  <2>1. m \in Matches /\ r \in Quote /\ Published(m, r)
    <3>1. feed.matches # <<>> /\ \A i \in DOMAIN feed.rows : Published(m, feed.rows[i])
      BY <2>0 DEF FeedInv
    <3>. QED
      BY <1>0, <2>0, <3>1, TailShape
  <2>2. CASE /\ book' = [book EXCEPT ![m] = {q \in @ : q.label # r.label \/ q.maker # r.maker}
                                             \cup {r}]
             /\ feed' = [feed EXCEPT !.half = TRUE]
    <3>. DEFINE kept == {q \in book[m] : q.label # r.label \/ q.maker # r.maker}
    <3>1. book' = [book EXCEPT ![m] = kept \cup {r}]
      BY <2>2
    <3>2. kept \subseteq book[m] /\ book[m] \subseteq Quote /\ IsFiniteSet(book[m])
      BY <2>1 DEF FeedInv
    <3>3. IsFiniteSet(kept \cup {r})
      <4>. HIDE DEF kept, r
      <4>. QED
        BY <3>2, FS_Subset, FS_AddElement
    <3>. HIDE DEF kept, m, r
    <3>4. book' \in [Matches -> SUBSET Quote]
      BY <2>1, <3>1, <3>2 DEF FeedInv
    <3>5. \A k \in Matches : book'[k] = IF k = m THEN kept \cup {r} ELSE book[k]
      BY <3>1 DEF FeedInv
    <3>6. \A k \in Matches : IsFiniteSet(book'[k]) /\ \A q \in book'[k] : Published(k, q)
      BY <2>1, <3>2, <3>3, <3>5 DEF FeedInv
    <3>7. feed' = [matches |-> feed.matches, rows |-> feed.rows, half |-> TRUE]
      BY <2>2 DEF FeedInv
    <3>8. feed' \in [matches : Seq(Matches), rows : Seq(Quote), half : BOOLEAN]
      BY <1>0, <3>7
    <3>. QED
      BY <2>0, <3>4, <3>6, <3>7, <3>8 DEF FeedInv
  <2>3. CASE feed' = NextRow /\ UNCHANGED book
    BY <2>0, <2>3, NextRowKeeps DEF FeedInv
  <2>. QED
    BY <1>3, <2>2, <2>3 DEF WriteOdd
<1>4. CASE WriteHistory
  <2>1. feed.rows # <<>> /\ feed' = NextRow /\ UNCHANGED <<book, syncs>>
    BY <1>4 DEF WriteHistory, FeedInv
  <2>. QED
    BY <2>1, NextRowKeeps DEF FeedInv
<1>5. CASE Generate \/ UNCHANGED vars
  <2>1. UNCHANGED <<book, feed, syncs>>
    BY <1>5 DEF Generate, List, Predict, QuoteCandidate, Pick, ReadOdds, ReadTrend,
                InsertCoupon, InsertSelection, Finish, oddsVars, vars
  <2>. QED
    BY <2>1 DEF FeedInv
<1>. QED
  BY <1>1, <1>2, <1>3, <1>4, <1>5 DEF Next, Collect

\* The odd GetMatchOdds gives a market is one that was published for it, or none.
LEMMA BookOdd ==
  ASSUME FeedInv, NEW m \in Matches, NEW k
  PROVE  LET o == OddsSummaryForMarket(book[m], k)
         IN  /\ o \in Nat
             /\ o # 0 => \E a \in Answers[m] : \E r \in Range(a) :
                           MapToMLKey(r.label) = k /\ r.odd = o
<1>. DEFINE o == OddsSummaryForMarket(book[m], k)
<1>1. Rows(book[m]) /\ \A q \in book[m] : Published(m, q)
  BY DEF Rows, FeedInv, Quote
<1>2. o \in Nat /\ (o = 0 \/ \E r \in OddsFor(book[m], k) : r.odd = o)
  BY <1>1, BestOdd
<1>3. ASSUME o # 0
      PROVE  \E a \in Answers[m] : \E r \in Range(a) : MapToMLKey(r.label) = k /\ r.odd = o
  <2>1. PICK r \in OddsFor(book[m], k) : r.odd = o
    BY <1>2, <1>3
  <2>2. r \in book[m] /\ MapToMLKey(r.label) = k
    BY DEF OddsFor
  <2>3. PICK a \in Answers[m] : r \in Range(a)
    BY <1>1, <2>2 DEF Published
  <2>. QED
    BY <2>1, <2>2, <2>3
<1>. QED
  BY <1>2, <1>3

\* The greater score of a market is one of its scores.
LEMMA MergedScore ==
  ASSUME NEW m \in Matches, NEW k \in DOMAIN mergeMarketScores(Predictions[m])
  PROVE  k \in Markets /\ mergeMarketScores(Predictions[m])[k] \in 0..100
<1>. DEFINE p == Predictions[m]
            A == {p.confidence[j] : j \in DOMAIN p.confidence \cap {k}}
            B == {p.predictions[j] : j \in DOMAIN p.predictions \cap {k}}
<1>1. k \in Markets /\ (k \in DOMAIN p.confidence \/ k \in DOMAIN p.predictions)
      /\ mergeMarketScores(p)[k] = Max(A \cup B)
  BY DEF mergeMarketScores
<1>2. IsFiniteSet(A) /\ A \subseteq 0..100 /\ (k \in DOMAIN p.confidence => A # {})
  <2>1. CASE k \in DOMAIN p.confidence
    <3>1. A = {p.confidence[k]}
      BY <2>1
    <3>2. p.confidence[k] \in 0..100
      BY <1>1, <2>1, CouponDeskAssumption
    <3>. QED
      BY <3>1, <3>2, FS_Singleton
  <2>2. CASE k \notin DOMAIN p.confidence
    <3>1. A = {}
      BY <2>2
    <3>. QED
      BY <2>2, <3>1, FS_EmptySet
  <2>. QED
    BY <2>1, <2>2
<1>3. IsFiniteSet(B) /\ B \subseteq 0..100 /\ (k \in DOMAIN p.predictions => B # {})
  <2>1. CASE k \in DOMAIN p.predictions
    <3>1. B = {p.predictions[k]}
      BY <2>1
    <3>2. p.predictions[k] \in 0..100
      BY <1>1, <2>1, CouponDeskAssumption
    <3>. QED
      BY <3>1, <3>2, FS_Singleton
  <2>2. CASE k \notin DOMAIN p.predictions
    <3>1. B = {}
      BY <2>2
    <3>. QED
      BY <2>2, <3>1, FS_EmptySet
  <2>. QED
    BY <2>1, <2>2
<1>. HIDE DEF A, B
<1>4. IsFiniteSet(A \cup B) /\ A \cup B # {} /\ A \cup B \subseteq 0..100
      /\ A \cup B \subseteq Int
  <2>1. IsFiniteSet(A \cup B)
    BY <1>2, <1>3, FS_Union
  <2>2. A \cup B # {} /\ A \cup B \subseteq 0..100
    BY <1>1, <1>2, <1>3
  <2>3. A \cup B \subseteq Int
    BY <2>2
  <2>. QED
    BY <2>1, <2>2, <2>3
<1>5. Max(A \cup B) \in A \cup B
  BY <1>4, MaxOf
<1>. QED
  BY <1>1, <1>4, <1>5

\* The pool of a match: candidates without an odd.
LEMMA PoolShape ==
  ASSUME NEW m \in Matches, NEW c \in buildCandidatePool(m)
  PROVE  c \in Candidate /\ c.quote = 0
<1>. DEFINE score == mergeMarketScores(Predictions[m])
<1>1. PICK k \in DOMAIN score :
        score[k] >= 45 /\ c = [match |-> m, market |-> k, conf |-> score[k], quote |-> 0]
  BY DEF buildCandidatePool
<1>. HIDE DEF score
<1>2. k \in Markets /\ score[k] \in 0..100
  BY MergedScore DEF score
<1>. QED
  <2>. DEFINE x == score[k]
  <2>1. x \in 0..100 /\ x >= 45 /\ c = [match |-> m, market |-> k, conf |-> x, quote |-> 0]
    BY <1>1, <1>2
  <2>. HIDE DEF x
  <2>2. x \in 45..100
    BY <2>1
  <2>. QED
    BY <1>2, <2>1, <2>2 DEF Candidate

\* Every failure, and every answer, is one of those allowed for.
CountInv ==
  /\ faults \in 0..MaxFaults
  /\ phase \in {"idle", "predict", "quote", "enrich", "trend", "save"}
  /\ Len(told) <= MaxRequests
  /\ phase # "idle" => Len(told) < MaxRequests

\* What a request works on: candidates with odds that were published.
CandInv ==
  /\ req \in Requests /\ listed \subseteq Matches
  /\ todo \subseteq Candidate /\ cands \subseteq Candidate
  /\ \A c \in todo \cup cands : Priced(c)
  /\ chosen \in Seq(cands) /\ Len(chosen) <= req.picks

\* Selections with odds that were published.
SaleRows(rows) == rows \in Seq(Saved) /\ \A j \in DOMAIN rows : Priced(rows[j])

\* What it makes of them and what is saved.
SaleInv ==
  /\ SaleRows(selections)
  /\ \A i \in DOMAIN coupons : SaleRows(coupons[i].rows)

LEMMA DeskInit == Init => CountInv /\ CandInv /\ SaleInv
<1>. SUFFICES ASSUME Init PROVE CountInv /\ CandInv /\ SaleInv
  OBVIOUS
<1>1. req \in Requests /\ req.picks \in 1..10
  BY CouponDeskAssumption DEF Init, Request
<1>2. /\ chosen \in Seq(cands) /\ Len(chosen) = 0 /\ Len(told) = 0
      /\ selections \in Seq(Saved) /\ DOMAIN selections = {} /\ DOMAIN coupons = {}
  BY EmptyIsSeq, EmptySeq DEF Init
<1>3. faults \in 0..MaxFaults /\ MaxRequests \in Nat
  BY CouponDeskAssumption DEF Init
<1>4. CountInv
  BY <1>2, <1>3 DEF Init, CountInv
<1>5. CandInv
  BY <1>1, <1>2 DEF Init, CandInv
<1>6. SaleInv
  BY <1>2 DEF SaleInv, SaleRows
<1>. QED
  BY <1>4, <1>5, <1>6

LEMMA CountStep == SavedInv /\ CountInv /\ [Next]_vars => CountInv'
<1>. SUFFICES ASSUME SavedInv, CountInv, [Next]_vars PROVE CountInv'
  OBVIOUS
<1>0. Len(told) \in Nat /\ MaxRequests \in Nat /\ MaxFaults \in Nat
  BY SeqShape, CouponDeskAssumption DEF SavedInv
<1>1. ASSUME NEW ok, NEW shown, Respond(ok, shown), Len(told) < MaxRequests
      PROVE  phase' = "idle" /\ Len(told') <= MaxRequests
  <2>1. /\ phase' = "idle"
        /\ told' = Append(told, [ok |-> ok, coupon |-> Len(coupons'), shown |-> shown])
    BY <1>1 DEF Respond
  <2>2. Len(told') = Len(told) + 1
    BY <2>1, AppendShape DEF SavedInv
  <2>. QED
    BY <1>0, <1>1, <2>1, <2>2
<1>2. faults' \in 0..MaxFaults
  <2>1. Works \/ Fails \/ UNCHANGED faults
    BY DEF Next, Collect, Generate, StartSync, GetOdds, WriteOdd, WriteHistory, List, Predict,
           QuoteCandidate, Pick, ReadOdds, ReadTrend, InsertCoupon, InsertSelection, InsertFails,
           Finish, vars
  <2>. QED
    BY <1>0, <2>1 DEF Works, Fails, CountInv
<1>3. CASE Collect \/ UNCHANGED vars
  <2>1. UNCHANGED <<phase, told>>
    BY <1>3 DEF Collect, StartSync, GetOdds, WriteOdd, WriteHistory, collectorLeaves, deskVars, vars
  <2>. QED
    BY <1>2, <2>1 DEF CountInv
<1>4. CASE List
  <2>1. Len(told) < MaxRequests
    BY <1>4 DEF List
  <2>2. CASE phase' = "predict" /\ UNCHANGED told
    BY <1>0, <1>2, <2>1, <2>2 DEF CountInv
  <2>3. CASE Respond(FALSE, <<>>)
    BY <1>1, <1>2, <2>1, <2>3 DEF CountInv
  <2>. QED
    BY <1>4, <2>2, <2>3 DEF List
<1>5. CASE Predict \/ QuoteCandidate \/ Pick \/ ReadOdds \/ ReadTrend
  <2>1. /\ phase # "idle" /\ UNCHANGED told
        /\ phase' \in {"quote", "enrich", "trend"}
    BY <1>5 DEF Predict, QuoteCandidate, Pick, ReadOdds, ReadTrend
  <2>. QED
    BY <1>2, <2>1 DEF CountInv
<1>6. CASE InsertCoupon \/ InsertSelection \/ Finish
  <2>1. phase # "idle" /\ Len(told) < MaxRequests
    BY <1>6 DEF InsertCoupon, InsertSelection, Finish, CountInv
  <2>2. \/ phase' = "save" /\ UNCHANGED told
        \/ \E ok, shown : Respond(ok, shown)
    BY <1>6 DEF InsertCoupon, InsertSelection, InsertFails, Finish
  <2>. QED
    BY <1>0, <1>1, <1>2, <2>1, <2>2 DEF CountInv
<1>. QED
  BY <1>3, <1>4, <1>5, <1>6 DEF Next, Generate

\* Where a candidate is read again, it gets an odd that was published, or none.
LEMMA PricedByBook ==
  ASSUME FeedInv, NEW c \in Candidate
  PROVE  LET d == [c EXCEPT !.quote = OddsSummaryForMarket(book[c.match], c.market)]
         IN  d \in Candidate /\ Priced(d)
<1>. DEFINE o == OddsSummaryForMarket(book[c.match], c.market)
<1>1. c.match \in Matches /\ c = [match |-> c.match, market |-> c.market, conf |-> c.conf,
                                 quote |-> c.quote]
  BY DEF Candidate
<1>2. /\ o \in Nat
      /\ o # 0 => \E a \in Answers[c.match] : \E r \in Range(a) :
                    MapToMLKey(r.label) = c.market /\ r.odd = o
  BY <1>1, BookOdd
<1>. HIDE DEF o
<1>3. [c EXCEPT !.quote = o] \in Candidate
  BY <1>2 DEF Candidate
<1>4. /\ [c EXCEPT !.quote = o].quote = o /\ [c EXCEPT !.quote = o].match = c.match
      /\ [c EXCEPT !.quote = o].market = c.market
  BY <1>1
<1>5. Priced([c EXCEPT !.quote = o])
  BY <1>2, <1>4 DEF Priced
<1>. QED
  BY <1>3, <1>5 DEF o

LEMMA CandStep == FeedInv /\ CandInv /\ [Next]_vars => CandInv'
<1>. SUFFICES ASSUME FeedInv, CandInv, [Next]_vars PROVE CandInv'
  OBVIOUS
<1>1. CASE Collect \/ ReadOdds \/ ReadTrend \/ InsertCoupon \/ InsertSelection \/ Finish
           \/ UNCHANGED vars
  <2>1. UNCHANGED <<req, listed, todo, cands, chosen>>
    BY <1>1 DEF Collect, StartSync, GetOdds, WriteOdd, WriteHistory, collectorLeaves, deskVars,
                ReadOdds, ReadTrend, InsertCoupon, InsertSelection, Finish, vars
  <2>. QED
    BY <2>1 DEF CandInv
<1>2. CASE List
  <2>1. req' \in Requests /\ todo' = {} /\ cands' = {} /\ chosen' = <<>>
    BY <1>2 DEF List
  <2>2. req'.picks \in 1..10 /\ Len(chosen') = 0 /\ chosen' \in Seq(cands')
    BY <2>1, CouponDeskAssumption, EmptySeq DEF Request
  <2>3. listed' \subseteq Matches
    BY <1>2, ToComeShape DEF List
  <2>. QED
    BY <2>1, <2>2, <2>3 DEF CandInv
<1>3. CASE Predict
  <2>1. PICK ms \in SUBSET listed : todo' = UNION {buildCandidatePool(m) : m \in ms}
    BY <1>3 DEF Predict
  <2>2. \A c \in todo' : c \in Candidate /\ Priced(c)
    <3>. SUFFICES ASSUME NEW c \in todo' PROVE c \in Candidate /\ Priced(c)
      OBVIOUS
    <3>1. PICK m \in ms : c \in buildCandidatePool(m)
      BY <2>1
    <3>2. m \in Matches
      BY DEF CandInv
    <3>3. c \in Candidate /\ c.quote = 0
      BY <3>1, <3>2, PoolShape
    <3>. QED
      BY <3>3 DEF Priced
  <2>3. UNCHANGED <<req, listed, cands, chosen>>
    BY <1>3 DEF Predict
  <2>. QED
    BY <2>2, <2>3 DEF CandInv
<1>4. CASE QuoteCandidate
  <2>1. PICK c \in todo :
          /\ todo' = todo \ {c}
          /\ \/ cands' = cands \cup
                   {[c EXCEPT !.quote = OddsSummaryForMarket(book[c.match], c.market)]}
             \/ cands' = cands \cup {c}
    BY <1>4 DEF QuoteCandidate
  <2>2. PICK d : d \in Candidate /\ Priced(d) /\ cands' = cands \cup {d}
    <3>1. c \in Candidate /\ Priced(c)
      BY DEF CandInv
    <3>. QED
      BY <2>1, <3>1, PricedByBook
  <2>3. UNCHANGED <<req, listed, chosen>>
    BY <1>4 DEF QuoteCandidate
  <2>4. chosen \in Seq(cands')
    BY <2>2 DEF CandInv
  <2>. QED
    BY <2>1, <2>2, <2>3, <2>4 DEF CandInv
<1>5. CASE Pick
  <2>1. chosen' \in Seq(cands) /\ Len(chosen') <= req.picks
    BY <1>5 DEF Pick, Playable
  <2>2. UNCHANGED <<req, listed, todo, cands>>
    BY <1>5 DEF Pick
  <2>. QED
    BY <2>1, <2>2 DEF CandInv
<1>. QED
  BY <1>1, <1>2, <1>3, <1>4, <1>5 DEF Next, Generate

\* One more row, or another one in a place.
LEMMA AppendSale ==
  ASSUME NEW rows, SaleRows(rows), NEW e \in Saved, Priced(e)
  PROVE  SaleRows(Append(rows, e))
<1>1. rows \in Seq(Saved) /\ Append(rows, e) \in Seq(Saved) /\ IsSeq(rows)
  BY DEF SaleRows, IsSeq
<1>2. /\ DOMAIN Append(rows, e) = 1..Len(rows) + 1 /\ Len(rows) \in Nat
      /\ \A i \in 1..Len(rows) : Append(rows, e)[i] = rows[i] /\ i \in DOMAIN rows
      /\ Append(rows, e)[Len(rows) + 1] = e
  BY <1>1, AppendShape, SeqShape
<1>3. ASSUME NEW j \in 1..Len(rows) + 1 PROVE Priced(Append(rows, e)[j])
  <2>1. CASE j \in 1..Len(rows)
    BY <1>2, <2>1 DEF SaleRows
  <2>2. CASE j = Len(rows) + 1
    BY <1>2, <2>2
  <2>. QED
    BY <1>2, <2>1, <2>2
<1>. QED
  BY <1>1, <1>2, <1>3 DEF SaleRows

LEMMA ReplaceSale ==
  ASSUME NEW rows, SaleRows(rows), NEW i \in DOMAIN rows, NEW e \in Saved, Priced(e)
  PROVE  SaleRows([rows EXCEPT ![i] = e])
<1>1. rows \in Seq(Saved) /\ IsSeq(rows) /\ [rows EXCEPT ![i] = e] \in Seq(Saved)
  BY ExceptSeq DEF SaleRows, IsSeq
<1>2. /\ DOMAIN [rows EXCEPT ![i] = e] = DOMAIN rows
      /\ \A j \in DOMAIN rows : [rows EXCEPT ![i] = e][j] = IF j = i THEN e ELSE rows[j]
  BY <1>1, ExceptShape
<1>. QED
  BY <1>1, <1>2 DEF SaleRows

LEMMA SavedShape ==
  ASSUME NEW m \in Matches, NEW k \in Markets, NEW p \in 45..100, NEW q \in Nat,
         NEW t \in {"", "flat", "up", "down"}
  PROVE  [match |-> m, market |-> k, conf |-> p, quote |-> q, trend |-> t] \in Saved
BY DEF Saved

LEMMA CandidateShape ==
  ASSUME NEW c \in Candidate
  PROVE  c.match \in Matches /\ c.market \in Markets /\ c.conf \in 45..100 /\ c.quote \in Nat
BY DEF Candidate

\* A candidate's row, with its own odd or one of the book.
LEMMA RowShape ==
  ASSUME NEW c \in Candidate, NEW q \in Nat,
         q # 0 => \E a \in Answers[c.match] : \E r \in Range(a) :
                    MapToMLKey(r.label) = c.market /\ r.odd = q
  PROVE  Row(c, q, "") \in Saved /\ Priced(Row(c, q, ""))
<1>. DEFINE s == Row(c, q, "")
<1>1. s = [match |-> c.match, market |-> c.market, conf |-> c.conf, quote |-> q, trend |-> ""]
  BY DEF Row
<1>2. s \in Saved
  BY <1>1, SavedShape, CandidateShape
<1>. HIDE DEF s
<1>3. s.match = c.match /\ s.market = c.market /\ s.quote = q
  <2>. DEFINE m == c.match
              k == c.market
  <2>. HIDE DEF m, k
  <2>1. s = [match |-> m, market |-> k, conf |-> c.conf, quote |-> q, trend |-> ""]
    BY <1>1 DEF m, k
  <2>2. s.match = m /\ s.market = k /\ s.quote = q
    BY <2>1
  <2>. QED
    BY <2>2 DEF m, k
<1>4. Priced(s)
  BY <1>3 DEF Priced
<1>. QED
  BY <1>2, <1>4 DEF s

LEMMA SaleStep ==
  SavedInv /\ OddInv /\ FeedInv /\ CandInv /\ SaleInv /\ [Next]_vars => SaleInv'
<1>. SUFFICES ASSUME SavedInv, OddInv, FeedInv, CandInv, SaleInv, [Next]_vars PROVE SaleInv'
  OBVIOUS
<1>0. /\ Len(selections) \in Nat /\ DOMAIN selections = 1..Len(selections)
      /\ Len(chosen) \in Nat /\ DOMAIN chosen = 1..Len(chosen)
      /\ Len(coupons) \in Nat /\ DOMAIN coupons = 1..Len(coupons)
  BY SeqShape DEF SavedInv, OddInv
<1>1. CASE Collect \/ Predict \/ QuoteCandidate \/ Pick \/ Finish \/ UNCHANGED vars
  <2>1. UNCHANGED <<selections, coupons>>
    BY <1>1 DEF Collect, StartSync, GetOdds, WriteOdd, WriteHistory, collectorLeaves, deskVars,
                Predict, QuoteCandidate, Pick, Finish, vars
  <2>. QED
    BY <2>1 DEF SaleInv
<1>2. CASE List
  <2>1. selections' = <<>> /\ UNCHANGED coupons
    BY <1>2 DEF List
  <2>2. SaleRows(<<>>)
    BY EmptyIsSeq, EmptySeq DEF SaleRows
  <2>. QED
    BY <2>1, <2>2 DEF SaleInv
<1>3. CASE ReadOdds
  <2>. DEFINE c == chosen[Len(selections) + 1]
              best == OddsSummaryForMarket(book[c.match], c.market)
  <2>1. /\ UNCHANGED coupons /\ Len(selections) < Len(chosen)
        /\ \/ selections' = Append(selections, Row(c, Requoted(c, best), ""))
           \/ selections' = Append(selections, Row(c, c.quote, ""))
    BY <1>3 DEF ReadOdds, More
  <2>2. c \in Candidate /\ Priced(c) /\ c.quote \in Nat /\ c.match \in Matches
    <3>1. c \in cands
      <4>1. Len(selections) + 1 \in DOMAIN chosen
        <5>. DEFINE n == Len(selections)
                    l == Len(chosen)
        <5>1. n \in Nat /\ l \in Nat /\ n < l /\ DOMAIN chosen = 1..l
          BY <1>0, <2>1
        <5>. HIDE DEF n, l
        <5>2. n + 1 \in DOMAIN chosen
          BY <5>1
        <5>. QED
          BY <5>2 DEF n
      <4>2. \A i \in DOMAIN chosen : chosen[i] \in cands
        BY DEF CandInv
      <4>. QED
        BY <4>1, <4>2
    <3>. HIDE DEF c
    <3>2. c \in Candidate /\ Priced(c)
      BY <3>1 DEF CandInv
    <3>. QED
      BY <3>2, CandidateShape
  <2>3. /\ best \in Nat
        /\ best # 0 => \E a \in Answers[c.match] : \E r \in Range(a) :
                         MapToMLKey(r.label) = c.market /\ r.odd = best
    BY <2>2, BookOdd
  <2>. HIDE DEF c, best
  <2>4. PICK q : /\ q = c.quote \/ q = best
                 /\ selections' = Append(selections, Row(c, q, ""))
    BY <2>1 DEF Requoted
  <2>5. Row(c, q, "") \in Saved /\ Priced(Row(c, q, ""))
    BY <2>2, <2>3, <2>4, RowShape DEF Priced
  <2>6. SaleRows(selections')
    BY <2>4, <2>5, AppendSale DEF SaleInv
  <2>. QED
    BY <2>1, <2>6 DEF SaleInv
<1>4. CASE ReadTrend
  <2>. DEFINE n == Len(selections)
  <2>1. n \in DOMAIN selections /\ UNCHANGED coupons
    BY <1>0, <1>4 DEF ReadTrend, OddInv
  <2>2. CASE UNCHANGED selections
    BY <2>1, <2>2 DEF SaleInv
  <2>3. ASSUME NEW x \in {"flat", "up", "down"},
               selections' = [selections EXCEPT ![n].trend = x]
        PROVE  SaleInv'
    <3>. DEFINE r == selections[n]
                e == [r EXCEPT !.trend = x]
    <3>1. selections' = [selections EXCEPT ![n] = e]
      BY <2>3
    <3>2. r \in Saved /\ Priced(r)
      BY <2>1 DEF SaleInv, SaleRows
    <3>. HIDE DEF r, n
    <3>3. e \in Saved
      BY <3>2 DEF Saved
    <3>4. e.quote = r.quote /\ e.match = r.match /\ e.market = r.market
      BY <3>2 DEF Saved
    <3>5. Priced(e)
      BY <3>2, <3>4 DEF Priced
    <3>. HIDE DEF e
    <3>6. SaleRows(selections')
      BY <2>1, <3>1, <3>3, <3>5, ReplaceSale DEF SaleInv
    <3>. QED
      BY <2>1, <3>6 DEF SaleInv
  <2>4. \/ UNCHANGED selections
        \/ \E H \in Recent(selections[n].match) :
             selections' = [selections EXCEPT ![n].trend =
                              OddTrendForMarket(H, selections[n].market)]
    BY <1>4 DEF ReadTrend
  <2>. QED
    BY <2>2, <2>3, <2>4, TrendWords
<1>5. CASE InsertCoupon
  <2>1. /\ UNCHANGED selections
        /\ \/ UNCHANGED coupons
           \/ coupons' = Append(coupons, [odd |-> combined, rows |-> <<>>])
    BY <1>5 DEF InsertCoupon
  <2>2. CASE UNCHANGED coupons
    BY <2>1, <2>2 DEF SaleInv
  <2>3. CASE coupons' = Append(coupons, [odd |-> combined, rows |-> <<>>])
    <3>1. SaleRows(<<>>)
      BY EmptyIsSeq, EmptySeq DEF SaleRows
    <3>2. /\ DOMAIN coupons' = 1..Len(coupons) + 1
          /\ \A i \in 1..Len(coupons) : coupons'[i] = coupons[i]
          /\ coupons'[Len(coupons) + 1] = [odd |-> combined, rows |-> <<>>]
      BY <2>3, AppendShape DEF SavedInv
    <3>3. ASSUME NEW i \in DOMAIN coupons' PROVE SaleRows(coupons'[i].rows)
      <4>1. CASE i \in 1..Len(coupons)
        BY <1>0, <3>2, <4>1 DEF SaleInv
      <4>2. CASE i = Len(coupons) + 1
        BY <3>1, <3>2, <4>2
      <4>. QED
        BY <1>0, <3>2, <4>1, <4>2
    <3>. QED
      BY <2>1, <3>3 DEF SaleInv
  <2>. QED
    BY <2>1, <2>2, <2>3
<1>6. CASE InsertSelection
  <2>. DEFINE n == Len(coupons)
              row == selections[Len(Stored) + 1]
  <2>1. /\ UNCHANGED selections
        /\ UNCHANGED coupons \/ coupons' = [coupons EXCEPT ![n].rows = Append(@, row)]
    BY <1>6 DEF InsertSelection, InsertFails
  <2>2. CASE UNCHANGED coupons
    BY <2>1, <2>2 DEF SaleInv
  <2>3. CASE coupons' = [coupons EXCEPT ![n].rows = Append(@, row)]
    <3>0. n \in DOMAIN coupons /\ IsCoupon(coupons[n]) /\ Len(Stored) \in Nat
          /\ Len(Stored) < Len(selections) /\ SaleRows(coupons[n].rows)
      BY <1>6, SeqShape DEF InsertSelection, SavedInv, SaleInv, Stored, IsCoupon
    <3>1. row \in Saved /\ Priced(row)
      BY <1>0, <3>0 DEF SaleInv, SaleRows
    <3>. DEFINE c == coupons[n]
                rows == Append(c.rows, row)
    <3>2. SaleRows(rows)
      BY <3>0, <3>1, AppendSale
    <3>3. coupons' = [coupons EXCEPT ![n] = [c EXCEPT !.rows = rows]]
      BY <2>3
    <3>. HIDE DEF c, rows, n
    <3>4. [c EXCEPT !.rows = rows] = [odd |-> c.odd, rows |-> rows]
      BY <3>0, ExceptRows DEF IsCoupon, c
    <3>5. \A i \in DOMAIN coupons' :
            i \in DOMAIN coupons
            /\ coupons'[i] = IF i = n THEN [odd |-> c.odd, rows |-> rows] ELSE coupons[i]
      BY <3>0, <3>3, <3>4, ExceptShape DEF SavedInv
    <3>6. \A i \in DOMAIN coupons' : SaleRows(coupons'[i].rows)
      BY <3>2, <3>5 DEF SaleInv
    <3>. QED
      BY <2>1, <3>6 DEF SaleInv
  <2>. QED
    BY <2>1, <2>2, <2>3
<1>. QED
  BY <1>1, <1>2, <1>3, <1>4, <1>5, <1>6 DEF Next, Generate

\* The types hold, whatever fails and whatever the bookmakers publish: the odds and
\* the confidences of selections are what the columns hold.
THEOREM TypeCorrect == Spec => []TypeOK
<1>1. OddInv /\ FeedInv /\ CountInv /\ CandInv /\ SaleInv => TypeOK
  <2>. SUFFICES ASSUME OddInv, FeedInv, CountInv, CandInv, SaleInv PROVE TypeOK
    OBVIOUS
  <2>1. syncs \in 0..MaxSyncs /\ (\A m \in Matches : book[m] \subseteq Quote)
        /\ feed.matches \in Seq(Matches) /\ feed.rows \in Seq(Quote) /\ feed.half \in BOOLEAN
    BY DEF FeedInv
  <2>2. Len(selections) <= req.picks
    <3>1. Len(selections) \in Nat /\ Len(chosen) \in Nat /\ req.picks \in 1..10
      BY CouponDeskAssumption DEF SaleInv, SaleRows, CandInv, Request
    <3>2. Len(selections) <= Len(chosen) /\ Len(chosen) <= req.picks
      BY DEF OddInv, CandInv
    <3>. DEFINE a == Len(selections)
                b == Len(chosen)
                c == req.picks
    <3>3. a \in Nat /\ b \in Nat /\ c \in Nat /\ a <= b /\ b <= c
      BY <3>1, <3>2
    <3>. HIDE DEF a, b, c
    <3>4. a <= c
      BY <3>3
    <3>. QED
      BY <3>4 DEF a, c
  <2>. QED
    BY <2>1, <2>2 DEF TypeOK, CountInv, CandInv, SaleInv, SaleRows
<1>. QED
  BY SavedInit, SavedStep, OddInit, OddStep, FeedInit, FeedStep, DeskInit, CountStep, CandStep,
     SaleStep, <1>1, PTL DEF Spec

\* Every odd a user is shown or that is saved was published by some bookmaker for the
\* market it is saved with.
THEOREM OddsArePublished == Spec => []QuoteWasPublished
<1>1. SaleInv => QuoteWasPublished
  BY DEF SaleInv, SaleRows, QuoteWasPublished
<1>. QED
  BY SavedInit, SavedStep, OddInit, OddStep, FeedInit, FeedStep, DeskInit, CandStep, SaleStep,
     <1>1, PTL DEF Spec
=============================================================================
