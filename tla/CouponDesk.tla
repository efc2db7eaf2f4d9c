----------------------------- MODULE CouponDesk -----------------------------
(***************************************************************************)
(* Generate makes a coupon for a user in many statements: it lists the     *)
(* matches, reads the odds of every candidate, picks, reads the odds and   *)
(* their history again for every selection, and saves row by row.  The     *)
(* collector's SyncOdds writes odds in between, every statement may fail.  *)
(* Which matches are still to come, and the second a statement runs in,    *)
(* are left open.  The picking is CouponPicker's, taken by what it         *)
(* promises (Playable).                                                    *)
(***************************************************************************)
EXTENDS CouponData, Odds

CONSTANTS
  Calendar,      \* the matches in the order of their kickoffs
  Answers,       \* for each match, the answers of the API: sequences of rows
  Predictions,   \* for each match, the confidence and the probabilities of its markets
  Requests,      \* what users ask for
  HistoryLimit,  \* rows of GetMatchOddsHistory
  MaxRequests, MaxSyncs, MaxSeconds,
  MaxFaults      \* statements and calls that fail

Quote == [label : Label, maker : STRING, odd : Nat]

ASSUME CouponDeskAssumption ==
  /\ Calendar \in Seq(Matches)
  /\ \A m \in Matches : \A a \in Answers[m] : a \in Seq(Quote)
  /\ \A m \in Matches : \A score \in {Predictions[m].confidence, Predictions[m].predictions} :
       \A k \in DOMAIN score \cap Markets : score[k] \in 0..100
  /\ Requests \subseteq {r \in Request : Valid(r)}
  /\ HistoryLimit \in Nat \ {0} /\ MaxRequests \in Nat /\ MaxSyncs \in Nat /\ MaxSeconds \in Nat
  /\ MaxFaults \in Nat

VARIABLES
  book,     \* match_odds: for each match, a set of quotes
  history,  \* match_odds_history, in the order of insertion
  feed,     \* SyncOdds: matches to do, rows to write, whether the first one is in the book
  syncs,    \* runs of SyncOdds
  faults,   \* failures so far
  phase, req, listed, todo, cands, chosen, combined, selections,  \* Generate
  coupons,  \* saved_coupons with their coupon_selections
  told,     \* the answers to users
  notices   \* the notifications of type coupon

oddsVars == <<book, history, feed, syncs>>
deskVars == <<phase, req, listed, todo, cands, chosen, combined, selections>>
vars == <<oddsVars, faults, deskVars, coupons, told, notices>>

Idle == [matches |-> <<>>, rows |-> <<>>, half |-> FALSE]

Init ==
  /\ book = [m \in Matches |-> {}] /\ history = <<>> /\ feed = Idle /\ syncs = 0 /\ faults = 0
  /\ phase = "idle" /\ req \in Requests /\ listed = {} /\ todo = {} /\ cands = {}
  /\ chosen = <<>> /\ combined = <<1, 1>> /\ selections = <<>>
  /\ coupons = <<>> /\ told = <<>> /\ notices = {}

\* A failure of the database, the API or another service.
Fails == faults < MaxFaults /\ faults' = faults + 1

Works == UNCHANGED faults

-----------------------------------------------------------------------------
\* The collector.

\* Matches start in the order of the calendar: the rest is to come.
ToCome == {SubSeq(Calendar, i, Len(Calendar)) : i \in 1..Len(Calendar) + 1}

collectorLeaves == <<deskVars, coupons, told, notices>>

\* SyncOdds lists the matches to come, in the order of their kickoffs.
StartSync ==
  /\ syncs < MaxSyncs /\ feed = Idle
  /\ \E ms \in ToCome : ms # <<>> /\ feed' = [Idle EXCEPT !.matches = ms]
  /\ syncs' = syncs + 1
  /\ UNCHANGED <<book, history, faults, collectorLeaves>>

\* One call of the API for each match; an error skips the match.
GetOdds ==
  /\ feed.rows = <<>> /\ feed.matches # <<>>
  /\ \/ /\ Works
        /\ \E a \in Answers[Head(feed.matches)] :
             feed' = [feed EXCEPT !.rows = a,
                                  !.matches = IF a = <<>> THEN Tail(@) ELSE @]
     \/ Fails /\ feed' = [feed EXCEPT !.matches = Tail(@)]
  /\ UNCHANGED <<book, history, syncs, collectorLeaves>>

\* The feed without its first row, and without its first match after its last row.
NextRow ==
  [feed EXCEPT !.rows = Tail(@), !.half = FALSE,
               !.matches = IF Len(feed.rows) = 1 THEN Tail(@) ELSE @]

\* UpsertMatchOdds' first statement; if it fails, the row is skipped.
WriteOdd ==
  /\ feed.rows # <<>> /\ ~feed.half
  /\ LET m == Head(feed.matches)
         r == Head(feed.rows)
     IN  \/ /\ Works
            /\ book' = [book EXCEPT ![m] =
                          {q \in @ : q.label # r.label \/ q.maker # r.maker} \cup {r}]
            /\ feed' = [feed EXCEPT !.half = TRUE]
         \/ Fails /\ feed' = NextRow /\ UNCHANGED book
  /\ UNCHANGED <<history, syncs, collectorLeaves>>

\* Its second statement, in the same second as the last one or later.
WriteHistory ==
  /\ feed.half
  /\ LET r == Head(feed.rows)
         row(t) == [match |-> Head(feed.matches), at |-> t,
                    label |-> r.label, maker |-> r.maker, odd |-> r.odd]
     IN  \/ /\ Works
            /\ \E t \in {u \in 1..MaxSeconds : \A i \in DOMAIN history : history[i].at <= u} :
                 history' = Append(history, row(t))
         \/ Fails /\ UNCHANGED history
  /\ feed' = NextRow
  /\ UNCHANGED <<book, syncs, collectorLeaves>>

-----------------------------------------------------------------------------
\* Generate.

\* GetMatchOddsHistory: some of the last rows of the match, when there are more.
Recent(m) ==
  LET mine == {i \in DOMAIN history : history[i].match = m}
      n == IF Cardinality(mine) < HistoryLimit THEN Cardinality(mine) ELSE HistoryLimit
  IN  {{history[i] : i \in I} :
         I \in {J \in kSubset(n, mine) :
                  \A i \in J, j \in mine \ J : history[i].at >= history[j].at}}

\* mergeMarketScores: the greater of the two scores of a market.
mergeMarketScores(p) ==
  [k \in (DOMAIN p.confidence \cup DOMAIN p.predictions) \cap Markets |->
     Max({p.confidence[j] : j \in DOMAIN p.confidence \cap {k}}
         \cup {p.predictions[j] : j \in DOMAIN p.predictions \cap {k}})]

\* A variant that takes every market with a score.
buildCandidatePool_Unlikely(m) ==
  LET score == mergeMarketScores(Predictions[m])
  IN  {[match |-> m, market |-> k, conf |-> score[k], quote |-> 0] : k \in DOMAIN score}

\* The markets of a match worth a candidate.
buildCandidatePool(m) ==
  LET score == mergeMarketScores(Predictions[m])
  IN  {[match |-> m, market |-> k, conf |-> score[k], quote |-> 0] :
         k \in {j \in DOMAIN score : score[j] >= 45}}

\* The request ends: what the user is shown, and whether it went well.
Respond(ok, shown) ==
  /\ phase' = "idle"
  /\ told' = Append(told, [ok |-> ok, coupon |-> Len(coupons'), shown |-> shown])

\* A valid request; the list of the matches to come may fail.
List ==
  /\ phase = "idle" /\ Len(told) < MaxRequests
  /\ req' \in Requests
  /\ cands' = {} /\ todo' = {} /\ chosen' = <<>> /\ selections' = <<>> /\ combined' = <<1, 1>>
  /\ \/ /\ Works
        /\ listed' \in {Range(ms) : ms \in ToCome} /\ phase' = "predict"
        /\ UNCHANGED <<coupons, told>>
     \/ Fails /\ listed' = {} /\ UNCHANGED coupons /\ Respond(FALSE, <<>>)
  /\ UNCHANGED <<oddsVars, notices>>

\* GetOrCreatePrediction for all at once; where it fails the match is left out.
Predict ==
  /\ phase = "predict"
  /\ \E ms \in SUBSET listed :
       /\ IF ms = listed THEN Works ELSE Fails
       /\ todo' = UNION {buildCandidatePool(m) : m \in ms}
  /\ phase' = "quote"
  /\ UNCHANGED <<oddsVars, req, listed, cands, chosen, combined, selections, coupons, told, notices>>

\* GetMatchOdds, once more for every candidate, in the order of a Go map; without
\* an answer the candidate has no odd.
QuoteCandidate ==
  /\ phase = "quote"
  /\ \E c \in todo :
       /\ todo' = todo \ {c}
       /\ \/ /\ Works
             /\ cands' = cands \cup
                  {[c EXCEPT !.quote = OddsSummaryForMarket(book[c.match], c.market)]}
          \/ Fails /\ cands' = cands \cup {c}
  /\ UNCHANGED <<oddsVars, phase, req, listed, chosen, combined, selections, coupons, told, notices>>

\* pickForOddsTarget, and the combined odd of its answer.
Pick ==
  /\ phase = "quote" /\ todo = {}
  /\ \E s \in SeqOf(cands, Cardinality(Matches)) :
       /\ Playable(s, cands, req)
       /\ chosen' = s
       /\ combined' = combinedOddProduct(s)
  /\ phase' = "enrich"
  /\ UNCHANGED <<oddsVars, faults, req, listed, todo, cands, selections, coupons, told, notices>>

\* A variant that takes the newer odd in any case.
Requoted_Always(c, best) == best

\* A selection keeps the odd it was picked with; only one without takes the best
\* odd there is by now.
Requoted(c, best) == IF Quoted(c) THEN c.quote ELSE best

\* The next selection's row.
Row(c, quote, trend) ==
  [match |-> c.match, market |-> c.market, conf |-> c.conf,
   quote |-> quote, trend |-> trend]

More == Len(selections) < Len(chosen)

\* GetMatchOdds again; without an answer the selection stays as it was picked.
ReadOdds ==
  /\ phase = "enrich" /\ More
  /\ LET c == chosen[Len(selections) + 1]
         best == OddsSummaryForMarket(book[c.match], c.market)
     IN  \/ /\ Works
            /\ selections' = Append(selections, Row(c, Requoted(c, best), ""))
            /\ phase' = "trend"
         \/ /\ Fails
            /\ selections' = Append(selections, Row(c, c.quote, ""))
            /\ phase' = "enrich"
  /\ UNCHANGED <<oddsVars, req, listed, todo, cands, chosen, combined,
                 coupons, told, notices>>

\* GetMatchOddsHistory, and the trend; without an answer there is none.
ReadTrend ==
  /\ phase = "trend"
  /\ LET n == Len(selections)
         c == selections[n]
     IN  \/ /\ Works
            /\ \E H \in Recent(c.match) :
                 selections' = [selections EXCEPT ![n].trend = OddTrendForMarket(H, c.market)]
         \/ Fails /\ UNCHANGED selections
  /\ phase' = "enrich"
  /\ UNCHANGED <<oddsVars, req, listed, todo, cands, chosen, combined,
                 coupons, told, notices>>

\* SaveCoupon's first statement.
InsertCoupon ==
  /\ phase = "enrich" /\ ~More
  /\ \/ /\ Works
        /\ coupons' = Append(coupons, [odd |-> combined, rows |-> <<>>])
        /\ phase' = "save"
        /\ UNCHANGED told
     \/ Fails /\ UNCHANGED coupons /\ Respond(FALSE, <<>>)
  /\ UNCHANGED <<oddsVars, req, listed, todo, cands, chosen, combined, selections, notices>>

Stored == coupons[Len(coupons)].rows

\* A variant that goes on after an error.
InsertFails_Ignored ==
  /\ Fails /\ UNCHANGED coupons
  /\ Respond(TRUE, selections)

\* An error ends the request; nothing is taken back.
InsertFails == Fails /\ UNCHANGED coupons /\ Respond(FALSE, <<>>)

\* Its other statements, one for each selection.
InsertSelection ==
  /\ phase = "save" /\ Len(Stored) < Len(selections)
  /\ \/ /\ Works
        /\ coupons' = [coupons EXCEPT ![Len(coupons)].rows =
                         Append(@, selections[Len(Stored) + 1])]
        /\ UNCHANGED <<phase, told>>
     \/ InsertFails
  /\ UNCHANGED <<oddsVars, req, listed, todo, cands, chosen, combined, selections, notices>>

\* The notification, whose error is dropped, and the answer.
Finish ==
  /\ phase = "save" /\ Len(Stored) = Len(selections)
  /\ \/ Works /\ notices' = notices \cup {[coupon |-> Len(coupons), count |-> Len(selections)]}
     \/ Fails /\ UNCHANGED notices
  /\ UNCHANGED coupons
  /\ Respond(TRUE, selections)
  /\ UNCHANGED <<oddsVars, req, listed, todo, cands, chosen, combined, selections>>

-----------------------------------------------------------------------------
Collect == StartSync \/ GetOdds \/ WriteOdd \/ WriteHistory

Generate ==
  \/ List \/ Predict \/ QuoteCandidate \/ Pick \/ ReadOdds \/ ReadTrend
  \/ InsertCoupon \/ InsertSelection \/ Finish

Next == Collect \/ Generate

Spec == Init /\ [][Next]_vars

-----------------------------------------------------------------------------
Saved == [match : Matches, market : Markets, conf : 45..100, quote : Nat,
          trend : {"", "flat", "up", "down"}]

TypeOK ==
  /\ syncs \in 0..MaxSyncs
  /\ faults \in 0..MaxFaults
  /\ \A m \in Matches : book[m] \subseteq Quote
  /\ feed.matches \in Seq(Matches) /\ feed.rows \in Seq(Quote) /\ feed.half \in BOOLEAN
  /\ phase \in {"idle", "predict", "quote", "enrich", "trend", "save"} /\ req \in Requests
  /\ todo \subseteq Candidate /\ cands \subseteq Candidate /\ chosen \in Seq(cands)
  /\ selections \in Seq(Saved) /\ Len(selections) <= req.picks /\ Len(told) <= MaxRequests
  /\ \A i \in DOMAIN coupons : coupons[i].rows \in Seq(Saved)

\* What a user is shown as saved is what the coupon holds, whatever statements of
\* this or other requests failed; a notification counts no more than is stored.
ToldIsStored ==
  /\ \A i \in DOMAIN told :
       told[i].ok => coupons[told[i].coupon].rows = told[i].shown
  /\ \A n \in notices : Len(coupons[n.coupon].rows) = n.count

\* A candidate as it was saved.
AsSaved(r) == [match |-> r.match, market |-> r.market, conf |-> r.conf, quote |-> r.quote]

\* The combined odd of a coupon is the product of the odds stored with it, unless a
\* selection was picked without an odd and has one by now.
CombinedOddIsStored ==
  \A i \in DOMAIN told :
    LET c == coupons[told[i].coupon]
        stored == [j \in DOMAIN c.rows |-> AsSaved(c.rows[j])]
    IN  i = Len(told) /\ phase = "idle" /\ told[i].ok
       /\ (\A j \in DOMAIN chosen : Quoted(chosen[j]) \/ c.rows[j].quote = chosen[j].quote)
          => combinedOddProduct(stored) = c.odd

\* The bookmakers published the odd of s for its market, if it has one.
Priced(s) ==
  s.quote # 0 =>
    \E a \in Answers[s.match] : \E r \in Range(a) :
      MapToMLKey(r.label) = s.market /\ r.odd = s.quote

\* The odd of a selection was published for its market by some bookmaker, in the
\* request and in the coupons saved.
QuoteWasPublished ==
  /\ \A i \in DOMAIN selections : Priced(selections[i])
  /\ \A i \in DOMAIN coupons : \A j \in DOMAIN coupons[i].rows : Priced(coupons[i].rows[j])
=============================================================================
