-------------------------------- MODULE Odds --------------------------------
(***************************************************************************)
(* What the backend makes of the bookmakers' odds: the ML market a label   *)
(* of theirs stands for, the best odd of a market, its trend.  An ML       *)
(* market is the tuple of the parts of its key, <<"over", "1_5">> for      *)
(* over_1_5; the empty one is none.  Odds are in tenths.                   *)
(***************************************************************************)
EXTENDS Integers, Sequences, FiniteSetsExt

\* A label as a bookmaker writes it: the kind of bet, the part of the match it is
\* about, for goals the side, and what is bet on.
Label == [
  bet  : {"winner", "double_chance", "both_teams", "draw_no_bet", "goals", "corners",
          "most_corners", "other"},
  part : {"match", "half"},
  side : {"both", "home", "away"},
  pick : {"home", "draw", "away", "1x", "x2", "12", "yes", "no", "over", "under"},
  line : {"none", "0_5", "1_5", "2_5", "3_5", "9_5"}]

\* mapTotalLine and mapTeamTotal.
TotalKey(l) ==
  CASE l.bet = "corners" -> IF l.pick = "over" THEN <<"over_corners", l.line>> ELSE <<>>
    [] l.side # "both" -> IF l.pick = "over" THEN <<"team_over", l.line, l.side>> ELSE <<>>
    [] l.part = "half" /\ l.pick = "over" /\ l.line = "0_5" -> <<"over_0_5_ht">>
    [] OTHER -> <<l.pick, l.line>>

Sided(name, l) == IF l.pick \in {"home", "away"} THEN <<name, l.pick>> ELSE <<>>

\* "Match Winner" names the part; the other kinds of bet are recognised whatever
\* part of the match the label goes on to name.
MapToMLKey(l) ==
  CASE l.bet = "winner" ->
         IF l.part # "match" THEN <<>>
         ELSE <<CASE l.pick = "home" -> "home_win" [] l.pick = "draw" -> "draw" [] OTHER -> "away_win">>
    [] l.bet = "double_chance" -> <<"double_chance", l.pick>>
    [] l.bet = "both_teams" -> <<IF l.pick = "yes" THEN "btts" ELSE "btts_no">>
    [] l.bet = "draw_no_bet" -> Sided("draw_no_bet", l)
    [] l.bet \in {"goals", "corners"} -> TotalKey(l)
    [] l.bet = "most_corners" -> Sided("corner_winner", l)
    [] l.bet = "other" -> <<>>

\* The odds in some rows for a market; an odd of 1 is none.
OddsFor(rows, k) == {r \in rows : MapToMLKey(r.label) = k /\ r.odd > 10}

\* A variant that takes the odds of all markets.
OddsSummaryForMarket_AnyMarket(rows, k) == Max({0} \cup {r.odd : r \in rows})

\* The best odd of a market, 0 when there is none.
OddsSummaryForMarket(rows, k) == Max({0} \cup {r.odd : r \in OddsFor(rows, k)})

\* The best odd of the last second the market has rows of, against that of the
\* second before.
OddTrendForMarket(rows, k) ==
  LET mine == OddsFor(rows, k)
      seconds == {r.at : r \in mine}
      best(t) == Max({r.odd : r \in {r \in mine : r.at = t}})
      last == Max(seconds)
      prev == Max(seconds \ {last})
  IN  CASE Cardinality(seconds) < 2 -> "flat"
        [] Cardinality(seconds) >= 2 /\ best(last) > best(prev) -> "up"
        [] Cardinality(seconds) >= 2 /\ best(last) < best(prev) -> "down"
        [] OTHER -> "flat"
=============================================================================
