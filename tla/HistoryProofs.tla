---------------------------- MODULE HistoryProofs ----------------------------
(***************************************************************************)
(* Proofs about History: what comes from the store is of before the match  *)
(* and final, whatever the API answers and whenever the collector imports. *)
(***************************************************************************)
EXTENDS History, FiniteSetTheorems, TLAPS

Final(f) == api[f] \in {"FT", "AWD"}

\* A row is finished only when the API has said so for good.
RowsAreFinal == \A f \in Calendar : rows[f] = "finished" => api[f] = "FT"

\* What was read in the store.
FromPast(e) == e.from = "store" /\ e.match.kickoff < match.kickoff /\ Final(e.match)

ListsArePast ==
  /\ \A l \in Lists : \A e \in lists[l].entries : e.from = "store" => FromPast(e)
  /\ \A l \in Lists : lists[l].source \in {"none", "database"}
                        => \A e \in lists[l].entries : e.from = "store"
  /\ \A s \in Sides : \A e \in lists[s].entries : Final(e.match)

AveragesArePast == \A s \in Sides : \A e \in averages[s] : FromPast(e)

\* What the features are made of.
Features ==
  [done : BOOLEAN, averages : [Sides -> SUBSET Entries], venue : [Sides -> SUBSET Calendar],
   league : SUBSET Calendar, quality : Quality]

\* No form has been read yet.
Empty == ~features.done /\ \A s \in Sides : features.venue[s] = {}

\* The features are taken over what is still in hand, the forms after the lists are
\* complete.
FeaturesAreTheLists ==
  /\ at.op \notin {"idle", "league", "venue", "players"} => Empty
  /\ \A s \in Sides : \A f \in features.venue[s] :
       \/ f \in Calendar /\ Final(f) /\ f.kickoff < match.kickoff
       \/ f \in Of(lists[s].entries)
  /\ features.done =>
       /\ at.op = "idle"
       /\ \A s \in Sides : features.averages[s] \subseteq averages[s] \cup lists[s].entries

Types ==
  /\ api \in [Calendar -> ApiStatus]
  /\ rows \in [Calendar -> RowStatus]
  /\ at \in [op : Ops, side : Sides]
  /\ match \in Calendar
  /\ averages \in [Sides -> SUBSET Entries]
  /\ lists \in [Lists -> List]
  /\ features \in Features

IInv ==
  /\ Types
  /\ RowsAreFinal
  /\ ListsArePast
  /\ AveragesArePast
  /\ FeaturesAreTheLists

LEMMA RecentIsSubset ==
  ASSUME NEW S, NEW n PROVE Recent(S, n) \subseteq S
BY DEF Recent

LEMMA MergeIsUnion ==
  ASSUME NEW a, NEW b PROVE mergeTeamHistory(a, b) \subseteq a \cup b
BY DEF mergeTeamHistory, Merge, Unseen

LEMMA MergeH2HIsUnion ==
  ASSUME NEW a, NEW b PROVE mergeH2H(a, b) \subseteq a \cup b
BY DEF mergeH2H, Merge, Unseen

\* What a query returns is stored, of before the match and final.
LEMMA StoredIsPast ==
  ASSUME RowsAreFinal, NEW f \in Stored
  PROVE  f \in Calendar /\ Final(f) /\ f.kickoff < match.kickoff
BY DEF RowsAreFinal, Stored, Final

\* The entries made of them.
LEMMA HistoryIsPast ==
  ASSUME Types, RowsAreFinal, NEW t \in Teams, NEW e \in GetTeamRecentMatchHistory(t)
  PROVE  e \in Entries /\ FromPast(e)
<1>1. PICK f \in Recent(StoredOf(t), HistoryLimit) :
        e = [match |-> f, other |-> t, from |-> "store"]
  BY DEF GetTeamRecentMatchHistory
<1>2. f \in Stored
  BY RecentIsSubset DEF StoredOf
<1> QED BY <1>1, <1>2, StoredIsPast DEF Entries, FromPast

LEMMA AverageIsPast ==
  ASSUME Types, RowsAreFinal, NEW t \in Teams, NEW f \in Recent(StoredOf(t), StatsLimit),
         NEW e, e = [match |-> f, other |-> t, from |-> "store"]
  PROVE  e \in Entries /\ FromPast(e)
<1>1. f \in Stored
  BY RecentIsSubset DEF StoredOf
<1> QED BY <1>1, StoredIsPast DEF Entries, FromPast

LEMMA MeetingsArePast ==
  ASSUME Types, RowsAreFinal, NEW e \in GetHeadToHeadHistory
  PROVE  e \in Entries /\ FromPast(e)
<1> DEFINE M == {f \in StoredOf(match.home) : Plays(match.away, f)}
<1>1. PICK f \in Recent(M, MeetingsLimit) :
        e = [match |-> f, other |-> f.away, from |-> "store"]
  BY DEF GetHeadToHeadHistory
<1>2. f \in Stored
  BY RecentIsSubset DEF StoredOf
<1>3. f \in Calendar /\ f.away \in Teams
  BY <1>2, StoredIsPast DEF Teams
<1> QED BY <1>1, <1>2, <1>3, StoredIsPast DEF Entries, FromPast

\* What the API's answers become.
LEMMA LastFixturesAreFinal ==
  ASSUME NEW t \in Teams, NEW S \in {GetLastFixturesByTeam(t), {}},
         NEW e \in fixturesToTeamHistory(t, S)
  PROVE  e \in Entries /\ e.from = "api" /\ Final(e.match)
<1>1. PICK f \in S :
        api[f] \in WithGoals /\ e = [match |-> f, other |-> Opponent(t, f), from |-> "api"]
  BY DEF fixturesToTeamHistory
<1>2. f \in Started /\ api[f] \in Over
  BY <1>1, RecentIsSubset DEF GetLastFixturesByTeam
<1>3. f \in Calendar
  BY <1>2 DEF Started
<1>4. Opponent(t, f) \in Teams
  BY <1>3 DEF Opponent, Teams
<1> QED BY <1>1, <1>2, <1>3, <1>4 DEF Entries, Final, WithGoals, Over

LEMMA MeetingsAreFixtures ==
  ASSUME NEW S, S \subseteq Calendar, NEW e \in fixturesToH2H(S)
  PROVE  e \in Entries /\ e.from = "api"
<1>1. PICK f \in S : e = [match |-> f, other |-> f.away, from |-> "api"]
  BY DEF fixturesToH2H
<1> QED BY <1>1 DEF Entries, Teams

LEMMA GetHeadToHeadType == GetHeadToHead \subseteq Calendar
BY RecentIsSubset DEF GetHeadToHead, Started

LEMMA TeamOfType == ASSUME NEW f \in Calendar, NEW s \in Sides PROVE TeamOf(f, s) \in Teams
BY DEF TeamOf, Teams

-----------------------------------------------------------------------------
LEMMA InitIInv == Init => IInv
BY DEF Init, IInv, Types, RowsAreFinal, ListsArePast, AveragesArePast, FeaturesAreTheLists,
       NoFeatures, NoList, List, Lists, Sides, Ops, ApiStatus, RowStatus, Entries, Over,
       Features, Quality, Empty

\* The world moves and the request does not: final results stay final.
LEMMA WorldStep ==
  ASSUME IInv, UNCHANGED request,
         api' \in [Calendar -> ApiStatus], rows' \in [Calendar -> RowStatus],
         \A f \in Calendar : Final(f) => Final(f)', RowsAreFinal'
  PROVE  IInv'
<1> USE DEF request
<1>1. Types'
  BY DEF IInv, Types
<1>2. \A e \in Entries : FromPast(e) => FromPast(e)'
  BY DEF FromPast, Entries
<1>3. \A l \in Lists : lists[l].entries \subseteq Entries
  BY DEF IInv, Types, List
<1>4. \A s \in Sides : averages[s] \subseteq Entries
  BY DEF IInv, Types
<1>5. ListsArePast'
  <2>1. \A l \in Lists : \A e \in lists[l].entries : e.from = "store" => FromPast(e)'
    BY <1>2, <1>3 DEF IInv, ListsArePast
  <2>2. \A s \in Sides : \A e \in lists[s].entries : Final(e.match)'
    <3>1. \A s \in Sides : \A e \in lists[s].entries : e.match \in Calendar
      BY <1>3 DEF Lists, Entries
    <3> QED BY <3>1 DEF IInv, ListsArePast
  <2> QED BY <2>1, <2>2 DEF IInv, ListsArePast
<1>6. AveragesArePast'
  BY <1>2, <1>4 DEF IInv, AveragesArePast
<1>7. FeaturesAreTheLists'
  <2>1. \A s \in Sides : \A f \in features.venue[s] :
          \/ f \in Calendar /\ Final(f)' /\ f.kickoff < match.kickoff
          \/ f \in Of(lists[s].entries)
    BY DEF IInv, FeaturesAreTheLists
  <2> QED BY <2>1 DEF IInv, FeaturesAreTheLists, Empty, Of, Sides
<1> QED BY <1>1, <1>5, <1>6, <1>7 DEF IInv

LEMMA FixturesStep ==
  ASSUME IInv, NEW f \in Calendar, KickOff(f) \/ End(f) \/ \E x \in {"AWD", "WO"} : Award(f, x)
  PROVE  IInv'
<1>1. api \in [Calendar -> ApiStatus] /\ rows \in [Calendar -> RowStatus] /\ RowsAreFinal
  BY DEF IInv, Types
<1>2. CASE KickOff(f)
  BY <1>1, <1>2, WorldStep DEF KickOff, ApiStatus, Over, Final, RowsAreFinal
<1>3. CASE End(f)
  BY <1>1, <1>3, WorldStep DEF End, ApiStatus, Over, Final, RowsAreFinal
<1>4. ASSUME NEW x \in {"AWD", "WO"}, Award(f, x) PROVE IInv'
  BY <1>1, <1>4, WorldStep DEF Award, ApiStatus, Over, Final, RowsAreFinal
<1> QED BY <1>2, <1>3, <1>4

LEMMA ImportStep == ASSUME IInv, NEW f \in Calendar, Import(f) PROVE IInv'
<1>1. api \in [Calendar -> ApiStatus] /\ rows \in [Calendar -> RowStatus] /\ RowsAreFinal
  BY DEF IInv, Types
<1>2. rows' \in [Calendar -> RowStatus] /\ RowsAreFinal'
  BY <1>1 DEF Import, mapStatus, RowStatus, RowsAreFinal
<1> QED BY <1>1, <1>2, WorldStep DEF Import, Final

\* The start of a request and an error forget what was in hand.
LEMMA ForgetStep ==
  ASSUME IInv, Forget, UNCHANGED world, at' \in [op : Ops, side : Sides], match' \in Calendar
  PROVE  IInv'
BY DEF IInv, Types, RowsAreFinal, ListsArePast, AveragesArePast, FeaturesAreTheLists, Forget,
       NoFeatures, NoList, List, Lists, world, Features, Quality, Empty

LEMMA ReadAveragesStep == ASSUME IInv, ReadAverages PROVE IInv'
<1> DEFINE t == TeamOf(match, at.side)
           avg == {[match |-> f, other |-> t, from |-> "store"] :
                     f \in Recent(StoredOf(t), StatsLimit)}
<1>1. Types /\ RowsAreFinal /\ at.side \in Sides /\ t \in Teams /\ Empty
  BY TeamOfType DEF IInv, Types, ReadAverages, FeaturesAreTheLists
<1>2. \A e \in avg : e \in Entries /\ FromPast(e)
  BY <1>1, AverageIsPast
<1>3. averages' = [averages EXCEPT ![at.side] = avg] /\ UNCHANGED <<world, match, lists, features>>
  BY DEF ReadAverages
<1> HIDE DEF t, avg
<1>4. averages' \in [Sides -> SUBSET Entries]
  BY <1>1, <1>2, <1>3 DEF Types
<1>5. at' \in [op : Ops, side : Sides]
  BY <1>1 DEF ReadAverages, AfterHome, GoTo, Ops, Sides
<1>6. AveragesArePast'
  BY <1>1, <1>2, <1>3 DEF IInv, Types, AveragesArePast, FromPast, Final, world
<1> QED BY <1>1, <1>3, <1>4, <1>5, <1>6
        DEF IInv, Types, RowsAreFinal, ListsArePast, FeaturesAreTheLists, FromPast, Final, world,
            Empty

\* A step that replaces one list by a good one.
LEMMA ListStep ==
  ASSUME IInv, Empty, UNCHANGED <<world, match, averages, features>>,
         at' \in [op : Ops, side : Sides], NEW l \in Lists, NEW new \in List,
         lists' = [lists EXCEPT ![l] = new],
         \A e \in new.entries : e.from = "store" => FromPast(e),
         new.source \in {"none", "database"} => \A e \in new.entries : e.from = "store",
         l \in Sides => \A e \in new.entries : Final(e.match)
  PROVE  IInv'
<1>1. lists' \in [Lists -> List]
  BY DEF IInv, Types
<1>2. Types'
  BY <1>1 DEF IInv, Types, world
<1>3. \A k \in Lists : lists'[k] = IF k = l THEN new ELSE lists[k]
  BY DEF IInv, Types
<1>4. ListsArePast'
  BY <1>3 DEF IInv, ListsArePast, FromPast, Final, world, Lists
<1> QED BY <1>2, <1>4
        DEF IInv, RowsAreFinal, AveragesArePast, FeaturesAreTheLists, FromPast, Final, world,
            Empty

LEMMA FromStoreIsGood ==
  ASSUME NEW S \in SUBSET Entries, \A e \in S : FromPast(e)
  PROVE  FromStore(S) \in List /\ \A e \in FromStore(S).entries : FromPast(e)
BY DEF FromStore, List

LEMMA ReadHistoryStep == ASSUME IInv, ReadHistory PROVE IInv'
<1> DEFINE stored == GetTeamRecentMatchHistory(TeamOf(match, at.side))
<1>1. Types /\ RowsAreFinal /\ at.side \in Sides /\ Empty
  BY DEF IInv, Types, ReadHistory, FeaturesAreTheLists
<1>2. \A e \in stored : e \in Entries /\ FromPast(e)
  BY <1>1, HistoryIsPast, TeamOfType DEF Types
<1> HIDE DEF stored
<1>3. PICK entries \in {stored, {}} :
        /\ lists' = [lists EXCEPT ![at.side] = FromStore(entries)]
        /\ IF Few(entries) /\ keyed THEN GoTo("ask", at.side) ELSE AfterHistory(at.side)
  BY DEF ReadHistory, stored
<1>4. /\ FromStore(entries) \in List
      /\ \A e \in FromStore(entries).entries : FromPast(e)
  BY <1>2, <1>3, FromStoreIsGood
<1>5. at' \in [op : Ops, side : Sides]
  BY <1>1, <1>3 DEF AfterHistory, AfterHome, GoTo, Ops, Sides
<1>6. UNCHANGED <<world, match, averages, features>>
  BY DEF ReadHistory
<1> QED BY <1>1, <1>3, <1>4, <1>5, <1>6, ListStep DEF FromPast, Lists

LEMMA AskHistoryStep == ASSUME IInv, AskHistory PROVE IInv'
<1> DEFINE t == TeamOf(match, at.side)
           last == GetLastFixturesByTeam(t)
           old == lists[at.side]
<1>1. Types /\ at.side \in Sides /\ t \in Teams /\ Empty
  BY TeamOfType DEF IInv, Types, AskHistory, FeaturesAreTheLists
<1>2. PICK fixtures \in {last, {}} :
        lists' = [lists EXCEPT ![at.side] =
          IF fixtures = {} THEN old
          ELSE [source |-> "mixed",
                entries |-> mergeTeamHistory(old.entries, fixturesToTeamHistory(t, fixtures))]]
  BY DEF AskHistory
<1>3. \A e \in fixturesToTeamHistory(t, fixtures) : e \in Entries /\ e.from = "api" /\ Final(e.match)
  BY <1>1, <1>2, LastFixturesAreFinal
<1>4. UNCHANGED <<world, match, averages, features>> /\ at' \in [op : Ops, side : Sides]
  BY <1>1 DEF AskHistory, AfterHistory, AfterHome, GoTo, Ops, Sides
<1>5. /\ old \in List
      /\ \A e \in old.entries : Final(e.match) /\ (e.from = "store" => FromPast(e))
      /\ old.source \in {"none", "database"} => \A e \in old.entries : e.from = "store"
  BY <1>1 DEF IInv, Types, ListsArePast, Lists
<1> DEFINE both == mergeTeamHistory(old.entries, fixturesToTeamHistory(t, fixtures))
           new == IF fixtures = {} THEN old ELSE [source |-> "mixed", entries |-> both]
<1>6. \A e \in both : e \in Entries /\ Final(e.match) /\ (e.from = "store" => FromPast(e))
  BY <1>3, <1>5, MergeIsUnion DEF List
<1> HIDE DEF old, both, t, last
<1>7. /\ new \in List
      /\ \A e \in new.entries : Final(e.match) /\ (e.from = "store" => FromPast(e))
      /\ new.source \in {"none", "database"} => \A e \in new.entries : e.from = "store"
  BY <1>5, <1>6 DEF List
<1>8. lists' = [lists EXCEPT ![at.side] = new]
  BY <1>2 DEF both
<1> QED BY <1>1, <1>4, <1>7, <1>8, ListStep DEF Lists

LEMMA ReadMeetingsStep == ASSUME IInv, ReadMeetings PROVE IInv'
<1>1. Types /\ RowsAreFinal /\ Empty
  BY DEF IInv, ReadMeetings, FeaturesAreTheLists
<1>2. PICK entries \in {GetHeadToHeadHistory, {}} :
        lists' = [lists EXCEPT !["both"] = FromStore(entries)]
  BY DEF ReadMeetings
<1>3. /\ FromStore(entries) \in List
      /\ \A e \in FromStore(entries).entries : FromPast(e)
  BY <1>1, <1>2, MeetingsArePast, FromStoreIsGood
<1>4. UNCHANGED <<world, match, averages, features>> /\ at' \in [op : Ops, side : Sides]
  BY DEF ReadMeetings, GoTo, Ops, Sides
<1> QED BY <1>1, <1>2, <1>3, <1>4, ListStep DEF FromPast, Lists, Sides

LEMMA AskMeetingsStep == ASSUME IInv, AskMeetings PROVE IInv'
<1> DEFINE last == IF keyed THEN GetHeadToHead ELSE {}
           old == lists["both"]
<1>1. Types /\ Empty
  BY DEF IInv, AskMeetings, FeaturesAreTheLists
<1>2. PICK fixtures \in {last, {}} :
        lists' = [lists EXCEPT !["both"] =
          IF fixtures = {} THEN old
          ELSE [source |-> IF old.entries = {} THEN "api" ELSE "mixed",
                entries |-> IF old.entries = {} THEN fixturesToH2H(fixtures)
                            ELSE mergeH2H(old.entries, fixturesToH2H(fixtures))]]
  BY DEF AskMeetings
<1>3. \A e \in fixturesToH2H(fixtures) : e \in Entries /\ e.from = "api"
  BY <1>2, GetHeadToHeadType, MeetingsAreFixtures
<1>4. UNCHANGED <<world, match, averages, features>> /\ at' \in [op : Ops, side : Sides]
  BY DEF AskMeetings, GoTo, Ops, Sides
<1>5. /\ old \in List
      /\ \A e \in old.entries : e.from = "store" => FromPast(e)
      /\ old.source \in {"none", "database"} => \A e \in old.entries : e.from = "store"
  BY <1>1 DEF IInv, Types, ListsArePast, Lists
<1> DEFINE api2 == fixturesToH2H(fixtures)
           both == IF old.entries = {} THEN api2 ELSE mergeH2H(old.entries, api2)
           new == IF fixtures = {} THEN old
                  ELSE [source |-> IF old.entries = {} THEN "api" ELSE "mixed", entries |-> both]
<1>6. \A e \in both : e \in Entries /\ (e.from = "store" => FromPast(e))
  BY <1>3, <1>5, MergeH2HIsUnion DEF List
<1>7. lists' = [lists EXCEPT !["both"] = new]
  BY <1>2
<1> HIDE DEF old, both, last
<1>8. /\ new \in List
      /\ \A e \in new.entries : e.from = "store" => FromPast(e)
      /\ new.source \in {"none", "database"} => \A e \in new.entries : e.from = "store"
  BY <1>5, <1>6 DEF List
<1> HIDE DEF new
<1> QED BY <1>1, <1>4, <1>7, <1>8, ListStep DEF Lists, Sides

\* A step of the request that changes no list: what the forms and the averages are
\* taken over is in hand.
LEMMA FeaturesStep ==
  ASSUME IInv, UNCHANGED <<world, match, averages, lists>>, features' \in Features,
         at' \in [op : {"idle", "league", "venue", "players"}, side : Sides],
         \A s \in Sides : \A f \in features'.venue[s] :
           \/ f \in Calendar /\ Final(f) /\ f.kickoff < match.kickoff
           \/ f \in Of(lists[s].entries),
         features'.done =>
           /\ at'.op = "idle"
           /\ \A s \in Sides : features'.averages[s] \subseteq averages[s] \cup lists[s].entries
  PROVE  IInv'
<1>1. FeaturesAreTheLists'
  BY DEF FeaturesAreTheLists, Final, Of, world
<1> QED BY <1>1
        DEF IInv, Types, RowsAreFinal, ListsArePast, AveragesArePast, FromPast, Final, world, Ops

LEMMA ReadLeagueStep == ASSUME IInv, ReadLeague PROVE IInv'
<1>1. /\ UNCHANGED <<world, match, averages, lists>>
      /\ features' = [features EXCEPT !.league = Stored]
      /\ at' = [op |-> "venue", side |-> "home"] /\ at.op = "league"
  BY DEF ReadLeague, GoTo
<1>2. features \in Features /\ Stored \subseteq Calendar /\ ~features.done
  BY <1>1 DEF IInv, Types, Stored, FeaturesAreTheLists
<1>3. features' \in Features /\ features'.venue = features.venue /\ ~features'.done
  BY <1>1, <1>2 DEF Features
<1> QED BY <1>1, <1>3, FeaturesStep DEF IInv, FeaturesAreTheLists, Sides

\* A form is taken over what the statement returned or over the history.
LEMMA VenueFormIsInHand ==
  ASSUME IInv, NEW s \in Sides, NEW stored \in {StoredAtVenue(s), {}}, NEW f \in VenueForm(s, stored)
  PROVE  /\ f \in Calendar
         /\ \/ Final(f) /\ f.kickoff < match.kickoff
            \/ f \in Of(lists[s].entries)
<1>1. \A g \in StoredAtVenue(s) : g \in Calendar /\ Final(g) /\ g.kickoff < match.kickoff
  BY RecentIsSubset, StoredIsPast DEF StoredAtVenue, AtVenue, StoredOf, IInv
<1>2. f \in stored \/ f \in Of(lists[s].entries)
  BY DEF VenueForm, AtVenue, Of
<1>3. Of(lists[s].entries) \subseteq Calendar
  BY DEF IInv, Types, List, Lists, Entries, Of
<1> QED BY <1>1, <1>2, <1>3

LEMMA ReadVenueStep == ASSUME IInv, ReadVenue PROVE IInv'
<1>1. PICK stored \in {StoredAtVenue(at.side), {}} :
        features' = [features EXCEPT !.venue[at.side] = VenueForm(at.side, stored)]
  BY DEF ReadVenue
<1>2. /\ UNCHANGED <<world, match, averages, lists>> /\ at.side \in Sides /\ at.op = "venue"
      /\ features \in Features
  BY DEF ReadVenue, IInv, Types
<1>3. at' \in [op : {"idle", "league", "venue", "players"}, side : Sides]
  BY <1>2 DEF ReadVenue, AfterHome, GoTo, Sides
<1> DEFINE V == VenueForm(at.side, stored)
<1>4. /\ \A f \in V : f \in Calendar
      /\ \A f \in V : \/ Final(f) /\ f.kickoff < match.kickoff
                     \/ f \in Of(lists[at.side].entries)
  BY <1>1, <1>2, VenueFormIsInHand
<1>5. ~features.done
  BY <1>2 DEF IInv, FeaturesAreTheLists
<1> HIDE DEF V
<1>6. /\ features' \in Features /\ ~features'.done
      /\ \A s \in Sides : features'.venue[s] = IF s = at.side THEN V ELSE features.venue[s]
  <2> DEFINE W == [features.venue EXCEPT ![at.side] = V]
  <2>1. features' = [features EXCEPT !.venue = W]
    BY <1>1 DEF V
  <2>2. V \subseteq Calendar /\ features.venue \in [Sides -> SUBSET Calendar]
    BY <1>2, <1>4 DEF Features
  <2>3. /\ W \in [Sides -> SUBSET Calendar]
        /\ \A s \in Sides : W[s] = IF s = at.side THEN V ELSE features.venue[s]
    BY <1>2, <2>2
  <2> HIDE DEF W
  <2>4. features' \in Features /\ features'.venue = W /\ ~features'.done
    BY <1>2, <1>5, <2>1, <2>3 DEF Features
  <2> QED BY <2>3, <2>4
<1>7. \A s \in Sides : \A f \in features'.venue[s] :
        \/ f \in Calendar /\ Final(f) /\ f.kickoff < match.kickoff
        \/ f \in Of(lists[s].entries)
  BY <1>4, <1>6 DEF IInv, FeaturesAreTheLists
<1> QED BY <1>2, <1>3, <1>6, <1>7, FeaturesStep

LEMMA CompleteStep == ASSUME IInv, Complete PROVE IInv'
<1> DEFINE avg == [s \in Sides |-> TeamStats(s)]
           q == dataQualityLabel(Cardinality(TeamStats("home")), Cardinality(TeamStats("away")))
<1>1. /\ UNCHANGED <<world, match, averages, lists>> /\ features \in Features
      /\ at' = [op |-> "idle", side |-> "home"]
      /\ features' = [features EXCEPT !.done = TRUE, !.averages = avg, !.quality = q]
  BY DEF Complete, GoTo, IInv, Types
<1>2. \A s \in Sides : TeamStats(s) \subseteq averages[s] \cup lists[s].entries
  BY DEF TeamStats
<1>3. avg \in [Sides -> SUBSET Entries]
  BY DEF TeamStats, IInv, Types, List, Lists
<1>4. q \in Quality
  BY DEF dataQualityLabel, Quality
<1>5. \A s \in Sides : avg[s] = TeamStats(s)
  OBVIOUS
<1> HIDE DEF avg, q
<1>6. /\ features' \in Features /\ features'.venue = features.venue
      /\ features'.averages = avg
  BY <1>1, <1>3, <1>4 DEF Features
<1> QED BY <1>1, <1>2, <1>5, <1>6, FeaturesStep DEF IInv, FeaturesAreTheLists, Sides

LEMMA NextIInv == IInv /\ [Next]_vars => IInv'
<1> SUFFICES ASSUME IInv, [Next]_vars PROVE IInv'
  OBVIOUS
<1>1. ASSUME NEW f \in Calendar, KickOff(f) \/ End(f) \/ \E x \in {"AWD", "WO"} : Award(f, x)
      PROVE  IInv'
  BY <1>1, FixturesStep
<1>2. ASSUME NEW f \in Calendar, Import(f) PROVE IInv'
  BY <1>2, ImportStep
<1>3. ASSUME NEW f \in Calendar, Start(f) PROVE IInv'
  BY <1>3, ForgetStep DEF Start, GoTo, Ops, Sides
<1>4. CASE ReadFails
  BY <1>4, ForgetStep DEF ReadFails, GoTo, Ops, Sides, IInv, Types
<1>5. CASE ReadAverages
  BY <1>5, ReadAveragesStep
<1>6. CASE ReadHistory
  BY <1>6, ReadHistoryStep
<1>7. CASE AskHistory
  BY <1>7, AskHistoryStep
<1>8. CASE ReadMeetings
  BY <1>8, ReadMeetingsStep
<1>9. CASE AskMeetings
  BY <1>9, AskMeetingsStep
<1>10. CASE ReadLeague \/ ReadVenue \/ Complete
  BY <1>10, ReadLeagueStep, ReadVenueStep, CompleteStep
<1>11. CASE UNCHANGED vars
  BY <1>11
     DEF vars, IInv, Types, RowsAreFinal, ListsArePast, AveragesArePast, FeaturesAreTheLists,
         FromPast, Final, Of, Empty
<1> QED
  BY <1>1, <1>2, <1>3, <1>4, <1>5, <1>6, <1>7, <1>8, <1>9, <1>10, <1>11 DEF Next

LEMMA AlwaysIInv == Spec => []IInv
BY InitIInv, NextIInv, PTL DEF Spec

\* What the store supplies, and what is derived from lists said to be the
\* database's, is of before the kickoff (resolveTeamStats, resolveH2H, buildFeatures).
THEOREM StoreIsOfThePast == Spec => []StoreNeverLooksAhead
<1>1. ASSUME IInv PROVE StoreNeverLooksAhead
  <2>1. \A l \in Lists : \A e \in lists[l].entries :
          e.from = "store" \/ lists[l].source \in {"none", "database"} => FromPast(e)
    BY <1>1 DEF IInv, ListsArePast
  <2>2. ASSUME NEW s \in Sides, features.done, lists[s].source \in {"none", "database"}
        PROVE  Past(Of(features.averages[s])) /\ Past(features.venue[s])
    <3>1. \A e \in averages[s] \cup lists[s].entries : e.match.kickoff < match.kickoff
      BY <1>1, <2>1, <2>2 DEF IInv, AveragesArePast, FromPast, Lists
    <3> QED BY <1>1, <2>2, <3>1 DEF IInv, FeaturesAreTheLists, Past, Of
  <2> QED BY <2>1, <2>2 DEF StoreNeverLooksAhead, Past, FromPast
<1> QED BY <1>1, AlwaysIInv, PTL

\* A team's history, averages and venue form are of final results, whatever
\* the API lists and the collector imports meanwhile (GetLastFixturesByTeam).
THEOREM HistoryOfFinals == Spec => []HistoryIsFinal
<1>1. ASSUME IInv PROVE HistoryIsFinal
  <2> SUFFICES ASSUME NEW s \in Sides
               PROVE  /\ \A f \in Of(lists[s].entries) \cup Of(averages[s]) : Final(f)
                      /\ features.done => \A f \in features.venue[s] : Final(f)
    BY DEF HistoryIsFinal, Final
  <2>1. \A f \in Of(lists[s].entries) \cup Of(averages[s]) : Final(f)
    BY <1>1 DEF IInv, ListsArePast, AveragesArePast, FromPast, Of
  <2> QED BY <1>1, <2>1 DEF IInv, FeaturesAreTheLists
<1> QED BY <1>1, AlwaysIInv, PTL

-----------------------------------------------------------------------------
Once(S) == \A d, e \in S : d.match = e.match => d = e

\* The meetings of one source, and what they are merged into, name a match once.
LEMMA StoredOnce == Once(GetHeadToHeadHistory) /\ Once({})
<1>1. \A e \in GetHeadToHeadHistory :
        e = [match |-> e.match, other |-> e.match.away, from |-> "store"]
  <2> DEFINE M == Recent({f \in StoredOf(match.home) : Plays(match.away, f)}, MeetingsLimit)
  <2> SUFFICES ASSUME NEW e \in GetHeadToHeadHistory
               PROVE  e = [match |-> e.match, other |-> e.match.away, from |-> "store"]
    OBVIOUS
  <2>1. PICK f \in M : e = [match |-> f, other |-> f.away, from |-> "store"]
    BY DEF GetHeadToHeadHistory
  <2> QED
    BY <2>1
<1> QED
  BY <1>1 DEF Once

LEMMA FixturesOnce == ASSUME NEW S PROVE Once(fixturesToH2H(S))
<1>1. \A e \in fixturesToH2H(S) :
        e = [match |-> e.match, other |-> e.match.away, from |-> "api"]
  BY DEF fixturesToH2H
<1> QED
  BY <1>1 DEF Once

LEMMA MergedOnce ==
  ASSUME NEW a, NEW b, Once(a), Once(b)
  PROVE  Once(mergeH2H(a, b))
<1>1. mergeH2H(a, b) \subseteq a \cup {e \in b : \A d \in a : MeetingKey(d) # MeetingKey(e)}
  BY DEF mergeH2H, Merge, Unseen
<1>2. \A d \in a : \A e : MeetingKey(d) # MeetingKey(e) => d.match # e.match
  BY DEF MeetingKey
<1> QED BY <1>1, <1>2 DEF Once

LEMMA MeetingsStep == IInv /\ NoMeetingTwice /\ [Next]_vars => NoMeetingTwice'
<1> SUFFICES ASSUME IInv, NoMeetingTwice, [Next]_vars
             PROVE  Once(lists'["both"].entries)
  BY DEF NoMeetingTwice, Once
<1>1. Once(lists["both"].entries)
  BY DEF NoMeetingTwice, Once
<1>2. lists \in [Lists -> List] /\ at.side \in Sides /\ "both" \in Lists /\ "both" \notin Sides
  BY DEF IInv, Types, Lists, Sides
<1>3. CASE ReadHistory \/ AskHistory
  <2>1. lists'["both"] = lists["both"]
    BY <1>2, <1>3 DEF ReadHistory, AskHistory
  <2> QED BY <1>1, <2>1
<1>4. CASE ReadMeetings
  <2>1. \E entries \in {GetHeadToHeadHistory, {}} : lists'["both"].entries = entries
    BY <1>2, <1>4 DEF ReadMeetings, FromStore
  <2> QED BY <2>1, StoredOnce
<1>5. CASE AskMeetings
  <2> DEFINE old == lists["both"].entries
  <2>1. \E fixtures : lists'["both"].entries \in
          {old, fixturesToH2H(fixtures), mergeH2H(old, fixturesToH2H(fixtures))}
    BY <1>2, <1>5 DEF AskMeetings
  <2> QED BY <1>1, <2>1, FixturesOnce, MergedOnce
<1>6. CASE ReadFails \/ \E m \in Calendar : Start(m)
  <2>1. lists'["both"].entries = {}
    BY <1>2, <1>6 DEF ReadFails, Start, Forget, NoList
  <2> QED BY <2>1 DEF Once
<1>7. CASE ReadAverages \/ ReadLeague \/ ReadVenue \/ Complete \/ UNCHANGED vars
  BY <1>1, <1>7 DEF ReadAverages, ReadLeague, ReadVenue, Complete, vars
<1>8. ASSUME NEW f \in Calendar,
             KickOff(f) \/ End(f) \/ Import(f) \/ \E x \in {"AWD", "WO"} : Award(f, x)
      PROVE  Once(lists'["both"].entries)
  BY <1>1, <1>8 DEF KickOff, End, Import, Award, request
<1> QED
  BY <1>3, <1>4, <1>5, <1>6, <1>7, <1>8 DEF Next

\* No meeting is counted twice, though the collector imports it between the read of
\* the store and the call of the API (mergeH2H).
THEOREM MeetingsCountOnce == Spec => []NoMeetingTwice
<1>1. Init => NoMeetingTwice
  BY DEF Init, NoMeetingTwice, NoList, Lists
<1> QED
  BY <1>1, AlwaysIInv, MeetingsStep, PTL DEF Spec

-----------------------------------------------------------------------------
\* The key and the failures.
Rest == keyed \in BOOLEAN /\ faults \in 0..MaxFaults

LEMMA RestStep == Rest /\ [Next]_vars => Rest'
<1>. SUFFICES ASSUME Rest, [Next]_vars PROVE Rest'
  OBVIOUS
<1>1. UNCHANGED keyed
  BY DEF Next, vars, KickOff, End, Import, Start, Award, ReadAverages, ReadFails, ReadHistory,
         AskHistory, ReadMeetings, AskMeetings, ReadLeague, ReadVenue, Complete, world
<1>2. UNCHANGED faults \/ Faulty
  BY DEF Next, vars, KickOff, End, Import, Start, Award, ReadAverages, ReadFails, ReadHistory,
         AskHistory, ReadMeetings, AskMeetings, ReadLeague, ReadVenue, Complete, request, Read
<1>3. faults' \in 0..MaxFaults
  BY <1>2, HistoryAssumption DEF Faulty, Rest
<1>. QED
  BY <1>1, <1>3 DEF Rest

\* The types hold: features are taken over fixtures and entries of them, whatever
\* the statements and the calls return.
THEOREM TypeCorrect == Spec => []TypeOK
<1>1. Init => Rest
  BY HistoryAssumption DEF Init, Rest
<1>2. IInv => Types
  BY DEF IInv
<1>3. Types /\ Rest => TypeOK
  BY DEF Types, Rest, Features, TypeOK
<1>. QED
  BY <1>1, <1>2, <1>3, AlwaysIInv, RestStep, PTL DEF Spec
==============================================================================
