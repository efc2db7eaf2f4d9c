------------------------------- MODULE History -------------------------------
(***************************************************************************)
(* What a prediction is told of the past: buildFeatures reads both teams'  *)
(* averages, then each team's last matches and the meetings of the two, from *)
(* the store and, when the store has few, from API-Football.  Between two  *)
(* of its reads fixtures kick off and end and the collector imports them.  *)
(*                                                                         *)
(* A list is a set of entries, an average the set of entries it is taken   *)
(* over; a goal count is only its being known.  Every stored team has an   *)
(* API id (external_id is NOT NULL and comes from the API).                *)
(***************************************************************************)
EXTENDS Naturals, FiniteSets

CONSTANTS
  Calendar,       \* fixtures: [home, away, kickoff, winner]; kickoff is a day
  StatsLimit,     \* matches of an average and of a venue form
  HistoryLimit,   \* aiHistoryLimit
  MeetingsLimit,  \* h2hLimit
  MaxAwarded,     \* bound: fixtures that end without being played
  MaxFaults       \* bound: failed statements and API calls

ASSUME HistoryAssumption ==
  /\ \A f \in Calendar : f.kickoff \in Nat /\ f.home # f.away
  /\ {StatsLimit, HistoryLimit, MeetingsLimit, MaxAwarded, MaxFaults} \subseteq Nat

VARIABLES
  keyed,     \* an API key is configured
  api,       \* api[f]   the fixture's status at API-Football
  rows,      \* rows[f]  the status of its row in matches
  at,        \* the request's next step: [op, side]
  match,     \* the match it is about
  averages,  \* averages[side]  what GetTeamRecentStatsAverages read
  lists,     \* lists[side] and lists["both"]: [source, entries]
  features,  \* the features of the last request that was completed
  faults

world == <<keyed, api, rows>>
vars == <<keyed, api, rows, at, match, averages, lists, features, faults>>

Sides == {"home", "away"}
Lists == Sides \cup {"both"}

Over == {"FT", "AWD", "WO"}            \* finishedStatuses
WithGoals == {"1H", "FT", "AWD"}       \* a walkover has no goals
ApiStatus == {"NS", "1H"} \cup Over
RowStatus == {"scheduled", "live", "finished"}

Teams == {f.home : f \in Calendar} \cup {f.away : f \in Calendar}

\* other: the team a history names as opponent; from: where the entry was read.
Entries == [match : Calendar, other : Teams, from : {"store", "api"}]

List == [source : {"database", "api", "mixed", "none"}, entries : SUBSET Entries]
NoList == [source |-> "none", entries |-> {}]

Ops == {"idle", "averages", "history", "ask", "meetings", "askMeetings", "league", "venue", "players"}

Quality == {"high", "medium", "low", "estimated"}

NoFeatures ==
  [done |-> FALSE, averages |-> [s \in Sides |-> {}], venue |-> [s \in Sides |-> {}],
   league |-> {}, quality |-> "estimated"]

Init ==
  /\ keyed \in BOOLEAN
  /\ api = [f \in Calendar |-> "NS"]
  /\ rows = [f \in Calendar |-> "scheduled"]
  /\ at = [op |-> "idle", side |-> "home"]
  /\ match \in Calendar
  /\ averages = [s \in Sides |-> {}]
  /\ lists = [l \in Lists |-> NoList]
  /\ features = NoFeatures
  /\ faults = 0

-----------------------------------------------------------------------------
\* The fixtures and the collector.

request == <<at, match, averages, lists, features, faults>>

\* A day's fixtures kick off when those of earlier days are over.
KickOff(f) ==
  /\ api[f] = "NS"
  /\ \A g \in Calendar : g.kickoff < f.kickoff => api[g] \in Over
  /\ api' = [api EXCEPT ![f] = "1H"]
  /\ UNCHANGED <<keyed, rows, request>>

Award(f, status) ==
  /\ api[f] = "NS"
  /\ Cardinality({g \in Calendar : api[g] \in {"AWD", "WO"}}) < MaxAwarded
  /\ \A g \in Calendar : g.kickoff < f.kickoff => api[g] \in Over
  /\ api' = [api EXCEPT ![f] = status]
  /\ UNCHANGED <<keyed, rows, request>>

End(f) ==
  /\ api[f] = "1H"
  /\ api' = [api EXCEPT ![f] = "FT"]
  /\ UNCHANGED <<keyed, rows, request>>

mapStatus_Raw(status) ==
  CASE status = "1H" -> "live"
    [] status = "FT" -> "finished"
    [] OTHER -> status

mapStatus(status) ==
  CASE status = "1H" -> "live"
    [] status = "FT" -> "finished"
    [] OTHER -> "scheduled"

\* The collector's upsert of the fixture.
Import(f) ==
  /\ rows' = [rows EXCEPT ![f] = mapStatus(api[f])]
  /\ UNCHANGED <<keyed, api, request>>

-----------------------------------------------------------------------------
\* Queries.

Plays(t, f) == t \in {f.home, f.away}

Opponent(t, f) == IF f.home = t THEN f.away ELSE f.home

TeamOf(f, side) == IF side = "home" THEN f.home ELSE f.away

\* ORDER BY kickoff DESC LIMIT n
Recent(S, n) == {f \in S : Cardinality({g \in S : g.kickoff > f.kickoff}) < n}

Stored_AnyTime == {f \in Calendar : rows[f] = "finished"}

\* Finished rows of before the match.
Stored == {f \in Calendar : rows[f] = "finished" /\ f.kickoff < match.kickoff}

StoredOf(t) == {f \in Stored : Plays(t, f)}

\* The query selects the team's own name as the opponent's.
GetTeamRecentMatchHistory(t) ==
  {[match |-> f, other |-> t, from |-> "store"] : f \in Recent(StoredOf(t), HistoryLimit)}

GetHeadToHeadHistory ==
  {[match |-> f, other |-> f.away, from |-> "store"] :
     f \in Recent({f \in StoredOf(match.home) : Plays(match.away, f)}, MeetingsLimit)}

Started == {f \in Calendar : api[f] # "NS"}

GetLastFixturesByTeam_Unfiltered(t) ==
  Recent({f \in Started : Plays(t, f)}, HistoryLimit)

\* The API lists the last fixtures that started; only a team's are filtered.
GetLastFixturesByTeam(t) ==
  {f \in Recent({f \in Started : Plays(t, f)}, HistoryLimit) : api[f] \in Over}

GetHeadToHead ==
  Recent({f \in Started : Plays(match.home, f) /\ Plays(match.away, f)}, MeetingsLimit)

fixturesToTeamHistory(t, S) ==
  {[match |-> f, other |-> Opponent(t, f), from |-> "api"] : f \in {g \in S : api[g] \in WithGoals}}

fixturesToH2H(S) ==
  {[match |-> f, other |-> f.away, from |-> "api"] : f \in {g \in S : api[g] \in WithGoals}}

-----------------------------------------------------------------------------
\* The request.

TeamKey(e) == <<e.match.kickoff, e.other>>
MeetingKey(e) == <<e.match.kickoff, e.match.home, e.match.away>>

Unseen(a, b, Key(_)) == {e \in b : \A d \in a : Key(d) # Key(e)}

\* The entries of b not seen in a fill a up to the limit, the newest first.
Merge(a, b, limit, Key(_)) ==
  LET new == Unseen(a, b, Key)
  IN  a \cup {e \in new : Cardinality({d \in new : d.match.kickoff > e.match.kickoff})
                            + Cardinality(a) < limit}

mergeTeamHistory(a, b) == Merge(a, b, HistoryLimit, TeamKey)
mergeH2H_NoKey(a, b) ==
  a \cup {e \in b : Cardinality({d \in b : d.match.kickoff > e.match.kickoff})
                       + Cardinality(a) < MeetingsLimit}

mergeH2H(a, b) == Merge(a, b, MeetingsLimit, MeetingKey)

FromStore(entries) ==
  [source |-> IF entries = {} THEN "none" ELSE "database", entries |-> entries]

GoTo(op, side) == at' = [op |-> op, side |-> side]

AfterHome(side, op, next) == IF side = "home" THEN GoTo(op, "away") ELSE GoTo(next, "home")

Faulty == faults < MaxFaults /\ faults' = faults + 1

Forget ==
  /\ averages' = [s \in Sides |-> {}]
  /\ lists' = [l \in Lists |-> NoList]
  /\ features' = NoFeatures

Start(m) ==
  /\ at.op = "idle"
  /\ match' = m
  /\ GoTo("averages", "home")
  /\ Forget
  /\ UNCHANGED <<world, faults>>

ReadAverages ==
  /\ at.op = "averages"
  /\ LET t == TeamOf(match, at.side)
     IN  averages' = [averages EXCEPT ![at.side] =
           {[match |-> f, other |-> t, from |-> "store"] : f \in Recent(StoredOf(t), StatsLimit)}]
  /\ AfterHome(at.side, "averages", "history")
  /\ UNCHANGED <<world, match, lists, features, faults>>

\* An error of the averages' statements, the league's or the players' is the
\* request's: no features.
ReadFails ==
  /\ at.op \in {"averages", "league", "players"}
  /\ Faulty
  /\ GoTo("idle", "home")
  /\ Forget
  /\ UNCHANGED <<world, match>>

\* The entries of a statement or a call, none when it fails: its error is dropped.
Read(S, entries) == \/ entries = S /\ UNCHANGED faults
                    \/ entries = {} /\ Faulty

AfterHistory(side) == AfterHome(side, "history", "meetings")

Few(entries) == Cardinality(entries) < 3

FewMeetings(entries) == Cardinality(entries) < 2

ReadHistory ==
  /\ at.op = "history"
  /\ LET stored == GetTeamRecentMatchHistory(TeamOf(match, at.side))
     IN  \E entries \in {stored, {}} :
           /\ Read(stored, entries)
           /\ lists' = [lists EXCEPT ![at.side] = FromStore(entries)]
           /\ IF Few(entries) /\ keyed THEN GoTo("ask", at.side) ELSE AfterHistory(at.side)
  /\ UNCHANGED <<world, match, averages, features>>

AskHistory ==
  /\ at.op = "ask"
  /\ LET t == TeamOf(match, at.side)
         last == GetLastFixturesByTeam(t)
         stored == lists[at.side].entries
     IN  \E fixtures \in {last, {}} :
           /\ Read(last, fixtures)
           /\ lists' = [lists EXCEPT ![at.side] =
                IF fixtures = {} THEN @
                ELSE [source |-> "mixed",
                      entries |-> mergeTeamHistory(stored, fixturesToTeamHistory(t, fixtures))]]
  /\ AfterHistory(at.side)
  /\ UNCHANGED <<world, match, averages, features>>

\* Without a key the API is asked all the same when the store has no meeting.
ReadMeetings ==
  /\ at.op = "meetings"
  /\ \E entries \in {GetHeadToHeadHistory, {}} :
       /\ Read(GetHeadToHeadHistory, entries)
       /\ lists' = [lists EXCEPT !["both"] = FromStore(entries)]
       /\ GoTo(IF FewMeetings(entries) /\ (keyed \/ entries = {}) THEN "askMeetings" ELSE "league",
               "home")
  /\ UNCHANGED <<world, match, averages, features>>

AskMeetings ==
  /\ at.op = "askMeetings"
  /\ LET last == IF keyed THEN GetHeadToHead ELSE {}
         stored == lists["both"].entries
     IN  \E fixtures \in {last, {}} :
           /\ Read(last, fixtures)
           /\ lists' = [lists EXCEPT !["both"] =
                IF fixtures = {} THEN @
                ELSE [source |-> IF stored = {} THEN "api" ELSE "mixed",
                      entries |-> IF stored = {} THEN fixturesToH2H(fixtures)
                                  ELSE mergeH2H(stored, fixturesToH2H(fixtures))]]
  /\ GoTo("league", "home")
  /\ UNCHANGED <<world, match, averages, features>>

\* resolveTeamStats: the store's average, or the listed history's.
TeamStats(side) == IF averages[side] # {} THEN averages[side] ELSE lists[side].entries

Lost(t, f) == f.winner = Opponent(t, f)

AtVenue(side, S) == {f \in S : TeamOf(f, side) = TeamOf(match, side)}

\* GetTeamVenueForm
StoredAtVenue(side) == Recent(AtVenue(side, StoredOf(TeamOf(match, side))), StatsLimit)

\* A form of zero, no match or none but defeats, is taken from the history instead if
\* there is one.
VenueForm(side, stored) ==
  IF \/ \E f \in stored : ~Lost(TeamOf(match, side), f)
     \/ lists[side].entries = {}
  THEN stored
  ELSE AtVenue(side, {e.match : e \in lists[side].entries})

dataQualityLabel(home, away) ==
  LET least == IF home < away THEN home ELSE away
  IN  CASE least >= 5 -> "high"
        [] least \in 2..4 -> "medium"
        [] least = 1 -> "low"
        [] OTHER -> "estimated"

ReadLeague ==
  /\ at.op = "league"
  /\ features' = [features EXCEPT !.league = Stored]
  /\ GoTo("venue", "home")
  /\ UNCHANGED <<world, match, averages, lists, faults>>

\* The error of this statement is dropped, which leaves a form of zero.
ReadVenue ==
  /\ at.op = "venue"
  /\ \E stored \in {StoredAtVenue(at.side), {}} :
       /\ Read(StoredAtVenue(at.side), stored)
       /\ features' = [features EXCEPT !.venue[at.side] = VenueForm(at.side, stored)]
  /\ AfterHome(at.side, "venue", "players")
  /\ UNCHANGED <<world, match, averages, lists>>

\* The players' availability, of which nothing is modelled, is read and the features
\* are put together.
Complete ==
  /\ at.op = "players"
  /\ features' =
       [features EXCEPT !.done = TRUE, !.averages = [s \in Sides |-> TeamStats(s)],
        !.quality = dataQualityLabel(Cardinality(TeamStats("home")),
                                     Cardinality(TeamStats("away")))]
  /\ GoTo("idle", "home")
  /\ UNCHANGED <<world, match, averages, lists, faults>>

Next ==
  \/ \E f \in Calendar : KickOff(f) \/ End(f) \/ Import(f) \/ Start(f)
  \/ \E f \in Calendar, status \in {"AWD", "WO"} : Award(f, status)
  \/ ReadAverages \/ ReadHistory \/ AskHistory
  \/ ReadMeetings \/ AskMeetings
  \/ ReadLeague \/ ReadVenue
  \/ Complete \/ ReadFails

Spec == Init /\ [][Next]_vars

-----------------------------------------------------------------------------
\* Properties.

\* The state is of the types declared above.
TypeOK ==
  /\ keyed \in BOOLEAN
  /\ api \in [Calendar -> ApiStatus]
  /\ rows \in [Calendar -> RowStatus]
  /\ at \in [op : Ops, side : Sides]
  /\ match \in Calendar
  /\ averages \in [Sides -> SUBSET Entries]
  /\ lists \in [Lists -> List]
  /\ features \in [done : BOOLEAN, averages : [Sides -> SUBSET Entries],
                   venue : [Sides -> SUBSET Calendar], league : SUBSET Calendar,
                   quality : Quality]
  /\ faults \in 0..MaxFaults

Past(S) == \A f \in S : f.kickoff < match.kickoff

Of(entries) == {e.match : e \in entries}

\* Whatever the features are taken over kicked off before the match
\* (docs/architecture.md says so of every feature; the API's lists break it).
PastOnly ==
  features.done =>
    /\ \A l \in Lists : Past(Of(lists[l].entries))
    /\ \A s \in Sides : Past(Of(features.averages[s])) /\ Past(features.venue[s])
    /\ Past(features.league)

\* What looks past the kickoff says so: a list whose source is the database,
\* and what is derived from it, holds only matches of before (resolveTeamStats, resolveH2H).
StoreNeverLooksAhead ==
  /\ \A l \in Lists :
       \A e \in lists[l].entries :
         e.from = "store" \/ lists[l].source \in {"none", "database"} => Past({e.match})
  /\ \A s \in Sides :
       features.done /\ lists[s].source \in {"none", "database"}
         => Past(Of(features.averages[s])) /\ Past(features.venue[s])

\* A team's history, its averages and its venue form hold final results only,
\* though the API also lists the match in play (GetLastFixturesByTeam).
HistoryIsFinal ==
  \A s \in Sides :
    /\ \A f \in Of(lists[s].entries) \cup Of(averages[s]) : api[f] \in {"FT", "AWD"}
    /\ features.done => \A f \in features.venue[s] : api[f] \in {"FT", "AWD"}

\* The store's and the API's meetings are told apart by date and teams: no
\* meeting is listed twice, however the collector catches up in between (mergeH2H).
NoMeetingTwice ==
  \A d, e \in lists["both"].entries : d.match = e.match => d = e
=============================================================================
