------------------------------- MODULE Scoring -------------------------------
(***************************************************************************)
(* The scoring engine (packages/scoring) against the algorithm it replaced *)
(* (scripts/scoring-oracle, the generator of its fixtures).  A round is    *)
(* scored in place, again and again, as flights come, go and get the wing  *)
(* class they need; the league counts the best rounds of each team.        *)
(*                                                                         *)
(* Numbers are multiples of 1/Unit: rounding to the nearest of them, ties  *)
(* to even, stands for rounding to single precision.                       *)
(***************************************************************************)
EXTENDS Integers, FiniteSets, FiniteSetsExt, Sequences, SequencesExt, TLC

CONSTANTS
  ScoredTeams,    \* each of a club of its own
  Places,         \* how many filled places each team has
  Reserve,        \* the places that do not score
  Distances,      \* BOUND: lengths of flights
  Visitors,       \* BOUND: numbers of further clubs that attend without flights
  TeamScores,     \* BOUND: scores of completed rounds
  MaxRounds       \* BOUND: completed rounds

VARIABLES
  part,      \* whether a round or a season is looked at
  visitors,
  flight,    \* the flight of a place: its length, or none
  wing,      \* the wing class of a place's snapshot
  points,    \* slot.pilotPoints and team.score as scored last
  total,
  season     \* the scores of the teams in each completed round

scoringVars == <<part, visitors, flight, wing, points, total, season>>

-----------------------------------------------------------------------------
Unit == 100
Slots == UNION {{t} \X (1 .. Places[t]) : t \in ScoredTeams}
NoFlight == -1
Wings == {"EN D", "none"}

(* The configuration as seeded, which the oracle has built in, but for the *)
(* numbers that count, 4 and 6, which are smaller here.                    *)
TaskMaxPoints == 1000
MinimumScore == 5
Counted == 2
LeagueCounted == 2
WingFactor == [w \in Wings |-> IF w = "EN D" THEN 60 ELSE 0]
PilotFactor(slot) == IF slot[2] = 1 THEN 90 ELSE 100
ClubsAttendingFactor(n) == IF n < 3 THEN 50 ELSE IF n = 3 THEN 75 ELSE 100
MinDistanceFactor(n) == IF n > 4 THEN 100 ELSE 20 * n

(* n/d rounded to the nearest integer, ties to even.                       *)
RoundHalfToEven(n, d) ==
  LET q == n \div d
      twice == 2 * (n % d)
  IN q + (IF twice > d \/ (twice = d /\ q % 2 = 1) THEN 1 ELSE 0)

Times(a, b) == RoundHalfToEven(a * b, Unit)
Share(max, score, highest) == RoundHalfToEven(Times(max, score) * Unit, highest)

ScoringTypeOK ==
  /\ part \in {"round", "season"} /\ visitors \in Visitors
  /\ flight \in [Slots -> Distances \union {NoFlight}] /\ wing \in [Slots -> Wings]
  /\ \A s \in Slots : points[s] \in Nat
  /\ \A t \in ScoredTeams : total[t] \in Nat
  /\ Len(season) <= MaxRounds

-----------------------------------------------------------------------------
(* scoreRound.                                                             *)

Attending == Cardinality(ScoredTeams) + visitors
FarEnough(fl) == Cardinality({s \in Slots : fl[s] >= MinimumScore})

MaxPointsForRound(fl) ==
  Times(Times(TaskMaxPoints * Unit, ClubsAttendingFactor(Attending)),
        MinDistanceFactor(FarEnough(fl)))

Scorable(fl, wc) == {s \in Slots : fl[s] # NoFlight /\ wc[s] # "none"}

RawScore(fl, wc, s) == Times(Times(fl[s] * Unit, PilotFactor(s)), WingFactor[wc[s]])

(* Mutant: a place that is not scorable is passed over. *)
PilotPointsKept(fl, wc) ==
  LET max == MaxPointsForRound(fl)
      scorable == Scorable(fl, wc)
      highest == Max({0} \union {RawScore(fl, wc, s) : s \in scorable})
  IN [s \in Slots |-> IF s \in scorable /\ highest > 0
                      THEN Share(max, RawScore(fl, wc, s), highest) ELSE points[s]]
PilotPoints(fl, wc) ==
  LET max == MaxPointsForRound(fl)
      scorable == Scorable(fl, wc)
      highest == Max({0} \union {RawScore(fl, wc, s) : s \in scorable})
  IN [s \in Slots |-> IF s \in scorable /\ highest > 0
                      THEN Share(max, RawScore(fl, wc, s), highest) ELSE 0]

Firsts(list, n) == SubSeq(list, 1, IF n < Len(list) THEN n ELSE Len(list))

(* The best of those that count, highest first, added up and truncated.    *)
WorkingTeamScore(pp, t) ==
  LET counting == SelectSeq([i \in 1 .. Places[t] |-> <<t, i>>],
                            LAMBDA s : s[2] \notin Reserve /\ pp[s] > 0)
      best == SortSeq(counting, LAMBDA a, b : pp[a] > pp[b])
  IN FoldLeft(LAMBDA sum, s : sum + pp[s], 0, Firsts(best, Counted)) \div Unit

TeamScore(max, working, t) ==
  LET highest == Max({working[u] : u \in ScoredTeams})
  IN IF highest > 0
     THEN RoundHalfToEven(RoundHalfToEven(max * working[t], highest), Unit) ELSE 0

(* In place: the teams' scores are of the points the places have by then.  *)
ScoreRound(fl, wc) ==
  LET working == [t \in ScoredTeams |-> WorkingTeamScore(points', t)]
  IN /\ points' = PilotPoints(fl, wc)
     /\ total' = [t \in ScoredTeams |-> TeamScore(MaxPointsForRound(fl), working, t)]

-----------------------------------------------------------------------------
(* The oracle.                                                             *)

Flown == {s \in Slots : flight[s] # NoFlight}

LegacyMaxPoints ==
  Times(Times(1000 * Unit, ClubsAttendingFactor(Attending)), MinDistanceFactor(FarEnough(flight)))

LegacyPilotScore(s) == Times(Times(flight[s] * Unit, PilotFactor(s)), WingFactor[wing[s]])

LegacyHighest == Max({0} \union {LegacyPilotScore(s) : s \in Flown})

LegacyPilotPoints ==
  LET highest == LegacyHighest
      max == LegacyMaxPoints
  IN [s \in Slots |-> IF s \in Flown THEN Share(max, LegacyPilotScore(s), highest) ELSE 0]

BestOf(f, S, n) ==
  Max({MapThenSumSet(LAMBDA x : f[x], few) : few \in {F \in SUBSET S : Cardinality(F) <= n}})

IsScoring(t) == {s \in Slots : s[1] = t /\ s[2] \notin Reserve}

LegacyWorking(pp) ==
  [t \in ScoredTeams |-> BestOf(pp, IsScoring(t), Counted) \div Unit]

LegacyTeamScores(pp) ==
  LET working == LegacyWorking(pp)
      highest == Max({working[u] : u \in ScoredTeams})
  IN [t \in ScoredTeams |->
        IF highest # 0
        THEN RoundHalfToEven(RoundHalfToEven(LegacyMaxPoints * working[t], highest), Unit)
        ELSE 0]

-----------------------------------------------------------------------------
(* computeLeague: a team's best rounds, and teams by what they add up to.  *)

RoundsOf(t) == {i \in DOMAIN season : t \in DOMAIN season[i]}
InLeague == {t \in ScoredTeams : RoundsOf(t) # {}}

CountedRounds(t) ==
  LET played == SelectSeq([i \in 1 .. Len(season) |-> i], LAMBDA i : i \in RoundsOf(t))
  IN Firsts(SortSeq(played, LAMBDA i, j : season[i][t] > season[j][t]), LeagueCounted)

TotalScore(t) == FoldLeft(LAMBDA sum, i : sum + season[i][t], 0, CountedRounds(t))

LeagueTable == SetToSortSeq(InLeague, LAMBDA t, u : TotalScore(t) > TotalScore(u))

LegacyTotal(t) == BestOf([i \in RoundsOf(t) |-> season[i][t]], RoundsOf(t), LeagueCounted)

-----------------------------------------------------------------------------
(* A flight is entered or taken out (which is what no score does), a wing  *)
(* class is told or untold by the snapshots of a lock, and the round is    *)
(* scored.                                                                 *)
Enter ==
  \E s \in Slots, d \in Distances \union {NoFlight} :
    /\ part = "round" /\ d # flight[s]
    /\ flight' = [flight EXCEPT ![s] = d]
    /\ ScoreRound(flight', wing)
    /\ UNCHANGED <<part, visitors, wing, season>>

Tell ==
  \E s \in Slots, w \in Wings :
    /\ part = "round" /\ w # wing[s]
    /\ wing' = [wing EXCEPT ![s] = w]
    /\ ScoreRound(flight, wing')
    /\ UNCHANGED <<part, visitors, flight, season>>

CompleteRound ==
  \E teams \in SUBSET ScoredTeams \ {{}} :
  \E scores \in [teams -> TeamScores] :
    /\ part = "season" /\ Len(season) < MaxRounds
    /\ season' = Append(season, scores)
    /\ UNCHANGED <<part, visitors, flight, wing, points, total>>

SeasonOver == part = "season" /\ Len(season) = MaxRounds /\ UNCHANGED scoringVars

ScoringInit ==
  /\ part \in {"round", "season"} /\ visitors \in Visitors
  /\ flight = [s \in Slots |-> NoFlight] /\ wing = [s \in Slots |-> "none"]
  /\ points = [s \in Slots |-> 0]
  /\ total = [t \in ScoredTeams |-> 0] /\ season = <<>>

ScoringNext == Enter \/ Tell \/ CompleteRound \/ SeasonOver

ScoringSpec == ScoringInit /\ [][ScoringNext]_scoringVars

-----------------------------------------------------------------------------
(* However often and in whatever order flights and wing classes came and   *)
(* went, pilots and teams have the points that the old algorithm gives the *)
(* round as it is (scoreRound); where that would divide by zero, none.     *)
ScoredAsLegacy ==
  IF LegacyHighest = 0
  THEN (\A s \in Slots : points[s] = 0) /\ (\A t \in ScoredTeams : total[t] = 0)
  ELSE points = LegacyPilotPoints /\ total = LegacyTeamScores(points)

(* The league counts the rounds that add up to most, and lists each team   *)
(* that completed a round once, highest total first (computeLeague).       *)
LeagueAsLegacy ==
  /\ \A t \in InLeague : TotalScore(t) = LegacyTotal(t)
  /\ ToSet(LeagueTable) = InLeague /\ Len(LeagueTable) = Cardinality(InLeague)
  /\ \A i \in 1 .. Len(LeagueTable) - 1 :
       LegacyTotal(LeagueTable[i]) >= LegacyTotal(LeagueTable[i + 1])
=============================================================================
