----------------------------- MODULE MCReference -----------------------------
(***************************************************************************)
(* What rounds refer to: seasons with the clubs registered for them        *)
(* (Seasons), the clubs pilots fly for (Membership), the wording pilots    *)
(* sign (Wording), and the arithmetic of scores (Scoring), beside what     *)
(* surrounds the rounds (MCServices).  These share no blob and no lease,   *)
(* so a behaviour is one of any of them: topic says of which, and the      *)
(* variables of the others keep their first values.                        *)
(***************************************************************************)
EXTENDS MCServices, FiniteSets

CONSTANTS
  Years, Clubs, SeasonWorlds, MaxTeams, MaxAsked, MaxSeasonFaults,
  Pilots, Entered, PilotWorlds, MaxPilotOps,
  Admins, Signers, MaxTries, MaxAdds, WordingWorlds, MaxWordingFaults,
  t1, t2, Reserve, Distances, Visitors, TeamScores, MaxRounds

VARIABLES
  season, listed, club, named, doc, entry, file, team, lock,
  asked, asks, seasonFaults, halved, undone, overlap,
  member, current, map, filed, holds, change, changes, pilotFaults, behind,
  version, pointer, publisher, edition, admin, signer, adds, wordingFaults,
  part, visitors, flight, wing, points, total, results

servicesVars == <<vars, accountVars, tabVars, pageVars>>
seasonVars == <<season, listed, club, named, doc, entry, file, team, lock,
                asked, asks, seasonFaults, halved, undone, overlap>>
pilotVars == <<member, current, map, filed, holds, change, changes, pilotFaults, behind>>
wordingVars == <<version, pointer, publisher, edition, admin, signer, adds, wordingFaults>>
scoreVars == <<part, visitors, flight, wing, points, total, results>>

Season == INSTANCE Seasons
  WITH Worlds <- SeasonWorlds, MaxOps <- MaxAsked, MaxFaults <- MaxSeasonFaults,
       req <- asked, ops <- asks, faults <- seasonFaults, torn <- halved

Member == INSTANCE Membership
  WITH Worlds <- PilotWorlds, MaxOps <- MaxPilotOps, MaxFaults <- 1,
       lease <- holds, req <- change, ops <- changes, faults <- pilotFaults

Wording == INSTANCE Wording
  WITH Worlds <- WordingWorlds, MaxFaults <- MaxWordingFaults,
       holder <- publisher, faults <- wordingFaults

LOCAL Scoring == INSTANCE Scoring
  WITH ScoredTeams <- {t1, t2}, Places <- (t1 :> 4) @@ (t2 :> 1), season <- results

(* None is the absence of a holder, and the map of a season is no pilot's  *)
(* document.                                                               *)
ASSUME ReferenceAssumption ==
  /\ None \notin Requests /\ None \notin Admins
  /\ MaxTeams \in Nat /\ Entered \subseteq Clubs /\ Member!Map \notin Pilots

-----------------------------------------------------------------------------
References == {"seasons", "membership", "wording", "scoring"}

ReferenceInit ==
  /\ topic \in References /\ First
  /\ Season!Init /\ Member!Init /\ Wording!Init /\ Scoring!ScoringInit
  /\ Cardinality({current[p] : p \in Pilots}) = 1
  /\ Still("seasons", seasonFaults.kinds = CHOOSE w \in SeasonWorlds : TRUE)
  /\ Still("membership", /\ pilotFaults.kinds = CHOOSE w \in PilotWorlds : TRUE
                         /\ \A p \in Pilots : current[p] = None)
  /\ Still("wording", wordingFaults.kinds = CHOOSE w \in WordingWorlds : TRUE)
  /\ Still("scoring", part = "round" /\ visitors = CHOOSE v \in Visitors : TRUE)

ReferenceNext ==
  /\ UNCHANGED <<topic, servicesVars>>
  /\ \/ /\ topic = "seasons" /\ Season!Next
        /\ UNCHANGED <<pilotVars, wordingVars, scoreVars>>
     \/ /\ topic = "membership" /\ Member!Next
        /\ UNCHANGED <<seasonVars, wordingVars, scoreVars>>
     \/ /\ topic = "wording" /\ Wording!Next
        /\ UNCHANGED <<seasonVars, pilotVars, scoreVars>>
     \/ /\ topic = "scoring" /\ Scoring!ScoringNext
        /\ UNCHANGED <<seasonVars, pilotVars, wordingVars>>

referenceVars == <<topic, servicesVars, seasonVars, pilotVars, wordingVars, scoreVars>>

ReferenceSpec == ReferenceInit /\ [][ReferenceNext]_referenceVars

Interchangeable == Permutations(Years) \union Permutations(Clubs) \union Permutations(Pilots)

-----------------------------------------------------------------------------
(* A club's registration, its entry and its teams agree when no request is *)
(* about it (Seasons: createSeasonClub, updateSeasonClub,                  *)
(* deleteSeasonClub).                                                      *)
RegistrationsAgree == topic = "seasons" => Season!RegistrationsAgree

(* A request that makes a season active leaves it the only one (Seasons:   *)
(* deactivateAllSeasons).                                                  *)
ActivationIsExclusive == Season!ActivationIsExclusive

(* The map of a season shows the club of the pilot's document              *)
(* (Membership: assignPilotSeasonClub, upsertPilotClubMap).                *)
MapFollowsPilot == topic = "membership" => Member!MapFollowsPilot

(* Versions stay in order and signatures verify (Wording:                  *)
(* addWordingVersion, ensureBootstrapped).                                 *)
WordingIsKept == topic = "wording" => Wording!WordingIsKept

(* Rounds and the league are scored as the algorithm the engine replaced   *)
(* scores them (Scoring: scoreRound, computeLeague).                       *)
ScoresAsLegacy == topic = "scoring" => Scoring!ScoredAsLegacy /\ Scoring!LeagueAsLegacy
=============================================================================
