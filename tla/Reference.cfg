SPECIFICATION ReferenceSpec
CONSTANTS
  None = None
  Years = {y1, y2}
  Clubs = {c1, c2}
  Requests = {q1, q2}
  SeasonWorlds = {{"createSeason", "updateSeason", "touchSeason", "deleteSeason", "crash"},
                  {"register", "resize", "unregister", "crash"},
                  {"register", "resize", "addTeam", "dropTeam"},
                  {"register", "createClub", "deleteClub"}}
  MaxTeams = 2
  MaxAsked = 3
  MaxSeasonFaults = 1
  Pilots = {p1, p2}
  Entered = {c1, c2}
  PilotWorlds = {{"assign", "remove"},
                 {"assign", "edit", "register"},
                 {"assign", "change"},
                 {"assign", "crash", "lapse"}}
  MaxPilotOps = 3
  Admins = {a1, a2}
  Signers = {s1}
  MaxTries = 1
  MaxAdds = 4
  WordingWorlds = {{"crash", "lapse"}}
  MaxWordingFaults = 2
  t1 = t1
  t2 = t2
  Reserve = {4}
  Distances = {4, 11}
  Visitors = {0, 2}
  TeamScores = {0, 3, 5}
  MaxRounds = 3
  Makers = {m1}
  Keys = {k1}
  Sites = {here}
  Worlds = {{"create"}}
  MaxOps = 1
  MaxFaults = 0
  Links = {l1}
  AccountWorlds = {{"forgot"}}
  MaxFailures = 1
  MaxVisits = 1
  Calls = {f1}
  MaxVoids = 0
  MaxSteps = 1
  Polls = 1
  MaxPolls = 1
  MaxMoves = 1
  MaxLoads = 1
INVARIANTS
  RegistrationsAgree
  MapFollowsPilot
  ScoresAsLegacy
  WordingIsKept
PROPERTY
  ActivationIsExclusive
SYMMETRY Interchangeable
