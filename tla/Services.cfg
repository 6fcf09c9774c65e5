SPECIFICATION MCSpec
CONSTANTS
  None = None
  Makers = {m1, m2}
  Keys = {k1, k2}
  Sites = {s1, s2}
  Requests = {q1, q2}
  Worlds = {{"create", "update", "delete", "lapse", "crash"},
            {"config", "defaults", "lapse", "crash"},
            {"addSite", "editSite", "dropSite", "unread"},
            {"addSite", "dropSite", "crash"},
            {"move", "create", "delete", "crash"}}
  MaxOps = 4
  MaxFaults = 1
  Links = {l1, l2}
  AccountWorlds = {{"forgot", "reset", "login", "lapse"},
                   {"forgot", "reset", "logout", "crash"},
                   {"login", "time", "lapse", "crash"}}
  MaxFailures = 2
  MaxVisits = 5
  Calls = {c1, c2}
  MaxVoids = 2
  MaxSteps = 7
  Polls = 2
  MaxPolls = 2
  MaxMoves = 3
  MaxLoads = 2
INVARIANTS
  SignInIsSound
  PageKeepsWatch
  CataloguesKeepEdits
SYMMETRY Symmetric
