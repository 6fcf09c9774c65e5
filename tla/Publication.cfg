SPECIFICATION FairSpec
CONSTANTS
  Hosts = {h1, h2}
  Rounds = {r1, r2}
  None = None
  Worlds = {{"overlap"}, {"unread", "giveUp"}, {"admin"}, {"fail"}, {"crash"}, {"lapse"},
            {"create", "append"}}
  MaxVersion = 3
  MaxWrites = 5
  MaxFaults = 1
INVARIANTS
  SeasonIsCurrent
  IndexIsCurrent
PROPERTIES
  RecomputeEnds
