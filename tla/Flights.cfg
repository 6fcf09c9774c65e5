SPECIFICATION FairSpec
CONSTANTS
  Workers = {w1, w2}
  Pilots = {p1, p2}
  None = None
  Worlds = {{"crash", "lapse"}, {"stall"},
            {"complete", "error", "lostSend", "allow", "revalidate"},
            {"complete", "result", "renewal", "lostRequest"},
            {"complete", "manual", "delete"}, {"complete", "allow", "config"},
            {"revalidate", "update"},
            {"reseat"},
            {"redispatch", "orphans", "lostRequest"}}
  MaxDequeue = 2
  MaxIds = 2
  MaxFaults = 2
INVARIANTS
  EgressOnce
  TracksMatchFlight
  ScoreIsCurrent
PROPERTIES
  LateVerdictIgnored
  PendingEnds
