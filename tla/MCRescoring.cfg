SPECIFICATION RescoreSpec
CONSTANTS
  Slots = {s1}
  Rescores = {1, 2}
  Rescorers = {w1, w2}
  RescoreWorlds = {{"manual", "delete", "status", "storage", "send"},
                   {"crash", "stall", "lostRequest"},
                   {"stale", "lostSend"}}
  RescoreDequeue = 3
  MaxFlights = 2
  MaxRescoreFaults = 2
INVARIANTS
  JobsAreSafe
PROPERTIES
  JobsEnd
