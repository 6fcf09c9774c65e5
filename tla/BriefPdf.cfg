SPECIFICATION FairSpec
CONSTANTS
  Workers = {w1, w2}
  NoOne = NoOne
  Worlds = {{"crash", "stall", "render", "upload", "status", "renewal", "email", "lostSend"},
            {"crash", "stall", "lapse"},
            {"status", "renewal", "poison", "lostRequest"}}
  MaxDequeue = 2
  MaxAttempts = 2
  MaxFaults = 2
INVARIANTS
  ReadyPdfIsCurrent
PROPERTIES
  ImplementsAttempts
  AttemptsEnd
