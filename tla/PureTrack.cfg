SPECIFICATION FairSpec
CONSTANTS
  Workers = {w1, w2}
  Worlds = {{"crash", "upstream", "status", "record", "lostSend", "lostResponse", "lostCommit"},
            {"overrun", "stall", "status"},
            {"delete", "upstream", "record", "status", "lostRequest"},
            {"disabled", "crash", "status", "lostCommit"}}
  MaxDequeue = 2
  MaxAttempts = 2
  MaxFaults = 1
  MaxDeletes = 1
  GroupsPerRun = 1
INVARIANTS
  EchoIsCurrent
  GroupsAreKnown
PROPERTIES
  ImplementsAttempts
  AttemptsEnd
