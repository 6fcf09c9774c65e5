SPECIFICATION Spec
CONSTANTS
  r1 = r1
  r2 = r2
  p1 = p1
  p2 = p2
  t1 = t1
  t2 = t2
  Calm = Calm
  Windy = Windy
  CalmHash = CalmHash
  WindyHash = WindyHash
  NoOne = NoOne
  NoPilot = NoPilot
  NoHash = NoHash
  Pilots = {p1}
  Documented = {p1}
  Teams = {t1}
  MaxTeams = 1
  MaxPilotsInTeam = 1
  Materials <- MCMaterials
  BlankMaterial = Calm
  Hashes <- MCHashes
  HashOf <- MCHashOf
  Requests = {r1, r2}
  KindsOf <- LockRaces
  MaxVersion = 2
  MaxRecords = 1
INVARIANTS
  TypeOK
  OneMaterialPerVersion
  FrozenRoundIsTrue
PROPERTIES
  RosterFixedWhileFrozen
  BriefHistoryLinear
