SPECIFICATION Spec
CONSTANTS
  c1 = c1
  e1 = e1
  s1 = s1
  y1 = y1
  p1 = p1
  r1 = r1
  r2 = r2
  t1 = t1
  t2 = t2
  t3 = t3
  q1 = q1
  q2 = q2
  Clubs = {c1}
  Entries = {e1}
  SiteRows = {s1}
  SeasonRows = {y1}
  Pilots = {p1}
  Rounds = {r1, r2}
  Teams = {t1, t2, t3}
  Places = {q1, q2}
  Sources <- MCSources
  CompleteData = {"Complete"}
  MaxRuns = 3
  MaxMishaps = 1
  MaxIds = 16
INVARIANTS
  ImageIsSound
  AuditsCatchMixtures
