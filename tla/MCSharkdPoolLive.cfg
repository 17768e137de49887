CONSTANTS
  c1 = c1
  c2 = c2
  r1 = r1
  r2 = r2
  s1 = s1
  s2 = s2
  s3 = s3
  None = None
  Caller = {c1, c2}
  Ref = {r2}
  Merged = {r2}
  Session = {s1, s2}
  Max = 1
  MayCrash = TRUE
SPECIFICATION FairSpec
PROPERTIES RetiredEnds CallReturns ImplementsLife
