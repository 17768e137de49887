CONSTANTS
  f1 = f1
  f2 = f2
  q1 = q1
  q2 = q2
  notq = notq
  None = None
  NoFilter = NoFilter
  View <- MCView
  PAGE = 2
  Linked = {0}
  MaxPage = 3
  Capture = {f1}
  Query = {q1}
  BadQuery = {}
  Failing = {}
  MaxOut = 4
  MaxActs = 4
SPECIFICATION Spec
CHECK_DEADLOCK FALSE
INVARIANTS CountKnown
