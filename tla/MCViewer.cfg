CONSTANTS
  f1 = f1
  f2 = f2
  q1 = q1
  q2 = q2
  notq = notq
  None = None
  NoFilter = NoFilter
  View <- MCView
  PAGE = 2
  Linked = {0, 2, 4}
  MaxPage = 3
  Capture = {f1, f2}
  Query = {q1, notq}
  BadQuery = {notq}
  Failing = {"page", "check", "status", "frame"}
  MaxOut = 3
  MaxActs = 4
SYMMETRY Alike
SPECIFICATION Spec
CHECK_DEADLOCK FALSE
INVARIANTS SelectionShown CountIsRight LinkFound
