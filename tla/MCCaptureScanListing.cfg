CONSTANTS
  n1 = n1
  n2 = n2
  q1 = q1
  q2 = q2
  l1 = l1
  u1 = u1
  u2 = u2
  None = None
  Name = {n1}
  Scan = {q1, q2}
  List = {l1}
  Upload = {u1}
  FRAMES = 2
  MaxSize = 3
SPECIFICATION Spec
INVARIANTS NeverOnListing
