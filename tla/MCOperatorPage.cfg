CONSTANTS
  a = a
  b = b
  ax = ax
  ay = ay
  bx = bx
  none = none
  cs = cs
  sel = sel
  bad = bad
  shark = shark
  c1 = c1
  Namespace = {a, b}
  NoNamespace = NoNamespace
  Pod = {ax, ay, bx}
  PodOrder <- MCOrder
  ListOrder <- MCByName
  NsOf <- MCNsOf
  NameOf <- MCNameOf
  Letter <- MCLetter
  NsText <- MCNsText
  NameText <- MCNameText
  Labels <- MCLabels
  Query = {none, cs, sel, bad}
  Blank = none
  Words <- MCWords
  Selects <- MCSelects
  Malformed = {bad}
  Webshark <- MCWebshark
  WsOf <- MCWsOf
  NoWebshark = NoWebshark
  Name = {c1}
  DefaultTargets = 1
  Starts <- MCStarts
  Asked = {1, 2}
  MaxEvents = 3
SPECIFICATION FairSpec
CHECK_DEADLOCK FALSE
INVARIANTS ShownIsFound CapturesWhatWasMeant
PROPERTIES CardsStay Converges
