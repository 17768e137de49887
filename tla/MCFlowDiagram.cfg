CONSTANTS
  wire = wire
  merged = merged
  vendor = vendor
  mac1 = mac1
  mac2 = mac2
  ip1 = ip1
  ip2 = ip2
  ip3 = ip3
  nobody = nobody
  nofield = nofield
  Capture = {wire, merged}
  Frames <- MCFrames
  Fields <- MCFields
  NoField = nofield
  Address = {vendor, mac1, mac2, ip1, ip2, ip3}
  NoAddress = nobody
  Kind <- MCKind
  Both <- MCBoth
  Other <- MCOther
  Guess <- MCGuess
  Linked <- MCLinked
  PAGE = 2
  MaxPage = 1
  Failing = {"page", "frame", "check"}
  MaxPages = 1
  MaxOut = 2
  MaxActs = 3
SPECIFICATION Spec
CHECK_DEADLOCK FALSE
INVARIANTS LanesRight
PROPERTIES HidesItsLane
