CONSTANTS
  im = im
  id = id
  num = num
  v = v
  and = and
  NoWord = NoWord
  Word <- MCWord
  Typed <- MCTyped
  FieldText <- MCFieldText
  Linked <- MCLinked
  Accepts <- MCAccepts
  TakesString <- MCString
  Offers <- MCOffers
  Failing = {"check", "type", "complete"}
  MaxJobs = 2
  MaxComps = 2
  MaxActs = 5
SPECIFICATION Spec
INVARIANTS TypeOK BoxIsFilter QuotesWhatIsCompared
PROPERTIES OpensForLastAsked FiltersOnWhatCompiled
CHECK_DEADLOCK FALSE
