SPECIFICATION JourneySpec
CONSTANTS
  None = None
  HashOf <- MCHash
  NumHashBuckets = 8
  Wires <- MCWires
  DefaultService = "unnamed"
  Added <- MCAdded
  Overwrite = FALSE
  Replacements <- MCReplacements
  Rates <- MCRates
  PolicyKeys = {"retries", "tier", "a", "zone", "n"}
  PolicyValues = {"gold", "z", "2"}
  MaxSteps = 3
INVARIANTS
  SpansSurvive
  WholeTraces
  FormsAgree
  PoliciesSeeTheSame
PROPERTY SecondHopChangesNothing
CHECK_DEADLOCK FALSE
