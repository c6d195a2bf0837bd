SPECIFICATION Spec
CONSTANTS
  j1 = j1
  Jobs = {j1}
  LabelsOf <- MCLabels
  Fields <- MCFields
  Checked <- MCChecked
  ScrapedPoints <- MCPoints
  MaxScrapes = 4
  MaxGCs = 2
INVARIANTS
  ReportedFromBase
  NothingOutlivesTwoCollections
PROPERTIES
  NoFallReported
  DropsAreJustified
CHECK_DEADLOCK FALSE
