SPECIFICATION Spec
CONSTANTS
  t1 = t1
  t2 = t2
  Targets = {t1, t2}
  Metadata <- Types
  Pages <- PagesChecked
  StalePages <- Stales
  ReportPage <- Report
  MaxScrapes = 1
INVARIANTS
  WholePages
  ServiceIsThere
PROPERTY StopIsFinal
CHECK_DEADLOCK FALSE
