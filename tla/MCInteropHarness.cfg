SPECIFICATION Spec
CONSTANTS
  CLIENTS <- MCClients
  Scripted = {"go", "rust"}
  Labels = {"java"}
  NoLabel = "unlabelled"
  MaxRuns = 2
CHECK_DEADLOCK FALSE
INVARIANTS
  PagesAreHonest
PROPERTIES
  RunsEnd
