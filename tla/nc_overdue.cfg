SPECIFICATION LiveSpec
CONSTANTS
  NCs = {n1, n2}
  Repairs = {p1}
  Equipment = {e1, e2}
  Requests = {r1}
  Types = {"calibration_overdue"}
  Actors = {"scheduler", "checkout"}
  StartStatuses = {"available"}
  MaxVersion = 5
  ClientVersions = FALSE
  NoId = NoId
PROPERTIES
  OverdueIsNoticed
CHECK_DEADLOCK FALSE
