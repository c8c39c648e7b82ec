SPECIFICATION Spec
CONSTANTS
  NCs = {n1}
  Repairs = {p1, p2}
  Equipment = {e1}
  Requests = {r1, r2}
  Types = {"damage", "calibration_overdue"}
  Actors = {"user", "removal", "repair", "incident", "calibration"}
  StartStatuses = {"available"}
  MaxVersion = 3
  ClientVersions = TRUE
  NoId = NoId
SYMMETRY Symmetry
INVARIANTS
  TypeOK
  
PROPERTIES
  LinkIsStable
CHECK_DEADLOCK FALSE
