SPECIFICATION Spec
CONSTANTS
  NCs = {n1, n2}
  Repairs = {p1}
  Equipment = {e1}
  Requests = {r1, r2}
  Types = {"damage", "other"}
  Actors = {"user", "repair"}
  StartStatuses = {"spare", "inactive"}
  MaxVersion = 4
  ClientVersions = FALSE
  NoId = NoId
SYMMETRY Symmetry
INVARIANTS
  MarkFollowsRecords
PROPERTIES
  ClosedIsFinal
  KeepsLedger
CHECK_DEADLOCK FALSE
