SPECIFICATION Spec
CONSTANTS
  d1 = d1
  d2 = d2
  d3 = d3
  Docs <- MCDocs
  Users = {u1, u2}
  Requests = {r1, r2}
  Kinds = {"intermediate", "self", "validation", "plan", "disposal"}
  Seconds = {"plan"}
  ClientVersions = FALSE
  MaxVersion <- MCMaxVersion
  MaxParts <- MCMaxParts
  Nobody = Nobody
SYMMETRY Symmetry
INVARIANTS
  TypeOK
  
  
  EquipmentFollowsRequest
PROPERTIES
  DecisionIsFinal
  
CHECK_DEADLOCK FALSE
