SPECIFICATION Spec
CONSTANTS
    Checkouts = {c1}
    Equipment = {e1}
    Requests = {r1}
    AllowedPurposes = {"calibration"}
    StartStatuses = {"available"}
    MaxVersion = 5
    ClientVersions = FALSE

PROPERTY InvalidationIsFinal
