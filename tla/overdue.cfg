SPECIFICATION LiveSpec
CONSTANTS
    Checkouts = {c1}
    Equipment = {e1}
    Requests = {r1}
    AllowedPurposes = {"calibration"}
    StartStatuses = {"non_conforming"}
    MaxVersion = 8
    ClientVersions = FALSE

PROPERTY LateIsNoticed
