SPECIFICATION Spec
CONSTANTS
    Checkouts = {c1}
    Equipment = {e1}
    Requests = {r1, r2}
    AllowedPurposes = {"rental", "return_to_vendor"}
    StartStatuses = {"available"}
    MaxVersion = 6
    ClientVersions = TRUE
SYMMETRY RequestSymmetry
INVARIANTS
    TypeOK
    SnapshotsAgree
    StatusFitsPurpose
