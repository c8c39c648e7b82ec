SPECIFICATION Spec
CONSTANTS
    Checkouts = {c1}
    Equipment = {e1}
    Requests = {r1, r2}
    AllowedPurposes = {"rental", "return_to_vendor"}
    StartStatuses = {"spare"}
    MaxVersion = 11
    ClientVersions = FALSE
SYMMETRY RequestSymmetry
INVARIANT ReturnInspected
PROPERTIES
    StatusFollowsTable
    TerminationRecorded
