SPECIFICATION Spec
CONSTANTS
    Checkouts = {c1, c2}
    Equipment = {e1}
    Requests = {r1}
    AllowedPurposes = {"rental"}
    StartStatuses = {"available"}
    MaxVersion = 5
    ClientVersions = FALSE

INVARIANT NoDoubleBooking
