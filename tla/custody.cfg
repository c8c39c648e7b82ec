SPECIFICATION Spec
CONSTANTS
    Checkouts = {c1, c2}
    Equipment = {e1}
    Requests = {r1}
    AllowedPurposes = {"rental", "return_to_vendor"}
    StartStatuses = {"available"}
    MaxVersion = 5
    ClientVersions = FALSE

CONSTRAINT CreationsApart
INVARIANTS
    NoDoubleBooking
    EquipmentFollowsCheckout
    ImportEventsMatch
PROPERTY KeepsPromise
