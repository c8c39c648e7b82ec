\* One import and the checkouts of three attempts to give it back.
SPECIFICATION LiveSpec
CONSTANTS
    Imports = {i1}
    Checkouts = {c1, c2, c3}
    Requests = {r1, r2}
    Letters = {1}
    Limit = 10
    MaxVersion = 12
    NoId = NoId
INVARIANTS
    TypeOK
    ImportFollowsCheckout
    ReturnHasOneCheckout
    
    RefusalRestoresMark
PROPERTIES
    KeepsPromise
    EndedReturnIsFollowed
CHECK_DEADLOCK FALSE
