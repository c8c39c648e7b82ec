------------------------------- MODULE Checkout -------------------------------
(***************************************************************************)
(* The checkout service of the backend: the checkout rows of the database, *)
(* the equipment they take away, the in-process cache every handler reads  *)
(* its checkout through, the handlers as requests that interleave at their *)
(* awaits, and the hourly scheduler that marks overdue checkouts.          *)
(*                                                                         *)
(* A handler loads the row through the detail cache, checks the state      *)
(* machine on what it loaded, and commits with a compare-and-set on the    *)
(* version its client sent.  The commit does not look at the status again. *)
(* Only after the commit does it drop the cached row.                      *)
(***************************************************************************)
EXTENDS CheckoutFsm, Naturals

CONSTANTS
    Checkouts,        \* identifiers of checkout rows
    Equipment,        \* identifiers of equipment rows
    Requests,         \* HTTP requests the process serves at the same time
    AllowedPurposes,  \* the purposes of the checkouts under study
    StartStatuses,    \* the statuses equipment may have at the start
    MaxVersion,       \* bound: no request writes a row that has this version
    ClientVersions    \* clients may send a version they read elsewhere than
                      \* in the detail they act on (a list, an earlier answer)

EquipmentStatuses == {"available", "non_conforming", "spare", "checked_out"}

ASSUME PurposesAssumption == AllowedPurposes \subseteq Purposes
ASSUME StartAssumption == StartStatuses \subseteq EquipmentStatuses \ {"checked_out"}
ASSUME MaxVersionAssumption == MaxVersion \in Nat
ASSUME ClientVersionsAssumption == ClientVersions \in BOOLEAN

VARIABLES
    checkout,        \* the rows, with their items and condition checks
    equipment,       \* the status of each equipment row
    importEvents,    \* events sent to the equipment-imports module, per checkout
    cache,           \* the detail cache: what it holds of each row
    fill,            \* what the running cache fill of a row has read
    was,             \* the status each equipment row had before its last change
    request,         \* what each request is doing
    owed             \* rows the scheduler marked and has still to invalidate

vars == <<checkout, equipment, importEvents, cache, fill, was, request,
          owed>>

-----------------------------------------------------------------------------

\* Mutants: the name of an action stored as a status; the lender's check of the
\* return accepted while the borrower still has the equipment.
stepTransitions_ActionAsStatus ==
    [ lender_checkout  |-> [requiredStatus |-> "approved",
                            nextStatus     |-> "lender_check"],
      borrower_receive |-> [requiredStatus |-> "lender_checked",
                            nextStatus     |-> "in_use"],
      borrower_return  |-> [requiredStatus |-> "in_use",
                            nextStatus     |-> "borrower_returned"],
      lender_return    |-> [requiredStatus |-> "borrower_returned",
                            nextStatus     |-> "lender_received"] ]

stepTransitions_SkipsBorrowerReturn ==
    [stepTransitions_ActionAsStatus EXCEPT
        !.lender_checkout.nextStatus = "lender_checked",
        !.lender_return.requiredStatus = "in_use"]

\* The four condition checks of a rental: the status each requires and enters.
stepTransitions ==
    [ lender_checkout  |-> [requiredStatus |-> "approved",
                            nextStatus     |-> "lender_checked"],
      borrower_receive |-> [requiredStatus |-> "lender_checked",
                            nextStatus     |-> "in_use"],
      borrower_return  |-> [requiredStatus |-> "in_use",
                            nextStatus     |-> "borrower_returned"],
      lender_return    |-> [requiredStatus |-> "borrower_returned",
                            nextStatus     |-> "lender_received"] ]

Steps == DOMAIN stepTransitions

FsmOperations ==
    {"approve", "borrower_approve", "borrower_reject", "reject", "start",
     "submit_return", "approve_return", "reject_return", "cancel"}

Operations == FsmOperations \cup Steps \cup {"update", "revoke"}

\* Mutants: condition checks of any checkout; revocations in any status.
Permits_AnyPurpose(op, status, purpose) ==
    \/ op \in FsmOperations /\ CanPerformAction(status, purpose, op)
    \/ op \in Steps /\ status = stepTransitions[op].requiredStatus
    \/ op = "update" /\ status = "pending"
    \/ op = "revoke" /\ status = "approved"

Permits_RevokeAlways(op, status, purpose) ==
    \/ op \in FsmOperations /\ CanPerformAction(status, purpose, op)
    \/ /\ op \in Steps
       /\ purpose = "rental"
       /\ status = stepTransitions[op].requiredStatus
    \/ op = "update" /\ status = "pending"
    \/ op = "revoke"

\* What a handler requires of the status it loaded.  Condition checks, edits
\* and revocations compare the status themselves, the rest ask the table.
Permits(op, status, purpose) ==
    \/ op \in FsmOperations /\ CanPerformAction(status, purpose, op)
    \/ /\ op \in Steps
       /\ purpose = "rental"
       /\ status = stepTransitions[op].requiredStatus
    \/ op = "update" /\ status = "pending"
    \/ op = "revoke" /\ status = "approved"

\* Mutant: the statuses of the calibration and repair flow alone.
activeStatuses_Shop == {"pending", "approved", "checked_out", "overdue", "returned"}

\* The statuses in which create finds an item already taken.
activeStatuses ==
    {"pending", "approved", "checked_out", "overdue", "lender_checked",
     "in_use", "borrower_returned", "lender_received", "returned"}

getAllowedStatusesForPurpose(purpose) ==
    IF purpose = "rental" THEN {"available", "spare"}
                          ELSE {"available", "non_conforming", "spare"}

-----------------------------------------------------------------------------
(* Rows, snapshots and requests *)

NoRow ==
    [status |-> "none", version |-> 0, purpose |-> "none", items |-> {},
     checks |-> {}, inspected |-> FALSE, terminatedFromStatus |-> "none",
     pastDue |-> FALSE]

\* What a handler uses of a row it has loaded (the purpose never changes).
Snapshots   == [status : Statuses \cup {"none"}, version : Nat]
NoSnapshot  == [status |-> "none", version |-> 0]
Snapshot(c) == [status |-> checkout[c].status, version |-> checkout[c].version]

Idle == [phase |-> "idle"]

Init ==
    /\ checkout = [c \in Checkouts |-> NoRow]
    /\ equipment \in [Equipment -> StartStatuses]
    /\ importEvents = [c \in Checkouts |-> {}]
    /\ cache = [c \in Checkouts |-> NoSnapshot]
    /\ fill = [c \in Checkouts |-> NoSnapshot]
    /\ was = equipment
    /\ request = [r \in Requests |-> Idle]
    /\ owed = {}

Rows ==
    [status : Statuses \cup {"none"}, version : Nat,
     purpose : AllowedPurposes \cup {"none"}, items : SUBSET Equipment,
     checks : SUBSET Steps, inspected : BOOLEAN,
     terminatedFromStatus : Statuses \cup {"none"}, pastDue : BOOLEAN]

RequestStates ==
    {Idle}
    \cup [phase : {"checked"}, checkout : Checkouts,
          purpose : AllowedPurposes, items : SUBSET Equipment]
    \cup [phase : {"loaded"}, op : Operations, checkout : Checkouts,
          row : Snapshots, version : Nat]
    \cup [phase : {"announcing"}, checkout : Checkouts,
          event : {"completed", "canceled"}]
    \cup [phase : {"closing"}, checkout : Checkouts]

TypeOK ==
    /\ checkout \in [Checkouts -> Rows]
    /\ equipment \in [Equipment -> EquipmentStatuses]
    /\ importEvents \in [Checkouts -> SUBSET {"completed", "canceled"}]
    /\ cache \in [Checkouts -> Snapshots]
    /\ fill \in [Checkouts -> Snapshots]
    /\ was \in [Equipment -> EquipmentStatuses]
    /\ request \in [Requests -> RequestStates]
    /\ owed \subseteq Checkouts

-----------------------------------------------------------------------------
(* The caches *)

\* A cache miss starts one fill; requests that miss meanwhile wait for it.
ReadRow(c) ==
    /\ checkout[c] # NoRow
    /\ cache[c] = NoSnapshot
    /\ fill[c] = NoSnapshot
    /\ fill' = [fill EXCEPT ![c] = Snapshot(c)]
    /\ UNCHANGED <<checkout, equipment, importEvents, cache, was, request, owed>>

\* The fill stores what it read, however old that is by now.
StoreRow(c) ==
    /\ fill[c] # NoSnapshot
    /\ cache' = [cache EXCEPT ![c] = fill[c]]
    /\ fill' = [fill EXCEPT ![c] = NoSnapshot]
    /\ UNCHANGED <<checkout, equipment, importEvents, was, request, owed>>

\* The entry expires, falls out of the bounded cache, or a listener of some
\* notification event deletes the entries of all checkouts.
Evict(c) ==
    /\ cache[c] # NoSnapshot
    /\ cache' = [cache EXCEPT ![c] = NoSnapshot]
    /\ UNCHANGED <<checkout, equipment, importEvents, fill, was, request, owed>>

-----------------------------------------------------------------------------
(* Creating a checkout: the checks, then the insert, with nothing held      *)
(* in between.                                                              *)

Active(e, statuses) ==
    { c \in Checkouts : checkout[c].status \in statuses /\ e \in checkout[c].items }

CreateCheck(r, c) ==
    /\ request[r] = Idle
    /\ checkout[c] = NoRow
    /\ \A q \in Requests :
           request[q] # Idle => request[q].checkout # c   \* a fresh identifier
    /\ \E purpose \in AllowedPurposes, chosen \in (SUBSET Equipment) \ {{}} :
           /\ \A e \in chosen :
                  /\ Active(e, activeStatuses) = {}
                  /\ {equipment[e], was[e]}
                        \cap getAllowedStatusesForPurpose(purpose) # {}
           /\ request' = [request EXCEPT ![r] =
                  [phase |-> "checked", checkout |-> c,
                   purpose |-> purpose, items |-> chosen]]
    /\ UNCHANGED <<checkout, equipment, importEvents, cache, fill, was, owed>>

CreateInsert(r) ==
    /\ request[r].phase = "checked"
    /\ checkout' = [checkout EXCEPT ![request[r].checkout] =
           [NoRow EXCEPT !.status = "pending", !.version = 1,
                         !.purpose = request[r].purpose,
                         !.items = request[r].items]]
    /\ request' = [request EXCEPT ![r] = Idle]
    /\ UNCHANGED <<equipment, importEvents, cache, fill, was, owed>>

-----------------------------------------------------------------------------
(* The handlers: load and check, commit, announce, invalidate *)

\* Mutant: the server's newest version instead of the client's.
Load_ServerVersion(r, c, op) ==
    /\ request[r] = Idle
    /\ cache[c] # NoSnapshot
    /\ Permits(op, cache[c].status, checkout[c].purpose)
    /\ request' = [request EXCEPT ![r] =
           [phase |-> "loaded", op |-> op, checkout |-> c,
            row |-> cache[c], version |-> checkout[c].version]]
    /\ UNCHANGED <<checkout, equipment, importEvents, cache, fill, was, owed>>

Load(r, c, op) ==
    /\ request[r] = Idle
    /\ cache[c] # NoSnapshot
    /\ Permits(op, cache[c].status, checkout[c].purpose)
    /\ \E version \in {cache[c].version}
                      \cup (IF ClientVersions THEN {checkout[c].version} ELSE {}) :
           request' = [request EXCEPT ![r] =
               [phase |-> "loaded", op |-> op, checkout |-> c,
                row |-> cache[c], version |-> version]]
    /\ UNCHANGED <<checkout, equipment, importEvents, cache, fill, was, owed>>

Row(r) == checkout[request[r].checkout]

\* Mutant: the update is by identifier alone.
updateWithVersion_NoCompare(r, op, row) ==
    /\ request[r].phase = "loaded"
    /\ request[r].op = op
    /\ Row(r).version < MaxVersion
    /\ checkout' = [checkout EXCEPT ![request[r].checkout] =
           [row EXCEPT !.version = Row(r).version + 1]]
    /\ UNCHANGED <<importEvents, cache, fill, owed>>

\* The compare-and-set every commit goes through: the row takes its new
\* values if it still has the version the client sent.
updateWithVersion(r, op, row) ==
    /\ request[r].phase = "loaded"
    /\ request[r].op = op
    /\ request[r].version = checkout[request[r].checkout].version
    /\ request[r].version < MaxVersion
    /\ checkout' = [checkout EXCEPT ![request[r].checkout] =
           [row EXCEPT !.version = request[r].version + 1]]
    /\ UNCHANGED <<importEvents, cache, fill, owed>>

\* What a committed request has still to do: invalidate, and before that tell
\* the imports module of the end of a return to the vendor.
Closing(c) == [phase |-> "closing", checkout |-> c]

Close(r) == request' = [request EXCEPT ![r] = Closing(@.checkout)]

\* Mutant: the imports module hears of every checkout.
CloseReturn_AnyPurpose(r, event) ==
    request' = [request EXCEPT ![r] =
        [phase |-> "announcing", checkout |-> @.checkout, event |-> event]]

CloseReturn(r, event) ==
    request' = [request EXCEPT ![r] =
        IF Row(r).purpose = "return_to_vendor"
        THEN [phase |-> "announcing", checkout |-> @.checkout, event |-> event]
        ELSE Closing(@.checkout)]

\* The equipment rows of a checkout, in the transaction of the commit.  Their
\* cache entries are deleted before the transaction commits, so a read may put
\* the old status back.
updateStatusBatch(c, expected, status) ==
    LET updated == { e \in checkout[c].items : equipment[e] \in expected }
    IN  /\ equipment' = [e \in Equipment |->
               IF e \in updated THEN status ELSE equipment[e]]
        /\ was' = [e \in Equipment |->
               IF e \in updated THEN equipment[e] ELSE was[e]]

KeepsEquipment == UNCHANGED <<equipment, was>>

Approve(r) ==
    /\ updateWithVersion(r, "approve", [Row(r) EXCEPT !.status = "approved"])
    /\ Close(r)
    /\ KeepsEquipment

BorrowerApprove(r) ==
    /\ updateWithVersion(r, "borrower_approve",
           [Row(r) EXCEPT !.status = "borrower_approved"])
    /\ Close(r)
    /\ KeepsEquipment

\* Rejections and cancellations record the status the handler loaded.
BorrowerReject(r) ==
    /\ updateWithVersion(r, "borrower_reject",
           [Row(r) EXCEPT !.status = "rejected",
                          !.terminatedFromStatus = request[r].row.status])
    /\ Close(r)
    /\ KeepsEquipment

Reject(r) ==
    /\ updateWithVersion(r, "reject",
           [Row(r) EXCEPT !.status = "rejected",
                          !.terminatedFromStatus = request[r].row.status])
    /\ Close(r)
    /\ KeepsEquipment

Start(r) ==
    /\ updateWithVersion(r, "start", [Row(r) EXCEPT !.status = "checked_out"])
    /\ updateStatusBatch(request[r].checkout, EquipmentStatuses, "checked_out")
    /\ Close(r)

\* Mutant: equipment is available again before its return is approved.
SubmitReturn_RestoresEquipment(r) ==
    LET rental == Row(r).purpose = "rental"
    IN  /\ updateWithVersion(r, "submit_return",
               [Row(r) EXCEPT
                   !.status = IF rental THEN "return_approved" ELSE "returned",
                   !.inspected = rental => Row(r).checks # {}])
        /\ Close(r)
        /\ updateStatusBatch(request[r].checkout, {"checked_out"}, "available")

\* Returning a rental is also its final approval: its condition checks were
\* the inspection.  Any other return carries the inspection the form requires.
SubmitReturn(r) ==
    LET rental == Row(r).purpose = "rental"
    IN  /\ updateWithVersion(r, "submit_return",
               [Row(r) EXCEPT
                   !.status = IF rental THEN "return_approved" ELSE "returned",
                   !.inspected = rental => Row(r).checks # {}])
        /\ Close(r)
        /\ KeepsEquipment

ApproveReturn(r) ==
    /\ updateWithVersion(r, "approve_return",
           [Row(r) EXCEPT !.status = "return_approved"])
    /\ updateStatusBatch(request[r].checkout, {"checked_out"}, "available")
    /\ CloseReturn(r, "completed")

\* Back to the borrower, or to the calibration or repair shop, with the
\* inspection void.
RejectReturn(r) ==
    LET rental == Row(r).purpose = "rental"
    IN  /\ updateWithVersion(r, "reject_return",
               [Row(r) EXCEPT !.status = IF rental THEN "in_use" ELSE "checked_out",
                              !.inspected = FALSE])
        /\ IF rental
           THEN updateStatusBatch(request[r].checkout, {"available"}, "checked_out")
           ELSE KeepsEquipment
        /\ Close(r)

Cancel(r) ==
    /\ updateWithVersion(r, "cancel",
           [Row(r) EXCEPT !.status = "canceled",
                          !.terminatedFromStatus = request[r].row.status])
    /\ CloseReturn(r, "canceled")
    /\ KeepsEquipment

\* A condition check of a rental and the step it makes.
SubmitConditionCheck(r, step) ==
    /\ updateWithVersion(r, step,
           [Row(r) EXCEPT !.status = stepTransitions[step].nextStatus,
                          !.checks = @ \cup {step}])
    /\ CASE step = "lender_checkout" ->
                updateStatusBatch(request[r].checkout, EquipmentStatuses, "checked_out")
         [] step = "lender_return" ->
                updateStatusBatch(request[r].checkout, EquipmentStatuses, "available")
         [] OTHER -> KeepsEquipment
    /\ Close(r)

\* An edit of the request form; it may set a later return date.
Update(r) ==
    /\ \/ updateWithVersion(r, "update", Row(r))
       \/ updateWithVersion(r, "update", [Row(r) EXCEPT !.pastDue = FALSE])
    /\ Close(r)
    /\ KeepsEquipment

RevokeApproval(r) ==
    /\ updateWithVersion(r, "revoke", [Row(r) EXCEPT !.status = "pending"])
    /\ Close(r)
    /\ KeepsEquipment

\* The version has moved on: 409, and the cached row is dropped.
Conflict(r) ==
    /\ request[r].phase = "loaded"
    /\ request[r].version # Row(r).version
    /\ cache' = [cache EXCEPT ![request[r].checkout] = NoSnapshot]
    /\ request' = [request EXCEPT ![r] = Idle]
    /\ UNCHANGED <<checkout, equipment, importEvents, fill, was, owed>>

\* The event to the imports module, sent between commit and invalidation.
Announce(r) ==
    /\ request[r].phase = "announcing"
    /\ importEvents' = [importEvents EXCEPT ![request[r].checkout] =
           @ \cup {request[r].event}]
    /\ Close(r)
    /\ UNCHANGED <<checkout, equipment, cache, fill, was, owed>>

invalidateCache(r) ==
    /\ request[r].phase = "closing"
    /\ cache' = [cache EXCEPT ![request[r].checkout] = NoSnapshot]
    /\ request' = [request EXCEPT ![r] = Idle]
    /\ UNCHANGED <<checkout, equipment, importEvents, fill, was, owed>>

\* A check on the input, the team or the approval window refuses the request
\* or a query fails.  After a commit this is the query for the affected teams,
\* and then the cached row stays.
Fail(r) ==
    /\ request[r].phase \in {"checked", "loaded", "closing"}
    /\ request' = [request EXCEPT ![r] = Idle]
    /\ UNCHANGED <<checkout, equipment, importEvents, cache, fill, was, owed>>

-----------------------------------------------------------------------------
(* The scheduler, time and restarts *)

\* Nothing reads the return date of a row that is not checked out.
DueDatePasses(c) ==
    /\ checkout[c].status = "checked_out"
    /\ ~checkout[c].pastDue
    /\ checkout' = [checkout EXCEPT ![c].pastDue = TRUE]
    /\ UNCHANGED <<equipment, importEvents, cache, fill, was, request, owed>>

\* Mutants: the version left alone; the filter on the status of a rental.
CheckOverdueCheckouts_KeepsVersion ==
    LET late == { c \in Checkouts :
                      checkout[c].status = "checked_out" /\ checkout[c].pastDue }
    IN  /\ late # {}
        /\ checkout' = [c \in Checkouts |->
               IF c \in late THEN [checkout[c] EXCEPT !.status = "overdue"]
                             ELSE checkout[c]]
        /\ owed' = owed \cup late
        /\ UNCHANGED <<equipment, importEvents, cache, fill, was, request>>

CheckOverdueCheckouts_InUse ==
    LET late == { c \in Checkouts :
                      checkout[c].status = "in_use" /\ checkout[c].pastDue }
    IN  /\ late # {}
        /\ checkout' = [c \in Checkouts |->
               IF c \in late
               THEN [checkout[c] EXCEPT !.status = "overdue", !.version = @ + 1]
               ELSE checkout[c]]
        /\ owed' = owed \cup late
        /\ UNCHANGED <<equipment, importEvents, cache, fill, was, request>>

\* One UPDATE for all rows that are late, version included.
CheckOverdueCheckouts ==
    LET late == { c \in Checkouts :
                      checkout[c].status = "checked_out" /\ checkout[c].pastDue }
    IN  /\ late # {}
        /\ checkout' = [c \in Checkouts |->
               IF c \in late
               THEN [checkout[c] EXCEPT !.status = "overdue", !.version = @ + 1]
               ELSE checkout[c]]
        /\ owed' = owed \cup late
        /\ UNCHANGED <<equipment, importEvents, cache, fill, was, request>>

\* Then row by row: the cached row is dropped, unless that row's turn fails.
InvalidateOverdue(c) ==
    /\ c \in owed
    /\ cache' \in {cache, [cache EXCEPT ![c] = NoSnapshot]}
    /\ owed' = owed \ {c}
    /\ UNCHANGED <<checkout, equipment, importEvents, fill, was, request>>

\* The process restarts: the database keeps what was committed.
Restart ==
    /\ cache' = [c \in Checkouts |-> NoSnapshot]
    /\ fill' = [c \in Checkouts |-> NoSnapshot]
    /\ was' = equipment
    /\ request' = [r \in Requests |-> Idle]
    /\ owed' = {}
    /\ UNCHANGED <<checkout, equipment, importEvents>>

-----------------------------------------------------------------------------

Commit(r) ==
    \/ Approve(r)
    \/ BorrowerApprove(r)
    \/ BorrowerReject(r)
    \/ Reject(r)
    \/ Start(r)
    \/ SubmitReturn(r)
    \/ ApproveReturn(r)
    \/ RejectReturn(r)
    \/ Cancel(r)
    \/ \E step \in Steps : SubmitConditionCheck(r, step)
    \/ Update(r)
    \/ RevokeApproval(r)

RequestStep(r) ==
    \/ \E c \in Checkouts : CreateCheck(r, c)
    \/ CreateInsert(r)
    \/ \E c \in Checkouts, op \in Operations : Load(r, c, op)
    \/ Commit(r)
    \/ Conflict(r)
    \/ Announce(r)
    \/ invalidateCache(r)
    \/ Fail(r)

Next ==
    \/ \E r \in Requests : RequestStep(r)
    \/ \E c \in Checkouts :
           ReadRow(c) \/ StoreRow(c) \/ Evict(c) \/ DueDatePasses(c)
             \/ InvalidateOverdue(c)
    \/ CheckOverdueCheckouts
    \/ Restart

Spec == Init /\ [][Next]_vars

\* The scheduler runs every hour and works through the rows it marked, and a
\* handler that has started runs to its end.
Fairness ==
    /\ WF_vars(CheckOverdueCheckouts)
    /\ \A c \in Checkouts : WF_vars(InvalidateOverdue(c)) /\ WF_vars(StoreRow(c))
    /\ \A r \in Requests :
           WF_vars(Commit(r) \/ Conflict(r) \/ Announce(r) \/ invalidateCache(r))

LiveSpec == Spec /\ Fairness

-----------------------------------------------------------------------------
(* Properties that hold whatever version a client sends *)

Agrees(s, c) ==
    /\ s.version <= checkout[c].version
    /\ s.version = checkout[c].version => s.status = checkout[c].status

\* A snapshot of a row, cached, being read or in the hands of a handler, is the
\* row itself or has an older version: two statuses of a row never share a
\* version, so a handler that commits with the version of its own snapshot has
\* checked the status it leaves.  Every writer, the scheduler included, must
\* raise the version for this.
SnapshotsAgree ==
    /\ \A c \in Checkouts : Agrees(cache[c], c) /\ Agrees(fill[c], c)
    /\ \A r \in Requests :
           request[r].phase = "loaded" => Agrees(request[r].row, request[r].checkout)

RentalStatuses ==
    {"borrower_approved", "lender_checked", "in_use", "borrower_returned",
     "lender_received"}

ShopStatuses == {"checked_out", "overdue", "returned"}

StatusFits(status, purpose) ==
    /\ purpose = "rental" => status \notin ShopStatuses
    /\ purpose # "rental" => status \notin RentalStatuses

\* A rental never enters a status of the calibration and repair flow, nor the
\* other way round, even when its handler checked a status long gone.
StatusFitsPurpose ==
    \A c \in Checkouts : StatusFits(checkout[c].status, checkout[c].purpose)

-----------------------------------------------------------------------------
(* Properties of clients that send the version of the detail they act on *)

\* Every change of a row's status is a rule of the table for its purpose, save
\* for the three that are none by design: the insert, the overdue mark and the
\* revocation of an approval.
StatusFollowsTable ==
    [][\A c \in Checkouts :
           LET from == checkout[c].status
               to   == checkout'[c].status
           IN  from # to => \/ from = "none" /\ to = "pending"
                            \/ from = "checked_out" /\ to = "overdue"
                            \/ from = "approved" /\ to = "pending"
                            \/ HasRule(from, to, checkout[c].purpose)]_vars

\* The status recorded by a rejection or a cancellation is the one the row had
\* just before it.
TerminationRecorded ==
    [][\A c \in Checkouts :
           /\ checkout'[c].status \in {"rejected", "canceled"}
           /\ checkout[c].status # checkout'[c].status
           => checkout'[c].terminatedFromStatus = checkout[c].status]_vars

\* A return waits for its approval only with an inspection on record, and is
\* approved only with one; a rental also with its four condition checks.
ReturnInspected ==
    \A c \in Checkouts :
        /\ checkout[c].status \in {"returned", "return_approved"} =>
               checkout[c].inspected
        /\ checkout[c].status = "return_approved" /\ checkout[c].purpose = "rental" =>
               checkout[c].checks = Steps

\* The imports module is told of the end of a return to the vendor only when
\* it has ended that way, so never of both ends.
ImportEventsMatch ==
    \A c \in Checkouts :
        /\ "completed" \in importEvents[c] =>
               /\ checkout[c].purpose = "return_to_vendor"
               /\ checkout[c].status = "return_approved"
        /\ "canceled" \in importEvents[c] =>
               /\ checkout[c].purpose = "return_to_vendor"
               /\ checkout[c].status = "canceled"

-----------------------------------------------------------------------------
(* Properties of equipment, as long as no two checkouts claim the same *)

\* The statuses in which a checkout still has a claim to its equipment.
Claiming == Statuses \ TERMINAL_STATES

\* No equipment is in two checkouts that are still in progress: what the check
\* of create is there for.
NoDoubleBooking ==
    \A c, d \in Checkouts :
        /\ c # d
        /\ checkout[c].status \in Claiming
        /\ checkout[d].status \in Claiming
        => checkout[c].items \cap checkout[d].items = {}

\* What the check of create does not see: another creation for the same
\* equipment that has not inserted its row yet, and a rental that its borrower
\* has approved, for create does not look for this status.
CreationsApart ==
    \A r \in Requests : request[r].phase = "checked" =>
        /\ \A q \in Requests \ {r} :
               request[q].phase = "checked" => request[q].items \cap request[r].items = {}
        /\ \A c \in Checkouts :
               checkout[c].status = "borrower_approved" =>
                   checkout[c].items \cap request[r].items = {}

\* The statuses in which a checkout has its equipment.
Away ==
    {"checked_out", "overdue", "returned", "lender_checked", "in_use",
     "borrower_returned"}

\* Equipment is marked checked out exactly while a checkout has it.  The rows
\* are written by different transactions of different checkouts, two of them
\* without looking at the status they overwrite.
EquipmentFollowsCheckout ==
    \A e \in Equipment : equipment[e] = "checked_out" <=> Active(e, Away) # {}

\* How far the equipment of a checkout has come, by the status of the row.
stageOf ==
    [ none              |-> "none",    pending           |-> "asked",
      borrower_approved |-> "asked",   approved          |-> "agreed",
      checked_out       |-> "out",     overdue           |-> "out",
      returned          |-> "out",     lender_checked    |-> "out",
      in_use            |-> "out",     borrower_returned |-> "out",
      lender_received   |-> "back",    return_approved   |-> "settled",
      rejected          |-> "refused", canceled          |-> "refused" ]

Promise == INSTANCE Custody WITH
    stage <- [c \in Checkouts |-> stageOf[checkout[c].status]],
    claim <- [c \in Checkouts |-> checkout[c].items],
    away  <- { e \in Equipment : equipment[e] = "checked_out" }

\* The service keeps the promise of Custody: equipment is handed over only for
\* an agreed checkout while nobody else has it, is away until that checkout
\* hands it back, and is not touched by requests that are refused.
KeepsPromise == Promise!Spec

-----------------------------------------------------------------------------
(* What the code says of its cache *)

\* Once a handler has dropped the cached row, nothing older than what it wrote
\* can be read any more: no fill that began before the commit is still to be
\* stored.
InvalidationIsFinal ==
    [][\A r \in Requests :
           invalidateCache(r) =>
               fill[request[r].checkout] \in
                   {NoSnapshot, Snapshot(request[r].checkout)}]_vars

-----------------------------------------------------------------------------
(* Liveness *)

\* A checkout that is checked out past its return date does not stay so: the
\* scheduler marks it, also when it was sent back to the shop after a rejected
\* return, and whatever restarts come in between.
LateIsNoticed ==
    \A c \in Checkouts :
        (checkout[c].status = "checked_out" /\ checkout[c].pastDue)
            ~> checkout[c].status # "checked_out"

=============================================================================
