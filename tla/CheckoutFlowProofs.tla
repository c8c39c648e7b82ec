-------------------------- MODULE CheckoutFlowProofs --------------------------
(***************************************************************************)
(* Proofs about the statuses of a checkout.  What holds whatever version a *)
(* client sends comes first; the rest assumes that clients send the        *)
(* version of the detail they act on, so that the compare-and-set of a     *)
(* commit also confirms the status its handler checked.                    *)
(***************************************************************************)
EXTENDS CheckoutProofs

-----------------------------------------------------------------------------
(* What the checks of a handler say of the purpose *)

\* The operations that belong to one of the two flows.
LEMMA PermittedPurpose ==
    ASSUME NEW op, NEW status, NEW purpose, Permits(op, status, purpose)
    PROVE  /\ op \in Steps \cup {"borrower_approve"} => purpose = "rental"
           /\ op \in {"start", "approve_return"} => purpose # "rental"
           /\ op \in Operations
<1>1. op \in Steps => op \notin FsmOperations \cup {"update", "revoke"}
  BY StepSet DEF FsmOperations
<1>2. op \in Steps => purpose = "rental"
  BY <1>1 DEF Permits
<1>3. op \in {"borrower_approve", "start", "approve_return"} =>
          op \notin Steps /\ CanPerformAction(status, purpose, op)
  BY StepSet DEF Permits
<1>4. op = "borrower_approve" => purpose = "rental"
  BY <1>3 DEF CanPerformAction, CHECKOUT_TRANSITIONS, Rule, RENTAL, CAL_REPAIR, Purposes
<1>5. op \in {"start", "approve_return"} => purpose # "rental"
  BY <1>3 DEF CanPerformAction, CHECKOUT_TRANSITIONS, Rule, RENTAL, CAL_REPAIR, Purposes
<1>6. op \in Operations
  BY DEF Permits, Operations, FsmOperations
<1> QED
  BY <1>2, <1>4, <1>5, <1>6

\* Whatever status a committed operation finds, it leaves one of the same flow.
LEMMA NewStatusFits ==
    ASSUME NEW op, NEW status, NEW row, StatusFits(row.status, row.purpose),
           Permits(op, status, row.purpose)
    PROVE  StatusFits(NewStatus(op, row), row.purpose)
<1>1. CASE op \in Steps
  <2>1. row.purpose = "rental"
    BY <1>1, PermittedPurpose
  <2>2. stepTransitions[op].nextStatus \notin ShopStatuses
    BY <1>1 DEF Steps, stepTransitions, ShopStatuses
  <2> QED
    BY <1>1, <2>1, <2>2 DEF NewStatus, StatusFits
<1>2. CASE op \notin Steps
  <2>1. op \in FsmOperations \cup {"update", "revoke"}
    BY <1>2 DEF Permits
  <2>2. op = "borrower_approve" => row.purpose = "rental"
    BY PermittedPurpose
  <2>3. op = "start" => row.purpose # "rental"
    BY PermittedPurpose
  <2> QED
    BY <1>2, <2>1, <2>2, <2>3
       DEF NewStatus, StatusFits, FsmOperations, ShopStatuses, RentalStatuses
<1> QED
  BY <1>1, <1>2

-----------------------------------------------------------------------------
(* A status of the right flow, whatever version a client sends *)

\* A request has loaded a row that exists and was allowed its operation.
LoadedPermitted ==
    \A r \in Requests :
        request[r].phase = "loaded" =>
            /\ checkout[request[r].checkout] # NoRow
            /\ Permits(request[r].op, request[r].row.status,
                       checkout[request[r].checkout].purpose)

FlowInv == VersionInv /\ LoadedPermitted /\ StatusFitsPurpose

\* A row that exists goes on existing, with its purpose.
LEMMA RowStays ==
    ASSUME VersionInv, [Next]_vars, NEW c \in Checkouts, checkout[c] # NoRow
    PROVE  /\ checkout'[c] # NoRow
           /\ checkout'[c].purpose = checkout[c].purpose
<1>1. RowMoves(c) /\ checkout[c] \in Rows
  BY RowStep DEF VersionInv, TypeOK
<1>2. CASE checkout[c].version = 0
  BY <1>2 DEF VersionInv, RowsExist
<1>3. CASE checkout[c].version # 0
  <2>1. checkout'[c].version # 0
    BY <1>1, <1>3 DEF RowMoves, Rows
  <2> QED
    BY <1>1, <2>1 DEF RowMoves, NoRow
<1> QED
  BY <1>2, <1>3

LEMMA LoadedPermittedStep ==
    ASSUME VersionInv, LoadedPermitted, [Next]_vars
    PROVE  LoadedPermitted'
<1> SUFFICES ASSUME NEW r \in Requests, request'[r].phase = "loaded"
             PROVE  /\ checkout'[request'[r].checkout] # NoRow
                    /\ Permits(request'[r].op, request'[r].row.status,
                               checkout'[request'[r].checkout].purpose)
  BY DEF LoadedPermitted, Permits, CanPerformAction
<1>1. CASE request'[r] = request[r]
  <2>1. request[r].checkout \in Checkouts
    BY <1>1, RequestShapes DEF VersionInv
  <2> QED
    BY <1>1, <2>1, RowStays DEF LoadedPermitted
<1>2. ASSUME NEW c \in Checkouts, NEW op \in Operations, Load(r, c, op)
      PROVE  /\ checkout'[request'[r].checkout] # NoRow
             /\ Permits(request'[r].op, request'[r].row.status,
                        checkout'[request'[r].checkout].purpose)
  <2>1. /\ request'[r].checkout = c /\ request'[r].row = cache[c]
        /\ request'[r].op = op /\ checkout' = checkout
        /\ cache[c] # NoSnapshot /\ Permits(op, cache[c].status, checkout[c].purpose)
    BY <1>2 DEF Load, VersionInv, TypeOK
  <2>2. checkout[c] # NoRow
    BY <2>1, NoSnapshotOfNoRow DEF VersionInv, SnapshotsAgree, TypeOK
  <2> QED
    BY <2>1, <2>2
<1> QED
  BY <1>1, <1>2, LoadedOrigins DEF VersionInv

LEMMA StatusFitsStep ==
    ASSUME FlowInv, [Next]_vars
    PROVE  StatusFitsPurpose'
<1> SUFFICES ASSUME NEW c \in Checkouts
             PROVE  StatusFits(checkout'[c].status, checkout'[c].purpose)
  BY DEF StatusFitsPurpose, StatusFits
<1>1. /\ checkout[c] \in Rows
      /\ StatusFits(checkout[c].status, checkout[c].purpose)
  BY DEF FlowInv, VersionInv, TypeOK, StatusFitsPurpose
<1>2. CASE checkout'[c] = checkout[c]
  BY <1>1, <1>2
<1>3. CASE Inserted(c)
  BY <1>3 DEF Inserted, StatusFits, ShopStatuses, RentalStatuses
<1>4. CASE Committed(c)
  <2>1. PICK r \in Requests : request[r].checkout = c /\ CommitShape(r)
    BY <1>4 DEF Committed
  <2>2. /\ Permits(request[r].op, request[r].row.status, checkout[c].purpose)
        /\ checkout'[c].status = NewStatus(request[r].op, checkout[c])
        /\ checkout'[c].purpose = checkout[c].purpose
    BY <2>1 DEF CommitShape, Follows, FlowInv, LoadedPermitted
  <2> QED
    BY <1>1, <2>2, NewStatusFits
<1>5. CASE DueDatePassed(c)
  BY <1>1, <1>5 DEF DueDatePassed, Rows
<1>6. CASE MarkedOverdue(c)
  <2>1. checkout[c].purpose # "rental"
    BY <1>1, <1>6 DEF MarkedOverdue, StatusFits, ShopStatuses
  <2>2. checkout'[c].purpose = checkout[c].purpose /\ checkout'[c].status = "overdue"
    BY <1>1, <1>6 DEF MarkedOverdue, Rows
  <2> QED
    BY <2>1, <2>2 DEF StatusFits, RentalStatuses
<1> QED
  BY <1>2, <1>3, <1>4, <1>5, <1>6, RowChanges DEF FlowInv, VersionInv

LEMMA FlowInitially == Init => FlowInv
<1> SUFFICES ASSUME Init
             PROVE  FlowInv
  OBVIOUS
<1>1. LoadedPermitted
  BY DEF Init, LoadedPermitted, Idle
<1>2. StatusFitsPurpose
  BY DEF Init, StatusFitsPurpose, StatusFits, NoRow, ShopStatuses, RentalStatuses
<1> QED
  BY <1>1, <1>2, VersionsInitially DEF FlowInv

LEMMA FlowStep == FlowInv /\ [Next]_vars => FlowInv'
BY VersionsStep, LoadedPermittedStep, StatusFitsStep DEF FlowInv

LEMMA FlowInvariant == Spec => []FlowInv
BY FlowInitially, FlowStep, PTL DEF Spec

\* A rental never enters a status of the calibration and repair flow, nor the
\* other way round: an operation of one flow is refused to a checkout of the
\* other by its purpose, which never changes, however old the checked status.
THEOREM FlowsStayApart == Spec => []StatusFitsPurpose
<1>1. FlowInv => StatusFitsPurpose
  BY DEF FlowInv
<1> QED
  BY <1>1, FlowInvariant, PTL

-----------------------------------------------------------------------------
(* Clients that send the version of the detail they act on *)

FreshClients ==
    \A r \in Requests :
        request[r].phase = "loaded" => request[r].version = request[r].row.version

FreshInv == FlowInv /\ FreshClients

LEMMA FreshClientsStep ==
    ASSUME ClientVersions = FALSE, TypeOK, FreshClients, [Next]_vars
    PROVE  FreshClients'
<1> SUFFICES ASSUME NEW r \in Requests, request'[r].phase = "loaded"
             PROVE  request'[r].version = request'[r].row.version
  BY DEF FreshClients
<1>1. CASE request'[r] = request[r]
  BY <1>1 DEF FreshClients
<1>2. ASSUME NEW c \in Checkouts, NEW op \in Operations, Load(r, c, op)
      PROVE  request'[r].version = request'[r].row.version
  BY <1>2 DEF Load, TypeOK
<1> QED
  BY <1>1, <1>2, LoadedOrigins

LEMMA FreshInvariant ==
    ASSUME ClientVersions = FALSE
    PROVE  Spec => []FreshInv
<1>1. Init => FreshInv
  BY FlowInitially DEF Init, FreshInv, FreshClients, Idle
<1>2. FreshInv /\ [Next]_vars => FreshInv'
  BY FlowStep, FreshClientsStep DEF FreshInv, FlowInv, VersionInv
<1> QED
  BY <1>1, <1>2, PTL DEF Spec

\* Then the compare-and-set confirms the status the handler loaded.
LEMMA StatusConfirmed ==
    ASSUME FreshInv, NEW r \in Requests, CommitShape(r)
    PROVE  LET old == checkout[request[r].checkout]
           IN  /\ request[r].row.status = old.status
               /\ Permits(request[r].op, old.status, old.purpose)
<1> DEFINE c == request[r].checkout
<1>1. request[r].version = checkout[c].version /\ request[r].phase = "loaded"
  BY DEF CommitShape
<1>2. request[r].row.version = checkout[c].version
  BY <1>1 DEF FreshInv, FreshClients
<1>3. request[r].row.status = checkout[c].status
  BY <1>1, <1>2 DEF FreshInv, FlowInv, VersionInv, SnapshotsAgree, Agrees
<1> QED
  BY <1>1, <1>3 DEF FreshInv, FlowInv, LoadedPermitted

\* A permitted operation leads along a rule of the table, unless it is the
\* revocation of an approval or leaves the status alone.
LEMMA PermittedByTable ==
    ASSUME NEW op, NEW row \in Rows, Permits(op, row.status, row.purpose),
           StatusFits(row.status, row.purpose)
    PROVE  \/ NewStatus(op, row) = row.status
           \/ op = "revoke" /\ row.status = "approved" /\ NewStatus(op, row) = "pending"
           \/ HasRule(row.status, NewStatus(op, row), row.purpose)
<1>1. CASE op \in Steps
  <2>1. /\ row.purpose = "rental"
        /\ row.status = stepTransitions[op].requiredStatus
        /\ NewStatus(op, row) = stepTransitions[op].nextStatus
    BY <1>1, PermittedPurpose, StepSet DEF Permits, FsmOperations, NewStatus
  <2>2. \E t \in CHECKOUT_TRANSITIONS :
            /\ t.from = stepTransitions[op].requiredStatus
            /\ t.to = stepTransitions[op].nextStatus
            /\ "rental" \in t.purposes
    <3>1. CASE op = "lender_checkout"
      BY <3>1 DEF stepTransitions, CHECKOUT_TRANSITIONS, Rule, RENTAL
    <3>2. CASE op = "borrower_receive"
      BY <3>2 DEF stepTransitions, CHECKOUT_TRANSITIONS, Rule, RENTAL
    <3>3. CASE op = "borrower_return"
      BY <3>3 DEF stepTransitions, CHECKOUT_TRANSITIONS, Rule, RENTAL
    <3>4. CASE op = "lender_return"
      BY <3>4 DEF stepTransitions, CHECKOUT_TRANSITIONS, Rule, RENTAL
    <3> QED
      BY <1>1, <3>1, <3>2, <3>3, <3>4, StepSet
  <2> QED
    BY <2>1, <2>2 DEF HasRule
<1>2. CASE op \in FsmOperations
  <2>1. PICK t \in CHECKOUT_TRANSITIONS :
            t.from = row.status /\ t.action = op /\ row.purpose \in t.purposes
    <3>1. op \notin Steps /\ op # "update" /\ op # "revoke"
      BY <1>2, StepSet DEF FsmOperations
    <3> QED
      BY <3>1 DEF Permits, CanPerformAction
  <2>2. op \notin Steps
    BY <1>2, StepSet DEF FsmOperations
  <2>3. ~(row.purpose = "rental" /\ row.status = "overdue")
    BY DEF StatusFits, ShopStatuses
  <2>4. t.to = NewStatus(op, row)
    BY <1>2, <2>1, <2>2, <2>3
       DEF CHECKOUT_TRANSITIONS, Rule, NewStatus, FsmOperations, RENTAL, CAL_REPAIR,
           Purposes
  <2> QED
    BY <2>1, <2>4 DEF HasRule
<1>3. CASE op = "update" \/ op = "revoke"
  BY <1>3, StepSet DEF NewStatus, Permits, FsmOperations
<1> QED
  BY <1>1, <1>2, <1>3 DEF Permits

LEMMA TableStep ==
    ASSUME FreshInv, [Next]_vars, NEW c \in Checkouts
    PROVE  LET from == checkout[c].status
               to   == checkout'[c].status
           IN  from # to => \/ from = "none" /\ to = "pending"
                            \/ from = "checked_out" /\ to = "overdue"
                            \/ from = "approved" /\ to = "pending"
                            \/ HasRule(from, to, checkout[c].purpose)
<1>1. checkout[c] \in Rows
  BY DEF FreshInv, FlowInv, VersionInv, TypeOK
<1>2. CASE Inserted(c)
  BY <1>2 DEF Inserted, NoRow
<1>3. CASE Committed(c)
  <2>1. PICK r \in Requests : request[r].checkout = c /\ CommitShape(r)
    BY <1>3 DEF Committed
  <2>2. Permits(request[r].op, checkout[c].status, checkout[c].purpose)
    BY <2>1, StatusConfirmed
  <2>3. checkout'[c].status = NewStatus(request[r].op, checkout[c])
    BY <2>1 DEF CommitShape, Follows
  <2>4. StatusFits(checkout[c].status, checkout[c].purpose)
    BY DEF FreshInv, FlowInv, StatusFitsPurpose
  <2> QED
    BY <1>1, <2>2, <2>3, <2>4, PermittedByTable
<1>4. CASE DueDatePassed(c)
  BY <1>1, <1>4 DEF DueDatePassed, Rows
<1>5. CASE MarkedOverdue(c)
  BY <1>1, <1>5 DEF MarkedOverdue, Rows
<1> QED
  BY <1>2, <1>3, <1>4, <1>5, RowChanges DEF FreshInv, FlowInv, VersionInv

\* Every status a row takes is one the table, the insert, the overdue mark or
\* a revocation leads to from the status it leaves, although a handler asks
\* the table about the status it loaded and not about the one it overwrites.
THEOREM TableFollowed ==
    ASSUME ClientVersions = FALSE
    PROVE  Spec => StatusFollowsTable
<1>1. FreshInv /\ [Next]_vars =>
          \A c \in Checkouts :
              LET from == checkout[c].status
                  to   == checkout'[c].status
              IN  from # to => \/ from = "none" /\ to = "pending"
                               \/ from = "checked_out" /\ to = "overdue"
                               \/ from = "approved" /\ to = "pending"
                               \/ HasRule(from, to, checkout[c].purpose)
  BY TableStep
<1> QED
  BY <1>1, FreshInvariant, PTL DEF Spec, StatusFollowsTable

LEMMA TerminationStep ==
    ASSUME FreshInv, [Next]_vars, NEW c \in Checkouts,
           checkout'[c].status \in {"rejected", "canceled"},
           checkout[c].status # checkout'[c].status
    PROVE  checkout'[c].terminatedFromStatus = checkout[c].status
<1>1. checkout[c] \in Rows
  BY DEF FreshInv, FlowInv, VersionInv, TypeOK
<1>2. ~Inserted(c) /\ ~DueDatePassed(c) /\ ~MarkedOverdue(c)
  BY <1>1 DEF Inserted, DueDatePassed, MarkedOverdue, Rows
<1>3. PICK r \in Requests : request[r].checkout = c /\ CommitShape(r)
  BY <1>2, RowChanges DEF FreshInv, FlowInv, VersionInv, Committed
<1> DEFINE op == request[r].op
<1>4. /\ Permits(op, checkout[c].status, checkout[c].purpose)
      /\ request[r].row.status = checkout[c].status
  BY <1>3, StatusConfirmed
<1>5. op \in FsmOperations \cup Steps \cup {"update", "revoke"}
  BY <1>4 DEF Permits
<1>6. Follows(op, checkout[c].status, checkout[c], checkout'[c])
  BY <1>3, <1>4 DEF CommitShape
<1>7. op \notin Steps
  <2>1. op \in Steps => stepTransitions[op].nextStatus \notin {"rejected", "canceled"}
    BY DEF Steps, stepTransitions
  <2> QED
    BY <1>6, <2>1 DEF Follows, NewStatus
<1>8. op \in {"borrower_reject", "reject", "cancel"}
  BY <1>5, <1>6, <1>7 DEF Follows, NewStatus, FsmOperations
<1> QED
  BY <1>6, <1>8 DEF Follows

\* A rejection or a cancellation records the status the row really had, not
\* merely the one the handler happened to find in the cache.
THEOREM TerminationsRecorded ==
    ASSUME ClientVersions = FALSE
    PROVE  Spec => TerminationRecorded
<1>1. FreshInv /\ [Next]_vars =>
          \A c \in Checkouts :
              /\ checkout'[c].status \in {"rejected", "canceled"}
              /\ checkout[c].status # checkout'[c].status
              => checkout'[c].terminatedFromStatus = checkout[c].status
  BY TerminationStep
<1> QED
  BY <1>1, FreshInvariant, PTL DEF Spec, TerminationRecorded

-----------------------------------------------------------------------------
(* No return without its inspection *)

\* The condition checks a rental has behind it in each status; a return that
\* is waiting for its approval, or has it, has been inspected.
Evidenced(row) ==
    /\ row.status \in {"returned", "return_approved"} => row.inspected
    /\ row.purpose = "rental" =>
           /\ row.status \in {"lender_checked", "in_use", "borrower_returned",
                              "lender_received", "return_approved"} =>
                  "lender_checkout" \in row.checks
           /\ row.status \in {"in_use", "borrower_returned", "lender_received",
                              "return_approved"} => "borrower_receive" \in row.checks
           /\ row.status \in {"borrower_returned", "lender_received",
                              "return_approved"} => "borrower_return" \in row.checks
           /\ row.status \in {"lender_received", "return_approved"} =>
                  "lender_return" \in row.checks

EvidenceInv == FreshInv /\ \A c \in Checkouts : Evidenced(checkout[c])

\* The statuses of which Evidenced speaks are entered by four operations and
\* the condition checks.
LEMMA OtherOperations ==
    ASSUME NEW op \in {"approve", "borrower_approve", "borrower_reject", "reject",
                       "start", "cancel", "revoke", "update"},
           NEW row, Permits(op, row.status, row.purpose)
    PROVE  NewStatus(op, row) \notin
               {"returned", "return_approved", "lender_checked", "in_use",
                "borrower_returned", "lender_received"}
<1>1. op \notin Steps
  BY StepSet
<1>2. CASE op = "update"
  BY <1>1, <1>2 DEF NewStatus, Permits, FsmOperations
<1>3. CASE op # "update"
  BY <1>1, <1>3 DEF NewStatus
<1> QED
  BY <1>2, <1>3

LEMMA EvidenceKept ==
    ASSUME NEW op, NEW loaded, NEW old \in Rows, NEW new \in Rows,
           Evidenced(old), StatusFits(old.status, old.purpose),
           Permits(op, old.status, old.purpose), Follows(op, loaded, old, new)
    PROVE  Evidenced(new)
<1>1. op \in FsmOperations \cup Steps \cup {"update", "revoke"}
  BY DEF Permits
<1>2. CASE op \in Steps
  <2>1. /\ old.status = stepTransitions[op].requiredStatus
        /\ new.status = stepTransitions[op].nextStatus
        /\ new.checks = old.checks \cup {op}
    BY <1>2, StepSet DEF Permits, FsmOperations, Follows, NewStatus
  <2>2. new.purpose = old.purpose
    BY DEF Follows
  <2>3. CASE op = "lender_checkout"
    BY <2>1, <2>2, <2>3 DEF stepTransitions, Evidenced
  <2>4. CASE op = "borrower_receive"
    BY <2>1, <2>2, <2>4 DEF stepTransitions, Evidenced
  <2>5. CASE op = "borrower_return"
    BY <2>1, <2>2, <2>5 DEF stepTransitions, Evidenced
  <2>6. CASE op = "lender_return"
    BY <2>1, <2>2, <2>6 DEF stepTransitions, Evidenced
  <2> QED
    BY <1>2, <2>3, <2>4, <2>5, <2>6, StepSet
<1>3. CASE op = "submit_return"
  <2>1. op \notin Steps
    BY <1>3, StepSet
  <2>2. /\ new.purpose = old.purpose /\ new.checks = old.checks
        /\ new.status = IF old.purpose = "rental" THEN "return_approved" ELSE "returned"
        /\ new.inspected = (old.purpose = "rental" => old.checks # {})
    BY <1>3, <2>1 DEF Follows, NewStatus
  <2>3. old.purpose = "rental" => old.status = "lender_received"
    <3>1. CanPerformAction(old.status, old.purpose, "submit_return")
      BY <1>3, <2>1 DEF Permits
    <3> QED
      BY <3>1
         DEF CanPerformAction, CHECKOUT_TRANSITIONS, Rule, RENTAL, CAL_REPAIR,
             StatusFits, ShopStatuses
  <2>4. old.purpose = "rental" => old.checks # {}
    BY <2>3 DEF Evidenced
  <2>5. new.inspected
    BY <2>2, <2>4
  <2> QED
    BY <2>2, <2>3, <2>5 DEF Evidenced
<1>4. CASE op = "approve_return"
  <2>1. op \notin Steps
    BY <1>4, StepSet
  <2>2. /\ new.purpose = old.purpose /\ new.status = "return_approved"
        /\ new.inspected = old.inspected
    BY <1>4, <2>1 DEF Follows, NewStatus, Rows
  <2>3. old.purpose # "rental"
    BY <1>4, PermittedPurpose
  <2>4. old.status = "returned"
    <3>1. CanPerformAction(old.status, old.purpose, "approve_return")
      BY <1>4, <2>1 DEF Permits
    <3> QED
      BY <3>1 DEF CanPerformAction, CHECKOUT_TRANSITIONS, Rule
  <2> QED
    BY <2>2, <2>3, <2>4 DEF Evidenced
<1>5. CASE op = "reject_return"
  <2>1. op \notin Steps
    BY <1>5, StepSet
  <2>2. /\ new.purpose = old.purpose /\ new.checks = old.checks
        /\ new.status = IF old.purpose = "rental" THEN "in_use" ELSE "checked_out"
    BY <1>5, <2>1 DEF Follows, NewStatus
  <2>3. old.purpose = "rental" => old.status = "lender_received"
    <3>1. CanPerformAction(old.status, old.purpose, "reject_return")
      BY <1>5, <2>1 DEF Permits
    <3> QED
      BY <3>1 DEF CanPerformAction, CHECKOUT_TRANSITIONS, Rule, CAL_REPAIR
  <2> QED
    BY <2>2, <2>3 DEF Evidenced
<1>6. CASE op \in {"approve", "borrower_approve", "borrower_reject", "reject",
                   "start", "cancel", "revoke", "update"}
  BY <1>6, OtherOperations DEF Follows, Evidenced
<1> QED
  BY <1>1, <1>2, <1>3, <1>4, <1>5, <1>6 DEF FsmOperations

LEMMA EvidenceStep ==
    ASSUME EvidenceInv, [Next]_vars, NEW c \in Checkouts
    PROVE  Evidenced(checkout'[c])
<1>1. TypeOK /\ TypeOK' /\ FreshDrafts
  BY TypeStep DEF EvidenceInv, FreshInv, FlowInv, VersionInv
<1>2. checkout[c] \in Rows /\ checkout'[c] \in Rows /\ Evidenced(checkout[c])
  BY <1>1 DEF TypeOK, EvidenceInv
<1>3. CASE Inserted(c)
  BY <1>3 DEF Inserted, Evidenced
<1>4. CASE Committed(c)
  <2>1. PICK r \in Requests : request[r].checkout = c /\ CommitShape(r)
    BY <1>4 DEF Committed
  <2>2. Permits(request[r].op, checkout[c].status, checkout[c].purpose)
    BY <2>1, StatusConfirmed DEF EvidenceInv
  <2>3. Follows(request[r].op, request[r].row.status, checkout[c], checkout'[c])
    BY <2>1 DEF CommitShape
  <2>4. StatusFits(checkout[c].status, checkout[c].purpose)
    BY DEF EvidenceInv, FreshInv, FlowInv, StatusFitsPurpose
  <2> QED
    BY <1>2, <2>2, <2>3, <2>4, EvidenceKept
<1>5. CASE DueDatePassed(c)
  <2>1. checkout'[c].status = "checked_out"
    BY <1>2, <1>5 DEF DueDatePassed, Rows
  <2> QED
    BY <2>1 DEF Evidenced
<1>6. CASE MarkedOverdue(c)
  <2>1. checkout'[c].status = "overdue"
    BY <1>2, <1>6 DEF MarkedOverdue, Rows
  <2> QED
    BY <2>1 DEF Evidenced
<1> QED
  BY <1>1, <1>2, <1>3, <1>4, <1>5, <1>6, RowChanges

\* No return is approved, or waits for its approval, without the inspection on
\* record, and none of a rental without its four condition checks.
THEOREM ReturnsInspected ==
    ASSUME ClientVersions = FALSE
    PROVE  Spec => []ReturnInspected
<1>1. Init => \A c \in Checkouts : Evidenced(checkout[c])
  BY DEF Init, NoRow, Evidenced
<1>2. EvidenceInv /\ [Next]_vars => (\A c \in Checkouts : Evidenced(checkout[c]))'
  BY EvidenceStep
<1>3. EvidenceInv => ReturnInspected
  <2>1. SUFFICES ASSUME EvidenceInv, NEW c \in Checkouts
                 PROVE  /\ checkout[c].status \in {"returned", "return_approved"} =>
                               checkout[c].inspected
                        /\ /\ checkout[c].status = "return_approved"
                           /\ checkout[c].purpose = "rental"
                           => checkout[c].checks = Steps
    BY DEF ReturnInspected
  <2>2. Evidenced(checkout[c]) /\ checkout[c].checks \subseteq Steps
    BY <2>1 DEF EvidenceInv, FreshInv, FlowInv, VersionInv, TypeOK, Rows
  <2> QED
    BY <2>2, StepSet DEF Evidenced
<1> QED
  BY <1>1, <1>2, <1>3, FreshInvariant, PTL DEF Spec, EvidenceInv

-----------------------------------------------------------------------------
(* The imports module hears of the end that happened *)

\* No operation is permitted in a terminal status.
LEMMA NothingPermitted ==
    ASSUME NEW op, NEW status \in TERMINAL_STATES, NEW purpose
    PROVE  ~Permits(op, status, purpose)
<1>1. ~CanPerformAction(status, purpose, op)
  BY DEF CanPerformAction, CHECKOUT_TRANSITIONS, Rule, TERMINAL_STATES
<1>2. op \in Steps => status # stepTransitions[op].requiredStatus
  BY DEF Steps, stepTransitions, TERMINAL_STATES
<1> QED
  BY <1>1, <1>2 DEF Permits, TERMINAL_STATES

\* So such a row stays as it is.
LEMMA TerminalStays ==
    ASSUME FreshInv, [Next]_vars, NEW c \in Checkouts,
           checkout[c].status \in TERMINAL_STATES
    PROVE  /\ checkout'[c].status = checkout[c].status
           /\ checkout'[c].purpose = checkout[c].purpose
<1>1. checkout[c] # NoRow
  BY DEF NoRow, TERMINAL_STATES
<1>2. checkout'[c].purpose = checkout[c].purpose
  BY <1>1, RowStays DEF FreshInv, FlowInv
<1>3. ~Inserted(c) /\ ~DueDatePassed(c) /\ ~MarkedOverdue(c)
  BY <1>1 DEF Inserted, DueDatePassed, MarkedOverdue, TERMINAL_STATES
<1>4. ASSUME Committed(c)
      PROVE  FALSE
  <2>1. PICK r \in Requests : request[r].checkout = c /\ CommitShape(r)
    BY <1>4 DEF Committed
  <2> DEFINE op == request[r].op
  <2>2. Permits(op, checkout[c].status, checkout[c].purpose)
    BY <2>1, StatusConfirmed
  <2> QED
    BY <2>2, NothingPermitted
<1> QED
  BY <1>2, <1>3, <1>4, RowChanges DEF FreshInv, FlowInv, VersionInv

\* The event says how the return to the vendor ended.
EventFits(event, row) ==
    /\ row.purpose = "return_to_vendor"
    /\ event = "completed" => row.status = "return_approved"
    /\ event = "canceled" => row.status = "canceled"

EventsInv ==
    /\ FreshInv
    /\ \A r \in Requests :
           request[r].phase = "announcing" =>
               EventFits(request[r].event, checkout[request[r].checkout])
    /\ \A c \in Checkouts : \A event \in importEvents[c] :
           EventFits(event, checkout[c])

LEMMA EventFitsStays ==
    ASSUME FreshInv, [Next]_vars, NEW c \in Checkouts,
           NEW event \in {"completed", "canceled"}, EventFits(event, checkout[c])
    PROVE  EventFits(event, checkout'[c])
<1>1. checkout[c].status \in TERMINAL_STATES
  BY DEF EventFits, TERMINAL_STATES
<1> QED
  BY <1>1, TerminalStays DEF EventFits

\* A commit that has an event to send has just ended a return to the vendor.
LEMMA CommitAnnounces ==
    ASSUME FreshInv, NEW r \in Requests, Commit(r), request'[r].phase = "announcing"
    PROVE  EventFits(request'[r].event, checkout'[request'[r].checkout])
<1>1. TypeOK /\ CommitShape(r)
  BY CommitHasShape DEF FreshInv, FlowInv, VersionInv
<1>2. /\ request[r].phase = "loaded"
      /\ request'[r].checkout = request[r].checkout
      /\ Follows(request[r].op, request[r].row.status, checkout[request[r].checkout],
                 checkout'[request[r].checkout])
  BY <1>1 DEF CommitShape
<1>3. ~Close(r)
  BY <1>1, <1>2, CloseShape
<1>4. CASE ApproveReturn(r)
  <2>1. CloseReturn(r, "completed") /\ request[r].op = "approve_return"
    BY <1>4 DEF ApproveReturn, updateWithVersion
  <2>2. request'[r].event = "completed" /\ Row(r).purpose = "return_to_vendor"
    BY <1>1, <1>2, <2>1, CloseReturnShape
  <2>3. checkout'[request[r].checkout].status = "return_approved"
    BY <1>2, <2>1, StepSet DEF Follows, NewStatus
  <2> QED
    BY <1>2, <2>2, <2>3 DEF EventFits, Follows, Row
<1>5. CASE Cancel(r)
  <2>1. CloseReturn(r, "canceled") /\ request[r].op = "cancel"
    BY <1>5 DEF Cancel, updateWithVersion
  <2>2. request'[r].event = "canceled" /\ Row(r).purpose = "return_to_vendor"
    BY <1>1, <1>2, <2>1, CloseReturnShape
  <2>3. checkout'[request[r].checkout].status = "canceled"
    BY <1>2, <2>1, StepSet DEF Follows, NewStatus
  <2> QED
    BY <1>2, <2>2, <2>3 DEF EventFits, Follows, Row
<1> QED
  BY <1>3, <1>4, <1>5
     DEF Commit, Approve, BorrowerApprove, BorrowerReject, Reject, Start, SubmitReturn,
         RejectReturn, SubmitConditionCheck, Update, RevokeApproval

\* Where an announcement comes from, and the events that have been sent.
LEMMA AnnouncingOrigins ==
    ASSUME TypeOK, [Next]_vars, NEW r \in Requests, request'[r].phase = "announcing"
    PROVE  request'[r] = request[r] \/ Commit(r)
<1>1. ASSUME NEW q \in Requests, RequestStep(q)
      PROVE  request'[r] = request[r] \/ Commit(r)
  <2>1. CASE q # r
    <3>1. CASE Commit(q)
      BY <2>1, <3>1, CommitHasShape DEF CommitShape
    <3> QED
      BY <1>1, <2>1, <3>1
         DEF RequestStep, CreateCheck, CreateInsert, Load, Conflict, Announce, Close,
             invalidateCache, Fail, TypeOK
  <2>2. CASE q = r
    <3>1. ASSUME NEW c \in Checkouts, NEW op \in Operations, Load(r, c, op)
          PROVE  FALSE
      BY <3>1 DEF Load, TypeOK
    <3>2. ASSUME NEW c \in Checkouts, CreateCheck(r, c)
          PROVE  FALSE
      BY <3>2 DEF CreateCheck, TypeOK
    <3>3. ~(CreateInsert(r) \/ Conflict(r) \/ invalidateCache(r) \/ Fail(r))
      <4>1. request'[r] # Idle
        BY DEF Idle
      <4> QED
        BY <4>1 DEF CreateInsert, Conflict, invalidateCache, Fail, TypeOK
    <3>4. ~Announce(r)
      BY DEF Announce, Close, Closing, TypeOK
    <3> QED
      BY <1>1, <2>2, <3>1, <3>2, <3>3, <3>4 DEF RequestStep
  <2> QED
    BY <2>1, <2>2
<1>2. CASE Restart
  BY <1>2 DEF Restart, Idle
<1>3. CASE UNCHANGED request
  BY <1>3
<1> QED
  BY <1>1, <1>2, <1>3
     DEF Next, ReadRow, StoreRow, Evict, DueDatePasses, InvalidateOverdue,
         CheckOverdueCheckouts, vars

LEMMA SentEvents ==
    ASSUME TypeOK, [Next]_vars, NEW c \in Checkouts, NEW event \in importEvents'[c]
    PROVE  \/ event \in importEvents[c]
           \/ \E r \in Requests : /\ request[r].phase = "announcing"
                                  /\ request[r].checkout = c
                                  /\ request[r].event = event
<1>1. ASSUME NEW r \in Requests, Announce(r)
      PROVE  \/ event \in importEvents[c]
             \/ /\ request[r].phase = "announcing"
                /\ request[r].checkout = c
                /\ request[r].event = event
  BY <1>1 DEF Announce, TypeOK
<1>2. CASE UNCHANGED importEvents
  BY <1>2
<1>3. ASSUME NEW r \in Requests, Commit(r)
      PROVE  UNCHANGED importEvents
  BY <1>3, CommitHasShape DEF CommitShape
<1> QED
  BY <1>1, <1>2, <1>3
     DEF Next, RequestStep, CreateCheck, CreateInsert, Load, Conflict, invalidateCache,
         Fail, ReadRow, StoreRow, Evict, DueDatePasses, InvalidateOverdue,
         CheckOverdueCheckouts, Restart, vars

LEMMA EventsStep ==
    ASSUME ClientVersions = FALSE, EventsInv, [Next]_vars
    PROVE  EventsInv'
<1>1. FreshInv /\ FreshInv' /\ TypeOK /\ TypeOK'
  <2>1. FreshInv'
    BY FlowStep, FreshClientsStep DEF EventsInv, FreshInv, FlowInv, VersionInv
  <2> QED
    BY <2>1 DEF EventsInv, FreshInv, FlowInv, VersionInv
<1>2. ASSUME NEW r \in Requests, request'[r].phase = "announcing"
      PROVE  EventFits(request'[r].event, checkout'[request'[r].checkout])
  <2>1. CASE request'[r] = request[r]
    <3>1. /\ request[r].checkout \in Checkouts
          /\ request[r].event \in {"completed", "canceled"}
      BY <1>1, <1>2, <2>1, RequestShapes
    <3>2. EventFits(request[r].event, checkout[request[r].checkout])
      BY <1>2, <2>1 DEF EventsInv
    <3> QED
      BY <1>1, <2>1, <3>1, <3>2, EventFitsStays
  <2>2. CASE Commit(r)
    BY <1>1, <1>2, <2>2, CommitAnnounces
  <2> QED
    BY <1>1, <1>2, <2>1, <2>2, AnnouncingOrigins
<1>3. ASSUME NEW c \in Checkouts, NEW event \in importEvents'[c]
      PROVE  EventFits(event, checkout'[c])
  <2>1. event \in {"completed", "canceled"}
    BY <1>1 DEF TypeOK
  <2>2. EventFits(event, checkout[c])
    BY <1>1, SentEvents DEF EventsInv
  <2> QED
    BY <1>1, <2>1, <2>2, EventFitsStays
<1> QED
  BY <1>1, <1>2, <1>3 DEF EventsInv, EventFits

\* The imports module is told of a completed or a canceled return to the vendor
\* only when the checkout has ended that way, so never of both: the row is
\* terminal before the event is sent, and no handler leaves a terminal status.
THEOREM EventsMatch ==
    ASSUME ClientVersions = FALSE
    PROVE  Spec => []ImportEventsMatch
<1>1. Init => EventsInv
  <2> SUFFICES ASSUME Init
               PROVE  EventsInv
    OBVIOUS
  <2>1. FreshInv
    BY FlowInitially DEF Init, FreshInv, FreshClients, Idle
  <2> QED
    BY <2>1 DEF Init, EventsInv, Idle
<1>2. EventsInv /\ [Next]_vars => EventsInv'
  BY EventsStep
<1>3. EventsInv => ImportEventsMatch
  BY DEF EventsInv, EventFits, ImportEventsMatch
<1> QED
  BY <1>1, <1>2, <1>3, PTL DEF Spec

=============================================================================
