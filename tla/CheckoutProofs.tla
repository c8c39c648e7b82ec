---------------------------- MODULE CheckoutProofs ----------------------------
(***************************************************************************)
(* Proofs about the checkout service, for any number of checkouts, pieces  *)
(* of equipment, requests and versions.                                    *)
(***************************************************************************)
EXTENDS Checkout, TLAPS

-----------------------------------------------------------------------------
(* Facts about the tables *)

LEMMA StepSet ==
    Steps = {"lender_checkout", "borrower_receive", "borrower_return", "lender_return"}
BY DEF Steps, stepTransitions

\* The steps of a rental move between statuses.
LEMMA StepStatuses ==
    \A step \in Steps : /\ stepTransitions[step].nextStatus \in Statuses
                        /\ stepTransitions[step].requiredStatus \in Statuses
BY DEF Steps, stepTransitions, Statuses

\* What a request can be, read off its phase.
LEMMA RequestShapes ==
    ASSUME TypeOK, NEW r \in Requests
    PROVE  /\ request[r].phase = "idle" => request[r] = Idle
           /\ request[r].phase = "checked" =>
                  request[r] \in [phase : {"checked"}, checkout : Checkouts,
                                  purpose : AllowedPurposes, items : SUBSET Equipment]
           /\ request[r].phase = "loaded" =>
                  request[r] \in [phase : {"loaded"}, op : Operations,
                                  checkout : Checkouts, row : Snapshots, version : Nat]
           /\ request[r].phase = "announcing" =>
                  request[r] \in [phase : {"announcing"}, checkout : Checkouts,
                                  event : {"completed", "canceled"}]
           /\ request[r].phase = "closing" =>
                  request[r] \in [phase : {"closing"}, checkout : Checkouts]
BY DEF TypeOK, RequestStates, Idle

\* A request that is not idle is about some checkout.
LEMMA RequestCheckout ==
    ASSUME TypeOK, NEW r \in Requests, request[r] # Idle
    PROVE  request[r].checkout \in Checkouts
BY DEF TypeOK, RequestStates, Idle

-----------------------------------------------------------------------------
(* What every commit does *)

\* The status a committed operation leaves the row in.
NewStatus(op, row) ==
    LET rental == row.purpose = "rental"
    IN  IF op \in Steps THEN stepTransitions[op].nextStatus
        ELSE IF op = "update" THEN row.status
        ELSE IF op = "submit_return"
             THEN IF rental THEN "return_approved" ELSE "returned"
        ELSE IF op = "reject_return"
             THEN IF rental THEN "in_use" ELSE "checked_out"
        ELSE [approve |-> "approved", borrower_approve |-> "borrower_approved",
              borrower_reject |-> "rejected", reject |-> "rejected",
              start |-> "checked_out", approve_return |-> "return_approved",
              cancel |-> "canceled", revoke |-> "pending"][op]

\* How a committed operation changes the row, given the status its handler
\* loaded; the version is left to the compare-and-set.
Follows(op, loaded, old, new) ==
    /\ new.purpose = old.purpose
    /\ new.items = old.items
    /\ new.status = NewStatus(op, old)
    /\ new.terminatedFromStatus =
           IF op \in {"borrower_reject", "reject", "cancel"} THEN loaded
           ELSE old.terminatedFromStatus
    /\ new.inspected = (IF op = "submit_return"
                        THEN old.purpose = "rental" => old.checks # {}
                        ELSE op # "reject_return" /\ old.inspected)
    /\ new.checks = IF op \in Steps THEN old.checks \cup {op} ELSE old.checks

\* The row of one loaded request moves on with its next version, and that
\* request goes on to its closing steps.
CommitShape(r) ==
    LET c == request[r].checkout
    IN  /\ request[r].phase = "loaded"
        /\ c \in Checkouts
        /\ request[r].version = checkout[c].version
        /\ \A d \in Checkouts \ {c} : checkout'[d] = checkout[d]
        /\ checkout'[c].version = checkout[c].version + 1
        /\ Follows(request[r].op, request[r].row.status, checkout[c], checkout'[c])
        /\ \A q \in Requests \ {r} : request'[q] = request[q]
        /\ request'[r].phase \in {"announcing", "closing"}
        /\ request'[r].checkout = c
        /\ UNCHANGED <<importEvents, cache, fill, owed>>

\* The compare-and-set replaces one row, and nothing else of the database.
LEMMA CompareAndSet ==
    ASSUME TypeOK, NEW r \in Requests, NEW op, NEW row \in Rows,
           updateWithVersion(r, op, row)
    PROVE  /\ request[r].phase = "loaded"
           /\ request[r].op = op
           /\ request[r].checkout \in Checkouts
           /\ request[r].version = checkout[request[r].checkout].version
           /\ checkout' \in [Checkouts -> Rows]
           /\ \A d \in Checkouts \ {request[r].checkout} : checkout'[d] = checkout[d]
           /\ checkout'[request[r].checkout] =
                  [row EXCEPT !.version = checkout[request[r].checkout].version + 1]
           /\ UNCHANGED <<importEvents, cache, fill, owed>>
<1>1. request[r] \in [phase : {"loaded"}, op : Operations, checkout : Checkouts,
                      row : Snapshots, version : Nat]
  BY RequestShapes DEF updateWithVersion
<1>2. [row EXCEPT !.version = request[r].version + 1] \in Rows
  BY <1>1 DEF Rows
<1> QED
  BY <1>1, <1>2 DEF updateWithVersion, TypeOK

\* The loaded row of a request, changed in fields of its type, is a row.
LEMMA RowOfRequest ==
    ASSUME TypeOK, NEW r \in Requests, request[r].phase = "loaded"
    PROVE  Row(r) \in Rows
BY RequestShapes DEF Row, TypeOK

LEMMA CloseShape ==
    ASSUME TypeOK, NEW r \in Requests, request[r].phase = "loaded", Close(r)
    PROVE  /\ request' \in [Requests -> RequestStates]
           /\ \A q \in Requests \ {r} : request'[q] = request[q]
           /\ request'[r].phase = "closing"
           /\ request'[r].checkout = request[r].checkout
<1>1. request[r].checkout \in Checkouts
  BY RequestShapes
<1>2. Closing(request[r].checkout) \in RequestStates
  BY <1>1 DEF Closing, RequestStates
<1> QED
  BY <1>1, <1>2 DEF Close, TypeOK, Closing

LEMMA CloseReturnShape ==
    ASSUME TypeOK, NEW r \in Requests, request[r].phase = "loaded",
           NEW event \in {"completed", "canceled"}, CloseReturn(r, event)
    PROVE  /\ request' \in [Requests -> RequestStates]
           /\ \A q \in Requests \ {r} : request'[q] = request[q]
           /\ request'[r].phase \in {"announcing", "closing"}
           /\ request'[r].checkout = request[r].checkout
           /\ request'[r].phase = "announcing" =>
                  Row(r).purpose = "return_to_vendor" /\ request'[r].event = event
<1> DEFINE next == [phase |-> "announcing", checkout |-> request[r].checkout,
                    event |-> event]
<1>1. request[r].checkout \in Checkouts
  BY RequestShapes
<1>2. Closing(request[r].checkout) \in RequestStates
  BY <1>1 DEF Closing, RequestStates
<1>3. next \in RequestStates
  BY <1>1 DEF RequestStates
<1>4. CASE Row(r).purpose = "return_to_vendor"
  <2>1. request' = [request EXCEPT ![r] = next]
    BY <1>4 DEF CloseReturn
  <2> QED
    BY <1>3, <1>4, <2>1 DEF TypeOK
<1>5. CASE Row(r).purpose # "return_to_vendor"
  <2>1. request' = [request EXCEPT ![r] = Closing(request[r].checkout)]
    BY <1>5 DEF CloseReturn
  <2> QED
    BY <1>2, <2>1 DEF TypeOK, Closing
<1> QED
  BY <1>4, <1>5

\* The equipment rows keep their type whatever batch is written.
LEMMA BatchType ==
    ASSUME TypeOK, NEW c \in Checkouts, NEW expected, NEW status \in EquipmentStatuses,
           updateStatusBatch(c, expected, status)
    PROVE  /\ equipment' \in [Equipment -> EquipmentStatuses]
           /\ was' \in [Equipment -> EquipmentStatuses]
BY DEF updateStatusBatch, TypeOK

\* The types a commit leaves behind.
CommitTypes ==
    /\ checkout' \in [Checkouts -> Rows]
    /\ equipment' \in [Equipment -> EquipmentStatuses]
    /\ was' \in [Equipment -> EquipmentStatuses]
    /\ request' \in [Requests -> RequestStates]

\* A compare-and-set followed by the step to what is left to do has the shape.
LEMMA RowCommit ==
    ASSUME TypeOK, NEW r \in Requests, NEW op, NEW row \in Rows,
           updateWithVersion(r, op, row),
           Follows(op, request[r].row.status, Row(r), row),
           \A q \in Requests \ {r} : request'[q] = request[q],
           request'[r].phase \in {"announcing", "closing"},
           request'[r].checkout = request[r].checkout
    PROVE  CommitShape(r) /\ checkout' \in [Checkouts -> Rows]
<1>1. checkout'[request[r].checkout]
          = [row EXCEPT !.version = checkout[request[r].checkout].version + 1]
  BY CompareAndSet
<1> DEFINE new == checkout'[request[r].checkout]
<1>2. /\ new.version = checkout[request[r].checkout].version + 1
      /\ new.purpose = row.purpose /\ new.items = row.items
      /\ new.status = row.status /\ new.inspected = row.inspected
      /\ new.terminatedFromStatus = row.terminatedFromStatus
      /\ new.checks = row.checks
  BY <1>1 DEF Rows
<1>3. Follows(op, request[r].row.status, Row(r), new)
  BY <1>2 DEF Follows
<1>4. Follows(request[r].op, request[r].row.status, checkout[request[r].checkout],
              checkout'[request[r].checkout])
  <2>1. op = request[r].op
    BY CompareAndSet
  <2> QED
    BY <1>3, <2>1 DEF Row
<1> QED
  BY <1>2, <1>4, CompareAndSet DEF CommitShape

\* The handlers that write nothing but the row.
LEMMA RowOnlyCommit ==
    ASSUME TypeOK, NEW r \in Requests, NEW op, NEW row \in Rows,
           updateWithVersion(r, op, row), Close(r), KeepsEquipment,
           Follows(op, request[r].row.status, Row(r), row)
    PROVE  CommitShape(r) /\ CommitTypes
<1>1. request[r].phase = "loaded"
  BY CompareAndSet
<1>2. CommitShape(r) /\ checkout' \in [Checkouts -> Rows]
  BY <1>1, RowCommit, CloseShape
<1> QED
  BY <1>1, <1>2, CloseShape DEF CommitTypes, KeepsEquipment, TypeOK

\* The handlers that also write the equipment of the checkout.
LEMMA BatchCommit ==
    ASSUME TypeOK, NEW r \in Requests, NEW op, NEW row \in Rows,
           updateWithVersion(r, op, row), Close(r),
           NEW expected, NEW status \in EquipmentStatuses,
           updateStatusBatch(request[r].checkout, expected, status),
           Follows(op, request[r].row.status, Row(r), row)
    PROVE  CommitShape(r) /\ CommitTypes
<1>1. request[r].phase = "loaded" /\ request[r].checkout \in Checkouts
  BY CompareAndSet
<1>2. CommitShape(r) /\ checkout' \in [Checkouts -> Rows]
  BY <1>1, RowCommit, CloseShape
<1> QED
  BY <1>1, <1>2, CloseShape, BatchType DEF CommitTypes

\* Every disjunct of Commit has that shape.
LEMMA CommitHasShape ==
    ASSUME TypeOK, NEW r \in Requests, Commit(r)
    PROVE  CommitShape(r) /\ CommitTypes
<1>1. CASE Approve(r)
  <2>1. request[r].phase = "loaded"
    BY <1>1 DEF Approve, updateWithVersion
  <2> DEFINE row == [Row(r) EXCEPT !.status = "approved"]
  <2>2. row \in Rows
    BY <2>1, RowOfRequest, RequestShapes DEF Rows, Statuses, Snapshots
  <2>3. Follows("approve", request[r].row.status, Row(r), row)
    BY <2>1, RowOfRequest, StepSet DEF Follows, NewStatus, Rows
  <2>4. updateWithVersion(r, "approve", row) /\ Close(r) /\ KeepsEquipment
    BY <1>1 DEF Approve
  <2> QED
    BY <2>2, <2>3, <2>4, RowOnlyCommit
<1>2. CASE BorrowerApprove(r)
  <2>1. request[r].phase = "loaded"
    BY <1>2 DEF BorrowerApprove, updateWithVersion
  <2> DEFINE row == [Row(r) EXCEPT !.status = "borrower_approved"]
  <2>2. row \in Rows
    BY <2>1, RowOfRequest, RequestShapes DEF Rows, Statuses, Snapshots
  <2>3. Follows("borrower_approve", request[r].row.status, Row(r), row)
    BY <2>1, RowOfRequest, StepSet DEF Follows, NewStatus, Rows
  <2>4. updateWithVersion(r, "borrower_approve", row) /\ Close(r) /\ KeepsEquipment
    BY <1>2 DEF BorrowerApprove
  <2> QED
    BY <2>2, <2>3, <2>4, RowOnlyCommit
<1>3. CASE BorrowerReject(r)
  <2>1. request[r].phase = "loaded"
    BY <1>3 DEF BorrowerReject, updateWithVersion
  <2> DEFINE row == [Row(r) EXCEPT !.status = "rejected",
                                   !.terminatedFromStatus = request[r].row.status]
  <2>2. row \in Rows
    BY <2>1, RowOfRequest, RequestShapes DEF Rows, Statuses, Snapshots
  <2>3. Follows("borrower_reject", request[r].row.status, Row(r), row)
    BY <2>1, RowOfRequest, StepSet DEF Follows, NewStatus, Rows
  <2>4. updateWithVersion(r, "borrower_reject", row) /\ Close(r) /\ KeepsEquipment
    BY <1>3 DEF BorrowerReject
  <2> QED
    BY <2>2, <2>3, <2>4, RowOnlyCommit
<1>4. CASE Reject(r)
  <2>1. request[r].phase = "loaded"
    BY <1>4 DEF Reject, updateWithVersion
  <2> DEFINE row == [Row(r) EXCEPT !.status = "rejected",
                                   !.terminatedFromStatus = request[r].row.status]
  <2>2. row \in Rows
    BY <2>1, RowOfRequest, RequestShapes DEF Rows, Statuses, Snapshots
  <2>3. Follows("reject", request[r].row.status, Row(r), row)
    BY <2>1, RowOfRequest, StepSet DEF Follows, NewStatus, Rows
  <2>4. updateWithVersion(r, "reject", row) /\ Close(r) /\ KeepsEquipment
    BY <1>4 DEF Reject
  <2> QED
    BY <2>2, <2>3, <2>4, RowOnlyCommit
<1>5. CASE RevokeApproval(r)
  <2>1. request[r].phase = "loaded"
    BY <1>5 DEF RevokeApproval, updateWithVersion
  <2> DEFINE row == [Row(r) EXCEPT !.status = "pending"]
  <2>2. row \in Rows
    BY <2>1, RowOfRequest, RequestShapes DEF Rows, Statuses, Snapshots
  <2>3. Follows("revoke", request[r].row.status, Row(r), row)
    BY <2>1, RowOfRequest, StepSet DEF Follows, NewStatus, Rows
  <2>4. updateWithVersion(r, "revoke", row) /\ Close(r) /\ KeepsEquipment
    BY <1>5 DEF RevokeApproval
  <2> QED
    BY <2>2, <2>3, <2>4, RowOnlyCommit
<1>6. CASE Start(r)
  <2>1. request[r].phase = "loaded"
    BY <1>6 DEF Start, updateWithVersion
  <2> DEFINE row == [Row(r) EXCEPT !.status = "checked_out"]
  <2>2. row \in Rows
    BY <2>1, RowOfRequest, RequestShapes DEF Rows, Statuses, Snapshots
  <2>3. Follows("start", request[r].row.status, Row(r), row)
    BY <2>1, RowOfRequest, StepSet DEF Follows, NewStatus, Rows
  <2>4. /\ updateWithVersion(r, "start", row) /\ Close(r)
        /\ updateStatusBatch(request[r].checkout, EquipmentStatuses, "checked_out")
    BY <1>6 DEF Start
  <2> QED
    BY <2>2, <2>3, <2>4, BatchCommit DEF EquipmentStatuses
<1>7. CASE SubmitReturn(r)
  <2>1. request[r].phase = "loaded"
    BY <1>7 DEF SubmitReturn, updateWithVersion
  <2> DEFINE row == [Row(r) EXCEPT !.status = IF Row(r).purpose = "rental"
                                              THEN "return_approved" ELSE "returned",
                                   !.inspected = Row(r).purpose = "rental"
                                                     => Row(r).checks # {}]
  <2>2. row \in Rows
    <3>1. (Row(r).purpose = "rental" => Row(r).checks # {}) \in BOOLEAN
      OBVIOUS
    <3>2. (IF Row(r).purpose = "rental" THEN "return_approved" ELSE "returned")
              \in Statuses
      BY DEF Statuses
    <3> QED
      BY <2>1, <3>1, <3>2, RowOfRequest DEF Rows
  <2>3. Follows("submit_return", request[r].row.status, Row(r), row)
    BY <2>1, RowOfRequest, StepSet DEF Follows, NewStatus, Rows
  <2>4. updateWithVersion(r, "submit_return", row) /\ Close(r) /\ KeepsEquipment
    BY <1>7 DEF SubmitReturn
  <2> QED
    BY <2>2, <2>3, <2>4, RowOnlyCommit
<1>8. CASE ApproveReturn(r)
  <2>1. request[r].phase = "loaded"
    BY <1>8 DEF ApproveReturn, updateWithVersion
  <2> DEFINE row == [Row(r) EXCEPT !.status = "return_approved"]
  <2>2. row \in Rows
    BY <2>1, RowOfRequest, RequestShapes DEF Rows, Statuses, Snapshots
  <2>3. Follows("approve_return", request[r].row.status, Row(r), row)
    BY <2>1, RowOfRequest, StepSet DEF Follows, NewStatus, Rows
  <2>4. /\ updateWithVersion(r, "approve_return", row) /\ CloseReturn(r, "completed")
        /\ updateStatusBatch(request[r].checkout, {"checked_out"}, "available")
    BY <1>8 DEF ApproveReturn
  <2>5. /\ request' \in [Requests -> RequestStates]
        /\ \A q \in Requests \ {r} : request'[q] = request[q]
        /\ request'[r].phase \in {"announcing", "closing"}
        /\ request'[r].checkout = request[r].checkout
    BY <2>1, <2>4, CloseReturnShape
  <2>6. CommitShape(r) /\ checkout' \in [Checkouts -> Rows]
    BY <2>2, <2>3, <2>4, <2>5, RowCommit
  <2>7. equipment' \in [Equipment -> EquipmentStatuses]
        /\ was' \in [Equipment -> EquipmentStatuses]
    BY <2>1, <2>4, RequestShapes, BatchType DEF EquipmentStatuses
  <2> QED
    BY <2>5, <2>6, <2>7 DEF CommitTypes
<1>9. CASE Cancel(r)
  <2>1. request[r].phase = "loaded"
    BY <1>9 DEF Cancel, updateWithVersion
  <2> DEFINE row == [Row(r) EXCEPT !.status = "canceled",
                                   !.terminatedFromStatus = request[r].row.status]
  <2>2. row \in Rows
    BY <2>1, RowOfRequest, RequestShapes DEF Rows, Statuses, Snapshots
  <2>3. Follows("cancel", request[r].row.status, Row(r), row)
    BY <2>1, RowOfRequest, StepSet DEF Follows, NewStatus, Rows
  <2>4. /\ updateWithVersion(r, "cancel", row) /\ CloseReturn(r, "canceled")
        /\ KeepsEquipment
    BY <1>9 DEF Cancel
  <2>5. /\ request' \in [Requests -> RequestStates]
        /\ \A q \in Requests \ {r} : request'[q] = request[q]
        /\ request'[r].phase \in {"announcing", "closing"}
        /\ request'[r].checkout = request[r].checkout
    BY <2>1, <2>4, CloseReturnShape
  <2>6. CommitShape(r) /\ checkout' \in [Checkouts -> Rows]
    BY <2>2, <2>3, <2>4, <2>5, RowCommit
  <2>7. equipment' \in [Equipment -> EquipmentStatuses]
        /\ was' \in [Equipment -> EquipmentStatuses]
    BY <2>4 DEF KeepsEquipment, TypeOK
  <2> QED
    BY <2>5, <2>6, <2>7 DEF CommitTypes
<1>10. CASE RejectReturn(r)
  <2>1. request[r].phase = "loaded"
    BY <1>10 DEF RejectReturn, updateWithVersion
  <2> DEFINE row == [Row(r) EXCEPT !.status = IF Row(r).purpose = "rental"
                                              THEN "in_use" ELSE "checked_out",
                                   !.inspected = FALSE]
  <2>2. row \in Rows
    <3>1. (IF Row(r).purpose = "rental" THEN "in_use" ELSE "checked_out") \in Statuses
      BY DEF Statuses
    <3> QED
      BY <2>1, <3>1, RowOfRequest DEF Rows
  <2>3. Follows("reject_return", request[r].row.status, Row(r), row)
    BY <2>1, RowOfRequest, StepSet DEF Follows, NewStatus, Rows
  <2>4. /\ updateWithVersion(r, "reject_return", row) /\ Close(r)
        /\ \/ updateStatusBatch(request[r].checkout, {"available"}, "checked_out")
           \/ KeepsEquipment
    BY <1>10 DEF RejectReturn
  <2> QED
    BY <2>2, <2>3, <2>4, RowOnlyCommit, BatchCommit DEF EquipmentStatuses
<1>11. CASE \E step \in Steps : SubmitConditionCheck(r, step)
  <2>1. PICK step \in Steps : SubmitConditionCheck(r, step)
    BY <1>11
  <2>2. request[r].phase = "loaded"
    BY <2>1 DEF SubmitConditionCheck, updateWithVersion
  <2> DEFINE row == [Row(r) EXCEPT !.status = stepTransitions[step].nextStatus,
                                   !.checks = @ \cup {step}]
  <2>3. row \in Rows
    BY <2>2, RowOfRequest, StepStatuses DEF Rows
  <2>4. Follows(step, request[r].row.status, Row(r), row)
    <3>1. /\ step # "submit_return" /\ step # "reject_return"
          /\ step \notin {"borrower_reject", "reject", "cancel"}
      BY StepSet
    <3>2. /\ row.purpose = Row(r).purpose /\ row.items = Row(r).items
          /\ row.status = stepTransitions[step].nextStatus
          /\ row.terminatedFromStatus = Row(r).terminatedFromStatus
          /\ row.inspected = Row(r).inspected
          /\ row.checks = Row(r).checks \cup {step}
      BY <2>2, RowOfRequest DEF Rows
    <3>3. Row(r).inspected \in BOOLEAN
      BY <2>2, RowOfRequest DEF Rows
    <3>4. row.inspected = (step # "reject_return" /\ Row(r).inspected)
      BY <3>1, <3>2, <3>3
    <3> HIDE DEF row
    <3> QED
      BY <3>1, <3>2, <3>4 DEF Follows, NewStatus
  <2>5. /\ updateWithVersion(r, step, row) /\ Close(r)
        /\ \/ updateStatusBatch(request[r].checkout, EquipmentStatuses, "checked_out")
           \/ updateStatusBatch(request[r].checkout, EquipmentStatuses, "available")
           \/ KeepsEquipment
    BY <2>1, StepSet DEF SubmitConditionCheck
  <2> QED
    BY <2>3, <2>4, <2>5, RowOnlyCommit, BatchCommit DEF EquipmentStatuses
<1>12. CASE Update(r)
  <2>1. request[r].phase = "loaded"
    BY <1>12 DEF Update, updateWithVersion
  <2>2. PICK row \in {Row(r), [Row(r) EXCEPT !.pastDue = FALSE]} :
            updateWithVersion(r, "update", row) /\ Close(r) /\ KeepsEquipment
    BY <1>12 DEF Update
  <2>3. row \in Rows /\ Follows("update", request[r].row.status, Row(r), row)
    BY <2>1, RowOfRequest, StepSet DEF Rows, NewStatus, Follows
  <2> QED
    BY <2>2, <2>3, RowOnlyCommit
<1> QED
  BY <1>1, <1>2, <1>3, <1>4, <1>5, <1>6, <1>7, <1>8, <1>9, <1>10, <1>11, <1>12
     DEF Commit
-----------------------------------------------------------------------------
(* Type correctness *)

LEMMA TypeInitially == Init => TypeOK
<1> SUFFICES ASSUME Init
             PROVE  TypeOK
  OBVIOUS
<1>1. NoRow \in Rows
  BY DEF NoRow, Rows
<1>2. NoSnapshot \in Snapshots
  BY DEF NoSnapshot, Snapshots
<1>3. Idle \in RequestStates
  BY DEF RequestStates
<1>4. equipment \in [Equipment -> EquipmentStatuses]
  BY StartAssumption DEF Init
<1> QED
  BY <1>1, <1>2, <1>3, <1>4 DEF Init, TypeOK

LEMMA TypeStep == TypeOK /\ [Next]_vars => TypeOK'
<1> SUFFICES ASSUME TypeOK, [Next]_vars
             PROVE  TypeOK'
  OBVIOUS
<1>1. ASSUME NEW r \in Requests, RequestStep(r)
      PROVE  TypeOK'
  <2>1. ASSUME NEW c \in Checkouts, CreateCheck(r, c)
        PROVE  TypeOK'
    <3>1. PICK purpose \in AllowedPurposes, chosen \in SUBSET Equipment :
              request' = [request EXCEPT ![r] =
                  [phase |-> "checked", checkout |-> c,
                   purpose |-> purpose, items |-> chosen]]
      BY <2>1 DEF CreateCheck
    <3>2. request' \in [Requests -> RequestStates]
      BY <3>1 DEF TypeOK, RequestStates
    <3> QED
      BY <2>1, <3>2 DEF CreateCheck, TypeOK
  <2>2. CASE CreateInsert(r)
    <3>1. request[r] \in [phase : {"checked"}, checkout : Checkouts,
                          purpose : AllowedPurposes, items : SUBSET Equipment]
      BY <2>2, RequestShapes DEF CreateInsert
    <3>2. [NoRow EXCEPT !.status = "pending", !.version = 1,
                        !.purpose = request[r].purpose,
                        !.items = request[r].items] \in Rows
      BY <3>1 DEF NoRow, Rows, Statuses
    <3> QED
      BY <2>2, <3>1, <3>2 DEF CreateInsert, TypeOK, RequestStates
  <2>3. ASSUME NEW c \in Checkouts, NEW op \in Operations, Load(r, c, op)
        PROVE  TypeOK'
    <3>1. PICK version \in Nat :
              request' = [request EXCEPT ![r] =
                  [phase |-> "loaded", op |-> op, checkout |-> c,
                   row |-> cache[c], version |-> version]]
      BY <2>3 DEF Load, TypeOK, Snapshots, Rows
    <3>2. request' \in [Requests -> RequestStates]
      BY <3>1 DEF TypeOK, RequestStates
    <3> QED
      BY <2>3, <3>2 DEF Load, TypeOK
  <2>4. CASE Commit(r)
    BY <2>4, CommitHasShape DEF CommitShape, CommitTypes, TypeOK
  <2>5. CASE Conflict(r)
    BY <2>5, RequestShapes
       DEF Conflict, TypeOK, RequestStates, NoSnapshot, Snapshots
  <2>6. CASE Announce(r)
    <3>1. request[r] \in [phase : {"announcing"}, checkout : Checkouts,
                          event : {"completed", "canceled"}]
      BY <2>6, RequestShapes DEF Announce
    <3>2. Closing(request[r].checkout) \in RequestStates
      BY <3>1 DEF Closing, RequestStates
    <3>3. request' \in [Requests -> RequestStates]
      BY <2>6, <3>2 DEF Announce, Close, TypeOK
    <3>4. importEvents' \in [Checkouts -> SUBSET {"completed", "canceled"}]
      BY <2>6, <3>1 DEF Announce, TypeOK
    <3> QED
      BY <2>6, <3>3, <3>4 DEF Announce, TypeOK
  <2>7. CASE invalidateCache(r)
    BY <2>7, RequestShapes
       DEF invalidateCache, TypeOK, RequestStates, NoSnapshot, Snapshots
  <2>8. CASE Fail(r)
    BY <2>8 DEF Fail, TypeOK, RequestStates
  <2> QED
    BY <1>1, <2>1, <2>2, <2>3, <2>4, <2>5, <2>6, <2>7, <2>8 DEF RequestStep
<1>2. ASSUME NEW c \in Checkouts,
             ReadRow(c) \/ StoreRow(c) \/ Evict(c) \/ InvalidateOverdue(c)
      PROVE  TypeOK'
  <2>1. Snapshot(c) \in Snapshots /\ NoSnapshot \in Snapshots
    BY DEF TypeOK, Rows, Snapshots, Snapshot, NoSnapshot
  <2>2. cache' \in [Checkouts -> Snapshots] /\ fill' \in [Checkouts -> Snapshots]
    BY <1>2, <2>1 DEF ReadRow, StoreRow, Evict, InvalidateOverdue, TypeOK
  <2> QED
    BY <1>2, <2>2 DEF ReadRow, StoreRow, Evict, InvalidateOverdue, TypeOK
<1>3. ASSUME NEW c \in Checkouts, DueDatePasses(c)
      PROVE  TypeOK'
  <2>1. [checkout[c] EXCEPT !.pastDue = TRUE] \in Rows
    BY DEF TypeOK, Rows
  <2>2. checkout' = [checkout EXCEPT ![c] = [checkout[c] EXCEPT !.pastDue = TRUE]]
    BY <1>3 DEF DueDatePasses
  <2>3. checkout' \in [Checkouts -> Rows]
    BY <2>1, <2>2 DEF TypeOK
  <2> QED
    BY <1>3, <2>3 DEF DueDatePasses, TypeOK
<1>4. CASE CheckOverdueCheckouts
  <2>1. ASSUME NEW c \in Checkouts
        PROVE  [checkout[c] EXCEPT !.status = "overdue", !.version = @ + 1] \in Rows
    <3>1. checkout[c] \in Rows /\ checkout[c].version + 1 \in Nat
      BY DEF TypeOK, Rows
    <3> QED
      BY <3>1 DEF Rows, Statuses
  <2>2. checkout' \in [Checkouts -> Rows] /\ owed' \subseteq Checkouts
    BY <1>4, <2>1 DEF CheckOverdueCheckouts, TypeOK
  <2> QED
    BY <1>4, <2>2 DEF CheckOverdueCheckouts, TypeOK
<1>5. CASE Restart
  BY <1>5 DEF Restart, TypeOK, NoSnapshot, Snapshots, RequestStates
<1>6. CASE UNCHANGED vars
  BY <1>6 DEF vars, TypeOK
<1> QED
  BY <1>1, <1>2, <1>3, <1>4, <1>5, <1>6 DEF Next

\* The rows, the caches and the requests keep their types.
THEOREM TypeCorrect == Spec => []TypeOK
BY TypeInitially, TypeStep, PTL DEF Spec

-----------------------------------------------------------------------------
(* Versions order the statuses of a row *)

\* A request that has passed the checks of create owns an identifier that has
\* no row yet and that no other request knows.
FreshDrafts ==
    \A r \in Requests :
        request[r].phase = "checked" =>
            /\ checkout[request[r].checkout] = NoRow
            /\ \A q \in Requests \ {r} :
                   request[q] # Idle => request[q].checkout # request[r].checkout

\* The four ways a row changes.
Inserted(c) ==
    /\ checkout[c] = NoRow
    /\ checkout'[c].version = 1
    /\ checkout'[c].status = "pending"
    /\ checkout'[c].inspected = FALSE

Committed(c) ==
    \E r \in Requests : request[r].checkout = c /\ Commit(r) /\ CommitShape(r)

DueDatePassed(c) ==
    /\ checkout[c].status = "checked_out"
    /\ checkout'[c] = [checkout[c] EXCEPT !.pastDue = TRUE]

MarkedOverdue(c) ==
    /\ checkout[c].status = "checked_out"
    /\ checkout'[c] = [checkout[c] EXCEPT !.status = "overdue",
                                          !.version = checkout[c].version + 1]

LEMMA RowChanges ==
    ASSUME TypeOK, FreshDrafts, [Next]_vars, NEW c \in Checkouts
    PROVE  \/ checkout'[c] = checkout[c]
           \/ Inserted(c)
           \/ Committed(c)
           \/ DueDatePassed(c)
           \/ MarkedOverdue(c)
<1>1. ASSUME NEW r \in Requests, RequestStep(r)
      PROVE  checkout'[c] = checkout[c] \/ Inserted(c) \/ Committed(c)
  <2>1. CASE CreateInsert(r)
    <3>1. request[r].checkout \in Checkouts /\ checkout[request[r].checkout] = NoRow
      BY <2>1, RequestShapes DEF CreateInsert, FreshDrafts
    <3>2. CASE c = request[r].checkout
      BY <2>1, <3>1, <3>2 DEF CreateInsert, TypeOK, NoRow, Inserted
    <3>3. CASE c # request[r].checkout
      BY <2>1, <3>3 DEF CreateInsert, TypeOK
    <3> QED
      BY <3>2, <3>3
  <2>2. CASE Commit(r)
    <3>1. CommitShape(r)
      BY <2>2, CommitHasShape
    <3>2. CASE c = request[r].checkout
      BY <2>2, <3>1, <3>2 DEF Committed
    <3>3. CASE c # request[r].checkout
      BY <3>1, <3>3 DEF CommitShape
    <3> QED
      BY <3>2, <3>3
  <2>3. CASE UNCHANGED checkout
    BY <2>3
  <2> QED
    BY <1>1, <2>1, <2>2, <2>3
       DEF RequestStep, CreateCheck, Load, Conflict, Announce, invalidateCache, Fail
<1>2. ASSUME NEW d \in Checkouts, DueDatePasses(d)
      PROVE  checkout'[c] = checkout[c] \/ DueDatePassed(c)
  <2>1. checkout' = [checkout EXCEPT ![d] = [checkout[d] EXCEPT !.pastDue = TRUE]]
    BY <1>2 DEF DueDatePasses
  <2> QED
    BY <1>2, <2>1 DEF TypeOK, DueDatePasses, DueDatePassed
<1>3. CASE CheckOverdueCheckouts
  BY <1>3 DEF CheckOverdueCheckouts, MarkedOverdue
<1>4. CASE UNCHANGED checkout
  BY <1>4
<1> QED
  BY <1>1, <1>2, <1>3, <1>4
     DEF Next, ReadRow, StoreRow, Evict, InvalidateOverdue, Restart, vars

\* No step turns back a version, or changes a status without raising it.
RowMoves(c) ==
    /\ checkout'[c].version \in {checkout[c].version, checkout[c].version + 1}
    /\ checkout'[c].version = checkout[c].version =>
           checkout'[c].status = checkout[c].status
    /\ checkout[c] # NoRow =>
           /\ checkout'[c].purpose = checkout[c].purpose
           /\ checkout'[c].items = checkout[c].items

LEMMA RowStep ==
    ASSUME TypeOK, FreshDrafts, [Next]_vars, NEW c \in Checkouts
    PROVE  RowMoves(c)
<1>1. checkout[c] \in Rows /\ checkout[c].version # checkout[c].version + 1
  BY DEF TypeOK, Rows
<1>2. CASE checkout'[c] = checkout[c]
  BY <1>2 DEF RowMoves
<1>3. CASE Inserted(c)
  BY <1>3 DEF Inserted, NoRow, RowMoves
<1>4. CASE Committed(c)
  BY <1>1, <1>4 DEF Committed, CommitShape, Follows, RowMoves
<1>5. CASE DueDatePassed(c)
  BY <1>1, <1>5 DEF DueDatePassed, Rows, RowMoves
<1>6. CASE MarkedOverdue(c)
  BY <1>1, <1>6 DEF MarkedOverdue, Rows, RowMoves
<1> QED
  BY <1>2, <1>3, <1>4, <1>5, <1>6, RowChanges

\* So a snapshot that agrees with its row goes on agreeing with it.
LEMMA AgreesStep ==
    ASSUME TypeOK, FreshDrafts, [Next]_vars, NEW c \in Checkouts,
           NEW s \in Snapshots, Agrees(s, c)
    PROVE  Agrees(s, c)'
<1>1. RowMoves(c)
  BY RowStep
<1>2. s.version \in Nat /\ checkout[c].version \in Nat
  BY DEF TypeOK, Rows, Snapshots
<1> QED
  BY <1>1, <1>2 DEF RowMoves, Agrees

\* The row itself and the empty entry agree with every row.
LEMMA FreshSnapshots ==
    ASSUME TypeOK, NEW c \in Checkouts, checkout[c].version = 0 => checkout[c] = NoRow
    PROVE  Agrees(Snapshot(c), c) /\ Agrees(NoSnapshot, c)
BY DEF TypeOK, Rows, Agrees, Snapshot, NoSnapshot, NoRow

\* A row that exists has a version, and nobody holds a snapshot of one that
\* does not.
RowsExist ==
    \A c \in Checkouts : checkout[c].version = 0 => checkout[c] = NoRow

VersionInv == TypeOK /\ SnapshotsAgree /\ FreshDrafts /\ RowsExist

LEMMA NoSnapshotOfNoRow ==
    ASSUME VersionInv, NEW c \in Checkouts, checkout[c] = NoRow, NEW s \in Snapshots,
           Agrees(s, c)
    PROVE  s = NoSnapshot
BY DEF Agrees, NoRow, NoSnapshot, Snapshots

LEMMA RowsExistStep ==
    ASSUME VersionInv, [Next]_vars
    PROVE  RowsExist'
<1> SUFFICES ASSUME NEW c \in Checkouts, checkout'[c].version = 0
             PROVE  checkout'[c] = NoRow
  BY DEF RowsExist
<1>1. RowMoves(c) /\ checkout[c] \in Rows
  BY RowStep DEF VersionInv, TypeOK
<1>2. checkout[c].version = 0
  BY <1>1 DEF RowMoves, Rows
<1>3. checkout[c] = NoRow
  BY <1>2 DEF VersionInv, RowsExist
<1>4. ~Inserted(c) /\ ~Committed(c)
  BY <1>2 DEF Inserted, Committed, CommitShape
<1>5. ~DueDatePassed(c) /\ ~MarkedOverdue(c)
  BY <1>3 DEF DueDatePassed, MarkedOverdue, NoRow
<1> QED
  BY <1>3, <1>4, <1>5, RowChanges DEF VersionInv

LEMMA FreshDraftsStep ==
    ASSUME VersionInv, [Next]_vars
    PROVE  FreshDrafts'
<1> USE DEF VersionInv
<1>1. ASSUME NEW r \in Requests, RequestStep(r)
      PROVE  FreshDrafts'
  <2>1. ASSUME NEW c \in Checkouts, CreateCheck(r, c)
        PROVE  FreshDrafts'
    <3>1. /\ checkout[c] = NoRow
          /\ request'[r].phase = "checked" /\ request'[r].checkout = c
          /\ \A q \in Requests \ {r} : request'[q] = request[q]
          /\ \A q \in Requests : request[q] # Idle => request[q].checkout # c
          /\ checkout' = checkout
      BY <2>1 DEF CreateCheck, TypeOK
    <3>2. \A q \in Requests : request[q].phase = "checked" => request[q] # Idle
      BY DEF Idle
    <3> QED
      BY <3>1, <3>2 DEF FreshDrafts
  <2>2. CASE CreateInsert(r)
    <3>1. /\ request[r].phase = "checked" /\ request[r].checkout \in Checkouts
          /\ request'[r] = Idle
          /\ \A q \in Requests \ {r} : request'[q] = request[q]
          /\ \A c \in Checkouts \ {request[r].checkout} : checkout'[c] = checkout[c]
      BY <2>2, RequestShapes DEF CreateInsert, TypeOK
    <3> SUFFICES ASSUME NEW q \in Requests, request'[q].phase = "checked"
                 PROVE  /\ checkout'[request'[q].checkout] = NoRow
                        /\ \A p \in Requests \ {q} :
                               request'[p] # Idle =>
                                   request'[p].checkout # request'[q].checkout
      BY DEF FreshDrafts
    <3>2. q # r /\ request'[q] = request[q]
      BY <3>1 DEF Idle
    <3>3. request[q].checkout # request[r].checkout /\ request[q].checkout \in Checkouts
      BY <3>1, <3>2, RequestShapes DEF FreshDrafts, Idle
    <3> QED
      BY <3>1, <3>2, <3>3 DEF FreshDrafts
  <2>3. ASSUME NEW c \in Checkouts, NEW op \in Operations, Load(r, c, op)
        PROVE  FreshDrafts'
    <3>1. /\ request'[r].phase = "loaded" /\ request'[r].checkout = c
          /\ \A q \in Requests \ {r} : request'[q] = request[q]
          /\ checkout' = checkout /\ cache[c] # NoSnapshot
      BY <2>3 DEF Load, TypeOK
    <3>2. checkout[c] # NoRow
      BY <3>1, NoSnapshotOfNoRow DEF SnapshotsAgree, TypeOK
    <3> QED
      BY <3>1, <3>2 DEF FreshDrafts
  <2>4. ASSUME \A q \in Requests \ {r} : request'[q] = request[q],
               request[r].phase # "checked",
               \/ request'[r] = Idle
               \/ /\ request'[r].phase # "checked"
                  /\ request'[r].checkout = request[r].checkout
                  /\ request[r] # Idle,
               \A q \in Requests : request[q].phase = "checked" =>
                   checkout'[request[q].checkout] = checkout[request[q].checkout]
        PROVE  FreshDrafts'
    BY <2>4 DEF FreshDrafts, Idle
  <2>5. CASE Commit(r)
    <3>1. CommitShape(r) /\ request[r] # Idle
      BY <2>5, CommitHasShape DEF CommitShape, Idle
    <3>2. \A q \in Requests : request[q].phase = "checked" =>
              /\ q # r
              /\ request[q].checkout \in Checkouts
              /\ request[q].checkout # request[r].checkout
      BY <3>1, RequestShapes DEF CommitShape, FreshDrafts
    <3> QED
      BY <2>4, <3>1, <3>2 DEF CommitShape
  <2>6. CASE Conflict(r) \/ invalidateCache(r)
    BY <2>4, <2>6 DEF Conflict, invalidateCache, TypeOK
  <2>7. CASE Announce(r)
    BY <2>4, <2>7 DEF Announce, Close, Closing, TypeOK, Idle
  <2>8. CASE Fail(r)
    <3>1. /\ request'[r] = Idle /\ checkout' = checkout
          /\ \A q \in Requests \ {r} : request'[q] = request[q]
      BY <2>8 DEF Fail, TypeOK
    <3> QED
      BY <3>1 DEF FreshDrafts, Idle
  <2> QED
    BY <1>1, <2>1, <2>2, <2>3, <2>5, <2>6, <2>7, <2>8 DEF RequestStep
<1>2. ASSUME NEW d \in Checkouts, DueDatePasses(d)
      PROVE  FreshDrafts'
  <2>1. checkout[d] # NoRow
    BY <1>2 DEF DueDatePasses, NoRow
  <2> QED
    BY <1>2, <2>1 DEF DueDatePasses, FreshDrafts, TypeOK
<1>3. CASE CheckOverdueCheckouts
  <2>1. \A c \in Checkouts : checkout[c] = NoRow => checkout'[c] = NoRow
    <3> SUFFICES ASSUME NEW c \in Checkouts, checkout[c] = NoRow
                 PROVE  checkout'[c] = NoRow
      OBVIOUS
    <3>1. checkout[c].status # "checked_out"
      BY DEF NoRow
    <3> QED
      BY <1>3, <3>1 DEF CheckOverdueCheckouts
  <2> QED
    BY <1>3, <2>1, RequestShapes DEF CheckOverdueCheckouts, FreshDrafts
<1>4. CASE Restart
  BY <1>4 DEF Restart, FreshDrafts, Idle
<1>5. CASE UNCHANGED <<checkout, request>>
  BY <1>5 DEF FreshDrafts
<1> QED
  BY <1>1, <1>2, <1>3, <1>4, <1>5
     DEF Next, ReadRow, StoreRow, Evict, InvalidateOverdue, vars

\* Where the snapshots of the next state come from.
LEMMA SnapshotOrigins ==
    ASSUME TypeOK, [Next]_vars, NEW c \in Checkouts
    PROVE  /\ cache'[c] \in {cache[c], fill[c], NoSnapshot}
           /\ fill'[c] \in {fill[c], Snapshot(c), NoSnapshot}
<1>1. ASSUME NEW r \in Requests, RequestStep(r)
      PROVE  cache'[c] \in {cache[c], NoSnapshot} /\ fill' = fill
  <2>1. CASE Commit(r)
    BY <2>1, CommitHasShape DEF CommitShape
  <2>2. CASE UNCHANGED <<cache, fill>>
    BY <2>2
  <2>3. CASE Conflict(r) \/ invalidateCache(r)
    BY <2>3 DEF Conflict, invalidateCache, TypeOK
  <2> QED
    BY <1>1, <2>1, <2>2, <2>3
       DEF RequestStep, CreateCheck, CreateInsert, Load, Announce, Fail
<1>2. ASSUME NEW d \in Checkouts,
             \/ ReadRow(d) \/ StoreRow(d) \/ Evict(d) \/ DueDatePasses(d)
             \/ InvalidateOverdue(d)
      PROVE  /\ cache'[c] \in {cache[c], fill[c], NoSnapshot}
             /\ fill'[c] \in {fill[c], Snapshot(c), NoSnapshot}
  BY <1>2 DEF ReadRow, StoreRow, Evict, DueDatePasses, InvalidateOverdue, TypeOK
<1>3. CASE Restart
  BY <1>3 DEF Restart
<1>4. CASE CheckOverdueCheckouts \/ UNCHANGED vars
  BY <1>4 DEF CheckOverdueCheckouts, vars
<1> QED
  BY <1>1, <1>2, <1>3, <1>4 DEF Next

\* A request holds a snapshot because it did before or has just loaded it.
LEMMA LoadedOrigins ==
    ASSUME TypeOK, [Next]_vars, NEW r \in Requests, request'[r].phase = "loaded"
    PROVE  \/ request'[r] = request[r]
           \/ \E c \in Checkouts, op \in Operations : Load(r, c, op)
<1>1. ASSUME NEW q \in Requests, RequestStep(q)
      PROVE  \/ request'[r] = request[r]
             \/ \E c \in Checkouts, op \in Operations : Load(r, c, op)
  <2>1. CASE q # r
    <3>1. CASE Commit(q)
      BY <2>1, <3>1, CommitHasShape DEF CommitShape
    <3> QED
      BY <1>1, <2>1, <3>1
         DEF RequestStep, CreateCheck, CreateInsert, Load, Conflict, Announce, Close,
             invalidateCache, Fail, TypeOK
  <2>2. CASE q = r
    <3>1. ASSUME NEW c \in Checkouts, CreateCheck(r, c)
          PROVE  FALSE
      BY <3>1 DEF CreateCheck, TypeOK
    <3>2. ~(CreateInsert(r) \/ Conflict(r) \/ invalidateCache(r) \/ Fail(r))
      <4>1. request'[r] # Idle
        BY DEF Idle
      <4> QED
        BY <4>1 DEF CreateInsert, Conflict, invalidateCache, Fail, TypeOK
    <3>3. ~Announce(r)
      BY DEF Announce, Close, Closing, TypeOK
    <3>4. ~Commit(r)
      BY CommitHasShape DEF CommitShape
    <3> QED
      BY <1>1, <2>2, <3>1, <3>2, <3>3, <3>4 DEF RequestStep
  <2> QED
    BY <2>1, <2>2
<1>2. CASE Restart
  BY <1>2 DEF Restart, Idle
<1>3. CASE UNCHANGED request
  BY <1>3
<1> QED
  BY <1>1, <1>2, <1>3
     DEF Next, ReadRow, StoreRow, Evict, DueDatePasses, InvalidateOverdue,
         CheckOverdueCheckouts, vars

LEMMA SnapshotsAgreeStep ==
    ASSUME VersionInv, [Next]_vars
    PROVE  SnapshotsAgree'
<1> DEFINE AgreesNext(s, c) ==
               /\ s.version <= checkout'[c].version
               /\ s.version = checkout'[c].version => s.status = checkout'[c].status
<1>1. ASSUME NEW c \in Checkouts, NEW s \in Snapshots, Agrees(s, c)
      PROVE  AgreesNext(s, c)
  BY <1>1, AgreesStep DEF VersionInv, Agrees
<1>2. ASSUME NEW c \in Checkouts
      PROVE  /\ AgreesNext(cache[c], c) /\ AgreesNext(fill[c], c)
             /\ AgreesNext(Snapshot(c), c) /\ AgreesNext(NoSnapshot, c)
  <2>1. /\ cache[c] \in Snapshots /\ fill[c] \in Snapshots
        /\ Snapshot(c) \in Snapshots /\ NoSnapshot \in Snapshots
    BY DEF VersionInv, TypeOK, Rows, Snapshots, Snapshot, NoSnapshot
  <2> QED
    BY <1>1, <2>1, FreshSnapshots DEF VersionInv, SnapshotsAgree, RowsExist
<1>3. ASSUME NEW r \in Requests, request'[r].phase = "loaded"
      PROVE  AgreesNext(request'[r].row, request'[r].checkout)
  <2>1. CASE request'[r] = request[r]
    <3>1. request[r].checkout \in Checkouts /\ request[r].row \in Snapshots
      BY <1>3, <2>1, RequestShapes DEF VersionInv
    <3> QED
      BY <1>1, <1>3, <2>1, <3>1 DEF VersionInv, SnapshotsAgree
  <2>2. ASSUME NEW c \in Checkouts, NEW op \in Operations, Load(r, c, op)
        PROVE  AgreesNext(request'[r].row, request'[r].checkout)
    <3>1. request'[r].checkout = c /\ request'[r].row = cache[c]
      BY <2>2 DEF Load, VersionInv, TypeOK
    <3> QED
      BY <1>2, <3>1
  <2> QED
    BY <1>3, <2>1, <2>2, LoadedOrigins DEF VersionInv
<1>4. ASSUME NEW c \in Checkouts
      PROVE  AgreesNext(cache'[c], c) /\ AgreesNext(fill'[c], c)
  BY <1>2, SnapshotOrigins DEF VersionInv
<1> QED
  BY <1>3, <1>4 DEF SnapshotsAgree, Agrees

LEMMA VersionsInitially == Init => VersionInv
<1> SUFFICES ASSUME Init
             PROVE  VersionInv
  OBVIOUS
<1>1. TypeOK
  BY TypeInitially
<1>2. SnapshotsAgree
  BY DEF Init, SnapshotsAgree, Agrees, NoRow, NoSnapshot, Idle
<1>3. FreshDrafts /\ RowsExist
  BY DEF Init, FreshDrafts, RowsExist, Idle
<1> QED
  BY <1>1, <1>2, <1>3 DEF VersionInv

LEMMA VersionsStep == VersionInv /\ [Next]_vars => VersionInv'
BY TypeStep, SnapshotsAgreeStep, FreshDraftsStep, RowsExistStep DEF VersionInv

LEMMA VersionsInvariant == Spec => []VersionInv
BY VersionsInitially, VersionsStep, PTL DEF Spec

\* No snapshot, however late it was stored or used, contradicts the row at the
\* row's own version: the version decides the status.
THEOREM VersionsDecide == Spec => []SnapshotsAgree
<1>1. VersionInv => SnapshotsAgree
  BY DEF VersionInv
<1> QED
  BY <1>1, VersionsInvariant, PTL

=============================================================================
