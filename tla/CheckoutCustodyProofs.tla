------------------------- MODULE CheckoutCustodyProofs -------------------------
(***************************************************************************)
(* Proofs about the equipment of checkouts, as long as no two checkouts in *)
(* progress claim the same equipment, and for clients that send the        *)
(* version of the detail they act on.                                      *)
(***************************************************************************)
EXTENDS CheckoutFlowProofs

-----------------------------------------------------------------------------
(* What a commit does to the equipment *)

\* The status an operation on a row leaves a piece of its equipment in.
Moved(op, row, status) ==
    IF op \in {"start", "lender_checkout"} THEN "checked_out"
    ELSE IF op = "lender_return" THEN "available"
    ELSE IF op = "approve_return" /\ status = "checked_out" THEN "available"
    ELSE IF op = "reject_return" /\ row.purpose = "rental" /\ status = "available"
         THEN "checked_out"
    ELSE status

EquipmentMoved(r) ==
    \A e \in Equipment :
        equipment'[e] = IF e \in Row(r).items
                        THEN Moved(request[r].op, Row(r), equipment[e])
                        ELSE equipment[e]

LEMMA BatchEffect ==
    ASSUME NEW c, NEW expected, NEW status, updateStatusBatch(c, expected, status),
           NEW e \in Equipment
    PROVE  equipment'[e] = IF e \in checkout[c].items /\ equipment[e] \in expected
                           THEN status ELSE equipment[e]
BY DEF updateStatusBatch

LEMMA CommitEquipment ==
    ASSUME TypeOK, NEW r \in Requests, Commit(r)
    PROVE  EquipmentMoved(r)
<1>1. ASSUME KeepsEquipment,
             request[r].op \notin {"start", "lender_checkout", "lender_return",
                                   "approve_return"},
             request[r].op = "reject_return" => Row(r).purpose # "rental"
      PROVE  EquipmentMoved(r)
  BY <1>1 DEF KeepsEquipment, EquipmentMoved, Moved
<1>2. CASE \/ Approve(r) \/ BorrowerApprove(r) \/ BorrowerReject(r) \/ Reject(r)
           \/ SubmitReturn(r) \/ Cancel(r) \/ Update(r) \/ RevokeApproval(r)
  <2>1. /\ KeepsEquipment
        /\ request[r].op \in {"approve", "borrower_approve", "borrower_reject", "reject",
                              "submit_return", "cancel", "update", "revoke"}
    BY <1>2
       DEF Approve, BorrowerApprove, BorrowerReject, Reject, SubmitReturn, Cancel, Update,
           RevokeApproval, updateWithVersion
  <2> QED
    BY <1>1, <2>1
<1>3. CASE Start(r)
  <2>1. /\ request[r].op = "start"
        /\ updateStatusBatch(request[r].checkout, EquipmentStatuses, "checked_out")
    BY <1>3 DEF Start, updateWithVersion
  <2> QED
    BY <2>1, BatchEffect DEF EquipmentMoved, Moved, Row, TypeOK
<1>4. CASE ApproveReturn(r)
  <2>1. /\ request[r].op = "approve_return"
        /\ updateStatusBatch(request[r].checkout, {"checked_out"}, "available")
    BY <1>4 DEF ApproveReturn, updateWithVersion
  <2> QED
    BY <2>1, BatchEffect DEF EquipmentMoved, Moved, Row
<1>5. CASE RejectReturn(r)
  <2>1. /\ request[r].op = "reject_return"
        /\ IF Row(r).purpose = "rental"
           THEN updateStatusBatch(request[r].checkout, {"available"}, "checked_out")
           ELSE KeepsEquipment
    BY <1>5 DEF RejectReturn, updateWithVersion
  <2>2. CASE Row(r).purpose = "rental"
    BY <2>1, <2>2, BatchEffect DEF EquipmentMoved, Moved, Row
  <2>3. CASE Row(r).purpose # "rental"
    BY <1>1, <2>1, <2>3
  <2> QED
    BY <2>2, <2>3
<1>6. ASSUME NEW step \in Steps, SubmitConditionCheck(r, step)
      PROVE  EquipmentMoved(r)
  <2>1. request[r].op = step
    BY <1>6 DEF SubmitConditionCheck, updateWithVersion
  <2>2. CASE step = "lender_checkout"
    <3>1. updateStatusBatch(request[r].checkout, EquipmentStatuses, "checked_out")
      BY <1>6, <2>2 DEF SubmitConditionCheck
    <3> QED
      BY <2>1, <2>2, <3>1, BatchEffect DEF EquipmentMoved, Moved, Row, TypeOK
  <2>3. CASE step = "lender_return"
    <3>1. updateStatusBatch(request[r].checkout, EquipmentStatuses, "available")
      BY <1>6, <2>3 DEF SubmitConditionCheck
    <3> QED
      BY <2>1, <2>3, <3>1, BatchEffect DEF EquipmentMoved, Moved, Row, TypeOK
  <2>4. CASE step \in {"borrower_receive", "borrower_return"}
    <3>1. KeepsEquipment
      BY <1>6, <2>4 DEF SubmitConditionCheck
    <3> QED
      BY <1>1, <2>1, <2>4, <3>1
  <2> QED
    BY <2>2, <2>3, <2>4, StepSet
<1> QED
  BY <1>2, <1>3, <1>4, <1>5, <1>6 DEF Commit

-----------------------------------------------------------------------------
(* Equipment is marked as checked out exactly while a checkout has it *)

\* What the state machine lets an operation do to the custody of equipment.
LEMMA CustodyOfOperation ==
    ASSUME NEW op, NEW row, Permits(op, row.status, row.purpose),
           StatusFits(row.status, row.purpose)
    PROVE  LET new == NewStatus(op, row)
           IN  /\ op \in {"start", "lender_checkout"} =>
                      row.status = "approved" /\ new \in Away
               /\ op = "lender_return" =>
                      row.status = "borrower_returned" /\ new = "lender_received"
               /\ op = "approve_return" =>
                      row.status = "returned" /\ new = "return_approved"
               /\ op = "reject_return" /\ row.purpose = "rental" =>
                      row.status = "lender_received" /\ new = "in_use"
               /\ op \notin {"start", "lender_checkout", "lender_return",
                             "approve_return"}
                  /\ ~(op = "reject_return" /\ row.purpose = "rental")
                  => (row.status \in Away <=> new \in Away)
               /\ new = "lender_received" => op = "lender_return"
<1>1. CASE op \in Steps
  <2>1. /\ row.status = stepTransitions[op].requiredStatus
        /\ NewStatus(op, row) = stepTransitions[op].nextStatus
    BY <1>1, StepSet DEF Permits, FsmOperations, NewStatus
  <2>2. CASE op = "lender_checkout"
    BY <2>1, <2>2 DEF stepTransitions, Away
  <2>3. CASE op = "borrower_receive"
    BY <2>1, <2>3 DEF stepTransitions, Away
  <2>4. CASE op = "borrower_return"
    BY <2>1, <2>4 DEF stepTransitions, Away
  <2>5. CASE op = "lender_return"
    BY <2>1, <2>5 DEF stepTransitions, Away
  <2> QED
    BY <1>1, <2>2, <2>3, <2>4, <2>5, StepSet
<1>2. CASE op = "update" \/ op = "revoke"
  BY <1>2, StepSet DEF Permits, FsmOperations, NewStatus, Away
<1>3. CASE op \in FsmOperations
  <2>1. op \notin Steps /\ op # "update" /\ op # "revoke"
    BY <1>3, StepSet DEF FsmOperations
  <2>2. PICK t \in CHECKOUT_TRANSITIONS :
            t.from = row.status /\ t.action = op /\ row.purpose \in t.purposes
    BY <2>1 DEF Permits, CanPerformAction
  <2>3. ~(row.purpose = "rental" /\ row.status = "overdue")
    BY DEF StatusFits, ShopStatuses
  <2>4. t.to = NewStatus(op, row)
    BY <1>3, <2>1, <2>2, <2>3
       DEF CHECKOUT_TRANSITIONS, Rule, NewStatus, FsmOperations, RENTAL, CAL_REPAIR,
           Purposes
  <2> QED
    BY <1>3, <2>1, <2>2, <2>3, <2>4
       DEF CHECKOUT_TRANSITIONS, Rule, FsmOperations, RENTAL, CAL_REPAIR, Purposes, Away
<1> QED
  BY <1>1, <1>2, <1>3 DEF Permits

\* While nobody commits, no checkout gains or loses equipment.
Quiet ==
    /\ equipment' = equipment
    /\ \A c \in Checkouts :
           /\ checkout[c].status \in Away <=> checkout'[c].status \in Away
           /\ checkout'[c].status = "lender_received" =>
                  checkout[c].status = "lender_received"
           /\ checkout[c].status \in Away \cup {"lender_received"} =>
                  checkout'[c].items = checkout[c].items

LEMMA QuietOrCommit ==
    ASSUME TypeOK, FreshDrafts, [Next]_vars
    PROVE  Quiet \/ \E r \in Requests : Commit(r)
<1> SUFFICES ASSUME ~\E r \in Requests : Commit(r)
             PROVE  Quiet
  OBVIOUS
<1>1. equipment' = equipment
  BY DEF Next, RequestStep, CreateCheck, CreateInsert, Load, Conflict, Announce,
         invalidateCache, Fail, ReadRow, StoreRow, Evict, DueDatePasses,
         InvalidateOverdue, CheckOverdueCheckouts, Restart, vars
<1>2. ASSUME NEW c \in Checkouts
      PROVE  /\ checkout[c].status \in Away <=> checkout'[c].status \in Away
             /\ checkout'[c].status = "lender_received" =>
                    checkout[c].status = "lender_received"
             /\ checkout[c].status \in Away \cup {"lender_received"} =>
                    checkout'[c].items = checkout[c].items
  <2>1. checkout[c] \in Rows
    BY DEF TypeOK
  <2>2. CASE checkout'[c] = checkout[c]
    BY <2>2
  <2>3. CASE Inserted(c)
    BY <2>3 DEF Inserted, NoRow, Away
  <2>4. CASE DueDatePassed(c)
    <3>1. checkout'[c].status = checkout[c].status /\ checkout'[c].items = checkout[c].items
      BY <2>1, <2>4 DEF DueDatePassed, Rows
    <3> QED
      BY <3>1
  <2>5. CASE MarkedOverdue(c)
    <3>1. /\ checkout[c].status = "checked_out" /\ checkout'[c].status = "overdue"
          /\ checkout'[c].items = checkout[c].items
      BY <2>1, <2>5 DEF MarkedOverdue, Rows
    <3> QED
      BY <3>1 DEF Away
  <2> QED
    BY <2>2, <2>3, <2>4, <2>5, RowChanges DEF Committed
<1> QED
  BY <1>1, <1>2 DEF Quiet

Holds(c, e) == checkout[c].status \in Away /\ e \in checkout[c].items
WillHold(c, e) == checkout'[c].status \in Away /\ e \in checkout'[c].items

LEMMA ActiveHolds ==
    ASSUME NEW e \in Equipment
    PROVE  Active(e, Away) # {} <=> \E c \in Checkouts : Holds(c, e)
BY DEF Active, Holds

LEMMA ActiveHoldsNext ==
    ASSUME NEW e \in Equipment
    PROVE  Active(e, Away)' # {} <=> \E c \in Checkouts : WillHold(c, e)
BY DEF Active, WillHold

\* A rental that has come back is back in the lab, ready for use.
BackInLab ==
    \A c \in Checkouts :
        checkout[c].status = "lender_received" =>
            \A e \in checkout[c].items : equipment[e] = "available"

CustodyInv == FreshInv /\ EquipmentFollowsCheckout /\ BackInLab

\* A commit of a row that has a claim, seen from one piece of equipment.
LEMMA CommitCustody ==
    ASSUME CustodyInv, NoDoubleBooking, NEW r \in Requests, Commit(r)
    PROVE  EquipmentFollowsCheckout' /\ BackInLab'
<1> DEFINE c == request[r].checkout
           old == checkout[c]
           new == checkout'[c]
           op == request[r].op
<1>1. TypeOK /\ CommitShape(r) /\ EquipmentMoved(r)
  BY CommitHasShape, CommitEquipment DEF CustodyInv, FreshInv, FlowInv, VersionInv
<1>2. /\ c \in Checkouts /\ new.items = old.items
      /\ new.status = NewStatus(op, old)
      /\ \A d \in Checkouts \ {c} : checkout'[d] = checkout[d]
  BY <1>1 DEF CommitShape, Follows
<1>3. Permits(op, old.status, old.purpose) /\ StatusFits(old.status, old.purpose)
  <2>1. StatusFits(old.status, old.purpose)
    BY <1>2 DEF CustodyInv, FreshInv, FlowInv, StatusFitsPurpose
  <2> QED
    BY <1>1, <2>1, StatusConfirmed DEF CustodyInv
<1>4. old.status \in Claiming \/ old.status = "none"
  BY <1>1, <1>2, <1>3, NothingPermitted DEF Claiming, TypeOK, Rows
<1>5. old.status # "none"
  BY <1>3 DEF Permits, CanPerformAction, CHECKOUT_TRANSITIONS, Rule, Steps,
              stepTransitions
<1>6. \A e \in old.items, d \in Checkouts \ {c} :
          checkout[d].status \in Claiming => e \notin checkout[d].items
  BY <1>2, <1>4, <1>5 DEF NoDoubleBooking
<1>7. Away \cup {"lender_received"} \subseteq Claiming
  BY DEF Away, Claiming, Statuses, TERMINAL_STATES
<1>8. Row(r) = old
  BY DEF Row
<1> HIDE DEF old, new, op, c
<1>9. ASSUME NEW e \in Equipment
      PROVE  equipment'[e] = "checked_out" <=> \E d \in Checkouts : WillHold(d, e)
  <2>1. equipment[e] = "checked_out" <=> \E d \in Checkouts : Holds(d, e)
    BY ActiveHolds DEF CustodyInv, EquipmentFollowsCheckout
  <2>2. \A d \in Checkouts \ {c} : WillHold(d, e) <=> Holds(d, e)
    BY <1>2 DEF Holds, WillHold
  <2>3. /\ Holds(c, e) <=> old.status \in Away /\ e \in old.items
        /\ WillHold(c, e) <=> new.status \in Away /\ e \in old.items
    BY <1>2 DEF Holds, WillHold, old, new
  <2>4. CASE e \notin old.items
    <3>1. equipment'[e] = equipment[e]
      BY <1>1, <1>8, <2>4 DEF EquipmentMoved
    <3> QED
      BY <2>1, <2>2, <2>3, <2>4, <3>1
  <2>5. CASE e \in old.items
    <3>1. \A d \in Checkouts \ {c} : ~Holds(d, e)
      BY <1>6, <1>7, <2>5 DEF Holds
    <3>2. equipment[e] = "checked_out" <=> old.status \in Away
      BY <1>2, <2>1, <2>3, <2>5, <3>1
    <3>3. equipment'[e] = Moved(op, old, equipment[e])
      BY <1>1, <1>8, <2>5 DEF EquipmentMoved, op
    <3>4. CASE op \in {"start", "lender_checkout"}
      BY <1>2, <1>3, <3>3, <3>4, CustodyOfOperation, <2>2, <2>3, <2>5, <3>1 DEF Moved
    <3>5. CASE op = "lender_return"
      <4>1. new.status = "lender_received"
        BY <1>2, <1>3, <3>5, CustodyOfOperation
      <4> QED
        BY <2>2, <2>3, <3>1, <3>3, <3>5, <4>1 DEF Moved, Away
    <3>6. CASE op = "approve_return"
      <4>1. old.status = "returned" /\ new.status = "return_approved"
        BY <1>2, <1>3, <3>6, CustodyOfOperation
      <4> QED
        BY <2>2, <2>3, <3>1, <3>2, <3>3, <3>6, <4>1 DEF Moved, Away
    <3>7. CASE op = "reject_return" /\ old.purpose = "rental"
      <4>1. old.status = "lender_received" /\ new.status = "in_use"
        BY <1>2, <1>3, <3>7, CustodyOfOperation
      <4>2. equipment[e] = "available"
        BY <1>2, <2>5, <4>1 DEF CustodyInv, BackInLab, old
      <4> QED
        BY <1>2, <2>3, <2>5, <3>3, <3>7, <4>1, <4>2 DEF Moved, Away
    <3>8. CASE /\ op \notin {"start", "lender_checkout", "lender_return",
                             "approve_return"}
               /\ ~(op = "reject_return" /\ old.purpose = "rental")
      <4>1. old.status \in Away <=> new.status \in Away
        BY <1>2, <1>3, <3>8, CustodyOfOperation
      <4>2. equipment'[e] = equipment[e]
        BY <3>3, <3>8 DEF Moved
      <4> QED
        BY <1>2, <2>2, <2>3, <2>5, <3>1, <3>2, <4>1, <4>2
    <3> QED
      BY <3>4, <3>5, <3>6, <3>7, <3>8
  <2> QED
    BY <2>4, <2>5
<1>10. EquipmentFollowsCheckout'
  BY <1>9, ActiveHoldsNext DEF EquipmentFollowsCheckout
<1>11. ASSUME NEW d \in Checkouts, checkout'[d].status = "lender_received",
              NEW e \in checkout'[d].items
       PROVE  equipment'[e] = "available"
  <2>1. CASE d = c
    <3>1. op = "lender_return" /\ e \in old.items
      BY <1>2, <1>3, <1>11, <2>1, CustodyOfOperation DEF new
    <3>2. e \in Equipment
      BY <1>1, <1>2, <3>1 DEF CustodyInv, FreshInv, FlowInv, VersionInv, TypeOK, Rows, old
    <3> QED
      BY <1>1, <1>8, <3>1, <3>2 DEF EquipmentMoved, Moved, op
  <2>2. CASE d # c
    <3>1. checkout[d].status = "lender_received" /\ e \in checkout[d].items
      BY <1>2, <1>11, <2>2
    <3>2. e \notin old.items
      BY <1>6, <1>7, <2>2, <3>1
    <3>3. e \in Equipment
      BY <1>1, <3>1 DEF TypeOK, Rows
    <3>4. equipment[e] = "available"
      BY <3>1 DEF CustodyInv, BackInLab
    <3> QED
      BY <1>1, <1>8, <3>2, <3>3, <3>4 DEF EquipmentMoved
  <2> QED
    BY <2>1, <2>2
<1> QED
  BY <1>10, <1>11 DEF BackInLab

LEMMA QuietCustody ==
    ASSUME CustodyInv, Quiet
    PROVE  EquipmentFollowsCheckout' /\ BackInLab'
<1>1. ASSUME NEW e \in Equipment
      PROVE  equipment'[e] = "checked_out" <=> \E d \in Checkouts : WillHold(d, e)
  <2>1. equipment[e] = "checked_out" <=> \E d \in Checkouts : Holds(d, e)
    BY ActiveHolds DEF CustodyInv, EquipmentFollowsCheckout
  <2>2. \A d \in Checkouts : WillHold(d, e) <=> Holds(d, e)
    BY DEF Quiet, Holds, WillHold
  <2> QED
    BY <2>1, <2>2 DEF Quiet
<1>2. EquipmentFollowsCheckout'
  BY <1>1, ActiveHoldsNext DEF EquipmentFollowsCheckout
<1>3. BackInLab'
  BY DEF Quiet, CustodyInv, BackInLab
<1> QED
  BY <1>2, <1>3

LEMMA CustodyInitially == Init => EquipmentFollowsCheckout /\ BackInLab
BY StartAssumption DEF Init, EquipmentFollowsCheckout, Active, BackInLab, NoRow, Away

LEMMA CustodyStep ==
    FreshInv /\ EquipmentFollowsCheckout /\ BackInLab /\ NoDoubleBooking /\ [Next]_vars
    => EquipmentFollowsCheckout' /\ BackInLab'
<1> SUFFICES ASSUME FreshInv, EquipmentFollowsCheckout, BackInLab, NoDoubleBooking,
                    [Next]_vars
             PROVE  EquipmentFollowsCheckout' /\ BackInLab'
  OBVIOUS
<1>1. CustodyInv
  BY DEF CustodyInv
<1>2. Quiet \/ \E r \in Requests : Commit(r)
  BY QuietOrCommit DEF FreshInv, FlowInv, VersionInv
<1> QED
  BY <1>1, <1>2, QuietCustody, CommitCustody

\* Equipment is marked checked out exactly while a checkout has it, as long as
\* no two checkouts in progress claim the same equipment and clients send the
\* version of the detail they act on: the batch updates of the commits, two of
\* which look at no equipment status, lose no hand-over and no return.
THEOREM EquipmentFollows ==
    ASSUME ClientVersions = FALSE
    PROVE  Spec /\ []NoDoubleBooking => []EquipmentFollowsCheckout
BY CustodyInitially, CustodyStep, FreshInvariant, PTL DEF Spec


-----------------------------------------------------------------------------
(* The service implements the promise of Custody *)

LEMMA StageValues ==
    /\ stageOf["none"] = "none"
    /\ \A s \in {"pending", "borrower_approved"} : stageOf[s] = "asked"
    /\ stageOf["approved"] = "agreed"
    /\ \A s \in Away : stageOf[s] = "out"
    /\ stageOf["lender_received"] = "back"
    /\ stageOf["return_approved"] = "settled"
    /\ \A s \in {"rejected", "canceled"} : stageOf[s] = "refused"
BY DEF stageOf, Away

\* What a permitted operation means for the promise.
LEMMA StageOfOperation ==
    ASSUME NEW op, NEW row, Permits(op, row.status, row.purpose),
           StatusFits(row.status, row.purpose)
    PROVE  LET from == stageOf[row.status]
               to   == stageOf[NewStatus(op, row)]
           IN  \/ op = "approve" /\ from = "asked" /\ to = "agreed"
               \/ op = "revoke" /\ from = "agreed" /\ to = "asked"
               \/ /\ op \in {"borrower_reject", "reject", "cancel"}
                  /\ from \in {"asked", "agreed"}
                  /\ to = "refused"
               \/ /\ op \in {"start", "lender_checkout"}
                  /\ from = "agreed"
                  /\ to = "out"
               \/ op = "lender_return" /\ from = "out" /\ to = "back"
               \/ op = "approve_return" /\ from = "out" /\ to = "settled"
               \/ op = "submit_return" /\ from = "back" /\ to = "settled"
               \/ /\ op = "reject_return" /\ row.purpose = "rental"
                  /\ from = "back"
                  /\ to = "out"
               \/ /\ op \in {"borrower_approve", "borrower_receive", "borrower_return",
                             "submit_return", "reject_return", "update"}
                  /\ op = "reject_return" => row.purpose # "rental"
                  /\ from = to
<1>1. CASE op \in Steps
  <2>1. /\ row.status = stepTransitions[op].requiredStatus
        /\ NewStatus(op, row) = stepTransitions[op].nextStatus
    BY <1>1, StepSet DEF Permits, FsmOperations, NewStatus
  <2>2. CASE op = "lender_checkout"
    BY <2>1, <2>2 DEF stepTransitions, stageOf
  <2>3. CASE op = "borrower_receive"
    BY <2>1, <2>3 DEF stepTransitions, stageOf
  <2>4. CASE op = "borrower_return"
    BY <2>1, <2>4 DEF stepTransitions, stageOf
  <2>5. CASE op = "lender_return"
    BY <2>1, <2>5 DEF stepTransitions, stageOf
  <2> QED
    BY <1>1, <2>2, <2>3, <2>4, <2>5, StepSet
<1>2. CASE op = "update" \/ op = "revoke"
  BY <1>2, StepSet DEF Permits, FsmOperations, NewStatus, stageOf
<1>3. CASE op \in FsmOperations
  <2>1. op \notin Steps /\ op # "update" /\ op # "revoke"
    BY <1>3, StepSet DEF FsmOperations
  <2>2. PICK t \in CHECKOUT_TRANSITIONS :
            t.from = row.status /\ t.action = op /\ row.purpose \in t.purposes
    BY <2>1 DEF Permits, CanPerformAction
  <2>3. ~(row.purpose = "rental" /\ row.status = "overdue")
    BY DEF StatusFits, ShopStatuses
  <2>4. t.to = NewStatus(op, row)
    BY <1>3, <2>1, <2>2, <2>3
       DEF CHECKOUT_TRANSITIONS, Rule, NewStatus, FsmOperations, RENTAL, CAL_REPAIR,
           Purposes
  <2>5. \/ op = "approve" /\ t.from \in {"pending", "borrower_approved"}
           /\ t.to = "approved"
        \/ op \in {"borrower_reject", "reject", "cancel"}
           /\ t.from \in {"pending", "borrower_approved", "approved"}
           /\ t.to \in {"rejected", "canceled"}
        \/ op = "start" /\ t.from = "approved" /\ t.to = "checked_out"
        \/ op = "approve_return" /\ t.from = "returned" /\ t.to = "return_approved"
        \/ op = "submit_return" /\ t.from = "lender_received" /\ t.to = "return_approved"
        \/ op = "submit_return" /\ t.from \in {"checked_out", "overdue"}
           /\ t.to = "returned"
        \/ op = "reject_return" /\ row.purpose = "rental"
           /\ t.from = "lender_received" /\ t.to = "in_use"
        \/ op = "reject_return" /\ row.purpose # "rental"
           /\ t.from = "returned" /\ t.to = "checked_out"
        \/ op = "borrower_approve" /\ t.from = "pending" /\ t.to = "borrower_approved"
    BY <1>3, <2>1, <2>2, <2>3
       DEF CHECKOUT_TRANSITIONS, Rule, FsmOperations, RENTAL, CAL_REPAIR, Purposes
  <2> QED
    BY <2>2, <2>4, <2>5 DEF stageOf
<1> QED
  BY <1>1, <1>2, <1>3 DEF Permits

\* A request that has checked a creation has just done so or did so before.
LEMMA CheckedOrigins ==
    ASSUME TypeOK, [Next]_vars, NEW r \in Requests, request'[r].phase = "checked"
    PROVE  request'[r] = request[r] \/ \E c \in Checkouts : CreateCheck(r, c)
<1>1. ASSUME NEW q \in Requests, RequestStep(q), q # r
      PROVE  request'[r] = request[r]
  <2>1. CASE Commit(q)
    BY <1>1, <2>1, CommitHasShape DEF CommitShape
  <2> QED
    BY <1>1, <2>1
       DEF RequestStep, CreateCheck, CreateInsert, Load, Conflict, Announce, Close,
           invalidateCache, Fail, TypeOK
<1>2. request'[r] # Idle
  BY DEF Idle
<1>3. CASE RequestStep(r)
  <2>1. ASSUME NEW c \in Checkouts, NEW op \in Operations, Load(r, c, op)
        PROVE  FALSE
    BY <2>1 DEF Load, TypeOK
  <2>2. ~(CreateInsert(r) \/ Conflict(r) \/ invalidateCache(r) \/ Fail(r))
    BY <1>2 DEF CreateInsert, Conflict, invalidateCache, Fail, TypeOK
  <2>3. ~Announce(r)
    BY DEF Announce, Close, Closing, TypeOK
  <2>4. ~Commit(r)
    BY CommitHasShape DEF CommitShape
  <2> QED
    BY <1>3, <2>1, <2>2, <2>3, <2>4 DEF RequestStep
<1>4. CASE Restart
  BY <1>2, <1>4 DEF Restart
<1>5. CASE UNCHANGED request
  BY <1>5
<1> QED
  BY <1>1, <1>3, <1>4, <1>5
     DEF Next, ReadRow, StoreRow, Evict, DueDatePasses, InvalidateOverdue,
         CheckOverdueCheckouts, vars

\* A creation under way is about some equipment.
DraftsClaim ==
    \A r \in Requests : request[r].phase = "checked" => request[r].items # {}

LEMMA DraftsClaimStep ==
    ASSUME TypeOK, DraftsClaim, [Next]_vars
    PROVE  DraftsClaim'
<1> SUFFICES ASSUME NEW r \in Requests, request'[r].phase = "checked"
             PROVE  request'[r].items # {}
  BY DEF DraftsClaim
<1>1. CASE request'[r] = request[r]
  BY <1>1 DEF DraftsClaim
<1>2. ASSUME NEW c \in Checkouts, CreateCheck(r, c)
      PROVE  request'[r].items # {}
  BY <1>2 DEF CreateCheck, TypeOK
<1> QED
  BY <1>1, <1>2, CheckedOrigins

\* What the steps of the promise say of the rows.
StageMoves(c, from, to) ==
    /\ c \in Checkouts
    /\ stageOf[checkout[c].status] \in from
    /\ stageOf[checkout'[c].status] = to
    /\ \A d \in Checkouts \ {c} : checkout'[d].status = checkout[d].status

LEMMA MovesOfRows ==
    ASSUME NEW c, NEW from, NEW to, StageMoves(c, from, to)
    PROVE  Promise!Moves(c, from, to)
BY DEF StageMoves, Promise!Moves

ClaimsStay == \A d \in Checkouts : checkout'[d].items = checkout[d].items
AwayStays  == \A e \in Equipment :
                  equipment'[e] = "checked_out" <=> equipment[e] = "checked_out"

LEMMA PromiseUnchanged ==
    ASSUME ClaimsStay, AwayStays,
           \A d \in Checkouts : stageOf[checkout'[d].status] = stageOf[checkout[d].status]
    PROVE  UNCHANGED Promise!vars
BY DEF ClaimsStay, AwayStays, Promise!vars

LEMMA InsertAsks ==
    ASSUME TypeOK, FreshDrafts, DraftsClaim, NEW r \in Requests, CreateInsert(r)
    PROVE  Promise!Next
<1>1. PICK c \in Checkouts, items \in (SUBSET Equipment) \ {{}} :
          /\ c = request[r].checkout
          /\ items = request[r].items
          /\ checkout[c] = NoRow
  BY RequestShapes DEF CreateInsert, DraftsClaim, FreshDrafts
<1>2. /\ checkout'[c].status = "pending" /\ checkout'[c].items = items
      /\ \A d \in Checkouts \ {c} : checkout'[d] = checkout[d]
      /\ equipment' = equipment
  BY <1>1 DEF CreateInsert, TypeOK, NoRow
<1>3. StageMoves(c, {"none"}, "asked")
  BY <1>1, <1>2, StageValues DEF StageMoves, NoRow
<1>4. [d \in Checkouts |-> checkout'[d].items] =
      [[d \in Checkouts |-> checkout[d].items] EXCEPT ![c] = items]
  BY <1>1, <1>2
<1>5. Promise!Ask(c)
  BY <1>1, <1>2, <1>3, <1>4, MovesOfRows DEF Promise!Ask
<1> QED
  BY <1>1, <1>5 DEF Promise!Next

LEMMA OtherStepsKeep ==
    ASSUME TypeOK, [Next]_vars, ~\E r \in Requests : CreateInsert(r) \/ Commit(r)
    PROVE  UNCHANGED Promise!vars
<1>1. equipment' = equipment
  BY DEF Next, RequestStep, CreateCheck, CreateInsert, Load, Conflict, Announce,
         invalidateCache, Fail, ReadRow, StoreRow, Evict, DueDatePasses,
         InvalidateOverdue, CheckOverdueCheckouts, Restart, vars
<1>2. ASSUME NEW d \in Checkouts
      PROVE  /\ checkout'[d].items = checkout[d].items
             /\ stageOf[checkout'[d].status] = stageOf[checkout[d].status]
  <2>1. CASE checkout' = checkout
    BY <2>1
  <2>2. ASSUME NEW c \in Checkouts, DueDatePasses(c)
        PROVE  /\ checkout'[d].items = checkout[d].items
               /\ checkout'[d].status = checkout[d].status
    BY <2>2 DEF DueDatePasses, TypeOK, Rows
  <2>3. CASE CheckOverdueCheckouts
    <3>1. \/ checkout'[d] = checkout[d]
          \/ /\ checkout[d].status = "checked_out"
             /\ checkout'[d] = [checkout[d] EXCEPT !.status = "overdue",
                                                   !.version = @ + 1]
      BY <2>3 DEF CheckOverdueCheckouts
    <3>2. checkout[d] \in Rows
      BY DEF TypeOK
    <3>3. CASE checkout'[d] = checkout[d]
      BY <3>3
    <3>4. CASE /\ checkout[d].status = "checked_out"
               /\ checkout'[d] = [checkout[d] EXCEPT !.status = "overdue",
                                                     !.version = @ + 1]
      <4>1. checkout'[d].status = "overdue" /\ checkout'[d].items = checkout[d].items
        BY <3>2, <3>4 DEF Rows
      <4> QED
        BY <3>4, <4>1 DEF stageOf
    <3> QED
      BY <3>1, <3>3, <3>4
  <2> QED
    BY <2>1, <2>2, <2>3
       DEF Next, RequestStep, CreateCheck, Load, Conflict, Announce, invalidateCache,
           Fail, ReadRow, StoreRow, Evict, InvalidateOverdue, Restart, vars
<1> QED
  BY <1>1, <1>2, PromiseUnchanged DEF ClaimsStay, AwayStays

\* The equipment of a checkout about to be handed over, or disputed, is in the lab.
LEMMA NobodyHasIt ==
    ASSUME CustodyInv, NoDoubleBooking, NEW c \in Checkouts,
           checkout[c].status \in Claiming \ Away, NEW e \in checkout[c].items
    PROVE  equipment[e] # "checked_out"
<1>1. e \in Equipment
  BY DEF CustodyInv, FreshInv, FlowInv, VersionInv, TypeOK, Rows
<1>2. Away \subseteq Claiming
  BY DEF Away, Claiming, Statuses, TERMINAL_STATES
<1>3. \A d \in Checkouts : ~Holds(d, e)
  BY <1>2 DEF Holds, NoDoubleBooking
<1> QED
  BY <1>1, <1>3, ActiveHolds DEF CustodyInv, EquipmentFollowsCheckout

\* Every commit is a step of the promise or none.
LEMMA CommitKeepsPromise ==
    ASSUME CustodyInv, NoDoubleBooking, NEW r \in Requests, Commit(r)
    PROVE  Promise!Next \/ UNCHANGED Promise!vars
<1> SUFFICES ASSUME NEW c \in Checkouts, c = request[r].checkout
             PROVE  Promise!Next \/ UNCHANGED Promise!vars
  BY CommitHasShape DEF CommitShape, CustodyInv, FreshInv, FlowInv, VersionInv
<1> DEFINE old == checkout[c]
           new == checkout'[c]
           op == request[r].op
           from == stageOf[old.status]
           to == stageOf[new.status]
<1>1. TypeOK /\ CommitShape(r) /\ EquipmentMoved(r)
  BY CommitHasShape, CommitEquipment DEF CustodyInv, FreshInv, FlowInv, VersionInv
<1>2. /\ new.items = old.items
      /\ new.status = NewStatus(op, old)
      /\ \A d \in Checkouts \ {c} : checkout'[d] = checkout[d]
  BY <1>1 DEF CommitShape, Follows
<1>3. Permits(op, old.status, old.purpose) /\ StatusFits(old.status, old.purpose)
  <2>1. StatusFits(old.status, old.purpose)
    BY <1>2 DEF CustodyInv, FreshInv, FlowInv, StatusFitsPurpose
  <2> QED
    BY <1>1, <2>1, StatusConfirmed DEF CustodyInv
<1>4. ClaimsStay
  BY <1>2 DEF ClaimsStay
<1>5. \A e \in Equipment :
          equipment'[e] = IF e \in old.items THEN Moved(op, old, equipment[e])
                          ELSE equipment[e]
  BY <1>1 DEF EquipmentMoved, Row
<1>6. old.items \subseteq Equipment
  BY <1>1, <1>2 DEF TypeOK, Rows
<1> HIDE DEF old, new, op, from, to
<1>7. ASSUME NEW stages, NEW stage, from \in stages, to = stage
      PROVE  Promise!Moves(c, stages, stage)
  BY <1>2, <1>7, MovesOfRows DEF StageMoves, from, to, old, new
<1>8. UNCHANGED [d \in Checkouts |-> checkout[d].items]
  BY <1>4 DEF ClaimsStay
<1>9. CASE op \notin {"start", "lender_checkout", "lender_return", "approve_return"}
           /\ (op = "reject_return" => old.purpose # "rental")
  <2>1. AwayStays
    BY <1>5, <1>9 DEF Moved, AwayStays
  <2> UNCHANGED { e \in Equipment : equipment[e] = "checked_out" }
    BY <2>1 DEF AwayStays
  <2>2. \/ from = "asked" /\ to = "agreed"
        \/ from = "agreed" /\ to = "asked"
        \/ from \in {"asked", "agreed"} /\ to = "refused"
        \/ from = "back" /\ to = "settled"
        \/ from = to
    BY <1>2, <1>3, <1>9, StageOfOperation DEF from, to
  <2>3. CASE from = to
    BY <1>2, <1>4, <2>1, <2>3, PromiseUnchanged DEF from, to, old, new
  <2>4. CASE from = "asked" /\ to = "agreed"
    <3>1. Promise!Agree(c)
      BY <1>7, <1>8, <2>4 DEF Promise!Agree
    <3> QED
      BY <1>2, <3>1 DEF Promise!Next
  <2>5. CASE from = "agreed" /\ to = "asked"
    <3>1. Promise!TakeBack(c)
      BY <1>7, <1>8, <2>5 DEF Promise!TakeBack
    <3> QED
      BY <1>2, <3>1 DEF Promise!Next
  <2>6. CASE from \in {"asked", "agreed"} /\ to = "refused"
    <3>1. Promise!Refuse(c)
      BY <1>7, <1>8, <2>6 DEF Promise!Refuse
    <3> QED
      BY <1>2, <3>1 DEF Promise!Next
  <2>7. CASE from = "back" /\ to = "settled"
    <3>1. Promise!Settle(c)
      BY <1>7, <1>8, <2>7 DEF Promise!Settle
    <3> QED
      BY <1>2, <3>1 DEF Promise!Next
  <2> QED
    BY <2>2, <2>3, <2>4, <2>5, <2>6, <2>7
<1>10. CASE op \in {"start", "lender_checkout"}
  <2>1. old.status = "approved" /\ from = "agreed" /\ to = "out"
    BY <1>2, <1>3, <1>10, CustodyOfOperation, StageOfOperation DEF from, to
  <2>2. \A e \in old.items : equipment[e] # "checked_out"
    BY <1>2, <2>1, NobodyHasIt DEF old, Claiming, Statuses, TERMINAL_STATES, Away
  <2>3. \A e \in Equipment :
            equipment'[e] = "checked_out" <=>
                equipment[e] = "checked_out" \/ e \in old.items
    BY <1>5, <1>10 DEF Moved
  <2>4. Promise!HandOver(c)
    BY <1>2, <1>6, <1>7, <1>8, <2>1, <2>2, <2>3 DEF Promise!HandOver, old
  <2> QED
    BY <1>2, <2>4 DEF Promise!Next
<1>11. CASE op \in {"lender_return", "approve_return"}
  <2>1. from = "out" /\ to \in {"back", "settled"}
    BY <1>2, <1>3, <1>11, StageOfOperation DEF from, to
  <2>2. \A e \in Equipment :
            equipment'[e] = "checked_out" <=>
                equipment[e] = "checked_out" /\ e \notin old.items
    BY <1>5, <1>11 DEF Moved
  <2>3. Promise!HandBack(c)
    BY <1>2, <1>6, <1>7, <1>8, <2>1, <2>2 DEF Promise!HandBack, old
  <2> QED
    BY <1>2, <2>3 DEF Promise!Next
<1>12. CASE op = "reject_return" /\ old.purpose = "rental"
  <2>1. old.status = "lender_received" /\ from = "back" /\ to = "out"
    BY <1>2, <1>3, <1>12, CustodyOfOperation, StageOfOperation DEF from, to
  <2>2. \A e \in old.items : equipment[e] = "available"
    BY <1>2, <2>1 DEF CustodyInv, BackInLab, old
  <2>3. \A e \in Equipment :
            equipment'[e] = "checked_out" <=>
                equipment[e] = "checked_out" \/ e \in old.items
    BY <1>5, <1>12, <2>2 DEF Moved
  <2>4. Promise!Dispute(c)
    BY <1>2, <1>6, <1>7, <1>8, <2>1, <2>2, <2>3 DEF Promise!Dispute, old
  <2> QED
    BY <1>2, <2>4 DEF Promise!Next
<1> QED
  BY <1>9, <1>10, <1>11, <1>12

\* The service keeps its promise about equipment: as long as no two checkouts in
\* progress claim the same equipment, and clients send the version of the detail
\* they act on, every step of handlers, scheduler, caches and restarts is a step
\* of Custody or leaves stages, claims and the equipment that is away as they are.
THEOREM PromiseKept ==
    ASSUME ClientVersions = FALSE
    PROVE  Spec /\ []NoDoubleBooking => KeepsPromise
<1>1. Init => Promise!Init
  <2> SUFFICES ASSUME Init
               PROVE  Promise!Init
    OBVIOUS
  <2>1. \A e \in Equipment : equipment[e] # "checked_out"
    BY StartAssumption DEF Init
  <2> QED
    BY <2>1, StageValues DEF Init, NoRow, Promise!Init
<1>2. Init => DraftsClaim
  BY DEF Init, Idle, DraftsClaim
<1>3. FreshInv /\ DraftsClaim /\ [Next]_vars => DraftsClaim'
  BY DraftsClaimStep DEF FreshInv, FlowInv, VersionInv
<1>4. Init => EquipmentFollowsCheckout /\ BackInLab
  BY CustodyInitially
<1>5. FreshInv /\ EquipmentFollowsCheckout /\ BackInLab /\ NoDoubleBooking /\ [Next]_vars
      => EquipmentFollowsCheckout' /\ BackInLab'
  BY CustodyStep
<1>6. FreshInv /\ EquipmentFollowsCheckout /\ BackInLab /\ NoDoubleBooking /\ DraftsClaim
      /\ [Next]_vars
      => [Promise!Next]_(Promise!vars)
  <2> SUFFICES ASSUME FreshInv, EquipmentFollowsCheckout, BackInLab, NoDoubleBooking,
                      DraftsClaim, [Next]_vars
               PROVE  Promise!Next \/ UNCHANGED Promise!vars
    OBVIOUS
  <2>1. CustodyInv /\ TypeOK /\ FreshDrafts
    BY DEF CustodyInv, FreshInv, FlowInv, VersionInv
  <2> QED
    BY <2>1, InsertAsks, CommitKeepsPromise, OtherStepsKeep
<1>7. Spec => []FreshInv
  BY FreshInvariant
<1> QED
  BY <1>1, <1>2, <1>3, <1>4, <1>5, <1>6, <1>7, PTL DEF Spec, KeepsPromise, Promise!Spec

-----------------------------------------------------------------------------
(* What the check of create achieves *)

\* A checkout in progress has a claim to its items before and after a step, or
\* has just been inserted.
LEMMA ClaimOrigins ==
    ASSUME FreshInv, [Next]_vars, ~\E r \in Requests : CreateInsert(r),
           NEW c \in Checkouts, checkout'[c].status \in Claiming
    PROVE  checkout[c].status \in Claiming /\ checkout'[c].items = checkout[c].items
<1>1. TypeOK /\ FreshDrafts /\ checkout[c] \in Rows
  BY DEF FreshInv, FlowInv, VersionInv, TypeOK
<1>2. {"checked_out", "overdue"} \subseteq Claiming /\ "none" \notin Claiming
  BY DEF Claiming, Statuses, TERMINAL_STATES
<1>3. ASSUME NEW r \in Requests, Commit(r)
      PROVE  checkout[c].status \in Claiming /\ checkout'[c].items = checkout[c].items
  <2> DEFINE d == request[r].checkout
  <2>1. /\ CommitShape(r) /\ d \in Checkouts
        /\ \A b \in Checkouts \ {d} : checkout'[b] = checkout[b]
        /\ checkout'[d].items = checkout[d].items
    BY <1>1, <1>3, CommitHasShape DEF CommitShape, Follows
  <2>2. CASE c # d
    <3>1. checkout'[c] = checkout[c]
      BY <2>1, <2>2
    <3> QED  BY <3>1
  <2>3. CASE c = d
    <3>1. Permits(request[r].op, checkout[c].status, checkout[c].purpose)
      BY <2>1, <2>3, StatusConfirmed
    <3>2. checkout[c].status \notin TERMINAL_STATES
      BY <3>1, NothingPermitted
    <3>3. checkout[c].status # "none"
      BY <3>1 DEF Permits, CanPerformAction, CHECKOUT_TRANSITIONS, Rule, Steps,
                  stepTransitions
    <3> QED  BY <1>1, <2>1, <2>3, <3>2, <3>3 DEF Claiming, Rows
  <2> QED  BY <2>2, <2>3
<1>4. ASSUME NEW d \in Checkouts, DueDatePasses(d)
      PROVE  checkout[c].status \in Claiming /\ checkout'[c].items = checkout[c].items
  <2>1. checkout'[c].status = checkout[c].status /\ checkout'[c].items = checkout[c].items
    BY <1>1, <1>4 DEF DueDatePasses, TypeOK, Rows
  <2> QED  BY <2>1
<1>5. CASE CheckOverdueCheckouts
  <2>1. CASE checkout'[c] = checkout[c]
    BY <2>1
  <2>2. CASE MarkedOverdue(c)
    <3>1. checkout[c].status = "checked_out" /\ checkout'[c].items = checkout[c].items
      BY <1>1, <2>2 DEF MarkedOverdue, Rows
    <3> QED  BY <1>2, <3>1
  <2> QED
    BY <1>5, <2>1, <2>2 DEF CheckOverdueCheckouts, MarkedOverdue
<1>6. CASE checkout' = checkout
  BY <1>6
<1> QED
  BY <1>3, <1>4, <1>5, <1>6
     DEF Next, RequestStep, CreateCheck, Load, Conflict, Announce, invalidateCache,
         Fail, ReadRow, StoreRow, Evict, InvalidateOverdue, Restart, vars

\* What has passed the check of create is not claimed by a checkout in progress.
Unclaimed(items) ==
    \A c \in Checkouts :
        checkout[c].status \in Claiming => checkout[c].items \cap items = {}

BookedOnce ==
    /\ NoDoubleBooking
    /\ \A r \in Requests : request[r].phase = "checked" => Unclaimed(request[r].items)

LEMMA InsertBooksOnce ==
    ASSUME FreshInv, BookedOnce, CreationsApart, NEW r \in Requests, CreateInsert(r)
    PROVE  BookedOnce'
<1> DEFINE c == request[r].checkout
           items == request[r].items
<1>1. /\ c \in Checkouts /\ request[r].phase = "checked"
      /\ checkout'[c].items = items
      /\ \A d \in Checkouts \ {c} : checkout'[d] = checkout[d]
  <2>1. TypeOK
    BY DEF FreshInv, FlowInv, VersionInv
  <2>2. request[r].phase = "checked" /\ c \in Checkouts
    BY <2>1, RequestShapes DEF CreateInsert
  <2> QED  BY <2>1, <2>2 DEF CreateInsert, TypeOK, NoRow
<1>2. /\ request'[r] = Idle
      /\ \A q \in Requests \ {r} : request'[q] = request[q]
  BY DEF CreateInsert, FreshInv, FlowInv, VersionInv, TypeOK
<1>3. Unclaimed(items)
  BY <1>1 DEF BookedOnce
<1>4. NoDoubleBooking'
  <2> SUFFICES ASSUME NEW a \in Checkouts, NEW b \in Checkouts, a # b,
                      checkout'[a].status \in Claiming, checkout'[b].status \in Claiming
               PROVE  checkout'[a].items \cap checkout'[b].items = {}
    BY DEF NoDoubleBooking
  <2>1. CASE a = c
    <3>1. checkout'[b] = checkout[b]
      BY <1>1, <2>1
    <3> QED  BY <1>1, <1>3, <2>1, <3>1 DEF Unclaimed
  <2>2. CASE b = c
    <3>1. checkout'[a] = checkout[a]
      BY <1>1, <2>2
    <3> QED  BY <1>1, <1>3, <2>2, <3>1 DEF Unclaimed
  <2>3. CASE a # c /\ b # c
    <3>1. checkout'[a] = checkout[a] /\ checkout'[b] = checkout[b]
      BY <1>1, <2>3
    <3> QED  BY <3>1 DEF BookedOnce, NoDoubleBooking
  <2> QED  BY <2>1, <2>2, <2>3
<1>5. ASSUME NEW q \in Requests, request'[q].phase = "checked"
      PROVE  Unclaimed(request[q].items)' /\ request'[q] = request[q]
  <2>1. q # r /\ request'[q] = request[q]
    BY <1>2, <1>5 DEF Idle
  <2>2. items \cap request[q].items = {}
    BY <1>1, <1>5, <2>1 DEF CreationsApart
  <2>3. Unclaimed(request[q].items)
    BY <1>5, <2>1 DEF BookedOnce
  <2>4. ASSUME NEW d \in Checkouts, checkout'[d].status \in Claiming
        PROVE  checkout'[d].items \cap request'[q].items = {}
    BY <1>1, <2>1, <2>2, <2>3, <2>4 DEF Unclaimed
  <2> QED  BY <2>1, <2>4 DEF Unclaimed
<1> QED
  BY <1>4, <1>5 DEF BookedOnce

LEMMA CheckedIsUnclaimed ==
    ASSUME FreshInv, CreationsApart', NEW r \in Requests, NEW c \in Checkouts,
           CreateCheck(r, c)
    PROVE  Unclaimed(request[r].items)'
<1>1. /\ checkout' = checkout /\ request'[r].phase = "checked"
      /\ \A e \in request'[r].items : Active(e, activeStatuses) = {}
  BY DEF CreateCheck, FreshInv, FlowInv, VersionInv, TypeOK
<1> SUFFICES ASSUME NEW d \in Checkouts, checkout[d].status \in Claiming
             PROVE  checkout[d].items \cap request'[r].items = {}
  BY <1>1 DEF Unclaimed
<1>2. Claiming \subseteq activeStatuses \cup {"borrower_approved"}
  BY DEF Claiming, Statuses, TERMINAL_STATES, activeStatuses
<1>3. CASE checkout[d].status \in activeStatuses
  BY <1>1, <1>3 DEF Active
<1>4. CASE checkout[d].status = "borrower_approved"
  BY <1>1, <1>4 DEF CreationsApart
<1> QED
  BY <1>2, <1>3, <1>4

LEMMA BookedOnceStep ==
    ASSUME FreshInv, BookedOnce, CreationsApart, CreationsApart', [Next]_vars
    PROVE  BookedOnce'
<1>1. CASE \E r \in Requests : CreateInsert(r)
  BY <1>1, InsertBooksOnce
<1>2. CASE ~\E r \in Requests : CreateInsert(r)
  <2>1. \A c \in Checkouts :
            checkout'[c].status \in Claiming =>
                checkout[c].status \in Claiming /\ checkout'[c].items = checkout[c].items
    BY <1>2, ClaimOrigins
  <2>2. NoDoubleBooking'
    BY <2>1 DEF BookedOnce, NoDoubleBooking
  <2>3. ASSUME NEW r \in Requests, request'[r].phase = "checked"
        PROVE  Unclaimed(request[r].items)'
    <3>1. CASE request'[r] = request[r]
      BY <2>1, <2>3, <3>1 DEF BookedOnce, Unclaimed
    <3>2. CASE \E c \in Checkouts : CreateCheck(r, c)
      BY <3>2, CheckedIsUnclaimed
    <3> QED
      BY <2>3, <3>1, <3>2, CheckedOrigins DEF FreshInv, FlowInv, VersionInv
  <2> QED  BY <2>2, <2>3 DEF BookedOnce
<1> QED
  BY <1>1, <1>2

\* The check of create keeps equipment from being booked twice, but for what it
\* does not see: a creation of the same equipment at the same moment, and a
\* rental its borrower has approved (CheckoutsService.create).
THEOREM BookedTwiceOnlyUnseen ==
    ASSUME ClientVersions = FALSE
    PROVE  Spec /\ []CreationsApart => []NoDoubleBooking
<1>1. Init => BookedOnce
  BY DEF Init, BookedOnce, NoDoubleBooking, NoRow, Idle, Claiming, Statuses
<1>2. FreshInv /\ BookedOnce /\ CreationsApart /\ CreationsApart' /\ [Next]_vars
      => BookedOnce'
  BY BookedOnceStep
<1>3. BookedOnce => NoDoubleBooking
  BY DEF BookedOnce
<1> QED
  BY <1>1, <1>2, <1>3, FreshInvariant, PTL DEF Spec

\* No two creations are between their check and their insert.
OneCreation ==
    \A q, r \in Requests :
        request[q].phase = "checked" /\ request[r].phase = "checked" => q = r

\* Without rentals, a lock around create is all that is missing: then nothing
\* escapes the check, and equipment follows its checkouts with no assumption
\* on what the other handlers, the scheduler, the caches and restarts do.
THEOREM SerialCreationSuffices ==
    ASSUME ClientVersions = FALSE, "rental" \notin AllowedPurposes
    PROVE  Spec /\ []OneCreation =>
               []NoDoubleBooking /\ []EquipmentFollowsCheckout /\ KeepsPromise
<1>1. FreshInv /\ OneCreation => CreationsApart
  <2> SUFFICES ASSUME FreshInv, OneCreation
               PROVE  CreationsApart
    OBVIOUS
  <2>1. ASSUME NEW c \in Checkouts PROVE checkout[c].status # "borrower_approved"
    <3>1. checkout[c].purpose # "rental" /\ StatusFits(checkout[c].status, checkout[c].purpose)
      BY DEF FreshInv, FlowInv, VersionInv, TypeOK, Rows, StatusFitsPurpose
    <3> QED  BY <3>1 DEF StatusFits, RentalStatuses
  <2> QED  BY <2>1 DEF CreationsApart, OneCreation
<1>2. Spec => []FreshInv
  BY FreshInvariant
<1> QED
  BY <1>1, <1>2, BookedTwiceOnlyUnseen, EquipmentFollows, PromiseKept, PTL

=============================================================================
