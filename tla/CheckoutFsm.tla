----------------------------- MODULE CheckoutFsm -----------------------------
(***************************************************************************)
(* The checkout state machine shared by the backend and the frontend: the  *)
(* statuses and purposes of a checkout, the table of transitions, and the  *)
(* questions the services ask of it.  A rule names the status it leaves,   *)
(* the action, the status it enters, the purposes it is meant for and the  *)
(* permission it requires; labels and hints of the user interface are left *)
(* out.                                                                    *)
(***************************************************************************)

Statuses ==
    {"pending", "borrower_approved", "approved", "rejected", "checked_out",
     "lender_checked", "in_use", "borrower_returned", "lender_received",
     "returned", "return_approved", "overdue", "canceled"}

CAL_REPAIR == {"calibration", "repair", "return_to_vendor"}
RENTAL     == {"rental"}
Purposes   == CAL_REPAIR \cup RENTAL

Rule(from, action, to, purposes, requires) ==
    [from |-> from, action |-> action, to |-> to,
     purposes |-> purposes, requires |-> requires]

CHECKOUT_TRANSITIONS ==
    { Rule("pending", "borrower_approve", "borrower_approved", RENTAL, "borrower_approve"),
      Rule("pending", "borrower_reject", "rejected", RENTAL, "borrower_reject"),
      Rule("pending", "approve", "approved", CAL_REPAIR, "approve"),
      Rule("pending", "reject", "rejected", CAL_REPAIR, "reject"),
      Rule("pending", "cancel", "canceled", Purposes, "cancel"),
      Rule("borrower_approved", "approve", "approved", RENTAL, "approve"),
      Rule("borrower_approved", "reject", "rejected", RENTAL, "reject"),
      Rule("borrower_approved", "cancel", "canceled", RENTAL, "cancel"),
      Rule("approved", "start", "checked_out", CAL_REPAIR, "start"),
      Rule("approved", "lender_check", "lender_checked", RENTAL, "start"),
      Rule("approved", "cancel", "canceled", Purposes, "cancel"),
      Rule("lender_checked", "borrower_receive", "in_use", RENTAL, "start"),
      Rule("in_use", "borrower_return", "borrower_returned", RENTAL, "complete"),
      Rule("borrower_returned", "lender_receive", "lender_received", RENTAL, "complete"),
      Rule("lender_received", "submit_return", "return_approved", RENTAL, "approve"),
      Rule("lender_received", "reject_return", "in_use", RENTAL, "reject"),
      Rule("checked_out", "submit_return", "returned", CAL_REPAIR, "approve"),
      Rule("overdue", "submit_return", "returned", Purposes, "approve"),
      Rule("returned", "approve_return", "return_approved", CAL_REPAIR, "approve"),
      Rule("returned", "reject_return", "checked_out", CAL_REPAIR, "reject") }

TERMINAL_STATES == {"rejected", "canceled", "return_approved"}

\* The table has a rule for the action from this status and purpose
\* (canPerformAction; the caller's permission is the user's, so any).
CanPerformAction(status, purpose, action) ==
    \E t \in CHECKOUT_TRANSITIONS :
        /\ t.from = status
        /\ t.action = action
        /\ purpose \in t.purposes

\* The table has a rule, of whatever action, from one status to the other.
HasRule(from, to, purpose) ==
    \E t \in CHECKOUT_TRANSITIONS :
        /\ t.from = from
        /\ t.to = to
        /\ purpose \in t.purposes

\* The statuses the approvals page counts as waiting for the lender's manager:
\* derived from the permission a rule requires, not from its action.
LENDER_APPROVAL_PENDING_STATUSES ==
    { t.from : t \in { u \in CHECKOUT_TRANSITIONS : u.requires = "approve" } }

=============================================================================
