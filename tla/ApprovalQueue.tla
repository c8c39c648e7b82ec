---------------------------- MODULE ApprovalQueue ----------------------------
(***************************************************************************)
(* The approvals page over the checkout rows: which checkouts its counters *)
(* take for waiting.  The queries only read, so the module adds no action. *)
(***************************************************************************)
EXTENDS Checkout

\* The queue of outgoing checkouts; returns to the vendor have their own.
outgoingCheckouts ==
    { c \in Checkouts : /\ checkout[c].status \in LENDER_APPROVAL_PENDING_STATUSES
                        /\ checkout[c].purpose # "return_to_vendor" }

\* A checkout counted as an outgoing one waiting for its approval is in a status
\* the approve action leaves, as the comment at
\* LENDER_APPROVAL_PENDING_STATUSES has it.
OutgoingAwaitsApproval ==
    \A c \in outgoingCheckouts :
        \E purpose \in Purposes :
            CanPerformAction(checkout[c].status, purpose, "approve")

=============================================================================
