---------------------------- MODULE EquipmentImport ----------------------------
(***************************************************************************)
(* Equipment borrowed from a vendor or another department: requested,      *)
(* approved, received (which registers it as equipment), and given back    *)
(* through a checkout of its own.  Starting the return is a saga of        *)
(* separate commits with compensations; its end comes as an event from the *)
(* checkouts, in memory, and every six hours a scheduler looks for imports *)
(* whose event was lost.                                                   *)
(*                                                                         *)
(* Rows are read from the database, not from a cache.  A client's version  *)
(* was read before the handler's row, so the compare-and-set confirms that *)
(* row: approval, rejection, receipt and cancellation are one step each.   *)
(* The equipment of an import goes by the identifier of the import; its    *)
(* checkouts for other purposes are one flag, "lent".  That two checkouts  *)
(* of the same equipment are created at once is the subject of Checkout.   *)
(***************************************************************************)
EXTENDS TemporaryNumber

CONSTANTS
    Imports,      \* identifiers of import requests
    Checkouts,    \* identifiers of checkouts of purpose return_to_vendor
    Requests,     \* requests that start a return at the same time
    MaxVersion,   \* bound: no return of an import with this version is started
    NoId          \* stands for a missing reference

ASSUME MaxVersionAssumption == MaxVersion \in Nat
ASSUME NoIdAssumption == NoId \notin Imports \cup Checkouts

VARIABLES
    import,     \* the rows of equipment_imports
    equipment,  \* the status of the equipment received with each import
    number,     \* its management number
    kept,       \* imports whose equipment row is as the saga last wrote it
    lent,       \* imports whose equipment is out for another purpose
    checkout,   \* the checkouts that return equipment
    request,    \* how far each start of a return has come
    event,      \* what the listener does about each end of a checkout
    scan,       \* the orphans the scheduler has listed
    faulty      \* a crash or a failed query has happened

vars ==
    <<import, equipment, number, kept, lent, checkout, request, event, scan, faulty>>

-----------------------------------------------------------------------------

ImportStatuses ==
    {"pending", "approved", "rejected", "received", "return_requested", "returned",
     "canceled"}

EquipmentStatuses ==
    {"none", "temporary", "available", "non_conforming", "checked_out", "inactive"}

NoImport == [status |-> "none", letter |-> 0, link |-> NoId, version |-> 0]

ImportRows ==
    [status : ImportStatuses, letter : Letters, link : Checkouts \cup {NoId},
     version : Nat \ {0}]

NoNumber == [letter |-> 0, serial |-> 0]

NoCheckout == [import |-> NoId, status |-> "none"]

CheckoutRows ==
    [import : Imports,
     status : {"pending", "out", "return_approved", "canceled", "rejected"}]

\* Mutant: the status of the checkout is taken over.
Ends_Copied == [return_approved |-> "return_approved", canceled |-> "canceled"]

\* What the listener and the scheduler make of the end of a checkout.
Ends == [return_approved |-> "returned", canceled |-> "received"]

Idle == [phase |-> "idle"]

RequestStates ==
    {Idle}
    \cup [phase : {"claimed", "undoing"}, import : Imports, version : Nat]
    \cup [phase : {"prepared", "checked", "restoring"}, import : Imports, version : Nat,
          previous : EquipmentStatuses]
    \cup [phase : {"created"}, import : Imports, version : Nat, checkout : Checkouts]

\* Nothing to tell, told, or read by the listener; a canceled return may be
\* tried once more.
EventStates ==
    {Idle}
    \cup [phase : {"sent"}, retry : BOOLEAN]
    \cup [phase : {"read"}, import : Imports, version : Nat, retry : BOOLEAN]

ScanStates == {Idle} \cup [phase : {"listed"}, version : Nat, checkout : Checkouts]

TypeOK ==
    /\ import \in [Imports -> ImportRows \cup {NoImport}]
    /\ equipment \in [Imports -> EquipmentStatuses]
    /\ number \in [Imports -> Numbers \cup {NoNumber}]
    /\ kept \subseteq Imports
    /\ lent \subseteq Imports
    /\ checkout \in [Checkouts -> CheckoutRows \cup {NoCheckout}]
    /\ request \in [Requests -> RequestStates]
    /\ event \in [Checkouts -> EventStates]
    /\ scan \in [Imports -> ScanStates]
    /\ faulty \in BOOLEAN

Init ==
    /\ import = [i \in Imports |-> NoImport]
    /\ equipment = [i \in Imports |-> "none"]
    /\ number = [i \in Imports |-> NoNumber]
    /\ kept = {}
    /\ lent = {}
    /\ checkout = [c \in Checkouts |-> NoCheckout]
    /\ request = [r \in Requests |-> Idle]
    /\ event = [c \in Checkouts |-> Idle]
    /\ scan = [i \in Imports |-> Idle]
    /\ faulty = FALSE

\* Equipment that a checkout returns or that is out for another purpose.
InProgress(i) == { c \in Checkouts :
    checkout[c].import = i /\ checkout[c].status \in {"pending", "out"} }

InFlight(i) == { r \in Requests : request[r] # Idle /\ request[r].import = i }

\* Imports whose checkout has come to an end they have not followed.
Ended(i) ==
    /\ import[i].status = "return_requested"
    /\ import[i].link # NoId
    /\ checkout[import[i].link].status \in DOMAIN Ends

Given == { number[i] : i \in Imports } \ {NoNumber}

-----------------------------------------------------------------------------
(* Writing rows *)

\* An update of an import gives it a new version.
Write(i, status, link) ==
    import' = [import EXCEPT ![i] =
        [import[i] EXCEPT !.status = status, !.link = link, !.version = @ + 1]]

\* Every write of an equipment row raises its version.
SetEquipment(i, status) ==
    /\ equipment' = [equipment EXCEPT ![i] = status]
    /\ kept' = kept \ {i}

KeepsEquipment == UNCHANGED <<equipment, kept>>

Become(r, state) == request' = [request EXCEPT ![r] = state]

-----------------------------------------------------------------------------
(* Until the equipment is received *)

create(i, letter) ==
    /\ import[i] = NoImport
    /\ import' = [import EXCEPT ![i] =
           [status |-> "pending", letter |-> letter, link |-> NoId, version |-> 1]]
    /\ UNCHANGED <<equipment, number, kept, lent, checkout, request, event, scan, faulty>>

approve(i) ==
    /\ import[i].status = "pending"
    /\ Write(i, "approved", NoId)
    /\ UNCHANGED <<equipment, number, kept, lent, checkout, request, event, scan, faulty>>

reject(i) ==
    /\ import[i].status = "pending"
    /\ Write(i, "rejected", NoId)
    /\ UNCHANGED <<equipment, number, kept, lent, checkout, request, event, scan, faulty>>

cancel(i) ==
    /\ import[i].status \in {"pending", "approved"}
    /\ Write(i, "canceled", NoId)
    /\ UNCHANGED <<equipment, number, kept, lent, checkout, request, event, scan, faulty>>

\* One transaction, with the numbers of the site locked; the unique constraint
\* on management numbers may refuse it.
receive(i) ==
    LET next == NextNumber(Given, import[i].letter)
    IN  /\ import[i].status = "approved"
        /\ next \notin Given
        /\ Write(i, "received", NoId)
        /\ number' = [number EXCEPT ![i] = next]
        /\ SetEquipment(i, "temporary")
        /\ UNCHANGED <<lent, checkout, request, event, scan, faulty>>

-----------------------------------------------------------------------------
(* Starting a return: a claim of the import, the equipment made available, a *)
(* checkout created, the checkout linked to the import.  Each is a commit of *)
(* its own, and each failure is compensated by the writes that undo the      *)
(* commits before it.                                                        *)

Claim(r, i) ==
    /\ request[r] = Idle
    /\ import[i].version < MaxVersion
    /\ Write(i, "return_requested", import[i].link)
    /\ Become(r, [phase |-> "claimed", import |-> i, version |-> import[i].version + 1])
    /\ UNCHANGED <<equipment, number, kept, lent, checkout, event, scan, faulty>>

\* Mutant: the status is not part of the compare-and-set.
InitiateReturn_VersionOnly(r, i) ==
    /\ import[i].status \in {"received", "return_requested"}
    /\ Claim(r, i)

InitiateReturn(r, i) ==
    /\ import[i].status = "received"
    /\ Claim(r, i)

\* The equipment row is as the handler read it, whatever its status.
SetAvailable(r) ==
    LET i == request[r].import
    IN  /\ request[r].phase = "claimed"
        /\ equipment' = [equipment EXCEPT ![i] = "available"]
        /\ kept' = kept \cup {i}
        /\ Become(r, [phase |-> "prepared", import |-> i, version |-> request[r].version,
                      previous |-> equipment[i]])
        /\ UNCHANGED <<import, number, lent, checkout, event, scan, faulty>>

\* The row was read from a stale cache, its calibration is overdue, or a query
\* failed.
SetAvailableFails(r) ==
    /\ request[r].phase = "claimed"
    /\ Become(r, [request[r] EXCEPT !.phase = "undoing"])
    /\ UNCHANGED <<import, equipment, number, kept, lent, checkout, event, scan, faulty>>

\* The checkout service looks for another checkout of the equipment ...
CheckActive(r) ==
    LET i == request[r].import
    IN  /\ request[r].phase = "prepared"
        /\ InProgress(i) = {}
        /\ i \notin lent
        /\ Become(r, [request[r] EXCEPT !.phase = "checked"])
        /\ UNCHANGED <<import, equipment, number, kept, lent, checkout, event, scan, faulty>>

\* ... and inserts its own.
CreateCheckout(r, c) ==
    LET i == request[r].import
    IN  /\ request[r].phase = "checked"
        /\ checkout[c] = NoCheckout
        /\ checkout' = [checkout EXCEPT ![c] = [import |-> i, status |-> "pending"]]
        /\ Become(r, [phase |-> "created", import |-> i, version |-> request[r].version,
                      checkout |-> c])
        /\ UNCHANGED <<import, equipment, number, kept, lent, event, scan, faulty>>

\* It refuses equipment that is out or not available, and a query may fail.
CreateFails(r) ==
    /\ request[r].phase \in {"prepared", "checked"}
    /\ Become(r, [request[r] EXCEPT !.phase = "restoring"])
    /\ UNCHANGED <<import, equipment, number, kept, lent, checkout, event, scan, faulty>>

Undoing(r) ==
    [phase |-> "undoing", import |-> request[r].import, version |-> request[r].version]

\* Mutant: the version compared is the one before the saga's own write.
RestoreEquipment_OldVersion(r) ==
    /\ request[r].phase = "restoring"
    /\ KeepsEquipment
    /\ Become(r, Undoing(r))
    /\ UNCHANGED <<import, number, lent, checkout, event, scan, faulty>>

\* A row that someone else has written meanwhile is left as it is.
RestoreEquipment(r) ==
    LET i == request[r].import
    IN  /\ request[r].phase = "restoring"
        /\ IF i \in kept THEN SetEquipment(i, request[r].previous) ELSE KeepsEquipment
        /\ Become(r, Undoing(r))
        /\ UNCHANGED <<import, number, lent, checkout, event, scan, faulty>>

\* A failed query is logged, and the import is given back all the same.
RestoreFails(r) ==
    /\ request[r].phase = "restoring"
    /\ Become(r, Undoing(r))
    /\ faulty' = TRUE
    /\ UNCHANGED <<import, equipment, number, kept, lent, checkout, event, scan>>

\* Mutant: the import is compared with the version it had before the claim.
UndoImport_OldVersion(r) ==
    LET i == request[r].import
    IN  /\ request[r].phase = "undoing"
        /\ IF import[i].version = request[r].version - 1
           THEN Write(i, "received", import[i].link)
           ELSE UNCHANGED import
        /\ Become(r, Idle)
        /\ UNCHANGED <<equipment, number, kept, lent, checkout, event, scan, faulty>>

UndoImport(r) ==
    LET i == request[r].import
    IN  /\ request[r].phase = "undoing"
        /\ IF import[i].version = request[r].version
           THEN Write(i, "received", import[i].link)
           ELSE UNCHANGED import
        /\ Become(r, Idle)
        /\ UNCHANGED <<equipment, number, kept, lent, checkout, event, scan, faulty>>

Link(r) ==
    LET i == request[r].import
    IN  /\ request[r].phase = "created"
        /\ IF import[i].version = request[r].version
           THEN Write(i, import[i].status, request[r].checkout)
           ELSE UNCHANGED import
        /\ Become(r, Idle)
        /\ UNCHANGED <<equipment, number, kept, lent, checkout, event, scan, faulty>>

\* A failed query of the last step of either course is logged only.
LastStepFails(r) ==
    /\ request[r].phase \in {"undoing", "created"}
    /\ Become(r, Idle)
    /\ faulty' = TRUE
    /\ UNCHANGED <<import, equipment, number, kept, lent, checkout, event, scan>>

-----------------------------------------------------------------------------
(* The checkouts of the equipment (module Checkout has the rest) *)

\* Approval is left out.
StartCheckout(c) ==
    /\ checkout[c].status = "pending"
    /\ checkout' = [checkout EXCEPT ![c].status = "out"]
    /\ SetEquipment(checkout[c].import, "checked_out")
    /\ UNCHANGED <<import, number, lent, request, event, scan, faulty>>

Send(c) == event' = [event EXCEPT ![c] = [phase |-> "sent", retry |-> TRUE]]

ReturnApproved(c) ==
    LET i == checkout[c].import
    IN  /\ checkout[c].status = "out"
        /\ checkout' = [checkout EXCEPT ![c].status = "return_approved"]
        /\ IF equipment[i] = "checked_out" THEN SetEquipment(i, "available") ELSE KeepsEquipment
        /\ Send(c)
        /\ UNCHANGED <<import, number, lent, request, scan, faulty>>

CancelCheckout(c) ==
    /\ checkout[c].status = "pending"
    /\ checkout' = [checkout EXCEPT ![c].status = "canceled"]
    /\ Send(c)
    /\ UNCHANGED <<import, equipment, number, kept, lent, request, scan, faulty>>

\* No event tells the imports of a rejection.
RejectCheckout(c) ==
    /\ checkout[c].status = "pending"
    /\ checkout' = [checkout EXCEPT ![c].status = "rejected"]
    /\ UNCHANGED <<import, equipment, number, kept, lent, request, event, scan, faulty>>

\* A checkout of the equipment for another purpose.
Lend(i) ==
    /\ equipment[i] = "available"
    /\ i \notin lent
    /\ InProgress(i) = {}
    /\ \A r \in InFlight(i) : request[r].phase # "checked"
    /\ lent' = lent \cup {i}
    /\ SetEquipment(i, "checked_out")
    /\ UNCHANGED <<import, number, checkout, request, event, scan, faulty>>

ComeBack(i) ==
    /\ i \in lent
    /\ lent' = lent \ {i}
    /\ IF equipment[i] = "checked_out" THEN SetEquipment(i, "available") ELSE KeepsEquipment
    /\ UNCHANGED <<import, number, checkout, request, event, scan, faulty>>

\* A non-conformance of the equipment (module NonConformance).
MarkNonConforming(i) ==
    /\ equipment[i] \in {"temporary", "available", "checked_out"}
    /\ SetEquipment(i, "non_conforming")
    /\ UNCHANGED <<import, number, lent, checkout, request, event, scan, faulty>>

-----------------------------------------------------------------------------
(* What the imports make of the end of a checkout *)

Told(c, state) == event' = [event EXCEPT ![c] = state]

\* An import that is not linked to the checkout yet is not found.
ReadEvent(c) ==
    LET linked == { i \in Imports : import[i].link = c }
    IN  /\ event[c].phase = "sent"
        /\ \/ linked = {} /\ Told(c, Idle)
           \/ \E i \in linked :
                  Told(c, [phase |-> "read", import |-> i, version |-> import[i].version,
                           retry |-> event[c].retry])
        /\ UNCHANGED <<import, equipment, number, kept, lent, checkout, request, scan, faulty>>

onReturnCompleted(c) ==
    LET i == event[c].import
    IN  /\ event[c].phase = "read"
        /\ checkout[c].status = "return_approved"
        /\ IF import[i].version = event[c].version
           THEN Write(i, "returned", import[i].link) /\ SetEquipment(i, "inactive")
           ELSE UNCHANGED import /\ KeepsEquipment
        /\ Told(c, Idle)
        /\ UNCHANGED <<number, lent, checkout, request, scan, faulty>>

\* Mutant: the version is not part of the compare-and-set.
onReturnCanceled_StatusOnly(c) ==
    LET i == event[c].import
    IN  /\ event[c].phase = "read"
        /\ checkout[c].status = "canceled"
        /\ \/ /\ import[i].status = "return_requested"
              /\ Write(i, "received", NoId)
              /\ Told(c, Idle)
           \/ /\ import[i].status # "return_requested"
              /\ Told(c, IF event[c].retry THEN [phase |-> "sent", retry |-> FALSE] ELSE Idle)
              /\ UNCHANGED import
        /\ UNCHANGED <<equipment, number, kept, lent, checkout, request, scan, faulty>>

onReturnCanceled(c) ==
    LET i       == event[c].import
        matches == /\ import[i].version = event[c].version
                   /\ import[i].status = "return_requested"
    IN  /\ event[c].phase = "read"
        /\ checkout[c].status = "canceled"
        /\ \/ /\ matches
              /\ Write(i, "received", NoId)
              /\ Told(c, Idle)
           \/ /\ ~matches
              /\ Told(c, IF event[c].retry THEN [phase |-> "sent", retry |-> FALSE] ELSE Idle)
              /\ UNCHANGED import
        /\ UNCHANGED <<equipment, number, kept, lent, checkout, request, scan, faulty>>

\* The checkout service logs an error of a listener and goes on.
EventFails(c) ==
    /\ event[c] # Idle
    /\ Told(c, Idle)
    /\ UNCHANGED <<import, equipment, number, kept, lent, checkout, request, scan, faulty>>

-----------------------------------------------------------------------------
(* The scheduler *)

\* Mutant: canceled checkouts are not looked for.
ListOrphans_ReturnsOnly ==
    LET orphans == { i \in Imports :
            Ended(i) /\ checkout[import[i].link].status = "return_approved" }
    IN  /\ \A i \in Imports : scan[i] = Idle
        /\ orphans # {}
        /\ scan' = [i \in Imports |->
               IF i \in orphans
               THEN [phase |-> "listed", version |-> import[i].version,
                     checkout |-> import[i].link]
               ELSE Idle]
        /\ UNCHANGED <<import, equipment, number, kept, lent, checkout, request, event, faulty>>

ListOrphans ==
    LET orphans == { i \in Imports : Ended(i) }
    IN  /\ \A i \in Imports : scan[i] = Idle
        /\ orphans # {}
        /\ scan' = [i \in Imports |->
               IF i \in orphans
               THEN [phase |-> "listed", version |-> import[i].version,
                     checkout |-> import[i].link]
               ELSE Idle]
        /\ UNCHANGED <<import, equipment, number, kept, lent, checkout, request, event, faulty>>

\* Mutant: the orphan is taken to be as it was listed.
RecoverOrphan_AsListed(i) ==
    LET status == Ends[checkout[scan[i].checkout].status]
    IN  /\ scan[i] # Idle
        /\ Write(i, status, IF status = "received" THEN NoId ELSE import[i].link)
        /\ scan' = [scan EXCEPT ![i] = Idle]
        /\ UNCHANGED <<equipment, number, kept, lent, checkout, request, event, faulty>>

\* The equipment is left as it is.
RecoverOrphan(i) ==
    LET status == Ends[checkout[scan[i].checkout].status]
    IN  /\ scan[i] # Idle
        /\ IF import[i].version = scan[i].version /\ import[i].status = "return_requested"
           THEN Write(i, status, IF status = "received" THEN NoId ELSE import[i].link)
           ELSE UNCHANGED import
        /\ scan' = [scan EXCEPT ![i] = Idle]
        /\ UNCHANGED <<equipment, number, kept, lent, checkout, request, event, faulty>>

\* A failure is logged and left to the next run.
RecoverFails(i) ==
    /\ scan[i] # Idle
    /\ scan' = [scan EXCEPT ![i] = Idle]
    /\ UNCHANGED <<import, equipment, number, kept, lent, checkout, request, event, faulty>>

-----------------------------------------------------------------------------

\* The process restarts: requests, events and the scheduler's list are gone.
Restart ==
    /\ request' = [r \in Requests |-> Idle]
    /\ event' = [c \in Checkouts |-> Idle]
    /\ scan' = [i \in Imports |-> Idle]
    /\ faulty' = TRUE
    /\ UNCHANGED <<import, equipment, number, kept, lent, checkout>>

RequestStep(r) ==
    \/ \E i \in Imports : InitiateReturn(r, i)
    \/ SetAvailable(r) \/ SetAvailableFails(r)
    \/ CheckActive(r)
    \/ \E c \in Checkouts : CreateCheckout(r, c)
    \/ CreateFails(r)
    \/ RestoreEquipment(r) \/ RestoreFails(r)
    \/ UndoImport(r)
    \/ Link(r)
    \/ LastStepFails(r)

ImportStep(i) ==
    \/ \E letter \in Letters : create(i, letter)
    \/ approve(i) \/ reject(i) \/ cancel(i) \/ receive(i)
    \/ Lend(i) \/ ComeBack(i) \/ MarkNonConforming(i)
    \/ RecoverOrphan(i) \/ RecoverFails(i)

CheckoutStep(c) ==
    \/ StartCheckout(c) \/ ReturnApproved(c) \/ CancelCheckout(c) \/ RejectCheckout(c)
    \/ ReadEvent(c) \/ onReturnCompleted(c) \/ onReturnCanceled(c) \/ EventFails(c)

Next ==
    \/ \E r \in Requests : RequestStep(r)
    \/ \E i \in Imports : ImportStep(i)
    \/ \E c \in Checkouts : CheckoutStep(c)
    \/ ListOrphans
    \/ Restart

Spec == Init /\ [][Next]_vars

\* The scheduler runs every six hours; what fails is tried again, and does not
\* fail for ever.
Fairness ==
    /\ WF_vars(ListOrphans)
    /\ \A i \in Imports : SF_vars(RecoverOrphan(i))

LiveSpec == Spec /\ Fairness

-----------------------------------------------------------------------------
(* Properties *)

\* An import that counts as received has no return under way or behind it, and
\* one that counts as returned was returned by the checkout it is linked to,
\* however late the listener and the scheduler act on an end of an earlier
\* checkout.
ImportFollowsCheckout ==
    \A i \in Imports :
        /\ import[i].status = "received" =>
               /\ InProgress(i) = {}
               /\ \A c \in Checkouts :
                      checkout[c].import = i => checkout[c].status # "return_approved"
        /\ import[i].status = "returned" =>
               checkout[import[i].link].status = "return_approved"

\* Two starts of a return never create two checkouts of the same equipment: the
\* claim keeps the second out, which the checkout service's own look for another
\* checkout, before it inserts, would not.
ReturnHasOneCheckout ==
    \A i \in Imports : \A c, d \in InProgress(i) : c = d

\* As long as no query fails and the process does not stop, the compensations
\* leave no import behind that waits for a return nobody carries out.
NoOrphanWithoutFault ==
    \A i \in Imports :
        /\ import[i].status = "return_requested"
        /\ import[i].link = NoId
        => faulty \/ InFlight(i) # {}

\* Equipment that is out for another purpose, and that a refused return made
\* available in the meantime, is marked as out again afterwards.
RefusalRestoresMark ==
    \A i \in lent :
        import[i].status = "received" /\ InFlight(i) = {} /\ ~faulty
            => equipment[i] \in {"checked_out", "non_conforming"}

\* How far the return of an import has come, and how that of a checkout went.
stageOf ==
    [ none     |-> "none",    pending  |-> "asked",    approved         |-> "agreed",
      rejected |-> "dropped", canceled |-> "dropped",  received         |-> "here",
      returned |-> "gone",    return_requested |-> "leaving" ]

courseOf ==
    [ none            |-> "none", pending  |-> "open",   out      |-> "open",
      return_approved |-> "done", canceled |-> "failed", rejected |-> "failed" ]

Promise == INSTANCE BorrowedReturn WITH
    stage  <- [i \in Imports |-> stageOf[import[i].status]],
    takes  <- [c \in Checkouts |-> checkout[c].import],
    course <- [c \in Checkouts |-> courseOf[checkout[c].status]]

\* The saga, its compensations, the listeners and the scheduler keep the promise
\* of BorrowedReturn, whatever races, fails or is lost: the return of a piece of
\* equipment begins, is carried out and ends in single steps.
KeepsPromise == Promise!Spec

\* An import whose return has ended does not wait for ever, also when the event
\* came before the link, was lost, or met another write.
EndedReturnIsFollowed ==
    \A i \in Imports : Ended(i) ~> import[i].status # "return_requested"

-----------------------------------------------------------------------------
(* Properties that do not hold *)

\* Every approved import can be received: its number is not taken.
NumbersDoNotCollide ==
    \A letter \in Letters : NextNumber(Given, letter) \notin Given

\* Equipment that was given back is inactive.
ReturnedIsInactive ==
    \A i \in Imports : import[i].status = "returned" => equipment[i] = "inactive"

\* A return that was turned down does not leave the import waiting for it.
RejectedReturnIsFollowed ==
    \A i \in Imports :
        /\ import[i].status = "return_requested"
        /\ import[i].link # NoId
        /\ checkout[import[i].link].status = "rejected"
        ~> import[i].status # "return_requested"

=============================================================================
