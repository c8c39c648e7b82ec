----------------------------- MODULE NonConformance -----------------------------
(***************************************************************************)
(* Non-conformances and the status of the equipment they are about.  A     *)
(* non-conformance (NC) is opened by a user, an incident report, a failed  *)
(* calibration or the hourly scheduler, corrected by a repair or a new     *)
(* calibration, and closed by a manager, which gives the equipment its     *)
(* status back.  Checkouts and calibration approvals write the same        *)
(* equipment rows.                                                         *)
(*                                                                         *)
(* Handlers read an NC through the detail cache and commit with a compare- *)
(* and-set on a version; transactions run at READ COMMITTED, so each of    *)
(* their statements sees what others have committed by then.               *)
(***************************************************************************)
EXTENDS Naturals

CONSTANTS
    NCs,             \* identifiers of non-conformances
    Repairs,         \* identifiers of repair records
    Equipment,       \* identifiers of equipment rows
    Requests,        \* HTTP requests the process serves at the same time
    Types,           \* the types of non-conformance under study
    Actors,          \* which parts of the system act
    StartStatuses,   \* the statuses equipment may have at first
    MaxVersion,      \* bound: no NC is written that has this version
    ClientVersions,  \* clients may send a version they read elsewhere than
                     \* in the detail they act on
    NoId             \* stands for a missing reference

EquipmentStatuses ==
    {"available", "non_conforming", "spare", "checked_out", "disposed",
     "pending_disposal", "temporary", "inactive"}

EXCLUDED_OVERDUE_EQUIPMENT_STATUSES ==
    {"non_conforming", "disposed", "pending_disposal", "inactive"}

\* What a type requires before its correction.
NC_CORRECTION_PREREQUISITES ==
    [ damage              |-> "repair",
      malfunction         |-> "repair",
      calibration_failure |-> "none",
      calibration_overdue |-> "recalibration",
      measurement_error   |-> "none",
      other               |-> "none" ]

AllTypes == DOMAIN NC_CORRECTION_PREREQUISITES

AllActors ==
    {"user", "removal", "repair", "incident", "calibration", "scheduler", "checkout"}

ASSUME TypesAssumption == Types \subseteq AllTypes
ASSUME ActorsAssumption == Actors \subseteq AllActors
ASSUME StartAssumption ==
    StartStatuses \subseteq EquipmentStatuses \ {"non_conforming", "checked_out"}
ASSUME MaxVersionAssumption == MaxVersion \in Nat
ASSUME ClientVersionsAssumption == ClientVersions \in BOOLEAN
ASSUME NoIdAssumption == NoId \notin NCs \cup Repairs \cup Equipment

VARIABLES
    nc,         \* the rows of non_conformances
    known,      \* for each NC, the rows that a read through the cache may return
    repair,     \* the rows of repair_history
    equipment,  \* the status of each equipment row
    fresh,      \* the requests that have read the present version of an equipment row
    custody,    \* where the checkouts have each piece of equipment
    overdue,    \* equipment whose next calibration date has passed
    scan,       \* the scheduler's list: the status it read, or "none"
    request     \* what each request is doing

vars == <<nc, known, repair, equipment, fresh, custody, overdue, scan, request>>

-----------------------------------------------------------------------------
(* Rows *)

NoRow ==
    [equipment |-> NoId, type |-> "none", status |-> "none", previous |-> "none",
     repair |-> NoId, calibrated |-> FALSE, deleted |-> FALSE, version |-> 0]

Rows ==
    [equipment : Equipment, type : AllTypes, status : {"open", "corrected", "closed"},
     previous : EquipmentStatuses \cup {"none"}, repair : Repairs \cup {NoId},
     calibrated : BOOLEAN, deleted : BOOLEAN, version : Nat \ {0}]

OpenRow(e, type, previous, calibrated) ==
    [equipment |-> e, type |-> type, status |-> "open", previous |-> previous,
     repair |-> NoId, calibrated |-> calibrated, deleted |-> FALSE, version |-> 1]

VALID_TRANSITIONS ==
    [open |-> {"corrected"}, corrected |-> {"closed", "open"}, closed |-> {}]

validateCorrectionPrerequisite(row) ==
    LET prerequisite == NC_CORRECTION_PREREQUISITES[row.type]
    IN  /\ prerequisite = "repair" => row.repair # NoId
        /\ prerequisite = "recalibration" => row.calibrated

\* What the unique index looks at: the open NCs of a type and equipment.
Open(e, type) ==
    { n \in NCs : /\ nc[n].status = "open"
                  /\ ~nc[n].deleted
                  /\ nc[n].equipment = e
                  /\ nc[n].type = type }

\* The NCs of an equipment row that are neither closed nor removed.
Active(e) ==
    { n \in NCs : /\ nc[n].status \in {"open", "corrected"}
                  /\ ~nc[n].deleted
                  /\ nc[n].equipment = e }

Idle == [phase |-> "idle"]

Operations == {"edit", "correct", "rejectCorrection", "close", "remove", "linkRepair"}

RequestStates ==
    {Idle}
    \cup [phase : {"creating"}, equipment : Equipment, previous : EquipmentStatuses]
    \cup [phase : {"linking"}, nc : NCs, repair : Repairs, completed : BOOLEAN]
    \cup [phase : {"marking"}, nc : NCs]
    \cup [phase : {"loaded"}, op : Operations, nc : NCs, row : Rows, version : Nat,
          repair : Repairs \cup {NoId}, completed : BOOLEAN]
    \cup [phase : {"closing"}, nc : NCs, row : Rows, others : BOOLEAN]
    \cup [phase : {"calibrating"}, equipment : Equipment, nc : NCs \cup {NoId},
          newer : BOOLEAN, fails : BOOLEAN]

TypeOK ==
    /\ nc \in [NCs -> Rows \cup {NoRow}]
    /\ known \in [NCs -> SUBSET Rows]
    /\ repair \in [Repairs -> [nc : NCs \cup {NoId},
                               result : {"none", "unfinished", "completed", "deleted"}]]
    /\ equipment \in [Equipment -> EquipmentStatuses]
    /\ fresh \in [Equipment -> SUBSET Requests]
    /\ custody \in [Equipment -> {"home", "shop", "rental", "received"}]
    /\ overdue \subseteq Equipment
    /\ scan \in [Equipment -> EquipmentStatuses \cup {"none"}]
    /\ request \in [Requests -> RequestStates]

Init ==
    /\ nc = [n \in NCs |-> NoRow]
    /\ known = [n \in NCs |-> {}]
    /\ repair = [p \in Repairs |-> [nc |-> NoId, result |-> "none"]]
    /\ equipment \in [Equipment -> StartStatuses]
    /\ fresh = [e \in Equipment |-> {}]
    /\ custody = [e \in Equipment |-> "home"]
    /\ overdue = {}
    /\ scan = [e \in Equipment |-> "none"]
    /\ request = [r \in Requests |-> Idle]

-----------------------------------------------------------------------------
(* Writing rows *)

\* A row that a transaction has updated is locked until it ends.
Unlocked(n) == \A r \in Requests : request[r].phase = "closing" => request[r].nc # n

\* Rows that become open must keep the unique index.
KeepsIndex(n, row) ==
    row.status = "open" /\ ~row.deleted => Open(row.equipment, row.type) \subseteq {n}

\* A changed row gets the next version; the old one may linger in the cache.
Write(n, row) ==
    LET next == [row EXCEPT !.version = nc[n].version + 1]
    IN  /\ KeepsIndex(n, next)
        /\ nc' = [nc EXCEPT ![n] = next]
        /\ known' = [known EXCEPT ![n] = @ \cup {next}]

Insert(n, row) ==
    /\ nc[n] = NoRow
    /\ KeepsIndex(n, row)
    /\ nc' = [nc EXCEPT ![n] = row]
    /\ known' = [known EXCEPT ![n] = {row}]

KeepsRows == UNCHANGED <<nc, known>>

\* Every write of an equipment row raises its version, so a compare-and-set on
\* a version read before fails.
SetEquipment(e, status) ==
    /\ equipment' = [equipment EXCEPT ![e] = status]
    /\ fresh' = [fresh EXCEPT ![e] = {}]

KeepsEquipment == UNCHANGED <<equipment, fresh>>

Become(r, state) == request' = [request EXCEPT ![r] = state]

-----------------------------------------------------------------------------
(* Opening: the transaction reads the equipment row, inserts the NC and     *)
(* writes the equipment row if its version is still the one it read.        *)

CreateRead(r, e) ==
    /\ "user" \in Actors
    /\ request[r] = Idle
    /\ equipment[e] # "non_conforming"
    /\ Become(r, [phase |-> "creating", equipment |-> e, previous |-> equipment[e]])
    /\ fresh' = [fresh EXCEPT ![e] = @ \cup {r}]
    /\ UNCHANGED <<nc, known, repair, equipment, custody, overdue, scan>>

\* Mutant: the equipment row is written whatever its version.
CreateCommit_NoCompare(r, n, type) ==
    /\ request[r].phase = "creating"
    /\ Insert(n, OpenRow(request[r].equipment, type, request[r].previous, FALSE))
    /\ SetEquipment(request[r].equipment, "non_conforming")
    /\ Become(r, Idle)
    /\ UNCHANGED <<repair, custody, overdue, scan>>

CreateCommit(r, n, type) ==
    /\ request[r].phase = "creating"
    /\ r \in fresh[request[r].equipment]
    /\ Insert(n, OpenRow(request[r].equipment, type, request[r].previous, FALSE))
    /\ SetEquipment(request[r].equipment, "non_conforming")
    /\ Become(r, Idle)
    /\ UNCHANGED <<repair, custody, overdue, scan>>

\* An incident report: calibration_overdue opens an NC by itself and marks the
\* equipment only if it is overdue; damage and malfunction do as they are told.
createIncidentHistory(e, n, type) ==
    /\ "incident" \in Actors
    /\ type \in {"damage", "malfunction", "calibration_overdue"}
    /\ Insert(n, OpenRow(e, type, "none", FALSE))
    /\ \/ /\ type = "calibration_overdue" => e \in overdue
          /\ IF type = "calibration_overdue" /\ equipment[e] = "non_conforming"
             THEN KeepsEquipment
             ELSE SetEquipment(e, "non_conforming")
       \/ KeepsEquipment   \* reported for a past day, or without the mark
    /\ UNCHANGED <<repair, custody, overdue, scan, request>>

-----------------------------------------------------------------------------
(* The handlers of a manager or an engineer: load and check, then commit *)

\* Mutant: the prerequisite of a correction forgotten.
Allows_NoPrerequisite(op, row) ==
    /\ ~row.deleted
    /\ \/ op = "edit" /\ row.status # "closed"
       \/ op = "correct" /\ "corrected" \in VALID_TRANSITIONS[row.status]
       \/ op = "rejectCorrection" /\ "open" \in VALID_TRANSITIONS[row.status]
       \/ op = "close" /\ "closed" \in VALID_TRANSITIONS[row.status]
       \/ op = "remove" /\ "removal" \in Actors

Allows(op, row) ==
    /\ ~row.deleted
    /\ \/ op = "edit" /\ row.status # "closed"
       \/ /\ op = "correct"
          /\ "corrected" \in VALID_TRANSITIONS[row.status]
          /\ validateCorrectionPrerequisite(row)
       \/ op = "rejectCorrection" /\ "open" \in VALID_TRANSITIONS[row.status]
       \/ /\ op = "close"
          /\ "closed" \in VALID_TRANSITIONS[row.status]
          /\ validateCorrectionPrerequisite(row)
       \/ op = "remove" /\ "removal" \in Actors

Load(r, n, op) ==
    /\ "user" \in Actors
    /\ request[r] = Idle
    /\ \E row \in known[n] :
           /\ Allows(op, row)
           /\ \E version \in {row.version}
                             \cup (IF ClientVersions THEN {nc[n].version} ELSE {}) :
                  Become(r, [phase |-> "loaded", op |-> op, nc |-> n, row |-> row,
                             version |-> version, repair |-> NoId,
                             completed |-> FALSE])
    /\ UNCHANGED <<nc, known, repair, equipment, fresh, custody, overdue, scan>>

\* The compare-and-set succeeds for the request's NC.
Matches_Always(r, op) ==
    /\ request[r].phase = "loaded"
    /\ request[r].op = op
    /\ nc[request[r].nc].version < MaxVersion
    /\ Unlocked(request[r].nc)

Matches(r, op) ==
    /\ request[r].phase = "loaded"
    /\ request[r].op = op
    /\ request[r].version = nc[request[r].nc].version
    /\ request[r].version < MaxVersion
    /\ Unlocked(request[r].nc)

Row(r) == nc[request[r].nc]

\* An edit may carry the status its client saw.
Edit(r) ==
    /\ Matches(r, "edit")
    /\ \E status \in {Row(r).status, request[r].row.status} :
           Write(request[r].nc, [Row(r) EXCEPT !.status = status])
    /\ Become(r, Idle)
    /\ UNCHANGED <<repair, equipment, fresh, custody, overdue, scan>>

Correct(r) ==
    /\ Matches(r, "correct")
    /\ Write(request[r].nc, [Row(r) EXCEPT !.status = "corrected"])
    /\ Become(r, Idle)
    /\ UNCHANGED <<repair, equipment, fresh, custody, overdue, scan>>

rejectCorrection(r) ==
    /\ Matches(r, "rejectCorrection")
    /\ Write(request[r].nc, [Row(r) EXCEPT !.status = "open"])
    /\ Become(r, Idle)
    /\ UNCHANGED <<repair, equipment, fresh, custody, overdue, scan>>

\* Nothing is done about the equipment of an NC that is removed.
remove(r) ==
    /\ Matches(r, "remove")
    /\ Write(request[r].nc, [Row(r) EXCEPT !.deleted = TRUE])
    /\ Become(r, Idle)
    /\ UNCHANGED <<repair, equipment, fresh, custody, overdue, scan>>

\* The transaction of a close updates its row, sees whether the equipment has
\* other NCs, and in a later statement reads and restores the equipment row.
CloseUpdate(r) ==
    /\ Matches(r, "close")
    /\ Become(r, [phase |-> "closing", nc |-> request[r].nc, row |-> request[r].row,
                  others |-> Active(Row(r).equipment) \ {request[r].nc} # {}])
    /\ UNCHANGED <<nc, known, repair, equipment, fresh, custody, overdue, scan>>

\* Mutant: no status to fall back on.
restoreStatus_NoFallback(previous) ==
    IF previous \in EXCLUDED_OVERDUE_EQUIPMENT_STATUSES THEN "available" ELSE previous

\* Mutant: the status noted is given back whatever it was.
restoreStatus_AsNoted(previous) ==
    IF previous = "none" THEN "available" ELSE previous

restoreStatus(previous) ==
    IF previous \in EXCLUDED_OVERDUE_EQUIPMENT_STATUSES \cup {"none"}
    THEN "available" ELSE previous

CloseCommit(r) ==
    LET e == Row(r).equipment
    IN  /\ request[r].phase = "closing"
        /\ Write(request[r].nc, [Row(r) EXCEPT !.status = "closed"])
        /\ IF equipment[e] = "non_conforming" /\ ~request[r].others
           THEN SetEquipment(e, restoreStatus(request[r].row.previous))
           ELSE KeepsEquipment
        /\ Become(r, Idle)
        /\ UNCHANGED <<repair, custody, overdue, scan>>

-----------------------------------------------------------------------------
(* Repairs: a record is inserted first, then linked to its NC, then, if the *)
(* repair is complete, the NC is marked corrected; three separate writes.   *)

RepairCreate(r, n, p, completed) ==
    /\ "repair" \in Actors
    /\ request[r] = Idle
    /\ nc[n] # NoRow
    /\ repair[p].result = "none"
    /\ repair' = [repair EXCEPT ![p] =
           [nc |-> n, result |-> IF completed THEN "completed" ELSE "unfinished"]]
    /\ Become(r, [phase |-> "linking", nc |-> n, repair |-> p,
                  completed |-> completed])
    /\ UNCHANGED <<nc, known, equipment, fresh, custody, overdue, scan>>

\* Mutant: a second repair takes the link over.
LinkLoad_Relink(r) ==
    /\ request[r].phase = "linking"
    /\ \E row \in known[request[r].nc] :
           /\ ~row.deleted
           /\ row.status # "closed"
           /\ Become(r, [phase |-> "loaded", op |-> "linkRepair", nc |-> request[r].nc,
                         row |-> row, version |-> row.version,
                         repair |-> request[r].repair,
                         completed |-> request[r].completed])
    /\ UNCHANGED <<nc, known, repair, equipment, fresh, custody, overdue, scan>>

LinkLoad(r) ==
    /\ request[r].phase = "linking"
    /\ \E row \in known[request[r].nc] :
           /\ ~row.deleted
           /\ row.status # "closed"
           /\ row.repair = NoId
           /\ Become(r, [phase |-> "loaded", op |-> "linkRepair", nc |-> request[r].nc,
                         row |-> row, version |-> row.version,
                         repair |-> request[r].repair,
                         completed |-> request[r].completed])
    /\ UNCHANGED <<nc, known, repair, equipment, fresh, custody, overdue, scan>>

LinkCommit(r) ==
    /\ Matches(r, "linkRepair")
    /\ Write(request[r].nc, [Row(r) EXCEPT !.repair = request[r].repair])
    /\ IF request[r].completed
       THEN Become(r, [phase |-> "marking", nc |-> request[r].nc])
       ELSE Become(r, Idle)
    /\ UNCHANGED <<repair, equipment, fresh, custody, overdue, scan>>

MarkLoad(r) ==
    /\ request[r].phase = "marking"
    /\ \E row \in known[request[r].nc] :
           /\ Allows("correct", row)
           /\ Become(r, [phase |-> "loaded", op |-> "correct", nc |-> request[r].nc,
                         row |-> row, version |-> row.version, repair |-> NoId,
                         completed |-> FALSE])
    /\ UNCHANGED <<nc, known, repair, equipment, fresh, custody, overdue, scan>>

\* Completing a repair marks the NC it is linked to, if that is not corrected.
RepairComplete(r, p) ==
    LET linked == { n \in NCs : nc[n].repair = p /\ ~nc[n].deleted }
    IN  /\ "repair" \in Actors
        /\ request[r] = Idle
        /\ repair[p].result = "unfinished"
        /\ repair' = [repair EXCEPT ![p].result = "completed"]
        /\ \/ \E n \in linked :
                  /\ nc[n].status # "corrected"
                  /\ Become(r, [phase |-> "marking", nc |-> n])
           \/ /\ \A n \in linked : nc[n].status = "corrected"
              /\ UNCHANGED request
        /\ UNCHANGED <<nc, known, equipment, fresh, custody, overdue, scan>>

\* An edit may take the completion back; the NC is left as it is.
RepairReopen(p) ==
    /\ "repair" \in Actors
    /\ repair[p].result = "completed"
    /\ repair' = [repair EXCEPT ![p].result = "unfinished"]
    /\ UNCHANGED <<nc, known, equipment, fresh, custody, overdue, scan, request>>

RepairRemove(p) ==
    /\ "repair" \in Actors
    /\ repair[p].result \in {"unfinished", "completed"}
    /\ repair' = [repair EXCEPT ![p].result = "deleted"]
    /\ UNCHANGED <<nc, known, equipment, fresh, custody, overdue, scan, request>>

-----------------------------------------------------------------------------
(* Calibration approvals, in one transaction with the calibration itself *)

\* A calibration newer than the last first writes its dates to the equipment
\* row and so keeps the row locked.
CalibrationSelect(r, e) ==
    /\ "calibration" \in Actors
    /\ request[r] = Idle
    /\ \E newer, fails \in BOOLEAN,
          n \in IF Open(e, "calibration_overdue") = {} THEN {NoId}
                ELSE Open(e, "calibration_overdue") :
           /\ newer => \A q \in Requests :
                  request[q].phase = "calibrating" /\ request[q].newer
                      => request[q].equipment # e
           /\ Become(r, [phase |-> "calibrating", equipment |-> e, nc |-> n,
                         newer |-> newer, fails |-> fails])
    /\ UNCHANGED <<nc, known, repair, equipment, fresh, custody, overdue, scan>>

\* The NC found is marked by identifier alone; a failed calibration joins the
\* open failure of the equipment or opens one.
CalibrationCommit(r) ==
    LET e        == request[r].equipment
        found    == {request[r].nc} \ {NoId}
        failures == IF request[r].fails THEN Open(e, "calibration_failure") ELSE {}
        marked   == [n \in NCs |->
            IF n \in found
            THEN [nc[n] EXCEPT !.status = "corrected", !.calibrated = TRUE,
                               !.version = @ + 1]
            ELSE IF n \in failures
            THEN [nc[n] EXCEPT !.calibrated = TRUE, !.version = @ + 1]
            ELSE nc[n]]
        failure  == OpenRow(e, "calibration_failure", equipment[e], TRUE)
        opens    == request[r].fails /\ failures = {}
    IN  /\ request[r].phase = "calibrating"
        /\ \A n \in found \cup failures : Unlocked(n) /\ nc[n].version < MaxVersion
        /\ \/ ~opens /\ nc' = marked
           \/ /\ opens
              /\ \E n \in NCs : nc[n] = NoRow /\ nc' = [marked EXCEPT ![n] = failure]
        /\ known' = [n \in NCs |-> IF nc'[n] = nc[n] THEN known[n]
                                   ELSE known[n] \cup {nc'[n]}]
        /\ IF opens /\ equipment[e] # "non_conforming"
           THEN SetEquipment(e, "non_conforming")
           ELSE /\ equipment' = equipment
                /\ fresh' = IF request[r].newer THEN [fresh EXCEPT ![e] = {}] ELSE fresh
        /\ overdue' = IF request[r].newer THEN overdue \ {e} ELSE overdue
        /\ Become(r, Idle)
        /\ UNCHANGED <<repair, custody, scan>>

-----------------------------------------------------------------------------
(* The hourly scheduler *)

CalibrationFallsDue(e) ==
    /\ Actors \cap {"scheduler", "incident"} # {}
    /\ e \notin overdue
    /\ overdue' = overdue \cup {e}
    /\ UNCHANGED <<nc, known, repair, equipment, fresh, custody, scan, request>>

\* Mutant: equipment that is out is left alone.
Scan_AvailableOnly ==
    LET late == { e \in overdue : /\ equipment[e] = "available"
                                  /\ Open(e, "calibration_overdue") = {} }
    IN  /\ "scheduler" \in Actors
        /\ \A e \in Equipment : scan[e] = "none"
        /\ late # {}
        /\ scan' = [e \in Equipment |-> IF e \in late THEN equipment[e] ELSE "none"]
        /\ UNCHANGED <<nc, known, repair, equipment, fresh, custody, overdue, request>>

\* It lists the overdue equipment with its status, and what has an NC already.
Scan ==
    LET late == { e \in overdue :
                      /\ equipment[e] \notin EXCLUDED_OVERDUE_EQUIPMENT_STATUSES
                      /\ Open(e, "calibration_overdue") = {} }
    IN  /\ "scheduler" \in Actors
        /\ \A e \in Equipment : scan[e] = "none"
        /\ late # {}
        /\ scan' = [e \in Equipment |-> IF e \in late THEN equipment[e] ELSE "none"]
        /\ UNCHANGED <<nc, known, repair, equipment, fresh, custody, overdue, request>>

\* One transaction per piece of equipment: it looks for an NC again, but not at
\* the equipment, whose row it overwrites.
ProcessOverdue(e) ==
    /\ scan[e] # "none"
    /\ scan' = [scan EXCEPT ![e] = "none"]
    /\ IF Open(e, "calibration_overdue") # {}
       THEN KeepsRows /\ KeepsEquipment
       ELSE /\ \E n \in NCs : Insert(n, OpenRow(e, "calibration_overdue", scan[e], FALSE))
            /\ SetEquipment(e, "non_conforming")
    /\ UNCHANGED <<repair, custody, overdue, request>>

\* A failure is logged and the equipment left to the next hour.
OverdueFails(e) ==
    /\ scan[e] # "none"
    /\ scan' = [scan EXCEPT ![e] = "none"]
    /\ UNCHANGED <<nc, known, repair, equipment, fresh, custody, overdue, request>>

-----------------------------------------------------------------------------
(* What checkouts write to equipment rows (module Checkout has the rest) *)

CheckOut(e) ==
    /\ "checkout" \in Actors
    /\ custody[e] = "home"
    /\ \E kind \in {"shop", "rental"} : custody' = [custody EXCEPT ![e] = kind]
    /\ SetEquipment(e, "checked_out")
    /\ UNCHANGED <<nc, known, repair, overdue, scan, request>>

\* A manager approves the return from the shop, or the end of a rental.
ReturnApproved(e) ==
    /\ custody[e] \in {"shop", "received"}
    /\ custody' = [custody EXCEPT ![e] = "home"]
    /\ IF equipment[e] = "checked_out" THEN SetEquipment(e, "available") ELSE KeepsEquipment
    /\ UNCHANGED <<nc, known, repair, overdue, scan, request>>

\* The lender checks a rental that came back.
LenderReceives(e) ==
    /\ custody[e] = "rental"
    /\ custody' = [custody EXCEPT ![e] = "received"]
    /\ SetEquipment(e, "available")
    /\ UNCHANGED <<nc, known, repair, overdue, scan, request>>

ReturnRejected(e) ==
    /\ custody[e] = "received"
    /\ custody' = [custody EXCEPT ![e] = "rental"]
    /\ IF equipment[e] = "available" THEN SetEquipment(e, "checked_out") ELSE KeepsEquipment
    /\ UNCHANGED <<nc, known, repair, overdue, scan, request>>

-----------------------------------------------------------------------------

\* A conflict, a refused input, a deadlock of two transactions or a failed
\* query: nothing of the statement or transaction is kept.
Fail(r) ==
    /\ request[r] # Idle
    /\ Become(r, Idle)
    /\ UNCHANGED <<nc, known, repair, equipment, fresh, custody, overdue, scan>>

\* The process restarts: requests, the scheduler's list and the cache are gone.
Restart ==
    /\ request' = [r \in Requests |-> Idle]
    /\ fresh' = [e \in Equipment |-> {}]
    /\ scan' = [e \in Equipment |-> "none"]
    /\ known' = [n \in NCs |-> IF nc[n] = NoRow THEN {} ELSE {nc[n]}]
    /\ UNCHANGED <<nc, repair, equipment, custody, overdue>>

RequestStep(r) ==
    \/ \E e \in Equipment : CreateRead(r, e) \/ CalibrationSelect(r, e)
    \/ \E n \in NCs, type \in Types : CreateCommit(r, n, type)
    \/ \E n \in NCs, op \in Operations \ {"linkRepair"} : Load(r, n, op)
    \/ Edit(r) \/ Correct(r) \/ rejectCorrection(r) \/ remove(r)
    \/ CloseUpdate(r)
    \/ CloseCommit(r)
    \/ \E n \in NCs, p \in Repairs, completed \in BOOLEAN :
           RepairCreate(r, n, p, completed)
    \/ LinkLoad(r)
    \/ LinkCommit(r)
    \/ MarkLoad(r)
    \/ \E p \in Repairs : RepairComplete(r, p)
    \/ CalibrationCommit(r)
    \/ Fail(r)

EquipmentStep(e) ==
    \/ \E n \in NCs, type \in Types : createIncidentHistory(e, n, type)
    \/ CalibrationFallsDue(e)
    \/ ProcessOverdue(e)
    \/ OverdueFails(e)
    \/ CheckOut(e)
    \/ ReturnApproved(e)
    \/ LenderReceives(e)
    \/ ReturnRejected(e)

Next ==
    \/ \E r \in Requests : RequestStep(r)
    \/ \E e \in Equipment : EquipmentStep(e)
    \/ \E p \in Repairs : RepairReopen(p) \/ RepairRemove(p)
    \/ Scan
    \/ Restart

Spec == Init /\ [][Next]_vars

\* The scheduler runs every hour; what fails is tried again, and does not fail
\* for ever.
Fairness ==
    /\ WF_vars(Scan)
    /\ \A e \in Equipment : SF_vars(ProcessOverdue(e))

LiveSpec == Spec /\ Fairness

-----------------------------------------------------------------------------
(* Properties of the records, whoever acts and whatever version is sent *)

\* An NC is corrected or closed only with what its type requires: damage and
\* malfunction with a repair, an overdue calibration with a calibration.  The
\* handlers look for it on a row that may be old, and commit on a version.
CorrectedMeetsPrerequisite ==
    \A n \in NCs :
        nc[n].status \in {"corrected", "closed"} => validateCorrectionPrerequisite(nc[n])

\* The repair an NC is linked to stays its repair: of two repairs recorded for
\* one NC at the same time, the later does not take the link over.
LinkIsStable ==
    [][\A n \in NCs : nc[n].repair # NoId => nc'[n].repair = nc[n].repair]_vars

-----------------------------------------------------------------------------
(* Properties of clients that send the version of the detail they act on *)

\* A closed NC stays closed: "closed" has no transition, and no stale read of
\* a handler gives it one.
ClosedIsFinal ==
    [][\A n \in NCs : nc[n].status = "closed" => nc'[n].status = "closed"]_vars

-----------------------------------------------------------------------------
(* Properties of the equipment *)

\* Equipment is marked non-conforming while it has an NC that is open or
\* corrected, and only then: creating an NC beside another, or while one is
\* being closed, must not slip through between the statements of either.
MarkFollowsRecords ==
    \A e \in Equipment : equipment[e] = "non_conforming" <=> Active(e) # {}

\* The records and the equipment as a ledger that entries are made in one at a
\* time shows them.
stateOf == [n \in NCs |-> IF nc[n].deleted THEN "withdrawn" ELSE nc[n].status]
aboutOf == [n \in NCs |-> nc[n].equipment]
notedOf == [n \in NCs |-> nc[n].previous]

needsOf ==
    [n \in NCs |-> IF nc[n] = NoRow THEN "none"
                   ELSE NC_CORRECTION_PREREQUISITES[nc[n].type]]

hasOf ==
    [n \in NCs |-> { remedy \in {"repair", "recalibration"} :
                         \/ remedy = "repair" /\ nc[n].repair # NoId
                         \/ remedy = "recalibration" /\ nc[n].calibrated }]

Ledger ==
    INSTANCE NonConformanceLedger
    WITH state <- stateOf, about <- aboutOf, needs <- needsOf, has <- hasOf,
         noted <- notedOf, status <- equipment,
         Unfit <- EXCLUDED_OVERDUE_EQUIPMENT_STATUSES \cup {"none"}

\* To users and repairs the records are such a ledger: the cache, the versions
\* and the three writes of a repair do not show, and the statements of a close,
\* with others between them, give the equipment the status that it had when
\* this very NC was opened.
KeepsLedger == Ledger!Spec

\* At most one close is under way over a piece of equipment.
ClosingsApart ==
    \A r, s \in Requests :
        /\ request[r].phase = "closing" /\ request[s].phase = "closing"
        /\ Row(r).equipment = Row(s).equipment
        => r = s

\* Equipment whose last NC is closed is not left marked: what the close handler
\* looks for other NCs for.
NonConformingHasReason ==
    \A e \in Equipment : equipment[e] = "non_conforming" => Active(e) # {}

\* Equipment with an NC that is not closed stays marked, or is out with a checkout
\* that takes it to be repaired or calibrated.
OpenNcKeepsMark ==
    \A e \in Equipment :
        Active(e) # {} => equipment[e] = "non_conforming" \/ custody[e] # "home"

\* Equipment that came back and whose NCs are closed is not still marked as out.
CheckedOutIsOut ==
    \A e \in Equipment :
        equipment[e] = "checked_out" => custody[e] \in {"shop", "rental"}

\* A repair that was recorded for an NC is linked to it once its request is done.
RepairsAreLinked ==
    \A p \in Repairs :
        /\ repair[p].nc # NoId
        /\ repair[p].result # "deleted"
        /\ \A r \in Requests : request[r] = Idle
        => nc[repair[p].nc].repair = p

-----------------------------------------------------------------------------
(* Liveness *)

\* Equipment whose calibration is overdue does not stay usable unnoticed: it
\* gets an NC, whatever checkouts do to its row in between and whichever hours
\* the scheduler fails or the process restarts.
OverdueIsNoticed ==
    \A e \in Equipment :
        /\ e \in overdue
        /\ equipment[e] \notin EXCLUDED_OVERDUE_EQUIPMENT_STATUSES
        ~> \/ e \notin overdue
           \/ Open(e, "calibration_overdue") # {}

=============================================================================
