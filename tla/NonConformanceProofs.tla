-------------------------- MODULE NonConformanceProofs --------------------------
(***************************************************************************)
(* Type correctness of NonConformance, the prerequisite of a correction    *)
(* and the stability of the link to a repair, for every value of the       *)
(* constants: in particular for clients that send any version they know    *)
(* and for a cache that returns any row since the last restart.            *)
(*                                                                         *)
(* The argument: a handler decides on a row that may be old and commits on *)
(* a version, so what it relied on must still hold of the present row.     *)
(* The repair and the calibration of a row, once there, stay, and its type *)
(* never changes; whatever row was ever read is followed by the present    *)
(* one in this sense (Follows), and a prerequisite met by the old row is   *)
(* met by the new one.                                                     *)
(*                                                                         *)
(* For clients that send the version of the detail they act on, a commit   *)
(* confirms the very row that was decided on: without calibrations a       *)
(* closed one stays closed, and with users and repairs alone equipment is  *)
(* marked exactly while it has an open non-conformance; removals do no     *)
(* more than leave the mark, and with them, too, the whole implements      *)
(* NonConformanceLedger.  That equipment is not left marked     *)
(* without a reason is shown for all other actors but removals, as long as *)
(* closes over one piece of equipment keep apart.                          *)
(***************************************************************************)
EXTENDS NonConformance, TLAPS

-----------------------------------------------------------------------------
(* The inductive invariant *)

\* The row t of an NC may be the row s, or a later one.
Follows(t, s) ==
    /\ t.type = s.type
    /\ s.version <= t.version
    /\ s.version = t.version => s = t
    /\ s.repair # NoId => t.repair = s.repair
    /\ s.calibrated => t.calibrated

\* A corrected or closed row has what its type requires.
Meets(row) ==
    row.status \in {"corrected", "closed"} => validateCorrectionPrerequisite(row)

\* s is or was a row of the NC n.
WasRow(n, s) ==
    /\ nc[n] # NoRow
    /\ s \in Rows
    /\ Follows(nc[n], s)
    /\ Meets(s)

\* What a request holds was true when it read it, and what it relies on still is.
Fits(q) ==
    /\ q.phase \in {"linking", "marking"} => nc[q.nc] # NoRow
    /\ q.phase = "loaded" =>
           /\ WasRow(q.nc, q.row)
           /\ q.op \in {"correct", "close"} => validateCorrectionPrerequisite(q.row)
           /\ q.op = "linkRepair" => q.version = q.row.version /\ q.row.repair = NoId
    /\ q.phase = "closing" =>
           WasRow(q.nc, q.row) /\ validateCorrectionPrerequisite(q.row)
    /\ q.phase = "calibrating" /\ q.nc # NoId =>
           nc[q.nc].type = "calibration_overdue"

CacheIsPast == \A n \in NCs : \A s \in known[n] : WasRow(n, s)

RequestsFit == \A r \in Requests : Fits(request[r])

Inv ==
    /\ TypeOK
    /\ CorrectedMeetsPrerequisite
    /\ CacheIsPast
    /\ RequestsFit

-----------------------------------------------------------------------------
(* Rows *)

LEMMA FollowsItself == \A s \in Rows : Follows(s, s)
BY DEF Follows, Rows

LEMMA PrerequisiteCarries ==
    ASSUME NEW s \in Rows, NEW t \in Rows, Follows(t, s),
           validateCorrectionPrerequisite(s)
    PROVE  validateCorrectionPrerequisite(t)
<1> DEFINE prerequisite == NC_CORRECTION_PREREQUISITES[s.type]
<1>1. /\ t.type = s.type
      /\ s.repair # NoId => t.repair = s.repair
      /\ s.calibrated => t.calibrated
  BY DEF Follows
<1>2. /\ prerequisite = "repair" => s.repair # NoId
      /\ prerequisite = "recalibration" => s.calibrated
  BY DEF validateCorrectionPrerequisite
<1>3. NC_CORRECTION_PREREQUISITES[t.type] = prerequisite
  BY <1>1
<1> HIDE DEF prerequisite
<1> QED
  BY <1>1, <1>2, <1>3 DEF validateCorrectionPrerequisite

\* The rows the handlers write: one field changed.
LEMMA ChangedRow ==
    ASSUME NEW s \in Rows
    PROVE  /\ \A status \in {"open", "corrected", "closed"} :
                  LET t == [s EXCEPT !.status = status]
                  IN  /\ t \in Rows /\ t.status = status /\ t.type = s.type
                      /\ t.repair = s.repair /\ t.calibrated = s.calibrated
                      /\ t.version = s.version /\ t.deleted = s.deleted
           /\ \A p \in Repairs :
                  LET t == [s EXCEPT !.repair = p]
                  IN  /\ t \in Rows /\ t.status = s.status /\ t.type = s.type
                      /\ t.repair = p /\ t.calibrated = s.calibrated
                      /\ t.version = s.version /\ t.deleted = s.deleted
           /\ LET t == [s EXCEPT !.deleted = TRUE]
              IN  /\ t \in Rows /\ t.status = s.status /\ t.type = s.type
                  /\ t.repair = s.repair /\ t.calibrated = s.calibrated
                  /\ t.version = s.version
           /\ LET t == [s EXCEPT !.calibrated = TRUE]
              IN  /\ t \in Rows /\ t.status = s.status /\ t.type = s.type
                  /\ t.repair = s.repair /\ t.calibrated
                  /\ t.version = s.version
           /\ \A v \in Nat \ {0} :
                  LET t == [s EXCEPT !.version = v]
                  IN  /\ t \in Rows /\ t.status = s.status /\ t.type = s.type
                      /\ t.repair = s.repair /\ t.calibrated = s.calibrated
                      /\ t.version = v /\ t.deleted = s.deleted
BY DEF Rows

LEMMA OpenedRow ==
    ASSUME NEW e \in Equipment, NEW type \in AllTypes,
           NEW previous \in EquipmentStatuses \cup {"none"}, NEW calibrated \in BOOLEAN
    PROVE  /\ OpenRow(e, type, previous, calibrated) \in Rows
           /\ OpenRow(e, type, previous, calibrated).status = "open"
BY DEF OpenRow, Rows

LEMMA NoRowIsNone == NoRow \notin Rows /\ NoRow.status = "none" /\ NoRow.type = "none"
                     /\ NoRow.repair = NoId
BY DEF NoRow, Rows

-----------------------------------------------------------------------------
(* What a step does to an NC: it leaves it alone, opens it, or gives it a    *)
(* later row that has what it had.                                           *)

Advances(s, t) ==
    /\ t.type = s.type
    /\ t.version = s.version + 1
    /\ s.repair # NoId => t.repair = s.repair
    /\ s.calibrated => t.calibrated
    /\ Meets(t)

RowMoves(n) ==
    /\ \/ nc'[n] = nc[n]
       \/ nc[n] = NoRow /\ nc'[n] \in Rows /\ Meets(nc'[n])
       \/ nc[n] \in Rows /\ nc'[n] \in Rows /\ Advances(nc[n], nc'[n])
    /\ known'[n] \subseteq known[n] \cup ({nc'[n]} \ {NoRow})

Moves ==
    /\ nc' \in [NCs -> Rows \cup {NoRow}]
    /\ known' \in [NCs -> SUBSET Rows]
    /\ \A n \in NCs : RowMoves(n)

LEMMA StandingStill ==
    ASSUME Inv, UNCHANGED <<nc, known>>
    PROVE  Moves
BY DEF Inv, TypeOK, Moves, RowMoves

LEMMA WriteMoves ==
    ASSUME Inv, NEW n \in NCs, NEW row \in Rows, nc[n] \in Rows,
           row.type = nc[n].type,
           nc[n].repair # NoId => row.repair = nc[n].repair,
           nc[n].calibrated => row.calibrated,
           Meets(row), Write(n, row)
    PROVE  /\ Moves
           /\ nc'[n].version = nc[n].version + 1
<1> DEFINE v == nc[n].version + 1
           next == [row EXCEPT !.version = v]
<1>1. v \in Nat \ {0}
  BY DEF Rows
<1> HIDE DEF v
<1>2. /\ next \in Rows /\ next.status = row.status /\ next.type = row.type
      /\ next.repair = row.repair /\ next.calibrated = row.calibrated
      /\ next.version = v
  BY <1>1 DEF Rows
<1> USE DEF v
<1>3. /\ nc' = [nc EXCEPT ![n] = next]
      /\ known' = [known EXCEPT ![n] = @ \cup {next}]
  BY DEF Write
<1> HIDE DEF next
<1>4. Meets(next)
  BY <1>2 DEF Meets, validateCorrectionPrerequisite
<1>5. Advances(nc[n], next)
  BY <1>2, <1>4 DEF Advances
<1>6. /\ nc \in [NCs -> Rows \cup {NoRow}]
      /\ known \in [NCs -> SUBSET Rows]
  BY DEF Inv, TypeOK
<1>7. /\ nc' \in [NCs -> Rows \cup {NoRow}]
      /\ known' \in [NCs -> SUBSET Rows]
      /\ nc'[n] = next
      /\ known'[n] = known[n] \cup {next}
  BY <1>2, <1>3, <1>6
<1>8. ASSUME NEW m \in NCs PROVE RowMoves(m)
  <2>1. CASE m = n
    BY <1>2, <1>5, <1>7, <2>1, NoRowIsNone DEF RowMoves
  <2>2. CASE m # n
    BY <1>3, <1>6, <2>2 DEF RowMoves
  <2> QED
    BY <2>1, <2>2
<1> QED
  BY <1>2, <1>7, <1>8 DEF Moves

LEMMA InsertMoves ==
    ASSUME Inv, NEW n \in NCs, NEW row \in Rows, row.status = "open", Insert(n, row)
    PROVE  Moves
<1>1. /\ nc \in [NCs -> Rows \cup {NoRow}]
      /\ known \in [NCs -> SUBSET Rows]
      /\ nc[n] = NoRow
      /\ nc' = [nc EXCEPT ![n] = row]
      /\ known' = [known EXCEPT ![n] = {row}]
  BY DEF Inv, TypeOK, Insert
<1>2. Meets(row)
  BY DEF Meets
<1>3. /\ nc' \in [NCs -> Rows \cup {NoRow}]
      /\ known' \in [NCs -> SUBSET Rows]
  BY <1>1
<1>4. ASSUME NEW m \in NCs PROVE RowMoves(m)
  <2>1. CASE m = n
    BY <1>1, <1>2, <2>1, NoRowIsNone DEF RowMoves
  <2>2. CASE m # n
    BY <1>1, <2>2 DEF RowMoves
  <2> QED
    BY <2>1, <2>2
<1> QED
  BY <1>3, <1>4 DEF Moves

\* What was once read of an NC is still one of its rows, and what a request
\* holds stays right.
LEMMA PastStays ==
    ASSUME Inv, Moves, NEW n \in NCs, NEW s, WasRow(n, s)
    PROVE  WasRow(n, s)'
<1>1. RowMoves(n) /\ nc[n] \in Rows /\ nc[n] # NoRow
  BY NoRowIsNone DEF Moves, WasRow, Inv, TypeOK
<1>2. CASE nc'[n] = nc[n]
  BY <1>2 DEF WasRow
<1>3. CASE nc'[n] \in Rows /\ Advances(nc[n], nc'[n])
  <2>1. s \in Rows /\ Follows(nc[n], s) /\ Meets(s)
    BY DEF WasRow
  <2>2. s.version \in Nat /\ nc[n].version \in Nat
    BY <2>1, <1>1 DEF Rows
  <2>3. Follows(nc'[n], s)
    BY <1>3, <2>1, <2>2 DEF Follows, Advances
  <2> QED
    BY <1>3, <2>1, <2>3, NoRowIsNone DEF WasRow
<1> QED
  BY <1>1, <1>2, <1>3 DEF RowMoves

LEMMA RequestStays ==
    ASSUME Inv, Moves, NEW r \in Requests, request'[r] = request[r]
    PROVE  Fits(request[r])'
<1> DEFINE q == request[r]
<1>1. q \in RequestStates /\ Fits(q)
  BY DEF Inv, TypeOK, RequestsFit
<1>2. CASE q.phase \in {"linking", "marking"}
  <2>1. q.nc \in NCs /\ nc[q.nc] # NoRow
    BY <1>1, <1>2 DEF RequestStates, Idle, Fits
  <2>2. nc'[q.nc] # NoRow
    BY <2>1, NoRowIsNone DEF Moves, RowMoves
  <2> QED
    BY <1>2, <2>2 DEF Fits
<1>3. CASE q.phase \in {"loaded", "closing"}
  <2>1. q.nc \in NCs /\ WasRow(q.nc, q.row)
    BY <1>1, <1>3 DEF RequestStates, Idle, Fits
  <2> HIDE DEF q
  <2>2. /\ nc'[q.nc] # NoRow
        /\ q.row \in Rows
        /\ Follows(nc'[q.nc], q.row)
        /\ Meets(q.row)
    BY <2>1, PastStays DEF WasRow
  <2> USE DEF q
  <2>3. CASE q.phase = "loaded"
    <3>1. /\ q.op \in {"correct", "close"} => validateCorrectionPrerequisite(q.row)
          /\ q.op = "linkRepair" => q.version = q.row.version /\ q.row.repair = NoId
      BY <1>1, <2>3 DEF Fits
    <3> QED
      BY <2>2, <2>3, <3>1 DEF Fits, WasRow, validateCorrectionPrerequisite
  <2>4. CASE q.phase = "closing"
    <3>1. validateCorrectionPrerequisite(q.row)
      BY <1>1, <2>4 DEF Fits
    <3> QED
      BY <2>2, <2>4, <3>1 DEF Fits, WasRow, validateCorrectionPrerequisite
  <2> QED
    BY <1>3, <2>3, <2>4
<1>4. CASE q.phase = "calibrating" /\ q.nc # NoId
  <2>1. q.nc \in NCs /\ nc[q.nc].type = "calibration_overdue"
    BY <1>1, <1>4 DEF RequestStates, Idle, Fits
  <2>2. nc'[q.nc].type = "calibration_overdue"
    BY <2>1, NoRowIsNone DEF Moves, RowMoves, Advances
  <2> QED
    BY <1>4, <2>2 DEF Fits
<1> QED
  BY <1>2, <1>3, <1>4 DEF Fits

-----------------------------------------------------------------------------
(* The parts of a step *)

RestTyped ==
    /\ repair \in [Repairs -> [nc : NCs \cup {NoId},
                               result : {"none", "unfinished", "completed", "deleted"}]]
    /\ equipment \in [Equipment -> EquipmentStatuses]
    /\ fresh \in [Equipment -> SUBSET Requests]
    /\ custody \in [Equipment -> {"home", "shop", "rental", "received"}]
    /\ overdue \subseteq Equipment
    /\ scan \in [Equipment -> EquipmentStatuses \cup {"none"}]

RequestsRight ==
    /\ request \in [Requests -> RequestStates]
    /\ RequestsFit

LEMMA Assembled ==
    ASSUME Inv, Moves, RestTyped', RequestsRight'
    PROVE  Moves /\ Inv'
<1>1. TypeOK'
  BY DEF TypeOK, Moves, RestTyped, RequestsRight
<1>2. ASSUME NEW n \in NCs PROVE Meets(nc'[n])
  BY NoRowIsNone DEF Inv, CorrectedMeetsPrerequisite, Moves, RowMoves, Advances, Meets
<1>3. CorrectedMeetsPrerequisite'
  BY <1>2 DEF CorrectedMeetsPrerequisite, Meets, validateCorrectionPrerequisite
<1>4. ASSUME NEW n \in NCs, NEW s \in known'[n] PROVE WasRow(n, s)'
  <2>1. CASE s \in known[n]
    BY <2>1, PastStays DEF Inv, CacheIsPast
  <2>2. CASE s \notin known[n]
    <3>1. s = nc'[n] /\ nc'[n] # NoRow
      BY <2>2 DEF Moves, RowMoves
    <3>2. s \in Rows
      BY <3>1 DEF Moves
    <3>3. Follows(s, s) /\ Meets(s)
      BY <1>2, <3>1, <3>2, FollowsItself
    <3> QED
      BY <3>1, <3>2, <3>3 DEF WasRow
  <2> QED
    BY <2>1, <2>2
<1>5. CacheIsPast'
  BY <1>4 DEF CacheIsPast
<1> QED
  BY <1>1, <1>3, <1>5 DEF Inv, RequestsRight

LEMMA SameRequests ==
    ASSUME Inv, Moves, UNCHANGED request
    PROVE  RequestsRight'
<1>1. ASSUME NEW r \in Requests PROVE Fits(request[r])'
  BY RequestStays
<1> QED
  BY <1>1 DEF RequestsRight, RequestsFit, Inv, TypeOK

LEMMA OneRequest ==
    ASSUME Inv, Moves, NEW r \in Requests, NEW q \in RequestStates, Become(r, q),
           Fits(request[r])'
    PROVE  RequestsRight'
<1>1. request' = [request EXCEPT ![r] = q] /\ request \in [Requests -> RequestStates]
  BY DEF Become, Inv, TypeOK
<1>2. ASSUME NEW p \in Requests, p # r PROVE Fits(request[p])'
  <2>1. request'[p] = request[p]
    BY <1>1, <1>2
  <2> QED
    BY <2>1, RequestStays
<1>3. RequestsFit'
  BY <1>2 DEF RequestsFit
<1>4. request' \in [Requests -> RequestStates]
  BY <1>1
<1> QED
  BY <1>3, <1>4 DEF RequestsRight

LEMMA EndedRequest ==
    ASSUME Inv, Moves, NEW r \in Requests, Become(r, Idle)
    PROVE  RequestsRight'
<1>1. request'[r] = Idle
  BY DEF Become, Inv, TypeOK
<1>2. Fits(request[r])'
  BY <1>1 DEF Fits, Idle
<1>3. Idle \in RequestStates
  BY DEF RequestStates
<1> QED
  BY <1>2, <1>3, OneRequest

\* The equipment part of a step.
EquipmentRight ==
    /\ equipment \in [Equipment -> EquipmentStatuses]
    /\ fresh \in [Equipment -> SUBSET Requests]

LEMMA EquipmentStays ==
    ASSUME Inv, KeepsEquipment
    PROVE  EquipmentRight'
BY DEF Inv, TypeOK, KeepsEquipment, EquipmentRight

LEMMA EquipmentSet ==
    ASSUME Inv, NEW e \in Equipment, NEW status \in EquipmentStatuses,
           SetEquipment(e, status)
    PROVE  EquipmentRight'
BY DEF Inv, TypeOK, SetEquipment, EquipmentRight

-----------------------------------------------------------------------------
(* Requests that are about to commit *)

LEMMA MatchedRow ==
    ASSUME Inv, NEW r \in Requests, NEW op \in Operations, Matches(r, op)
    PROVE  /\ request[r] \in [phase : {"loaded"}, op : Operations, nc : NCs, row : Rows,
                              version : Nat, repair : Repairs \cup {NoId},
                              completed : BOOLEAN]
           /\ request[r].nc \in NCs
           /\ Row(r) = nc[request[r].nc]
           /\ Row(r) \in Rows
           /\ Follows(Row(r), request[r].row)
           /\ Meets(Row(r))
           /\ op \in {"correct", "close"} => validateCorrectionPrerequisite(Row(r))
           /\ op = "linkRepair" => Row(r).repair = NoId
<1>1. /\ request[r] \in [phase : {"loaded"}, op : Operations, nc : NCs, row : Rows,
                        version : Nat, repair : Repairs \cup {NoId},
                        completed : BOOLEAN]
      /\ request[r].op = op
  BY DEF Inv, TypeOK, RequestStates, Idle, Matches
<1>2. Fits(request[r])
  BY DEF Inv, RequestsFit
<1>3. /\ WasRow(request[r].nc, request[r].row)
      /\ op \in {"correct", "close"} => validateCorrectionPrerequisite(request[r].row)
      /\ op = "linkRepair" => /\ request[r].version = request[r].row.version
                              /\ request[r].row.repair = NoId
  BY <1>1, <1>2 DEF Fits
<1>4. /\ Row(r) = nc[request[r].nc]
      /\ Row(r) \in Rows
      /\ Follows(Row(r), request[r].row)
  BY <1>1, <1>3 DEF WasRow, Row, Inv, TypeOK
<1>5. Meets(Row(r))
  BY <1>1, <1>4 DEF Inv, CorrectedMeetsPrerequisite, Meets
<1>6. op \in {"correct", "close"} => validateCorrectionPrerequisite(Row(r))
  <2> DEFINE s == request[r].row
             t == Row(r)
  <2>1. s \in Rows /\ t \in Rows /\ Follows(t, s)
    BY <1>1, <1>4
  <2> HIDE DEF s, t
  <2>2. validateCorrectionPrerequisite(s) => validateCorrectionPrerequisite(t)
    BY <2>1, PrerequisiteCarries
  <2> QED
    BY <1>3, <2>2 DEF s, t
<1>7. op = "linkRepair" => Row(r).repair = NoId
  BY <1>3, <1>4 DEF Follows, Matches, Row
<1> QED
  BY <1>1, <1>4, <1>5, <1>6, <1>7

-----------------------------------------------------------------------------
(* One lemma per action *)

LEMMA Committed ==
    ASSUME Inv, NEW r \in Requests, NEW op \in Operations, Matches(r, op),
           NEW row \in Rows, row.type = Row(r).type, row.calibrated = Row(r).calibrated,
           Row(r).repair # NoId => row.repair = Row(r).repair,
           Meets(row), Write(request[r].nc, row), Become(r, Idle),
           UNCHANGED <<repair, equipment, fresh, custody, overdue, scan>>
    PROVE  Moves /\ Inv'
<1>1. request[r].nc \in NCs /\ Row(r) = nc[request[r].nc] /\ Row(r) \in Rows
  BY MatchedRow
<1>2. Moves
  BY <1>1, WriteMoves
<1>3. RequestsRight'
  BY <1>2, EndedRequest
<1>4. RestTyped'
  BY DEF RestTyped, Inv, TypeOK
<1> QED
  BY <1>2, <1>3, <1>4, Assembled

LEMMA StatusCommitted ==
    ASSUME Inv, NEW r \in Requests, NEW op \in Operations, Matches(r, op),
           NEW status \in {"open", "corrected", "closed"},
           status \in {"corrected", "closed"} => validateCorrectionPrerequisite(Row(r)),
           Write(request[r].nc, [Row(r) EXCEPT !.status = status]), Become(r, Idle),
           UNCHANGED <<repair, equipment, fresh, custody, overdue, scan>>
    PROVE  Moves /\ Inv'
<1> DEFINE s == Row(r)
           t == [s EXCEPT !.status = status]
<1>1. s \in Rows
  BY MatchedRow
<1>2. /\ t \in Rows /\ t.type = Row(r).type /\ t.calibrated = Row(r).calibrated
      /\ t.repair = Row(r).repair /\ t.status = status
  <2> HIDE DEF s
  <2>1. /\ t \in Rows /\ t.type = s.type /\ t.calibrated = s.calibrated
        /\ t.repair = s.repair /\ t.status = status
    BY <1>1 DEF Rows
  <2> QED
    BY <2>1 DEF s
<1>3. Write(request[r].nc, t)
  OBVIOUS
<1> HIDE DEF s, t
<1>4. Meets(t)
  BY <1>2 DEF Meets, validateCorrectionPrerequisite
<1> QED
  BY <1>2, <1>3, <1>4, Committed

LEMMA EditPreserves ==
    ASSUME Inv, NEW r \in Requests, Edit(r)
    PROVE  Moves /\ Inv'
<1>1. "edit" \in Operations /\ Matches(r, "edit")
  BY DEF Edit, Operations
<1>2. PICK status \in {Row(r).status, request[r].row.status} :
          Write(request[r].nc, [Row(r) EXCEPT !.status = status])
  BY DEF Edit
<1>3. /\ Row(r) \in Rows /\ request[r].row \in Rows
      /\ Follows(Row(r), request[r].row)
      /\ Meets(Row(r))
  BY <1>1, MatchedRow
<1>4. Meets(request[r].row)
  BY <1>1, MatchedRow DEF Inv, RequestsFit, Fits, WasRow
<1>5. request[r].row.status \in {"corrected", "closed"} =>
          validateCorrectionPrerequisite(Row(r))
  <2> DEFINE s == request[r].row
             t == Row(r)
  <2>1. s \in Rows /\ t \in Rows /\ Follows(t, s) /\ Meets(s)
    BY <1>3, <1>4
  <2> HIDE DEF s, t
  <2>2. s.status \in {"corrected", "closed"} => validateCorrectionPrerequisite(t)
    BY <2>1, PrerequisiteCarries DEF Meets
  <2> QED
    BY <2>2 DEF s, t
<1>6. /\ status \in {"open", "corrected", "closed"}
      /\ status \in {"corrected", "closed"} => validateCorrectionPrerequisite(Row(r))
  BY <1>3, <1>5 DEF Rows, Meets
<1>7. /\ Become(r, Idle)
      /\ UNCHANGED <<repair, equipment, fresh, custody, overdue, scan>>
  BY DEF Edit
<1> QED
  BY <1>1, <1>2, <1>6, <1>7, StatusCommitted

LEMMA CorrectPreserves ==
    ASSUME Inv, NEW r \in Requests, Correct(r)
    PROVE  Moves /\ Inv'
<1>1. "correct" \in Operations /\ Matches(r, "correct")
  BY DEF Correct, Operations
<1>2. validateCorrectionPrerequisite(Row(r))
  BY <1>1, MatchedRow
<1> QED
  BY <1>1, <1>2, StatusCommitted DEF Correct

LEMMA RejectPreserves ==
    ASSUME Inv, NEW r \in Requests, rejectCorrection(r)
    PROVE  Moves /\ Inv'
<1>1. "rejectCorrection" \in Operations /\ Matches(r, "rejectCorrection")
  BY DEF rejectCorrection, Operations
<1> QED
  BY <1>1, StatusCommitted DEF rejectCorrection

LEMMA RemovePreserves ==
    ASSUME Inv, NEW r \in Requests, remove(r)
    PROVE  Moves /\ Inv'
<1> DEFINE s == Row(r)
           t == [s EXCEPT !.deleted = TRUE]
<1>1. "remove" \in Operations /\ Matches(r, "remove")
  BY DEF remove, Operations
<1>2. s \in Rows /\ Meets(s)
  BY <1>1, MatchedRow
<1>3. /\ t \in Rows /\ t.type = Row(r).type /\ t.calibrated = Row(r).calibrated
      /\ t.repair = Row(r).repair /\ t.status = Row(r).status
  <2> HIDE DEF s
  <2>1. /\ t \in Rows /\ t.type = s.type /\ t.calibrated = s.calibrated
        /\ t.repair = s.repair /\ t.status = s.status
    BY <1>2 DEF Rows
  <2> QED
    BY <2>1 DEF s
<1>4. /\ Write(request[r].nc, t) /\ Become(r, Idle)
      /\ UNCHANGED <<repair, equipment, fresh, custody, overdue, scan>>
  BY DEF remove
<1>5. Meets(Row(r))
  BY <1>2
<1> HIDE DEF s, t
<1>6. Meets(t)
  BY <1>3, <1>5 DEF Meets, validateCorrectionPrerequisite
<1> QED
  BY <1>1, <1>3, <1>4, <1>6, Committed

LEMMA CloseUpdatePreserves ==
    ASSUME Inv, NEW r \in Requests, CloseUpdate(r)
    PROVE  Moves /\ Inv'
<1> DEFINE q == [phase |-> "closing", nc |-> request[r].nc, row |-> request[r].row,
                 others |-> Active(Row(r).equipment) \ {request[r].nc} # {}]
<1>1. "close" \in Operations /\ Matches(r, "close")
  BY DEF CloseUpdate, Operations
<1>2. /\ request[r].nc \in NCs
      /\ request[r].row \in Rows
  BY <1>1, MatchedRow
<1>3. /\ WasRow(request[r].nc, request[r].row)
      /\ validateCorrectionPrerequisite(request[r].row)
  BY <1>1 DEF Inv, RequestsFit, Fits, Matches
<1>4. UNCHANGED <<nc, known, repair, equipment, fresh, custody, overdue, scan>>
      /\ Become(r, q)
  BY DEF CloseUpdate
<1>5. Moves
  BY <1>4, StandingStill
<1>6. q \in RequestStates
  BY <1>2 DEF RequestStates
<1>7. /\ q.phase = "closing" /\ q.nc = request[r].nc /\ q.row = request[r].row
  OBVIOUS
<1>8. request'[r] = q
  BY <1>4 DEF Become, Inv, TypeOK
<1> HIDE DEF q
<1>9. Fits(request[r])'
  BY <1>3, <1>4, <1>7, <1>8 DEF Fits, WasRow, validateCorrectionPrerequisite
<1>10. RequestsRight'
  BY <1>4, <1>5, <1>6, <1>9, OneRequest
<1>11. RestTyped'
  BY <1>4 DEF RestTyped, Inv, TypeOK
<1> QED
  BY <1>5, <1>10, <1>11, Assembled

LEMMA ClosingRow ==
    ASSUME Inv, NEW r \in Requests, request[r].phase = "closing"
    PROVE  /\ request[r].nc \in NCs
           /\ Row(r) = nc[request[r].nc]
           /\ Row(r) \in Rows
           /\ request[r].row \in Rows
           /\ validateCorrectionPrerequisite(Row(r))
<1>1. /\ request[r] \in [phase : {"closing"}, nc : NCs, row : Rows, others : BOOLEAN]
  BY DEF Inv, TypeOK, RequestStates, Idle
<1>2. WasRow(request[r].nc, request[r].row) /\ validateCorrectionPrerequisite(request[r].row)
  BY DEF Inv, RequestsFit, Fits
<1> DEFINE s == request[r].row
           t == Row(r)
<1>3. /\ t = nc[request[r].nc] /\ s \in Rows /\ t \in Rows /\ Follows(t, s)
      /\ validateCorrectionPrerequisite(s)
  BY <1>1, <1>2 DEF WasRow, Row, Inv, TypeOK
<1> HIDE DEF s, t
<1>4. validateCorrectionPrerequisite(t)
  BY <1>3, PrerequisiteCarries
<1> QED
  BY <1>1, <1>3, <1>4 DEF s, t

LEMMA CloseCommitPreserves ==
    ASSUME Inv, NEW r \in Requests, CloseCommit(r)
    PROVE  Moves /\ Inv'
<1> DEFINE s == Row(r)
           t == [s EXCEPT !.status = "closed"]
           n == request[r].nc
<1>1. /\ n \in NCs /\ s = nc[n] /\ s \in Rows /\ request[r].row \in Rows
      /\ validateCorrectionPrerequisite(s)
  BY ClosingRow DEF CloseCommit
<1>2. /\ t \in Rows /\ t.type = nc[n].type /\ t.calibrated = nc[n].calibrated
      /\ t.repair = nc[n].repair
  <2> HIDE DEF s, n
  <2>1. /\ t \in Rows /\ t.type = s.type /\ t.calibrated = s.calibrated
        /\ t.repair = s.repair
    BY <1>1 DEF Rows
  <2> QED
    BY <1>1, <2>1
<1>3. Write(n, t) /\ Become(r, Idle) /\ UNCHANGED <<repair, custody, overdue, scan>>
  BY DEF CloseCommit
<1>4. EquipmentRight'
  <2>1. s.equipment \in Equipment
    BY <1>1 DEF Rows
  <2>2. restoreStatus(request[r].row.previous) \in EquipmentStatuses
    BY <1>1 DEF Rows, restoreStatus, EquipmentStatuses
  <2>3. \/ SetEquipment(s.equipment, restoreStatus(request[r].row.previous))
        \/ KeepsEquipment
    BY DEF CloseCommit
  <2> QED
    BY <2>1, <2>2, <2>3, EquipmentSet, EquipmentStays
<1>5. nc[n] \in Rows /\ validateCorrectionPrerequisite(nc[n])
  BY <1>1
<1> HIDE DEF s, t, n
<1>6. Meets(t)
  BY <1>2, <1>5 DEF Meets, validateCorrectionPrerequisite
<1>7. Moves
  BY <1>1, <1>2, <1>3, <1>5, <1>6, WriteMoves
<1>8. RequestsRight'
  BY <1>3, <1>7, EndedRequest
<1>9. RestTyped'
  BY <1>3, <1>4 DEF RestTyped, EquipmentRight, Inv, TypeOK
<1> QED
  BY <1>7, <1>8, <1>9, Assembled

LEMMA CreateReadPreserves ==
    ASSUME Inv, NEW r \in Requests, NEW e \in Equipment, CreateRead(r, e)
    PROVE  Moves /\ Inv'
<1> DEFINE q == [phase |-> "creating", equipment |-> e, previous |-> equipment[e]]
<1>1. /\ Become(r, q)
      /\ fresh' = [fresh EXCEPT ![e] = @ \cup {r}]
      /\ UNCHANGED <<nc, known, repair, equipment, custody, overdue, scan>>
  BY DEF CreateRead
<1>2. Moves
  BY <1>1, StandingStill
<1>3. q \in RequestStates
  BY DEF RequestStates, Inv, TypeOK
<1>4. request'[r] = q /\ q.phase = "creating"
  BY <1>1 DEF Become, Inv, TypeOK
<1>5. RestTyped'
  BY <1>1 DEF RestTyped, Inv, TypeOK
<1> HIDE DEF q
<1>6. Fits(request[r])'
  BY <1>4 DEF Fits
<1> QED
  BY <1>1, <1>2, <1>3, <1>5, <1>6, OneRequest, Assembled

LEMMA CreateCommitPreserves ==
    ASSUME Inv, NEW r \in Requests, NEW n \in NCs, NEW type \in Types,
           CreateCommit(r, n, type)
    PROVE  Moves /\ Inv'
<1> DEFINE e == request[r].equipment
           row == OpenRow(e, type, request[r].previous, FALSE)
<1>1. /\ Insert(n, row) /\ SetEquipment(e, "non_conforming") /\ Become(r, Idle)
      /\ UNCHANGED <<repair, custody, overdue, scan>>
  BY DEF CreateCommit
<1>2. e \in Equipment /\ request[r].previous \in EquipmentStatuses
  BY DEF CreateCommit, Inv, TypeOK, RequestStates, Idle
<1>3. row \in Rows /\ row.status = "open"
  BY <1>2, OpenedRow, TypesAssumption
<1> HIDE DEF row, e
<1>4. Moves
  BY <1>1, <1>3, InsertMoves
<1>5. EquipmentRight'
  BY <1>1, <1>2, EquipmentSet DEF EquipmentStatuses
<1>6. RestTyped'
  BY <1>1, <1>5 DEF RestTyped, EquipmentRight, Inv, TypeOK
<1> QED
  BY <1>1, <1>4, <1>6, EndedRequest, Assembled

LEMMA IncidentPreserves ==
    ASSUME Inv, NEW e \in Equipment, NEW n \in NCs, NEW type \in Types,
           createIncidentHistory(e, n, type)
    PROVE  Moves /\ Inv'
<1> DEFINE row == OpenRow(e, type, "none", FALSE)
<1>1. /\ Insert(n, row)
      /\ SetEquipment(e, "non_conforming") \/ KeepsEquipment
      /\ UNCHANGED <<repair, custody, overdue, scan, request>>
  BY DEF createIncidentHistory
<1>2. row \in Rows /\ row.status = "open"
  BY OpenedRow, TypesAssumption
<1> HIDE DEF row
<1>3. Moves
  BY <1>1, <1>2, InsertMoves
<1>4. EquipmentRight'
  BY <1>1, EquipmentSet, EquipmentStays DEF EquipmentStatuses
<1>5. RestTyped'
  BY <1>1, <1>4 DEF RestTyped, EquipmentRight, Inv, TypeOK
<1> QED
  BY <1>1, <1>3, <1>5, SameRequests, Assembled

LEMMA LoadPreserves ==
    ASSUME Inv, NEW r \in Requests, NEW n \in NCs, NEW op \in Operations \ {"linkRepair"},
           Load(r, n, op)
    PROVE  Moves /\ Inv'
<1>1. PICK row \in known[n] :
          /\ Allows(op, row)
          /\ \E version \in {row.version}
                            \cup (IF ClientVersions THEN {nc[n].version} ELSE {}) :
                 Become(r, [phase |-> "loaded", op |-> op, nc |-> n, row |-> row,
                            version |-> version, repair |-> NoId, completed |-> FALSE])
  BY DEF Load
<1>2. PICK version \in {row.version, nc[n].version} :
          Become(r, [phase |-> "loaded", op |-> op, nc |-> n, row |-> row,
                     version |-> version, repair |-> NoId, completed |-> FALSE])
  BY <1>1
<1> DEFINE q == [phase |-> "loaded", op |-> op, nc |-> n, row |-> row,
                 version |-> version, repair |-> NoId, completed |-> FALSE]
<1>3. UNCHANGED <<nc, known, repair, equipment, fresh, custody, overdue, scan>>
  BY DEF Load
<1>4. Moves
  BY <1>3, StandingStill
<1>5. WasRow(n, row)
  BY <1>1 DEF Inv, CacheIsPast
<1>6. op \in {"correct", "close"} => validateCorrectionPrerequisite(row)
  BY <1>1 DEF Allows
<1>7. row \in Rows /\ version \in Nat
  BY <1>2, <1>5 DEF WasRow, Rows, Inv, TypeOK
<1>8. q \in RequestStates
  BY <1>7 DEF RequestStates
<1>9. q.phase = "loaded" /\ q.op = op /\ q.nc = n /\ q.row = row
  OBVIOUS
<1>10. Become(r, q)
  BY <1>2
<1> HIDE DEF q
<1>11. request'[r] = q
  BY <1>10 DEF Become, Inv, TypeOK
<1>12. Fits(request[r])'
  BY <1>3, <1>5, <1>6, <1>9, <1>11 DEF Fits, WasRow, validateCorrectionPrerequisite
<1>13. RestTyped'
  BY <1>3 DEF RestTyped, Inv, TypeOK
<1> QED
  BY <1>4, <1>8, <1>10, <1>12, <1>13, OneRequest, Assembled

LEMMA RepairCreatePreserves ==
    ASSUME Inv, NEW r \in Requests, NEW n \in NCs, NEW p \in Repairs,
           NEW completed \in BOOLEAN, RepairCreate(r, n, p, completed)
    PROVE  Moves /\ Inv'
<1> DEFINE q == [phase |-> "linking", nc |-> n, repair |-> p, completed |-> completed]
<1>1. /\ nc[n] # NoRow /\ Become(r, q)
      /\ UNCHANGED <<nc, known, equipment, fresh, custody, overdue, scan>>
  BY DEF RepairCreate
<1>2. Moves
  BY <1>1, StandingStill
<1>3. q \in RequestStates
  BY DEF RequestStates
<1>4. request'[r] = q /\ q.phase = "linking" /\ q.nc = n
  BY <1>1 DEF Become, Inv, TypeOK
<1>5. RestTyped'
  BY <1>1 DEF RepairCreate, RestTyped, Inv, TypeOK
<1> HIDE DEF q
<1>6. Fits(request[r])'
  BY <1>1, <1>4 DEF Fits
<1> QED
  BY <1>1, <1>2, <1>3, <1>5, <1>6, OneRequest, Assembled

LEMMA LinkLoadPreserves ==
    ASSUME Inv, NEW r \in Requests, LinkLoad(r)
    PROVE  Moves /\ Inv'
<1> DEFINE n == request[r].nc
<1>1. PICK row \in known[n] :
          /\ row.repair = NoId
          /\ Become(r, [phase |-> "loaded", op |-> "linkRepair", nc |-> n, row |-> row,
                        version |-> row.version, repair |-> request[r].repair,
                        completed |-> request[r].completed])
  BY DEF LinkLoad
<1> DEFINE q == [phase |-> "loaded", op |-> "linkRepair", nc |-> n, row |-> row,
                 version |-> row.version, repair |-> request[r].repair,
                 completed |-> request[r].completed]
<1>2. UNCHANGED <<nc, known, repair, equipment, fresh, custody, overdue, scan>>
  BY DEF LinkLoad
<1>3. Moves
  BY <1>2, StandingStill
<1>4. request[r] \in [phase : {"linking"}, nc : NCs, repair : Repairs,
                      completed : BOOLEAN]
  BY DEF LinkLoad, Inv, TypeOK, RequestStates, Idle
<1>5. n \in NCs /\ request[r].repair \in Repairs /\ request[r].completed \in BOOLEAN
  BY <1>4
<1>6. WasRow(n, row)
  BY <1>1, <1>5 DEF Inv, CacheIsPast
<1>7. row \in Rows /\ row.version \in Nat
  BY <1>6 DEF WasRow, Rows
<1>8. q \in RequestStates
  BY <1>5, <1>7 DEF RequestStates, Operations
<1>9. /\ q.phase = "loaded" /\ q.op = "linkRepair" /\ q.nc = n /\ q.row = row
      /\ q.version = row.version
  OBVIOUS
<1>10. Become(r, q)
  BY <1>1
<1> HIDE DEF q, n
<1>11. request'[r] = q
  BY <1>10 DEF Become, Inv, TypeOK
<1>12. Fits(request[r])'
  BY <1>1, <1>2, <1>6, <1>9, <1>11 DEF Fits, WasRow
<1>13. RestTyped'
  BY <1>2 DEF RestTyped, Inv, TypeOK
<1> QED
  BY <1>3, <1>8, <1>10, <1>12, <1>13, OneRequest, Assembled

LEMMA LinkCommitPreserves ==
    ASSUME Inv, NEW r \in Requests, LinkCommit(r)
    PROVE  Moves /\ Inv'
<1> DEFINE s == Row(r)
           n == request[r].nc
           p == request[r].repair
           t == [s EXCEPT !.repair = p]
           q == [phase |-> "marking", nc |-> n]
<1>1. "linkRepair" \in Operations /\ Matches(r, "linkRepair")
  BY DEF LinkCommit, Operations
<1>2. /\ n \in NCs /\ s = nc[n] /\ s \in Rows /\ Meets(s) /\ s.repair = NoId
      /\ p \in Repairs \cup {NoId}
  BY <1>1, MatchedRow
<1>3. /\ Write(n, t)
      /\ Become(r, q) \/ Become(r, Idle)
      /\ UNCHANGED <<repair, equipment, fresh, custody, overdue, scan>>
  BY DEF LinkCommit
<1>4. /\ t \in Rows /\ t.type = nc[n].type /\ t.calibrated = nc[n].calibrated
      /\ t.status = nc[n].status /\ nc[n].repair = NoId
  <2> HIDE DEF s, n, p
  <2>1. /\ t \in Rows /\ t.type = s.type /\ t.calibrated = s.calibrated
        /\ t.status = s.status
    BY <1>2 DEF Rows
  <2> QED
    BY <1>2, <2>1
<1>5. nc[n] \in Rows /\ Meets(nc[n])
  BY <1>2
<1>6. q \in RequestStates /\ q.phase = "marking" /\ q.nc = n
  BY <1>2 DEF RequestStates
<1>7. RestTyped'
  BY <1>3 DEF RestTyped, Inv, TypeOK
<1> HIDE DEF s, t, n, p, q
<1>8. Meets(t)
  BY <1>4, <1>5 DEF Meets, validateCorrectionPrerequisite
<1>9. Moves
  BY <1>2, <1>3, <1>4, <1>5, <1>8, WriteMoves
<1>10. CASE Become(r, q)
  <2>1. request'[r] = q
    BY <1>10 DEF Become, Inv, TypeOK
  <2>2. nc'[n] # NoRow
    BY <1>2, <1>5, <1>9, NoRowIsNone DEF Moves, RowMoves
  <2>3. Fits(request[r])'
    BY <1>6, <2>1, <2>2 DEF Fits
  <2> QED
    BY <1>6, <1>7, <1>9, <1>10, <2>3, OneRequest, Assembled
<1>11. CASE Become(r, Idle)
  BY <1>7, <1>9, <1>11, EndedRequest, Assembled
<1> QED
  BY <1>3, <1>10, <1>11

LEMMA MarkLoadPreserves ==
    ASSUME Inv, NEW r \in Requests, MarkLoad(r)
    PROVE  Moves /\ Inv'
<1> DEFINE n == request[r].nc
<1>1. PICK row \in known[n] :
          /\ Allows("correct", row)
          /\ Become(r, [phase |-> "loaded", op |-> "correct", nc |-> n, row |-> row,
                        version |-> row.version, repair |-> NoId, completed |-> FALSE])
  BY DEF MarkLoad
<1> DEFINE q == [phase |-> "loaded", op |-> "correct", nc |-> n, row |-> row,
                 version |-> row.version, repair |-> NoId, completed |-> FALSE]
<1>2. UNCHANGED <<nc, known, repair, equipment, fresh, custody, overdue, scan>>
  BY DEF MarkLoad
<1>3. Moves
  BY <1>2, StandingStill
<1>4. request[r] \in [phase : {"marking"}, nc : NCs]
  BY DEF MarkLoad, Inv, TypeOK, RequestStates, Idle
<1>5. n \in NCs
  BY <1>4
<1>6. WasRow(n, row) /\ validateCorrectionPrerequisite(row)
  BY <1>1, <1>5 DEF Inv, CacheIsPast, Allows
<1>7. row \in Rows /\ row.version \in Nat
  BY <1>6 DEF WasRow, Rows
<1>8. q \in RequestStates
  BY <1>5, <1>7 DEF RequestStates, Operations
<1>9. q.phase = "loaded" /\ q.op = "correct" /\ q.nc = n /\ q.row = row
  OBVIOUS
<1>10. Become(r, q)
  BY <1>1
<1> HIDE DEF q, n
<1>11. request'[r] = q
  BY <1>10 DEF Become, Inv, TypeOK
<1>12. Fits(request[r])'
  BY <1>2, <1>6, <1>9, <1>11 DEF Fits, WasRow, validateCorrectionPrerequisite
<1>13. RestTyped'
  BY <1>2 DEF RestTyped, Inv, TypeOK
<1> QED
  BY <1>3, <1>8, <1>10, <1>12, <1>13, OneRequest, Assembled

LEMMA RepairCompletePreserves ==
    ASSUME Inv, NEW r \in Requests, NEW p \in Repairs, RepairComplete(r, p)
    PROVE  Moves /\ Inv'
<1>1. /\ UNCHANGED <<nc, known, equipment, fresh, custody, overdue, scan>>
      /\ repair' = [repair EXCEPT ![p].result = "completed"]
      /\ \/ \E n \in NCs : nc[n].repair = p /\ Become(r, [phase |-> "marking", nc |-> n])
         \/ UNCHANGED request
  BY DEF RepairComplete
<1>2. Moves
  BY <1>1, StandingStill
<1>3. RestTyped'
  BY <1>1 DEF RestTyped, Inv, TypeOK
<1>4. CASE UNCHANGED request
  BY <1>2, <1>3, <1>4, SameRequests, Assembled
<1>5. ASSUME NEW n \in NCs, nc[n].repair = p, Become(r, [phase |-> "marking", nc |-> n])
      PROVE  Moves /\ Inv'
  <2> DEFINE q == [phase |-> "marking", nc |-> n]
  <2>1. q \in RequestStates /\ q.phase = "marking" /\ q.nc = n
    BY DEF RequestStates
  <2>2. request'[r] = q /\ Become(r, q)
    BY <1>5 DEF Become, Inv, TypeOK
  <2>3. nc'[n] # NoRow
    BY <1>1, <1>5, NoRowIsNone, NoIdAssumption
  <2> HIDE DEF q
  <2>4. Fits(request[r])'
    BY <2>1, <2>2, <2>3 DEF Fits
  <2> QED
    BY <1>2, <1>3, <2>1, <2>2, <2>4, OneRequest, Assembled
<1> QED
  BY <1>1, <1>4, <1>5

LEMMA CalibratedRow ==
    ASSUME NEW s \in Rows, s.type = "calibration_overdue"
    PROVE  LET t == [s EXCEPT !.status = "corrected", !.calibrated = TRUE,
                              !.version = @ + 1]
           IN  t \in Rows /\ Advances(s, t)
<1> DEFINE a == [s EXCEPT !.status = "corrected"]
           b == [a EXCEPT !.calibrated = TRUE]
           v == s.version + 1
           t == [b EXCEPT !.version = v]
<1>1. v \in Nat \ {0}
  BY DEF Rows
<1>2. a \in Rows /\ a.type = s.type /\ a.repair = s.repair
  BY DEF Rows
<1> HIDE DEF a, v
<1>3. b \in Rows /\ b.type = s.type /\ b.repair = s.repair /\ b.calibrated
  BY <1>2 DEF Rows
<1> HIDE DEF b
<1>4. /\ t \in Rows /\ t.type = s.type /\ t.repair = s.repair /\ t.calibrated
      /\ t.version = v
  BY <1>1, <1>3 DEF Rows
<1> HIDE DEF t
<1>5. NC_CORRECTION_PREREQUISITES[t.type] = "recalibration"
  BY <1>4 DEF NC_CORRECTION_PREREQUISITES
<1>6. Meets(t)
  BY <1>4, <1>5 DEF Meets, validateCorrectionPrerequisite
<1>7. t \in Rows /\ Advances(s, t)
  BY <1>4, <1>6 DEF Advances, v
<1> QED
  BY <1>7 DEF t, b, a, v

LEMMA FailedRow ==
    ASSUME NEW s \in Rows, s.status = "open"
    PROVE  LET t == [s EXCEPT !.calibrated = TRUE, !.version = @ + 1]
           IN  t \in Rows /\ Advances(s, t)
<1> DEFINE b == [s EXCEPT !.calibrated = TRUE]
           v == s.version + 1
           t == [b EXCEPT !.version = v]
<1>1. v \in Nat \ {0}
  BY DEF Rows
<1>2. /\ b \in Rows /\ b.type = s.type /\ b.repair = s.repair /\ b.calibrated
      /\ b.status = "open"
  BY DEF Rows
<1> HIDE DEF b, v
<1>3. /\ t \in Rows /\ t.type = s.type /\ t.repair = s.repair /\ t.calibrated
      /\ t.version = v /\ t.status = "open"
  BY <1>1, <1>2 DEF Rows
<1> HIDE DEF t
<1>4. t \in Rows /\ Advances(s, t)
  BY <1>3 DEF Advances, Meets, v
<1> QED
  BY <1>4 DEF t, b, v

LEMMA CalibrationSelectPreserves ==
    ASSUME Inv, NEW r \in Requests, NEW e \in Equipment, CalibrationSelect(r, e)
    PROVE  Moves /\ Inv'
<1>1. PICK newer \in BOOLEAN, fails \in BOOLEAN,
           n \in Open(e, "calibration_overdue") \cup {NoId} :
          Become(r, [phase |-> "calibrating", equipment |-> e, nc |-> n,
                     newer |-> newer, fails |-> fails])
  BY DEF CalibrationSelect
<1> DEFINE q == [phase |-> "calibrating", equipment |-> e, nc |-> n,
                 newer |-> newer, fails |-> fails]
<1>2. UNCHANGED <<nc, known, repair, equipment, fresh, custody, overdue, scan>>
  BY DEF CalibrationSelect
<1>3. Moves
  BY <1>2, StandingStill
<1>4. n \in NCs \cup {NoId} /\ (n # NoId => nc[n].type = "calibration_overdue")
  BY DEF Open
<1>5. q \in RequestStates
  BY <1>4 DEF RequestStates
<1>6. q.phase = "calibrating" /\ q.nc = n
  OBVIOUS
<1>7. request'[r] = q /\ Become(r, q)
  BY <1>1 DEF Become, Inv, TypeOK
<1> HIDE DEF q
<1>8. Fits(request[r])'
  BY <1>2, <1>4, <1>6, <1>7 DEF Fits
<1>9. RestTyped'
  BY <1>2 DEF RestTyped, Inv, TypeOK
<1> QED
  BY <1>3, <1>5, <1>7, <1>8, <1>9, OneRequest, Assembled

LEMMA CalibrationCommitPreserves ==
    ASSUME Inv, NEW r \in Requests, CalibrationCommit(r)
    PROVE  Moves /\ Inv'
<1> DEFINE e        == request[r].equipment
           found    == {request[r].nc} \ {NoId}
           failures == IF request[r].fails THEN Open(e, "calibration_failure") ELSE {}
           calibrated(n) == [nc[n] EXCEPT !.status = "corrected", !.calibrated = TRUE,
                                          !.version = @ + 1]
           failed(n)     == [nc[n] EXCEPT !.calibrated = TRUE, !.version = @ + 1]
           marked   == [n \in NCs |-> IF n \in found THEN calibrated(n)
                                      ELSE IF n \in failures THEN failed(n) ELSE nc[n]]
           failure  == OpenRow(e, "calibration_failure", equipment[e], TRUE)
           opens    == request[r].fails /\ failures = {}
<1>1. /\ \/ nc' = marked
         \/ \E n \in NCs : nc[n] = NoRow /\ nc' = [marked EXCEPT ![n] = failure]
      /\ known' = [n \in NCs |-> IF nc'[n] = nc[n] THEN known[n]
                                 ELSE known[n] \cup {nc'[n]}]
      /\ \/ SetEquipment(e, "non_conforming")
         \/ /\ equipment' = equipment
            /\ fresh' = IF request[r].newer THEN [fresh EXCEPT ![e] = {}] ELSE fresh
      /\ overdue' = IF request[r].newer THEN overdue \ {e} ELSE overdue
      /\ Become(r, Idle)
      /\ UNCHANGED <<repair, custody, scan>>
  BY DEF CalibrationCommit
<1>2. request[r] \in [phase : {"calibrating"}, equipment : Equipment,
                      nc : NCs \cup {NoId}, newer : BOOLEAN, fails : BOOLEAN]
  <2>1. request[r].phase = "calibrating"
    BY DEF CalibrationCommit
  <2>2. request[r] \in RequestStates
    BY DEF Inv, TypeOK
  <2> QED
    BY <2>1, <2>2 DEF RequestStates, Idle
<1>3. e \in Equipment
  BY <1>2
<1>4. nc \in [NCs -> Rows \cup {NoRow}] /\ known \in [NCs -> SUBSET Rows]
  BY DEF Inv, TypeOK
<1>5. ASSUME NEW n \in found
      PROVE  n \in NCs /\ nc[n] \in Rows /\ nc[n].type = "calibration_overdue"
  BY <1>2, <1>4, NoRowIsNone DEF Inv, RequestsFit, Fits
<1>6. ASSUME NEW n \in failures
      PROVE  n \in NCs /\ nc[n] \in Rows /\ nc[n].status = "open"
  BY <1>4, NoRowIsNone DEF Open
<1>7. ASSUME NEW n \in found PROVE calibrated(n) \in Rows /\ Advances(nc[n], calibrated(n))
  BY <1>5, CalibratedRow
<1>8. ASSUME NEW n \in failures PROVE failed(n) \in Rows /\ Advances(nc[n], failed(n))
  BY <1>6, FailedRow
<1>9. failure \in Rows /\ failure.status = "open"
  BY <1>3, OpenedRow DEF Inv, TypeOK, AllTypes, NC_CORRECTION_PREREQUISITES
<1>10. Meets(failure)
  BY <1>9 DEF Meets
<1>11. RestTyped'
  <2>1. EquipmentRight'
    BY <1>1, <1>3, EquipmentSet DEF EquipmentStatuses, EquipmentRight, Inv, TypeOK
  <2> QED
    BY <1>1, <2>1 DEF RestTyped, EquipmentRight, Inv, TypeOK
<1> HIDE DEF calibrated, failed, failure, found, failures
<1>12. ASSUME NEW n \in NCs
       PROVE  \/ marked[n] = nc[n]
              \/ /\ nc[n] \in Rows /\ marked[n] \in Rows
                 /\ Advances(nc[n], marked[n])
  <2>1. CASE n \in found
    BY <1>5, <1>7, <2>1
  <2>2. CASE n \notin found /\ n \in failures
    BY <1>6, <1>8, <2>2
  <2>3. CASE n \notin found /\ n \notin failures
    BY <2>3
  <2> QED
    BY <2>1, <2>2, <2>3
<1>13. marked \in [NCs -> Rows \cup {NoRow}]
  <2>1. ASSUME NEW n \in NCs PROVE marked[n] \in Rows \cup {NoRow}
    BY <1>4, <1>12
  <2>2. DOMAIN marked = NCs /\ marked = [n \in NCs |-> marked[n]]
    OBVIOUS
  <2> QED
    BY <2>1, <2>2
<1> HIDE DEF marked
<1>14. ASSUME NEW n \in NCs
       PROVE  /\ nc'[n] \in Rows \cup {NoRow}
              /\ \/ nc'[n] = nc[n]
                 \/ nc[n] = NoRow /\ nc'[n] \in Rows /\ Meets(nc'[n])
                 \/ nc[n] \in Rows /\ nc'[n] \in Rows /\ Advances(nc[n], nc'[n])
  <2>1. CASE nc' = marked
    BY <1>4, <1>12, <2>1
  <2>2. ASSUME NEW m \in NCs, nc[m] = NoRow, nc' = [marked EXCEPT ![m] = failure]
        PROVE  /\ nc'[n] \in Rows \cup {NoRow}
               /\ \/ nc'[n] = nc[n]
                  \/ nc[n] = NoRow /\ nc'[n] \in Rows /\ Meets(nc'[n])
                  \/ nc[n] \in Rows /\ nc'[n] \in Rows /\ Advances(nc[n], nc'[n])
    <3>1. CASE n = m
      BY <1>9, <1>10, <1>13, <2>2, <3>1
    <3>2. CASE n # m
      <4>1. nc'[n] = marked[n]
        BY <1>13, <2>2, <3>2
      <4> QED
        BY <1>4, <1>12, <4>1
    <3> QED
      BY <3>1, <3>2
  <2> QED
    BY <1>1, <2>1, <2>2
<1>15. nc' \in [NCs -> Rows \cup {NoRow}]
  BY <1>1, <1>9, <1>13
<1>16. Moves
  <2>1. known' \in [NCs -> SUBSET Rows]
    <3>1. ASSUME NEW n \in NCs, nc'[n] # nc[n] PROVE nc'[n] \in Rows
      BY <1>14, <3>1
    <3> QED
      BY <1>1, <1>4, <3>1
  <2>2. ASSUME NEW n \in NCs PROVE RowMoves(n)
    <3>1. nc'[n] # nc[n] => nc'[n] \in Rows
      BY <1>14
    <3>2. known'[n] \subseteq known[n] \cup ({nc'[n]} \ {NoRow})
      BY <1>1, <3>1, NoRowIsNone
    <3> QED
      BY <1>14, <3>2 DEF RowMoves
  <2> QED
    BY <1>15, <2>1, <2>2 DEF Moves
<1> QED
  BY <1>1, <1>11, <1>16, EndedRequest, Assembled

LEMMA RepairRecordPreserves ==
    ASSUME Inv, NEW p \in Repairs, RepairReopen(p) \/ RepairRemove(p)
    PROVE  Moves /\ Inv'
<1>1. /\ UNCHANGED <<nc, known, equipment, fresh, custody, overdue, scan, request>>
      /\ \E result \in {"unfinished", "deleted"} :
             repair' = [repair EXCEPT ![p].result = result]
  BY DEF RepairReopen, RepairRemove
<1>2. RestTyped'
  BY <1>1 DEF RestTyped, Inv, TypeOK
<1> QED
  BY <1>1, <1>2, StandingStill, SameRequests, Assembled

LEMMA ScanPreserves ==
    ASSUME Inv, Scan
    PROVE  Moves /\ Inv'
<1>1. /\ UNCHANGED <<nc, known, repair, equipment, fresh, custody, overdue, request>>
      /\ scan' \in [Equipment -> EquipmentStatuses \cup {"none"}]
  BY DEF Scan, Inv, TypeOK
<1>2. RestTyped'
  BY <1>1 DEF RestTyped, Inv, TypeOK
<1> QED
  BY <1>1, <1>2, StandingStill, SameRequests, Assembled

LEMMA ProcessOverduePreserves ==
    ASSUME Inv, NEW e \in Equipment, ProcessOverdue(e)
    PROVE  Moves /\ Inv'
<1>1. /\ scan' = [scan EXCEPT ![e] = "none"]
      /\ UNCHANGED <<repair, custody, overdue, request>>
      /\ scan[e] \in EquipmentStatuses
  BY DEF ProcessOverdue, Inv, TypeOK
<1>2. CASE KeepsRows /\ KeepsEquipment
  <2>1. EquipmentRight'
    BY <1>2, EquipmentStays
  <2>2. RestTyped'
    BY <1>1, <2>1 DEF RestTyped, EquipmentRight, Inv, TypeOK
  <2>3. Moves
    BY <1>2, StandingStill DEF KeepsRows
  <2> QED
    BY <1>1, <2>2, <2>3, SameRequests, Assembled
<1>3. CASE /\ \E n \in NCs : Insert(n, OpenRow(e, "calibration_overdue", scan[e], FALSE))
           /\ SetEquipment(e, "non_conforming")
  <2> DEFINE row == OpenRow(e, "calibration_overdue", scan[e], FALSE)
  <2>1. row \in Rows /\ row.status = "open"
    BY <1>1, OpenedRow DEF AllTypes, NC_CORRECTION_PREREQUISITES
  <2>2. PICK n \in NCs : Insert(n, row)
    BY <1>3
  <2> HIDE DEF row
  <2>3. Moves
    BY <2>1, <2>2, InsertMoves
  <2>4. EquipmentRight'
    BY <1>3, EquipmentSet DEF EquipmentStatuses
  <2>5. RestTyped'
    BY <1>1, <2>4 DEF RestTyped, EquipmentRight, Inv, TypeOK
  <2> QED
    BY <1>1, <2>3, <2>5, SameRequests, Assembled
<1> QED
  BY <1>2, <1>3 DEF ProcessOverdue

LEMMA SchedulePreserves ==
    ASSUME Inv, NEW e \in Equipment, CalibrationFallsDue(e) \/ OverdueFails(e)
    PROVE  Moves /\ Inv'
<1>1. /\ UNCHANGED <<nc, known, request>>
      /\ RestTyped'
  BY DEF CalibrationFallsDue, OverdueFails, RestTyped, Inv, TypeOK
<1> QED
  BY <1>1, StandingStill, SameRequests, Assembled

LEMMA CheckoutPreserves ==
    ASSUME Inv, NEW e \in Equipment,
           CheckOut(e) \/ ReturnApproved(e) \/ LenderReceives(e) \/ ReturnRejected(e)
    PROVE  Moves /\ Inv'
<1>1. /\ UNCHANGED <<nc, known, repair, overdue, scan, request>>
      /\ \E where \in {"home", "shop", "rental", "received"} :
             custody' = [custody EXCEPT ![e] = where]
      /\ \/ \E status \in {"checked_out", "available"} : SetEquipment(e, status)
         \/ KeepsEquipment
  BY DEF CheckOut, ReturnApproved, LenderReceives, ReturnRejected
<1>2. EquipmentRight'
  BY <1>1, EquipmentSet, EquipmentStays DEF EquipmentStatuses
<1>3. RestTyped'
  BY <1>1, <1>2 DEF RestTyped, EquipmentRight, Inv, TypeOK
<1> QED
  BY <1>1, <1>3, StandingStill, SameRequests, Assembled

LEMMA FailPreserves ==
    ASSUME Inv, NEW r \in Requests, Fail(r)
    PROVE  Moves /\ Inv'
<1>1. /\ Become(r, Idle)
      /\ UNCHANGED <<nc, known, repair, equipment, fresh, custody, overdue, scan>>
  BY DEF Fail
<1>2. RestTyped'
  BY <1>1 DEF RestTyped, Inv, TypeOK
<1> QED
  BY <1>1, <1>2, StandingStill, EndedRequest, Assembled

LEMMA RestartPreserves ==
    ASSUME Inv, Restart
    PROVE  Moves /\ Inv'
<1>1. /\ request' = [r \in Requests |-> Idle]
      /\ fresh' = [e \in Equipment |-> {}]
      /\ scan' = [e \in Equipment |-> "none"]
      /\ known' = [n \in NCs |-> IF nc[n] = NoRow THEN {} ELSE {nc[n]}]
      /\ UNCHANGED <<nc, repair, equipment, custody, overdue>>
  BY DEF Restart
<1>2. RestTyped'
  BY <1>1 DEF RestTyped, Inv, TypeOK
<1>3. Moves
  BY <1>1 DEF Moves, RowMoves, Inv, TypeOK
<1>4. RequestsRight'
  BY <1>1 DEF RequestsRight, RequestsFit, RequestStates, Fits, Idle
<1> QED
  BY <1>2, <1>3, <1>4, Assembled

LEMMA StutterPreserves ==
    ASSUME Inv, UNCHANGED vars
    PROVE  Moves /\ Inv'
<1>1. UNCHANGED <<nc, known, request>> /\ RestTyped'
  BY DEF vars, RestTyped, Inv, TypeOK
<1> QED
  BY <1>1, StandingStill, SameRequests, Assembled

-----------------------------------------------------------------------------
(* The theorems *)

LEMMA InitInv == Init => Inv
<1> SUFFICES ASSUME Init PROVE Inv
  OBVIOUS
<1>1. TypeOK
  <2>1. equipment \in [Equipment -> EquipmentStatuses]
    BY StartAssumption DEF Init
  <2> QED
    BY <2>1 DEF Init, TypeOK, RequestStates
<1>2. CorrectedMeetsPrerequisite
  BY NoRowIsNone DEF Init, CorrectedMeetsPrerequisite
<1>3. CacheIsPast /\ RequestsFit
  BY DEF Init, CacheIsPast, RequestsFit, Fits, Idle
<1> QED
  BY <1>1, <1>2, <1>3 DEF Inv

LEMMA NextMoves == Inv /\ [Next]_vars => Moves /\ Inv'
<1> SUFFICES ASSUME Inv, [Next]_vars PROVE Moves /\ Inv'
  OBVIOUS
<1>1. ASSUME NEW r \in Requests, RequestStep(r) PROVE Moves /\ Inv'
  BY <1>1, CreateReadPreserves, CalibrationSelectPreserves, CreateCommitPreserves,
     LoadPreserves, EditPreserves, CorrectPreserves, RejectPreserves, RemovePreserves,
     CloseUpdatePreserves, CloseCommitPreserves, RepairCreatePreserves,
     LinkLoadPreserves, LinkCommitPreserves, MarkLoadPreserves,
     RepairCompletePreserves, CalibrationCommitPreserves, FailPreserves
     DEF RequestStep
<1>2. ASSUME NEW e \in Equipment, EquipmentStep(e) PROVE Moves /\ Inv'
  BY <1>2, IncidentPreserves, SchedulePreserves, ProcessOverduePreserves,
     CheckoutPreserves DEF EquipmentStep
<1>3. CASE \E p \in Repairs : RepairReopen(p) \/ RepairRemove(p)
  BY <1>3, RepairRecordPreserves
<1>4. CASE Scan
  BY <1>4, ScanPreserves
<1>5. CASE Restart
  BY <1>5, RestartPreserves
<1>6. CASE UNCHANGED vars
  BY <1>6, StutterPreserves
<1> QED
  BY <1>1, <1>2, <1>3, <1>4, <1>5, <1>6 DEF Next

LEMMA SpecInv == Spec => []Inv
<1>1. Inv /\ [Next]_vars => Inv'
  BY NextMoves
<1> QED
  BY InitInv, <1>1, PTL DEF Spec

\* Every row, record and request is of its type, whatever the instance.
THEOREM NonConformanceTyped == Spec => []TypeOK
<1>1. Inv => TypeOK
  BY DEF Inv
<1> QED
  BY <1>1, SpecInv, PTL

\* No NC is corrected or closed without the repair or the calibration that its
\* type requires, although the handlers look for it on a row that may be old.
THEOREM CorrectionHasPrerequisite == Spec => []CorrectedMeetsPrerequisite
<1>1. Inv => CorrectedMeetsPrerequisite
  BY DEF Inv
<1> QED
  BY <1>1, SpecInv, PTL

\* Whatever happens after a repair was linked to an NC, it stays its repair.
THEOREM LinkStaysPut == Spec => LinkIsStable
<1>1. Inv /\ [Next]_vars => [\A n \in NCs : nc[n].repair # NoId =>
                                              nc'[n].repair = nc[n].repair]_vars
  BY NextMoves, NoRowIsNone DEF Moves, RowMoves, Advances
<1> QED
  BY <1>1, SpecInv, PTL DEF Spec, LinkIsStable

-----------------------------------------------------------------------------
(* Clients that send the version of the detail they act on                  *)
(*                                                                          *)
(* With such clients, and without calibrations, which write rows by their   *)
(* identifier, the compare-and-set confirms the row a handler has looked    *)
(* at, and the row lock of a close keeps it until the close ends.           *)

Confirming == ClientVersions = FALSE /\ "calibration" \notin Actors

\* What a handler has found the row to be.
Found(op, row) ==
    /\ ~row.deleted
    /\ op \in {"edit", "linkRepair"} => row.status # "closed"
    /\ op = "correct" => row.status = "open"
    /\ op \in {"rejectCorrection", "close"} => row.status = "corrected"
    /\ op = "remove" => "removal" \in Actors

Held(q) ==
    /\ q.phase # "calibrating"
    /\ q.phase = "loaded" => q.version = q.row.version /\ Found(q.op, q.row)
    /\ q.phase = "closing" =>
           nc[q.nc] = q.row /\ q.row.status = "corrected" /\ ~q.row.deleted

\* Of two closes of one NC, the later waits for the earlier.
LocksApart ==
    \A r, s \in Requests :
        /\ request[r].phase = "closing" /\ request[s].phase = "closing"
        /\ request[r].nc = request[s].nc
        => r = s

Locked ==
    /\ Inv
    /\ \A r \in Requests : Held(request[r])
    /\ LocksApart

LEMMA ConfirmedRow ==
    ASSUME Locked, NEW r \in Requests, NEW op \in Operations, Matches(r, op)
    PROVE  /\ request[r].nc \in NCs /\ Row(r) = nc[request[r].nc] /\ Row(r) \in Rows
           /\ request[r].row = Row(r)
           /\ Found(op, Row(r))
           /\ Unlocked(request[r].nc)
<1>1. /\ request[r].nc \in NCs /\ Row(r) = nc[request[r].nc] /\ Row(r) \in Rows
      /\ Follows(Row(r), request[r].row)
  BY MatchedRow DEF Locked
<1>2. /\ request[r].phase = "loaded" /\ request[r].op = op
      /\ request[r].version = nc[request[r].nc].version
      /\ Unlocked(request[r].nc)
  BY DEF Matches
<1>3. request[r].version = request[r].row.version /\ Found(op, request[r].row)
  BY <1>2 DEF Locked, Held
<1>4. request[r].row = Row(r)
  BY <1>1, <1>2, <1>3 DEF Follows
<1> QED
  BY <1>1, <1>2, <1>3, <1>4

\* A step of one request, which changes no row that another has locked.
LEMMA LocksStay ==
    ASSUME Locked, Inv', NEW r \in Requests,
           \A s \in Requests \ {r} : request'[s] = request[s],
           Held(request[r])',
           request'[r].phase = "closing" => Unlocked(request'[r].nc),
           \A n \in NCs : \/ nc'[n] = nc[n]
                          \/ nc[n] = NoRow
                          \/ \A s \in Requests \ {r} :
                                 request[s].phase = "closing" => request[s].nc # n
    PROVE  Locked'
<1>1. ASSUME NEW s \in Requests \ {r} PROVE Held(request[s])'
  <2>1. Held(request[s]) /\ request'[s] = request[s]
    BY DEF Locked
  <2>2. request[s].phase = "closing" => nc'[request[s].nc] = nc[request[s].nc]
    <3> SUFFICES ASSUME request[s].phase = "closing"
                 PROVE  nc'[request[s].nc] = nc[request[s].nc]
      OBVIOUS
    <3>1. request[s].nc \in NCs /\ nc[request[s].nc] \in Rows
      BY ClosingRow DEF Locked
    <3> QED
      BY <3>1, NoRowIsNone
  <2> QED
    BY <2>1, <2>2 DEF Held
<1>2. LocksApart'
  BY DEF Locked, LocksApart, Unlocked
<1> QED
  BY <1>1, <1>2 DEF Locked

\* A step that no request takes and that changes no row.
LEMMA LocksRest ==
    ASSUME Locked, Inv', UNCHANGED request,
           \A n \in NCs : nc'[n] = nc[n] \/ nc[n] = NoRow
    PROVE  Locked'
<1>1. ASSUME NEW r \in Requests PROVE Held(request[r])'
  <2>1. request[r].phase = "closing" => nc'[request[r].nc] = nc[request[r].nc]
    <3> SUFFICES ASSUME request[r].phase = "closing"
                 PROVE  nc'[request[r].nc] = nc[request[r].nc]
      OBVIOUS
    <3>1. request[r].nc \in NCs /\ nc[request[r].nc] \in Rows
      BY ClosingRow DEF Locked
    <3> QED
      BY <3>1, NoRowIsNone
  <2> QED
    BY <2>1 DEF Held, Locked
<1> QED
  BY <1>1 DEF Locked, LocksApart

\* What becomes of the closed rows.
ClosedStay == \A n \in NCs : nc[n].status = "closed" => nc'[n].status = "closed"

\* The request of a step becomes one that holds nothing.
LEMMA FreeStep ==
    ASSUME Locked, Inv', NEW r \in Requests, NEW q, Become(r, q),
           q.phase \notin {"loaded", "closing", "calibrating"},
           \A n \in NCs : \/ nc'[n] = nc[n]
                          \/ nc[n] = NoRow
                          \/ \A s \in Requests \ {r} :
                                 request[s].phase = "closing" => request[s].nc # n
    PROVE  Locked'
<1>1. request' = [request EXCEPT ![r] = q] /\ request \in [Requests -> RequestStates]
  BY DEF Become, Locked, Inv, TypeOK
<1>2. request'[r] = q /\ \A s \in Requests \ {r} : request'[s] = request[s]
  BY <1>1
<1>3. Held(request[r])'
  BY <1>2 DEF Held
<1> QED
  BY <1>2, <1>3, LocksStay

LEMMA CommitLocks ==
    ASSUME Locked, Inv', NEW r \in Requests, NEW op \in Operations, Matches(r, op),
           NEW row \in Rows, Write(request[r].nc, row),
           Row(r).status = "closed" => row.status = "closed",
           NEW q, Become(r, q), q.phase \notin {"loaded", "closing", "calibrating"}
    PROVE  Locked' /\ ClosedStay
<1>1. /\ request[r].nc \in NCs /\ Row(r) = nc[request[r].nc] /\ Row(r) \in Rows
      /\ Unlocked(request[r].nc)
  BY ConfirmedRow
<1> DEFINE n == request[r].nc
           next == [row EXCEPT !.version = nc[n].version + 1]
<1>2. nc' = [nc EXCEPT ![n] = next] /\ nc \in [NCs -> Rows \cup {NoRow}]
  BY DEF Write, Locked, Inv, TypeOK
<1>3. next.status = row.status
  BY DEF Rows
<1>4. \A m \in NCs : m # n => nc'[m] = nc[m]
  BY <1>2
<1>5. Locked'
  BY <1>1, <1>4, FreeStep DEF Unlocked
<1>6. nc'[n].status = row.status
  BY <1>1, <1>2, <1>3
<1> QED
  BY <1>1, <1>4, <1>5, <1>6 DEF ClosedStay

LEMMA IdleHoldsNothing == Idle.phase \notin {"loaded", "closing", "calibrating"}
BY DEF Idle

LEMMA StatusLocks ==
    ASSUME Locked, Inv', NEW r \in Requests, NEW op \in Operations, Matches(r, op),
           NEW status \in {"open", "corrected", "closed"},
           Row(r).status = "closed" => status = "closed",
           Write(request[r].nc, [Row(r) EXCEPT !.status = status]), Become(r, Idle)
    PROVE  Locked' /\ ClosedStay
<1> DEFINE s == Row(r)
           t == [s EXCEPT !.status = status]
<1>1. s \in Rows
  BY ConfirmedRow
<1>2. t \in Rows /\ t.status = status
  <2> HIDE DEF s
  <2> QED  BY <1>1 DEF Rows
<1>3. Write(request[r].nc, t) /\ (Row(r).status = "closed" => t.status = "closed")
  BY <1>2
<1> HIDE DEF s, t
<1> QED
  BY <1>2, <1>3, CommitLocks, IdleHoldsNothing

LEMMA CommitsLock ==
    ASSUME Locked, Inv', NEW r \in Requests,
           Edit(r) \/ Correct(r) \/ rejectCorrection(r) \/ remove(r) \/ LinkCommit(r)
    PROVE  Locked' /\ ClosedStay
<1>1. CASE Edit(r)
  <2>1. "edit" \in Operations /\ Matches(r, "edit") /\ Become(r, Idle)
    BY <1>1 DEF Edit, Operations
  <2>2. request[r].row = Row(r) /\ Row(r) \in Rows
    BY <2>1, ConfirmedRow
  <2>3. Write(request[r].nc, [Row(r) EXCEPT !.status = Row(r).status])
    BY <1>1, <2>2 DEF Edit
  <2>4. Row(r).status \in {"open", "corrected", "closed"}
    BY <2>2 DEF Rows
  <2> QED
    BY <2>1, <2>3, <2>4, StatusLocks
<1>2. CASE Correct(r)
  <2>1. "correct" \in Operations /\ Matches(r, "correct")
    BY <1>2 DEF Correct, Operations
  <2>2. Row(r).status = "open"
    BY <2>1, ConfirmedRow DEF Found
  <2> QED
    BY <1>2, <2>1, <2>2, StatusLocks DEF Correct
<1>3. CASE rejectCorrection(r)
  <2>1. "rejectCorrection" \in Operations /\ Matches(r, "rejectCorrection")
    BY <1>3 DEF rejectCorrection, Operations
  <2>2. Row(r).status = "corrected"
    BY <2>1, ConfirmedRow DEF Found
  <2> QED
    BY <1>3, <2>1, <2>2, StatusLocks DEF rejectCorrection
<1>4. CASE remove(r)
  <2> DEFINE s == Row(r)
             t == [s EXCEPT !.deleted = TRUE]
  <2>1. "remove" \in Operations /\ Matches(r, "remove")
    BY <1>4 DEF remove, Operations
  <2>2. s \in Rows
    BY <2>1, ConfirmedRow
  <2>3. t \in Rows /\ t.status = s.status
    <3> HIDE DEF s
    <3> QED  BY <2>2 DEF Rows
  <2>4. Write(request[r].nc, t) /\ Become(r, Idle) /\ t.status = Row(r).status
    BY <1>4, <2>3 DEF remove
  <2> HIDE DEF s, t
  <2> QED
    BY <2>1, <2>3, <2>4, CommitLocks, IdleHoldsNothing
<1>5. CASE LinkCommit(r)
  <2> DEFINE s == Row(r)
             p == request[r].repair
             t == [s EXCEPT !.repair = p]
             q == IF request[r].completed THEN [phase |-> "marking", nc |-> request[r].nc]
                  ELSE Idle
  <2>1. "linkRepair" \in Operations /\ Matches(r, "linkRepair")
    BY <1>5 DEF LinkCommit, Operations
  <2>2. s \in Rows /\ p \in Repairs \cup {NoId}
    BY <2>1, ConfirmedRow, MatchedRow DEF Locked
  <2>3. t \in Rows /\ t.status = s.status
    <3> HIDE DEF s, p
    <3> QED  BY <2>2 DEF Rows
  <2>4. Write(request[r].nc, t) /\ Become(r, q) /\ t.status = Row(r).status
    BY <1>5, <2>3 DEF LinkCommit
  <2>5. q.phase \notin {"loaded", "closing", "calibrating"}
    BY DEF Idle
  <2> HIDE DEF s, t, p, q
  <2> QED
    BY <2>1, <2>3, <2>4, <2>5, CommitLocks
<1> QED
  BY <1>1, <1>2, <1>3, <1>4, <1>5

LEMMA ClosesLock ==
    ASSUME Locked, Inv', NEW r \in Requests, CloseUpdate(r) \/ CloseCommit(r)
    PROVE  Locked' /\ ClosedStay
<1>1. CASE CloseUpdate(r)
  <2> DEFINE q == [phase |-> "closing", nc |-> request[r].nc, row |-> request[r].row,
                   others |-> Active(Row(r).equipment) \ {request[r].nc} # {}]
  <2>1. /\ "close" \in Operations /\ Matches(r, "close")
        /\ Become(r, q) /\ UNCHANGED nc
    BY <1>1 DEF CloseUpdate, Operations
  <2>2. /\ request[r].row = nc[request[r].nc] /\ request[r].row.status = "corrected"
        /\ ~request[r].row.deleted /\ Unlocked(request[r].nc)
    BY <2>1, ConfirmedRow DEF Found
  <2>3. q.phase = "closing" /\ q.nc = request[r].nc /\ q.row = request[r].row
    OBVIOUS
  <2> HIDE DEF q
  <2>4. request'[r] = q /\ \A s \in Requests \ {r} : request'[s] = request[s]
    BY <2>1 DEF Become, Locked, Inv, TypeOK
  <2>5. Held(request[r])'
    BY <2>1, <2>2, <2>3, <2>4 DEF Held
  <2>6. Locked'
    BY <2>1, <2>2, <2>3, <2>4, <2>5, LocksStay
  <2> QED
    BY <2>1, <2>6 DEF ClosedStay
<1>2. CASE CloseCommit(r)
  <2> DEFINE n == request[r].nc
             s == Row(r)
             t == [s EXCEPT !.status = "closed"]
             next == [t EXCEPT !.version = nc[n].version + 1]
  <2>1. /\ n \in NCs /\ s \in Rows /\ request[r].phase = "closing"
    BY <1>2, ClosingRow DEF CloseCommit, Locked
  <2>2. nc' = [nc EXCEPT ![n] = next] /\ Become(r, Idle) /\ nc \in [NCs -> Rows \cup {NoRow}]
    BY <1>2 DEF CloseCommit, Write, Locked, Inv, TypeOK
  <2>3. next.status = "closed"
    <3> HIDE DEF s
    <3> QED  BY <2>1 DEF Rows
  <2>4. \A q \in Requests \ {r} : request[q].phase = "closing" => request[q].nc # n
    BY <2>1 DEF Locked, LocksApart
  <2> HIDE DEF next, s, t
  <2>5. \A m \in NCs : m # n => nc'[m] = nc[m]
    BY <2>2
  <2>6. Locked'
    BY <2>2, <2>4, <2>5, FreeStep, IdleHoldsNothing
  <2>7. nc'[n].status = "closed"
    BY <2>1, <2>2, <2>3
  <2> QED
    BY <2>5, <2>6, <2>7 DEF ClosedStay
<1> QED
  BY <1>1, <1>2

LEMMA FoundByAllows ==
    ASSUME NEW op \in Operations, NEW row \in Rows, Allows(op, row)
    PROVE  Found(op, row)
<1>1. row.status \in {"open", "corrected", "closed"}
  BY DEF Rows
<1>2. op = "correct" => row.status = "open"
  BY <1>1 DEF Allows, VALID_TRANSITIONS
<1>3. op \in {"rejectCorrection", "close"} => row.status = "corrected"
  BY <1>1 DEF Allows, VALID_TRANSITIONS
<1>4. /\ op = "edit" => row.status # "closed"
      /\ op # "linkRepair" /\ ~row.deleted
      /\ op = "remove" => "removal" \in Actors
  BY DEF Allows
<1> QED
  BY <1>2, <1>3, <1>4 DEF Found

LEMMA LoadLocks ==
    ASSUME Confirming, Locked, Inv', NEW r \in Requests,
           \/ \E n \in NCs, op \in Operations \ {"linkRepair"} : Load(r, n, op)
           \/ LinkLoad(r)
           \/ MarkLoad(r)
    PROVE  Locked' /\ UNCHANGED nc
<1>1. ASSUME NEW n \in NCs, NEW row \in known[n], NEW op, Found(op, row), NEW q,
             q.phase = "loaded", q.op = op, q.row = row, q.version = row.version,
             Become(r, q), UNCHANGED nc
      PROVE  Locked' /\ UNCHANGED nc
  <2>1. request'[r] = q /\ \A s \in Requests \ {r} : request'[s] = request[s]
    BY <1>1 DEF Become, Locked, Inv, TypeOK
  <2>2. Held(request[r])'
    BY <1>1, <2>1 DEF Held
  <2> QED
    BY <1>1, <2>1, <2>2, LocksStay
<1>2. ASSUME NEW n \in NCs, NEW op \in Operations \ {"linkRepair"}, Load(r, n, op)
      PROVE  Locked' /\ UNCHANGED nc
  <2>1. PICK row \in known[n] :
            /\ Allows(op, row)
            /\ \E version \in {row.version}
                              \cup (IF ClientVersions THEN {nc[n].version} ELSE {}) :
                   Become(r, [phase |-> "loaded", op |-> op, nc |-> n, row |-> row,
                              version |-> version, repair |-> NoId, completed |-> FALSE])
    BY <1>2 DEF Load
  <2> DEFINE q == [phase |-> "loaded", op |-> op, nc |-> n, row |-> row,
                   version |-> row.version, repair |-> NoId, completed |-> FALSE]
  <2>2. Become(r, q)
    BY <2>1 DEF Confirming
  <2>3. q.phase = "loaded" /\ q.op = op /\ q.row = row /\ q.version = row.version
    OBVIOUS
  <2>4. row \in Rows
    BY DEF Locked, Inv, TypeOK
  <2>5. Found(op, row) /\ UNCHANGED nc
    BY <1>2, <2>1, <2>4, FoundByAllows DEF Load
  <2> HIDE DEF q
  <2> QED
    BY <1>1, <2>2, <2>3, <2>5
<1>3. CASE LinkLoad(r)
  <2> DEFINE n == request[r].nc
  <2>1. PICK row \in known[n] :
            /\ ~row.deleted /\ row.status # "closed"
            /\ Become(r, [phase |-> "loaded", op |-> "linkRepair", nc |-> n, row |-> row,
                          version |-> row.version, repair |-> request[r].repair,
                          completed |-> request[r].completed])
    BY <1>3 DEF LinkLoad
  <2> DEFINE q == [phase |-> "loaded", op |-> "linkRepair", nc |-> n, row |-> row,
                   version |-> row.version, repair |-> request[r].repair,
                   completed |-> request[r].completed]
  <2>2. /\ q.phase = "loaded" /\ q.op = "linkRepair" /\ q.row = row
        /\ q.version = row.version /\ Become(r, q)
    BY <2>1
  <2>3. n \in NCs /\ UNCHANGED nc
    BY <1>3 DEF LinkLoad, Locked, Inv, TypeOK, RequestStates, Idle
  <2>4. Found("linkRepair", row)
    BY <2>1 DEF Found
  <2> HIDE DEF q, n
  <2> QED
    BY <1>1, <2>2, <2>3, <2>4
<1>4. CASE MarkLoad(r)
  <2> DEFINE n == request[r].nc
  <2>1. PICK row \in known[n] :
            /\ Allows("correct", row)
            /\ Become(r, [phase |-> "loaded", op |-> "correct", nc |-> n, row |-> row,
                          version |-> row.version, repair |-> NoId, completed |-> FALSE])
    BY <1>4 DEF MarkLoad
  <2> DEFINE q == [phase |-> "loaded", op |-> "correct", nc |-> n, row |-> row,
                   version |-> row.version, repair |-> NoId, completed |-> FALSE]
  <2>2. /\ q.phase = "loaded" /\ q.op = "correct" /\ q.row = row
        /\ q.version = row.version /\ Become(r, q)
    BY <2>1
  <2>3. n \in NCs /\ UNCHANGED nc
    BY <1>4 DEF MarkLoad, Locked, Inv, TypeOK, RequestStates, Idle
  <2>4. row \in Rows
    BY <2>3 DEF Locked, Inv, TypeOK
  <2>5. Found("correct", row)
    BY <2>1, <2>4, FoundByAllows DEF Operations
  <2> HIDE DEF q, n
  <2> QED
    BY <1>1, <2>2, <2>3, <2>5
<1> QED
  BY <1>2, <1>3, <1>4

\* Rows that are opened.
LEMMA InsertLocks ==
    ASSUME Locked, NEW n \in NCs, NEW row, Insert(n, row)
    PROVE  /\ \A m \in NCs : nc'[m] = nc[m] \/ nc[m] = NoRow
           /\ ClosedStay
BY NoRowIsNone DEF Insert, ClosedStay, Locked, Inv, TypeOK

LEMMA OthersLock ==
    ASSUME Locked, Inv', NEW r \in Requests,
           \/ \E e \in Equipment : CreateRead(r, e)
           \/ \E n \in NCs, type \in Types : CreateCommit(r, n, type)
           \/ \E n \in NCs, p \in Repairs, completed \in BOOLEAN :
                  RepairCreate(r, n, p, completed)
           \/ \E p \in Repairs : RepairComplete(r, p)
           \/ Fail(r)
    PROVE  Locked' /\ ClosedStay
<1>1. ASSUME NEW e \in Equipment, CreateRead(r, e) PROVE Locked' /\ UNCHANGED nc
  <2> DEFINE q == [phase |-> "creating", equipment |-> e, previous |-> equipment[e]]
  <2>1. Become(r, q) /\ UNCHANGED nc
    BY <1>1 DEF CreateRead
  <2>2. q.phase \notin {"loaded", "closing", "calibrating"}
    OBVIOUS
  <2> HIDE DEF q
  <2> QED
    BY <2>1, <2>2, FreeStep
<1>2. ASSUME NEW n \in NCs, NEW type \in Types, CreateCommit(r, n, type)
      PROVE  Locked' /\ ClosedStay
  <2> DEFINE row == OpenRow(request[r].equipment, type, request[r].previous, FALSE)
  <2>1. Insert(n, row) /\ Become(r, Idle)
    BY <1>2 DEF CreateCommit
  <2> HIDE DEF row
  <2> QED
    BY <2>1, InsertLocks, FreeStep, IdleHoldsNothing
<1>3. ASSUME NEW n \in NCs, NEW p \in Repairs, NEW completed \in BOOLEAN,
             RepairCreate(r, n, p, completed)
      PROVE  Locked' /\ UNCHANGED nc
  <2> DEFINE q == [phase |-> "linking", nc |-> n, repair |-> p, completed |-> completed]
  <2>1. Become(r, q) /\ UNCHANGED nc
    BY <1>3 DEF RepairCreate
  <2>2. q.phase \notin {"loaded", "closing", "calibrating"}
    OBVIOUS
  <2> HIDE DEF q
  <2> QED
    BY <2>1, <2>2, FreeStep
<1>4. ASSUME NEW p \in Repairs, RepairComplete(r, p) PROVE Locked' /\ UNCHANGED nc
  <2>1. /\ UNCHANGED nc
        /\ \/ \E n \in NCs : Become(r, [phase |-> "marking", nc |-> n])
           \/ UNCHANGED request
    BY <1>4 DEF RepairComplete
  <2>2. ASSUME NEW n \in NCs, Become(r, [phase |-> "marking", nc |-> n]) PROVE Locked'
    <3> DEFINE q == [phase |-> "marking", nc |-> n]
    <3>1. Become(r, q) /\ q.phase \notin {"loaded", "closing", "calibrating"}
      BY <2>2
    <3> HIDE DEF q
    <3> QED
      BY <2>1, <3>1, FreeStep
  <2> QED
    BY <2>1, <2>2, LocksRest
<1>5. CASE Fail(r)
  BY <1>5, FreeStep, IdleHoldsNothing DEF Fail, ClosedStay
<1> QED
  BY <1>1, <1>2, <1>3, <1>4, <1>5 DEF ClosedStay

LEMMA NextLocks ==
    ASSUME Confirming, Locked, [Next]_vars
    PROVE  Locked' /\ ClosedStay
<1>1. Inv'
  BY NextMoves DEF Locked
<1>2. ASSUME NEW r \in Requests, RequestStep(r) PROVE Locked' /\ ClosedStay
  <2>1. ~ CalibrationCommit(r) /\ \A e \in Equipment : ~ CalibrationSelect(r, e)
    <3>1. request[r].phase # "calibrating"
      BY DEF Locked, Held
    <3>2. ~ CalibrationCommit(r)
      BY <3>1, Zenon DEF CalibrationCommit
    <3>3. \A e \in Equipment : ~ CalibrationSelect(r, e)
      BY Zenon DEF CalibrationSelect, Confirming
    <3> QED  BY <3>2, <3>3
  <2>2. CASE \/ \E n \in NCs, op \in Operations \ {"linkRepair"} : Load(r, n, op)
             \/ LinkLoad(r)
             \/ MarkLoad(r)
    BY <1>1, <2>2, LoadLocks DEF ClosedStay
  <2> QED
    BY <1>1, <1>2, <2>1, <2>2, CommitsLock, ClosesLock, OthersLock DEF RequestStep
<1>3. ASSUME NEW e \in Equipment, EquipmentStep(e) PROVE Locked' /\ ClosedStay
  <2>1. UNCHANGED request
    BY <1>3 DEF EquipmentStep, createIncidentHistory, CalibrationFallsDue, ProcessOverdue,
       OverdueFails, CheckOut, ReturnApproved, LenderReceives, ReturnRejected
  <2>2. UNCHANGED nc \/ \E n \in NCs : \E row : Insert(n, row)
    BY <1>3 DEF EquipmentStep, createIncidentHistory, CalibrationFallsDue, ProcessOverdue,
       OverdueFails, CheckOut, ReturnApproved, LenderReceives, ReturnRejected, KeepsRows
  <2>3. (\A n \in NCs : nc'[n] = nc[n] \/ nc[n] = NoRow) /\ ClosedStay
    BY <2>2, InsertLocks DEF ClosedStay
  <2> QED
    BY <1>1, <2>1, <2>3, LocksRest
<1>4. CASE (\E p \in Repairs : RepairReopen(p) \/ RepairRemove(p)) \/ Scan \/ UNCHANGED vars
  BY <1>1, <1>4, LocksRest DEF RepairReopen, RepairRemove, Scan, vars, ClosedStay
<1>5. CASE Restart
  <2>1. request' = [r \in Requests |-> Idle] /\ UNCHANGED nc
    BY <1>5 DEF Restart
  <2> QED
    BY <1>1, <2>1 DEF Locked, Held, LocksApart, Idle, ClosedStay
<1> QED
  BY <1>2, <1>3, <1>4, <1>5 DEF Next

LEMMA SpecLocks == ASSUME Confirming PROVE Spec => []Locked
<1>1. Init => Locked
  BY InitInv DEF Init, Locked, Held, LocksApart, Idle
<1>2. Locked /\ [Next]_vars => Locked'
  BY NextLocks
<1> QED
  BY <1>1, <1>2, PTL DEF Spec

\* A closed NC stays closed under clients that send the version of the detail
\* they act on, as long as no calibration is approved: what a handler found
\* open is open when it commits.
THEOREM ClosedStaysClosed ==
    ASSUME Confirming
    PROVE  Spec => ClosedIsFinal
<1>1. Locked /\ [Next]_vars => [\A n \in NCs : nc[n].status = "closed" =>
                                                 nc'[n].status = "closed"]_vars
  BY NextLocks DEF ClosedStay
<1> QED
  BY <1>1, SpecLocks, PTL DEF Spec, ClosedIsFinal

-----------------------------------------------------------------------------
(* The mark of the equipment                                                *)
(*                                                                          *)
(* With users, repairs and removals (Calm) equipment has one NC at a time   *)
(* that is not closed, and is marked while it has one; without removals     *)
(* (Quiet) it is marked only then.  A creation that has read the present    *)
(* version of the equipment row has read that it is not marked; and a close *)
(* finds no other NC, so it is right to give the status back, although it   *)
(* looked for others in an earlier statement.                               *)

Calm == ClientVersions = FALSE /\ Actors \subseteq {"user", "repair", "removal"}

Quiet == ClientVersions = FALSE /\ Actors \subseteq {"user", "repair"}

OpenIsMarked ==
    \A e \in Equipment : Active(e) # {} => equipment[e] = "non_conforming"

\* The converse holds as long as nothing is removed.
MarksAreKept ==
    "removal" \notin Actors =>
        /\ \A e \in Equipment : equipment[e] = "non_conforming" => Active(e) # {}
        /\ \A n \in NCs : ~nc[n].deleted

OneActive == \A e \in Equipment : \A n, m \in Active(e) : n = m

\* What nobody does who is not one of these actors.
Undisturbed ==
    \A e \in Equipment : scan[e] = "none" /\ custody[e] = "home"

Marks(r) ==
    /\ /\ request[r].phase = "creating"
       /\ r \in fresh[request[r].equipment]
       => /\ equipment[request[r].equipment] # "non_conforming"
          /\ request[r].previous = equipment[request[r].equipment]
    /\ request[r].phase = "closing" => ~request[r].others

Marked ==
    /\ Locked
    /\ OpenIsMarked
    /\ MarksAreKept
    /\ OneActive
    /\ Undisturbed
    /\ \A r \in Requests : Marks(r)

\* The row of an NC, if it changes, is as active as before.
SameActivity(n) ==
    /\ nc'[n].equipment = nc[n].equipment
    /\ nc'[n].deleted = nc[n].deleted
    /\ nc'[n].status \in {"open", "corrected"} <=> nc[n].status \in {"open", "corrected"}

LEMMA ActivityStays ==
    ASSUME Marked, Locked', \A n \in NCs : SameActivity(n),
           UNCHANGED <<equipment, custody, scan>>,
           \A r \in Requests : Marks(r)'
    PROVE  Marked'
<1>1. \A e \in Equipment : Active(e)' = Active(e)
  BY DEF SameActivity, Active
<1>2. OpenIsMarked' /\ OneActive'
  BY <1>1 DEF Marked, OpenIsMarked, OneActive
<1>3. MarksAreKept'
  BY <1>1 DEF Marked, MarksAreKept, SameActivity
<1>4. Undisturbed'
  BY DEF Marked, Undisturbed
<1> QED
  BY <1>2, <1>3, <1>4 DEF Marked

LEMMA MarksStay ==
    ASSUME Marked, NEW s \in Requests, request'[s] = request[s],
           UNCHANGED equipment,
           \A e \in Equipment : s \in fresh'[e] => s \in fresh[e]
    PROVE  Marks(s)'
<1>1. request[s].phase = "creating" => request[s].equipment \in Equipment
  BY DEF Marked, Locked, Inv, TypeOK, RequestStates, Idle
<1> QED
  BY <1>1 DEF Marked, Marks

\* A step of one request that leaves the equipment alone.
LEMMA RequestMarks ==
    ASSUME Marked, Locked', NEW r \in Requests, NEW q, Become(r, q),
           \A n \in NCs : SameActivity(n),
           UNCHANGED <<equipment, custody, scan>>,
           \A e \in Equipment : fresh'[e] \subseteq fresh[e] \cup {r},
           Marks(r)'
    PROVE  Marked'
<1>1. \A s \in Requests \ {r} : request'[s] = request[s]
  BY DEF Become, Marked, Locked, Inv, TypeOK
<1>2. \A s \in Requests \ {r} : Marks(s)'
  BY <1>1, MarksStay
<1> QED
  BY <1>2, ActivityStays

LEMMA StatusMarks ==
    ASSUME Marked, Locked', NEW r \in Requests, NEW op \in Operations, Matches(r, op),
           NEW row \in Rows, Write(request[r].nc, row),
           row.equipment = Row(r).equipment, row.deleted = Row(r).deleted,
           row.status \in {"open", "corrected"} <=> Row(r).status \in {"open", "corrected"},
           NEW q, Become(r, q), q.phase \notin {"creating", "closing"},
           UNCHANGED <<equipment, fresh, custody, scan>>
    PROVE  Marked'
<1> DEFINE n == request[r].nc
           next == [row EXCEPT !.version = nc[n].version + 1]
<1>1. n \in NCs /\ Row(r) = nc[n]
  BY ConfirmedRow DEF Marked
<1>2. nc' = [nc EXCEPT ![n] = next] /\ nc \in [NCs -> Rows \cup {NoRow}]
  BY DEF Write, Marked, Locked, Inv, TypeOK
<1>3. next.equipment = row.equipment /\ next.deleted = row.deleted /\ next.status = row.status
  BY DEF Rows
<1> HIDE DEF next
<1>4. \A m \in NCs : SameActivity(m)
  BY <1>1, <1>2, <1>3 DEF SameActivity
<1>5. request'[r] = q
  BY DEF Become, Marked, Locked, Inv, TypeOK
<1>6. Marks(r)'
  BY <1>5 DEF Marks
<1> QED
  BY <1>4, <1>6, RequestMarks

LEMMA CommitsMark ==
    ASSUME Marked, Locked', NEW r \in Requests,
           Edit(r) \/ Correct(r) \/ rejectCorrection(r) \/ LinkCommit(r)
    PROVE  Marked'
<1>0. Locked /\ Idle.phase \notin {"creating", "closing"}
  BY DEF Marked, Idle
<1>1. ASSUME NEW op \in Operations, Matches(r, op), NEW status \in {"open", "corrected"},
             Row(r).status \in {"open", "corrected"},
             Write(request[r].nc, [Row(r) EXCEPT !.status = status]), Become(r, Idle),
             UNCHANGED <<equipment, fresh, custody, scan>>
      PROVE  Marked'
  <2> DEFINE s == Row(r)
             t == [s EXCEPT !.status = status]
  <2>1. s \in Rows
    BY <1>0, <1>1, ConfirmedRow
  <2>2. /\ t \in Rows /\ t.status = status
        /\ t.equipment = s.equipment /\ t.deleted = s.deleted
    <3> HIDE DEF s
    <3> QED  BY <2>1 DEF Rows
  <2>3. /\ Write(request[r].nc, t)
        /\ t.equipment = Row(r).equipment /\ t.deleted = Row(r).deleted
    BY <1>1, <2>2
  <2> HIDE DEF s, t
  <2> QED
    BY <1>0, <1>1, <2>2, <2>3, StatusMarks
<1>2. CASE Edit(r)
  <2>1. /\ "edit" \in Operations /\ Matches(r, "edit") /\ Become(r, Idle)
        /\ UNCHANGED <<equipment, fresh, custody, scan>>
    BY <1>2 DEF Edit, Operations
  <2>2. request[r].row = Row(r) /\ Row(r) \in Rows /\ Row(r).status # "closed"
    BY <1>0, <2>1, ConfirmedRow DEF Found
  <2>3. Write(request[r].nc, [Row(r) EXCEPT !.status = Row(r).status])
    BY <1>2, <2>2 DEF Edit
  <2>4. Row(r).status \in {"open", "corrected"}
    BY <2>2 DEF Rows
  <2> QED
    BY <1>1, <2>1, <2>3, <2>4
<1>3. CASE Correct(r)
  <2>1. "correct" \in Operations /\ Matches(r, "correct")
    BY <1>3 DEF Correct, Operations
  <2>2. Row(r).status = "open"
    BY <1>0, <2>1, ConfirmedRow DEF Found
  <2> QED
    BY <1>1, <1>3, <2>1, <2>2 DEF Correct
<1>4. CASE rejectCorrection(r)
  <2>1. "rejectCorrection" \in Operations /\ Matches(r, "rejectCorrection")
    BY <1>4 DEF rejectCorrection, Operations
  <2>2. Row(r).status = "corrected"
    BY <1>0, <2>1, ConfirmedRow DEF Found
  <2> QED
    BY <1>1, <1>4, <2>1, <2>2 DEF rejectCorrection
<1>5. CASE LinkCommit(r)
  <2> DEFINE s == Row(r)
             p == request[r].repair
             t == [s EXCEPT !.repair = p]
             q == IF request[r].completed THEN [phase |-> "marking", nc |-> request[r].nc]
                  ELSE Idle
  <2>1. "linkRepair" \in Operations /\ Matches(r, "linkRepair")
    BY <1>5 DEF LinkCommit, Operations
  <2>2. s \in Rows /\ p \in Repairs \cup {NoId}
    BY <1>0, <2>1, ConfirmedRow, MatchedRow DEF Locked
  <2>3. /\ t \in Rows /\ t.status = s.status
        /\ t.equipment = s.equipment /\ t.deleted = s.deleted
    <3> HIDE DEF s, p
    <3> QED  BY <2>2 DEF Rows
  <2>4. /\ Write(request[r].nc, t) /\ Become(r, q) /\ t.status = Row(r).status
        /\ t.equipment = Row(r).equipment /\ t.deleted = Row(r).deleted
        /\ UNCHANGED <<equipment, fresh, custody, scan>>
    BY <1>5, <2>3 DEF LinkCommit
  <2>5. q.phase \notin {"creating", "closing"}
    BY <1>0
  <2> HIDE DEF s, t, p, q
  <2> QED
    BY <2>1, <2>3, <2>4, <2>5, StatusMarks
<1> QED
  BY <1>2, <1>3, <1>4, <1>5

\* A removal leaves equipment marked, and unmarked equipment as it is.
LEMMA RemovalMarks ==
    ASSUME Marked, Locked', NEW r \in Requests, remove(r)
    PROVE  Marked'
<1> DEFINE n == request[r].nc
           s == Row(r)
           t == [s EXCEPT !.deleted = TRUE]
           next == [t EXCEPT !.version = nc[n].version + 1]
<1>1. /\ "remove" \in Operations /\ Matches(r, "remove") /\ Write(n, t)
      /\ Become(r, Idle) /\ UNCHANGED <<equipment, fresh, custody, scan>>
  BY DEF remove, Operations
<1>2. n \in NCs /\ s \in Rows /\ "removal" \in Actors
  BY <1>1, ConfirmedRow DEF Marked, Found
<1>3. next.deleted
  <2> HIDE DEF s
  <2> QED  BY <1>2 DEF Rows
<1>4. nc' = [nc EXCEPT ![n] = next] /\ nc \in [NCs -> Rows \cup {NoRow}]
  BY <1>1 DEF Write, Marked, Locked, Inv, TypeOK
<1> HIDE DEF next, t, s
<1>5. nc'[n].deleted /\ \A m \in NCs : m # n => nc'[m] = nc[m]
  BY <1>2, <1>3, <1>4
<1>6. \A e \in Equipment : Active(e)' \subseteq Active(e)
  BY <1>5 DEF Active
<1>7. OpenIsMarked' /\ OneActive'
  BY <1>1, <1>6 DEF Marked, OpenIsMarked, OneActive
<1>8. MarksAreKept' /\ Undisturbed'
  BY <1>1, <1>2 DEF Marked, MarksAreKept, Undisturbed
<1>9. ASSUME NEW p \in Requests PROVE Marks(p)'
  <2>1. CASE p = r
    BY <1>1, <2>1 DEF Become, Marks, Idle, Marked, Locked, Inv, TypeOK
  <2>2. CASE p # r
    <3>1. request'[p] = request[p]
      BY <1>1, <2>2 DEF Become, Marked, Locked, Inv, TypeOK
    <3> QED
      BY <1>1, <3>1, MarksStay
  <2> QED  BY <2>1, <2>2
<1> QED
  BY <1>7, <1>8, <1>9 DEF Marked

\* A step that opens or closes an NC and writes its equipment row accordingly.
LEMMA EquipmentTurns ==
    ASSUME Marked, Locked', NEW r \in Requests, NEW n \in NCs, NEW e \in Equipment,
           NEW status, SetEquipment(e, status), Become(r, Idle),
           UNCHANGED <<custody, scan>>,
           \A m \in NCs : m # n => nc'[m] = nc[m],
           Active(e) \subseteq {n}, n \in Active(e) \/ nc[n] = NoRow,
           nc'[n].equipment = e, ~nc'[n].deleted,
           status = "non_conforming" <=> nc'[n].status \in {"open", "corrected"}
    PROVE  Marked'
<1>0. /\ Locked /\ Inv /\ Undisturbed /\ OneActive /\ OpenIsMarked
      /\ MarksAreKept
  BY DEF Marked, Locked
<1>1. \A f \in Equipment : f # e => n \notin Active(f) /\ n \notin Active(f)'
  BY NoRowIsNone DEF Active
<1>2. \A f \in Equipment : f # e => Active(f)' = Active(f)
  <2> SUFFICES ASSUME NEW f \in Equipment, f # e, NEW m \in NCs
               PROVE  m \in Active(f)' <=> m \in Active(f)
    BY DEF Active
  <2>1. CASE m = n
    BY <1>1, <2>1
  <2>2. CASE m # n
    BY <2>2 DEF Active
  <2> QED  BY <2>1, <2>2
<1>3. Active(e)' \subseteq {n} /\ (n \in Active(e)' <=> status = "non_conforming")
  <2>1. ASSUME NEW m \in NCs, m # n PROVE m \notin Active(e)'
    BY <2>1 DEF Active
  <2>2. Active(e)' \subseteq NCs
    BY DEF Active
  <2>3. n \in Active(e)' <=> status = "non_conforming"
    BY DEF Active
  <2> QED  BY <2>1, <2>2, <2>3
<1>4. /\ equipment'[e] = status /\ fresh'[e] = {}
      /\ \A f \in Equipment : f # e => equipment'[f] = equipment[f] /\ fresh'[f] = fresh[f]
  BY <1>0 DEF SetEquipment, Inv, TypeOK
<1>5. ASSUME NEW f \in Equipment
      PROVE  /\ Active(f)' # {} => equipment'[f] = "non_conforming"
             /\ "removal" \notin Actors /\ equipment'[f] = "non_conforming"
                    => Active(f)' # {}
             /\ \A m, k \in Active(f)' : m = k
  <2>1. CASE f = e
    BY <1>3, <1>4, <2>1
  <2>2. CASE f # e
    BY <1>0, <1>2, <1>4, <2>2 DEF OpenIsMarked, MarksAreKept, OneActive
  <2> QED  BY <2>1, <2>2
<1>6. OpenIsMarked' /\ MarksAreKept' /\ OneActive'
  BY <1>0, <1>5 DEF OpenIsMarked, MarksAreKept, OneActive
<1>7. Undisturbed'
  BY <1>0 DEF Undisturbed
<1>8. ASSUME NEW p \in Requests PROVE Marks(p)'
  <2>1. CASE p = r
    BY <1>0, <2>1 DEF Become, Marks, Idle, Inv, TypeOK
  <2>2. CASE p # r
    <3>1. request'[p] = request[p]
      BY <1>0, <2>2 DEF Become, Inv, TypeOK
    <3>2. request[p].phase = "creating" => request[p].equipment \in Equipment
      BY <1>0 DEF Inv, TypeOK, RequestStates, Idle
    <3> QED
      BY <1>4, <3>1, <3>2 DEF Marked, Marks
  <2> QED  BY <2>1, <2>2
<1> QED
  BY <1>6, <1>7, <1>8 DEF Marked

LEMMA ClosesMark ==
    ASSUME Marked, Locked', NEW r \in Requests, CloseUpdate(r) \/ CloseCommit(r)
    PROVE  Marked'
<1>0. Locked /\ Inv /\ Undisturbed /\ OneActive /\ OpenIsMarked
  BY DEF Marked, Locked
<1>1. CASE CloseUpdate(r)
  <2> DEFINE others == Active(Row(r).equipment) \ {request[r].nc} # {}
             q == [phase |-> "closing", nc |-> request[r].nc, row |-> request[r].row,
                   others |-> others]
  <2>1. /\ "close" \in Operations /\ Matches(r, "close") /\ Become(r, q)
        /\ UNCHANGED <<nc, equipment, fresh, custody, scan>>
    BY <1>1 DEF CloseUpdate, Operations
  <2>2. /\ request[r].nc \in NCs /\ Row(r) = nc[request[r].nc] /\ Row(r) \in Rows
        /\ Row(r).status = "corrected" /\ ~Row(r).deleted
    BY <1>0, <2>1, ConfirmedRow DEF Found
  <2>3. request[r].nc \in Active(Row(r).equipment) /\ Row(r).equipment \in Equipment
    BY <1>0, <2>2 DEF Active, Rows
  <2>4. ~ others
    BY <1>0, <2>3 DEF OneActive
  <2>5. q.phase = "closing" /\ q.others = others
    OBVIOUS
  <2>6. request'[r] = q
    BY <1>0, <2>1 DEF Become, Inv, TypeOK
  <2> HIDE DEF q, others
  <2>7. Marks(r)'
    BY <2>4, <2>5, <2>6 DEF Marks
  <2> QED
    BY <2>1, <2>7, RequestMarks DEF SameActivity
<1>2. CASE CloseCommit(r)
  <2> DEFINE n == request[r].nc
             s == Row(r)
             t == [s EXCEPT !.status = "closed"]
             next == [t EXCEPT !.version = nc[n].version + 1]
             status == restoreStatus(request[r].row.previous)
  <2>1. /\ request[r].phase = "closing" /\ n \in NCs /\ s = nc[n] /\ s \in Rows
        /\ request[r].row \in Rows
    BY <1>0, <1>2, ClosingRow DEF CloseCommit
  <2>2. s.status = "corrected" /\ ~s.deleted /\ ~ request[r].others
    BY <2>1 DEF Marked, Locked, Held, Marks
  <2>3. PICK e \in Equipment : e = s.equipment
    BY <2>1 DEF Rows
  <2>4. n \in Active(e)
    BY <2>1, <2>2, <2>3 DEF Active
  <2>5. equipment[e] = "non_conforming" /\ Active(e) \subseteq {n}
    BY <1>0, <2>4 DEF OpenIsMarked, OneActive
  <2>6. /\ nc' = [nc EXCEPT ![n] = next] /\ SetEquipment(e, status) /\ Become(r, Idle)
        /\ UNCHANGED <<custody, scan>>
    BY <1>2, <2>2, <2>3, <2>5 DEF CloseCommit, Write
  <2>7. status # "non_conforming"
    BY DEF restoreStatus, EXCLUDED_OVERDUE_EQUIPMENT_STATUSES
  <2>8. next.status = "closed" /\ next.equipment = s.equipment /\ next.deleted = s.deleted
    <3> HIDE DEF s
    <3> QED  BY <2>1 DEF Rows
  <2>9. next.equipment = e /\ ~ next.deleted
    BY <2>2, <2>3, <2>8
  <2>10. PICK k \in NCs : k = n
    BY <2>1
  <2> HIDE DEF next, status, t, s, n
  <2>11. nc'[k] = next /\ \A m \in NCs : m # k => nc'[m] = nc[m]
    BY <1>0, <2>6, <2>10 DEF Inv, TypeOK
  <2> QED
    BY <2>4, <2>5, <2>6, <2>7, <2>8, <2>9, <2>10, <2>11, EquipmentTurns
<1> QED
  BY <1>1, <1>2

LEMMA CreateMarks ==
    ASSUME Marked, Locked', NEW r \in Requests,
           \/ \E e \in Equipment : CreateRead(r, e)
           \/ \E n \in NCs, type \in Types : CreateCommit(r, n, type)
    PROVE  Marked'
<1>0. Locked /\ Inv /\ Undisturbed /\ OneActive /\ OpenIsMarked
  BY DEF Marked, Locked
<1>1. ASSUME NEW e \in Equipment, CreateRead(r, e) PROVE Marked'
  <2> DEFINE q == [phase |-> "creating", equipment |-> e, previous |-> equipment[e]]
  <2>1. /\ Become(r, q) /\ fresh' = [fresh EXCEPT ![e] = @ \cup {r}]
        /\ equipment[e] # "non_conforming"
        /\ UNCHANGED <<nc, equipment, custody, scan>>
    BY <1>1 DEF CreateRead
  <2>2. q.phase = "creating" /\ q.equipment = e /\ q.previous = equipment[e]
    OBVIOUS
  <2>3. request'[r] = q
    BY <1>0, <2>1 DEF Become, Inv, TypeOK
  <2> HIDE DEF q
  <2>4. Marks(r)'
    BY <2>1, <2>2, <2>3 DEF Marks
  <2>5. \A f \in Equipment : fresh'[f] \subseteq fresh[f] \cup {r}
    BY <1>0, <2>1 DEF Inv, TypeOK
  <2> QED
    BY <2>1, <2>4, <2>5, RequestMarks DEF SameActivity
<1>2. ASSUME NEW n \in NCs, NEW type \in Types, CreateCommit(r, n, type) PROVE Marked'
  <2>1. PICK e \in Equipment : e = request[r].equipment
    BY <1>0, <1>2 DEF CreateCommit, Inv, TypeOK, RequestStates, Idle
  <2> DEFINE row == OpenRow(e, type, request[r].previous, FALSE)
  <2>2. /\ request[r].phase = "creating" /\ r \in fresh[e]
        /\ Insert(n, row) /\ SetEquipment(e, "non_conforming") /\ Become(r, Idle)
        /\ UNCHANGED <<custody, scan>>
    BY <1>2, <2>1 DEF CreateCommit
  <2>3. equipment[e] # "non_conforming"
    BY <2>1, <2>2 DEF Marked, Marks
  <2>4. Active(e) = {}
    BY <1>0, <2>3 DEF OpenIsMarked
  <2>5. row.status = "open" /\ row.equipment = e /\ row.deleted = FALSE
    BY DEF OpenRow
  <2> HIDE DEF row
  <2>6. nc'[n] = row /\ nc[n] = NoRow /\ \A m \in NCs : m # n => nc'[m] = nc[m]
    BY <1>0, <2>2 DEF Insert, Inv, TypeOK
  <2> QED
    BY <2>2, <2>4, <2>5, <2>6, EquipmentTurns
<1> QED
  BY <1>1, <1>2

LEMMA OthersMark ==
    ASSUME Marked, Locked', NEW r \in Requests,
           \/ \E n \in NCs, op \in Operations \ {"linkRepair"} : Load(r, n, op)
           \/ LinkLoad(r)
           \/ MarkLoad(r)
           \/ \E n \in NCs, p \in Repairs, completed \in BOOLEAN :
                  RepairCreate(r, n, p, completed)
           \/ \E p \in Repairs : RepairComplete(r, p)
           \/ Fail(r)
    PROVE  Marked'
<1>1. /\ UNCHANGED <<nc, equipment, fresh, custody, scan>>
      /\ \/ \E q : Become(r, q) /\ q.phase \notin {"creating", "closing"}
         \/ UNCHANGED request
  <2>1. UNCHANGED <<nc, equipment, fresh, custody, scan>>
    BY DEF Load, LinkLoad, MarkLoad, RepairCreate, RepairComplete, Fail
  <2>2. ASSUME NEW n \in NCs, NEW op \in Operations \ {"linkRepair"}, Load(r, n, op)
        PROVE  \E q : Become(r, q) /\ q.phase \notin {"creating", "closing"}
    <3>1. PICK row, version :
              Become(r, [phase |-> "loaded", op |-> op, nc |-> n, row |-> row,
                         version |-> version, repair |-> NoId, completed |-> FALSE])
      BY <2>2, Zenon DEF Load
    <3> QED  BY <3>1
  <2>3. ASSUME LinkLoad(r)
        PROVE  \E q : Become(r, q) /\ q.phase \notin {"creating", "closing"}
    <3>1. PICK row :
              Become(r, [phase |-> "loaded", op |-> "linkRepair", nc |-> request[r].nc,
                         row |-> row, version |-> row.version,
                         repair |-> request[r].repair, completed |-> request[r].completed])
      BY <2>3, Zenon DEF LinkLoad
    <3> QED  BY <3>1
  <2>4. ASSUME MarkLoad(r)
        PROVE  \E q : Become(r, q) /\ q.phase \notin {"creating", "closing"}
    <3>1. PICK row :
              Become(r, [phase |-> "loaded", op |-> "correct", nc |-> request[r].nc,
                         row |-> row, version |-> row.version, repair |-> NoId,
                         completed |-> FALSE])
      BY <2>4, Zenon DEF MarkLoad
    <3> QED  BY <3>1
  <2>5. ASSUME NEW n \in NCs, NEW p \in Repairs, NEW completed \in BOOLEAN,
               RepairCreate(r, n, p, completed)
        PROVE  \E q : Become(r, q) /\ q.phase \notin {"creating", "closing"}
    <3>1. Become(r, [phase |-> "linking", nc |-> n, repair |-> p, completed |-> completed])
      BY <2>5, Zenon DEF RepairCreate
    <3> QED  BY <3>1
  <2>6. ASSUME NEW p \in Repairs, RepairComplete(r, p)
        PROVE  \/ \E q : Become(r, q) /\ q.phase \notin {"creating", "closing"}
               \/ UNCHANGED request
    <3>1. UNCHANGED request \/ \E n \in NCs : Become(r, [phase |-> "marking", nc |-> n])
      BY <2>6 DEF RepairComplete
    <3>2. \A n : [phase |-> "marking", nc |-> n].phase \notin {"creating", "closing"}
      OBVIOUS
    <3> QED  BY <3>1, <3>2, Zenon
  <2>7. ASSUME Fail(r)
        PROVE  \E q : Become(r, q) /\ q.phase \notin {"creating", "closing"}
    <3>1. Become(r, Idle) /\ Idle.phase \notin {"creating", "closing"}
      BY <2>7 DEF Fail, Idle
    <3> QED  BY <3>1, Zenon
  <2> QED
    BY <2>1, <2>2, <2>3, <2>4, <2>5, <2>6, <2>7, Zenon
<1>2. ASSUME NEW q, Become(r, q), q.phase \notin {"creating", "closing"} PROVE Marked'
  <2>1. request'[r] = q
    BY <1>2 DEF Become, Marked, Locked, Inv, TypeOK
  <2>2. Marks(r)'
    BY <1>2, <2>1 DEF Marks
  <2> QED
    BY <1>1, <1>2, <2>2, RequestMarks DEF SameActivity
<1>3. CASE UNCHANGED request
  <2>1. \A s \in Requests : Marks(s)'
    BY <1>1, <1>3, MarksStay
  <2> QED
    BY <1>1, <2>1, ActivityStays DEF SameActivity
<1> QED
  BY <1>1, <1>2, <1>3

LEMMA NextMarks ==
    ASSUME Calm, Marked, [Next]_vars
    PROVE  Marked'
<1>0. Locked /\ Undisturbed /\ Confirming
  BY DEF Marked, Calm, Confirming
<1>1. Locked'
  BY <1>0, NextLocks
<1>2. ASSUME NEW r \in Requests, RequestStep(r) PROVE Marked'
  <2>1. request[r].phase # "calibrating"
    BY <1>0 DEF Locked, Held
  <2>2. ~ CalibrationCommit(r)
    BY <2>1, Zenon DEF CalibrationCommit
  <2>3. \A e \in Equipment : ~ CalibrationSelect(r, e)
    BY <1>0, Zenon DEF CalibrationSelect, Confirming
  <2> QED
    BY <1>1, <1>2, <2>2, <2>3, CommitsMark, RemovalMarks, ClosesMark, CreateMarks, OthersMark
       DEF RequestStep
<1>3. ASSUME NEW e \in Equipment PROVE ~ EquipmentStep(e)
  <2>1. Actors \cap {"incident", "scheduler", "checkout"} = {}
    BY DEF Calm
  <2>2. scan[e] = "none" /\ custody[e] = "home"
    BY <1>0 DEF Undisturbed
  <2> QED
    BY <2>1, <2>2 DEF EquipmentStep, createIncidentHistory, CalibrationFallsDue,
       ProcessOverdue, OverdueFails, CheckOut, ReturnApproved, LenderReceives, ReturnRejected
<1>4. CASE (\E p \in Repairs : RepairReopen(p) \/ RepairRemove(p)) \/ UNCHANGED vars
  <2>1. UNCHANGED <<nc, equipment, fresh, custody, scan, request>>
    BY <1>4 DEF RepairReopen, RepairRemove, vars
  <2> QED
    BY <1>1, <2>1, MarksStay, ActivityStays DEF SameActivity
<1>5. ~ Scan
  BY DEF Scan, Calm
<1>6. CASE Restart
  <2>1. /\ request' = [r \in Requests |-> Idle] /\ scan' = [e \in Equipment |-> "none"]
        /\ UNCHANGED <<nc, equipment, custody>>
    BY <1>6 DEF Restart
  <2>2. UNCHANGED <<equipment, custody, scan>>
    BY <1>0, <2>1 DEF Undisturbed, Locked, Inv, TypeOK
  <2>3. \A r \in Requests : Marks(r)'
    BY <2>1 DEF Marks, Idle
  <2> QED
    BY <1>1, <2>1, <2>2, <2>3, ActivityStays DEF SameActivity
<1> QED
  BY <1>2, <1>3, <1>4, <1>5, <1>6 DEF Next

LEMMA SpecMarked == ASSUME Calm PROVE Spec => []Marked
<1>0. Confirming
  BY DEF Calm, Confirming
<1>1. Init /\ Locked => Marked
  BY NoRowIsNone, StartAssumption
     DEF Init, Marked, OpenIsMarked, MarksAreKept, OneActive, Undisturbed, Marks, Active, Idle, NoRow
<1>2. Marked /\ [Next]_vars => Marked'
  BY NextMarks
<1> QED
  BY <1>0, <1>1, <1>2, SpecLocks, PTL DEF Spec

\* With users and repairs alone, equipment is marked exactly while it has an
\* NC that is not closed, however creations, corrections, rejections and
\* closes race.
THEOREM MarkIsRight ==
    ASSUME Quiet
    PROVE  Spec => []MarkFollowsRecords
<1>1. Calm
  BY DEF Quiet, Calm
<1>2. "removal" \notin Actors
  BY DEF Quiet
<1>3. Marked => MarkFollowsRecords
  BY <1>2 DEF Marked, OpenIsMarked, MarksAreKept, MarkFollowsRecords
<1> QED
  BY <1>1, <1>3, SpecMarked, PTL

\* Removals, too, take the mark from no equipment that has an NC that is not
\* closed: users and repairs by themselves never leave it unmarked.
THEOREM RemovalsKeepMark ==
    ASSUME Calm
    PROVE  Spec => []OpenNcKeepsMark
<1>1. Marked => OpenNcKeepsMark
  BY DEF Marked, OpenIsMarked, OpenNcKeepsMark
<1> QED
  BY <1>1, SpecMarked, PTL

-----------------------------------------------------------------------------
(* The reason of a mark                                                     *)
(*                                                                          *)
(* Whoever acts, removals apart, and whatever versions clients send, an NC  *)
(* stops being a reason only when it is closed.  A close that has found     *)
(* another NC leaves the mark; that NC is still a reason when it commits,   *)
(* unless another close ended it in between.                                *)

IsActive(row) == row.status \in {"open", "corrected"} /\ ~row.deleted

\* What a request has found, or will write.
Asks(r) ==
    /\ request[r].phase = "loaded" =>
           /\ request[r].op = "edit" => request[r].row.status # "closed"
           /\ request[r].op # "remove"
    /\ request[r].phase = "closing" /\ request[r].others =>
           \E m \in Active(Row(r).equipment) : m # request[r].nc

Reasoned ==
    /\ Inv
    /\ NonConformingHasReason
    /\ \A n \in NCs : ~nc[n].deleted
    /\ \A r \in Requests : Asks(r)

\* An NC stays about its equipment, and stays a reason if it is one.
StaysReason(n) ==
    /\ nc[n] # NoRow => nc'[n].equipment = nc[n].equipment
    /\ IsActive(nc[n]) => IsActive(nc'[n])
    /\ ~nc'[n].deleted

LEMMA ReasonsKept ==
    ASSUME Inv, \A n \in NCs : StaysReason(n)
    PROVE  \A e \in Equipment : Active(e) \subseteq Active(e)'
<1> SUFFICES ASSUME NEW e \in Equipment, NEW n \in Active(e)
             PROVE  n \in Active(e)'
  OBVIOUS
<1>1. n \in NCs /\ IsActive(nc[n]) /\ nc[n].equipment = e
  BY DEF Active, IsActive
<1>2. nc[n] # NoRow
  BY <1>1, NoRowIsNone DEF IsActive
<1>3. IsActive(nc'[n]) /\ nc'[n].equipment = e
  BY <1>1, <1>2 DEF StaysReason
<1> QED
  BY <1>1, <1>3 DEF Active, IsActive

LEMMA AskedStays ==
    ASSUME Inv, \A n \in NCs : StaysReason(n), NEW r \in Requests, Asks(r),
           request'[r] = request[r]
    PROVE  Asks(r)'
<1>1. ASSUME request[r].phase = "closing", request[r].others
      PROVE  (\E m \in Active(Row(r).equipment) : m # request[r].nc)'
  <2>1. request[r].nc \in NCs /\ Row(r) = nc[request[r].nc] /\ Row(r) \in Rows
    BY <1>1, ClosingRow
  <2>2. PICK e \in Equipment : e = Row(r).equipment
    BY <2>1 DEF Rows
  <2>3. Row(r)'.equipment = e
    BY <2>1, <2>2, NoRowIsNone DEF StaysReason, Row
  <2>4. Active(e) \subseteq Active(e)'
    BY ReasonsKept
  <2>5. \E m \in Active(e)' : m # request[r].nc
    BY <1>1, <2>2, <2>4 DEF Asks
  <2> QED
    BY <2>3, <2>5
<1> QED
  BY <1>1 DEF Asks

\* A step in which reasons stay, and what becomes marked has one.
LEMMA ReasonsStay ==
    ASSUME Reasoned, Inv', \A n \in NCs : StaysReason(n),
           \A e \in Equipment : equipment'[e] = "non_conforming" =>
               equipment[e] = "non_conforming" \/ Active(e)' # {},
           \A r \in Requests : Asks(r)'
    PROVE  Reasoned'
<1>1. NonConformingHasReason'
  BY ReasonsKept DEF Reasoned, NonConformingHasReason
<1> QED
  BY <1>1 DEF Reasoned, StaysReason

\* A step of one request that leaves rows and equipment alone.
LEMMA QuietRequest ==
    ASSUME Reasoned, Inv', NEW r \in Requests, NEW q, Become(r, q),
           UNCHANGED <<nc, equipment>>, Asks(r)'
    PROVE  Reasoned'
<1>0. Inv
  BY DEF Reasoned
<1>1. \A n \in NCs : StaysReason(n)
  BY DEF Reasoned, StaysReason
<1>2. \A s \in Requests \ {r} : request'[s] = request[s]
  BY <1>0 DEF Become, Inv, TypeOK
<1>3. \A s \in Requests : Asks(s)'
  BY <1>0, <1>1, <1>2, AskedStays DEF Reasoned
<1> QED
  BY <1>1, <1>3, ReasonsStay

\* A step after which its request waits for nothing.
LEMMA EndsReasoned ==
    ASSUME Reasoned, Inv', NEW r \in Requests, NEW q, Become(r, q),
           q.phase \notin {"loaded", "closing"},
           \A n \in NCs : StaysReason(n),
           \A e \in Equipment : equipment'[e] = "non_conforming" =>
               equipment[e] = "non_conforming" \/ Active(e)' # {}
    PROVE  Reasoned'
<1>0. Inv
  BY DEF Reasoned
<1>1. request'[r] = q /\ \A s \in Requests \ {r} : request'[s] = request[s]
  BY <1>0 DEF Become, Inv, TypeOK
<1>2. Asks(r)'
  BY <1>1 DEF Asks
<1>3. \A s \in Requests : Asks(s)'
  BY <1>0, <1>1, <1>2, AskedStays DEF Reasoned
<1> QED
  BY <1>3, ReasonsStay

LEMMA OpensReasoned ==
    ASSUME Reasoned, NEW n \in NCs, NEW row, Insert(n, row), row.status = "open",
           ~row.deleted
    PROVE  /\ \A m \in NCs : StaysReason(m)
           /\ n \in Active(row.equipment)'
<1>1. nc[n] = NoRow /\ nc'[n] = row /\ \A m \in NCs : m # n => nc'[m] = nc[m]
  BY DEF Insert, Reasoned, Inv, TypeOK
<1>2. \A m \in NCs : StaysReason(m)
  BY <1>1, NoRowIsNone DEF StaysReason, IsActive, Reasoned
<1> QED
  BY <1>1, <1>2 DEF Active

LEMMA StatusReasoned ==
    ASSUME Reasoned, Inv', NEW r \in Requests, NEW op \in Operations, Matches(r, op),
           NEW row \in Rows, Write(request[r].nc, row),
           row.equipment = Row(r).equipment, row.deleted = Row(r).deleted,
           Row(r).status # "closed" => row.status # "closed",
           NEW q, Become(r, q), q.phase \notin {"loaded", "closing"},
           UNCHANGED equipment
    PROVE  Reasoned'
<1> DEFINE n == request[r].nc
           next == [row EXCEPT !.version = nc[n].version + 1]
<1>0. Inv
  BY DEF Reasoned
<1>1. n \in NCs /\ Row(r) = nc[n] /\ Row(r) \in Rows
  BY <1>0, MatchedRow
<1>2. nc' = [nc EXCEPT ![n] = next] /\ nc \in [NCs -> Rows \cup {NoRow}]
  BY <1>0 DEF Write, Inv, TypeOK
<1>3. next.equipment = row.equipment /\ next.deleted = row.deleted /\ next.status = row.status
  BY DEF Rows
<1>4. row.status \in {"open", "corrected", "closed"}
  BY DEF Rows
<1> HIDE DEF next
<1>5. ASSUME NEW m \in NCs PROVE StaysReason(m)
  <2>1. CASE m = n
    <3>1. nc'[n] = next /\ ~nc[n].deleted
      BY <1>1, <1>2 DEF Reasoned
    <3> QED
      BY <1>1, <1>3, <1>4, <2>1, <3>1 DEF StaysReason, IsActive
  <2>2. CASE m # n
    BY <1>1, <1>2, <2>2 DEF StaysReason, Reasoned
  <2> QED  BY <2>1, <2>2
<1> QED
  BY <1>5, EndsReasoned

LEMMA CommitsReasoned ==
    ASSUME Reasoned, Inv', NEW r \in Requests,
           Edit(r) \/ Correct(r) \/ rejectCorrection(r) \/ remove(r) \/ LinkCommit(r)
    PROVE  Reasoned'
<1>0. Inv /\ Asks(r) /\ Idle.phase \notin {"loaded", "closing"}
  BY DEF Reasoned, Idle
<1>1. ASSUME NEW op \in Operations, Matches(r, op), NEW status \in {"open", "corrected", "closed"},
             Row(r).status # "closed" => status # "closed",
             Write(request[r].nc, [Row(r) EXCEPT !.status = status]), Become(r, Idle),
             UNCHANGED equipment
      PROVE  Reasoned'
  <2> DEFINE s == Row(r)
             t == [s EXCEPT !.status = status]
  <2>1. s \in Rows
    BY <1>0, <1>1, MatchedRow
  <2>2. /\ t \in Rows /\ t.status = status
        /\ t.equipment = s.equipment /\ t.deleted = s.deleted
    <3> HIDE DEF s
    <3> QED  BY <2>1 DEF Rows
  <2>3. /\ Write(request[r].nc, t) /\ t.status = status
        /\ t.equipment = Row(r).equipment /\ t.deleted = Row(r).deleted
    BY <1>1, <2>2
  <2> HIDE DEF s, t
  <2> QED
    BY <1>0, <1>1, <2>2, <2>3, StatusReasoned
<1>2. CASE Edit(r)
  <2>1. /\ "edit" \in Operations /\ Matches(r, "edit") /\ Become(r, Idle)
        /\ UNCHANGED equipment
    BY <1>2 DEF Edit, Operations
  <2>2. PICK status \in {Row(r).status, request[r].row.status} :
            Write(request[r].nc, [Row(r) EXCEPT !.status = status])
    BY <1>2 DEF Edit
  <2>3. request[r].row \in Rows /\ Row(r) \in Rows /\ request[r].row.status # "closed"
    BY <1>0, <2>1, MatchedRow DEF Asks, Matches
  <2>4. status \in {"open", "corrected", "closed"}
    BY <2>3 DEF Rows
  <2> QED
    BY <1>1, <2>1, <2>2, <2>3, <2>4
<1>3. CASE Correct(r)
  <2>1. "correct" \in Operations
    BY DEF Operations
  <2> QED
    BY <1>1, <1>3, <2>1 DEF Correct
<1>4. CASE rejectCorrection(r)
  <2>1. "rejectCorrection" \in Operations
    BY DEF Operations
  <2> QED
    BY <1>1, <1>4, <2>1 DEF rejectCorrection
<1>5. ~ remove(r)
  BY <1>0 DEF remove, Matches, Asks
<1>6. CASE LinkCommit(r)
  <2> DEFINE s == Row(r)
             p == request[r].repair
             t == [s EXCEPT !.repair = p]
             q == IF request[r].completed THEN [phase |-> "marking", nc |-> request[r].nc]
                  ELSE Idle
  <2>1. "linkRepair" \in Operations /\ Matches(r, "linkRepair")
    BY <1>6 DEF LinkCommit, Operations
  <2>2. s \in Rows /\ p \in Repairs \cup {NoId}
    BY <1>0, <2>1, MatchedRow
  <2>3. /\ t \in Rows /\ t.status = s.status
        /\ t.equipment = s.equipment /\ t.deleted = s.deleted
    <3> HIDE DEF s, p
    <3> QED  BY <2>2 DEF Rows
  <2>4. /\ Write(request[r].nc, t) /\ Become(r, q) /\ t.status = Row(r).status
        /\ t.equipment = Row(r).equipment /\ t.deleted = Row(r).deleted
        /\ UNCHANGED equipment
    BY <1>6, <2>3 DEF LinkCommit
  <2>5. q.phase \notin {"loaded", "closing"}
    BY <1>0
  <2> HIDE DEF s, t, p, q
  <2> QED
    BY <2>1, <2>3, <2>4, <2>5, StatusReasoned
<1> QED
  BY <1>2, <1>3, <1>4, <1>5, <1>6

\* While it is the only close over its equipment, what a close has found stands
\* when it commits.
LEMMA CloseReasoned ==
    ASSUME Reasoned, Inv', ClosingsApart, NEW r \in Requests, CloseCommit(r)
    PROVE  Reasoned'
<1> DEFINE n == request[r].nc
           s == Row(r)
           t == [s EXCEPT !.status = "closed"]
           next == [t EXCEPT !.version = nc[n].version + 1]
<1>0. Inv /\ request[r].phase = "closing" /\ Asks(r)
  BY DEF Reasoned, CloseCommit
<1>1. n \in NCs /\ s = nc[n] /\ s \in Rows
  BY <1>0, ClosingRow
<1>2. PICK e \in Equipment : e = s.equipment
  BY <1>1 DEF Rows
<1>3. /\ nc' = [nc EXCEPT ![n] = next] /\ Become(r, Idle)
      /\ IF equipment[e] = "non_conforming" /\ ~request[r].others
         THEN SetEquipment(e, restoreStatus(request[r].row.previous))
         ELSE KeepsEquipment
  BY <1>2 DEF CloseCommit, Write
<1>4. next.equipment = e /\ next.deleted = s.deleted
  <2> HIDE DEF s
  <2> QED  BY <1>1, <1>2 DEF Rows
<1>5. ~s.deleted
  BY <1>1 DEF Reasoned
<1>6. restoreStatus(request[r].row.previous) # "non_conforming"
  BY DEF restoreStatus, EXCLUDED_OVERDUE_EQUIPMENT_STATUSES
<1>7. \A q \in Requests :
          request[q].phase = "closing" /\ Row(q).equipment = e => q = r
  BY <1>0, <1>2 DEF ClosingsApart
<1>8. request[r].others => \E m \in Active(e) : m # n
  BY <1>0, <1>2 DEF Asks
<1> HIDE DEF next, t, s
<1>9. PICK k \in NCs : k = n
  BY <1>1
<1>10. nc'[k] = next /\ \A m \in NCs : m # k => nc'[m] = nc[m]
  BY <1>0, <1>3, <1>9 DEF Inv, TypeOK
<1>11. \A m \in NCs : nc[m] # NoRow => nc'[m].equipment = nc[m].equipment
  BY <1>1, <1>2, <1>4, <1>9, <1>10
<1>12. \A m \in NCs : ~nc'[m].deleted
  BY <1>4, <1>5, <1>10 DEF Reasoned
<1>13. ASSUME NEW f \in Equipment, NEW m \in Active(f), m # k PROVE m \in Active(f)'
  BY <1>10, <1>13 DEF Active
<1>14. ASSUME NEW f \in Equipment, f # e PROVE k \notin Active(f)
  BY <1>1, <1>2, <1>9, <1>14 DEF Active
<1>15. ASSUME NEW f \in Equipment, equipment'[f] = "non_conforming"
       PROVE  Active(f)' # {}
  <2>1. CASE f = e
    <3>1. equipment[e] = "non_conforming" /\ request[r].others
      BY <1>0, <1>3, <1>6, <1>15, <2>1 DEF SetEquipment, KeepsEquipment, Inv, TypeOK
    <3> QED
      BY <1>8, <1>9, <1>13, <2>1, <3>1
  <2>2. CASE f # e
    <3>1. equipment[f] = "non_conforming"
      BY <1>0, <1>3, <1>15, <2>2 DEF SetEquipment, KeepsEquipment, Inv, TypeOK
    <3>2. Active(f) # {}
      BY <3>1 DEF Reasoned, NonConformingHasReason
    <3> QED
      BY <1>13, <1>14, <2>2, <3>2
  <2> QED  BY <2>1, <2>2
<1>16. ASSUME NEW q \in Requests PROVE Asks(q)'
  <2>1. CASE q = r
    <3>1. request'[q] = Idle
      BY <1>0, <1>3, <2>1 DEF Become, Inv, TypeOK
    <3> QED
      BY <3>1 DEF Asks, Idle
  <2>2. CASE q # r
    <3>1. request'[q] = request[q] /\ Asks(q)
      BY <1>0, <1>3, <2>2 DEF Become, Inv, TypeOK, Reasoned
    <3>2. ASSUME request[q].phase = "closing", request[q].others
          PROVE  (\E m \in Active(Row(q).equipment) : m # request[q].nc)'
      <4>1. request[q].nc \in NCs /\ Row(q) = nc[request[q].nc] /\ Row(q) \in Rows
        BY <1>0, <3>2, ClosingRow
      <4>2. PICK f \in Equipment : f = Row(q).equipment
        BY <4>1 DEF Rows
      <4>3. f # e
        BY <1>7, <2>2, <3>2, <4>2
      <4>4. Row(q)'.equipment = f
        BY <1>11, <3>1, <4>1, <4>2, NoRowIsNone DEF Row
      <4>5. \E m \in Active(f) : m # request[q].nc
        BY <3>1, <3>2, <4>2 DEF Asks
      <4>6. \E m \in Active(f)' : m # request'[q].nc
        BY <1>13, <1>14, <3>1, <4>3, <4>5
      <4> QED
        BY <4>4, <4>6
    <3> QED
      BY <3>1, <3>2 DEF Asks
  <2> QED  BY <2>1, <2>2
<1> QED
  BY <1>12, <1>15, <1>16 DEF Reasoned, NonConformingHasReason

LEMMA CloseUpdateReasoned ==
    ASSUME Reasoned, Inv', NEW r \in Requests, CloseUpdate(r)
    PROVE  Reasoned'
<1>0. Inv
  BY DEF Reasoned
<1> DEFINE others == Active(Row(r).equipment) \ {request[r].nc} # {}
           q == [phase |-> "closing", nc |-> request[r].nc, row |-> request[r].row,
                 others |-> others]
<1>1. Become(r, q) /\ UNCHANGED <<nc, equipment>>
  BY DEF CloseUpdate
<1>2. request'[r] = q
  BY <1>0, <1>1 DEF Become, Inv, TypeOK
<1>3. q.phase = "closing" /\ q.nc = request[r].nc /\ q.others = others
  OBVIOUS
<1> HIDE DEF q
<1>4. Row(r)' = Row(r)
  BY <1>1, <1>2, <1>3 DEF Row
<1>5. others => \E m \in Active(Row(r).equipment) : m # request[r].nc
  OBVIOUS
<1> HIDE DEF others
<1>6. Asks(r)'
  <2>1. others => (\E m \in Active(Row(r).equipment) : m # request[r].nc)'
    BY <1>1, <1>2, <1>3, <1>4, <1>5 DEF Active
  <2> QED
    BY <1>2, <1>3, <2>1 DEF Asks
<1> QED
  BY <1>1, <1>6, QuietRequest

\* Steps that take a request further without a commit.
LEMMA ReadsReasoned ==
    ASSUME Reasoned, Inv', "removal" \notin Actors, NEW r \in Requests,
           \/ \E e \in Equipment : CreateRead(r, e) \/ CalibrationSelect(r, e)
           \/ \E n \in NCs, op \in Operations \ {"linkRepair"} : Load(r, n, op)
           \/ LinkLoad(r)
           \/ MarkLoad(r)
           \/ \E n \in NCs, p \in Repairs, completed \in BOOLEAN :
                  RepairCreate(r, n, p, completed)
           \/ \E p \in Repairs : RepairComplete(r, p)
           \/ Fail(r)
    PROVE  Reasoned'
<1>0. Inv
  BY DEF Reasoned
<1> DEFINE Harmless(q) ==
        /\ q.phase # "closing"
        /\ q.phase = "loaded" =>
               /\ q.op = "edit" => q.row.status # "closed"
               /\ q.op # "remove"
<1>1. UNCHANGED <<nc, equipment>>
  BY DEF CreateRead, CalibrationSelect, Load, LinkLoad, MarkLoad, RepairCreate,
     RepairComplete, Fail
<1>2. (\E q : Become(r, q) /\ Harmless(q)) \/ UNCHANGED request
  <2>1. ASSUME NEW e \in Equipment, CreateRead(r, e)
        PROVE  \E q : Become(r, q) /\ Harmless(q)
    <3>1. Become(r, [phase |-> "creating", equipment |-> e, previous |-> equipment[e]])
      BY <2>1 DEF CreateRead
    <3> QED  BY <3>1
  <2>2. ASSUME NEW e \in Equipment, CalibrationSelect(r, e)
        PROVE  \E q : Become(r, q) /\ Harmless(q)
    <3>1. PICK newer, fails, n :
              Become(r, [phase |-> "calibrating", equipment |-> e, nc |-> n,
                         newer |-> newer, fails |-> fails])
      BY <2>2, Zenon DEF CalibrationSelect
    <3> QED  BY <3>1
  <2>3. ASSUME NEW n \in NCs, NEW op \in Operations \ {"linkRepair"}, Load(r, n, op)
        PROVE  \E q : Become(r, q) /\ Harmless(q)
    <3>1. PICK row, version :
              /\ Allows(op, row)
              /\ Become(r, [phase |-> "loaded", op |-> op, nc |-> n, row |-> row,
                            version |-> version, repair |-> NoId, completed |-> FALSE])
      BY <2>3, Zenon DEF Load
    <3>2. (op = "edit" => row.status # "closed") /\ op # "remove"
      BY <3>1 DEF Allows
    <3> QED  BY <3>1, <3>2
  <2>4. ASSUME LinkLoad(r)
        PROVE  \E q : Become(r, q) /\ Harmless(q)
    <3>1. PICK row :
              Become(r, [phase |-> "loaded", op |-> "linkRepair", nc |-> request[r].nc,
                         row |-> row, version |-> row.version,
                         repair |-> request[r].repair, completed |-> request[r].completed])
      BY <2>4, Zenon DEF LinkLoad
    <3> QED  BY <3>1
  <2>5. ASSUME MarkLoad(r)
        PROVE  \E q : Become(r, q) /\ Harmless(q)
    <3>1. PICK row :
              Become(r, [phase |-> "loaded", op |-> "correct", nc |-> request[r].nc,
                         row |-> row, version |-> row.version, repair |-> NoId,
                         completed |-> FALSE])
      BY <2>5, Zenon DEF MarkLoad
    <3> QED  BY <3>1
  <2>6. ASSUME NEW n \in NCs, NEW p \in Repairs, NEW completed \in BOOLEAN,
               RepairCreate(r, n, p, completed)
        PROVE  \E q : Become(r, q) /\ Harmless(q)
    <3>1. Become(r, [phase |-> "linking", nc |-> n, repair |-> p, completed |-> completed])
      BY <2>6, Zenon DEF RepairCreate
    <3> QED  BY <3>1
  <2>7. ASSUME NEW p \in Repairs, RepairComplete(r, p)
        PROVE  (\E q : Become(r, q) /\ Harmless(q)) \/ UNCHANGED request
    <3>1. UNCHANGED request \/ \E n \in NCs : Become(r, [phase |-> "marking", nc |-> n])
      BY <2>7 DEF RepairComplete
    <3>2. \A n : Harmless([phase |-> "marking", nc |-> n])
      OBVIOUS
    <3> HIDE DEF Harmless
    <3> QED  BY <3>1, <3>2, Zenon
  <2>8. ASSUME Fail(r)
        PROVE  \E q : Become(r, q) /\ Harmless(q)
    <3>1. Become(r, Idle) /\ Harmless(Idle)
      BY <2>8 DEF Fail, Idle
    <3> HIDE DEF Harmless
    <3> QED  BY <3>1, Zenon
  <2> HIDE DEF Harmless
  <2> QED
    BY <2>1, <2>2, <2>3, <2>4, <2>5, <2>6, <2>7, <2>8, Zenon
<1>3. ASSUME NEW q, Become(r, q), Harmless(q) PROVE Reasoned'
  <2>1. request'[r] = q
    BY <1>0, <1>3 DEF Become, Inv, TypeOK
  <2>2. Asks(r)'
    BY <1>3, <2>1 DEF Asks
  <2> QED
    BY <1>1, <1>3, <2>2, QuietRequest
<1>4. CASE UNCHANGED request
  <2>1. Become(r, request[r])
    BY <1>0, <1>4 DEF Become, Inv, TypeOK
  <2>2. \A n \in NCs : StaysReason(n)
    BY <1>1 DEF Reasoned, StaysReason
  <2>3. Asks(r)'
    BY <1>0, <1>4, <2>2, AskedStays DEF Reasoned
  <2> QED
    BY <1>1, <2>1, <2>3, QuietRequest
<1> QED
  BY <1>2, <1>3, <1>4

LEMMA CreateReasoned ==
    ASSUME Reasoned, Inv', NEW r \in Requests, NEW n \in NCs, NEW type \in Types,
           CreateCommit(r, n, type)
    PROVE  Reasoned'
<1>1. PICK e : e = request[r].equipment
  OBVIOUS
<1>2. PICK row : row = OpenRow(e, type, request[r].previous, FALSE)
  OBVIOUS
<1>3. Insert(n, row) /\ SetEquipment(e, "non_conforming") /\ Become(r, Idle)
  BY <1>1, <1>2 DEF CreateCommit
<1>4. row.status = "open" /\ ~row.deleted /\ row.equipment = e
  BY <1>2 DEF OpenRow
<1>5. (\A m \in NCs : StaysReason(m)) /\ n \in Active(e)'
  BY <1>3, <1>4, OpensReasoned
<1>6. \A g \in Equipment : equipment'[g] = "non_conforming" =>
          equipment[g] = "non_conforming" \/ Active(g)' # {}
  BY <1>3, <1>5 DEF SetEquipment, Reasoned, Inv, TypeOK
<1> QED
  BY <1>3, <1>5, <1>6, EndsReasoned DEF Idle

\* An incident report and the scheduler open an NC, with or without the mark.
LEMMA ReportReasoned ==
    ASSUME Reasoned, Inv', NEW n \in NCs, NEW e \in Equipment, NEW row,
           Insert(n, row), row.status = "open", ~row.deleted, row.equipment = e,
           SetEquipment(e, "non_conforming") \/ KeepsEquipment, UNCHANGED request
    PROVE  Reasoned'
<1>0. Inv
  BY DEF Reasoned
<1>1. \A m \in NCs : StaysReason(m)
  BY OpensReasoned
<1>2. n \in Active(e)'
  <2>1. nc'[n] = row
    BY <1>0 DEF Insert, Inv, TypeOK
  <2> QED
    BY <2>1 DEF Active
<1>3. \A f \in Equipment : equipment'[f] = "non_conforming" =>
          equipment[f] = "non_conforming" \/ Active(f)' # {}
  BY <1>0, <1>2 DEF SetEquipment, KeepsEquipment, Inv, TypeOK
<1>4. \A r \in Requests : Asks(r)'
  BY <1>0, <1>1, AskedStays DEF Reasoned
<1> QED
  BY <1>1, <1>3, <1>4, ReasonsStay

\* A step that leaves records and requests alone, and marks nothing.
LEMMA NothingReasoned ==
    ASSUME Reasoned, Inv', UNCHANGED <<nc, request>>,
           \A e \in Equipment : equipment'[e] = "non_conforming" =>
               equipment[e] = "non_conforming"
    PROVE  Reasoned'
<1>1. \A n \in NCs : StaysReason(n)
  BY DEF Reasoned, StaysReason
<1>2. \A r \in Requests : Asks(r)'
  BY <1>1, AskedStays DEF Reasoned
<1> QED
  BY <1>1, <1>2, ReasonsStay

LEMMA EquipmentReasoned ==
    ASSUME Reasoned, Inv', NEW e \in Equipment, EquipmentStep(e)
    PROVE  Reasoned'
<1>0. Inv
  BY DEF Reasoned
<1>1. ASSUME NEW n \in NCs, NEW type \in Types, createIncidentHistory(e, n, type)
      PROVE  Reasoned'
  <2> DEFINE row == OpenRow(e, type, "none", FALSE)
  <2>1. /\ Insert(n, row) /\ UNCHANGED request
        /\ SetEquipment(e, "non_conforming") \/ KeepsEquipment
    BY <1>1 DEF createIncidentHistory
  <2>2. row.status = "open" /\ ~row.deleted /\ row.equipment = e
    BY DEF OpenRow
  <2> HIDE DEF row
  <2> QED
    BY <2>1, <2>2, ReportReasoned
<1>2. CASE ProcessOverdue(e)
  <2>1. CASE Open(e, "calibration_overdue") # {}
    BY <1>2, <2>1, NothingReasoned DEF ProcessOverdue, KeepsRows, KeepsEquipment
  <2>2. CASE Open(e, "calibration_overdue") = {}
    <3> DEFINE row == OpenRow(e, "calibration_overdue", scan[e], FALSE)
    <3>1. PICK n \in NCs : Insert(n, row)
      BY <1>2, <2>2 DEF ProcessOverdue
    <3>2. SetEquipment(e, "non_conforming") /\ UNCHANGED request
      BY <1>2, <2>2 DEF ProcessOverdue
    <3>3. row.status = "open" /\ ~row.deleted /\ row.equipment = e
      BY DEF OpenRow
    <3> HIDE DEF row
    <3> QED
      BY <3>1, <3>2, <3>3, ReportReasoned
  <2> QED  BY <2>1, <2>2
<1>3. CASE CalibrationFallsDue(e) \/ OverdueFails(e)
  BY <1>3, NothingReasoned DEF CalibrationFallsDue, OverdueFails
<1>4. CASE CheckOut(e) \/ ReturnApproved(e) \/ LenderReceives(e) \/ ReturnRejected(e)
  <2>1. /\ UNCHANGED <<nc, request>>
        /\ \E s \in {"checked_out", "available"} : SetEquipment(e, s) \/ KeepsEquipment
    BY <1>4 DEF CheckOut, ReturnApproved, LenderReceives, ReturnRejected
  <2>2. \A f \in Equipment : equipment'[f] = "non_conforming" =>
            equipment[f] = "non_conforming"
    BY <1>0, <2>1 DEF SetEquipment, KeepsEquipment, Inv, TypeOK
  <2> QED
    BY <2>1, <2>2, NothingReasoned
<1> QED
  BY <1>1, <1>2, <1>3, <1>4 DEF EquipmentStep

\* A calibration corrects an NC or records itself in one: neither ends a reason.
LEMMA CalibrationReasoned ==
    ASSUME Reasoned, Inv', NEW r \in Requests, CalibrationCommit(r)
    PROVE  Reasoned'
<1> DEFINE e        == request[r].equipment
           found    == {request[r].nc} \ {NoId}
           failures == IF request[r].fails THEN Open(e, "calibration_failure") ELSE {}
           calibrated(n) == [nc[n] EXCEPT !.status = "corrected", !.calibrated = TRUE,
                                          !.version = @ + 1]
           failed(n)     == [nc[n] EXCEPT !.calibrated = TRUE, !.version = @ + 1]
           marked   == [n \in NCs |-> IF n \in found THEN calibrated(n)
                                      ELSE IF n \in failures THEN failed(n) ELSE nc[n]]
           failure  == OpenRow(e, "calibration_failure", equipment[e], TRUE)
           Kept(n, row) == /\ row.equipment = nc[n].equipment
                           /\ ~row.deleted
                           /\ IsActive(nc[n]) => IsActive(row)
<1>0. Inv
  BY DEF Reasoned
<1>1. /\ \/ nc' = marked /\ (equipment' = equipment)
         \/ \E n \in NCs : /\ nc[n] = NoRow /\ nc' = [marked EXCEPT ![n] = failure]
                           /\ SetEquipment(e, "non_conforming") \/ equipment' = equipment
      /\ Become(r, Idle)
  <2> DEFINE opens == request[r].fails /\ failures = {}
  <2>1. /\ \/ ~opens /\ nc' = marked
           \/ opens /\ \E n \in NCs : nc[n] = NoRow /\ nc' = [marked EXCEPT ![n] = failure]
        /\ IF opens /\ equipment[e] # "non_conforming"
           THEN SetEquipment(e, "non_conforming") ELSE equipment' = equipment
        /\ Become(r, Idle)
    BY Zenon DEF CalibrationCommit
  <2> HIDE DEF opens, marked, failure
  <2> QED
    BY <2>1
<1>2. nc \in [NCs -> Rows \cup {NoRow}] /\ \A n \in NCs : ~nc[n].deleted
  BY <1>0 DEF Inv, TypeOK, Reasoned
<1>3. ASSUME NEW n \in found PROVE n \in NCs /\ nc[n] \in Rows
  <2>1. request[r] \in [phase : {"calibrating"}, equipment : Equipment,
                        nc : NCs \cup {NoId}, newer : BOOLEAN, fails : BOOLEAN]
    <3>1. request[r].phase = "calibrating"
      BY Zenon DEF CalibrationCommit
    <3>2. request[r] \in RequestStates
      BY <1>0 DEF Inv, TypeOK
    <3> QED
      BY <3>1, <3>2 DEF RequestStates, Idle
  <2>2. nc[n].type = "calibration_overdue" /\ n \in NCs
    BY <1>0, <2>1 DEF Inv, RequestsFit, Fits
  <2> QED
    BY <1>2, <2>2, NoRowIsNone
<1>4. ASSUME NEW n \in failures PROVE n \in NCs /\ nc[n] \in Rows
  BY <1>2, NoRowIsNone DEF Open
<1>5. ASSUME NEW n \in found PROVE Kept(n, calibrated(n))
  BY <1>2, <1>3 DEF Rows, IsActive
<1>6. ASSUME NEW n \in failures PROVE Kept(n, failed(n))
  BY <1>2, <1>4 DEF Rows, IsActive
<1>7. failure.status = "open" /\ ~failure.deleted /\ failure.equipment = e
  BY DEF OpenRow
<1> HIDE DEF calibrated, failed, failure, found, failures
<1>8. ASSUME NEW n \in NCs PROVE Kept(n, marked[n])
  BY <1>2, <1>5, <1>6
<1>9. DOMAIN marked = NCs
  OBVIOUS
<1> HIDE DEF marked, Kept
<1>10. CASE nc' = marked /\ equipment' = equipment
  <2>1. \A n \in NCs : StaysReason(n)
    BY <1>8, <1>10 DEF StaysReason, Kept
  <2> QED
    BY <1>1, <1>10, <2>1, EndsReasoned DEF Idle
<1>11. ASSUME NEW n \in NCs, nc[n] = NoRow, nc' = [marked EXCEPT ![n] = failure],
              SetEquipment(e, "non_conforming") \/ equipment' = equipment
       PROVE  Reasoned'
  <2>1. nc'[n] = failure /\ \A m \in NCs : m # n => nc'[m] = marked[m]
    BY <1>9, <1>11
  <2>2. ASSUME NEW m \in NCs PROVE StaysReason(m)
    <3>1. CASE m = n
      BY <1>7, <1>11, <2>1, <3>1, NoRowIsNone DEF StaysReason, IsActive
    <3>2. CASE m # n
      BY <1>8, <2>1, <3>2 DEF StaysReason, Kept
    <3> QED  BY <3>1, <3>2
  <2>3. PICK f : f = e
    OBVIOUS
  <2>4. n \in Active(f)'
    BY <1>7, <2>1, <2>3 DEF Active
  <2>5. \A g \in Equipment : equipment'[g] = "non_conforming" =>
            equipment[g] = "non_conforming" \/ Active(g)' # {}
    BY <1>0, <1>11, <2>3, <2>4 DEF SetEquipment, Inv, TypeOK
  <2> QED
    BY <1>1, <2>2, <2>5, EndsReasoned DEF Idle
<1> QED
  BY <1>1, <1>10, <1>11

LEMMA NextReasoned ==
    ASSUME Reasoned, "removal" \notin Actors, ClosingsApart, [Next]_vars
    PROVE  Reasoned'
<1>1. Inv'
  BY NextMoves DEF Reasoned
<1>2. ASSUME NEW r \in Requests, RequestStep(r) PROVE Reasoned'
  BY <1>1, <1>2, ReadsReasoned, CreateReasoned, CommitsReasoned, CloseUpdateReasoned,
     CloseReasoned, CalibrationReasoned DEF RequestStep
<1>3. ASSUME NEW e \in Equipment, EquipmentStep(e) PROVE Reasoned'
  BY <1>1, <1>3, EquipmentReasoned
<1>4. CASE (\E p \in Repairs : RepairReopen(p) \/ RepairRemove(p)) \/ Scan \/ UNCHANGED vars
  BY <1>1, <1>4, NothingReasoned DEF RepairReopen, RepairRemove, Scan, vars
<1>5. CASE Restart
  <2>1. request' = [r \in Requests |-> Idle] /\ UNCHANGED <<nc, equipment>>
    BY <1>5 DEF Restart
  <2>2. \A n \in NCs : StaysReason(n)
    BY <2>1 DEF Reasoned, StaysReason
  <2>3. \A r \in Requests : Asks(r)'
    BY <2>1 DEF Asks, Idle
  <2> QED
    BY <1>1, <2>1, <2>2, <2>3, ReasonsStay
<1> QED
  BY <1>2, <1>3, <1>4, <1>5 DEF Next

\* Equipment is left marked without a reason only by a removal, or by two closes
\* over it that are under way together: users, incidents, repairs, calibrations,
\* the scheduler and checkouts, with clients that send any version, know of no
\* third way.
THEOREM MarkHasReason ==
    ASSUME "removal" \notin Actors
    PROVE  Spec /\ []ClosingsApart => []NonConformingHasReason
<1>1. Init /\ Inv => Reasoned
  BY NoRowIsNone, StartAssumption
     DEF Init, Reasoned, NonConformingHasReason, Asks, Idle, NoRow
<1>2. Reasoned /\ ClosingsApart /\ [Next]_vars => Reasoned'
  BY NextReasoned
<1>3. Reasoned => NonConformingHasReason
  BY DEF Reasoned
<1> QED
  BY <1>1, <1>2, <1>3, SpecInv, PTL DEF Spec

-----------------------------------------------------------------------------
(* The ledger                                                               *)
(*                                                                          *)
(* With users, repairs and removals every commit enters in the ledger or    *)
(* nothing.  What a request has found is confirmed by its compare-and-set,  *)
(* so that it is as if it had looked when it committed; of a close, Marked  *)
(* says that no other NC came in between.                                   *)

LEMMA LedgerFields ==
    \A n \in NCs :
        /\ stateOf[n] = IF nc[n].deleted THEN "withdrawn" ELSE nc[n].status
        /\ aboutOf[n] = nc[n].equipment
        /\ notedOf[n] = nc[n].previous
        /\ "repair" \in hasOf[n] <=> nc[n].repair # NoId
        /\ "recalibration" \in hasOf[n] <=> nc[n].calibrated
        /\ needsOf[n] = IF nc[n] = NoRow THEN "none"
                        ELSE NC_CORRECTION_PREREQUISITES[nc[n].type]
BY DEF stateOf, aboutOf, notedOf, hasOf, needsOf

\* A step changes, of the ledger, what it changes of one row.
LEMMA OneLine ==
    ASSUME NEW n \in NCs, \A m \in NCs : m # n => nc'[m] = nc[m]
    PROVE  /\ stateOf' = [stateOf EXCEPT ![n] = stateOf'[n]]
           /\ aboutOf' = [aboutOf EXCEPT ![n] = nc'[n].equipment]
           /\ notedOf' = [notedOf EXCEPT ![n] = nc'[n].previous]
           /\ needsOf' = [needsOf EXCEPT ![n] = needsOf'[n]]
           /\ hasOf' = [hasOf EXCEPT ![n] = hasOf'[n]]
<1>1. /\ stateOf' = [stateOf EXCEPT ![n] = stateOf'[n]]
      /\ aboutOf' = [aboutOf EXCEPT ![n] = nc'[n].equipment]
      /\ notedOf' = [notedOf EXCEPT ![n] = nc'[n].previous]
  BY DEF stateOf, aboutOf, notedOf
<1>2. needsOf' = [needsOf EXCEPT ![n] = needsOf'[n]]
  BY DEF needsOf
<1>3. hasOf' = [hasOf EXCEPT ![n] = hasOf'[n]]
  <2> DEFINE has(row) == { remedy \in {"repair", "recalibration"} :
                              \/ remedy = "repair" /\ row.repair # NoId
                              \/ remedy = "recalibration" /\ row.calibrated }
  <2>1. hasOf = [m \in NCs |-> has(nc[m])] /\ hasOf' = [m \in NCs |-> has(nc'[m])]
    BY DEF hasOf
  <2> HIDE DEF has
  <2> QED
    BY <2>1
<1> QED
  BY <1>1, <1>2, <1>3

\* The lines of a row that keeps what they show.
LEMMA LinesKept ==
    ASSUME NEW n \in NCs, \A m \in NCs : m # n => nc'[m] = nc[m],
           nc[n] # NoRow, nc'[n] # NoRow
    PROVE  /\ nc'[n].status = nc[n].status /\ nc'[n].deleted = nc[n].deleted
                  => UNCHANGED stateOf
           /\ nc'[n].equipment = nc[n].equipment => UNCHANGED aboutOf
           /\ nc'[n].previous = nc[n].previous => UNCHANGED notedOf
           /\ nc'[n].type = nc[n].type => UNCHANGED needsOf
           /\ nc'[n].repair = nc[n].repair /\ nc'[n].calibrated = nc[n].calibrated
                  => UNCHANGED hasOf
<1>1. /\ nc'[n].status = nc[n].status /\ nc'[n].deleted = nc[n].deleted
             => UNCHANGED stateOf
      /\ nc'[n].equipment = nc[n].equipment => UNCHANGED aboutOf
      /\ nc'[n].previous = nc[n].previous => UNCHANGED notedOf
  BY DEF stateOf, aboutOf, notedOf
<1>2. nc'[n].type = nc[n].type => UNCHANGED needsOf
  BY DEF needsOf
<1>3. nc'[n].repair = nc[n].repair /\ nc'[n].calibrated = nc[n].calibrated
          => UNCHANGED hasOf
  <2> DEFINE has(repaired, calibrated) ==
                 { remedy \in {"repair", "recalibration"} :
                      \/ remedy = "repair" /\ repaired # NoId
                      \/ remedy = "recalibration" /\ calibrated }
  <2>1. /\ hasOf = [m \in NCs |-> has(nc[m].repair, nc[m].calibrated)]
        /\ hasOf' = [m \in NCs |-> has(nc'[m].repair, nc'[m].calibrated)]
    BY DEF hasOf
  <2> HIDE DEF has
  <2> QED
    BY <2>1
<1> QED
  BY <1>1, <1>2, <1>3

\* A commit writes the row it was given, with the next version.
LEMMA Rewritten ==
    ASSUME Inv, NEW n \in NCs, NEW row \in Rows, Write(n, row), nc[n] \in Rows,
           row.equipment = nc[n].equipment, row.previous = nc[n].previous,
           row.type = nc[n].type, row.calibrated = nc[n].calibrated
    PROVE  /\ \A m \in NCs : m # n => nc'[m] = nc[m]
           /\ nc'[n].repair = row.repair
           /\ stateOf' = [stateOf EXCEPT ![n] = IF row.deleted THEN "withdrawn"
                                                ELSE row.status]
           /\ UNCHANGED <<aboutOf, notedOf, needsOf>>
           /\ row.repair = nc[n].repair => UNCHANGED hasOf
           /\ row.status = nc[n].status /\ row.deleted = nc[n].deleted
                  => UNCHANGED stateOf
<1> DEFINE v == nc[n].version + 1
           next == [row EXCEPT !.version = v]
<1>1. nc' = [nc EXCEPT ![n] = next] /\ nc \in [NCs -> Rows \cup {NoRow}]
  BY DEF Write, Inv, TypeOK
<1>2. v \in Nat \ {0}
  BY DEF Rows
<1> HIDE DEF v
<1>3. /\ next \in Rows
      /\ next.status = row.status /\ next.repair = row.repair /\ next.type = row.type
      /\ next.equipment = row.equipment /\ next.previous = row.previous
      /\ next.calibrated = row.calibrated /\ next.deleted = row.deleted
  BY <1>2 DEF Rows
<1> HIDE DEF next
<1>4. nc'[n] = next /\ \A m \in NCs : m # n => nc'[m] = nc[m]
  BY <1>1
<1>5. nc[n] # NoRow /\ nc'[n] # NoRow
  BY <1>3, <1>4, NoRowIsNone
<1>6. stateOf'[n] = IF row.deleted THEN "withdrawn" ELSE row.status
  BY <1>3, <1>4 DEF stateOf
<1> QED
  BY <1>3, <1>4, <1>5, <1>6, OneLine, LinesKept

\* A correction, its rejection, and an edit, which enters nothing.
LEMMA StatusEntered ==
    ASSUME Marked, NEW r \in Requests, NEW op \in Operations, Matches(r, op),
           NEW status \in {"open", "corrected"},
           Write(request[r].nc, [Row(r) EXCEPT !.status = status]), UNCHANGED equipment
    PROVE  LET n == request[r].nc
           IN  /\ n \in NCs /\ stateOf[n] = Row(r).status
               /\ stateOf' = [stateOf EXCEPT ![n] = status]
               /\ UNCHANGED <<aboutOf, needsOf, hasOf, notedOf, equipment>>
               /\ status = Row(r).status => UNCHANGED stateOf
<1> DEFINE n == request[r].nc
           s == Row(r)
           t == [s EXCEPT !.status = status]
<1>0. Inv /\ Locked
  BY DEF Marked, Locked
<1>1. n \in NCs /\ s = nc[n] /\ s \in Rows /\ ~s.deleted
  BY <1>0, ConfirmedRow DEF Found
<1>2. Write(n, t)
  OBVIOUS
<1>3. /\ t \in Rows /\ t.status = status /\ t.repair = s.repair /\ t.type = s.type
      /\ t.equipment = s.equipment /\ t.previous = s.previous
      /\ t.calibrated = s.calibrated /\ t.deleted = s.deleted
  <2> HIDE DEF s
  <2> QED  BY <1>1 DEF Rows
<1> HIDE DEF t
<1>4. /\ \A m \in NCs : m # n => nc'[m] = nc[m]
      /\ stateOf' = [stateOf EXCEPT ![n] = status]
      /\ UNCHANGED <<aboutOf, notedOf, needsOf, hasOf>>
      /\ status = nc[n].status => UNCHANGED stateOf
  BY <1>0, <1>1, <1>2, <1>3, Rewritten
<1>5. stateOf[n] = s.status
  BY <1>1, LedgerFields
<1> QED
  BY <1>1, <1>4, <1>5

\* What the prerequisite asks of a row is what the ledger asks of a line.
LEMMA PrerequisiteEntered ==
    ASSUME NEW n \in NCs, nc[n] \in Rows, validateCorrectionPrerequisite(nc[n])
    PROVE  needsOf[n] \in hasOf[n] \cup {"none"}
<1> DEFINE needed == NC_CORRECTION_PREREQUISITES[nc[n].type]
<1>1. nc[n] # NoRow /\ nc[n].type \in AllTypes
  BY NoRowIsNone DEF Rows
<1>2. needed \in {"none", "repair", "recalibration"}
  BY <1>1 DEF AllTypes, NC_CORRECTION_PREREQUISITES
<1>3. /\ needed = "repair" => nc[n].repair # NoId
      /\ needed = "recalibration" => nc[n].calibrated
  BY DEF validateCorrectionPrerequisite
<1>4. needsOf[n] = needed
  BY <1>1, LedgerFields
<1> HIDE DEF needed
<1> QED
  BY <1>2, <1>3, <1>4, LedgerFields

LEMMA CommitsEntered ==
    ASSUME Marked, NEW r \in Requests,
           Edit(r) \/ Correct(r) \/ rejectCorrection(r) \/ remove(r) \/ LinkCommit(r)
    PROVE  [Ledger!Next]_(Ledger!vars)
<1> DEFINE n == request[r].nc
<1>0. Locked /\ Inv
  BY DEF Marked, Locked
<1>1. CASE Edit(r)
  <2>1. "edit" \in Operations /\ Matches(r, "edit") /\ UNCHANGED equipment
    BY <1>1 DEF Edit, Operations
  <2>2. request[r].row = Row(r) /\ Row(r) \in Rows /\ Row(r).status # "closed"
    BY <1>0, <2>1, ConfirmedRow DEF Found
  <2>3. Write(n, [Row(r) EXCEPT !.status = Row(r).status])
    BY <1>1, <2>2 DEF Edit
  <2>4. Row(r).status \in {"open", "corrected"}
    BY <2>2 DEF Rows
  <2>5. UNCHANGED <<stateOf, aboutOf, needsOf, hasOf, notedOf, equipment>>
    BY <2>1, <2>3, <2>4, StatusEntered
  <2> QED
    BY <2>5 DEF Ledger!vars
<1>2. CASE Correct(r)
  <2>1. /\ "correct" \in Operations /\ Matches(r, "correct") /\ UNCHANGED equipment
        /\ Write(n, [Row(r) EXCEPT !.status = "corrected"])
    BY <1>2 DEF Correct, Operations
  <2>2. /\ Row(r).status = "open" /\ n \in NCs /\ Row(r) = nc[n] /\ Row(r) \in Rows
        /\ validateCorrectionPrerequisite(Row(r))
    BY <1>0, <2>1, ConfirmedRow, MatchedRow DEF Found
  <2>3. needsOf[n] \in hasOf[n] \cup {"none"}
    BY <2>2, PrerequisiteEntered
  <2>4. /\ stateOf[n] = "open" /\ stateOf' = [stateOf EXCEPT ![n] = "corrected"]
        /\ UNCHANGED <<aboutOf, needsOf, hasOf, notedOf, equipment>>
    BY <2>1, <2>2, StatusEntered
  <2>5. Ledger!Correct(n)
    BY <2>3, <2>4 DEF Ledger!Correct, Ledger!Moves
  <2> QED
    BY <2>2, <2>5 DEF Ledger!Next
<1>3. CASE rejectCorrection(r)
  <2>1. /\ "rejectCorrection" \in Operations /\ Matches(r, "rejectCorrection")
        /\ Write(n, [Row(r) EXCEPT !.status = "open"]) /\ UNCHANGED equipment
    BY <1>3 DEF rejectCorrection, Operations
  <2>2. Row(r).status = "corrected" /\ n \in NCs
    BY <1>0, <2>1, ConfirmedRow DEF Found
  <2>3. /\ stateOf[n] = "corrected" /\ stateOf' = [stateOf EXCEPT ![n] = "open"]
        /\ UNCHANGED <<aboutOf, needsOf, hasOf, notedOf, equipment>>
    BY <2>1, <2>2, StatusEntered
  <2>4. Ledger!Reject(n)
    BY <2>3 DEF Ledger!Reject, Ledger!Moves
  <2> QED
    BY <2>2, <2>4 DEF Ledger!Next
<1>4. CASE remove(r)
  <2> DEFINE s == Row(r)
             t == [s EXCEPT !.deleted = TRUE]
  <2>1. /\ "remove" \in Operations /\ Matches(r, "remove") /\ Write(n, t)
        /\ UNCHANGED equipment
    BY <1>4 DEF remove, Operations
  <2>2. n \in NCs /\ s = nc[n] /\ s \in Rows /\ ~s.deleted
    BY <1>0, <2>1, ConfirmedRow DEF Found
  <2>3. /\ t \in Rows /\ t.deleted /\ t.repair = s.repair /\ t.type = s.type
        /\ t.equipment = s.equipment /\ t.previous = s.previous
        /\ t.calibrated = s.calibrated
    <3> HIDE DEF s
    <3> QED  BY <2>2 DEF Rows
  <2>4. s.status \in {"open", "corrected", "closed"}
    <3> HIDE DEF s
    <3> QED  BY <2>2 DEF Rows
  <2> HIDE DEF t
  <2>5. /\ stateOf' = [stateOf EXCEPT ![n] = "withdrawn"]
        /\ UNCHANGED <<aboutOf, notedOf, needsOf, hasOf>>
    BY <1>0, <2>1, <2>2, <2>3, Rewritten
  <2>6. stateOf[n] \in {"open", "corrected", "closed"}
    BY <2>2, <2>4, LedgerFields
  <2>7. Ledger!Withdraw(n)
    BY <2>1, <2>5, <2>6 DEF Ledger!Withdraw, Ledger!Moves
  <2> QED
    BY <2>2, <2>7 DEF Ledger!Next
<1>5. CASE LinkCommit(r)
  <2> DEFINE s == Row(r)
             p == request[r].repair
             t == [s EXCEPT !.repair = p]
  <2>1. /\ "linkRepair" \in Operations /\ Matches(r, "linkRepair") /\ Write(n, t)
        /\ UNCHANGED equipment
    BY <1>5 DEF LinkCommit, Operations
  <2>2. /\ n \in NCs /\ s = nc[n] /\ s \in Rows /\ s.status # "closed" /\ ~s.deleted
        /\ s.repair = NoId
        /\ p \in Repairs \cup {NoId}
    BY <1>0, <2>1, ConfirmedRow, MatchedRow DEF Found
  <2>3. /\ t \in Rows /\ t.status = s.status /\ t.repair = p /\ t.type = s.type
        /\ t.equipment = s.equipment /\ t.previous = s.previous
        /\ t.calibrated = s.calibrated /\ t.deleted = s.deleted
    <3> HIDE DEF s, p
    <3> QED  BY <2>2 DEF Rows
  <2>4. s.status \in {"open", "corrected"}
    <3> HIDE DEF s
    <3> QED  BY <2>2 DEF Rows
  <2> HIDE DEF t, p
  <2>5. /\ \A m \in NCs : m # n => nc'[m] = nc[m]
        /\ nc'[n].repair = p
        /\ UNCHANGED <<aboutOf, notedOf, needsOf, stateOf>>
        /\ p = nc[n].repair => UNCHANGED hasOf
    BY <1>0, <2>1, <2>2, <2>3, Rewritten
  <2>6. CASE p = NoId
    BY <2>1, <2>2, <2>5, <2>6 DEF Ledger!vars
  <2>7. CASE p # NoId
    <3>1. stateOf[n] \in {"open", "corrected"} /\ "repair" \notin hasOf[n]
      BY <2>2, <2>4, LedgerFields
    <3>2. hasOf' = [hasOf EXCEPT ![n] = hasOf[n] \cup {"repair"}]
      <4>1. nc'[n].calibrated = nc[n].calibrated
        <5>1. nc' = [nc EXCEPT ![n] = [t EXCEPT !.version = nc[n].version + 1]]
          BY <2>1 DEF Write
        <5> QED
          BY <1>0, <2>2, <2>3, <5>1 DEF Rows, Inv, TypeOK
      <4>2. hasOf'[n] = hasOf[n] \cup {"repair"}
        BY <2>2, <2>5, <2>7, <4>1 DEF hasOf
      <4> QED
        BY <2>2, <2>5, <4>2, OneLine
    <3>3. Ledger!Remedy(n, "repair")
      BY <2>1, <2>5, <3>1, <3>2 DEF Ledger!Remedy
    <3> QED
      BY <2>2, <3>3 DEF Ledger!Next
  <2> QED
    BY <2>6, <2>7
<1> QED
  BY <1>1, <1>2, <1>3, <1>4, <1>5

LEMMA CloseEntered ==
    ASSUME Marked, NEW r \in Requests, CloseCommit(r)
    PROVE  Ledger!Next
<1> DEFINE n == request[r].nc
           s == Row(r)
           t == [s EXCEPT !.status = "closed"]
           status == restoreStatus(s.previous)
<1>0. Locked /\ Inv /\ Undisturbed /\ OneActive /\ OpenIsMarked
  BY DEF Marked, Locked
<1>1. /\ request[r].phase = "closing" /\ n \in NCs /\ s = nc[n] /\ s \in Rows
      /\ request[r].row = s /\ s.status = "corrected" /\ ~s.deleted
      /\ ~request[r].others
  <2>1. request[r].phase = "closing"
    BY DEF CloseCommit
  <2>2. n \in NCs /\ s = nc[n] /\ s \in Rows
    BY <1>0, <2>1, ClosingRow
  <2>3. Held(request[r]) /\ Marks(r)
    BY DEF Marked, Locked
  <2> QED
    BY <2>1, <2>2, <2>3 DEF Held, Marks
<1>2. PICK e \in Equipment : e = s.equipment
  BY <1>1 DEF Rows
<1>3. equipment[e] = "non_conforming"
  BY <1>0, <1>1, <1>2 DEF Active, OpenIsMarked
<1>4. Write(n, t) /\ SetEquipment(e, status)
  BY <1>1, <1>2, <1>3 DEF CloseCommit
<1>5. /\ t \in Rows /\ t.status = "closed" /\ t.repair = s.repair /\ t.type = s.type
      /\ t.equipment = s.equipment /\ t.previous = s.previous
      /\ t.calibrated = s.calibrated /\ ~t.deleted
  <2> HIDE DEF s
  <2> QED  BY <1>1 DEF Rows
<1> HIDE DEF t
<1>6. /\ \A m \in NCs : m # n => nc'[m] = nc[m]
      /\ stateOf' = [stateOf EXCEPT ![n] = "closed"]
      /\ UNCHANGED <<aboutOf, notedOf, needsOf, hasOf>>
  BY <1>0, <1>1, <1>4, <1>5, Rewritten
<1>7. stateOf[n] = "corrected" /\ aboutOf[n] = e /\ notedOf[n] = s.previous
  BY <1>1, <1>2, LedgerFields
<1>8. equipment' = [equipment EXCEPT ![e] =
          IF notedOf[n] \in EXCLUDED_OVERDUE_EQUIPMENT_STATUSES \cup {"none"}
          THEN "available" ELSE notedOf[n]]
  BY <1>4, <1>7 DEF SetEquipment, restoreStatus
<1> HIDE DEF n, s
<1>9. Ledger!Close(n)
  BY <1>3, <1>6, <1>7, <1>8 DEF Ledger!Close, Ledger!Moves
<1> QED
  BY <1>1, <1>9 DEF Ledger!Next

LEMMA CreateEntered ==
    ASSUME Marked, NEW r \in Requests, NEW n \in NCs, NEW type \in Types,
           CreateCommit(r, n, type)
    PROVE  Ledger!Next
<1>0. Inv /\ Marks(r)
  BY DEF Marked, Locked
<1>1. /\ request[r].phase = "creating" /\ request[r].equipment \in Equipment
      /\ r \in fresh[request[r].equipment]
  BY <1>0 DEF CreateCommit, Inv, TypeOK, RequestStates, Idle
<1>2. PICK e \in Equipment : e = request[r].equipment
  BY <1>1
<1> DEFINE row == OpenRow(e, type, equipment[e], FALSE)
<1>3. equipment[e] # "non_conforming" /\ request[r].previous = equipment[e]
  BY <1>0, <1>1, <1>2 DEF Marks
<1>4. Insert(n, row) /\ SetEquipment(e, "non_conforming")
  BY <1>2, <1>3 DEF CreateCommit
<1>5. /\ row.status = "open" /\ row.equipment = e /\ row.previous = equipment[e]
      /\ row.repair = NoId /\ row.calibrated = FALSE /\ row.type = type
      /\ row.deleted = FALSE /\ row # NoRow
  BY DEF OpenRow, NoRow
<1> HIDE DEF row
<1>6. nc[n] = NoRow /\ nc'[n] = row /\ \A m \in NCs : m # n => nc'[m] = nc[m]
  BY <1>0, <1>4 DEF Insert, Inv, TypeOK
<1>7. /\ stateOf[n] = "none"
      /\ stateOf' = [stateOf EXCEPT ![n] = "open"]
      /\ aboutOf' = [aboutOf EXCEPT ![n] = e]
      /\ notedOf' = [notedOf EXCEPT ![n] = equipment[e]]
  <2>1. stateOf'[n] = "open" /\ stateOf[n] = "none"
    BY <1>5, <1>6 DEF stateOf, NoRow
  <2> QED
    BY <1>5, <1>6, <2>1, OneLine
<1>8. \E remedy \in {"none", "repair", "recalibration"} :
          needsOf' = [needsOf EXCEPT ![n] = remedy]
  <2>1. type \in AllTypes
    BY TypesAssumption
  <2>2. NC_CORRECTION_PREREQUISITES[type] \in {"none", "repair", "recalibration"}
    BY <2>1 DEF AllTypes, NC_CORRECTION_PREREQUISITES
  <2>3. needsOf'[n] = NC_CORRECTION_PREREQUISITES[type]
    BY <1>5, <1>6 DEF needsOf
  <2>4. needsOf' = [needsOf EXCEPT ![n] = needsOf'[n]]
    BY <1>6, OneLine
  <2> QED
    BY <2>2, <2>3, <2>4
<1>9. UNCHANGED hasOf
  <2>1. hasOf'[n] = hasOf[n]
    BY <1>5, <1>6 DEF hasOf, NoRow
  <2>2. hasOf' = [hasOf EXCEPT ![n] = hasOf'[n]] /\ hasOf = [m \in NCs |-> hasOf[m]]
    BY <1>6, OneLine DEF hasOf
  <2> QED
    BY <2>1, <2>2
<1>10. equipment' = [equipment EXCEPT ![e] = "non_conforming"]
  BY <1>4 DEF SetEquipment
<1>11. Ledger!Open(n, e)
  BY <1>3, <1>7, <1>8, <1>9, <1>10 DEF Ledger!Open
<1> QED
  BY <1>11 DEF Ledger!Next

LEMMA NothingEntered ==
    ASSUME UNCHANGED <<nc, equipment>>
    PROVE  UNCHANGED Ledger!vars
BY DEF Ledger!vars, stateOf, aboutOf, needsOf, hasOf, notedOf

LEMMA NextEntered ==
    ASSUME Calm, Marked, [Next]_vars
    PROVE  [Ledger!Next]_(Ledger!vars)
<1>0. Locked /\ Undisturbed
  BY DEF Marked
<1>1. ASSUME NEW r \in Requests, RequestStep(r) PROVE [Ledger!Next]_(Ledger!vars)
  <2>1. request[r].phase # "calibrating"
    BY <1>0 DEF Locked, Held
  <2>2. ~ CalibrationCommit(r)
    BY <2>1, Zenon DEF CalibrationCommit
  <2>3. CASE \/ \E e \in Equipment : CreateRead(r, e) \/ CalibrationSelect(r, e)
             \/ \E n \in NCs, op \in Operations \ {"linkRepair"} : Load(r, n, op)
             \/ CloseUpdate(r)
             \/ \E n \in NCs, p \in Repairs, completed \in BOOLEAN :
                    RepairCreate(r, n, p, completed)
             \/ LinkLoad(r)
             \/ MarkLoad(r)
             \/ \E p \in Repairs : RepairComplete(r, p)
             \/ Fail(r)
    BY <2>3, NothingEntered DEF CreateRead, CalibrationSelect, Load, CloseUpdate,
       RepairCreate, LinkLoad, MarkLoad, RepairComplete, Fail
  <2>4. CASE CloseCommit(r) \/ \E n \in NCs, type \in Types : CreateCommit(r, n, type)
    BY <2>4, CloseEntered, CreateEntered
  <2> QED
    BY <1>1, <2>2, <2>3, <2>4, CommitsEntered DEF RequestStep
<1>2. ASSUME NEW e \in Equipment PROVE ~ EquipmentStep(e)
  <2>1. Actors \cap {"incident", "scheduler", "checkout"} = {}
    BY DEF Calm
  <2>2. scan[e] = "none" /\ custody[e] = "home"
    BY <1>0 DEF Undisturbed
  <2> QED
    BY <2>1, <2>2 DEF EquipmentStep, createIncidentHistory, CalibrationFallsDue,
       ProcessOverdue, OverdueFails, CheckOut, ReturnApproved, LenderReceives, ReturnRejected
<1>3. CASE (\E p \in Repairs : RepairReopen(p) \/ RepairRemove(p)) \/ Scan \/ Restart
           \/ UNCHANGED vars
  BY <1>3, NothingEntered DEF RepairReopen, RepairRemove, Scan, Restart, vars
<1> QED
  BY <1>1, <1>2, <1>3 DEF Next

\* The service with its cache, versions, transactions and the three writes of a
\* repair implements the ledger: equipment is taken out of use and given back
\* with the status it had, each in one step, and entries never overlap.
THEOREM RecordsAreALedger ==
    ASSUME Calm
    PROVE  Spec => KeepsLedger
<1>1. Init => Ledger!Init
  BY DEF Init, Ledger!Init, stateOf, aboutOf, needsOf, hasOf, notedOf, NoRow
<1>2. Marked /\ [Next]_vars => [Ledger!Next]_(Ledger!vars)
  BY NextEntered
<1> QED
  BY <1>1, <1>2, SpecMarked, PTL DEF Spec, KeepsLedger, Ledger!Spec

=============================================================================
