-------------------------- MODULE EquipmentImportProofs --------------------------
(***************************************************************************)
(* The return of borrowed equipment, for any number of imports, checkouts  *)
(* and concurrent requests: its saga of separate commits behaves as if the *)
(* import were locked.                                                     *)
(*                                                                         *)
(* The lock is the claim.  A request that claimed an import finds it, at   *)
(* each of its later steps, with the version it gave it and no checkout    *)
(* linked: no other request may claim it, and listener and scheduler look  *)
(* for imports by their link or compare a version that is older.  So its   *)
(* compare-and-sets never miss, and the checkouts of an import that are    *)
(* not turned down are at most one: the one the request has created, or    *)
(* the one the import is linked to.                                        *)
(***************************************************************************)
EXTENDS EquipmentImport, TemporaryNumberProofs, FiniteSetTheorems

-----------------------------------------------------------------------------
(* The inductive invariant *)

\* The types but those of the numbers and of what the saga has kept, which follow
\* at the end and on which nothing before depends.
Typed ==
    /\ import \in [Imports -> ImportRows \cup {NoImport}]
    /\ equipment \in [Imports -> EquipmentStatuses]
    /\ checkout \in [Checkouts -> CheckoutRows \cup {NoCheckout}]
    /\ request \in [Requests -> RequestStates]
    /\ event \in [Checkouts -> EventStates]
    /\ scan \in [Imports -> ScanStates]
    /\ lent \subseteq Imports

\* The checkouts of an import that were not canceled or rejected.
Live(i) ==
    { c \in Checkouts : /\ checkout[c].import = i
                        /\ checkout[c].status \in {"pending", "out", "return_approved"} }

\* A request holds its import as it claimed it, and has created what is live.
HoldsClaim(i, req) ==
    /\ import[i].status = "return_requested"
    /\ import[i].link = NoId
    /\ import[i].version = req.version
    /\ req.phase # "created" => Live(i) = {}
    /\ req.phase = "created" => /\ checkout[req.checkout].import = i
                                /\ Live(i) \subseteq {req.checkout}

ClaimFits(i) ==
    /\ \A r \in InFlight(i) : HoldsClaim(i, request[r])
    /\ \A q, r \in InFlight(i) : q = r

\* What the row of an import says of its checkouts.
RowFits(i) ==
    /\ \A c, d \in Live(i) : c = d
    /\ Live(i) # {} => import[i].status \in {"return_requested", "returned"}
    /\ import[i].link # NoId =>
           /\ import[i].status \in {"return_requested", "returned"}
           /\ checkout[import[i].link].import = i
           /\ Live(i) \subseteq {import[i].link}
    /\ import[i].status = "returned" =>
           /\ import[i].link # NoId
           /\ checkout[import[i].link].status = "return_approved"

\* An import waits for a return only as long as somebody carries it out.
OrphanFits(i) ==
    import[i].status = "return_requested" /\ import[i].link = NoId
        => faulty \/ InFlight(i) # {}

\* Equipment that is out for another purpose has no return under way.
Out == {"checked_out", "non_conforming"}

LentFits(i) ==
    /\ equipment[i] # "none" \/ i \in lent =>
           import[i].status \in {"received", "return_requested", "returned"}
    /\ i \in lent =>
           /\ InProgress(i) = {}
           /\ \A r \in InFlight(i) : request[r].phase # "checked"
    /\ i \in lent /\ ~faulty /\ import[i].status # "returned" =>
           IF i \in kept
           THEN \E r \in InFlight(i) : /\ request[r].phase \in {"prepared", "restoring"}
                                       /\ request[r].previous \in Out
           ELSE equipment[i] \in Out

ImportFits(i) == ClaimFits(i) /\ RowFits(i) /\ OrphanFits(i) /\ LentFits(i)

\* What the listener and the scheduler have read is older, or still so.
EventFits(c) ==
    event[c].phase = "read" =>
        /\ event[c].version <= import[event[c].import].version
        /\ event[c].version = import[event[c].import].version =>
               import[event[c].import].link = c

EventsFit == \A c \in Checkouts : EventFits(c)

ScanFits(i) ==
    scan[i] # Idle =>
        /\ checkout[scan[i].checkout].status \in DOMAIN Ends
        /\ scan[i].version <= import[i].version
        /\ scan[i].version = import[i].version => import[i].link = scan[i].checkout

ScansFit == \A i \in Imports : ScanFits(i)

Inv ==
    /\ Typed
    /\ \A i \in Imports : ImportFits(i)
    /\ EventsFit
    /\ ScansFit

-----------------------------------------------------------------------------
(* Rows and requests *)

LEMMA NoImportIsNone ==
    /\ NoImport \notin ImportRows
    /\ NoImport.status = "none" /\ NoImport.link = NoId /\ NoImport.version = 0
BY DEF NoImport, ImportRows, ImportStatuses

LEMMA ImportIs ==
    ASSUME Inv, NEW i \in Imports
    PROVE  /\ import[i].status # "none" => import[i] \in ImportRows
           /\ import[i].link \in Checkouts \cup {NoId}
           /\ import[i].version \in Nat
<1>1. import[i] \in ImportRows \cup {NoImport}
  BY DEF Inv, Typed
<1> QED
  BY <1>1, NoImportIsNone DEF ImportRows

LEMMA Written ==
    ASSUME Inv, NEW i \in Imports, import[i] \in ImportRows,
           NEW status \in ImportStatuses, NEW link \in Checkouts \cup {NoId},
           Write(i, status, link)
    PROVE  /\ import' \in [Imports -> ImportRows \cup {NoImport}]
           /\ import'[i] \in ImportRows
           /\ import'[i].status = status
           /\ import'[i].link = link
           /\ import'[i].version = import[i].version + 1
           /\ import'[i].version > import[i].version
           /\ \A j \in Imports \ {i} : import'[j] = import[j]
<1> DEFINE row == import[i]
           a == [row EXCEPT !.status = status]
           b == [a EXCEPT !.link = link]
           v == row.version + 1
           next == [b EXCEPT !.version = v]
<1>1. import' = [import EXCEPT ![i] = next] /\ row \in ImportRows
  BY DEF Write
<1>2. import \in [Imports -> ImportRows \cup {NoImport}]
  BY DEF Inv, Typed
<1> HIDE DEF row
<1>3. v \in Nat \ {0} /\ v > row.version
  BY <1>1 DEF ImportRows
<1>4. a \in ImportRows /\ a.status = status
  BY <1>1 DEF ImportRows
<1> HIDE DEF a, v
<1>5. b \in ImportRows /\ b.status = status /\ b.link = link
  BY <1>4 DEF ImportRows
<1> HIDE DEF b
<1>6. /\ next \in ImportRows /\ next.status = status /\ next.link = link
      /\ next.version = v
  BY <1>3, <1>5 DEF ImportRows
<1> HIDE DEF next
<1>7. import'[i] = next /\ \A j \in Imports \ {i} : import'[j] = import[j]
  BY <1>1, <1>2
<1>8. import' \in [Imports -> ImportRows \cup {NoImport}]
  BY <1>1, <1>2, <1>6
<1> QED
  BY <1>3, <1>6, <1>7, <1>8 DEF row, v

\* The request that claimed an import is the only one in flight on it.
LEMMA Sole ==
    ASSUME Inv, NEW r \in Requests, request[r] # Idle
    PROVE  /\ request[r].import \in Imports
           /\ import[request[r].import] \in ImportRows
           /\ HoldsClaim(request[r].import, request[r])
           /\ InFlight(request[r].import) = {r}
<1>1. request[r].import \in Imports
  BY DEF Inv, Typed, RequestStates
<1>2. r \in InFlight(request[r].import)
  BY DEF InFlight
<1>3. HoldsClaim(request[r].import, request[r]) /\ InFlight(request[r].import) = {r}
  BY <1>1, <1>2 DEF Inv, ImportFits, ClaimFits
<1>4. import[request[r].import] \in ImportRows
  BY <1>1, <1>3, ImportIs DEF HoldsClaim
<1> QED
  BY <1>1, <1>3, <1>4

-----------------------------------------------------------------------------
(* A step is about one import: the others keep what fits them. *)

Touches(i) ==
    /\ \A j \in Imports \ {i} :
           /\ import'[j] = import[j]
           /\ equipment'[j] = equipment[j]
           /\ j \in kept' <=> j \in kept
           /\ j \in lent' <=> j \in lent
    /\ \A c \in Checkouts :
           \/ checkout'[c] = checkout[c]
           \/ checkout[c].import \in {i, NoId} /\ checkout'[c].import = i
    /\ \A r \in Requests :
           \/ request'[r] = request[r]
           \/ /\ request[r] = Idle \/ request[r].import = i
              /\ request'[r] = Idle \/ request'[r].import = i
    /\ faulty => faulty'

LEMMA OthersFit ==
    ASSUME Inv, NEW i \in Imports, Touches(i), NEW j \in Imports, j # i
    PROVE  ImportFits(j)'
<1>1. /\ import'[j] = import[j]
      /\ equipment'[j] = equipment[j]
      /\ j \in kept' <=> j \in kept
      /\ j \in lent' <=> j \in lent
      /\ faulty => faulty'
  BY DEF Touches
<1>2. \A c \in Checkouts :
          \/ checkout'[c] = checkout[c]
          \/ checkout[c].import # j /\ checkout'[c].import # j
  BY NoIdAssumption DEF Touches
<1>3. Live(j)' = Live(j) /\ InProgress(j)' = InProgress(j)
  BY <1>2 DEF Live, InProgress
<1>4. InFlight(j)' = InFlight(j) /\ \A r \in InFlight(j) : request'[r] = request[r]
  BY DEF InFlight, Touches
<1>5. ImportFits(j)
  BY DEF Inv
<1>6. ClaimFits(j)'
  <2>1. ASSUME NEW r \in InFlight(j) PROVE HoldsClaim(j, request[r])'
    <3>1. HoldsClaim(j, request[r]) /\ request'[r] = request[r]
      BY <1>4, <1>5, <2>1 DEF ImportFits, ClaimFits
    <3>2. request[r].phase = "created" => request[r].checkout \in Checkouts
      BY <2>1 DEF InFlight, Inv, Typed, RequestStates, Idle
    <3>3. request[r].phase = "created" =>
              checkout'[request[r].checkout].import = j
      BY <1>2, <3>1, <3>2 DEF HoldsClaim
    <3> QED
      BY <1>1, <1>3, <3>1, <3>3 DEF HoldsClaim
  <2> QED
    BY <1>4, <1>5, <2>1 DEF ImportFits, ClaimFits
<1>7. RowFits(j)'
  <2>1. RowFits(j) /\ import[j].link \in Checkouts \cup {NoId}
    BY <1>5, ImportIs DEF ImportFits
  <2>2. import[j].link # NoId =>
            checkout'[import[j].link] = checkout[import[j].link]
    BY <1>2, <2>1 DEF RowFits
  <2> QED
    BY <1>1, <1>3, <2>1, <2>2 DEF RowFits
<1>8. OrphanFits(j)' /\ LentFits(j)'
  BY <1>1, <1>3, <1>4, <1>5 DEF ImportFits, OrphanFits, LentFits
<1> QED
  BY <1>6, <1>7, <1>8 DEF ImportFits

\* Rows only get later, and checkouts that have ended stay as they ended.
Later ==
    /\ \A i \in Imports : \/ import'[i] = import[i]
                          \/ import'[i].version > import[i].version
    /\ import' \in [Imports -> ImportRows \cup {NoImport}]
    /\ \A c \in Checkouts :
           checkout[c].status \in DOMAIN Ends => checkout'[c] = checkout[c]

LEMMA EventStays ==
    ASSUME Inv, Later, NEW c \in Checkouts, event'[c] = event[c]
    PROVE  EventFits(c)'
<1> SUFFICES ASSUME event[c].phase = "read" PROVE EventFits(c)'
  BY DEF EventFits
<1> DEFINE i == event[c].import
<1>1. i \in Imports /\ event[c].version \in Nat
  <2>1. event[c] \in EventStates
    BY DEF Inv, Typed
  <2> QED
    BY <2>1 DEF EventStates, Idle
<1>2. EventFits(c)
  BY DEF Inv, EventsFit
<1>3. import[i].version \in Nat /\ import'[i].version \in Nat
  BY <1>1, NoImportIsNone DEF Inv, Typed, Later, ImportRows
<1>4. import'[i] = import[i] \/ import'[i].version > import[i].version
  BY <1>1 DEF Later
<1> QED
  BY <1>1, <1>2, <1>3, <1>4 DEF EventFits

LEMMA ScanStays ==
    ASSUME Inv, Later, NEW i \in Imports, scan'[i] = scan[i]
    PROVE  ScanFits(i)'
<1> SUFFICES ASSUME scan[i] # Idle PROVE ScanFits(i)'
  BY DEF ScanFits
<1>1. scan[i].checkout \in Checkouts /\ scan[i].version \in Nat
  <2>1. scan[i] \in ScanStates
    BY DEF Inv, Typed
  <2> QED
    BY <2>1 DEF ScanStates
<1>2. ScanFits(i)
  BY DEF Inv, ScansFit
<1>3. import[i].version \in Nat /\ import'[i].version \in Nat
  BY NoImportIsNone DEF Inv, Typed, Later, ImportRows
<1>4. import'[i] = import[i] \/ import'[i].version > import[i].version
  BY DEF Later
<1>5. checkout'[scan[i].checkout] = checkout[scan[i].checkout]
  BY <1>1, <1>2 DEF Later, ScanFits
<1> QED
  BY <1>1, <1>2, <1>3, <1>4, <1>5 DEF ScanFits

LEMMA Assembled ==
    ASSUME Inv, NEW i \in Imports, Touches(i), Later, Typed', ImportFits(i)',
           \A c \in Checkouts : event'[c] = event[c] \/ event'[c].phase # "read",
           \A j \in Imports : scan'[j] = scan[j] \/ scan'[j] = Idle
    PROVE  Inv'
<1>1. ASSUME NEW j \in Imports PROVE ImportFits(j)'
  BY OthersFit
<1>2. ASSUME NEW c \in Checkouts PROVE EventFits(c)'
  <2>1. CASE event'[c] = event[c]
    BY <2>1, EventStays
  <2>2. CASE event'[c].phase # "read"
    BY <2>2 DEF EventFits
  <2> QED
    BY <2>1, <2>2
<1>3. ASSUME NEW j \in Imports PROVE ScanFits(j)'
  <2>1. CASE scan'[j] = scan[j]
    BY <2>1, ScanStays
  <2>2. CASE scan'[j] = Idle
    BY <2>2 DEF ScanFits
  <2> QED
    BY <2>1, <2>2
<1> QED
  BY <1>1, <1>2, <1>3 DEF Inv, EventsFit, ScansFit

LEMMA Acted ==
    ASSUME Inv, NEW r \in Requests, NEW q \in RequestStates, Become(r, q)
    PROVE  /\ request' \in [Requests -> RequestStates]
           /\ request'[r] = q
           /\ \A p \in Requests \ {r} : request'[p] = request[p]
BY DEF Inv, Typed, Become

LEMMA SameCheckouts ==
    ASSUME UNCHANGED checkout, NEW i \in Imports
    PROVE  Live(i)' = Live(i) /\ InProgress(i)' = InProgress(i)
BY DEF Live, InProgress

LEMMA SameRequests ==
    ASSUME UNCHANGED request, NEW i \in Imports
    PROVE  InFlight(i)' = InFlight(i)
BY DEF InFlight

\* What a step of a request that holds a claim leaves in flight.
LEMMA Holds ==
    ASSUME Inv, NEW r \in Requests, request[r] # Idle, NEW i \in Imports,
           request[r].import = i, NEW q \in RequestStates, Become(r, q)
    PROVE  /\ q # Idle /\ q.import = i => InFlight(i)' = {r}
           /\ q = Idle => InFlight(i)' = {}
<1>1. InFlight(i) = {r}
  BY Sole
<1>2. request'[r] = q /\ \A p \in Requests \ {r} : request'[p] = request[p]
  BY Acted
<1>3. ASSUME NEW p \in Requests \ {r}
      PROVE  ~ (request'[p] # Idle /\ request'[p].import = i)
  BY <1>1, <1>2 DEF InFlight
<1> QED
  BY <1>2, <1>3 DEF InFlight

\* A step of a request that has not created its checkout, and does not create it.
LEMMA Steered ==
    ASSUME Inv, NEW r \in Requests, request[r] # Idle, NEW i \in Imports,
           request[r].import = i, request[r].phase # "created",
           NEW q \in RequestStates, Become(r, q), q # Idle, q.import = i,
           q.version = request[r].version, q.phase # "created",
           UNCHANGED <<import, lent, checkout, event, scan>>,
           equipment' \in [Imports -> EquipmentStatuses],
           \A j \in Imports \ {i} : equipment'[j] = equipment[j],
           \A j \in Imports \ {i} : j \in kept' <=> j \in kept,
           faulty => faulty',
           LentFits(i)'
    PROVE  Inv'
<1>1. /\ HoldsClaim(i, request[r]) /\ ImportFits(i)
      /\ InFlight(i)' = {r} /\ request'[r] = q
      /\ Live(i)' = Live(i)
  BY Sole, Acted, Holds, SameCheckouts DEF Inv
<1>2. ClaimFits(i)'
  BY <1>1 DEF ClaimFits, HoldsClaim
<1>3. RowFits(i)' /\ OrphanFits(i)'
  BY <1>1 DEF ImportFits, RowFits, OrphanFits
<1>4. ImportFits(i)'
  BY <1>2, <1>3 DEF ImportFits
<1>5. Typed'
  BY Acted DEF Inv, Typed
<1>6. Touches(i) /\ Later
  BY Acted DEF Touches, Later, Inv, Typed
<1> QED
  BY <1>4, <1>5, <1>6, Assembled

LEMMA SetAvailablePreserves ==
    ASSUME Inv, NEW r \in Requests, SetAvailable(r)
    PROVE  Inv'
<1>1. request[r] # Idle /\ request[r].phase = "claimed"
  BY DEF SetAvailable, Idle
<1>2. PICK i \in Imports : request[r].import = i
  BY <1>1, Sole
<1> DEFINE q == [phase |-> "prepared", import |-> i, version |-> request[r].version,
                 previous |-> equipment[i]]
<1>3. /\ Become(r, q) /\ equipment' = [equipment EXCEPT ![i] = "available"]
      /\ kept' = kept \cup {i}
      /\ UNCHANGED <<import, lent, checkout, event, scan, faulty>>
  BY <1>2 DEF SetAvailable
<1>4. request[r].version \in Nat /\ equipment \in [Imports -> EquipmentStatuses]
  BY <1>1 DEF Inv, Typed, RequestStates, Idle
<1>5. q \in RequestStates /\ q # Idle
  BY <1>4 DEF RequestStates, Idle
<1>6. q.phase = "prepared" /\ q.version = request[r].version /\ q.previous = equipment[i]
      /\ q.import = i
  OBVIOUS
<1> HIDE DEF q
<1>7. LentFits(i)'
  <2>1. /\ LentFits(i) /\ HoldsClaim(i, request[r]) /\ InFlight(i) = {r}
        /\ InFlight(i)' = {r} /\ request'[r] = q
        /\ InProgress(i)' = InProgress(i)
    BY <1>1, <1>2, <1>3, <1>5, <1>6, Sole, Acted, Holds, SameCheckouts
       DEF Inv, ImportFits
  <2>2. i \in lent /\ ~faulty => i \notin kept /\ equipment[i] \in Out
    BY <1>1, <2>1 DEF LentFits, HoldsClaim
  <2> QED
    BY <1>3, <1>6, <2>1, <2>2 DEF LentFits, HoldsClaim
<1> QED
  BY <1>1, <1>2, <1>3, <1>4, <1>5, <1>6, <1>7, Steered DEF EquipmentStatuses

\* Steps of a request that write no row.
LEMMA Passed ==
    ASSUME Inv, NEW r \in Requests, request[r] # Idle, NEW i \in Imports,
           request[r].import = i, NEW q \in RequestStates, Become(r, q), q # Idle,
           q.import = i, q.version = request[r].version,
           request[r].phase # "created", q.phase # "created",
           q.phase = "checked" => i \notin lent,
           \/ request[r].phase \notin {"prepared", "restoring"}
           \/ faulty'
           \/ q.phase \in {"prepared", "restoring"} /\ q.previous = request[r].previous
           \/ i \notin lent
           \/ i \notin kept,
           UNCHANGED <<import, equipment, kept, lent, checkout, event, scan>>,
           faulty => faulty'
    PROVE  Inv'
<1>1. /\ LentFits(i) /\ InFlight(i) = {r} /\ InFlight(i)' = {r} /\ request'[r] = q
      /\ InProgress(i)' = InProgress(i)
  BY Sole, Acted, Holds, SameCheckouts DEF Inv, ImportFits
<1>2. LentFits(i)'
  BY <1>1 DEF LentFits
<1> QED
  BY <1>2, Steered DEF Inv, Typed

LEMMA SetAvailableFailsPreserves ==
    ASSUME Inv, NEW r \in Requests, SetAvailableFails(r)
    PROVE  Inv'
<1>1. request[r] # Idle /\ request[r].phase = "claimed"
  BY DEF SetAvailableFails, Idle
<1>2. PICK i \in Imports : request[r].import = i
  BY <1>1, Sole
<1> DEFINE q == [request[r] EXCEPT !.phase = "undoing"]
<1>3. request[r] \in [phase : {"claimed", "undoing"}, import : Imports, version : Nat]
  BY <1>1 DEF Inv, Typed, RequestStates, Idle
<1>4. /\ q \in [phase : {"claimed", "undoing"}, import : Imports, version : Nat]
      /\ q.import = i /\ q.version = request[r].version /\ q.phase = "undoing"
  BY <1>2, <1>3
<1>5. Become(r, q) /\ UNCHANGED <<import, equipment, kept, lent, checkout, event, scan, faulty>>
  BY DEF SetAvailableFails
<1> HIDE DEF q
<1>6. q \in RequestStates /\ q # Idle
  BY <1>4 DEF RequestStates, Idle
<1> QED
  BY <1>1, <1>2, <1>4, <1>5, <1>6, Passed

LEMMA Preparing ==
    ASSUME Inv, NEW r \in Requests,
           request[r].phase \in {"prepared", "checked", "restoring"}
    PROVE  /\ request[r] # Idle
           /\ request[r] \in [phase : {"prepared", "checked", "restoring"},
                              import : Imports, version : Nat,
                              previous : EquipmentStatuses]
BY DEF Inv, Typed, RequestStates, Idle

LEMMA CheckActivePreserves ==
    ASSUME Inv, NEW r \in Requests, CheckActive(r)
    PROVE  Inv'
<1>1. request[r].phase = "prepared"
  BY DEF CheckActive
<1>2. /\ request[r] # Idle
      /\ request[r] \in [phase : {"prepared", "checked", "restoring"}, import : Imports,
                         version : Nat, previous : EquipmentStatuses]
  BY <1>1, Preparing
<1>3. PICK i \in Imports : request[r].import = i
  BY <1>2
<1> DEFINE q == [request[r] EXCEPT !.phase = "checked"]
<1>4. /\ q \in [phase : {"prepared", "checked", "restoring"}, import : Imports,
                version : Nat, previous : EquipmentStatuses]
      /\ q.import = i /\ q.version = request[r].version /\ q.phase = "checked"
  BY <1>2, <1>3
<1>5. /\ Become(r, q) /\ i \notin lent
      /\ UNCHANGED <<import, equipment, kept, lent, checkout, event, scan, faulty>>
  BY <1>3 DEF CheckActive
<1> HIDE DEF q
<1>6. q \in RequestStates /\ q # Idle
  BY <1>4 DEF RequestStates, Idle
<1> QED
  BY <1>1, <1>2, <1>3, <1>4, <1>5, <1>6, Passed

LEMMA CreateFailsPreserves ==
    ASSUME Inv, NEW r \in Requests, CreateFails(r)
    PROVE  Inv'
<1>1. request[r].phase \in {"prepared", "checked"}
  BY DEF CreateFails
<1>2. /\ request[r] # Idle
      /\ request[r] \in [phase : {"prepared", "checked", "restoring"}, import : Imports,
                         version : Nat, previous : EquipmentStatuses]
  BY <1>1, Preparing
<1>3. PICK i \in Imports : request[r].import = i
  BY <1>2
<1> DEFINE q == [request[r] EXCEPT !.phase = "restoring"]
<1>4. /\ q \in [phase : {"prepared", "checked", "restoring"}, import : Imports,
                version : Nat, previous : EquipmentStatuses]
      /\ q.import = i /\ q.version = request[r].version /\ q.phase = "restoring"
      /\ q.previous = request[r].previous
  BY <1>2, <1>3
<1>5. /\ Become(r, q)
      /\ UNCHANGED <<import, equipment, kept, lent, checkout, event, scan, faulty>>
  BY DEF CreateFails
<1> HIDE DEF q
<1>6. q \in RequestStates /\ q # Idle
  BY <1>4 DEF RequestStates, Idle
<1> QED
  BY <1>1, <1>2, <1>3, <1>4, <1>5, <1>6, Passed

LEMMA UndoingIs ==
    ASSUME Inv, NEW r \in Requests, request[r].phase = "restoring", NEW i \in Imports,
           request[r].import = i
    PROVE  /\ Undoing(r) \in RequestStates /\ Undoing(r) # Idle
           /\ Undoing(r).phase = "undoing" /\ Undoing(r).import = i
           /\ Undoing(r).version = request[r].version
<1>1. request[r].version \in Nat
  BY Preparing
<1> QED
  BY <1>1 DEF Undoing, RequestStates, Idle

LEMMA RestoreEquipmentPreserves ==
    ASSUME Inv, NEW r \in Requests, RestoreEquipment(r)
    PROVE  Inv'
<1>1. request[r].phase = "restoring"
  BY DEF RestoreEquipment
<1>2. request[r] # Idle /\ request[r].previous \in EquipmentStatuses
  BY <1>1, Preparing
<1>3. PICK i \in Imports : request[r].import = i
  BY <1>2, Sole
<1> DEFINE q == Undoing(r)
<1>4. /\ q \in RequestStates /\ q # Idle /\ q.phase = "undoing" /\ q.import = i
      /\ q.version = request[r].version
  BY <1>1, <1>3, UndoingIs
<1>5. /\ IF i \in kept THEN SetEquipment(i, request[r].previous) ELSE KeepsEquipment
      /\ Become(r, q)
      /\ UNCHANGED <<import, lent, checkout, event, scan, faulty>>
  BY <1>3 DEF RestoreEquipment
<1> HIDE DEF q
<1>6. CASE i \notin kept
  BY <1>1, <1>2, <1>3, <1>4, <1>5, <1>6, Passed DEF KeepsEquipment
<1>7. CASE i \in kept
  <2>1. /\ equipment' = [equipment EXCEPT ![i] = request[r].previous]
        /\ kept' = kept \ {i}
        /\ equipment \in [Imports -> EquipmentStatuses]
    BY <1>5, <1>7 DEF SetEquipment, Inv, Typed
  <2>2. /\ LentFits(i) /\ InFlight(i) = {r} /\ InFlight(i)' = {r} /\ request'[r] = q
        /\ InProgress(i)' = InProgress(i) /\ HoldsClaim(i, request[r])
    BY <1>2, <1>3, <1>4, <1>5, Sole, Acted, Holds, SameCheckouts DEF Inv, ImportFits
  <2>3. i \in lent /\ ~faulty => request[r].previous \in Out
    BY <1>7, <2>2 DEF LentFits, HoldsClaim
  <2>4. LentFits(i)'
    BY <1>2, <1>4, <1>5, <2>1, <2>2, <2>3 DEF LentFits, HoldsClaim
  <2> QED
    BY <1>1, <1>2, <1>3, <1>4, <1>5, <2>1, <2>4, Steered
<1> QED
  BY <1>6, <1>7

LEMMA RestoreFailsPreserves ==
    ASSUME Inv, NEW r \in Requests, RestoreFails(r)
    PROVE  Inv'
<1>1. request[r].phase = "restoring"
  BY DEF RestoreFails
<1>2. request[r] # Idle
  BY <1>1, Preparing
<1>3. PICK i \in Imports : request[r].import = i
  BY <1>2, Sole
<1> DEFINE q == Undoing(r)
<1>4. /\ q \in RequestStates /\ q # Idle /\ q.phase = "undoing" /\ q.import = i
      /\ q.version = request[r].version
  BY <1>1, <1>3, UndoingIs
<1>5. /\ Become(r, q) /\ faulty' = TRUE
      /\ UNCHANGED <<import, equipment, kept, lent, checkout, event, scan>>
  BY DEF RestoreFails
<1> HIDE DEF q
<1> QED
  BY <1>1, <1>2, <1>3, <1>4, <1>5, Passed

LEMMA InitiateReturnPreserves ==
    ASSUME Inv, NEW r \in Requests, NEW i \in Imports, InitiateReturn(r, i)
    PROVE  Inv'
<1> DEFINE q == [phase |-> "claimed", import |-> i, version |-> import[i].version + 1]
<1>1. /\ import[i].status = "received" /\ request[r] = Idle
      /\ Write(i, "return_requested", import[i].link) /\ Become(r, q)
      /\ UNCHANGED <<equipment, kept, lent, checkout, event, scan, faulty>>
  BY DEF InitiateReturn, Claim
<1>2. import[i] \in ImportRows /\ import[i].link \in Checkouts \cup {NoId}
  BY <1>1, ImportIs
<1>3. /\ import' \in [Imports -> ImportRows \cup {NoImport}]
      /\ import'[i].status = "return_requested" /\ import'[i].link = import[i].link
      /\ import'[i].version = import[i].version + 1
      /\ import'[i].version > import[i].version
      /\ \A j \in Imports \ {i} : import'[j] = import[j]
  BY <1>1, <1>2, Written DEF ImportStatuses
<1>4. q \in RequestStates /\ q # Idle
  BY <1>2 DEF RequestStates, Idle, ImportRows
<1>5. q.phase = "claimed" /\ q.import = i /\ q.version = import[i].version + 1
  OBVIOUS
<1> HIDE DEF q
<1>6. /\ ClaimFits(i) /\ RowFits(i) /\ LentFits(i)
      /\ Live(i)' = Live(i) /\ InProgress(i)' = InProgress(i)
      /\ request'[r] = q /\ \A p \in Requests \ {r} : request'[p] = request[p]
      /\ request' \in [Requests -> RequestStates]
  BY <1>1, <1>4, Acted, SameCheckouts DEF Inv, ImportFits
<1>7. InFlight(i) = {} /\ import[i].link = NoId /\ Live(i) = {}
  BY <1>1, <1>6 DEF ClaimFits, HoldsClaim, RowFits
<1>8. InFlight(i)' = {r}
  BY <1>4, <1>5, <1>6, <1>7 DEF InFlight
<1>9. ClaimFits(i)' /\ RowFits(i)' /\ OrphanFits(i)'
  BY <1>3, <1>5, <1>6, <1>7, <1>8 DEF ClaimFits, HoldsClaim, RowFits, OrphanFits
<1>10. LentFits(i)'
  BY <1>1, <1>3, <1>5, <1>6, <1>7, <1>8 DEF LentFits
<1>11. Typed' /\ Touches(i) /\ Later
  BY <1>1, <1>3, <1>5, <1>6 DEF Typed, Touches, Later, Inv
<1> QED
  BY <1>1, <1>9, <1>10, <1>11, Assembled DEF ImportFits

LEMMA CreateCheckoutPreserves ==
    ASSUME Inv, NEW r \in Requests, NEW c \in Checkouts, CreateCheckout(r, c)
    PROVE  Inv'
<1>1. request[r].phase = "checked" /\ checkout[c] = NoCheckout
  BY DEF CreateCheckout
<1>2. request[r] # Idle /\ request[r].version \in Nat
  BY <1>1, Preparing
<1>3. PICK i \in Imports : request[r].import = i
  BY <1>2, Sole
<1> DEFINE q == [phase |-> "created", import |-> i, version |-> request[r].version,
                 checkout |-> c]
           row == [import |-> i, status |-> "pending"]
<1>4. /\ checkout' = [checkout EXCEPT ![c] = row] /\ Become(r, q)
      /\ UNCHANGED <<import, equipment, kept, lent, event, scan, faulty>>
  BY <1>3 DEF CreateCheckout
<1>5. q \in RequestStates /\ q # Idle /\ row \in CheckoutRows
  BY <1>2 DEF RequestStates, Idle, CheckoutRows
<1>6. /\ q.phase = "created" /\ q.import = i /\ q.version = request[r].version
      /\ q.checkout = c /\ row.import = i /\ row.status = "pending"
  OBVIOUS
<1> HIDE DEF q, row
<1>7. /\ HoldsClaim(i, request[r]) /\ RowFits(i) /\ LentFits(i) /\ InFlight(i) = {r}
      /\ InFlight(i)' = {r} /\ request'[r] = q
      /\ \A p \in Requests \ {r} : request'[p] = request[p]
      /\ request' \in [Requests -> RequestStates]
  BY <1>2, <1>3, <1>4, <1>5, <1>6, Sole, Acted, Holds DEF Inv, ImportFits
<1>8. /\ checkout' \in [Checkouts -> CheckoutRows \cup {NoCheckout}]
      /\ checkout'[c] = row /\ \A d \in Checkouts \ {c} : checkout'[d] = checkout[d]
  BY <1>4, <1>5 DEF Inv, Typed
<1>9. Live(i) = {} /\ i \notin lent
  BY <1>1, <1>7 DEF HoldsClaim, LentFits
<1>10. Live(i)' = {c}
  BY <1>6, <1>8, <1>9 DEF Live
<1>11. ClaimFits(i)' /\ RowFits(i)' /\ OrphanFits(i)'
  BY <1>4, <1>6, <1>7, <1>8, <1>10 DEF ClaimFits, HoldsClaim, RowFits, OrphanFits
<1>12. LentFits(i)'
  BY <1>4, <1>7, <1>9 DEF LentFits
<1>13. checkout[c].import = NoId /\ checkout[c].status = "none"
  BY <1>1 DEF NoCheckout
<1>14. Typed' /\ Touches(i) /\ Later
  BY <1>3, <1>4, <1>6, <1>7, <1>8, <1>13 DEF Typed, Touches, Later, Inv, Ends
<1> QED
  BY <1>4, <1>11, <1>12, <1>14, Assembled DEF ImportFits

\* The last step of a request.
LEMMA Finished ==
    ASSUME Inv, NEW r \in Requests, request[r] # Idle, NEW i \in Imports,
           request[r].import = i, Become(r, Idle),
           import' \in [Imports -> ImportRows \cup {NoImport}],
           \A j \in Imports \ {i} : import'[j] = import[j],
           import'[i] = import[i] \/ import'[i].version > import[i].version,
           UNCHANGED <<equipment, kept, lent, checkout, event, scan>>,
           faulty => faulty',
           faulty' \/ request[r].phase \in {"undoing", "created"},
           import'[i].status \in {"received", "return_requested"},
           RowFits(i)', OrphanFits(i)'
    PROVE  Inv'
<1>1. /\ HoldsClaim(i, request[r]) /\ LentFits(i) /\ InFlight(i) = {r}
      /\ InFlight(i)' = {} /\ InProgress(i)' = InProgress(i)
      /\ \A p \in Requests \ {r} : request'[p] = request[p]
      /\ request' \in [Requests -> RequestStates] /\ request'[r] = Idle
  BY Sole, Acted, Holds, SameCheckouts DEF Inv, ImportFits, RequestStates
<1>2. ClaimFits(i)'
  BY <1>1 DEF ClaimFits
<1>3. LentFits(i)'
  BY <1>1 DEF LentFits, HoldsClaim
<1>4. Typed' /\ Touches(i) /\ Later
  BY <1>1 DEF Typed, Touches, Later, Inv
<1> QED
  BY <1>2, <1>3, <1>4, Assembled DEF ImportFits

LEMMA UndoImportPreserves ==
    ASSUME Inv, NEW r \in Requests, UndoImport(r)
    PROVE  Inv'
<1>1. request[r].phase = "undoing" /\ request[r] # Idle
  BY DEF UndoImport, Idle
<1>2. PICK i \in Imports : request[r].import = i
  BY <1>1, Sole
<1>3. /\ HoldsClaim(i, request[r]) /\ RowFits(i) /\ import[i] \in ImportRows
      /\ import[i].link = NoId /\ Live(i) = {}
  BY <1>1, <1>2, Sole DEF Inv, ImportFits, HoldsClaim
<1>4. /\ Write(i, "received", NoId) /\ Become(r, Idle)
      /\ UNCHANGED <<equipment, kept, lent, checkout, event, scan, faulty>>
  BY <1>2, <1>3 DEF UndoImport, HoldsClaim
<1>5. /\ import' \in [Imports -> ImportRows \cup {NoImport}]
      /\ import'[i].status = "received" /\ import'[i].link = NoId
      /\ import'[i].version > import[i].version
      /\ \A j \in Imports \ {i} : import'[j] = import[j]
  BY <1>3, <1>4, Written DEF ImportStatuses
<1>6. Live(i)' = {}
  BY <1>3, <1>4, SameCheckouts
<1>7. RowFits(i)' /\ OrphanFits(i)'
  BY <1>5, <1>6 DEF RowFits, OrphanFits
<1>8. faulty' = faulty
  BY <1>4
<1> QED
  BY <1>1, <1>2, <1>4, <1>5, <1>7, <1>8, Finished

LEMMA LinkPreserves ==
    ASSUME Inv, NEW r \in Requests, Link(r)
    PROVE  Inv'
<1>1. request[r].phase = "created" /\ request[r] # Idle
  BY DEF Link, Idle
<1>2. PICK i \in Imports : request[r].import = i
  BY <1>1, Sole
<1>3. PICK c \in Checkouts : request[r].checkout = c
  BY <1>1 DEF Inv, Typed, RequestStates, Idle
<1>4. /\ HoldsClaim(i, request[r]) /\ RowFits(i) /\ import[i] \in ImportRows
      /\ import[i].status = "return_requested"
      /\ checkout[c].import = i /\ Live(i) \subseteq {c}
  BY <1>1, <1>2, <1>3, Sole DEF Inv, ImportFits, HoldsClaim
<1>5. /\ Write(i, "return_requested", c) /\ Become(r, Idle)
      /\ UNCHANGED <<equipment, kept, lent, checkout, event, scan, faulty>>
  BY <1>2, <1>3, <1>4 DEF Link, HoldsClaim
<1>6. /\ import' \in [Imports -> ImportRows \cup {NoImport}]
      /\ import'[i].status = "return_requested" /\ import'[i].link = c
      /\ import'[i].version > import[i].version
      /\ \A j \in Imports \ {i} : import'[j] = import[j]
  BY <1>4, <1>5, Written DEF ImportStatuses
<1>7. Live(i)' = Live(i)
  BY <1>5, SameCheckouts
<1>8. RowFits(i)' /\ OrphanFits(i)'
  BY <1>4, <1>5, <1>6, <1>7, NoIdAssumption DEF RowFits, OrphanFits
<1>9. faulty' = faulty
  BY <1>5
<1> QED
  BY <1>1, <1>2, <1>5, <1>6, <1>8, <1>9, Finished

LEMMA LastStepFailsPreserves ==
    ASSUME Inv, NEW r \in Requests, LastStepFails(r)
    PROVE  Inv'
<1>1. request[r].phase \in {"undoing", "created"} /\ request[r] # Idle
  BY DEF LastStepFails, Idle
<1>2. PICK i \in Imports : request[r].import = i
  BY <1>1, Sole
<1>3. /\ Become(r, Idle) /\ faulty' = TRUE
      /\ UNCHANGED <<import, equipment, kept, lent, checkout, event, scan>>
  BY DEF LastStepFails
<1>4. RowFits(i) /\ import[i].status = "return_requested"
  BY <1>1, <1>2, Sole DEF Inv, ImportFits, HoldsClaim
<1>5. Live(i)' = Live(i)
  BY <1>3, SameCheckouts
<1>6. RowFits(i)' /\ OrphanFits(i)'
  BY <1>3, <1>4, <1>5 DEF RowFits, OrphanFits
<1>7. import \in [Imports -> ImportRows \cup {NoImport}]
  BY DEF Inv, Typed
<1> QED
  BY <1>1, <1>2, <1>3, <1>4, <1>6, <1>7, Finished

\* Until the equipment is received there is nothing to return.
LEMMA EarlyStep ==
    ASSUME Inv, NEW i \in Imports,
           import[i].status \notin {"received", "return_requested", "returned"},
           import' \in [Imports -> ImportRows \cup {NoImport}],
           \A j \in Imports \ {i} : import'[j] = import[j],
           import'[i].version > import[i].version,
           import'[i].link = NoId,
           import'[i].status \notin {"return_requested", "returned"},
           \/ UNCHANGED <<equipment, kept>>
           \/ import'[i].status = "received" /\ SetEquipment(i, "temporary"),
           UNCHANGED <<lent, checkout, request, event, scan, faulty>>
    PROVE  Inv'
<1>1. /\ ClaimFits(i) /\ RowFits(i) /\ LentFits(i)
      /\ Live(i)' = Live(i) /\ InProgress(i)' = InProgress(i)
      /\ InFlight(i)' = InFlight(i)
  BY SameCheckouts, SameRequests DEF Inv, ImportFits
<1>2. /\ InFlight(i) = {} /\ Live(i) = {} /\ i \notin lent /\ equipment[i] = "none"
  BY <1>1 DEF ClaimFits, HoldsClaim, RowFits, LentFits
<1>3. ImportFits(i)'
  BY <1>1, <1>2 DEF ImportFits, ClaimFits, RowFits, OrphanFits, LentFits
<1>4. /\ equipment' \in [Imports -> EquipmentStatuses]
      /\ \A j \in Imports \ {i} : /\ equipment'[j] = equipment[j]
                                  /\ j \in kept' <=> j \in kept
  BY DEF SetEquipment, EquipmentStatuses, Inv, Typed
<1>5. Typed' /\ Touches(i) /\ Later
  BY <1>4 DEF Typed, Touches, Later, Inv
<1> QED
  BY <1>3, <1>5, Assembled

LEMMA CreatePreserves ==
    ASSUME Inv, NEW i \in Imports, NEW letter \in Letters, create(i, letter)
    PROVE  Inv'
<1> DEFINE row == [status |-> "pending", letter |-> letter, link |-> NoId, version |-> 1]
<1>1. /\ import[i] = NoImport /\ import' = [import EXCEPT ![i] = row]
      /\ UNCHANGED <<equipment, kept, lent, checkout, request, event, scan, faulty>>
  BY DEF create
<1>2. /\ row \in ImportRows /\ row.status = "pending" /\ row.link = NoId
      /\ row.version = 1
  BY DEF ImportRows, ImportStatuses
<1> HIDE DEF row
<1>3. /\ import' \in [Imports -> ImportRows \cup {NoImport}]
      /\ import'[i] = row /\ \A j \in Imports \ {i} : import'[j] = import[j]
  BY <1>1, <1>2 DEF Inv, Typed
<1>4. import[i].status = "none" /\ import[i].version = 0
  BY <1>1, NoImportIsNone
<1> QED
  BY <1>1, <1>2, <1>3, <1>4, EarlyStep

LEMMA DecidedPreserves ==
    ASSUME Inv, NEW i \in Imports, approve(i) \/ reject(i) \/ cancel(i) \/ receive(i)
    PROVE  Inv'
<1>1. PICK status \in {"approved", "rejected", "canceled", "received"} :
          /\ Write(i, status, NoId)
          /\ \/ UNCHANGED <<equipment, kept>>
             \/ status = "received" /\ SetEquipment(i, "temporary")
  BY DEF approve, reject, cancel, receive
<1>2. /\ import[i].status \in {"pending", "approved"}
      /\ UNCHANGED <<lent, checkout, request, event, scan, faulty>>
  BY DEF approve, reject, cancel, receive
<1>3. import[i] \in ImportRows
  BY <1>2, ImportIs
<1>4. status \in ImportStatuses
  BY DEF ImportStatuses
<1>5. /\ import' \in [Imports -> ImportRows \cup {NoImport}]
      /\ import'[i].status = status /\ import'[i].link = NoId
      /\ import'[i].version > import[i].version
      /\ \A j \in Imports \ {i} : import'[j] = import[j]
  BY <1>1, <1>3, <1>4, Written
<1> QED
  BY <1>1, <1>2, <1>5, EarlyStep

\* A checkout of an import goes out, comes back, or is turned down.
LEMMA CheckoutMoved ==
    ASSUME Inv, NEW c \in Checkouts, NEW i \in Imports, checkout[c].import = i,
           checkout[c].status \in {"pending", "out"},
           NEW status \in {"out", "return_approved", "canceled", "rejected"},
           checkout[c].status = "pending" => status # "return_approved",
           checkout' = [checkout EXCEPT ![c].status = status],
           \/ UNCHANGED <<equipment, kept>>
           \/ \E to \in {"checked_out", "available"} : SetEquipment(i, to),
           event'[c] = event[c] \/ event'[c].phase # "read",
           \A d \in Checkouts \ {c} : event'[d] = event[d],
           event' \in [Checkouts -> EventStates],
           UNCHANGED <<import, lent, request, scan, faulty>>
    PROVE  Inv'
<1>1. checkout[c] \in CheckoutRows
  BY DEF Inv, Typed, CheckoutRows, NoCheckout
<1>2. /\ checkout' \in [Checkouts -> CheckoutRows \cup {NoCheckout}]
      /\ checkout'[c].import = i /\ checkout'[c].status = status
      /\ \A d \in Checkouts \ {c} : checkout'[d] = checkout[d]
  <2> DEFINE old == checkout[c]
             row == [old EXCEPT !.status = status]
  <2>1. checkout' = [checkout EXCEPT ![c] = row] /\ old \in CheckoutRows
    BY <1>1
  <2>2. old.import = i
    OBVIOUS
  <2> HIDE DEF old
  <2>3. row \in CheckoutRows /\ row.import = i /\ row.status = status
    BY <2>1, <2>2 DEF CheckoutRows
  <2> HIDE DEF row
  <2> QED
    BY <2>1, <2>3 DEF Inv, Typed
<1>3. /\ ClaimFits(i) /\ RowFits(i) /\ OrphanFits(i) /\ LentFits(i)
      /\ InFlight(i)' = InFlight(i)
  BY SameRequests DEF Inv, ImportFits
<1>4. Live(i)' \subseteq Live(i) /\ InProgress(i)' \subseteq InProgress(i)
  BY <1>2 DEF Live, InProgress
<1>5. c \in Live(i) /\ c \in InProgress(i) /\ i \notin lent
  BY <1>3 DEF Live, InProgress, LentFits
<1>6. import[i].status \in {"return_requested", "returned"}
  BY <1>3, <1>5 DEF RowFits
<1>7. ClaimFits(i)'
  <2>1. ASSUME NEW r \in InFlight(i) PROVE HoldsClaim(i, request[r])'
    <3>1. HoldsClaim(i, request[r]) /\ request'[r] = request[r]
      BY <1>3, <2>1 DEF ClaimFits
    <3>2. request[r].phase = "created" /\ request[r].checkout = c
      BY <1>5, <3>1 DEF HoldsClaim
    <3> QED
      BY <1>2, <1>4, <3>1, <3>2 DEF HoldsClaim
  <2> QED
    BY <1>3, <2>1 DEF ClaimFits
<1>8. RowFits(i)'
  <2>1. import[i].link # NoId => import[i].link = c
    BY <1>3, <1>5 DEF RowFits
  <2>2. import[i].status # "returned"
    BY <1>3, <2>1 DEF RowFits
  <2> QED
    BY <1>2, <1>3, <1>4, <1>6, <2>1, <2>2 DEF RowFits
<1>9. OrphanFits(i)' /\ LentFits(i)'
  BY <1>3, <1>5, <1>6 DEF OrphanFits, LentFits
<1>10. /\ equipment' \in [Imports -> EquipmentStatuses]
       /\ \A j \in Imports \ {i} : /\ equipment'[j] = equipment[j]
                                   /\ j \in kept' <=> j \in kept
  BY DEF SetEquipment, EquipmentStatuses, Inv, Typed
<1>11. Typed' /\ Touches(i) /\ Later
  BY <1>2, <1>10 DEF Typed, Touches, Later, Inv, Ends
<1> QED
  BY <1>7, <1>8, <1>9, <1>11, Assembled DEF ImportFits

LEMMA CheckoutOf ==
    ASSUME Inv, NEW c \in Checkouts, checkout[c].status \in {"pending", "out"}
    PROVE  checkout[c].import \in Imports
BY DEF Inv, Typed, CheckoutRows, NoCheckout

LEMMA Sent ==
    ASSUME Inv, NEW c \in Checkouts, Send(c)
    PROVE  /\ event' \in [Checkouts -> EventStates]
           /\ event'[c].phase # "read"
           /\ \A d \in Checkouts \ {c} : event'[d] = event[d]
BY DEF Inv, Typed, Send, EventStates

LEMMA CheckoutPreserves ==
    ASSUME Inv, NEW c \in Checkouts,
           \/ StartCheckout(c) \/ ReturnApproved(c)
           \/ CancelCheckout(c) \/ RejectCheckout(c)
    PROVE  Inv'
<1> DEFINE i == checkout[c].import
<1>1. PICK status \in {"out", "return_approved", "canceled", "rejected"} :
          /\ checkout' = [checkout EXCEPT ![c].status = status]
          /\ checkout[c].status \in {"pending", "out"}
          /\ checkout[c].status = "pending" => status # "return_approved"
          /\ \/ UNCHANGED <<equipment, kept>>
             \/ \E to \in {"checked_out", "available"} : SetEquipment(i, to)
          /\ Send(c) \/ UNCHANGED event
          /\ UNCHANGED <<import, lent, request, scan, faulty>>
  BY DEF StartCheckout, ReturnApproved, CancelCheckout, RejectCheckout, KeepsEquipment
<1>2. i \in Imports
  BY <1>1, CheckoutOf
<1>3. /\ event' \in [Checkouts -> EventStates]
      /\ event'[c] = event[c] \/ event'[c].phase # "read"
      /\ \A d \in Checkouts \ {c} : event'[d] = event[d]
  BY <1>1, Sent DEF Inv, Typed
<1>4. PICK k \in Imports : k = i
  BY <1>2
<1> QED
  BY <1>1, <1>3, <1>4, CheckoutMoved

\* The equipment of an import that is out for another purpose, back, or marked.
LEMMA EquipmentWritten ==
    ASSUME Inv, NEW i \in Imports, NEW to \in EquipmentStatuses,
           equipment[i] # "none",
           SetEquipment(i, to),
           i \in lent' => to \in Out /\ InProgress(i) = {},
           i \in lent' => \A r \in InFlight(i) : request[r].phase # "checked",
           \A j \in Imports \ {i} : j \in lent' <=> j \in lent,
           lent' \subseteq Imports,
           UNCHANGED <<import, checkout, request, event, scan, faulty>>
    PROVE  Inv'
<1>1. /\ ImportFits(i) /\ Live(i)' = Live(i) /\ InProgress(i)' = InProgress(i)
      /\ InFlight(i)' = InFlight(i)
  BY SameCheckouts, SameRequests DEF Inv
<1>2. ClaimFits(i)' /\ RowFits(i)' /\ OrphanFits(i)'
  BY <1>1 DEF ImportFits, ClaimFits, HoldsClaim, RowFits, OrphanFits
<1>3. /\ equipment' \in [Imports -> EquipmentStatuses] /\ equipment'[i] = to
      /\ i \notin kept'
      /\ \A j \in Imports \ {i} : /\ equipment'[j] = equipment[j]
                                  /\ j \in kept' <=> j \in kept
  BY DEF SetEquipment, Inv, Typed
<1>4. LentFits(i)'
  BY <1>1, <1>3 DEF ImportFits, LentFits
<1>5. Typed' /\ Touches(i) /\ Later
  BY <1>3 DEF Typed, Touches, Later, Inv
<1> QED
  BY <1>2, <1>4, <1>5, Assembled DEF ImportFits

LEMMA LendPreserves ==
    ASSUME Inv, NEW i \in Imports, Lend(i)
    PROVE  Inv'
<1>1. /\ equipment[i] = "available" /\ SetEquipment(i, "checked_out")
      /\ InProgress(i) = {} /\ \A r \in InFlight(i) : request[r].phase # "checked"
      /\ lent' = lent \cup {i}
      /\ UNCHANGED <<import, checkout, request, event, scan, faulty>>
  BY DEF Lend
<1> QED
  BY <1>1, EquipmentWritten DEF EquipmentStatuses, Out, Inv, Typed

LEMMA MarkNonConformingPreserves ==
    ASSUME Inv, NEW i \in Imports, MarkNonConforming(i)
    PROVE  Inv'
<1>1. /\ equipment[i] # "none" /\ SetEquipment(i, "non_conforming")
      /\ UNCHANGED <<import, lent, checkout, request, event, scan, faulty>>
  BY DEF MarkNonConforming
<1>2. LentFits(i)
  BY DEF Inv, ImportFits
<1> QED
  BY <1>1, <1>2, EquipmentWritten DEF EquipmentStatuses, Out, LentFits, Inv, Typed

LEMMA ComeBackPreserves ==
    ASSUME Inv, NEW i \in Imports, ComeBack(i)
    PROVE  Inv'
<1>1. /\ lent' = lent \ {i}
      /\ UNCHANGED <<import, checkout, request, event, scan, faulty>>
  BY DEF ComeBack
<1>2. CASE equipment[i] = "checked_out"
  BY <1>1, <1>2, EquipmentWritten DEF ComeBack, EquipmentStatuses, Inv, Typed
<1>3. CASE UNCHANGED <<equipment, kept>>
  <2>1. /\ ImportFits(i) /\ Live(i)' = Live(i) /\ InProgress(i)' = InProgress(i)
        /\ InFlight(i)' = InFlight(i)
    BY <1>1, SameCheckouts, SameRequests DEF Inv
  <2>2. ClaimFits(i)' /\ RowFits(i)' /\ OrphanFits(i)'
    BY <1>1, <2>1 DEF ImportFits, ClaimFits, HoldsClaim, RowFits, OrphanFits
  <2>3. LentFits(i)'
    BY <1>1, <1>3, <2>1, ComeBack(i) DEF ImportFits, LentFits, ComeBack
  <2>4. Typed' /\ Touches(i) /\ Later
    BY <1>1, <1>3 DEF Typed, Touches, Later, Inv
  <2> QED
    BY <1>1, <2>2, <2>3, <2>4, Assembled DEF ImportFits
<1> QED
  BY <1>2, <1>3 DEF ComeBack, KeepsEquipment

-----------------------------------------------------------------------------
(* The listener and the scheduler *)

\* An import whose linked checkout has ended, and is told so.
LEMMA Followed ==
    ASSUME Inv, NEW i \in Imports, NEW c \in Checkouts, import[i].link = c,
           NEW status \in {"received", "returned"}, NEW link \in {NoId, c},
           \/ /\ checkout[c].status = "return_approved"
              /\ status = "returned" /\ link = c
           \/ /\ checkout[c].status = "canceled"
              /\ status = "received" /\ link = NoId,
           Write(i, status, link),
           \/ UNCHANGED <<equipment, kept>>
           \/ status = "returned" /\ SetEquipment(i, "inactive"),
           \A d \in Checkouts : event'[d] = event[d] \/ event'[d].phase # "read",
           event' \in [Checkouts -> EventStates],
           \A j \in Imports : scan'[j] = scan[j] \/ scan'[j] = Idle,
           scan' \in [Imports -> ScanStates],
           UNCHANGED <<lent, checkout, request, faulty>>
    PROVE  Inv'
<1>1. /\ ImportFits(i) /\ Live(i)' = Live(i) /\ InProgress(i)' = InProgress(i)
      /\ InFlight(i)' = InFlight(i)
  BY SameCheckouts, SameRequests DEF Inv
<1>2. c # NoId /\ import[i].status \in {"return_requested", "returned"}
  BY <1>1, NoIdAssumption DEF ImportFits, RowFits
<1>3. import[i] \in ImportRows
  BY <1>2, ImportIs
<1>4. /\ import' \in [Imports -> ImportRows \cup {NoImport}]
      /\ import'[i].status = status /\ import'[i].link = link
      /\ import'[i].version > import[i].version
      /\ \A j \in Imports \ {i} : import'[j] = import[j]
  <2>1. status \in ImportStatuses /\ link \in Checkouts \cup {NoId}
    BY DEF ImportStatuses
  <2> QED
    BY <1>3, <2>1, Written
<1>5. InFlight(i) = {}
  BY <1>1, <1>2 DEF ImportFits, ClaimFits, HoldsClaim
<1>6. Live(i) \subseteq {c} /\ checkout[c].import = i /\ (status = "received" => Live(i) = {})
  BY <1>1, <1>2 DEF ImportFits, RowFits, Live
<1>7. ClaimFits(i)' /\ OrphanFits(i)'
  BY <1>1, <1>4, <1>5 DEF ClaimFits, OrphanFits
<1>8. RowFits(i)'
  <2>1. CASE status = "received"
    BY <1>1, <1>4, <1>6, <2>1 DEF RowFits
  <2>2. CASE status = "returned"
    BY <1>1, <1>2, <1>4, <1>6, <2>2 DEF RowFits
  <2> QED
    BY <2>1, <2>2
<1>9. /\ equipment' \in [Imports -> EquipmentStatuses]
      /\ \A j \in Imports \ {i} : /\ equipment'[j] = equipment[j]
                                  /\ j \in kept' <=> j \in kept
  BY DEF SetEquipment, EquipmentStatuses, Inv, Typed
<1>10. LentFits(i)'
  <2>1. LentFits(i) /\ import[i].status # "received"
    BY <1>1, <1>2 DEF ImportFits
  <2>2. status = "received" => equipment' = equipment /\ kept' = kept
    OBVIOUS
  <2>3. status = "received" => import[i].status = "return_requested"
    BY <1>1, <1>2 DEF ImportFits, RowFits
  <2> QED
    BY <1>1, <1>4, <1>5, <2>1, <2>2, <2>3 DEF LentFits
<1>11. Typed' /\ Touches(i) /\ Later
  BY <1>4, <1>9 DEF Typed, Touches, Later, Inv
<1> QED
  BY <1>7, <1>8, <1>10, <1>11, Assembled DEF ImportFits

\* Steps that write no row and only forget what was read.
LEMMA Forgotten ==
    ASSUME Inv, UNCHANGED <<import, equipment, kept, lent, checkout, request, faulty>>,
           \A d \in Checkouts : event'[d] = event[d] \/ event'[d].phase # "read",
           event' \in [Checkouts -> EventStates],
           \A j \in Imports : scan'[j] = scan[j] \/ scan'[j] = Idle,
           scan' \in [Imports -> ScanStates]
    PROVE  Inv'
<1>1. Later /\ Typed'
  BY DEF Later, Typed, Inv
<1>2. ASSUME NEW j \in Imports PROVE ImportFits(j)' /\ ScanFits(j)'
  <2>1. /\ ImportFits(j) /\ Live(j)' = Live(j) /\ InProgress(j)' = InProgress(j)
        /\ InFlight(j)' = InFlight(j)
    BY SameCheckouts, SameRequests DEF Inv
  <2>2. ImportFits(j)'
    BY <2>1 DEF ImportFits, ClaimFits, HoldsClaim, RowFits, OrphanFits, LentFits
  <2>3. CASE scan'[j] = scan[j]
    BY <1>1, <2>2, <2>3, ScanStays
  <2>4. CASE scan'[j] = Idle
    BY <2>2, <2>4 DEF ScanFits
  <2> QED
    BY <2>3, <2>4
<1>3. ASSUME NEW d \in Checkouts PROVE EventFits(d)'
  <2>1. CASE event'[d] = event[d]
    BY <1>1, <2>1, EventStays
  <2>2. CASE event'[d].phase # "read"
    BY <2>2 DEF EventFits
  <2> QED
    BY <2>1, <2>2
<1> QED
  BY <1>1, <1>2, <1>3 DEF Inv, EventsFit, ScansFit

LEMMA ReadEventPreserves ==
    ASSUME Inv, NEW c \in Checkouts, ReadEvent(c)
    PROVE  Inv'
<1>1. /\ event[c].phase = "sent"
      /\ UNCHANGED <<import, equipment, kept, lent, checkout, request, scan, faulty>>
  BY DEF ReadEvent
<1>2. CASE Told(c, Idle)
  BY <1>1, <1>2, Forgotten DEF Told, Inv, Typed, EventStates, Idle
<1>3. CASE \E i \in Imports : /\ import[i].link = c
                              /\ Told(c, [phase |-> "read", import |-> i,
                                          version |-> import[i].version,
                                          retry |-> event[c].retry])
  <2>1. PICK i \in Imports : /\ import[i].link = c
                             /\ Told(c, [phase |-> "read", import |-> i,
                                         version |-> import[i].version,
                                         retry |-> event[c].retry])
    BY <1>3
  <2> DEFINE e == [phase |-> "read", import |-> i, version |-> import[i].version,
                   retry |-> event[c].retry]
  <2>2. event[c].retry \in BOOLEAN /\ import[i].version \in Nat
    BY <1>1, ImportIs DEF Inv, Typed, EventStates, Idle
  <2>3. e \in EventStates
    BY <2>2 DEF EventStates
  <2>4. e.phase = "read" /\ e.import = i /\ e.version = import[i].version
    OBVIOUS
  <2>5. Told(c, e)
    BY <2>1
  <2> HIDE DEF e
  <2>6. /\ event' \in [Checkouts -> EventStates] /\ event'[c] = e
        /\ \A d \in Checkouts \ {c} : event'[d] = event[d]
    BY <2>3, <2>5 DEF Told, Inv, Typed
  <2>7. Later /\ Typed'
    BY <1>1, <2>6 DEF Later, Typed, Inv
  <2>8. ASSUME NEW j \in Imports PROVE ImportFits(j)' /\ ScanFits(j)'
    <3>1. /\ ImportFits(j) /\ Live(j)' = Live(j) /\ InProgress(j)' = InProgress(j)
          /\ InFlight(j)' = InFlight(j) /\ scan'[j] = scan[j]
      BY <1>1, SameCheckouts, SameRequests DEF Inv
    <3>2. ImportFits(j)'
      BY <1>1, <3>1 DEF ImportFits, ClaimFits, HoldsClaim, RowFits, OrphanFits, LentFits
    <3> QED
      BY <2>7, <3>1, <3>2, ScanStays
  <2>9. ASSUME NEW d \in Checkouts PROVE EventFits(d)'
    <3>1. CASE d # c
      BY <2>6, <2>7, <3>1, EventStays
    <3>2. CASE d = c
      BY <1>1, <2>1, <2>2, <2>4, <2>6, <3>2 DEF EventFits
    <3> QED
      BY <3>1, <3>2
  <2> QED
    BY <2>7, <2>8, <2>9 DEF Inv, EventsFit, ScansFit
<1> QED
  BY <1>2, <1>3 DEF ReadEvent

\* What the listener has read of an import.
LEMMA Read ==
    ASSUME Inv, NEW c \in Checkouts, event[c].phase = "read"
    PROVE  /\ event[c].import \in Imports
           /\ event[c].retry \in BOOLEAN
           /\ event[c].version = import[event[c].import].version =>
                  import[event[c].import].link = c
<1>1. event[c] \in EventStates /\ EventFits(c)
  BY DEF Inv, Typed, EventsFit
<1> QED
  BY <1>1 DEF EventStates, Idle, EventFits

\* After the listener has finished with an event it knows no version any more.
LEMMA ToldOn ==
    ASSUME Inv, NEW c \in Checkouts,
           NEW e \in {Idle, [phase |-> "sent", retry |-> FALSE]}, Told(c, e)
    PROVE  /\ event' \in [Checkouts -> EventStates]
           /\ \A d \in Checkouts : event'[d] = event[d] \/ event'[d].phase # "read"
<1>1. CASE e = Idle
  BY <1>1 DEF Told, Inv, Typed, EventStates, Idle
<1>2. CASE e = [phase |-> "sent", retry |-> FALSE]
  <2>1. e \in EventStates /\ e.phase # "read"
    BY <1>2 DEF EventStates
  <2> QED
    BY <2>1 DEF Told, Inv, Typed
<1> QED
  BY <1>1, <1>2

LEMMA onReturnCompletedPreserves ==
    ASSUME Inv, NEW c \in Checkouts, onReturnCompleted(c)
    PROVE  Inv'
<1>1. PICK i \in Imports : event[c].import = i
  BY Read DEF onReturnCompleted
<1>2. /\ checkout[c].status = "return_approved" /\ Told(c, Idle)
      /\ UNCHANGED <<lent, checkout, request, scan, faulty>>
      /\ event[c].version = import[i].version => import[i].link = c
  BY <1>1, Read DEF onReturnCompleted
<1>3. /\ event' \in [Checkouts -> EventStates]
      /\ \A d \in Checkouts : event'[d] = event[d] \/ event'[d].phase # "read"
  BY <1>2, ToldOn
<1>4. scan' \in [Imports -> ScanStates] /\ \A j \in Imports : scan'[j] = scan[j]
  BY <1>2 DEF Inv, Typed
<1>5. CASE import[i].version = event[c].version
  <2>1. import[i].link = c /\ Write(i, "returned", c) /\ SetEquipment(i, "inactive")
    BY <1>1, <1>2, <1>5 DEF onReturnCompleted
  <2> QED
    BY <1>2, <1>3, <1>4, <2>1, Followed
<1>6. CASE import[i].version # event[c].version
  BY <1>1, <1>2, <1>3, <1>4, <1>6, Forgotten DEF onReturnCompleted, KeepsEquipment
<1> QED
  BY <1>5, <1>6

LEMMA onReturnCanceledPreserves ==
    ASSUME Inv, NEW c \in Checkouts, onReturnCanceled(c)
    PROVE  Inv'
<1>1. PICK i \in Imports : event[c].import = i
  BY Read DEF onReturnCanceled
<1>2. /\ checkout[c].status = "canceled"
      /\ UNCHANGED <<equipment, kept, lent, checkout, request, scan, faulty>>
      /\ event[c].version = import[i].version => import[i].link = c
  BY <1>1, Read DEF onReturnCanceled
<1>3. PICK e \in {Idle, [phase |-> "sent", retry |-> FALSE]} : Told(c, e)
  BY DEF onReturnCanceled
<1>4. /\ event' \in [Checkouts -> EventStates]
      /\ \A d \in Checkouts : event'[d] = event[d] \/ event'[d].phase # "read"
  BY <1>3, ToldOn
<1>5. scan' \in [Imports -> ScanStates] /\ \A j \in Imports : scan'[j] = scan[j]
  BY <1>2 DEF Inv, Typed
<1>6. CASE import[i].version = event[c].version /\ Write(i, "received", NoId)
  BY <1>2, <1>4, <1>5, <1>6, Followed
<1>7. CASE UNCHANGED import
  BY <1>2, <1>4, <1>5, <1>7, Forgotten
<1> QED
  BY <1>1, <1>6, <1>7 DEF onReturnCanceled

LEMMA EventFailsPreserves ==
    ASSUME Inv, NEW c \in Checkouts, EventFails(c)
    PROVE  Inv'
<1>1. /\ Told(c, Idle)
      /\ UNCHANGED <<import, equipment, kept, lent, checkout, request, scan, faulty>>
  BY DEF EventFails
<1>2. /\ event' \in [Checkouts -> EventStates]
      /\ \A d \in Checkouts : event'[d] = event[d] \/ event'[d].phase # "read"
  BY <1>1, ToldOn
<1> QED
  BY <1>1, <1>2, Forgotten DEF Inv, Typed

LEMMA ListOrphansPreserves ==
    ASSUME Inv, ListOrphans
    PROVE  Inv'
<1> DEFINE orphans == { i \in Imports : Ended(i) }
           listed(i) == [phase |-> "listed", version |-> import[i].version,
                         checkout |-> import[i].link]
<1>1. /\ scan' = [i \in Imports |-> IF i \in orphans THEN listed(i) ELSE Idle]
      /\ UNCHANGED <<import, equipment, kept, lent, checkout, request, event, faulty>>
  BY DEF ListOrphans
<1>2. ASSUME NEW i \in Imports, Ended(i)
      PROVE  /\ import[i].link \in Checkouts /\ import[i].version \in Nat
             /\ checkout[import[i].link].status \in DOMAIN Ends
  BY <1>2, ImportIs DEF Ended
<1>3. ASSUME NEW i \in Imports
      PROVE  scan'[i] \in ScanStates
  BY <1>1, <1>2 DEF ScanStates
<1>4. scan' \in [Imports -> ScanStates]
  <2>1. scan' = [i \in Imports |-> scan'[i]]
    BY <1>1
  <2> QED
    BY <1>3, <2>1
<1>5. ASSUME NEW i \in Imports PROVE ScanFits(i)'
  <2>1. CASE Ended(i)
    <3>1. scan'[i] = listed(i)
      BY <1>1, <2>1
    <3>2. /\ scan'[i].checkout = import[i].link /\ scan'[i].version = import[i].version
      BY <3>1
    <3> QED
      BY <1>1, <1>2, <2>1, <3>2 DEF ScanFits
  <2>2. CASE ~Ended(i)
    BY <1>1, <2>2 DEF ScanFits
  <2> QED
    BY <2>1, <2>2
<1>6. Later /\ Typed'
  BY <1>1, <1>4 DEF Later, Typed, Inv
<1>7. ASSUME NEW i \in Imports PROVE ImportFits(i)'
  <2>1. /\ ImportFits(i) /\ Live(i)' = Live(i) /\ InProgress(i)' = InProgress(i)
        /\ InFlight(i)' = InFlight(i)
    BY <1>1, SameCheckouts, SameRequests DEF Inv
  <2> QED
    BY <1>1, <2>1 DEF ImportFits, ClaimFits, HoldsClaim, RowFits, OrphanFits, LentFits
<1>8. ASSUME NEW c \in Checkouts PROVE EventFits(c)'
  BY <1>1, <1>6, EventStays
<1> QED
  BY <1>5, <1>6, <1>7, <1>8 DEF Inv, EventsFit, ScansFit

LEMMA ScanForgotten ==
    ASSUME Inv, NEW i \in Imports, scan' = [scan EXCEPT ![i] = Idle]
    PROVE  /\ scan' \in [Imports -> ScanStates]
           /\ \A j \in Imports : scan'[j] = scan[j] \/ scan'[j] = Idle
BY DEF Inv, Typed, ScanStates

LEMMA RecoverOrphanPreserves ==
    ASSUME Inv, NEW i \in Imports, RecoverOrphan(i)
    PROVE  Inv'
<1> DEFINE c == scan[i].checkout
<1>1. /\ c \in Checkouts /\ checkout[c].status \in {"return_approved", "canceled"}
      /\ scan[i].version = import[i].version => import[i].link = c
  <2>1. scan[i] # Idle /\ scan[i] \in ScanStates /\ ScanFits(i)
    BY DEF RecoverOrphan, Inv, Typed, ScansFit
  <2> QED
    BY <2>1 DEF ScanStates, ScanFits, Ends
<1>2. PICK d \in Checkouts : d = c
  BY <1>1
<1> DEFINE status == Ends[checkout[d].status]
           link == IF status = "received" THEN NoId ELSE import[i].link
<1>3. /\ \/ import[i].version = scan[i].version /\ Write(i, status, link)
         \/ UNCHANGED import
      /\ scan' = [scan EXCEPT ![i] = Idle]
      /\ UNCHANGED <<equipment, kept, lent, checkout, request, event, faulty>>
  BY <1>2 DEF RecoverOrphan
<1>4. /\ checkout[d].status = "return_approved" => status = "returned"
      /\ checkout[d].status = "canceled" => status = "received"
  BY DEF Ends
<1>5. event' \in [Checkouts -> EventStates]
  BY <1>3 DEF Inv, Typed
<1>6. /\ status = "received" => link = NoId
      /\ status = "returned" => link = import[i].link
  OBVIOUS
<1> HIDE DEF status, link
<1>7. CASE UNCHANGED import
  BY <1>3, <1>5, <1>7, ScanForgotten, Forgotten
<1>8. CASE import[i].version = scan[i].version /\ Write(i, status, link)
  <2>1. import[i].link = d
    BY <1>1, <1>2, <1>8
  <2>2. /\ status \in {"received", "returned"} /\ link \in {NoId, d}
        /\ \/ checkout[d].status = "return_approved" /\ status = "returned" /\ link = d
           \/ checkout[d].status = "canceled" /\ status = "received" /\ link = NoId
    <3>1. checkout[d].status \in {"return_approved", "canceled"}
      BY <1>1, <1>2
    <3>2. CASE checkout[d].status = "return_approved"
      BY <1>4, <1>6, <2>1, <3>2
    <3>3. CASE checkout[d].status = "canceled"
      BY <1>4, <1>6, <3>3
    <3> QED
      BY <3>1, <3>2, <3>3
  <2>3. /\ scan' \in [Imports -> ScanStates]
        /\ \A j \in Imports : scan'[j] = scan[j] \/ scan'[j] = Idle
    BY <1>3, ScanForgotten
  <2> QED
    BY <1>3, <1>5, <1>8, <2>1, <2>2, <2>3, Followed
<1> QED
  BY <1>3, <1>7, <1>8

LEMMA RecoverFailsPreserves ==
    ASSUME Inv, NEW i \in Imports, RecoverFails(i)
    PROVE  Inv'
<1>1. /\ scan' = [scan EXCEPT ![i] = Idle]
      /\ UNCHANGED <<import, equipment, kept, lent, checkout, request, event, faulty>>
  BY DEF RecoverFails
<1> QED
  BY <1>1, ScanForgotten, Forgotten DEF Inv, Typed

LEMMA RestartPreserves ==
    ASSUME Inv, Restart
    PROVE  Inv'
<1>1. /\ request' = [r \in Requests |-> Idle] /\ event' = [c \in Checkouts |-> Idle]
      /\ scan' = [i \in Imports |-> Idle] /\ faulty' = TRUE
      /\ UNCHANGED <<import, equipment, kept, lent, checkout>>
  BY DEF Restart
<1>2. Typed'
  BY <1>1 DEF Typed, Inv, RequestStates, EventStates, ScanStates
<1>3. EventsFit' /\ ScansFit'
  BY <1>1 DEF EventsFit, EventFits, ScansFit, ScanFits, Idle
<1>4. ASSUME NEW i \in Imports PROVE ImportFits(i)'
  <2>1. ImportFits(i) /\ Live(i)' = Live(i) /\ InProgress(i)' = InProgress(i)
    BY <1>1, SameCheckouts DEF Inv
  <2>2. InFlight(i)' = {}
    BY <1>1 DEF InFlight
  <2> QED
    BY <1>1, <2>1, <2>2 DEF ImportFits, ClaimFits, RowFits, OrphanFits, LentFits
<1> QED
  BY <1>2, <1>3, <1>4 DEF Inv

LEMMA StutterPreserves ==
    ASSUME Inv, UNCHANGED vars
    PROVE  Inv'
BY Forgotten DEF vars, Inv, Typed

-----------------------------------------------------------------------------
(* The theorems *)

LEMMA InitInv == Init => Inv
<1> SUFFICES ASSUME Init PROVE Inv
  OBVIOUS
<1>1. Typed
  BY DEF Init, Typed, EquipmentStatuses, RequestStates, EventStates, ScanStates
<1>2. EventsFit /\ ScansFit
  BY DEF Init, EventsFit, EventFits, ScansFit, ScanFits, Idle
<1>3. ASSUME NEW i \in Imports PROVE ImportFits(i)
  <2>1. import[i].status = "none" /\ import[i].link = NoId /\ equipment[i] = "none"
    BY NoImportIsNone DEF Init
  <2>2. Live(i) = {} /\ InFlight(i) = {} /\ i \notin lent
    BY NoIdAssumption DEF Init, Live, NoCheckout, InFlight
  <2> QED
    BY <2>1, <2>2 DEF ImportFits, ClaimFits, RowFits, OrphanFits, LentFits
<1> QED
  BY <1>1, <1>2, <1>3 DEF Inv

LEMMA NextInv == Inv /\ [Next]_vars => Inv'
<1> SUFFICES ASSUME Inv, [Next]_vars PROVE Inv'
  OBVIOUS
<1>1. ASSUME NEW r \in Requests, RequestStep(r) PROVE Inv'
  BY <1>1, InitiateReturnPreserves, SetAvailablePreserves, SetAvailableFailsPreserves,
     CheckActivePreserves, CreateCheckoutPreserves, CreateFailsPreserves,
     RestoreEquipmentPreserves, RestoreFailsPreserves, UndoImportPreserves,
     LinkPreserves, LastStepFailsPreserves DEF RequestStep
<1>2. ASSUME NEW i \in Imports, ImportStep(i) PROVE Inv'
  BY <1>2, CreatePreserves, DecidedPreserves, LendPreserves, ComeBackPreserves,
     MarkNonConformingPreserves, RecoverOrphanPreserves, RecoverFailsPreserves
     DEF ImportStep
<1>3. ASSUME NEW c \in Checkouts, CheckoutStep(c) PROVE Inv'
  BY <1>3, CheckoutPreserves, ReadEventPreserves, onReturnCompletedPreserves,
     onReturnCanceledPreserves, EventFailsPreserves DEF CheckoutStep
<1>4. CASE ListOrphans
  BY <1>4, ListOrphansPreserves
<1>5. CASE Restart
  BY <1>5, RestartPreserves
<1>6. CASE UNCHANGED vars
  BY <1>6, StutterPreserves
<1> QED
  BY <1>1, <1>2, <1>3, <1>4, <1>5, <1>6 DEF Next

LEMMA SpecInv == Spec => []Inv
BY InitInv, NextInv, PTL DEF Spec

\* An import counts as received only while none of its checkouts is under way or
\* came to its end, and as returned only by the checkout it is linked to.
THEOREM ImportsFollow == Spec => []ImportFollowsCheckout
<1>1. Inv => ImportFollowsCheckout
  <2> SUFFICES ASSUME Inv, NEW i \in Imports
               PROVE  /\ import[i].status = "received" =>
                             /\ InProgress(i) = {}
                             /\ \A c \in Checkouts : checkout[c].import = i =>
                                    checkout[c].status # "return_approved"
                      /\ import[i].status = "returned" =>
                             checkout[import[i].link].status = "return_approved"
    BY DEF ImportFollowsCheckout
  <2>1. RowFits(i)
    BY DEF Inv, ImportFits
  <2>2. import[i].status = "received" => Live(i) = {}
    BY <2>1 DEF RowFits
  <2> QED
    BY <2>1, <2>2 DEF RowFits, Live, InProgress
<1> QED
  BY <1>1, SpecInv, PTL

\* Two starts of a return never create two checkouts of the same equipment.
THEOREM OneReturn == Spec => []ReturnHasOneCheckout
<1>1. Inv => ReturnHasOneCheckout
  <2> SUFFICES ASSUME Inv, NEW i \in Imports, NEW c \in InProgress(i),
                      NEW d \in InProgress(i)
               PROVE  c = d
    BY DEF ReturnHasOneCheckout
  <2>1. c \in Live(i) /\ d \in Live(i)
    BY DEF InProgress, Live
  <2> QED
    BY <2>1 DEF Inv, ImportFits, RowFits
<1> QED
  BY <1>1, SpecInv, PTL

\* Without a crash or a failed query the compensations leave no import waiting
\* for a return that nobody carries out.
THEOREM CompensationsComplete == Spec => []NoOrphanWithoutFault
<1>1. Inv => NoOrphanWithoutFault
  BY DEF Inv, ImportFits, OrphanFits, NoOrphanWithoutFault
<1> QED
  BY <1>1, SpecInv, PTL

\* Without them, equipment that is out for another purpose while a return of it
\* is refused is marked as out afterwards.
THEOREM RefusalLeavesMark == Spec => []RefusalRestoresMark
<1>1. Inv => RefusalRestoresMark
  BY DEF Inv, Typed, ImportFits, LentFits, RefusalRestoresMark, Out
<1> QED
  BY <1>1, SpecInv, PTL

-----------------------------------------------------------------------------
(* The rest of the types *)

Numbered ==
    /\ number \in [Imports -> Numbers \cup {NoNumber}]
    /\ kept \subseteq Imports
    /\ faulty \in BOOLEAN

LEMMA Unnumbered ==
    ASSUME Numbered, number' = number, kept' \subseteq kept, faulty' \in {faulty, TRUE}
    PROVE  Numbered'
BY DEF Numbered

LEMMA EquipmentKept ==
    ASSUME NEW i, NEW status, SetEquipment(i, status) \/ KeepsEquipment
    PROVE  kept' \subseteq kept
BY DEF SetEquipment, KeepsEquipment

LEMMA SetAvailableKeeps ==
    ASSUME Inv, Numbered, NEW r \in Requests, SetAvailable(r)
    PROVE  Numbered'
<1>1. request[r].import \in Imports
  <2>1. request[r] \in RequestStates /\ request[r].phase = "claimed"
    BY DEF Inv, Typed, SetAvailable
  <2> QED
    BY <2>1 DEF RequestStates, Idle
<1> QED
  BY <1>1 DEF SetAvailable, Numbered

\* The number received is a number: the next one after those that were given.
LEMMA receiveKeeps ==
    ASSUME Inv, Numbered, NEW i \in Imports, receive(i)
    PROVE  Numbered'
<1>1. import[i].letter \in Letters
  BY ImportIs DEF receive, ImportRows
<1>2. Given \in SUBSET Numbers
  BY DEF Given, Numbered
<1>3. NextNumber(Given, import[i].letter) \in Numbers
  BY <1>1, <1>2, NextNumberIsTyped
<1>4. number' \in [Imports -> Numbers \cup {NoNumber}]
  BY <1>3 DEF receive, Numbered
<1> QED
  BY <1>4 DEF receive, SetEquipment, Numbered

LEMMA NumberedPreserved ==
    Inv /\ Numbered /\ [Next]_vars => Numbered'
<1> SUFFICES ASSUME Inv, Numbered, [Next]_vars PROVE Numbered'
  OBVIOUS
<1>1. ASSUME NEW r \in Requests, RequestStep(r) PROVE Numbered'
  <2>1. CASE SetAvailable(r)
    BY <2>1, SetAvailableKeeps
  <2>2. CASE RestoreEquipment(r)
    BY <2>2, Unnumbered, EquipmentKept DEF RestoreEquipment
  <2>3. CASE RestoreFails(r) \/ LastStepFails(r)
    BY <2>3, Unnumbered DEF RestoreFails, LastStepFails
  <2>4. CASE \E i \in Imports : InitiateReturn(r, i)
    BY <2>4, Unnumbered DEF InitiateReturn, Claim
  <2>5. CASE \/ SetAvailableFails(r) \/ CheckActive(r) \/ CreateFails(r)
             \/ \E c \in Checkouts : CreateCheckout(r, c)
    BY <2>5, Unnumbered DEF SetAvailableFails, CheckActive, CreateFails, CreateCheckout
  <2>6. CASE UndoImport(r) \/ Link(r)
    BY <2>6, Unnumbered DEF UndoImport, Link
  <2> QED
    BY <1>1, <2>1, <2>2, <2>3, <2>4, <2>5, <2>6 DEF RequestStep
<1>2. ASSUME NEW i \in Imports, ImportStep(i) PROVE Numbered'
  <2>1. CASE receive(i)
    BY <2>1, receiveKeeps
  <2>2. CASE \/ \E letter \in Letters : create(i, letter)
             \/ approve(i) \/ reject(i) \/ cancel(i)
    BY <2>2, Unnumbered DEF create, approve, reject, cancel
  <2>3. CASE Lend(i) \/ ComeBack(i) \/ MarkNonConforming(i)
    BY <2>3, Unnumbered, EquipmentKept DEF Lend, ComeBack, MarkNonConforming
  <2>4. CASE RecoverOrphan(i) \/ RecoverFails(i)
    BY <2>4, Unnumbered DEF RecoverOrphan, RecoverFails
  <2> QED
    BY <1>2, <2>1, <2>2, <2>3, <2>4 DEF ImportStep
<1>3. ASSUME NEW c \in Checkouts, CheckoutStep(c) PROVE Numbered'
  <2>1. CASE StartCheckout(c) \/ ReturnApproved(c)
    BY <2>1, Unnumbered, EquipmentKept DEF StartCheckout, ReturnApproved
  <2>2. CASE CancelCheckout(c) \/ RejectCheckout(c)
    BY <2>2, Unnumbered DEF CancelCheckout, RejectCheckout
  <2>3. CASE ReadEvent(c) \/ onReturnCanceled(c) \/ EventFails(c)
    BY <2>3, Unnumbered DEF ReadEvent, onReturnCanceled, EventFails
  <2>4. CASE onReturnCompleted(c)
    BY <2>4, Unnumbered, EquipmentKept DEF onReturnCompleted
  <2> QED
    BY <1>3, <2>1, <2>2, <2>3, <2>4 DEF CheckoutStep
<1>4. CASE ListOrphans
  BY <1>4, Unnumbered DEF ListOrphans
<1>5. CASE Restart
  BY <1>5, Unnumbered DEF Restart
<1>6. CASE UNCHANGED vars
  BY <1>6, Unnumbered DEF vars
<1> QED
  BY <1>1, <1>2, <1>3, <1>4, <1>5, <1>6 DEF Next

\* Every import that is received gets a well-formed number, the saga remembers
\* what it has written, and every row and request has its type.
THEOREM ImportsTyped == Spec => []TypeOK
<1>1. Init => Numbered
  BY DEF Init, Numbered
<1>2. Inv /\ Numbered => TypeOK
  BY DEF Inv, Typed, Numbered, TypeOK
<1> QED
  BY <1>1, <1>2, NumberedPreserved, SpecInv, PTL DEF Spec

-----------------------------------------------------------------------------
(* The refinement of BorrowedReturn *)

ImportTags   == ImportStatuses \cup {"none"}
CheckoutTags == {"none", "pending", "out", "return_approved", "canceled", "rejected"}

LEMMA TagsOf ==
    ASSUME Inv
    PROVE  /\ \A i \in Imports : import[i].status \in ImportTags
           /\ \A c \in Checkouts : checkout[c].status \in CheckoutTags
<1>1. \A i \in Imports : import[i].status \in ImportTags
  BY NoImportIsNone DEF Inv, Typed, ImportRows, ImportTags
<1>2. \A c \in Checkouts : checkout[c].status \in CheckoutTags
  BY DEF Inv, Typed, CheckoutRows, CheckoutTags, NoCheckout
<1> QED
  BY <1>1, <1>2

LEMMA StageValues ==
    /\ stageOf["none"] = "none"         /\ stageOf["pending"] = "asked"
    /\ stageOf["approved"] = "agreed"   /\ stageOf["rejected"] = "dropped"
    /\ stageOf["canceled"] = "dropped"  /\ stageOf["received"] = "here"
    /\ stageOf["returned"] = "gone"     /\ stageOf["return_requested"] = "leaving"
BY DEF stageOf

LEMMA CourseValues ==
    /\ courseOf["none"] = "none"             /\ courseOf["pending"] = "open"
    /\ courseOf["out"] = "open"              /\ courseOf["return_approved"] = "done"
    /\ courseOf["canceled"] = "failed"       /\ courseOf["rejected"] = "failed"
BY DEF courseOf

\* Who takes the equipment back, or took it, are the checkouts not turned down.
LEMMA TakersAreLive ==
    ASSUME Inv, NEW i \in Imports
    PROVE  Promise!Takers(i) = Live(i)
<1>1. \A c \in Checkouts :
          courseOf[checkout[c].status] \in {"open", "done"}
              <=> checkout[c].status \in {"pending", "out", "return_approved"}
  BY TagsOf, CourseValues DEF CheckoutTags
<1> QED
  BY <1>1 DEF Promise!Takers, Live

\* A write that changes the status of one import moves it from stage to stage.
LEMMA Turned ==
    ASSUME Inv, NEW i \in Imports, import[i] \in ImportRows, UNCHANGED checkout,
           NEW status \in ImportStatuses, NEW link \in Checkouts \cup {NoId},
           Write(i, status, link),
           NEW from, stageOf[import[i].status] \in from
    PROVE  Promise!Moves(i, from, stageOf[status])
<1>1. import'[i].status = status /\ \A j \in Imports \ {i} : import'[j] = import[j]
  BY Written
<1> QED
  BY <1>1 DEF Promise!Moves

\* What leaves the statuses alone is no step of the promise.
LEMMA StatusesKept ==
    ASSUME UNCHANGED checkout, \A i \in Imports : import'[i].status = import[i].status
    PROVE  UNCHANGED Promise!vars
BY DEF Promise!vars

Promised == Promise!Next \/ UNCHANGED Promise!vars

LEMMA createPromised ==
    ASSUME Inv, NEW i \in Imports, NEW letter \in Letters, create(i, letter)
    PROVE  Promised
<1>1. /\ import[i].status = "none" /\ import'[i].status = "pending"
      /\ \A j \in Imports \ {i} : import'[j] = import[j]
      /\ UNCHANGED checkout
  BY NoImportIsNone DEF create, Inv, Typed
<1>2. Promise!Ask(i)
  BY <1>1, StageValues DEF Promise!Ask, Promise!Moves
<1> QED
  BY <1>2 DEF Promised, Promise!Next

LEMMA DecidedPromised ==
    ASSUME Inv, NEW i \in Imports, approve(i) \/ reject(i) \/ cancel(i) \/ receive(i)
    PROVE  Promised
<1>1. /\ import[i].status \in {"pending", "approved"} /\ UNCHANGED checkout
      /\ import[i] \in ImportRows
  BY ImportIs DEF approve, reject, cancel, receive
<1>2. CASE approve(i)
  <2>1. Promise!Moves(i, {"asked"}, stageOf["approved"])
    BY <1>1, <1>2, Turned, StageValues DEF approve, ImportStatuses
  <2> QED
    BY <2>1, StageValues DEF Promised, Promise!Next, Promise!Agree
<1>3. CASE reject(i) \/ cancel(i)
  <2>1. PICK status \in {"rejected", "canceled"} : Write(i, status, NoId)
    BY <1>3 DEF reject, cancel
  <2>2. Promise!Moves(i, {"asked", "agreed"}, stageOf[status])
    BY <1>1, <2>1, Turned, StageValues DEF ImportStatuses
  <2> QED
    BY <2>2, StageValues DEF Promised, Promise!Next, Promise!Drop
<1>4. CASE receive(i)
  <2>1. Promise!Moves(i, {"agreed"}, stageOf["received"])
    BY <1>1, <1>4, Turned, StageValues DEF receive, ImportStatuses
  <2> QED
    BY <2>1, StageValues DEF Promised, Promise!Next, Promise!Receive
<1> QED
  BY <1>2, <1>3, <1>4

\* The claim of the import begins its return.
LEMMA InitiateReturnPromised ==
    ASSUME Inv, NEW r \in Requests, NEW i \in Imports, InitiateReturn(r, i)
    PROVE  Promised
<1>1. import[i] \in ImportRows /\ import[i].link \in Checkouts \cup {NoId}
  BY ImportIs DEF InitiateReturn
<1>2. Promise!Moves(i, {"here"}, stageOf["return_requested"])
  BY <1>1, Turned, StageValues DEF InitiateReturn, Claim, ImportStatuses
<1> QED
  BY <1>2, StageValues DEF Promised, Promise!Next, Promise!Begin

\* Whoever holds the claim finds nobody else taking the equipment, although the
\* look for another checkout was a step of its own.
LEMMA CreateCheckoutPromised ==
    ASSUME Inv, NEW r \in Requests, NEW c \in Checkouts, CreateCheckout(r, c)
    PROVE  Promised
<1> DEFINE i == request[r].import
<1>1. request[r].phase = "checked" /\ request[r] \in RequestStates
  BY DEF CreateCheckout, Inv, Typed
<1>2. i \in Imports /\ r \in InFlight(i)
  BY <1>1 DEF RequestStates, Idle, InFlight
<1>3. HoldsClaim(i, request[r])
  BY <1>2 DEF Inv, ImportFits, ClaimFits
<1>4. import[i].status = "return_requested" /\ Live(i) = {}
  BY <1>1, <1>3 DEF HoldsClaim
<1>5. PICK k \in Imports : k = i
  BY <1>2
<1>6. /\ checkout[c] = NoCheckout /\ checkout \in [Checkouts -> CheckoutRows \cup {NoCheckout}]
      /\ checkout' = [checkout EXCEPT ![c] = [import |-> k, status |-> "pending"]]
      /\ UNCHANGED import
  BY <1>5 DEF CreateCheckout, Inv, Typed
<1>7. /\ checkout'[c].import = k /\ checkout'[c].status = "pending"
      /\ \A d \in Checkouts \ {c} : checkout'[d] = checkout[d]
      /\ checkout[c].status = "none"
  BY <1>6 DEF NoCheckout
<1>8. Promise!Take(k, c)
  BY <1>4, <1>5, <1>6, <1>7, TakersAreLive, StageValues, CourseValues DEF Promise!Take
<1> QED
  BY <1>8 DEF Promised, Promise!Next

\* A compensation puts the equipment back where it was: nobody took it.
LEMMA UndoImportPromised ==
    ASSUME Inv, NEW r \in Requests, UndoImport(r)
    PROVE  Promised
<1> DEFINE i == request[r].import
<1>1. request[r].phase = "undoing" /\ request[r] \in RequestStates /\ UNCHANGED checkout
  BY DEF UndoImport, Inv, Typed
<1>2. i \in Imports /\ r \in InFlight(i)
  BY <1>1 DEF RequestStates, Idle, InFlight
<1>3. HoldsClaim(i, request[r])
  BY <1>2 DEF Inv, ImportFits, ClaimFits
<1>4. import[i].status = "return_requested" /\ Live(i) = {} /\ import[i].version = request[r].version
  BY <1>1, <1>3 DEF HoldsClaim
<1>5. Write(i, "received", import[i].link)
  BY <1>4 DEF UndoImport
<1>6. import[i] \in ImportRows /\ import[i].link \in Checkouts \cup {NoId}
  BY <1>2, <1>4, ImportIs
<1>7. PICK k \in Imports : k = i
  BY <1>2
<1>8. Promise!Moves(k, {"leaving"}, stageOf["received"])
  BY <1>1, <1>4, <1>5, <1>6, <1>7, Turned, StageValues DEF ImportStatuses
<1>9. Promise!Stay(k)
  BY <1>4, <1>7, <1>8, TakersAreLive, StageValues DEF Promise!Stay
<1> QED
  BY <1>9 DEF Promised, Promise!Next

LEMMA LinkPromised ==
    ASSUME Inv, NEW r \in Requests, Link(r)
    PROVE  Promised
<1> DEFINE i == request[r].import
<1>1. request[r].phase = "created" /\ request[r] \in RequestStates /\ UNCHANGED checkout
  BY DEF Link, Inv, Typed
<1>2. i \in Imports /\ r \in InFlight(i) /\ request[r].checkout \in Checkouts
  BY <1>1 DEF RequestStates, Idle, InFlight
<1>3. HoldsClaim(i, request[r])
  BY <1>2 DEF Inv, ImportFits, ClaimFits
<1>4. import[i].status = "return_requested" /\ import[i].version = request[r].version
  BY <1>1, <1>3 DEF HoldsClaim
<1>5. Write(i, "return_requested", request[r].checkout)
  BY <1>4 DEF Link
<1>6. import[i] \in ImportRows
  BY <1>2, <1>4, ImportIs
<1>7. /\ import'[i].status = "return_requested"
      /\ \A j \in Imports \ {i} : import'[j] = import[j]
  BY <1>2, <1>5, <1>6, Written DEF ImportStatuses
<1> QED
  BY <1>1, <1>4, <1>7, StatusesKept DEF Promised

LEMMA CheckoutPromised ==
    ASSUME Inv, NEW c \in Checkouts,
           \/ StartCheckout(c) \/ ReturnApproved(c)
           \/ CancelCheckout(c) \/ RejectCheckout(c)
    PROVE  Promised
<1>1. PICK status \in {"out", "return_approved", "canceled", "rejected"} :
          /\ checkout' = [checkout EXCEPT ![c].status = status]
          /\ checkout[c].status \in {"pending", "out"}
          /\ UNCHANGED import
  BY DEF StartCheckout, ReturnApproved, CancelCheckout, RejectCheckout
<1>2. /\ checkout'[c].import = checkout[c].import /\ checkout'[c].status = status
      /\ \A d \in Checkouts \ {c} : checkout'[d] = checkout[d]
  <2> DEFINE old == checkout[c]
             row == [old EXCEPT !.status = status]
  <2>1. checkout' = [checkout EXCEPT ![c] = row] /\ old \in CheckoutRows
    BY <1>1 DEF Inv, Typed, CheckoutRows, NoCheckout
  <2> HIDE DEF old
  <2>2. row.import = old.import /\ row.status = status
    BY <2>1 DEF CheckoutRows
  <2> HIDE DEF row
  <2>3. checkout'[c] = row /\ \A d \in Checkouts \ {c} : checkout'[d] = checkout[d]
    BY <2>1 DEF Inv, Typed
  <2> QED
    BY <2>2, <2>3 DEF old
<1>3. courseOf[checkout[c].status] = "open"
  BY <1>1, CourseValues
<1>4. UNCHANGED import
  BY <1>1
<1>5. CASE status = "out"
  BY <1>2, <1>3, <1>4, <1>5, CourseValues DEF Promised, Promise!vars
<1>6. CASE status = "return_approved"
  <2>1. Promise!Ends(c, "done")
    BY <1>2, <1>3, <1>6, <1>4, CourseValues DEF Promise!Ends
  <2> QED
    BY <2>1 DEF Promised, Promise!Next
<1>7. CASE status \in {"canceled", "rejected"}
  <2>1. Promise!Ends(c, "failed")
    BY <1>2, <1>3, <1>7, <1>4, CourseValues DEF Promise!Ends
  <2> QED
    BY <2>1 DEF Promised, Promise!Next
<1> QED
  BY <1>5, <1>6, <1>7

\* Listener and scheduler find the equipment gone only with the checkout of the
\* import, and here only when that checkout did not take it.
LEMMA FollowedPromised ==
    ASSUME Inv, NEW i \in Imports, NEW c \in Checkouts, import[i].link = c,
           NEW status \in {"received", "returned"}, NEW link \in {NoId, c},
           \/ /\ checkout[c].status = "return_approved"
              /\ status = "returned"
           \/ /\ checkout[c].status = "canceled"
              /\ status = "received"
              /\ import[i].status = "return_requested",
           Write(i, status, link),
           UNCHANGED checkout
    PROVE  Promised
<1>1. RowFits(i) /\ c # NoId
  BY NoIdAssumption DEF Inv, ImportFits
<1>2. /\ import[i].status \in {"return_requested", "returned"}
      /\ checkout[c].import = i /\ Live(i) \subseteq {c}
  BY <1>1 DEF RowFits
<1>3. import[i] \in ImportRows /\ status \in ImportStatuses /\ link \in Checkouts \cup {NoId}
  BY <1>2, ImportIs DEF ImportStatuses
<1>4. CASE import[i].status = "returned"
  <2>1. status = "returned"
    BY <1>4
  <2>2. \A j \in Imports : import'[j].status = import[j].status
    BY <1>3, <1>4, <2>1, Written
  <2> QED
    BY <2>2, StatusesKept DEF Promised
<1>5. CASE import[i].status = "return_requested" /\ status = "returned"
  <2>1. Promise!Moves(i, {"leaving"}, stageOf["returned"])
    BY <1>3, <1>5, Turned, StageValues
  <2>2. c \in Live(i) /\ courseOf[checkout[c].status] = "done"
    BY <1>2, <1>5, CourseValues DEF Live
  <2>3. Promise!Leave(i)
    BY <2>1, <2>2, TakersAreLive, StageValues DEF Promise!Leave
  <2> QED
    BY <2>3 DEF Promised, Promise!Next
<1>6. CASE import[i].status = "return_requested" /\ status = "received"
  <2>1. Promise!Moves(i, {"leaving"}, stageOf["received"])
    BY <1>3, <1>6, Turned, StageValues
  <2>2. Live(i) = {}
    BY <1>2, <1>6 DEF Live
  <2>3. Promise!Stay(i)
    BY <2>1, <2>2, TakersAreLive, StageValues DEF Promise!Stay
  <2> QED
    BY <2>3 DEF Promised, Promise!Next
<1> QED
  BY <1>2, <1>4, <1>5, <1>6

LEMMA EventPromised ==
    ASSUME Inv, NEW c \in Checkouts, onReturnCompleted(c) \/ onReturnCanceled(c)
    PROVE  Promised
<1>1. event[c].phase = "read" /\ event[c] \in EventStates /\ UNCHANGED checkout
  BY DEF onReturnCompleted, onReturnCanceled, Inv, Typed
<1>2. PICK i \in Imports : i = event[c].import
  BY <1>1 DEF EventStates, Idle
<1>3. import[i].version = event[c].version => import[i].link = c
  BY <1>1, <1>2 DEF Inv, EventsFit, EventFits
<1>4. CASE UNCHANGED import
  BY <1>1, <1>4, StatusesKept DEF Promised
<1>5. CASE import' # import
  <2>1. import[i].link = c
    BY <1>2, <1>3, <1>5 DEF onReturnCompleted, onReturnCanceled
  <2>2. CASE onReturnCompleted(c)
    BY <1>1, <1>2, <1>5, <2>1, <2>2, FollowedPromised DEF onReturnCompleted
  <2>3. CASE onReturnCanceled(c)
    BY <1>1, <1>2, <1>5, <2>1, <2>3, FollowedPromised DEF onReturnCanceled
  <2> QED
    BY <2>2, <2>3
<1> QED
  BY <1>4, <1>5

LEMMA RecoverOrphanPromised ==
    ASSUME Inv, NEW i \in Imports, RecoverOrphan(i)
    PROVE  Promised
<1>1. scan[i] # Idle /\ scan[i] \in ScanStates /\ UNCHANGED checkout
  BY DEF RecoverOrphan, Inv, Typed
<1>2. scan[i].checkout \in Checkouts
  BY <1>1 DEF ScanStates
<1>3. /\ checkout[scan[i].checkout].status \in {"return_approved", "canceled"}
      /\ scan[i].version = import[i].version => import[i].link = scan[i].checkout
  BY <1>1 DEF Inv, ScansFit, ScanFits, Ends
<1>4. CASE UNCHANGED import
  BY <1>1, <1>4, StatusesKept DEF Promised
<1>5. CASE import' # import
  <2> DEFINE c == scan[i].checkout
             status == Ends[checkout[c].status]
  <2>1. /\ import[i].link = c /\ import[i].status = "return_requested"
        /\ Write(i, status, IF status = "received" THEN NoId ELSE import[i].link)
    BY <1>3, <1>5 DEF RecoverOrphan
  <2>2. /\ checkout[c].status = "return_approved" => status = "returned"
        /\ checkout[c].status = "canceled" => status = "received"
    BY DEF Ends
  <2>3. PICK link \in {NoId, c} : Write(i, status, link)
    BY <2>1
  <2>4. status \in {"received", "returned"}
    BY <1>3, <2>2
  <2> HIDE DEF status
  <2> QED
    BY <1>1, <1>2, <1>3, <2>1, <2>2, <2>3, <2>4, FollowedPromised
<1> QED
  BY <1>4, <1>5

\* Every other step leaves the rows of imports and checkouts alone.
LEMMA NextPromised ==
    ASSUME Inv, [Next]_vars
    PROVE  Promised
<1>1. ASSUME UNCHANGED <<import, checkout>> PROVE Promised
  BY <1>1, StatusesKept DEF Promised
<1>2. ASSUME NEW r \in Requests, RequestStep(r) PROVE Promised
  <2>1. CASE \/ SetAvailable(r) \/ SetAvailableFails(r) \/ CheckActive(r) \/ CreateFails(r)
             \/ RestoreEquipment(r) \/ RestoreFails(r) \/ LastStepFails(r)
    BY <1>1, <2>1 DEF SetAvailable, SetAvailableFails, CheckActive, CreateFails,
       RestoreEquipment, RestoreFails, LastStepFails
  <2> QED
    BY <1>2, <2>1, InitiateReturnPromised, CreateCheckoutPromised, UndoImportPromised,
       LinkPromised DEF RequestStep
<1>3. ASSUME NEW i \in Imports, ImportStep(i) PROVE Promised
  <2>1. CASE Lend(i) \/ ComeBack(i) \/ MarkNonConforming(i) \/ RecoverFails(i)
    BY <1>1, <2>1 DEF Lend, ComeBack, MarkNonConforming, RecoverFails
  <2> QED
    BY <1>3, <2>1, createPromised, DecidedPromised, RecoverOrphanPromised DEF ImportStep
<1>4. ASSUME NEW c \in Checkouts, CheckoutStep(c) PROVE Promised
  <2>1. CASE ReadEvent(c) \/ EventFails(c)
    BY <1>1, <2>1 DEF ReadEvent, EventFails
  <2> QED
    BY <1>4, <2>1, CheckoutPromised, EventPromised DEF CheckoutStep
<1>5. CASE ListOrphans \/ Restart \/ UNCHANGED vars
  BY <1>1, <1>5 DEF ListOrphans, Restart, vars
<1> QED
  BY <1>2, <1>3, <1>4, <1>5 DEF Next

\* The saga of four commits, its compensations, the listeners of the checkouts'
\* ends and the scheduler implement BorrowedReturn, in which giving equipment
\* back begins, is carried out and ends in single steps: also when requests
\* race, queries fail, events are lost and the process restarts.
THEOREM ReturnKept == Spec => KeepsPromise
<1>1. Init => Promise!Init
  BY StageValues, CourseValues DEF Init, Promise!Init, NoImport, NoCheckout
<1>2. Inv /\ [Next]_vars => [Promise!Next]_(Promise!vars)
  BY NextPromised DEF Promised
<1> QED
  BY <1>1, <1>2, SpecInv, PTL DEF Spec, KeepsPromise, Promise!Spec

-----------------------------------------------------------------------------
(* The numbers of one classification *)

Received == { i \in Imports : number[i] # NoNumber }

\* An import has a number from its receipt on, and no serial is larger than the
\* count of receipts.
Counted ==
    \A i \in Received :
        /\ import[i].status \notin {"none", "pending", "approved"}
        /\ number[i].serial <= Cardinality(Received)

OneLetter == \A a, b \in Letters : a = b

LEMMA NumberIs ==
    ASSUME Numbered, NEW i \in Imports
    PROVE  /\ number[i] # NoNumber => number[i] \in Numbers
           /\ NoNumber \notin Numbers
BY LimitAssumption DEF Numbered, Numbers, NoNumber

\* Only a receipt gives a number.
LEMMA NumberStays ==
    ASSUME [Next]_vars, \A i \in Imports : ~ receive(i)
    PROVE  UNCHANGED number
<1>1. ASSUME NEW r \in Requests, RequestStep(r) PROVE UNCHANGED number
  BY <1>1 DEF RequestStep, InitiateReturn, Claim, SetAvailable, SetAvailableFails,
     CheckActive, CreateCheckout, CreateFails, RestoreEquipment, RestoreFails, UndoImport,
     Link, LastStepFails
<1>2. ASSUME NEW i \in Imports, ImportStep(i) PROVE UNCHANGED number
  BY <1>2 DEF ImportStep, create, approve, reject, cancel, Lend, ComeBack,
     MarkNonConforming, RecoverOrphan, RecoverFails
<1>3. ASSUME NEW c \in Checkouts, CheckoutStep(c) PROVE UNCHANGED number
  BY <1>3 DEF CheckoutStep, StartCheckout, ReturnApproved, CancelCheckout, RejectCheckout,
     ReadEvent, onReturnCompleted, onReturnCanceled, EventFails
<1> QED
  BY <1>1, <1>2, <1>3 DEF Next, ListOrphans, Restart, vars

\* What is received was only asked for or agreed before it was received: the
\* promise has no way back.
LEMMA NoWayBack ==
    ASSUME Inv, Inv', [Next]_vars, NEW i \in Imports,
           import'[i].status \in {"none", "pending", "approved"}
    PROVE  import[i].status \in {"none", "pending", "approved"}
<1> DEFINE s(k) == stageOf[import[k].status]
           t(k) == stageOf[import'[k].status]
<1>1. t(i) \in {"none", "asked", "agreed"}
  BY StageValues
<1>2. s(i) \in {"none", "asked", "agreed"}
  <2> DEFINE before == [k \in Imports |-> s(k)]
             after  == [k \in Imports |-> t(k)]
  <2>1. before[i] = s(i) /\ after[i] = t(i)
    OBVIOUS
  <2>2. CASE after = before
    <3> HIDE DEF before, after, s, t
    <3> QED  BY <1>1, <2>1, <2>2
  <2>3. ASSUME NEW j \in Imports, NEW from, NEW to, Promise!Moves(j, from, to),
               \/ from \subseteq {"none", "asked", "agreed"}
               \/ to \in {"here", "leaving", "gone"}
        PROVE  before[i] \in {"none", "asked", "agreed"}
    <3>1. before[j] \in from /\ after = [before EXCEPT ![j] = to]
      BY <2>3 DEF Promise!Moves
    <3>2. before = [k \in Imports |-> before[k]]
      OBVIOUS
    <3> HIDE DEF before, after, s, t
    <3>3. after[i] = IF i = j THEN to ELSE before[i]
      BY <3>1, <3>2
    <3> QED  BY <1>1, <2>1, <2>3, <3>1, <3>3
  <2>4. CASE UNCHANGED Promise!vars \/ \E c \in Checkouts, end \in {"done", "failed"} :
                 Promise!Ends(c, end) \/ \E j \in Imports : Promise!Take(j, c)
    <3>1. after = before
      BY <2>4 DEF Promise!vars, Promise!Ends, Promise!Take
    <3> QED  BY <2>2, <3>1
  <2>5. CASE \E j \in Imports : \/ Promise!Ask(j) \/ Promise!Agree(j) \/ Promise!Drop(j)
                                \/ Promise!Receive(j)
    <3> HIDE DEF before
    <3> QED
      BY <2>1, <2>3, <2>5 DEF Promise!Ask, Promise!Agree, Promise!Drop, Promise!Receive
  <2>6. CASE \E j \in Imports : Promise!Begin(j) \/ Promise!Stay(j) \/ Promise!Leave(j)
    <3> HIDE DEF before
    <3> QED
      BY <2>1, <2>3, <2>6 DEF Promise!Begin, Promise!Stay, Promise!Leave
  <2> QED
    BY <2>4, <2>5, <2>6, NextPromised DEF Promised, Promise!Next
<1> QED
  BY <1>2, TagsOf, StageValues DEF ImportTags, ImportStatuses

\* The serials given so far are below the limit as long as there are fewer
\* imports than serials, so the next number is new.
LEMMA NextIsNew ==
    ASSUME OneLetter, IsFiniteSet(Imports), Cardinality(Imports) < Limit,
           Numbered, Counted, NEW letter \in Letters
    PROVE  /\ NextNumber(Given, letter) \notin Given
           /\ \A i \in Received : number[i] \in Given
           /\ Given # {} => /\ Largest(Given) \in Given
                            /\ NextSerial(Given) = Largest(Given).serial + 1
<1>1. Received \in SUBSET Imports
  BY DEF Received
<1>2. /\ Cardinality(Received) \in Nat /\ Cardinality(Imports) \in Nat
      /\ Cardinality(Received) <= Cardinality(Imports)
  BY <1>1, FS_Subset, FS_CardinalityType
<1>3. Given \in SUBSET Numbers /\ \A i \in Received : number[i] \in Given
  BY NumberIs DEF Given, Received
<1>4. ASSUME NEW a \in Given PROVE a.letter = letter /\ a.serial < Limit
  <2>1. PICK i \in Received : a = number[i]
    BY <1>4 DEF Given, Received
  <2>2. a.letter \in Letters /\ a.serial \in Nat
    BY <1>3, <1>4, LimitAssumption DEF Numbers
  <2>3. a.serial <= Cardinality(Received)
    BY <2>1 DEF Counted
  <2> QED
    BY <1>2, <2>2, <2>3, LimitAssumption DEF OneLetter
<1>5. ASSUME Given # {}
      PROVE  Largest(Given) \in Given /\ NextSerial(Given) = Largest(Given).serial + 1
  <2> DEFINE s == Largest(Given).serial
  <2>1. Largest(Given) \in Given
    BY <1>3, <1>4, <1>5, LargestSerial
  <2>2. s \in Nat /\ s < Limit
    BY <1>3, <1>4, <2>1, LimitAssumption DEF Numbers
  <2>3. NextSerial(Given) = (s % Limit) + 1
    BY <1>5 DEF NextSerial
  <2> HIDE DEF s
  <2>4. s % Limit = s
    BY <2>2, LimitAssumption
  <2> QED
    BY <2>1, <2>3, <2>4 DEF s
<1>6. NextNumber(Given, letter) \notin Given
  BY <1>3, <1>4, NextNumberIsNew
<1> QED
  BY <1>3, <1>5, <1>6

LEMMA CountedPreserved ==
    ASSUME OneLetter, IsFiniteSet(Imports), Cardinality(Imports) < Limit,
           Inv, Inv', Numbered, Numbered', Counted, [Next]_vars
    PROVE  Counted'
<1>1. CASE UNCHANGED number
  <2>1. Received' = Received
    BY <1>1 DEF Received
  <2> QED
    BY <1>1, <2>1, NoWayBack DEF Counted, Received
<1>2. ASSUME NEW i \in Imports, receive(i) PROVE Counted'
  <2> DEFINE next == NextNumber(Given, import[i].letter)
  <2>1. import[i] \in ImportRows /\ import[i].letter \in Letters
    BY <1>2, ImportIs DEF receive, ImportRows
  <2>2. number[i] = NoNumber
    BY <1>2 DEF receive, Counted, Received
  <2>3. number' = [number EXCEPT ![i] = next] /\ next \in Numbers
    <3>1. Given \in SUBSET Numbers
      BY NumberIs DEF Given
    <3> QED
      BY <1>2, <2>1, <3>1, NextNumberIsTyped DEF receive
  <2>4. /\ number'[i] = next /\ next # NoNumber
        /\ \A j \in Imports \ {i} : number'[j] = number[j]
    BY <2>3, NumberIs DEF Numbered
  <2>5. Received' = Received \cup {i} /\ i \notin Received
    BY <2>2, <2>4 DEF Received
  <2>6. /\ IsFiniteSet(Received) /\ Cardinality(Received) \in Nat
        /\ Cardinality(Received') = Cardinality(Received) + 1
    <3>1. Received \in SUBSET Imports
      BY DEF Received
    <3>2. IsFiniteSet(Received)
      BY <3>1, FS_Subset
    <3> QED
      BY <2>5, <3>2, FS_CardinalityType, FS_AddElement
  <2>7. next.serial <= Cardinality(Received) + 1
    <3>1. next.serial = NextSerial(Given)
      BY DEF NextNumber
    <3>2. CASE Given = {}
      BY <2>6, <3>1, <3>2 DEF NextSerial
    <3>3. CASE Given # {}
      <4>1. Largest(Given) \in Given /\ next.serial = Largest(Given).serial + 1
        BY <2>1, <3>1, <3>3, NextIsNew
      <4>2. PICK j \in Received : Largest(Given) = number[j]
        BY <4>1 DEF Given, Received
      <4>3. number[j].serial \in Nat /\ number[j].serial <= Cardinality(Received)
        BY <4>2, NumberIs, LimitAssumption DEF Counted, Received, Numbers
      <4> QED
        BY <2>6, <4>1, <4>2, <4>3
    <3> QED  BY <3>2, <3>3
  <2>8. \A j \in Received' : import'[j].status \notin {"none", "pending", "approved"}
    <3>1. import'[i].status = "received"
      BY <1>2, <2>1, Written DEF receive, ImportStatuses
    <3>2. ASSUME NEW j \in Received
          PROVE  import'[j].status \notin {"none", "pending", "approved"}
      BY NoWayBack DEF Counted, Received
    <3> QED  BY <2>5, <3>1, <3>2
  <2>9. \A j \in Received : number[j].serial \in Nat /\ number[j].serial <= Cardinality(Received)
    BY NumberIs, LimitAssumption DEF Counted, Received, Numbers
  <2> HIDE DEF next
  <2>10. ASSUME NEW j \in Received' PROVE number'[j].serial <= Cardinality(Received')
    <3>1. CASE j = i
      BY <2>4, <2>6, <2>7, <3>1
    <3>2. CASE j # i
      <4>1. j \in Received /\ number'[j] = number[j]
        BY <2>4, <2>5, <3>2 DEF Received
      <4> QED
        BY <2>6, <2>9, <4>1
    <3> QED  BY <3>1, <3>2
  <2> QED
    BY <2>8, <2>10 DEF Counted
<1> QED
  BY <1>1, <1>2, NumberStays

\* When all borrowed equipment has one classification and there is less of it
\* than there are serials of four digits, a receipt never meets a number that
\* was given before, however many are received and given back in between: the
\* unique constraint refuses nobody.
THEOREM ReceiptsAreNumbered ==
    ASSUME OneLetter, IsFiniteSet(Imports), Cardinality(Imports) < Limit
    PROVE  Spec => []NumbersDoNotCollide
<1>1. Init => Numbered /\ Counted
  BY DEF Init, Numbered, Counted, Received
<1>2. Inv /\ Inv' /\ Numbered /\ Counted /\ [Next]_vars => Numbered' /\ Counted'
  BY NumberedPreserved, CountedPreserved
<1>3. Numbered /\ Counted => NumbersDoNotCollide
  <2> SUFFICES ASSUME Numbered, Counted, NEW letter \in Letters
               PROVE  NextNumber(Given, letter) \notin Given
    BY DEF NumbersDoNotCollide
  <2> QED
    BY NextIsNew
<1> QED
  BY <1>1, <1>2, <1>3, SpecInv, PTL DEF Spec

=============================================================================
