------------------------- MODULE DocumentApprovalProofs -------------------------
(***************************************************************************)
(* Proofs about the chains of documents, for any number of documents,      *)
(* people and requests and any bounds.  They assume that clients send the  *)
(* version of the detail they act on, and that no second disposal of the   *)
(* same equipment is requested; the counterexamples of README.md show that *)
(* neither can be left out.                                                *)
(***************************************************************************)
EXTENDS DocumentApproval, TLAPS

-----------------------------------------------------------------------------
(* The inductive invariant *)

\* A copy of a row is older than the row, or says what the row says.
Agrees(copy, row) ==
    /\ copy.version <= row.version
    /\ copy.version = row.version /\ row.status # "deleted" =>
           /\ copy.status = row.status
           /\ copy.body = row.body
           /\ copy.signed = row.signed

CopiesAgree ==
    \A d \in Docs : Agrees(detail[d], doc[d]) /\ Agrees(fill[d], doc[d])

\* A request that will compare a version has one that is older than its row's,
\* or its check holds of the row and what its person saw is what the row says.
RequestAgrees(req, row) ==
    /\ row # NoRow
    /\ req.step.op \notin Unversioned =>
           /\ req.version <= row.version
           /\ req.version = row.version /\ row.status # "deleted" =>
                  /\ Allows(req.step, row, req.user)
                  /\ req.step.op # "cancel" => req.content = Content(req.doc, row)

RequestsAgree ==
    /\ \A r \in Requests :
           request[r].phase = "step" => RequestAgrees(request[r], doc[request[r].doc])
    /\ \A r \in Requests :
           request[r].phase = "create" /\ kind = "plan" => request[r].parent \in Docs

\* The signatures that stand in a status.
Expected ==
    [ none             |-> {},
      draft            |-> {},
      rejected         |-> {},
      pending          |-> {},
      submitted        |-> {"submit"},
      pending_review   |-> {"submit"},
      pending_approval |-> {"submit", "review"},
      reviewed         |-> {"review"} \cup
                           (IF kind = "disposal" THEN {} ELSE {"submit"}),
      approved         |-> Required[kind] \ {"quality"},
      quality_approved |-> {"submit", "approve", "quality"} ]

StandingFits ==
    \A d \in Docs : doc[d].status # "deleted" => Standing(d) = Expected[doc[d].status]

OneDisposal ==
    kind = "disposal" =>
        \A c, d \in Docs : doc[c] # NoRow /\ doc[d] # NoRow => c = d

Inv ==
    /\ TypeOK
    /\ CopiesAgree
    /\ RequestsAgree
    /\ OneDisposal
    /\ StandingFits
    /\ ApprovedAsSeen
    /\ ApproverIsIndependent
    /\ EquipmentFollowsRequest

Hypotheses == ClientVersions = FALSE /\ "disposal" \notin Seconds

-----------------------------------------------------------------------------
(* What the chains have in common *)

LEMMA ChainTypes ==
    ASSUME NEW k \in AllKinds, NEW step \in Chain[k]
    PROVE  /\ step.from \subseteq Statuses[k]
           /\ step.to \in Statuses[k] \cup {"deleted"}
           /\ step.apart \subseteq Signatures
           /\ step.own \subseteq Signatures
<1>1. CASE k = "intermediate"
  BY <1>1 DEF Chain, InspectionDrafting, InspectionApproval, InspectionReturns,
     InspectionRemoval, Step, Apart, Own, Statuses, Signatures
<1>2. CASE k = "self"
  BY <1>2 DEF Chain, SelfDrafting, SelfApproval, SelfReturns, SelfRemoval,
     Step, Apart, Own, Statuses, Signatures
<1>3. CASE k = "validation"
  BY <1>3 DEF Chain, ValidationDrafting, ValidationApproval, ValidationReturns,
     Step, Apart, Own, Statuses, Signatures
<1>4. CASE k = "plan"
  BY <1>4 DEF Chain, PlanDrafting, PlanSubmission, PlanApproval, PlanReturns,
     Step, Apart, Own, Statuses, Signatures
<1>5. CASE k = "disposal"
  BY <1>5 DEF Chain, DisposalReview, DisposalApproval, DisposalCancel,
     Step, Apart, Own, Statuses, Signatures
<1> QED
  BY <1>1, <1>2, <1>3, <1>4, <1>5 DEF AllKinds

\* A step that compares a version gives the next signature or ends the round;
\* whoever it must be apart from has signed, and whoever signs anew is not yet
\* compared with anyone.
Orderly(k, step, s) ==
    /\ step.op \in {"submit", "review", "approve", "quality", "edit", "reject",
                    "withdraw", "resubmit", "rejectReview", "rejectApproval"}
    /\ step.to # "deleted"
    /\ step.op \notin Signatures => step.to \in {"draft", "rejected"}
    /\ step.op \in Signatures =>
           /\ step.to \notin {"draft", "rejected"}
           /\ Expected[step.to] = Expected[s] \cup {step.op}
    /\ \A pair \in Independent[k] :
           /\ step.op = pair[1] => pair[2] \in step.apart
           /\ step.op = pair[2] => pair[1] \notin Expected[s] \cup {step.op}
    /\ step.op = "edit" => s = "draft"
    /\ s # IF k = "validation" THEN "quality_approved" ELSE "approved"

LEMMA ChainOrder ==
    ASSUME kind \in AllKinds, NEW step \in Chain[kind], NEW s \in step.from,
           step.op \notin Unversioned, step.op # "cancel"
    PROVE  Orderly(kind, step, s)
<1>1. CASE kind = "intermediate"
  BY <1>1 DEF Chain, InspectionDrafting, InspectionApproval, InspectionReturns,
     InspectionRemoval, Step, Apart, Own, Signatures, Expected, Required,
     Independent, Unversioned, Orderly
<1>2. CASE kind = "self"
  BY <1>2 DEF Chain, SelfDrafting, SelfApproval, SelfReturns, SelfRemoval,
     Step, Apart, Own, Signatures, Expected, Required, Independent, Unversioned, Orderly
<1>3. CASE kind = "validation"
  BY <1>3 DEF Chain, ValidationDrafting, ValidationApproval, ValidationReturns,
     Step, Apart, Own, Signatures, Expected, Required, Independent, Unversioned, Orderly
<1>4. CASE kind = "plan"
  BY <1>4 DEF Chain, PlanDrafting, PlanSubmission, PlanApproval, PlanReturns,
     Step, Apart, Own, Signatures, Expected, Required, Independent, Unversioned, Orderly
<1>5. CASE kind = "disposal"
  BY <1>5 DEF Chain, DisposalReview, DisposalApproval, DisposalCancel,
     Step, Apart, Own, Signatures, Expected, Required, Independent, Unversioned, Orderly
<1> QED
  BY <1>1, <1>2, <1>3, <1>4, <1>5 DEF AllKinds

LEMMA NoCancel ==
    ASSUME NEW k \in AllKinds, k # "disposal", NEW step \in Chain[k]
    PROVE  step.op # "cancel"
<1>1. CASE k = "intermediate"
  BY <1>1 DEF Chain, InspectionDrafting, InspectionApproval, InspectionReturns,
     InspectionRemoval, Step, Apart, Own
<1>2. CASE k = "self"
  BY <1>2 DEF Chain, SelfDrafting, SelfApproval, SelfReturns, SelfRemoval,
     Step, Apart, Own
<1>3. CASE k = "validation"
  BY <1>3 DEF Chain, ValidationDrafting, ValidationApproval, ValidationReturns,
     Step, Apart, Own
<1>4. CASE k = "plan"
  BY <1>4 DEF Chain, PlanDrafting, PlanSubmission, PlanApproval, PlanReturns,
     Step, Apart, Own
<1> QED
  BY <1>1, <1>2, <1>3, <1>4 DEF AllKinds

-----------------------------------------------------------------------------
(* What a step does to a document *)

\* A request that is about to commit has read a row that is still there: the
\* step is allowed on it and the person has seen it.
LEMMA MatchedRow ==
    ASSUME Inv, NEW r \in Requests, Matches(r)
    PROVE  /\ kind \in AllKinds
           /\ request[r].doc \in Docs
           /\ request[r].user \in Users
           /\ request[r].step \in Chain[kind]
           /\ request[r].content \in [doc : Docs, body : Nat]
           /\ doc[request[r].doc] \in Rows
           /\ doc[request[r].doc].status \in request[r].step.from
           /\ Allows(request[r].step, doc[request[r].doc], request[r].user)
           /\ request[r].step.op # "cancel" =>
                  request[r].content = Content(request[r].doc, doc[request[r].doc])
<1>1. request[r] \in [phase : {"step"}, doc : Docs, user : Users, step : Chain[kind],
                     version : Nat, equipment : Nat, content : [doc : Docs, body : Nat]]
  BY DEF Inv, TypeOK, RequestStates, Idle, Matches
<1>2. RequestAgrees(request[r], doc[request[r].doc])
  BY <1>1 DEF Inv, RequestsAgree
<1>3. doc[request[r].doc] \in Rows
  BY <1>1, <1>2 DEF Inv, TypeOK, RequestAgrees
<1>4. /\ Allows(request[r].step, doc[request[r].doc], request[r].user)
      /\ request[r].step.op # "cancel" =>
             request[r].content = Content(request[r].doc, doc[request[r].doc])
  BY <1>2 DEF RequestAgrees, Matches
<1> QED
  BY <1>1, <1>3, <1>4, KindsAssumption DEF Inv, TypeOK, Allows

\* A document is left alone but for its being the latest, is inserted, is
\* deleted, or takes the step of a request.
Untouched(d) ==
    /\ \/ doc'[d] = doc[d]
       \/ doc[d] # NoRow /\ doc'[d] = [doc[d] EXCEPT !.latest = FALSE]
    /\ shown'[d] = shown[d]

Inserted(d) ==
    /\ doc[d] = NoRow
    /\ \E user \in Users : doc'[d] = NewRow(user)
    /\ shown'[d] = shown[d]

Deleted(d) ==
    /\ doc[d] # NoRow /\ doc[d].status # "deleted"
    /\ doc'[d] = [doc[d] EXCEPT !.status = "deleted"]
    /\ shown'[d] = shown[d]

Moved(d) ==
    \E r \in Requests :
        /\ Matches(r)
        /\ request[r].doc = d
        /\ request[r].step.op # "cancel"
        /\ doc'[d] = Stepped(r, doc[d])
        /\ shown'[d] = Showing(r)

DocumentStep(d) == Untouched(d) \/ Inserted(d) \/ Deleted(d) \/ Moved(d)

LEMMA RowShape ==
    ASSUME kind \in AllKinds, NEW row \in Rows \cup {NoRow}
    PROVE  /\ row = [status |-> row.status, version |-> row.version, body |-> row.body,
                    latest |-> row.latest, signed |-> row.signed]
           /\ row.version \in Nat /\ row.body \in Nat
           /\ row # NoRow => /\ row \in Rows
                            /\ row.status # "none" /\ row.version > 0
           /\ row = NoRow => row.status = "none" /\ row.version = 0
<1>1. CASE row \in Rows
  <2>1. "none" \notin Statuses[kind] \cup {"deleted"}
    BY DEF Statuses, AllKinds
  <2>2. /\ row.status \in Statuses[kind] \cup {"deleted"}
        /\ row.version \in Nat \ {0} /\ row.body \in Nat \ {0}
    BY <1>1 DEF Rows
  <2>3. row = [status |-> row.status, version |-> row.version, body |-> row.body,
               latest |-> row.latest, signed |-> row.signed]
    BY <1>1 DEF Rows
  <2>4. NoRow.status = "none"
    BY DEF NoRow
  <2>5. row # NoRow
    BY <2>1, <2>2, <2>4
  <2> QED
    BY <1>1, <2>1, <2>2, <2>3, <2>5
<1>2. CASE row = NoRow
  BY <1>2 DEF NoRow
<1> QED  BY <1>1, <1>2

LEMMA NoRowIsNone ==
    ASSUME kind \in AllKinds
    PROVE  NoRow \notin Rows
BY RowShape DEF NoRow, Rows

LEMMA NoRowNotLatest ==
    ASSUME kind \in AllKinds
    PROVE  [NoRow EXCEPT !.latest = FALSE] = NoRow
<1>1. NoRow.latest = FALSE
  BY Zenon DEF NoRow
<1>2. NoRow = [NoRow EXCEPT !.latest = NoRow.latest]
  <2>1. NoRow = [status |-> NoRow.status, version |-> NoRow.version, body |-> NoRow.body,
                 latest |-> NoRow.latest, signed |-> NoRow.signed]
    BY RowShape
  <2> DEFINE row == NoRow
  <2>2. row = [status |-> row.status, version |-> row.version, body |-> row.body,
               latest |-> row.latest, signed |-> row.signed]
    BY <2>1
  <2>3. row = [row EXCEPT !.latest = row.latest]
    <3> HIDE DEF row
    <3> QED  BY <2>2
  <2> QED  BY <2>3
<1> QED
  BY <1>1, <1>2, Zenon

LEMMA UntouchedFields ==
    ASSUME TypeOK, NEW d \in Docs, Untouched(d)
    PROVE  /\ doc'[d].status = doc[d].status /\ doc'[d].version = doc[d].version
           /\ doc'[d].body = doc[d].body /\ doc'[d].signed = doc[d].signed
           /\ doc'[d] = [doc[d] EXCEPT !.latest = doc'[d].latest]
           /\ doc[d] = NoRow <=> doc'[d] = NoRow
           /\ doc[d] \in Rows => doc'[d] \in Rows
<1> DEFINE row == doc[d]
           after == [row EXCEPT !.latest = FALSE]
<1>1. row \in Rows \cup {NoRow}
  BY DEF TypeOK
<1>2. row = [status |-> row.status, version |-> row.version, body |-> row.body,
             latest |-> row.latest, signed |-> row.signed]
  BY <1>1, RowShape, KindsAssumption DEF TypeOK
<1>3. row = [row EXCEPT !.latest = row.latest]
  <2> HIDE DEF row
  <2> QED  BY <1>2
<1>4. /\ after.status = row.status /\ after.version = row.version
      /\ after.body = row.body /\ after.signed = row.signed
      /\ after = [row EXCEPT !.latest = after.latest]
  <2> HIDE DEF row
  <2> QED  BY <1>2
<1>5. row \in Rows => after \in Rows
  <2> HIDE DEF row
  <2> QED  BY DEF Rows
<1>6. NoRow \notin Rows
  BY DEF NoRow, Rows
<1> HIDE DEF row, after
<1>7. doc'[d] = row \/ (row # NoRow /\ doc'[d] = after)
  BY DEF Untouched, row, after
<1> QED
  BY <1>1, <1>3, <1>4, <1>5, <1>6, <1>7 DEF row

LEMMA DocumentSteps ==
    ASSUME Inv, [Next]_vars, NEW d \in Docs
    PROVE  kind' = kind /\ DocumentStep(d)
<1> USE DEF Inv
<1>1. doc \in [Docs -> Rows \cup {NoRow}] /\ TypeOK
  BY DEF TypeOK
<1>2. ASSUME NEW r \in Requests, TakeStep(r) \/ DecideDisposal(r)
      PROVE  kind' = kind /\ DocumentStep(d)
  <2> DEFINE c == request[r].doc
  <2>1. /\ kind' = kind /\ Matches(r) /\ request[r].step.op # "cancel"
        /\ doc' = [doc EXCEPT ![c] = Stepped(r, doc[c])]
        /\ shown' = [shown EXCEPT ![c] = Showing(r)]
    <3>1. CASE TakeStep(r)
      <4>1. request[r].step.op # "cancel"
        <5>1. kind # "disposal" /\ Matches(r)
          BY <3>1 DEF TakeStep
        <5>2. kind \in AllKinds /\ request[r].step \in Chain[kind]
          BY <5>1, MatchedRow
        <5> QED
          BY <5>1, <5>2, NoCancel
      <4> QED
        BY <3>1, <4>1 DEF TakeStep
    <3>2. CASE DecideDisposal(r)
      BY <3>2 DEF DecideDisposal
    <3> QED  BY <1>2, <3>1, <3>2
  <2>2. CASE d = c
    BY <1>1, <2>1, <2>2 DEF DocumentStep, Moved, TypeOK
  <2>3. CASE d # c
    BY <1>1, <2>1, <2>3 DEF DocumentStep, Untouched
  <2> QED  BY <2>1, <2>2, <2>3
<1>3. ASSUME NEW r \in Requests, Remove(r) \/ cancelDisposalRequest(r)
      PROVE  kind' = kind /\ DocumentStep(d)
  <2> DEFINE c == request[r].doc
  <2>1. /\ kind' = kind /\ shown' = shown
        /\ doc' = [doc EXCEPT ![c].status = "deleted"]
        /\ request[r].phase = "step" /\ doc[c].status # "deleted"
    BY <1>3 DEF Remove, cancelDisposalRequest, Matches
  <2>2. doc[c] # NoRow
    BY <2>1 DEF RequestsAgree, RequestAgrees
  <2>3. CASE d = c
    BY <1>1, <2>1, <2>2, <2>3 DEF DocumentStep, Deleted
  <2>4. CASE d # c
    BY <1>1, <2>1, <2>4 DEF DocumentStep, Untouched
  <2> QED  BY <2>1, <2>3, <2>4
<1>4. ASSUME NEW r \in Requests, NEW e \in Docs, createNewVersion(r, e)
      PROVE  kind' = kind /\ DocumentStep(d)
  <2> DEFINE parent == request[r].parent
  <2>1. /\ kind' = kind /\ kind = "plan" /\ shown' = shown
        /\ request[r].phase = "create" /\ doc[e] = NoRow
        /\ doc' = [doc EXCEPT ![parent].latest = FALSE, ![e] = NewRow(request[r].user)]
    BY <1>4 DEF createNewVersion
  <2>2. parent \in Docs /\ request[r].user \in Users
    BY <2>1 DEF RequestsAgree, TypeOK, RequestStates, Idle
  <2>3. CASE d = e
    <3>1. doc'[d] = NewRow(request[r].user)
      BY <1>1, <2>1, <2>3
    <3> QED
      BY <2>1, <2>2, <2>3, <3>1 DEF DocumentStep, Inserted
  <2>4. CASE d # e
    <3>1. shown'[d] = shown[d]
      BY <2>1
    <3>2. doc'[d] = doc[d] \/ doc'[d] = [doc[d] EXCEPT !.latest = FALSE]
      BY <1>1, <2>1, <2>2, <2>4
    <3>3. doc[d] = NoRow => [doc[d] EXCEPT !.latest = FALSE] = doc[d]
      BY NoRowNotLatest, KindsAssumption DEF TypeOK
    <3> QED
      BY <2>1, <3>1, <3>2, <3>3 DEF DocumentStep, Untouched
  <2> QED  BY <2>1, <2>3, <2>4
<1>5. ASSUME NEW r \in Requests, NEW e \in Docs, InsertDisposal(r, e)
      PROVE  kind' = kind /\ DocumentStep(d)
  <2>1. /\ kind' = kind /\ shown' = shown
        /\ request[r].phase = "create" /\ doc[e] = NoRow
        /\ doc' = [doc EXCEPT ![e] = NewRow(request[r].user)]
    BY <1>5 DEF InsertDisposal
  <2>2. request[r].user \in Users
    BY <2>1 DEF TypeOK, RequestStates, Idle
  <2>3. CASE d = e
    <3>1. doc'[d] = NewRow(request[r].user)
      BY <1>1, <2>1, <2>3
    <3> QED
      BY <2>1, <2>2, <2>3, <3>1 DEF DocumentStep, Inserted
  <2>4. CASE d # e
    BY <1>1, <2>1, <2>4 DEF DocumentStep, Untouched
  <2> QED  BY <2>1, <2>3, <2>4
<1>6. ASSUME UNCHANGED <<kind, doc, shown>>
      PROVE  kind' = kind /\ DocumentStep(d)
  BY <1>1, <1>6 DEF DocumentStep, Untouched
<1>7. ASSUME NEW r \in Requests,
             \/ \E c \in Docs, user \in Users :
                    \/ \E step \in Chain[kind] : Load(r, c, user, step)
                    \/ NewVersionLoad(r, c, user)
             \/ EditPlanItem(r)
             \/ \E user \in Users : requestDisposal(r, user)
             \/ Fail(r)
      PROVE  UNCHANGED <<kind, doc, shown>>
  BY <1>7 DEF Load, NewVersionLoad, EditPlanItem, requestDisposal, Fail
<1>8. ASSUME NEW c \in Docs, FillRow(c) \/ FillItems(c) \/ Evict(c) \/ EditSection(c)
      PROVE  UNCHANGED <<kind, doc, shown>>
  BY <1>8 DEF FillRow, FillItems, Evict, EditSection
<1>9. CASE UNCHANGED vars
  BY <1>6, <1>9 DEF vars
<1> QED
  BY <1>2, <1>3, <1>4, <1>5, <1>6, <1>7, <1>8, <1>9 DEF Next, RequestStep

LEMMA SteppedFields ==
    ASSUME Inv, NEW r \in Requests, Matches(r), request[r].step.op # "cancel",
           NEW row, row = doc[request[r].doc]
    PROVE  /\ Stepped(r, row).status = request[r].step.to
           /\ Stepped(r, row).version = row.version + 1
           /\ request[r].step.op # "edit" => Stepped(r, row).body = row.body
           /\ request[r].step.op \in Signatures =>
                  Stepped(r, row).signed =
                      [row.signed EXCEPT ![request[r].step.op] = request[r].user]
           /\ request[r].step.op = "edit" =>
                  Stepped(r, row).body = row.version + 1 /\ Stepped(r, row).signed = row.signed
           /\ request[r].step.op \notin Signatures \cup {"edit"} =>
                  Stepped(r, row).signed =
                      IF request[r].step.op = "withdraw"
                      THEN [row.signed EXCEPT !["submit"] = Nobody]
                      ELSE row.signed
           /\ Stepped(r, row) \in Rows
<1> DEFINE step == request[r].step
           user == request[r].user
           next == [row EXCEPT !.status = step.to, !.version = row.version + 1]
           signed == IF step.op \in Signatures
                     THEN [row.signed EXCEPT ![step.op] = user]
                     ELSE IF step.op = "withdraw"
                     THEN [row.signed EXCEPT !["submit"] = Nobody]
                     ELSE row.signed
<1>1. /\ row \in Rows /\ user \in Users /\ kind \in AllKinds /\ step \in Chain[kind]
      /\ step.op \notin Unversioned /\ row.status \in step.from
  BY MatchedRow DEF Matches
<1>2. step.to \in Statuses[kind]
  BY <1>1, ChainTypes, ChainOrder DEF Orderly
<1>3. row = [status |-> row.status, version |-> row.version, body |-> row.body,
             latest |-> row.latest, signed |-> row.signed]
  BY <1>1, RowShape
<1>4. next = [status |-> step.to, version |-> row.version + 1, body |-> row.body,
              latest |-> row.latest, signed |-> row.signed]
  <2> DEFINE to == step.to
             mid == [row EXCEPT !.status = to]
             version == row.version + 1
  <2> HIDE DEF step, to, version
  <2>1. mid = [status |-> to, version |-> row.version, body |-> row.body,
               latest |-> row.latest, signed |-> row.signed]
    BY <1>3
  <2> HIDE DEF mid
  <2>2. [mid EXCEPT !.version = version] =
            [status |-> to, version |-> version, body |-> row.body,
             latest |-> row.latest, signed |-> row.signed]
    BY <2>1
  <2>3. [row EXCEPT !.status = to, !.version = version] = [mid EXCEPT !.version = version]
    BY DEF mid
  <2> QED
    BY <2>2, <2>3, Zenon DEF to, version
<1>5. signed \in [Signatures -> Users \cup {Nobody}]
  BY <1>1 DEF Rows
<1>6. row.version \in Nat \ {0} /\ row.body \in Nat \ {0} /\ row.latest \in BOOLEAN
      /\ row.signed \in [Signatures -> Users \cup {Nobody}]
  BY <1>1 DEF Rows
<1>7. Stepped(r, row) = IF step.op = "edit" THEN [next EXCEPT !.body = next.version]
                        ELSE [next EXCEPT !.signed = signed]
  BY DEF Stepped
<1>8. CASE step.op = "edit"
  <2>1. Stepped(r, row) =
            [status |-> step.to, version |-> row.version + 1, body |-> row.version + 1,
             latest |-> row.latest, signed |-> row.signed]
    <3> HIDE DEF next, signed
    <3> QED  BY <1>4, <1>7, <1>8
  <2>2. step.op \notin Signatures
    BY <1>8 DEF Signatures
  <2>3. row.version + 1 \in Nat \ {0}
    BY <1>6
  <2> HIDE DEF next, signed, step
  <2> QED
    BY <1>2, <1>6, <1>8, <2>1, <2>2, <2>3 DEF Rows, step
<1>9. CASE step.op # "edit"
  <2>1. Stepped(r, row) =
            [status |-> step.to, version |-> row.version + 1, body |-> row.body,
             latest |-> row.latest, signed |-> signed]
    <3> HIDE DEF next, signed
    <3> QED  BY <1>4, <1>7, <1>9
  <2>2. row.version + 1 \in Nat \ {0}
    BY <1>6
  <2>3. /\ step.op \in Signatures => signed = [row.signed EXCEPT ![step.op] = user]
        /\ step.op \notin Signatures =>
               signed = IF step.op = "withdraw" THEN [row.signed EXCEPT !["submit"] = Nobody]
                        ELSE row.signed
    OBVIOUS
  <2> HIDE DEF next, signed, step, user
  <2> QED
    BY <1>2, <1>5, <1>6, <1>9, <2>1, <2>2, <2>3 DEF Rows, step, user
<1> QED
  BY <1>8, <1>9

\* Rows keep their type, and none goes away.
LEMMA RowsTyped ==
    ASSUME Inv, [Next]_vars, NEW d \in Docs
    PROVE  /\ doc'[d] \in Rows \cup {NoRow}
           /\ doc[d] # NoRow => doc'[d] # NoRow
           /\ kind' = kind /\ kind \in AllKinds
<1>1. /\ DocumentStep(d) /\ doc[d] \in Rows \cup {NoRow}
      /\ kind' = kind /\ kind \in AllKinds /\ TypeOK
  BY DocumentSteps, KindsAssumption DEF Inv, TypeOK
<1>2. NoRow \notin Rows
  BY DEF NoRow, Rows
<1>3. CASE Untouched(d)
  BY <1>1, <1>2, <1>3, UntouchedFields
<1>4. CASE Inserted(d)
  <2>1. PICK user \in Users : doc'[d] = NewRow(user)
    BY <1>4 DEF Inserted
  <2>2. [Unsigned EXCEPT !["create"] = user] \in [Signatures -> Users \cup {Nobody}]
    BY DEF Unsigned
  <2>3. NewRow(user) \in Rows
    BY <1>1, <2>2 DEF NewRow, Rows, Statuses, AllKinds
  <2> QED  BY <1>1, <1>4, <2>1, <2>3 DEF Inserted
<1>5. CASE Deleted(d)
  <2>1. doc[d] \in Rows
    BY <1>1, <1>5 DEF Deleted
  <2>2. [doc[d] EXCEPT !.status = "deleted"] \in Rows
    BY <2>1 DEF Rows
  <2> QED  BY <1>1, <1>2, <1>5, <2>2 DEF Deleted
<1>6. CASE Moved(d)
  <2>1. PICK r \in Requests : /\ Matches(r)
                              /\ request[r].doc = d
                              /\ request[r].step.op # "cancel"
                              /\ doc'[d] = Stepped(r, doc[d])
    BY <1>6 DEF Moved
  <2>2. Stepped(r, doc[d]) \in Rows
    BY <2>1, SteppedFields
  <2> QED  BY <1>1, <1>2, <2>1, <2>2
<1> QED
  BY <1>1, <1>3, <1>4, <1>5, <1>6 DEF DocumentStep

-----------------------------------------------------------------------------
(* Copies and requests agree with their rows *)

\* A step that changes more than whether a document is the latest raises its
\* version or deletes it.
LEMMA VersionsRise ==
    ASSUME Inv, [Next]_vars, NEW d \in Docs
    PROVE  /\ doc[d].version \in Nat /\ doc'[d].version \in Nat
           /\ \/ /\ doc'[d].version = doc[d].version
                 /\ doc'[d].status = doc[d].status
                 /\ doc'[d].body = doc[d].body
                 /\ doc'[d].signed = doc[d].signed
              \/ doc'[d].version > doc[d].version
              \/ doc'[d].version = doc[d].version /\ doc'[d].status = "deleted"
<1>1. /\ DocumentStep(d) /\ TypeOK /\ kind \in AllKinds
      /\ doc[d] \in Rows \cup {NoRow} /\ doc'[d] \in Rows \cup {NoRow}
  BY DocumentSteps, RowsTyped DEF Inv, TypeOK
<1>2. doc[d].version \in Nat /\ doc'[d].version \in Nat
  BY <1>1, RowShape
<1>3. CASE Untouched(d)
  BY <1>1, <1>2, <1>3, UntouchedFields
<1>4. CASE Inserted(d)
  <2>1. doc[d].version = 0
    BY <1>4 DEF Inserted, NoRow
  <2>2. doc'[d].version = 1
    BY <1>4 DEF Inserted, NewRow
  <2> QED  BY <1>2, <2>1, <2>2
<1>5. CASE Deleted(d)
  <2>1. /\ doc'[d].version = doc[d].version
        /\ doc'[d].status = "deleted"
    BY <1>1, <1>5, RowShape DEF Deleted
  <2> QED  BY <1>2, <2>1
<1>6. CASE Moved(d)
  <2>1. PICK r \in Requests : /\ Matches(r)
                              /\ request[r].doc = d
                              /\ request[r].step.op # "cancel"
                              /\ doc'[d] = Stepped(r, doc[d])
    BY <1>6 DEF Moved
  <2>2. Stepped(r, doc[d]).version = doc[d].version + 1
    BY <2>1, SteppedFields
  <2> QED  BY <1>2, <2>1, <2>2
<1> QED
  BY <1>1, <1>3, <1>4, <1>5, <1>6 DEF DocumentStep

LEMMA AgreementKept ==
    ASSUME Inv, [Next]_vars, NEW d \in Docs,
           NEW copy \in Rows \cup {NoRow}, Agrees(copy, doc[d])
    PROVE  Agrees(copy, doc'[d])
<1>1. copy.version \in Nat
  BY RowShape, RowsTyped
<1> QED
  BY <1>1, VersionsRise DEF Agrees

LEMMA CopyOrigins ==
    ASSUME TypeOK, [Next]_vars, NEW d \in Docs
    PROVE  /\ \/ detail'[d] = detail[d]
              \/ detail'[d] = NoRow
              \/ detail'[d] = doc[d] /\ doc' = doc
              \/ /\ detail'[d] = [fill[d] EXCEPT !.body = doc[d].body] /\ doc' = doc
                 /\ fill[d] # NoRow
           /\ \/ fill'[d] = fill[d]
              \/ fill'[d] = NoRow
              \/ fill'[d] = doc[d] /\ doc' = doc
<1> DEFINE Good ==
           /\ \/ detail'[d] = detail[d]
              \/ detail'[d] = NoRow
              \/ detail'[d] = doc[d] /\ doc' = doc
              \/ /\ detail'[d] = [fill[d] EXCEPT !.body = doc[d].body] /\ doc' = doc
                 /\ fill[d] # NoRow
           /\ \/ fill'[d] = fill[d]
              \/ fill'[d] = NoRow
              \/ fill'[d] = doc[d] /\ doc' = doc
<1>1. /\ detail \in [Docs -> Rows \cup {NoRow}]
      /\ fill \in [Docs -> Rows \cup {NoRow}]
  BY DEF TypeOK
<1>2. ASSUME NEW c \in Docs, FillRow(c) PROVE Good
  BY <1>1, <1>2 DEF FillRow
<1>3. ASSUME NEW c \in Docs, FillItems(c) PROVE Good
  BY <1>1, <1>3 DEF FillItems
<1>4. ASSUME NEW c \in Docs, Evict(c) PROVE Good
  BY <1>1, <1>4 DEF Evict
<1>5. ASSUME UNCHANGED <<detail, fill>> PROVE Good
  BY <1>5
<1>6. ASSUME NEW c \in Docs, EditSection(c) PROVE Good
  BY <1>5, <1>6 DEF EditSection
<1>7. ASSUME NEW r \in Requests, RequestStep(r) PROVE UNCHANGED <<detail, fill>>
  BY <1>7 DEF RequestStep, Load, NewVersionLoad, TakeStep, Remove, EditPlanItem,
     createNewVersion, InsertDisposal, requestDisposal, DecideDisposal,
     cancelDisposalRequest, Fail
<1>8. CASE UNCHANGED vars
  BY <1>5, <1>8 DEF vars
<1> QED
  BY <1>2, <1>3, <1>4, <1>5, <1>6, <1>7, <1>8 DEF Next

LEMMA CopiesAgreeStep ==
    ASSUME Inv, [Next]_vars
    PROVE  CopiesAgree'
<1> SUFFICES ASSUME NEW d \in Docs
             PROVE  Agrees(detail'[d], doc'[d]) /\ Agrees(fill'[d], doc'[d])
  BY DEF CopiesAgree, Agrees
<1>1. /\ doc[d] \in Rows \cup {NoRow} /\ detail[d] \in Rows \cup {NoRow}
      /\ fill[d] \in Rows \cup {NoRow} /\ TypeOK
      /\ Agrees(detail[d], doc[d]) /\ Agrees(fill[d], doc[d])
      /\ kind \in AllKinds
  BY KindsAssumption DEF Inv, TypeOK, CopiesAgree
<1>2. Agrees(detail[d], doc'[d]) /\ Agrees(fill[d], doc'[d])
  BY <1>1, AgreementKept
<1>3. Agrees(NoRow, doc'[d])
  <2>1. Agrees(NoRow, doc[d])
    <3>1. doc[d].version \in Nat /\ NoRow.version = 0
      BY <1>1, RowShape DEF NoRow
    <3>2. doc[d] # NoRow => doc[d].version > 0
      BY <1>1, RowShape
    <3> QED  BY <3>1, <3>2 DEF Agrees
  <2> QED  BY <2>1, AgreementKept
<1>4. doc' = doc => Agrees(doc[d], doc'[d])
  BY <1>1, RowShape DEF Agrees
<1>5. doc' = doc /\ fill[d] # NoRow =>
          Agrees([fill[d] EXCEPT !.body = doc[d].body], doc'[d])
  <2> DEFINE old == fill[d]
             new == [old EXCEPT !.body = doc[d].body]
  <2>1. old = [status |-> old.status, version |-> old.version, body |-> old.body,
               latest |-> old.latest, signed |-> old.signed]
    BY <1>1, RowShape
  <2>2. /\ new.version = old.version /\ new.status = old.status
        /\ new.signed = old.signed /\ new.body = doc[d].body
    <3> HIDE DEF old
    <3> QED  BY <2>1
  <2> HIDE DEF new
  <2>3. doc' = doc => Agrees(new, doc'[d])
    BY <1>1, <2>2 DEF Agrees
  <2> QED  BY <2>3 DEF new
<1> QED
  BY <1>1, <1>2, <1>3, <1>4, <1>5, CopyOrigins

LEMMA RequestOrigins ==
    ASSUME TypeOK, [Next]_vars, NEW r \in Requests
    PROVE  \/ request'[r] = request[r]
           \/ request'[r] = Idle
           \/ \E d \in Docs, user \in Users : \E step \in Chain[kind] : Load(r, d, user, step)
           \/ \E d \in Docs, user \in Users : NewVersionLoad(r, d, user)
           \/ \E user \in Users : requestDisposal(r, user)
<1>1. request \in [Requests -> RequestStates]
  BY DEF TypeOK
<1>2. ASSUME NEW q \in Requests, q # r, RequestStep(q)
      PROVE  request'[r] = request[r]
  BY <1>1, <1>2 DEF RequestStep, Load, NewVersionLoad, TakeStep, Remove, EditPlanItem,
     createNewVersion, InsertDisposal, requestDisposal, DecideDisposal,
     cancelDisposalRequest, Fail, Become
<1>3. ASSUME TakeStep(r) \/ Remove(r) \/ EditPlanItem(r) \/ DecideDisposal(r)
             \/ cancelDisposalRequest(r) \/ Fail(r)
             \/ \E d \in Docs : createNewVersion(r, d) \/ InsertDisposal(r, d)
      PROVE  request'[r] = Idle
  BY <1>1, <1>3 DEF TakeStep, Remove, EditPlanItem, createNewVersion, InsertDisposal,
     DecideDisposal, cancelDisposalRequest, Fail, Become
<1>4. ASSUME NEW d \in Docs, FillRow(d) \/ FillItems(d) \/ Evict(d) \/ EditSection(d)
      PROVE  request'[r] = request[r]
  BY <1>4 DEF FillRow, FillItems, Evict, EditSection
<1>5. CASE UNCHANGED vars
  BY <1>5 DEF vars
<1> QED
  BY <1>2, <1>3, <1>4, <1>5 DEF Next, RequestStep

LEMMA RequestIsFunction ==
    ASSUME TypeOK, [Next]_vars
    PROVE  request' = [r \in Requests |-> request'[r]]
<1>1. request = [r \in Requests |-> request[r]]
  BY DEF TypeOK
<1>2. ASSUME NEW r \in Requests, NEW state, Become(r, state)
      PROVE  request' = [q \in Requests |-> request'[q]]
  BY <1>1, <1>2 DEF Become
<1>3. ASSUME NEW r \in Requests, RequestStep(r)
      PROVE  request' = [q \in Requests |-> request'[q]]
  <2>1. CASE \/ TakeStep(r) \/ Remove(r) \/ EditPlanItem(r) \/ DecideDisposal(r)
             \/ cancelDisposalRequest(r) \/ Fail(r)
             \/ \E d \in Docs : createNewVersion(r, d) \/ InsertDisposal(r, d)
    <3>1. Become(r, Idle)
      BY <2>1 DEF TakeStep, Remove, EditPlanItem, DecideDisposal,
         cancelDisposalRequest, Fail, createNewVersion, InsertDisposal
    <3> QED  BY <1>2, <3>1
  <2>2. ASSUME NEW d \in Docs, NEW user \in Users, NEW step \in Chain[kind],
               Load(r, d, user, step)
        PROVE  \E state : Become(r, state)
    BY <2>2, Zenon DEF Load
  <2>3. ASSUME NEW d \in Docs, NEW user \in Users, NewVersionLoad(r, d, user)
        PROVE  \E state : Become(r, state)
    BY <2>3, Zenon DEF NewVersionLoad
  <2>4. ASSUME NEW user \in Users, requestDisposal(r, user)
        PROVE  \E state : Become(r, state)
    BY <2>4, Zenon DEF requestDisposal
  <2> QED
    BY <1>2, <1>3, <2>1, <2>2, <2>3, <2>4 DEF RequestStep
<1>4. ASSUME NEW d \in Docs, FillRow(d) \/ FillItems(d) \/ Evict(d) \/ EditSection(d)
      PROVE  request' = request
  BY <1>4 DEF FillRow, FillItems, Evict, EditSection
<1> QED
  BY <1>1, <1>3, <1>4 DEF Next, vars

\* What a request has loaded agrees with the rows as they are.
LEMMA LoadAgrees ==
    ASSUME Inv, Hypotheses, NEW r \in Requests, NEW d \in Docs, NEW user \in Users,
           NEW step \in Chain[kind], Load(r, d, user, step)
    PROVE  /\ doc' = doc
           /\ request'[r].phase = "step" /\ request'[r].doc = d
           /\ RequestAgrees(request'[r], doc[d])
           /\ request'[r] \in RequestStates
<1>1. PICK c \in IF kind = "disposal" THEN Docs ELSE {d} :
          /\ detail[c] # NoRow
          /\ Allows(step, IF kind \in Cached THEN detail[d] ELSE doc[d], user)
          /\ Become(r, [phase |-> "step", doc |-> d, user |-> user, step |-> step,
                        version |-> IF step.op = "cancel" THEN doc[d].version
                                    ELSE detail[c].version,
                        equipment |-> equipment.version,
                        content |-> Content(c, detail[c])])
  BY DEF Load, Hypotheses
<1>2. /\ doc' = doc /\ kind \in AllKinds /\ c \in Docs
      /\ request \in [Requests -> RequestStates]
      /\ doc[d] \in Rows \cup {NoRow} /\ detail[d] \in Rows \cup {NoRow}
      /\ doc[c] \in Rows \cup {NoRow} /\ detail[c] \in Rows
      /\ equipment.version \in Nat
      /\ Agrees(detail[d], doc[d]) /\ Agrees(detail[c], doc[c])
  BY <1>1, KindsAssumption DEF Load, Inv, TypeOK, CopiesAgree
<1>3. "none" \notin step.from
  <2>1. "none" \notin Statuses[kind]
    BY <1>2 DEF Statuses, AllKinds
  <2> QED  BY <1>2, <2>1, ChainTypes
<1>4. doc[c] # NoRow
  <2>1. detail[c].version > 0 /\ detail[c].version \in Nat
    BY <1>1, <1>2, RowShape
  <2>2. NoRow.version = 0
    BY DEF NoRow
  <2> QED  BY <1>2, <2>1, <2>2 DEF Agrees
<1>5. c = d
  <2>1. CASE kind = "disposal"
    <3>1. doc[d].status # "none"
      BY <1>1, <1>3, <2>1 DEF Allows, Cached
    <3>2. doc[d] # NoRow
      BY <3>1 DEF NoRow
    <3> QED
      BY <1>2, <1>4, <2>1, <3>2 DEF Inv, OneDisposal
  <2>2. CASE kind # "disposal"
    BY <1>1, <2>2
  <2> QED  BY <2>1, <2>2
<1>6. doc[d].version = detail[d].version /\ doc[d].status # "deleted" =>
          Allows(step, doc[d], user) /\ detail[d].body = doc[d].body
  BY <1>1, <1>2 DEF Allows, Agrees
<1> DEFINE version == IF step.op = "cancel" THEN doc[d].version ELSE detail[d].version
           req == [phase |-> "step", doc |-> d, user |-> user, step |-> step,
                   version |-> version, equipment |-> equipment.version,
                   content |-> Content(d, detail[d])]
<1>7. request'[r] = req
  BY <1>1, <1>2, <1>5 DEF Become
<1>8. detail[d].version <= doc[d].version /\ doc[d].version \in Nat
      /\ detail[d].version \in Nat /\ detail[d].body \in Nat
  BY <1>2, RowShape DEF Agrees
<1>9. step.op = "cancel" => Allows(step, doc[d], user)
  <2>1. ASSUME step.op = "cancel" PROVE kind \notin Cached
    BY <2>1, <1>2, NoCancel DEF Cached
  <2> QED  BY <1>1, <2>1
<1>10. RequestAgrees(req, doc[d])
  <2>1. doc[d] # NoRow
    BY <1>4, <1>5
  <2>2. version <= doc[d].version
    BY <1>8
  <2>3. version = doc[d].version /\ doc[d].status # "deleted" =>
            /\ Allows(step, doc[d], user)
            /\ step.op # "cancel" => Content(d, detail[d]) = Content(d, doc[d])
    BY <1>6, <1>9 DEF Content
  <2> HIDE DEF version
  <2> QED  BY <2>1, <2>2, <2>3 DEF RequestAgrees
<1>11. req \in RequestStates
  <2>1. version \in Nat
    BY <1>8
  <2>2. Content(d, detail[d]) \in [doc : Docs, body : Nat]
    BY <1>8 DEF Content
  <2> HIDE DEF version
  <2> QED  BY <1>2, <2>1, <2>2 DEF RequestStates
<1> QED
  BY <1>2, <1>7, <1>10, <1>11

LEMMA KindKept ==
    ASSUME [Next]_vars
    PROVE  kind' = kind
<1>1. ASSUME NEW r \in Requests, RequestStep(r) PROVE kind' = kind
  BY <1>1 DEF RequestStep, Load, NewVersionLoad, TakeStep, Remove, EditPlanItem,
     createNewVersion, InsertDisposal, requestDisposal, DecideDisposal,
     cancelDisposalRequest, Fail
<1>2. ASSUME NEW d \in Docs, FillRow(d) \/ FillItems(d) \/ Evict(d) \/ EditSection(d)
      PROVE  kind' = kind
  BY <1>2 DEF FillRow, FillItems, Evict, EditSection
<1> QED
  BY <1>1, <1>2 DEF Next, vars

LEMMA RequestsAgreeStep ==
    ASSUME Inv, Hypotheses, [Next]_vars
    PROVE  RequestsAgree' /\ request' \in [Requests -> RequestStates']
<1>1. ASSUME NEW r \in Requests
      PROVE  /\ request'[r].phase = "step" =>
                    RequestAgrees(request'[r], doc'[request'[r].doc])
             /\ request'[r].phase = "create" /\ kind' = "plan" =>
                    request'[r].parent \in Docs
             /\ request'[r] \in RequestStates
  <2>1. CASE request'[r] = request[r]
    <3>1. request[r] \in RequestStates /\ kind' = kind
      BY KindKept DEF Inv, TypeOK
    <3>2. request[r].phase = "create" /\ kind = "plan" => request[r].parent \in Docs
      BY DEF Inv, RequestsAgree
    <3>3. ASSUME request[r].phase = "step"
          PROVE  RequestAgrees(request[r], doc'[request[r].doc])
      <4> DEFINE d == request[r].doc
      <4>1. d \in Docs /\ request[r].version \in Nat
        BY <3>1, <3>3 DEF RequestStates, Idle
      <4>2. RequestAgrees(request[r], doc[d])
        BY <3>3 DEF Inv, RequestsAgree
      <4>3. doc'[d] # NoRow
        BY <4>1, <4>2, RowsTyped DEF RequestAgrees
      <4> HIDE DEF d
      <4>4. RequestAgrees(request[r], doc'[d])
        BY <4>1, <4>2, <4>3, VersionsRise DEF RequestAgrees, Allows, Content
      <4> QED  BY <4>4 DEF d
    <3> QED  BY <2>1, <3>1, <3>2, <3>3
  <2>2. CASE request'[r] = Idle
    BY <2>2 DEF Idle, RequestStates
  <2>3. ASSUME NEW d \in Docs, NEW user \in Users, NEW step \in Chain[kind],
               Load(r, d, user, step)
        PROVE  /\ request'[r].phase = "step"
               /\ RequestAgrees(request'[r], doc'[request'[r].doc])
               /\ request'[r] \in RequestStates
    BY <2>3, LoadAgrees
  <2>4. ASSUME NEW d \in Docs, NEW user \in Users, NewVersionLoad(r, d, user)
        PROVE  /\ request'[r].phase = "create" /\ request'[r].parent \in Docs
               /\ request'[r] \in RequestStates
    BY <2>4 DEF NewVersionLoad, Become, Inv, TypeOK, RequestStates
  <2>5. ASSUME NEW user \in Users, requestDisposal(r, user)
        PROVE  /\ request'[r].phase = "create" /\ kind' # "plan"
               /\ request'[r] \in RequestStates
    BY <2>5 DEF requestDisposal, Become, Inv, TypeOK, RequestStates
  <2> QED
    BY <2>1, <2>2, <2>3, <2>4, <2>5, RequestOrigins DEF Inv
<1>2. request' = [r \in Requests |-> request'[r]]
  BY RequestIsFunction DEF Inv
<1>3. RequestStates' = RequestStates
  BY KindKept DEF RequestStates, Idle
<1> QED
  BY <1>1, <1>2, <1>3 DEF RequestsAgree, RequestAgrees

-----------------------------------------------------------------------------
(* Types *)

IsOnDocs(f) == f = [d \in Docs |-> f[d]]

LEMMA FunctionsKept ==
    ASSUME TypeOK, [Next]_vars
    PROVE  /\ IsOnDocs(doc') /\ IsOnDocs(parts') /\ IsOnDocs(detail')
           /\ IsOnDocs(fill') /\ IsOnDocs(shown')
<1>1. /\ IsOnDocs(doc) /\ IsOnDocs(parts) /\ IsOnDocs(detail)
      /\ IsOnDocs(fill) /\ IsOnDocs(shown)
  BY DEF TypeOK, IsOnDocs
<1>2. ASSUME NEW f, NEW d, NEW x, IsOnDocs(f) PROVE IsOnDocs([f EXCEPT ![d] = x])
  BY <1>2 DEF IsOnDocs
<1>3. ASSUME NEW r \in Requests, TakeStep(r) \/ DecideDisposal(r)
      PROVE  /\ IsOnDocs(doc') /\ IsOnDocs(shown')
             /\ UNCHANGED <<parts, detail, fill>>
  BY <1>1, <1>3 DEF TakeStep, DecideDisposal, IsOnDocs
<1>4. ASSUME NEW r \in Requests, Remove(r) \/ cancelDisposalRequest(r)
      PROVE  IsOnDocs(doc') /\ UNCHANGED <<shown, parts, detail, fill>>
  BY <1>1, <1>4 DEF Remove, cancelDisposalRequest, IsOnDocs
<1>5. ASSUME NEW r \in Requests, NEW d \in Docs, createNewVersion(r, d)
      PROVE  IsOnDocs(doc') /\ IsOnDocs(parts') /\ UNCHANGED <<shown, detail, fill>>
  BY <1>1, <1>5 DEF createNewVersion, IsOnDocs
<1>6. ASSUME NEW r \in Requests, NEW d \in Docs, InsertDisposal(r, d)
      PROVE  IsOnDocs(doc') /\ UNCHANGED <<shown, parts, detail, fill>>
  BY <1>1, <1>6 DEF InsertDisposal, IsOnDocs
<1>7. ASSUME NEW r \in Requests, EditPlanItem(r)
      PROVE  IsOnDocs(parts') /\ UNCHANGED <<doc, shown, detail, fill>>
  BY <1>1, <1>7 DEF EditPlanItem, IsOnDocs
<1>8. ASSUME NEW r \in Requests,
             \/ \E d \in Docs, user \in Users :
                    \/ \E step \in Chain[kind] : Load(r, d, user, step)
                    \/ NewVersionLoad(r, d, user)
             \/ \E user \in Users : requestDisposal(r, user)
             \/ Fail(r)
      PROVE  UNCHANGED <<doc, shown, parts, detail, fill>>
  BY <1>8 DEF Load, NewVersionLoad, requestDisposal, Fail
<1>9. ASSUME NEW d \in Docs, FillRow(d) \/ FillItems(d) \/ Evict(d) \/ EditSection(d)
      PROVE  /\ UNCHANGED <<doc, shown>>
             /\ IsOnDocs(parts') /\ IsOnDocs(detail') /\ IsOnDocs(fill')
  BY <1>1, <1>9 DEF FillRow, FillItems, Evict, EditSection, IsOnDocs
<1>10. CASE UNCHANGED vars
  BY <1>1, <1>10 DEF vars
<1> QED
  BY <1>1, <1>3, <1>4, <1>5, <1>6, <1>7, <1>8, <1>9, <1>10 DEF Next, RequestStep

LEMMA CopiesTyped ==
    ASSUME Inv, [Next]_vars, NEW d \in Docs
    PROVE  detail'[d] \in Rows \cup {NoRow} /\ fill'[d] \in Rows \cup {NoRow}
<1>1. /\ doc[d] \in Rows \cup {NoRow} /\ detail[d] \in Rows \cup {NoRow}
      /\ fill[d] \in Rows \cup {NoRow} /\ TypeOK /\ kind \in AllKinds
      /\ Agrees(fill[d], doc[d])
  BY KindsAssumption DEF Inv, TypeOK, CopiesAgree
<1>2. ASSUME fill[d] # NoRow
      PROVE  [fill[d] EXCEPT !.body = doc[d].body] \in Rows
  <2>1. fill[d] \in Rows /\ fill[d].version > 0 /\ fill[d].version \in Nat
    BY <1>1, <1>2, RowShape
  <2>2. doc[d].version > 0
    BY <1>1, <2>1, RowShape DEF Agrees
  <2>3. doc[d] \in Rows
    BY <1>1, <2>2, RowShape
  <2>4. doc[d].body \in Nat \ {0}
    BY <2>3 DEF Rows
  <2> QED  BY <2>1, <2>4 DEF Rows
<1> QED
  BY <1>1, <1>2, CopyOrigins

LEMMA ShownTyped ==
    ASSUME Inv, [Next]_vars, NEW d \in Docs
    PROVE  shown'[d] \in [Signatures -> [doc : Docs, body : Nat] \cup {NotShown}]
<1>1. /\ DocumentStep(d)
      /\ shown \in [Docs -> [Signatures -> [doc : Docs, body : Nat] \cup {NotShown}]]
  BY DocumentSteps DEF Inv, TypeOK
<1>2. ASSUME NEW r \in Requests, Matches(r), request[r].doc = d
      PROVE  Showing(r) \in [Signatures -> [doc : Docs, body : Nat] \cup {NotShown}]
  <2>1. request[r].content \in [doc : Docs, body : Nat]
    BY <1>2, MatchedRow
  <2> QED  BY <1>1, <1>2, <2>1 DEF Showing
<1> QED
  BY <1>1, <1>2 DEF DocumentStep, Untouched, Inserted, Deleted, Moved

LEMMA PartsTyped ==
    ASSUME Inv, [Next]_vars
    PROVE  \A d \in Docs : parts'[d] \in 0 .. MaxParts[kind]
<1>1. parts \in [Docs -> 0 .. MaxParts[kind]] /\ MaxParts[kind] \in Nat
  BY BoundsAssumption, KindsAssumption DEF Inv, TypeOK
<1>2. ASSUME NEW d \in Docs, NEW parts1, parts1 = [parts EXCEPT ![d] = parts[d] + 1],
             parts[d] < MaxParts[kind]
      PROVE  \A c \in Docs : parts1[c] \in 0 .. MaxParts[kind]
  BY <1>1, <1>2
<1>3. ASSUME NEW r \in Requests, EditPlanItem(r)
      PROVE  \A d \in Docs : parts'[d] \in 0 .. MaxParts[kind]
  <2>1. request[r].doc \in Docs
    BY <1>3 DEF EditPlanItem, Inv, TypeOK, RequestStates, Idle
  <2> QED  BY <1>1, <1>3, <2>1 DEF EditPlanItem
<1>4. ASSUME NEW d \in Docs, EditSection(d)
      PROVE  \A c \in Docs : parts'[c] \in 0 .. MaxParts[kind]
  BY <1>1, <1>4 DEF EditSection
<1>5. ASSUME NEW r \in Requests, NEW d \in Docs, createNewVersion(r, d)
      PROVE  \A c \in Docs : parts'[c] \in 0 .. MaxParts[kind]
  <2>1. request[r].parent \in Docs
    BY <1>5 DEF createNewVersion, Inv, RequestsAgree
  <2> QED  BY <1>1, <1>5, <2>1 DEF createNewVersion
<1>6. ASSUME NEW r \in Requests,
             \/ \E d \in Docs, user \in Users :
                    \/ \E step \in Chain[kind] : Load(r, d, user, step)
                    \/ NewVersionLoad(r, d, user)
             \/ TakeStep(r) \/ Remove(r) \/ DecideDisposal(r)
             \/ cancelDisposalRequest(r) \/ Fail(r)
             \/ \E d \in Docs : InsertDisposal(r, d)
             \/ \E user \in Users : requestDisposal(r, user)
      PROVE  parts' = parts
  BY <1>6 DEF Load, NewVersionLoad, TakeStep, Remove, DecideDisposal,
     cancelDisposalRequest, Fail, InsertDisposal, requestDisposal
<1>7. ASSUME NEW d \in Docs, FillRow(d) \/ FillItems(d) \/ Evict(d)
      PROVE  parts' = parts
  BY <1>7 DEF FillRow, FillItems, Evict
<1>8. CASE UNCHANGED vars
  BY <1>1, <1>8 DEF vars
<1> QED
  BY <1>1, <1>3, <1>4, <1>5, <1>6, <1>7, <1>8 DEF Next, RequestStep

-----------------------------------------------------------------------------
(* Equipment and its disposal request *)

LEMMA DisposalChain ==
    ASSUME NEW step \in Chain["disposal"], NEW s \in step.from
    PROVE  \/ step.op = "review" /\ s = "pending" /\ step.to = "reviewed"
           \/ step.op = "approve" /\ s = "reviewed" /\ step.to = "approved"
           \/ step.op \in {"rejectReview", "rejectApproval"} /\ step.to = "rejected"
                  /\ s \in {"pending", "reviewed"}
           \/ step.op = "cancel" /\ s = "pending"
BY DEF Chain, DisposalReview, DisposalApproval, DisposalCancel, Step, Own

LEMMA NoRemovalOfDisposals ==
    ASSUME NEW step \in Chain["disposal"]
    PROVE  step.op \notin {"remove", "removeAny"}
BY DEF Chain, DisposalReview, DisposalApproval, DisposalCancel, Step, Own

EquipmentTyped ==
    equipment \in [status : {"available", "pending_disposal", "disposed"}, version : Nat]

\* The equipment follows the only request there is.
Follows(row, status) ==
    /\ status = "pending_disposal" <=> row.status \in {"pending", "reviewed"}
    /\ status = "disposed" <=> row.status = "approved"

LEMMA OneFollows ==
    ASSUME kind = "disposal", NEW d \in Docs, NEW rows, NEW status,
           \A c \in Docs : c # d => rows[c] = NoRow
    PROVE  (/\ status = "pending_disposal" <=>
                   \E c \in Docs : rows[c].status \in {"pending", "reviewed"}
            /\ status = "disposed" <=> \E c \in Docs : rows[c].status = "approved")
           <=> Follows(rows[d], status)
<1>1. \A c \in Docs : c # d => rows[c].status = "none"
  BY DEF NoRow
<1> QED
  BY <1>1 DEF Follows

LEMMA EquipmentStep ==
    ASSUME Inv, Hypotheses, [Next]_vars
    PROVE  EquipmentTyped' /\ OneDisposal' /\ EquipmentFollowsRequest'
<1> DEFINE Good == EquipmentTyped' /\ OneDisposal' /\ EquipmentFollowsRequest'
<1>1. EquipmentTyped /\ OneDisposal /\ EquipmentFollowsRequest /\ kind' = kind
      /\ doc \in [Docs -> Rows \cup {NoRow}] /\ kind \in AllKinds
  BY KindKept, KindsAssumption DEF Inv, TypeOK, EquipmentTyped
<1>2. ASSUME UNCHANGED <<doc, equipment>> PROVE Good
  BY <1>1, <1>2 DEF EquipmentTyped, OneDisposal, EquipmentFollowsRequest
<1>3. ASSUME UNCHANGED equipment, kind # "disposal" PROVE Good
  BY <1>1, <1>3 DEF EquipmentTyped, OneDisposal, EquipmentFollowsRequest
<1>4. ASSUME NEW r \in Requests, NEW d \in Docs, InsertDisposal(r, d) PROVE Good
  <2>1. \A c \in Docs : doc[c] = NoRow
    BY <1>4 DEF InsertDisposal, Hypotheses
  <2>2. /\ doc' = [doc EXCEPT ![d] = NewRow(request[r].user)] /\ kind = "disposal"
        /\ equipment' = [status |-> "pending_disposal", version |-> equipment.version + 1]
    BY <1>4 DEF InsertDisposal, SetEquipment
  <2>3. doc'[d].status = "pending" /\ \A c \in Docs : c # d => doc'[c] = NoRow
    BY <1>1, <2>1, <2>2 DEF NewRow
  <2>4. EquipmentTyped' /\ OneDisposal' /\ equipment'.status = "pending_disposal"
    BY <1>1, <2>2, <2>3 DEF EquipmentTyped, OneDisposal
  <2>5. Follows(doc'[d], equipment'.status)
    BY <2>3, <2>4 DEF Follows
  <2> QED
    BY <1>1, <2>2, <2>3, <2>4, <2>5, OneFollows DEF EquipmentFollowsRequest
<1>5. ASSUME NEW r \in Requests, DecideDisposal(r) \/ cancelDisposalRequest(r) PROVE Good
  <2> DEFINE d == request[r].doc
             step == request[r].step
  <2>1. Matches(r) /\ (cancelDisposalRequest(r) => step.op = "cancel")
        /\ (DecideDisposal(r) => kind = "disposal" /\ step.op # "cancel")
    BY <1>5 DEF DecideDisposal, cancelDisposalRequest
  <2>2. /\ d \in Docs /\ step \in Chain[kind] /\ doc[d] \in Rows
        /\ doc[d].status \in step.from
    BY <2>1, MatchedRow
  <2>3. kind = "disposal"
    BY <1>1, <1>5, <2>1, <2>2, NoCancel
  <2>4. doc[d] # NoRow /\ \A c \in Docs : c # d => doc[c] = NoRow
    BY <1>1, <2>2, <2>3, RowShape, NoRowIsNone DEF OneDisposal
  <2>5. Follows(doc[d], equipment.status)
    BY <1>1, <2>2, <2>3, <2>4, OneFollows DEF EquipmentFollowsRequest
  <2>6. \/ step.op = "review" /\ doc[d].status = "pending" /\ step.to = "reviewed"
        \/ step.op = "approve" /\ doc[d].status = "reviewed" /\ step.to = "approved"
        \/ step.op \in {"rejectReview", "rejectApproval"} /\ step.to = "rejected"
               /\ doc[d].status \in {"pending", "reviewed"}
        \/ step.op = "cancel" /\ doc[d].status = "pending"
    BY <2>2, <2>3, DisposalChain
  <2>7. /\ \A c \in Docs : c # d => doc'[c] = NoRow
        /\ EquipmentTyped'
        /\ Follows(doc'[d], equipment'.status)
    <3>1. CASE cancelDisposalRequest(r)
      <4>1. /\ doc' = [doc EXCEPT ![d].status = "deleted"]
            /\ equipment' = [status |-> "available", version |-> equipment.version + 1]
        BY <3>1 DEF cancelDisposalRequest, SetEquipment
      <4>2. doc'[d].status = "deleted"
        BY <1>1, <2>2, <4>1, RowShape
      <4>3. EquipmentTyped' /\ equipment'.status = "available"
        BY <1>1, <4>1 DEF EquipmentTyped
      <4> QED  BY <1>1, <2>4, <4>1, <4>2, <4>3 DEF Follows
    <3>2. CASE DecideDisposal(r)
      <4>1. /\ doc' = [doc EXCEPT ![d] = Stepped(r, doc[d])]
            /\ IF step.op = "review" THEN UNCHANGED equipment
               ELSE SetEquipment(EquipmentAfter(step.op))
        BY <3>2 DEF DecideDisposal
      <4>2. Stepped(r, doc[d]).status = step.to
        BY <2>1, <3>2, SteppedFields
      <4>3. doc'[d].status = step.to /\ \A c \in Docs : c # d => doc'[c] = NoRow
        BY <1>1, <2>2, <2>4, <4>1, <4>2
      <4>4. CASE step.op = "review"
        <5>1. UNCHANGED equipment
          BY <4>1, <4>4
        <5> QED
          BY <1>1, <2>5, <2>6, <4>3, <4>4, <5>1 DEF Follows, EquipmentTyped
      <4>5. CASE step.op # "review"
        <5>1. equipment' = [status |-> EquipmentAfter(step.op), version |-> equipment.version + 1]
          BY <4>1, <4>5 DEF SetEquipment
        <5>2. EquipmentTyped' /\ equipment'.status = EquipmentAfter(step.op)
          BY <1>1, <5>1 DEF EquipmentTyped, EquipmentAfter
        <5> QED
          BY <2>1, <2>6, <3>2, <4>3, <4>5, <5>2 DEF Follows, EquipmentAfter
      <4> QED  BY <4>4, <4>5
    <3> QED  BY <1>5, <3>1, <3>2
  <2>8. OneDisposal'
    BY <2>7 DEF OneDisposal
  <2> QED
    BY <1>1, <2>2, <2>3, <2>7, <2>8, OneFollows DEF EquipmentFollowsRequest
<1>6. ASSUME NEW r \in Requests, TakeStep(r) \/ Remove(r) PROVE Good
  <2>1. UNCHANGED equipment
    BY <1>6 DEF TakeStep, Remove
  <2>2. kind # "disposal"
    <3>1. CASE TakeStep(r)
      BY <3>1 DEF TakeStep
    <3>2. CASE Remove(r)
      <4>1. request[r].step \in Chain[kind] /\ request[r].step.op \in {"remove", "removeAny"}
        BY <3>2 DEF Remove, Inv, TypeOK, RequestStates, Idle
      <4> QED  BY <4>1, NoRemovalOfDisposals
    <3> QED  BY <1>6, <3>1, <3>2
  <2> QED  BY <1>3, <2>1, <2>2
<1>7. ASSUME NEW r \in Requests, NEW d \in Docs, createNewVersion(r, d) PROVE Good
  BY <1>3, <1>7 DEF createNewVersion
<1>8. ASSUME NEW r \in Requests,
             \/ \E d \in Docs, user \in Users :
                    \/ \E step \in Chain[kind] : Load(r, d, user, step)
                    \/ NewVersionLoad(r, d, user)
             \/ EditPlanItem(r)
             \/ \E user \in Users : requestDisposal(r, user)
             \/ Fail(r)
      PROVE  UNCHANGED <<doc, equipment>>
  BY <1>8 DEF Load, NewVersionLoad, EditPlanItem, requestDisposal, Fail
<1>9. ASSUME NEW d \in Docs, FillRow(d) \/ FillItems(d) \/ Evict(d) \/ EditSection(d)
      PROVE  UNCHANGED <<doc, equipment>>
  BY <1>9 DEF FillRow, FillItems, Evict, EditSection
<1>10. CASE UNCHANGED vars
  BY <1>2, <1>10 DEF vars
<1> QED
  BY <1>2, <1>4, <1>5, <1>6, <1>7, <1>8, <1>9, <1>10 DEF Next, RequestStep

-----------------------------------------------------------------------------
(* Signatures *)

Given(seen) == { s \in Signatures : seen[s] # NotShown }

FinalStatus == IF kind = "validation" THEN "quality_approved" ELSE "approved"

\* What the invariant says of the signatures of one document.
WellSigned(d, row, seen) ==
    /\ row.status # "deleted" =>
           /\ Given(seen) = Expected[row.status]
           /\ \A s \in Given(seen) : seen[s].doc = d /\ seen[s].body = row.body
    /\ row.status = FinalStatus => Required[kind] \subseteq Given(seen)
    /\ \A pair \in Independent[kind] :
           pair[1] \in Given(seen) => row.signed[pair[1]] # row.signed[pair[2]]

LEMMA WellSignedIs ==
    (StandingFits /\ ApprovedAsSeen /\ ApproverIsIndependent)
        <=> \A d \in Docs : WellSigned(d, doc[d], shown[d])
BY DEF StandingFits, ApprovedAsSeen, ApproverIsIndependent, WellSigned, Standing,
   Given, Final, FinalStatus

LEMMA ExpectedAtTheEnd ==
    ASSUME kind \in AllKinds
    PROVE  Expected[FinalStatus] = Required[kind]
BY DEF AllKinds, Expected, FinalStatus, Required

LEMMA MovedWellSigned ==
    ASSUME Inv, NEW d \in Docs, Moved(d)
    PROVE  WellSigned(d, doc'[d], shown'[d])
<1>1. PICK r \in Requests : /\ Matches(r)
                            /\ request[r].doc = d
                            /\ request[r].step.op # "cancel"
                            /\ doc'[d] = Stepped(r, doc[d])
                            /\ shown'[d] = Showing(r)
  BY DEF Moved
<1> DEFINE row  == doc[d]
           new  == doc'[d]
           step == request[r].step
           s    == row.status
           seen == shown[d]
<1>2. /\ kind \in AllKinds /\ step \in Chain[kind] /\ s \in step.from
      /\ request[r].user \in Users /\ row \in Rows
      /\ Allows(step, row, request[r].user)
      /\ request[r].content = Content(d, row)
      /\ step.op \notin Unversioned
  BY <1>1, MatchedRow DEF Matches
<1>3. Orderly(kind, step, s)
  BY <1>1, <1>2, ChainOrder
<1>4. /\ new.status = step.to
      /\ step.op # "edit" => new.body = row.body
      /\ step.op \in Signatures =>
             new.signed = [row.signed EXCEPT ![step.op] = request[r].user]
  <2>1. /\ Stepped(r, row).status = step.to
        /\ step.op # "edit" => Stepped(r, row).body = row.body
        /\ step.op \in Signatures =>
               Stepped(r, row).signed =
                   [row.signed EXCEPT ![step.op] = request[r].user]
    BY <1>1, SteppedFields
  <2> QED  BY <1>1, <2>1
<1>5. /\ WellSigned(d, row, seen) /\ s # "deleted"
      /\ seen \in [Signatures -> [doc : Docs, body : Nat] \cup {NotShown}]
      /\ row.body \in Nat \ {0} /\ row.signed \in [Signatures -> Users \cup {Nobody}]
  <2>1. s # "deleted"
    <3>1. "deleted" \notin Statuses[kind]
      BY <1>2 DEF Statuses, AllKinds
    <3> QED  BY <1>2, <3>1, ChainTypes
  <2> QED  BY <1>2, <2>1, WellSignedIs DEF Inv, TypeOK, Rows
<1>6. CASE step.op \notin Signatures
  <2>1. step.to \in {"draft", "rejected"}
    BY <1>3, <1>6 DEF Orderly
  <2>2. shown'[d] = [t \in Signatures |-> NotShown]
    BY <1>1, <2>1 DEF Showing
  <2>3. Given(shown'[d]) = {}
    BY <2>2 DEF Given
  <2>4. Expected[step.to] = {} /\ step.to # FinalStatus
    BY <2>1 DEF Expected, FinalStatus
  <2> QED
    BY <1>4, <2>3, <2>4 DEF WellSigned
<1>7. CASE step.op \in Signatures
  <2>1. /\ step.to \notin {"draft", "rejected"} /\ step.op # "edit"
        /\ Expected[step.to] = Expected[s] \cup {step.op}
        /\ \A pair \in Independent[kind] :
               /\ step.op = pair[1] => pair[2] \in step.apart
               /\ step.op = pair[2] => pair[1] \notin Expected[s] \cup {step.op}
    BY <1>3, <1>7 DEF Orderly, Signatures
  <2>2. shown'[d] = [seen EXCEPT ![step.op] = Content(d, row)]
    BY <1>1, <1>2, <1>7, <2>1 DEF Showing
  <2>3. Content(d, row).doc = d /\ Content(d, row).body = row.body
        /\ Content(d, row) # NotShown
    BY <1>5 DEF Content, NotShown
  <2>4. Given(shown'[d]) = Given(seen) \cup {step.op}
    BY <1>5, <1>7, <2>2, <2>3 DEF Given
  <2>5. Given(shown'[d]) = Expected[new.status]
    BY <1>4, <1>5, <2>1, <2>4 DEF WellSigned
  <2>6. \A t \in Given(shown'[d]) :
            shown'[d][t].doc = d /\ shown'[d][t].body = new.body
    <3>1. new.body = row.body
      BY <1>4, <2>1
    <3>2. ASSUME NEW t \in Given(shown'[d])
          PROVE  shown'[d][t].doc = d /\ shown'[d][t].body = row.body
      <4>1. CASE t = step.op
        BY <1>5, <1>7, <2>2, <2>3, <4>1
      <4>2. CASE t # step.op
        <5>1. t \in Given(seen) /\ shown'[d][t] = seen[t]
          BY <1>5, <2>2, <2>4, <4>2
        <5> QED  BY <1>5, <5>1 DEF WellSigned
      <4> QED  BY <4>1, <4>2
    <3> QED  BY <3>1, <3>2
  <2>7. new.status = FinalStatus => Required[kind] \subseteq Given(shown'[d])
    BY <1>2, <2>5, ExpectedAtTheEnd
  <2>8. ASSUME NEW pair \in Independent[kind], pair[1] \in Given(shown'[d])
        PROVE  new.signed[pair[1]] # new.signed[pair[2]]
    <3>1. /\ pair[1] \in Signatures /\ pair[2] \in Signatures /\ pair[1] # pair[2]
      BY <1>2, <2>8 DEF Independent, Signatures, AllKinds
    <3>2. new.signed = [row.signed EXCEPT ![step.op] = request[r].user]
      BY <1>4, <1>7
    <3>3. CASE step.op = pair[1]
      <4>1. row.signed[pair[2]] # request[r].user
        BY <1>2, <2>1, <3>3 DEF Allows
      <4> QED  BY <1>5, <3>1, <3>2, <3>3, <4>1
    <3>4. CASE step.op = pair[2]
      BY <1>5, <2>1, <2>4, <2>8, <3>4 DEF WellSigned
    <3>5. CASE step.op # pair[1] /\ step.op # pair[2]
      <4>1. pair[1] \in Given(seen)
        BY <2>4, <2>8, <3>5
      <4>2. row.signed[pair[1]] # row.signed[pair[2]]
        BY <1>5, <4>1 DEF WellSigned
      <4> QED  BY <1>5, <3>1, <3>2, <3>5, <4>2
    <3> QED  BY <3>3, <3>4, <3>5
  <2> QED
    BY <2>5, <2>6, <2>7, <2>8 DEF WellSigned
<1> QED
  BY <1>6, <1>7

LEMMA SignaturesStep ==
    ASSUME Inv, [Next]_vars
    PROVE  StandingFits' /\ ApprovedAsSeen' /\ ApproverIsIndependent'
<1>1. ASSUME NEW d \in Docs
      PROVE  WellSigned(d, doc'[d], shown'[d])
  <2>1. /\ DocumentStep(d) /\ TypeOK /\ kind \in AllKinds
        /\ doc[d] \in Rows \cup {NoRow} /\ WellSigned(d, doc[d], shown[d])
    BY DocumentSteps, KindsAssumption, WellSignedIs DEF Inv, TypeOK
  <2>2. CASE Untouched(d)
    <3>1. /\ doc'[d].status = doc[d].status /\ doc'[d].body = doc[d].body
          /\ doc'[d].signed = doc[d].signed /\ shown'[d] = shown[d]
      BY <2>1, <2>2, UntouchedFields DEF Untouched
    <3> QED  BY <2>1, <3>1 DEF WellSigned
  <2>3. CASE Inserted(d)
    <3>1. PICK user \in Users : doc'[d] = NewRow(user) /\ doc[d] = NoRow /\ shown'[d] = shown[d]
      BY <2>3 DEF Inserted
    <3>2. Given(shown[d]) = {}
      BY <2>1, <3>1 DEF WellSigned, NoRow, Expected
    <3>3. doc'[d].status \in {"draft", "pending"}
      BY <3>1 DEF NewRow
    <3>4. Expected[doc'[d].status] = {} /\ doc'[d].status # FinalStatus
      BY <3>3 DEF Expected, FinalStatus
    <3> QED  BY <3>1, <3>2, <3>4 DEF WellSigned
  <2>4. CASE Deleted(d)
    <3>1. /\ doc'[d].status = "deleted" /\ doc'[d].signed = doc[d].signed
          /\ shown'[d] = shown[d]
      BY <2>1, <2>4, RowShape DEF Deleted
    <3> QED  BY <2>1, <3>1 DEF WellSigned, FinalStatus
  <2>5. CASE Moved(d)
    BY <2>5, MovedWellSigned
  <2> QED  BY <2>1, <2>2, <2>3, <2>4, <2>5 DEF DocumentStep
<1>2. kind' = kind /\ Expected' = Expected /\ FinalStatus' = FinalStatus
  BY KindKept DEF Expected, FinalStatus
<1>3. \A d \in Docs : WellSigned(d, doc[d], shown[d])'
  BY <1>1, <1>2 DEF WellSigned
<1> QED
  BY <1>3 DEF StandingFits, ApprovedAsSeen, ApproverIsIndependent, WellSigned,
     Standing, Given, Final, FinalStatus

-----------------------------------------------------------------------------
(* The theorems *)

LEMMA Initially ==
    ASSUME Init
    PROVE  Inv
<1>1. kind \in Kinds /\ kind \in AllKinds
  BY KindsAssumption DEF Init
<1>2. PICK first \in Docs, user \in Users :
          doc = [d \in Docs |-> IF d = first /\ kind # "disposal"
                                THEN NewRow(user) ELSE NoRow]
  BY DEF Init
<1>3. NewRow(user) \in Rows /\ NewRow(user).status \in {"draft", "pending"}
  <2>1. [Unsigned EXCEPT !["create"] = user] \in [Signatures -> Users \cup {Nobody}]
    BY DEF Unsigned
  <2> QED  BY <1>1, <2>1 DEF NewRow, Rows, Statuses, AllKinds
<1>4. \A d \in Docs : \/ doc[d] = NoRow /\ doc[d].status = "none"
                      \/ doc[d] = NewRow(user) /\ kind # "disposal"
  BY <1>2 DEF NoRow
<1>5. TypeOK
  <2>1. doc \in [Docs -> Rows \cup {NoRow}]
    BY <1>2, <1>3
  <2>2. Idle \in RequestStates
    BY DEF RequestStates
  <2>3. 0 \in 0 .. MaxParts[kind]
    BY <1>1, BoundsAssumption
  <2> QED  BY <1>1, <2>1, <2>2, <2>3 DEF Init, TypeOK
<1>6. CopiesAgree
  <2>1. ASSUME NEW d \in Docs PROVE Agrees(NoRow, doc[d])
    <3>1. CASE doc[d] = NoRow
      BY <3>1 DEF Agrees, NoRow
    <3>2. CASE doc[d] \in Rows
      <4>1. doc[d].version \in Nat /\ doc[d].version > 0
        BY <3>2 DEF Rows
      <4>2. NoRow.version = 0
        BY DEF NoRow
      <4> QED  BY <4>1, <4>2 DEF Agrees
    <3> QED  BY <1>5, <3>1, <3>2 DEF TypeOK
  <2> QED  BY <2>1 DEF Init, CopiesAgree
<1>7. RequestsAgree
  BY DEF Init, RequestsAgree, Idle
<1>8. OneDisposal
  BY <1>4 DEF OneDisposal
<1>9. StandingFits /\ ApprovedAsSeen /\ ApproverIsIndependent
  <2>1. ASSUME NEW d \in Docs PROVE WellSigned(d, doc[d], shown[d])
    <3>1. Given(shown[d]) = {}
      BY DEF Init, Given
    <3>2. doc[d].status \in {"none", "draft", "pending"}
      BY <1>3, <1>4
    <3>3. Expected[doc[d].status] = {} /\ doc[d].status # FinalStatus
      BY <3>2 DEF Expected, FinalStatus
    <3> QED  BY <3>1, <3>3 DEF WellSigned
  <2> QED  BY <2>1, WellSignedIs
<1>10. EquipmentFollowsRequest
  BY <1>4 DEF EquipmentFollowsRequest, Init
<1> QED
  BY <1>5, <1>6, <1>7, <1>8, <1>9, <1>10 DEF Inv

LEMMA InvStep ==
    ASSUME Inv, Hypotheses, [Next]_vars
    PROVE  Inv'
<1>1. TypeOK'
  <2>1. kind' = kind /\ kind \in Kinds /\ Rows' = Rows
    BY KindKept DEF Inv, TypeOK, Rows
  <2>2. doc' \in [Docs -> Rows \cup {NoRow}]
    BY FunctionsKept, RowsTyped DEF Inv, IsOnDocs
  <2>3. parts' \in [Docs -> 0 .. MaxParts[kind]]
    BY FunctionsKept, PartsTyped DEF Inv, IsOnDocs
  <2>4. /\ detail' \in [Docs -> Rows \cup {NoRow}]
        /\ fill' \in [Docs -> Rows \cup {NoRow}]
    BY FunctionsKept, CopiesTyped DEF Inv, IsOnDocs
  <2>5. EquipmentTyped'
    BY EquipmentStep
  <2>6. request' \in [Requests -> RequestStates']
    BY RequestsAgreeStep
  <2>7. shown' \in [Docs -> [Signatures -> [doc : Docs, body : Nat] \cup {NotShown}]]
    BY FunctionsKept, ShownTyped DEF Inv, IsOnDocs
  <2> QED
    BY <2>1, <2>2, <2>3, <2>4, <2>5, <2>6, <2>7 DEF TypeOK, EquipmentTyped
<1>2. CopiesAgree'
  BY CopiesAgreeStep
<1>3. RequestsAgree'
  BY RequestsAgreeStep
<1>4. OneDisposal' /\ EquipmentFollowsRequest'
  BY EquipmentStep
<1>5. StandingFits' /\ ApprovedAsSeen' /\ ApproverIsIndependent'
  BY SignaturesStep
<1> QED
  BY <1>1, <1>2, <1>3, <1>4, <1>5 DEF Inv

LEMMA InvAlways ==
    ASSUME Hypotheses
    PROVE  Spec => []Inv
<1>1. Init => Inv
  BY Initially
<1>2. Inv /\ [Next]_vars => Inv'
  BY InvStep
<1> QED
  BY <1>1, <1>2, PTL DEF Spec

\* Rows, copies, requests and the history keep their types, whichever kind of
\* document is followed.
THEOREM DocumentsTyped ==
    ASSUME Hypotheses
    PROVE  Spec => []TypeOK
<1>1. Inv => TypeOK
  BY DEF Inv
<1> QED  BY <1>1, InvAlways, PTL

\* Whoever signed a document in its present round had seen it as it is, and a
\* document at the end of its chain has all signatures of one round: the
\* version that the compare-and-set confirms is that of the row and of the
\* items that were shown.
THEOREM SignedAsSeen ==
    ASSUME Hypotheses
    PROVE  Spec => []ApprovedAsSeen
<1>1. Inv => ApprovedAsSeen
  BY DEF Inv
<1> QED  BY <1>1, InvAlways, PTL

\* The check of the approver's independence, made on a row read earlier, holds
\* of the row it is committed to (assertIndependentApprover).
THEOREM ApproversAreIndependent ==
    ASSUME Hypotheses
    PROVE  Spec => []ApproverIsIndependent
<1>1. Inv => ApproverIsIndependent
  BY DEF Inv
<1> QED  BY <1>1, InvAlways, PTL

\* Equipment awaits disposal and is disposed of as its request says
\* (disposal.service.ts).
THEOREM DisposalDecidesEquipment ==
    ASSUME Hypotheses
    PROVE  Spec => []EquipmentFollowsRequest
<1>1. Inv => EquipmentFollowsRequest
  BY DEF Inv
<1> QED  BY <1>1, InvAlways, PTL

\* A document at the end of its chain is not changed again but by its removal:
\* no handler allows a step from there, and what was allowed before has an
\* older version.
THEOREM DecisionsAreFinal ==
    ASSUME Hypotheses
    PROVE  Spec => DecisionIsFinal
<1> DEFINE Kept == \A d \in Docs : Final(d) =>
                      \/ doc'[d] = [doc[d] EXCEPT !.latest = doc'[d].latest]
                      \/ doc'[d].status = "deleted"
<1>1. ASSUME Inv, [Next]_vars PROVE Kept
  <2>1. ASSUME NEW d \in Docs, Final(d)
        PROVE  \/ doc'[d] = [doc[d] EXCEPT !.latest = doc'[d].latest]
               \/ doc'[d].status = "deleted"
    <3>1. DocumentStep(d) /\ TypeOK /\ doc[d] \in Rows \cup {NoRow} /\ kind \in AllKinds
      BY <1>1, DocumentSteps, KindsAssumption DEF Inv, TypeOK
    <3>2. doc[d].status = FinalStatus
      BY <2>1 DEF Final, FinalStatus
    <3>3. CASE Untouched(d)
      BY <3>1, <3>3, UntouchedFields
    <3>4. ~ Inserted(d)
      BY <3>2 DEF Inserted, NoRow, FinalStatus
    <3>5. CASE Deleted(d)
      BY <3>1, <3>5, RowShape DEF Deleted
    <3>6. ~ Moved(d)
      <4> SUFFICES ASSUME NEW r \in Requests, Matches(r), request[r].doc = d,
                          request[r].step.op # "cancel"
                   PROVE  FALSE
        BY DEF Moved
      <4>1. request[r].step \in Chain[kind] /\ doc[d].status \in request[r].step.from
        BY <1>1, MatchedRow
      <4>2. Orderly(kind, request[r].step, doc[d].status)
        BY <3>1, <4>1, ChainOrder DEF Matches
      <4> QED  BY <3>2, <4>2 DEF Orderly, FinalStatus
    <3> QED  BY <3>1, <3>3, <3>4, <3>5, <3>6 DEF DocumentStep
  <2> QED  BY <2>1
<1>2. Inv /\ [Next]_vars => [Kept]_vars
  BY <1>1
<1> QED
  BY <1>2, InvAlways, PTL DEF Spec, DecisionIsFinal

-----------------------------------------------------------------------------
(* The register at a desk *)

\* What is written later is written in a later version.
BodyBelow == \A d \in Docs : doc[d].body <= doc[d].version

LEMMA BodyBelowStep ==
    ASSUME Inv, BodyBelow, [Next]_vars
    PROVE  BodyBelow'
<1> SUFFICES ASSUME NEW d \in Docs PROVE doc'[d].body <= doc'[d].version
  BY DEF BodyBelow
<1>1. /\ DocumentStep(d) /\ TypeOK /\ doc[d] \in Rows \cup {NoRow} /\ kind \in AllKinds
      /\ doc[d].body <= doc[d].version
      /\ doc[d].version \in Nat /\ doc[d].body \in Nat
  BY DocumentSteps, KindsAssumption, RowShape DEF Inv, TypeOK, BodyBelow
<1>2. CASE Untouched(d)
  BY <1>1, <1>2, UntouchedFields
<1>3. CASE Inserted(d)
  BY <1>3 DEF Inserted, NewRow
<1>4. CASE Deleted(d)
  <2>1. doc'[d].body = doc[d].body /\ doc'[d].version = doc[d].version
    BY <1>1, <1>4, RowShape DEF Deleted
  <2> QED  BY <1>1, <2>1
<1>5. CASE Moved(d)
  <2>1. PICK r \in Requests : /\ Matches(r)
                              /\ request[r].doc = d
                              /\ request[r].step.op # "cancel"
                              /\ doc'[d] = Stepped(r, doc[d])
    BY <1>5 DEF Moved
  <2>2. /\ doc'[d].version = doc[d].version + 1
        /\ request[r].step.op # "edit" => doc'[d].body = doc[d].body
        /\ request[r].step.op = "edit" => doc'[d].body = doc[d].version + 1
    <3>1. /\ Stepped(r, doc[d]).version = doc[d].version + 1
          /\ request[r].step.op # "edit" => Stepped(r, doc[d]).body = doc[d].body
          /\ request[r].step.op = "edit" => Stepped(r, doc[d]).body = doc[d].version + 1
      BY <2>1, SteppedFields
    <3> QED  BY <2>1, <3>1
  <2> QED  BY <1>1, <2>2
<1> QED  BY <1>1, <1>2, <1>3, <1>4, <1>5 DEF DocumentStep

LEMMA BodyBelowAlways ==
    ASSUME Hypotheses
    PROVE  Spec => []BodyBelow
<1>1. Init => BodyBelow
  BY DEF Init, BodyBelow, NewRow, NoRow
<1>2. Inv /\ BodyBelow /\ [Next]_vars => BodyBelow'
  BY BodyBelowStep
<1> QED  BY <1>1, <1>2, InvAlways, PTL DEF Spec

\* A step other than an edit leads elsewhere.
LEMMA StepsMove ==
    ASSUME NEW k \in AllKinds, NEW step \in Chain[k], step.op \notin {"edit", "editParts"}
    PROVE  step.to \notin step.from
<1>1. CASE k = "intermediate"
  BY <1>1 DEF Chain, InspectionDrafting, InspectionApproval, InspectionReturns,
     InspectionRemoval, Step, Apart, Own
<1>2. CASE k = "self"
  BY <1>2 DEF Chain, SelfDrafting, SelfApproval, SelfReturns, SelfRemoval, Step, Apart, Own
<1>3. CASE k = "validation"
  BY <1>3 DEF Chain, ValidationDrafting, ValidationApproval, ValidationReturns,
     Step, Apart, Own
<1>4. CASE k = "plan"
  BY <1>4 DEF Chain, PlanDrafting, PlanSubmission, PlanApproval, PlanReturns,
     Step, Apart, Own
<1>5. CASE k = "disposal"
  BY <1>5 DEF Chain, DisposalReview, DisposalApproval, DisposalCancel, Step, Apart, Own
<1> QED
  BY <1>1, <1>2, <1>3, <1>4, <1>5 DEF AllKinds

LEMMA InRegister ==
    ASSUME NEW d \in Docs
    PROVE  /\ statusOf[d] = doc[d].status /\ bodyOf[d] = doc[d].body
           /\ signedOf[d] = doc[d].signed
           /\ sealsOf[d] = [s \in Signatures |-> shown[d][s].body]
BY DEF statusOf, bodyOf, signedOf, sealsOf

\* Where one document changes, the register changes there only.
LEMMA OneEntry ==
    ASSUME NEW d \in Docs,
           \A c \in Docs : c # d => /\ doc'[c].status = doc[c].status
                                    /\ doc'[c].body = doc[c].body
                                    /\ doc'[c].signed = doc[c].signed
                                    /\ shown'[c] = shown[c]
    PROVE  /\ statusOf' = [statusOf EXCEPT ![d] = doc'[d].status]
           /\ bodyOf' = [bodyOf EXCEPT ![d] = doc'[d].body]
           /\ signedOf' = [signedOf EXCEPT ![d] = doc'[d].signed]
           /\ sealsOf' = [sealsOf EXCEPT ![d] = [s \in Signatures |-> shown'[d][s].body]]
<1>1. statusOf' = [statusOf EXCEPT ![d] = doc'[d].status]
  BY DEF statusOf
<1>2. bodyOf' = [bodyOf EXCEPT ![d] = doc'[d].body]
  BY DEF bodyOf
<1>3. signedOf' = [signedOf EXCEPT ![d] = doc'[d].signed]
  BY DEF signedOf
<1>4. sealsOf' = [sealsOf EXCEPT ![d] = [s \in Signatures |-> shown'[d][s].body]]
  BY DEF sealsOf
<1> QED  BY <1>1, <1>2, <1>3, <1>4

LEMMA SameEntry ==
    ASSUME NEW d \in Docs
    PROVE  /\ doc'[d].body = doc[d].body => [bodyOf EXCEPT ![d] = doc'[d].body] = bodyOf
           /\ doc'[d].signed = doc[d].signed =>
                  [signedOf EXCEPT ![d] = doc'[d].signed] = signedOf
           /\ shown'[d] = shown[d] =>
                  [sealsOf EXCEPT ![d] = [s \in Signatures |-> shown'[d][s].body]] = sealsOf
<1>1. doc'[d].body = doc[d].body => [bodyOf EXCEPT ![d] = doc'[d].body] = bodyOf
  BY DEF bodyOf
<1>2. doc'[d].signed = doc[d].signed => [signedOf EXCEPT ![d] = doc'[d].signed] = signedOf
  BY DEF signedOf
<1>3. shown'[d] = shown[d] =>
          [sealsOf EXCEPT ![d] = [s \in Signatures |-> shown'[d][s].body]] = sealsOf
  BY DEF sealsOf
<1> QED  BY <1>1, <1>2, <1>3

LEMMA RegisterStays ==
    ASSUME UNCHANGED <<kind, doc, shown, equipment>>
    PROVE  UNCHANGED Register!vars
BY DEF Register!vars, statusOf, bodyOf, signedOf, sealsOf

\* The step of a request is one act at the desk: the row the handler read, and
\* what the person had seen, are what is there now.
LEMMA MovedRegistered ==
    ASSUME Inv, BodyBelow, NEW r \in Requests, TakeStep(r) \/ DecideDisposal(r)
    PROVE  Register!Next
<1> DEFINE d    == request[r].doc
           step == request[r].step
           user == request[r].user
           row  == doc[d]
           new  == doc'[d]
<1>1. /\ Matches(r) /\ step.op # "cancel"
      /\ doc' = [doc EXCEPT ![d] = Stepped(r, row)]
      /\ shown' = [shown EXCEPT ![d] = Showing(r)]
      /\ kind' = kind
  <2>1. CASE TakeStep(r)
    <3>1. Matches(r) /\ kind # "disposal"
      BY <2>1 DEF TakeStep
    <3>2. step.op # "cancel"
      BY <3>1, MatchedRow, NoCancel
    <3> QED  BY <2>1, <3>1, <3>2 DEF TakeStep
  <2>2. CASE DecideDisposal(r)
    BY <2>2 DEF DecideDisposal
  <2> QED  BY <2>1, <2>2
<1>2. /\ kind \in AllKinds /\ d \in Docs /\ user \in Users /\ step \in Chain[kind]
      /\ row \in Rows /\ row.status \in step.from /\ Allows(step, row, user)
      /\ request[r].content = Content(d, row)
      /\ step.op \notin Unversioned
  BY <1>1, MatchedRow DEF Matches
<1>3. Orderly(kind, step, row.status)
  BY <1>1, <1>2, ChainOrder
<1>4. /\ new.status = step.to /\ row.body \in Nat /\ row.version \in Nat
      /\ row.body <= row.version
      /\ step.op # "edit" => new.body = row.body
      /\ step.op = "edit" => new.body = row.version + 1 /\ new.signed = row.signed
      /\ step.op \in Signatures => new.signed = [row.signed EXCEPT ![step.op] = user]
      /\ step.op \notin Signatures \cup {"edit"} =>
             new.signed = IF step.op = "withdraw"
                          THEN [row.signed EXCEPT !["submit"] = Nobody] ELSE row.signed
      /\ shown'[d] = Showing(r)
  <2>1. new = Stepped(r, row) /\ shown'[d] = Showing(r)
    BY <1>1, <1>2 DEF Inv, TypeOK
  <2>2. row.body \in Nat /\ row.version \in Nat /\ row.body <= row.version
    BY <1>2, RowShape DEF BodyBelow
  <2>3. /\ Stepped(r, row).status = step.to
        /\ step.op # "edit" => Stepped(r, row).body = row.body
        /\ step.op = "edit" => /\ Stepped(r, row).body = row.version + 1
                               /\ Stepped(r, row).signed = row.signed
        /\ step.op \in Signatures =>
               Stepped(r, row).signed = [row.signed EXCEPT ![step.op] = user]
        /\ step.op \notin Signatures \cup {"edit"} =>
               Stepped(r, row).signed =
                   IF step.op = "withdraw" THEN [row.signed EXCEPT !["submit"] = Nobody]
                   ELSE row.signed
    BY <1>1, SteppedFields
  <2> QED  BY <2>1, <2>2, <2>3
<1>5. /\ statusOf' = [statusOf EXCEPT ![d] = step.to]
      /\ bodyOf' = [bodyOf EXCEPT ![d] = new.body]
      /\ signedOf' = [signedOf EXCEPT ![d] = new.signed]
      /\ sealsOf' = [sealsOf EXCEPT ![d] = [s \in Signatures |-> shown'[d][s].body]]
  <2>1. \A c \in Docs : c # d => doc'[c] = doc[c] /\ shown'[c] = shown[c]
    BY <1>1 DEF Inv, TypeOK
  <2>2. \A c \in Docs : c # d => /\ doc'[c].status = doc[c].status
                                 /\ doc'[c].body = doc[c].body
                                 /\ doc'[c].signed = doc[c].signed
                                 /\ shown'[c] = shown[c]
    BY <2>1
  <2> QED  BY <1>2, <1>4, <2>2, OneEntry
<1>6. Register!May(step, d, user)
  BY <1>2, InRegister DEF Allows, Register!May
<1>7. /\ kind # "disposal" \/ step.op = "review" => equipment'.status = equipment.status
      /\ kind = "disposal" /\ step.op # "review" =>
             equipment'.status = EquipmentAfter(step.op)
  <2>1. CASE TakeStep(r)
    BY <2>1 DEF TakeStep
  <2>2. CASE DecideDisposal(r)
    BY <2>2 DEF DecideDisposal, SetEquipment
  <2> QED  BY <2>1, <2>2
<1>8. kind = "disposal" => step.op \in {"review", "approve", "rejectReview", "rejectApproval"}
  BY <1>1, <1>2, DisposalChain
<1>9. statusOf'[d] = step.to /\ bodyOf'[d] = new.body
      /\ statusOf[d] = row.status /\ bodyOf[d] = row.body /\ signedOf[d] = row.signed
      /\ sealsOf[d] = [s \in Signatures |-> shown[d][s].body]
  <2>1. statusOf'[d] = new.status /\ bodyOf'[d] = new.body
    BY <1>2 DEF statusOf, bodyOf
  <2> QED  BY <1>2, <1>4, <2>1, InRegister
<1>10. step.to \in {"draft", "rejected"} =>
           [s \in Signatures |-> shown'[d][s].body] = Register!Unsealed
  BY <1>4 DEF Showing, NotShown, Register!Unsealed
<1> HIDE DEF d, step, user, row, new
<1>11. CASE step.op = "edit"
  <2>1. step.to \in {"draft", "rejected"} /\ kind # "disposal"
    BY <1>3, <1>8, <1>11 DEF Orderly, Signatures
  <2>2. signedOf' = signedOf
    BY <1>2, <1>4, <1>5, <1>11, SameEntry DEF d, row, new
  <2>3. bodyOf'[d] > bodyOf[d]
    BY <1>4, <1>9, <1>11
  <2>4. Register!Edit(step, d, user)
    BY <1>1, <1>5, <1>6, <1>7, <1>9, <1>10, <1>11, <2>1, <2>2, <2>3 DEF Register!Edit
  <2>5. bodyOf'[d] # bodyOf[d]
    BY <1>4, <1>9, <1>11
  <2> QED  BY <1>2, <2>4, <2>5 DEF Register!Next
<1>12. CASE step.op \in Signatures
  <2>1. step.op # "edit" /\ step.to \notin {"draft", "rejected"} /\ step.op # "editParts"
    BY <1>3, <1>12 DEF Orderly, Signatures
  <2>2. bodyOf' = bodyOf
    BY <1>2, <1>4, <1>5, <2>1, SameEntry DEF d, row, new
  <2>3. signedOf' = [signedOf EXCEPT ![d][step.op] = user]
    BY <1>4, <1>5, <1>9, <1>12
  <2>4. sealsOf' = [sealsOf EXCEPT ![d][step.op] = bodyOf[d]]
    <3>1. shown'[d] = [shown[d] EXCEPT ![step.op] = Content(d, row)]
      BY <1>2, <1>4, <1>12, <2>1 DEF Showing, d, step
    <3>2. Content(d, row).body = bodyOf[d]
      BY <1>9 DEF Content
    <3>3. shown[d] \in [Signatures -> [doc : Docs, body : Nat] \cup {NotShown}]
      BY <1>2 DEF Inv, TypeOK
    <3>4. [s \in Signatures |-> shown'[d][s].body] =
              [sealsOf[d] EXCEPT ![step.op] = bodyOf[d]]
      BY <1>9, <1>12, <3>1, <3>2, <3>3
    <3> QED  BY <1>5, <3>4
  <2>5. IF step.op = "approve" THEN Register!EquipmentBecomes("disposed")
        ELSE UNCHANGED equipment.status
    BY <1>7, <1>8, <1>12 DEF Register!EquipmentBecomes, EquipmentAfter, Signatures
  <2>6. Register!Sign(step, d, user)
    BY <1>1, <1>5, <1>6, <1>12, <2>2, <2>3, <2>4, <2>5 DEF Register!Sign
  <2>7. statusOf'[d] # statusOf[d]
    BY <1>2, <1>9, <2>1, StepsMove
  <2> QED  BY <1>2, <2>6, <2>7 DEF Register!Next
<1>13. CASE step.op \notin Signatures \cup {"edit"}
  <2>1. step.to \in {"draft", "rejected"} /\ step.op # "editParts"
    BY <1>3, <1>13 DEF Orderly
  <2>2. bodyOf' = bodyOf
    BY <1>2, <1>4, <1>5, <1>13, SameEntry DEF d, row, new
  <2>3. signedOf' = IF step.op = "withdraw" THEN [signedOf EXCEPT ![d]["submit"] = Nobody]
                    ELSE signedOf
    <3>1. CASE step.op = "withdraw"
      BY <1>4, <1>5, <1>9, <1>13, <3>1
    <3>2. CASE step.op # "withdraw"
      <4>1. new.signed = row.signed
        BY <1>4, <1>13, <3>2
      <4>2. signedOf' = signedOf
        BY <1>2, <1>5, <4>1, SameEntry DEF d, row, new
      <4> QED  BY <3>2, <4>2
    <3> QED  BY <3>1, <3>2
  <2>4. Register!EquipmentBecomes("available")
    BY <1>7, <1>8, <1>13 DEF Register!EquipmentBecomes, EquipmentAfter, Signatures
  <2>5. Register!SendBack(step, d, user)
    BY <1>1, <1>5, <1>6, <1>10, <1>13, <2>1, <2>2, <2>3, <2>4 DEF Register!SendBack
  <2>6. statusOf'[d] # statusOf[d]
    BY <1>2, <1>9, <1>13, <2>1, StepsMove
  <2> QED  BY <1>2, <2>5, <2>6 DEF Register!Next
<1> QED
  BY <1>11, <1>12, <1>13

LEMMA CancelRegistered ==
    ASSUME Inv, NEW r \in Requests, cancelDisposalRequest(r)
    PROVE  Register!Next
<1> DEFINE d    == request[r].doc
           step == request[r].step
           user == request[r].user
<1>1. /\ Matches(r) /\ step.op = "cancel" /\ kind' = kind /\ shown' = shown
      /\ doc' = [doc EXCEPT ![d].status = "deleted"]
      /\ equipment'.status = "available"
  BY DEF cancelDisposalRequest, SetEquipment
<1>2. /\ kind \in AllKinds /\ d \in Docs /\ user \in Users /\ step \in Chain[kind]
      /\ doc[d] \in Rows /\ Allows(step, doc[d], user) /\ doc[d].status # "deleted"
  BY <1>1, MatchedRow DEF Matches
<1>3. kind = "disposal"
  BY <1>1, <1>2, NoCancel
<1>4. /\ doc'[d].status = "deleted" /\ doc'[d].body = doc[d].body
      /\ doc'[d].signed = doc[d].signed
      /\ \A c \in Docs : c # d => doc'[c] = doc[c]
  BY <1>1, <1>2, RowShape DEF Inv, TypeOK
<1>5. /\ statusOf' = [statusOf EXCEPT ![d] = "deleted"]
      /\ bodyOf' = bodyOf /\ signedOf' = signedOf /\ sealsOf' = sealsOf
  BY <1>1, <1>2, <1>4, OneEntry, SameEntry
<1>6. Register!May(step, d, user)
  BY <1>2, InRegister DEF Allows, Register!May
<1>7. statusOf[d] # "deleted" /\ statusOf'[d] = "deleted"
  BY <1>2, <1>4 DEF statusOf
<1>8. Register!Cancel(step, d, user)
  BY <1>1, <1>3, <1>5, <1>6 DEF Register!Cancel, Register!EquipmentBecomes
<1> QED
  BY <1>2, <1>7, <1>8 DEF Register!Next

LEMMA RemoveRegistered ==
    ASSUME Inv, NEW r \in Requests, Remove(r)
    PROVE  Register!Next
<1> DEFINE d    == request[r].doc
           step == request[r].step
<1>1. /\ request[r].phase = "step" /\ step.op \in {"remove", "removeAny"}
      /\ doc' = [doc EXCEPT ![d].status = "deleted"] /\ doc[d].status # "deleted"
      /\ UNCHANGED <<kind, shown, equipment>>
  BY DEF Remove
<1>2. d \in Docs /\ step \in Chain[kind] /\ request[r].user \in Users
  BY <1>1 DEF Inv, TypeOK, RequestStates, Idle
<1>3. doc[d] \in Rows /\ doc[d].status # "none" /\ kind \in AllKinds
  BY <1>1, <1>2, RowShape, KindsAssumption DEF Inv, TypeOK, RequestsAgree, RequestAgrees
<1>4. /\ doc'[d].status = "deleted" /\ doc'[d].body = doc[d].body
      /\ doc'[d].signed = doc[d].signed
      /\ \A c \in Docs : c # d => doc'[c] = doc[c]
  BY <1>1, <1>2, <1>3, RowShape DEF Inv, TypeOK
<1>5. /\ statusOf' = [statusOf EXCEPT ![d] = "deleted"]
      /\ bodyOf' = bodyOf /\ signedOf' = signedOf /\ sealsOf' = sealsOf
  BY <1>1, <1>2, <1>4, OneEntry, SameEntry
<1>6. statusOf[d] \notin {"none", "deleted"} /\ statusOf'[d] = "deleted"
  BY <1>1, <1>2, <1>3, <1>4 DEF statusOf
<1>7. Register!Remove(step, d)
  BY <1>1, <1>5, <1>6 DEF Register!Remove
<1> QED
  BY <1>2, <1>6, <1>7 DEF Register!Next

LEMMA DrawnFields ==
    ASSUME NEW user
    PROVE  /\ NewRow(user).status = IF kind = "disposal" THEN "pending" ELSE "draft"
           /\ NewRow(user).body = 1
           /\ NewRow(user).signed = Register!DrawnBy(user)
           /\ NoRow.status = "none" /\ NoRow.body = 0
           /\ NoRow.signed = Register!Blank
<1>1. NewRow(user).signed = [Unsigned EXCEPT !["create"] = user]
  BY DEF NewRow
<1>2. [Unsigned EXCEPT !["create"] = user] = Register!DrawnBy(user)
  BY DEF Unsigned, Register!DrawnBy
<1>3. NoRow.signed = Unsigned /\ Unsigned = Register!Blank
  BY DEF NoRow, Unsigned, Register!Blank
<1>4. /\ NewRow(user).status = IF kind = "disposal" THEN "pending" ELSE "draft"
      /\ NewRow(user).body = 1
      /\ NoRow.status = "none" /\ NoRow.body = 0
  BY DEF NewRow, NoRow
<1> QED  BY <1>1, <1>2, <1>3, <1>4

\* A new row is a document drawn up; a parent that is no longer the latest is the
\* same to the register.
LEMMA DrawRegistered ==
    ASSUME Inv, Hypotheses, NEW r \in Requests, NEW d \in Docs,
           createNewVersion(r, d) \/ InsertDisposal(r, d)
    PROVE  Register!Next
<1> DEFINE user == request[r].user
<1>1. /\ doc[d] = NoRow /\ doc'[d] = NewRow(user) /\ user \in Users
      /\ \A c \in Docs : c # d => /\ doc'[c].status = doc[c].status
                                  /\ doc'[c].body = doc[c].body
                                  /\ doc'[c].signed = doc[c].signed
      /\ kind' = kind /\ shown' = shown
      /\ kind = "disposal" => \A c \in Docs : doc[c] = NoRow
      /\ equipment'.status = IF kind = "disposal" THEN "pending_disposal"
                             ELSE equipment.status
  <2>1. CASE InsertDisposal(r, d)
    <3>1. /\ doc[d] = NoRow /\ kind = "disposal" /\ kind' = kind /\ shown' = shown
          /\ doc' = [doc EXCEPT ![d] = NewRow(user)]
          /\ equipment'.status = "pending_disposal"
          /\ \A c \in Docs : doc[c] = NoRow
      BY <2>1 DEF InsertDisposal, SetEquipment, Hypotheses
    <3>2. user \in Users
      BY <2>1 DEF InsertDisposal, Inv, TypeOK, RequestStates, Idle
    <3>3. doc'[d] = NewRow(user) /\ \A c \in Docs : c # d => doc'[c] = doc[c]
      BY <3>1 DEF Inv, TypeOK
    <3> QED  BY <3>1, <3>2, <3>3
  <2>2. CASE createNewVersion(r, d)
    <3> DEFINE parent == request[r].parent
               older == [doc EXCEPT ![parent].latest = FALSE]
    <3>1. /\ doc[d] = NoRow /\ kind = "plan" /\ kind' = kind /\ shown' = shown
          /\ doc' = [older EXCEPT ![d] = NewRow(user)]
          /\ UNCHANGED equipment
      BY <2>2 DEF createNewVersion
    <3>2. user \in Users /\ parent \in Docs
      BY <2>2 DEF createNewVersion, Inv, TypeOK, RequestStates, Idle, RequestsAgree
    <3>3. doc \in [Docs -> Rows \cup {NoRow}] /\ kind \in AllKinds
      BY KindsAssumption DEF Inv, TypeOK
    <3>4. \A c \in Docs : /\ older[c].status = doc[c].status
                          /\ older[c].body = doc[c].body
                          /\ older[c].signed = doc[c].signed
      <4> SUFFICES ASSUME NEW c \in Docs
                   PROVE  /\ older[c].status = doc[c].status
                          /\ older[c].body = doc[c].body
                          /\ older[c].signed = doc[c].signed
        OBVIOUS
      <4>1. CASE c # parent
        <5>1. older[c] = doc[c]
          BY <3>3, <4>1
        <5> QED  BY <5>1
      <4>2. CASE c = parent
        <5> DEFINE row == doc[c]
                   after == [row EXCEPT !.latest = FALSE]
        <5>1. row = [status |-> row.status, version |-> row.version, body |-> row.body,
                     latest |-> row.latest, signed |-> row.signed]
          BY <3>3, RowShape
        <5>2. /\ after.status = row.status /\ after.body = row.body
              /\ after.signed = row.signed
          <6> HIDE DEF row
          <6> QED  BY <5>1
        <5>3. older[c] = after
          BY <3>2, <3>3, <4>2
        <5> HIDE DEF after
        <5> QED  BY <5>2, <5>3
      <4> QED  BY <4>1, <4>2
    <3> HIDE DEF older
    <3>5. older = [c \in Docs |-> older[c]]
      BY <3>3 DEF older
    <3>6. doc'[d] = NewRow(user) /\ \A c \in Docs : c # d => doc'[c] = older[c]
      BY <3>1, <3>5
    <3> QED  BY <3>1, <3>2, <3>4, <3>6
  <2> QED  BY <2>1, <2>2
<1>2. /\ doc'[d].status = IF kind = "disposal" THEN "pending" ELSE "draft"
      /\ doc'[d].body = 1 /\ doc'[d].signed = Register!DrawnBy(user)
      /\ doc[d].status = "none"
  BY <1>1, DrawnFields
<1>3. /\ statusOf' = [statusOf EXCEPT ![d] = IF kind = "disposal" THEN "pending" ELSE "draft"]
      /\ bodyOf' = [bodyOf EXCEPT ![d] = 1]
      /\ signedOf' = [signedOf EXCEPT ![d] = Register!DrawnBy(user)]
      /\ sealsOf' = sealsOf
  BY <1>1, <1>2, OneEntry, SameEntry
<1>4. statusOf[d] = "none" /\ statusOf'[d] # "none"
  BY <1>2 DEF statusOf
<1>5. kind = "disposal" => \A c \in Docs : statusOf[c] = "none"
  BY <1>1, InRegister, DrawnFields
<1>6. Register!Draw(d, user)
  BY <1>1, <1>3, <1>4, <1>5 DEF Register!Draw, Register!EquipmentBecomes
<1> QED
  BY <1>1, <1>4, <1>6 DEF Register!Next

LEMMA NextRegistered ==
    ASSUME Inv, BodyBelow, Hypotheses, [Next]_vars
    PROVE  [Register!Next]_(Register!vars)
<1>1. ASSUME NEW r \in Requests, RequestStep(r)
      PROVE  Register!Next \/ UNCHANGED <<kind, doc, shown, equipment>>
  <2>1. CASE TakeStep(r) \/ DecideDisposal(r)
    BY <2>1, MovedRegistered
  <2>2. CASE cancelDisposalRequest(r)
    BY <2>2, CancelRegistered
  <2>3. CASE Remove(r)
    BY <2>3, RemoveRegistered
  <2>4. CASE \E d \in Docs : createNewVersion(r, d) \/ InsertDisposal(r, d)
    BY <2>4, DrawRegistered
  <2>5. CASE \/ \E d \in Docs, user \in Users :
                    \/ \E step \in Chain[kind] : Load(r, d, user, step)
                    \/ NewVersionLoad(r, d, user)
             \/ EditPlanItem(r)
             \/ \E user \in Users : requestDisposal(r, user)
             \/ Fail(r)
    BY <2>5 DEF Load, NewVersionLoad, EditPlanItem, requestDisposal, Fail
  <2> QED  BY <1>1, <2>1, <2>2, <2>3, <2>4, <2>5 DEF RequestStep
<1>2. ASSUME NEW d \in Docs, FillRow(d) \/ FillItems(d) \/ Evict(d) \/ EditSection(d)
      PROVE  UNCHANGED <<kind, doc, shown, equipment>>
  BY <1>2 DEF FillRow, FillItems, Evict, EditSection
<1>3. ASSUME UNCHANGED vars PROVE UNCHANGED <<kind, doc, shown, equipment>>
  BY <1>3 DEF vars
<1> QED
  BY <1>1, <1>2, <1>3, RegisterStays DEF Next

LEMMA InitRegistered ==
    ASSUME Init
    PROVE  Register!Init
<1>1. PICK first \in Docs, user \in Users :
          doc = [d \in Docs |-> IF d = first /\ kind # "disposal"
                                THEN NewRow(user) ELSE NoRow]
  BY DEF Init
<1>2. /\ kind \in Kinds /\ equipment.status = "available"
      /\ shown = [d \in Docs |-> [s \in Signatures |-> NotShown]]
  BY DEF Init
<1> DEFINE Drawn(d) == d = first /\ kind # "disposal"
<1>3. statusOf = [d \in Docs |-> IF Drawn(d) THEN "draft" ELSE "none"]
  BY <1>1, DrawnFields DEF statusOf
<1>4. bodyOf = [d \in Docs |-> IF Drawn(d) THEN 1 ELSE 0]
  BY <1>1, DrawnFields DEF bodyOf
<1>5. signedOf = [d \in Docs |-> IF Drawn(d) THEN Register!DrawnBy(user) ELSE Register!Blank]
  BY <1>1, DrawnFields DEF signedOf
<1>6. sealsOf = [d \in Docs |-> Register!Unsealed]
  BY <1>2 DEF sealsOf, NotShown, Register!Unsealed
<1> QED
  BY <1>2, <1>3, <1>4, <1>5, <1>6 DEF Register!Init

\* Every signature, return, edit and cancellation acts on the document as it is
\* at that moment, as at a desk with one register: what was read from the cache
\* or the database and what was shown on a page may be old, but then the version
\* of the compare-and-set does not fit (withTransaction and the updates of the
\* inspection, validation, plan and disposal services).
THEOREM ChainsAreARegister ==
    ASSUME Hypotheses
    PROVE  Spec => KeepsRegister
<1>1. Init => Register!Init
  BY InitRegistered
<1>2. Inv /\ BodyBelow /\ [Next]_vars => [Register!Next]_(Register!vars)
  BY NextRegistered
<1> QED
  BY <1>1, <1>2, InvAlways, BodyBelowAlways, PTL DEF Spec, KeepsRegister, Register!Spec

=============================================================================
