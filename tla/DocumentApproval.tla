----------------------------- MODULE DocumentApproval -----------------------------
(***************************************************************************)
(* The approval chains of documents: intermediate and self inspections,    *)
(* validations of software, calibration plans and disposal requests.  Each *)
(* is drafted by one person and signed by others in turn, or sent back.    *)
(*                                                                         *)
(* A person sees a document as it was read some time ago, and asks for a   *)
(* step; the handler checks the step on a row that it reads itself, from   *)
(* the detail cache or from the database, and commits if the document has  *)
(* the version the person saw.  Documents of different kinds share         *)
(* nothing, so a behaviour follows one kind.                               *)
(***************************************************************************)
EXTENDS Naturals, FiniteSets

CONSTANTS
    Docs,            \* identifiers of documents
    Users,           \* people, each with every permission
    Requests,        \* HTTP requests the process serves at the same time
    Kinds,           \* the kinds of document under study
    Seconds,         \* kinds of which a second document is made
    ClientVersions,  \* clients may send a version they read elsewhere than
                     \* in the detail the handler acts on
    MaxVersion,      \* bound, by kind: no document is written that has its version here
    MaxParts,        \* bound, by kind: how often the parts of a document are edited
    Nobody           \* stands for a missing signature

AllKinds == {"intermediate", "self", "validation", "plan", "disposal"}

ASSUME KindsAssumption == Kinds \subseteq AllKinds /\ Seconds \subseteq AllKinds
ASSUME BoundsAssumption ==
    /\ MaxVersion \in [AllKinds -> [Docs -> Nat]]
    /\ MaxParts \in [AllKinds -> Nat]
ASSUME ClientVersionsAssumption == ClientVersions \in BOOLEAN
ASSUME NobodyAssumption == Nobody \notin Users

VARIABLES
    kind,       \* the kind of document this behaviour is about
    doc,        \* the rows of its table, each with its content
    parts,      \* the parts that a document has in a table of their own
    detail,     \* the detail of a document as it was last read and kept
    fill,       \* a read of the detail between its two statements
    equipment,  \* the equipment a disposal request is about: status and version
    request,    \* what each request is doing
    shown       \* history: what the signers of the present round had seen

vars == <<kind, doc, parts, detail, fill, equipment, request, shown>>

-----------------------------------------------------------------------------
(* The chains *)

Signatures == {"create", "submit", "review", "approve", "quality"}

\* A step of a chain.  The one who takes it is not one of those who gave the
\* signatures "apart", and is the one who gave the signatures "own".
Step(op, from, to) ==
    [op |-> op, from |-> from, to |-> to, apart |-> {}, own |-> {}]

Apart(step, signatures) == [step EXCEPT !.apart = signatures]
Own(step, signature)    == [step EXCEPT !.own = {signature}]

InspectionDrafting ==
    { Step("edit", {"draft"}, "draft"), Step("submit", {"draft"}, "submitted") }
InspectionApproval ==
    { Step("review", {"submitted"}, "reviewed"),
      Apart(Step("approve", {"reviewed"}, "approved"), {"submit"}) }
InspectionReturns ==
    { Step("reject", {"submitted", "reviewed"}, "rejected"),
      Own(Step("withdraw", {"submitted"}, "draft"), "submit"),
      Step("resubmit", {"rejected"}, "draft") }
InspectionRemoval ==
    { Step("remove", {"draft", "submitted", "rejected"}, "deleted"),
      Step("removeAny", {"draft", "submitted", "reviewed", "approved", "rejected"},
           "deleted") }

SelfDrafting ==
    { Step("edit", {"draft"}, "draft"), Step("submit", {"draft"}, "submitted") }
SelfApproval ==
    { Apart(Step("approve", {"submitted"}, "approved"), {"submit"}) }
SelfReturns ==
    { Step("reject", {"submitted"}, "rejected"),
      Own(Step("withdraw", {"submitted"}, "draft"), "submit"),
      Step("resubmit", {"rejected"}, "draft") }
SelfRemoval ==
    { Step("remove", {"draft", "submitted", "rejected"}, "deleted"),
      Step("removeAny", {"draft", "submitted", "approved", "rejected"}, "deleted") }

ValidationDrafting ==
    { Step("edit", {"draft"}, "draft"), Step("submit", {"draft"}, "submitted") }
\* Mutant: the status of another chain.
ValidationApproval_Reviewed ==
    { Apart(Step("approve", {"submitted"}, "approved"), {"submit"}),
      Apart(Step("quality", {"approved"}, "reviewed"), {"approve"}) }
ValidationApproval ==
    { Apart(Step("approve", {"submitted"}, "approved"), {"submit"}),
      Apart(Step("quality", {"approved"}, "quality_approved"), {"approve"}) }
ValidationReturns ==
    { Step("reject", {"submitted", "approved"}, "rejected"),
      Step("resubmit", {"rejected"}, "draft") }

PlanDrafting ==
    { Step("edit", {"draft"}, "draft"), Step("editParts", {"draft"}, "draft"),
      Step("remove", {"draft"}, "deleted") }
PlanSubmission ==
    { Step("submit", {"draft", "rejected"}, "pending_review") }
PlanApproval ==
    { Apart(Step("review", {"pending_review"}, "pending_approval"), {"create"}),
      Apart(Step("approve", {"pending_approval"}, "approved"), {"create"}) }
PlanReturns ==
    { Step("reject", {"pending_review", "pending_approval"}, "rejected") }

DisposalReview ==
    { Step("review", {"pending"}, "reviewed"),
      Step("rejectReview", {"pending"}, "rejected") }
DisposalApproval ==
    { Step("approve", {"reviewed"}, "approved"),
      Step("rejectApproval", {"reviewed"}, "rejected") }
DisposalCancel == { Own(Step("cancel", {"pending"}, "deleted"), "create") }

Chain ==
    [ intermediate |-> InspectionDrafting \cup InspectionApproval
                       \cup InspectionReturns \cup InspectionRemoval,
      self         |-> SelfDrafting \cup SelfApproval \cup SelfReturns \cup SelfRemoval,
      validation   |-> ValidationDrafting \cup ValidationApproval \cup ValidationReturns,
      plan         |-> PlanDrafting \cup PlanSubmission \cup PlanApproval \cup PlanReturns,
      disposal     |-> DisposalReview \cup DisposalApproval \cup DisposalCancel ]

Statuses ==
    [ intermediate |-> {"draft", "submitted", "reviewed", "approved", "rejected"},
      self         |-> {"draft", "submitted", "approved", "rejected"},
      validation   |-> {"draft", "submitted", "approved", "quality_approved", "rejected"},
      plan         |-> {"draft", "pending_review", "pending_approval", "approved",
                        "rejected"},
      disposal     |-> {"pending", "reviewed", "approved", "rejected"} ]

\* Handlers of these kinds check the row of the detail cache, the others the
\* row in the database.
Cached == {"intermediate", "self", "validation"}

\* Kinds whose body is in a table of items that an edit replaces.
HasItems == {"intermediate", "self"}

\* Kinds with parts that are edited one by one without a look at the document.
HasSections == {"intermediate", "self"}

-----------------------------------------------------------------------------
(* State *)

Unsigned == [s \in Signatures |-> Nobody]

NoRow ==
    [status |-> "none", version |-> 0, body |-> 0, latest |-> FALSE, signed |-> Unsigned]

\* The body of a document is known by the version that wrote it.
NewRow(user) ==
    [status |-> IF kind = "disposal" THEN "pending" ELSE "draft", version |-> 1,
     body |-> 1, latest |-> TRUE, signed |-> [Unsigned EXCEPT !["create"] = user]]

Rows ==
    [status : Statuses[kind] \cup {"deleted"}, version : Nat \ {0},
     body : Nat \ {0}, latest : BOOLEAN,
     signed : [Signatures -> Users \cup {Nobody}]]

Content(d, row) == [doc |-> d, body |-> row.body]

NotShown == [body |-> 0]

Idle == [phase |-> "idle"]

RequestStates ==
    {Idle}
    \cup [phase : {"step"}, doc : Docs, user : Users, step : Chain[kind],
          version : Nat, equipment : Nat,
          content : [doc : Docs, body : Nat]]
    \cup [phase : {"create"}, user : Users, parent : Docs \cup {Nobody}]

TypeOK ==
    /\ kind \in Kinds
    /\ doc \in [Docs -> Rows \cup {NoRow}]
    /\ parts \in [Docs -> 0 .. MaxParts[kind]]
    /\ detail \in [Docs -> Rows \cup {NoRow}]
    /\ fill \in [Docs -> Rows \cup {NoRow}]
    /\ equipment \in [status : {"available", "pending_disposal", "disposed"}, version : Nat]
    /\ request \in [Requests -> RequestStates]
    /\ shown \in [Docs -> [Signatures ->
           [doc : Docs, body : Nat] \cup {NotShown}]]

\* A first document has been drafted; disposals are yet to be requested.
Init ==
    /\ kind \in Kinds
    /\ \E first \in Docs, user \in Users :
           doc = [d \in Docs |-> IF d = first /\ kind # "disposal"
                                 THEN NewRow(user) ELSE NoRow]
    /\ parts = [d \in Docs |-> 0]
    /\ detail = [d \in Docs |-> NoRow]
    /\ fill = [d \in Docs |-> NoRow]
    /\ equipment = [status |-> "available", version |-> 1]
    /\ request = [r \in Requests |-> Idle]
    /\ shown = [d \in Docs |-> [s \in Signatures |-> NotShown]]

Become(r, state) == request' = [request EXCEPT ![r] = state]

-----------------------------------------------------------------------------
(* Reading the detail: the row first, then its items, in two statements that *)
(* other transactions may come between.  Where the row holds all of the body *)
(* the second statement adds nothing to it.                                  *)

FillRow(d) ==
    /\ doc[d].status \notin {"none", "deleted"}
    /\ IF kind \in HasItems
       THEN fill' = [fill EXCEPT ![d] = doc[d]] /\ UNCHANGED detail
       ELSE detail' = [detail EXCEPT ![d] = doc[d]] /\ UNCHANGED fill
    /\ UNCHANGED <<kind, doc, parts, equipment, request, shown>>

\* Mutant: the items are read before the row.
FillItems_First(d) ==
    /\ fill[d] # NoRow
    /\ detail' = [detail EXCEPT ![d] = [doc[d] EXCEPT !.body = fill[d].body]]
    /\ fill' = [fill EXCEPT ![d] = NoRow]
    /\ UNCHANGED <<kind, doc, parts, equipment, request, shown>>

FillItems(d) ==
    /\ fill[d] # NoRow
    /\ detail' = [detail EXCEPT ![d] = [fill[d] EXCEPT !.body = doc[d].body]]
    /\ fill' = [fill EXCEPT ![d] = NoRow]
    /\ UNCHANGED <<kind, doc, parts, equipment, request, shown>>

\* A commit deletes the detail after its transaction, a conflict before it is
\* reported, and a detail expires; a page may show a detail for longer.
Evict(d) ==
    /\ detail[d] # NoRow
    /\ detail' = [detail EXCEPT ![d] = NoRow]
    /\ UNCHANGED <<kind, doc, parts, fill, equipment, request, shown>>

-----------------------------------------------------------------------------
(* A step: checked on the row the handler reads *)

Allows(step, row, user) ==
    /\ row.status \in step.from
    /\ \A s \in step.apart : row.signed[s] # user
    /\ \A s \in step.own : row.signed[s] = user

\* The row that is checked, and the row that the person has seen.  A disposal
\* request is found by its equipment and status, whichever one was seen.
Load(r, d, user, step) ==
    /\ request[r] = Idle
    /\ \E seenDoc \in IF kind = "disposal" THEN Docs ELSE {d} :
       \E seen \in {detail[seenDoc]}
                   \cup (IF ClientVersions THEN {doc[seenDoc]} ELSE {}) :
           /\ seen # NoRow
           /\ Allows(step, IF kind \in Cached THEN detail[d] ELSE doc[d], user)
           /\ Become(r, [phase |-> "step", doc |-> d, user |-> user, step |-> step,
                         version |-> IF step.op = "cancel" THEN doc[d].version
                                     ELSE seen.version,
                         equipment |-> equipment.version,
                         content |-> Content(seenDoc, seen)])
    /\ UNCHANGED <<kind, doc, parts, detail, fill, equipment, shown>>

\* The row after a step.
Stepped(r, row) ==
    LET op     == request[r].step.op
        next   == [row EXCEPT !.status = request[r].step.to, !.version = @ + 1]
        signed == IF op \in Signatures
                  THEN [row.signed EXCEPT ![op] = request[r].user]
                  ELSE IF op = "withdraw" THEN [row.signed EXCEPT !["submit"] = Nobody]
                  ELSE row.signed
    IN  IF op = "edit" THEN [next EXCEPT !.body = next.version]
        ELSE [next EXCEPT !.signed = signed]

\* A round ends when the document goes back to be changed.
Showing(r) ==
    IF request[r].step.to \in {"draft", "rejected"} THEN [s \in Signatures |-> NotShown]
    ELSE IF request[r].step.op \in Signatures
    THEN [shown[request[r].doc] EXCEPT ![request[r].step.op] = request[r].content]
    ELSE shown[request[r].doc]

Unversioned == {"remove", "removeAny", "editParts"}

\* Mutant: the version is not compared.
Matches_Always(r) ==
    LET row == doc[request[r].doc]
    IN  /\ request[r].phase = "step"
        /\ request[r].step.op \notin Unversioned
        /\ row.version < MaxVersion[kind][request[r].doc]
        /\ row.status # "deleted"

Matches(r) ==
    LET row == doc[request[r].doc]
    IN  /\ request[r].phase = "step"
        /\ request[r].step.op \notin Unversioned
        /\ row.version = request[r].version
        /\ row.version < MaxVersion[kind][request[r].doc]
        /\ row.status # "deleted"

TakeStep(r) ==
    LET d == request[r].doc
    IN  /\ Matches(r)
        /\ kind # "disposal"
        /\ doc' = [doc EXCEPT ![d] = Stepped(r, @)]
        /\ shown' = [shown EXCEPT ![d] = Showing(r)]
        /\ Become(r, Idle)
        /\ UNCHANGED <<kind, parts, detail, fill, equipment>>

\* What is deleted is deleted by identifier, whatever its version is by then.
Remove(r) ==
    LET d == request[r].doc
    IN  /\ request[r].phase = "step"
        /\ request[r].step.op \in {"remove", "removeAny"}
        /\ doc[d].status # "deleted"
        /\ doc' = [doc EXCEPT ![d].status = "deleted"]
        /\ Become(r, Idle)
        /\ UNCHANGED <<kind, parts, detail, fill, equipment, shown>>

\* Result sections are edited without a look at their document; an item of a
\* plan is edited after one.  Neither raises the version of the document.
EditSection(d) ==
    /\ kind \in HasSections
    /\ doc[d].status \notin {"none", "deleted"}
    /\ parts[d] < MaxParts[kind]
    /\ parts' = [parts EXCEPT ![d] = @ + 1]
    /\ UNCHANGED <<kind, doc, detail, fill, equipment, request, shown>>

EditPlanItem(r) ==
    LET d == request[r].doc
    IN  /\ request[r].phase = "step"
        /\ request[r].step.op = "editParts"
        /\ doc[d].status # "deleted"
        /\ parts[d] < MaxParts[kind]
        /\ parts' = [parts EXCEPT ![d] = @ + 1]
        /\ Become(r, Idle)
        /\ UNCHANGED <<kind, doc, detail, fill, equipment, shown>>

-----------------------------------------------------------------------------
(* A new version of an approved plan *)

NewVersionLoad(r, d, user) ==
    /\ kind = "plan" /\ "plan" \in Seconds
    /\ request[r] = Idle
    /\ doc[d].status = "approved"
    /\ Become(r, [phase |-> "create", user |-> user, parent |-> d])
    /\ UNCHANGED <<kind, doc, parts, detail, fill, equipment, shown>>

createNewVersion(r, d) ==
    LET parent == request[r].parent
    IN  /\ request[r].phase = "create" /\ kind = "plan"
        /\ doc[d] = NoRow
        /\ doc' = [doc EXCEPT ![parent].latest = FALSE, ![d] = NewRow(request[r].user)]
        /\ parts' = [parts EXCEPT ![d] = parts[parent]]
        /\ Become(r, Idle)
        /\ UNCHANGED <<kind, detail, fill, equipment, shown>>

-----------------------------------------------------------------------------
(* Disposal requests, which write the status of their equipment *)

requestDisposal(r, user) ==
    /\ kind = "disposal"
    /\ request[r] = Idle
    /\ \A d \in Docs : doc[d].status # "pending"
    /\ "disposal" \notin Seconds => \A d \in Docs : doc[d] = NoRow
    /\ Become(r, [phase |-> "create", user |-> user, parent |-> Nobody])
    /\ UNCHANGED <<kind, doc, parts, detail, fill, equipment, shown>>

SetEquipment(status) ==
    equipment' = [status |-> status, version |-> equipment.version + 1]

InsertDisposal(r, d) ==
    /\ request[r].phase = "create" /\ kind = "disposal"
    /\ doc[d] = NoRow
    /\ "disposal" \notin Seconds => \A c \in Docs : doc[c] = NoRow
    /\ doc' = [doc EXCEPT ![d] = NewRow(request[r].user)]
    /\ SetEquipment("pending_disposal")
    /\ Become(r, Idle)
    /\ UNCHANGED <<kind, parts, detail, fill, shown>>

\* What a decision other than a review makes of the equipment.
EquipmentAfter(op) == IF op = "approve" THEN "disposed" ELSE "available"

\* Mutant: a rejection leaves the equipment as it is.
DecideDisposal_KeepsEquipment(r) ==
    LET d  == request[r].doc
        op == request[r].step.op
    IN  /\ Matches(r)
        /\ kind = "disposal"
        /\ op # "cancel"
        /\ doc' = [doc EXCEPT ![d] = Stepped(r, @)]
        /\ shown' = [shown EXCEPT ![d] = Showing(r)]
        /\ IF op = "approve" THEN SetEquipment(EquipmentAfter(op)) ELSE UNCHANGED equipment
        /\ Become(r, Idle)
        /\ UNCHANGED <<kind, parts, detail, fill>>

DecideDisposal(r) ==
    LET d  == request[r].doc
        op == request[r].step.op
    IN  /\ Matches(r)
        /\ kind = "disposal"
        /\ op # "cancel"
        /\ doc' = [doc EXCEPT ![d] = Stepped(r, @)]
        /\ shown' = [shown EXCEPT ![d] = Showing(r)]
        /\ IF op = "review" THEN UNCHANGED equipment ELSE SetEquipment(EquipmentAfter(op))
        /\ Become(r, Idle)
        /\ UNCHANGED <<kind, parts, detail, fill>>

\* A cancellation compares the version of the equipment as well.
cancelDisposalRequest(r) ==
    LET d == request[r].doc
    IN  /\ Matches(r)
        /\ request[r].step.op = "cancel"
        /\ request[r].equipment = equipment.version
        /\ doc' = [doc EXCEPT ![d].status = "deleted"]
        /\ SetEquipment("available")
        /\ Become(r, Idle)
        /\ UNCHANGED <<kind, parts, detail, fill, shown>>

-----------------------------------------------------------------------------

\* A version conflict, a refusal or a failed query: nothing is written.
Fail(r) ==
    /\ request[r] # Idle
    /\ Become(r, Idle)
    /\ UNCHANGED <<kind, doc, parts, detail, fill, equipment, shown>>

RequestStep(r) ==
    \/ \E d \in Docs, user \in Users :
           \/ \E step \in Chain[kind] : Load(r, d, user, step)
           \/ NewVersionLoad(r, d, user)
    \/ TakeStep(r)
    \/ Remove(r)
    \/ EditPlanItem(r)
    \/ \E d \in Docs : createNewVersion(r, d) \/ InsertDisposal(r, d)
    \/ \E user \in Users : requestDisposal(r, user)
    \/ DecideDisposal(r)
    \/ cancelDisposalRequest(r)
    \/ Fail(r)

Next ==
    \/ \E r \in Requests : RequestStep(r)
    \/ \E d \in Docs : FillRow(d) \/ FillItems(d) \/ Evict(d) \/ EditSection(d)

Spec == Init /\ [][Next]_vars

-----------------------------------------------------------------------------
(* Properties *)

\* The signatures a chain ends with, and where it ends.
Required ==
    [ intermediate |-> {"submit", "review", "approve"},
      self         |-> {"submit", "approve"},
      validation   |-> {"submit", "approve", "quality"},
      plan         |-> {"submit", "review", "approve"},
      disposal     |-> {"review", "approve"} ]

Final(d) ==
    doc[d].status = IF kind = "validation" THEN "quality_approved" ELSE "approved"

Standing(d) == { s \in Signatures : shown[d][s] # NotShown }

\* Whoever signed a document in its present round had seen this document with
\* the body it has now, and a document at the end of its chain has all of the
\* signatures of the chain from one round.  Edits, withdrawals and rejections
\* come between a look at the cached detail, whose row and items are read
\* apart, and the signature.
ApprovedAsSeen ==
    \A d \in Docs :
        /\ doc[d].status # "deleted" =>
               \A s \in Standing(d) : /\ shown[d][s].doc = d
                                      /\ shown[d][s].body = doc[d].body
        /\ Final(d) => Required[kind] \subseteq Standing(d)

\* The parts of a document are changed only while it is a draft.
PartsChangeInDraft ==
    [][\A d \in Docs :
           parts'[d] # parts[d] => doc[d].status \in {"none", "draft"}]_vars

\* No one approves what they submitted, nor signs twice (ISO/IEC 17025, 6.2.2),
\* although the check is made before the document is withdrawn and submitted
\* again by another.
Independent ==
    [ intermediate |-> { <<"approve", "submit">> },
      self         |-> { <<"approve", "submit">> },
      validation   |-> { <<"approve", "submit">>, <<"quality", "approve">> },
      plan         |-> { <<"review", "create">>, <<"approve", "create">> },
      disposal     |-> {} ]

ApproverIsIndependent ==
    \A d \in Docs : \A pair \in Independent[kind] :
        pair[1] \in Standing(d) => doc[d].signed[pair[1]] # doc[d].signed[pair[2]]

\* What is decided stays decided: of an approval and a rejection, or an edit,
\* that were asked for at once, the later changes nothing.
DecisionIsFinal ==
    [][\A d \in Docs : Final(d) =>
           \/ doc'[d] = [doc[d] EXCEPT !.latest = doc'[d].latest]
           \/ doc'[d].status = "deleted"]_vars

\* Only a manager removes what is reviewed or approved.
RemovedByManager ==
    [][\A d \in Docs :
           doc[d].status \in {"reviewed", "approved"} /\ doc'[d].status = "deleted" =>
               \E r \in Requests : /\ request[r].phase = "step"
                                   /\ request[r].step.op = "removeAny"
                                   /\ request'[r] = Idle]_vars

\* Equipment awaits disposal while a request for it is in progress, and is
\* disposed of by the approval of one, however reviews, rejections and
\* cancellations race.
EquipmentFollowsRequest ==
    kind = "disposal" =>
        /\ equipment.status = "pending_disposal" <=>
               \E d \in Docs : doc[d].status \in {"pending", "reviewed"}
        /\ equipment.status = "disposed" <=> \E d \in Docs : doc[d].status = "approved"

\* The document as it lies in the register.
statusOf == [d \in Docs |-> doc[d].status]
bodyOf   == [d \in Docs |-> doc[d].body]
signedOf == [d \in Docs |-> doc[d].signed]
sealsOf  == [d \in Docs |-> [s \in Signatures |-> shown[d][s].body]]

\* To those who sign, send back, edit and cancel, the chains are a register at a
\* desk: each acts on the document as it is at that moment, although each looked
\* earlier, at a copy, and the handler checked the step on another copy.
Register ==
    INSTANCE DocumentRegister WITH status <- statusOf, body <- bodyOf, signed <- signedOf,
                                   seals <- sealsOf, equipment <- equipment.status

KeepsRegister == Register!Spec

\* One plan is the latest of its year and site.
OneLatestPlan ==
    kind = "plan" =>
        Cardinality({ d \in Docs : doc[d].latest /\ doc[d].status # "deleted" }) <= 1

=============================================================================
