---------------------------- MODULE DocumentRegister ----------------------------
(***************************************************************************)
(* What the approval chains promise: a register at a desk, where one       *)
(* person at a time opens a document, reads it and acts on it, all in one  *)
(* step.  A signature is put under the body that lies on the desk.  A      *)
(* document that goes back to be changed loses the seals of its round.     *)
(*                                                                         *)
(* Versions, copies of a document, requests and conflicts are of no        *)
(* concern here.                                                           *)
(***************************************************************************)
EXTENDS Naturals

CONSTANTS
    Docs,        \* documents
    Users,       \* people
    Nobody,      \* stands for a missing signature
    Kinds,       \* kinds of document
    Signatures,  \* what a document may be signed for
    Chain        \* the steps of each kind: op, from, to, apart, own

VARIABLES
    kind,       \* the kind of document this register is for
    status,     \* where a document stands in its chain
    body,       \* what is written in it; later is larger
    signed,     \* who signed it last, for each signature
    seals,      \* the body under each signature of the present round, or 0
    equipment   \* the status of the equipment that disposal requests are about

vars == <<kind, status, body, signed, seals, equipment>>

Unsealed == [s \in Signatures |-> 0]

DrawnBy(user) == [s \in Signatures |-> IF s = "create" THEN user ELSE Nobody]

Blank == [s \in Signatures |-> Nobody]

Init ==
    /\ kind \in Kinds
    /\ \E first \in Docs, user \in Users :
           LET Drawn(d) == d = first /\ kind # "disposal"
           IN  /\ status = [d \in Docs |-> IF Drawn(d) THEN "draft" ELSE "none"]
               /\ body = [d \in Docs |-> IF Drawn(d) THEN 1 ELSE 0]
               /\ signed = [d \in Docs |-> IF Drawn(d) THEN DrawnBy(user) ELSE Blank]
    /\ seals = [d \in Docs |-> Unsealed]
    /\ equipment = "available"

\* The equipment of a disposal request takes a status, others have none.
EquipmentBecomes(s) == equipment' = IF kind = "disposal" THEN s ELSE equipment

\* A document is drawn up, a disposal request only when there is no other.
Draw(d, user) ==
    /\ status[d] = "none"
    /\ kind = "disposal" =>
           \A c \in Docs : status[c] \notin {"pending", "reviewed", "approved"}
    /\ status' = [status EXCEPT ![d] = IF kind = "disposal" THEN "pending" ELSE "draft"]
    /\ body' = [body EXCEPT ![d] = 1]
    /\ signed' = [signed EXCEPT ![d] = DrawnBy(user)]
    /\ EquipmentBecomes("pending_disposal")
    /\ UNCHANGED <<kind, seals>>

\* The person at the desk may take the step on the document as it lies there.
May(step, d, user) ==
    /\ status[d] \in step.from
    /\ \A s \in step.apart : signed[d][s] # user
    /\ \A s \in step.own : signed[d][s] = user

Edit(step, d, user) ==
    /\ step.op = "edit"
    /\ May(step, d, user)
    /\ status' = [status EXCEPT ![d] = step.to]
    /\ body' = [body EXCEPT ![d] = body'[d]] /\ body'[d] > body[d]
    /\ seals' = [seals EXCEPT ![d] = Unsealed]
    /\ UNCHANGED <<kind, signed, equipment>>

Sign(step, d, user) ==
    /\ step.op \in Signatures
    /\ May(step, d, user)
    /\ status' = [status EXCEPT ![d] = step.to]
    /\ signed' = [signed EXCEPT ![d][step.op] = user]
    /\ seals' = [seals EXCEPT ![d][step.op] = body[d]]
    /\ IF step.op = "approve" THEN EquipmentBecomes("disposed") ELSE UNCHANGED equipment
    /\ UNCHANGED <<kind, body>>

\* Who withdraws takes their own signature back.
SendBack(step, d, user) ==
    /\ step.op \notin Signatures \cup {"edit"}
    /\ step.to \in {"draft", "rejected"}
    /\ May(step, d, user)
    /\ status' = [status EXCEPT ![d] = step.to]
    /\ signed' = IF step.op = "withdraw" THEN [signed EXCEPT ![d]["submit"] = Nobody]
                 ELSE signed
    /\ seals' = [seals EXCEPT ![d] = Unsealed]
    /\ EquipmentBecomes("available")
    /\ UNCHANGED <<kind, body>>

Cancel(step, d, user) ==
    /\ step.op = "cancel"
    /\ May(step, d, user)
    /\ status' = [status EXCEPT ![d] = "deleted"]
    /\ EquipmentBecomes("available")
    /\ UNCHANGED <<kind, body, signed, seals>>

\* The one concession: who removes a document may have looked at it before, and
\* does not see what was done to it meanwhile.
Remove(step, d) ==
    /\ step.op \in {"remove", "removeAny"}
    /\ status[d] \notin {"none", "deleted"}
    /\ status' = [status EXCEPT ![d] = "deleted"]
    /\ UNCHANGED <<kind, body, signed, seals, equipment>>

Next ==
    \E d \in Docs :
        /\ status'[d] # status[d] \/ body'[d] # body[d]
        /\ \/ \E user \in Users :
               \/ Draw(d, user)
               \/ \E step \in Chain[kind] :
                      \/ Edit(step, d, user) \/ Sign(step, d, user)
                      \/ SendBack(step, d, user) \/ Cancel(step, d, user)
           \/ \E step \in Chain[kind] : Remove(step, d)

Spec == Init /\ [][Next]_vars

=============================================================================
