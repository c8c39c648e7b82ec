-------------------------------- MODULE Custody --------------------------------
(***************************************************************************)
(* What the checkout service promises about the equipment itself.  A       *)
(* checkout asks for some equipment; once it is agreed the equipment is    *)
(* handed over, and it is away until it is handed back.  Equipment is away *)
(* with one checkout at a time, a checkout that is refused or withdrawn    *)
(* never took anything, and one that is settled has given everything back. *)
(*                                                                         *)
(* Versions, caches, requests and approvals are of no concern here.        *)
(***************************************************************************)
EXTENDS Naturals

CONSTANTS Checkouts, Equipment

VARIABLES
    stage,   \* how far each checkout has come
    claim,   \* the equipment each checkout asked for
    away     \* the equipment that is not in the lab

vars == <<stage, claim, away>>

Stages == {"none", "asked", "agreed", "out", "back", "settled", "refused"}

TypeOK ==
    /\ stage \in [Checkouts -> Stages]
    /\ claim \in [Checkouts -> SUBSET Equipment]
    /\ away \subseteq Equipment

Init ==
    /\ stage = [c \in Checkouts |-> "none"]
    /\ claim = [c \in Checkouts |-> {}]
    /\ away = {}

Moves(c, from, to) ==
    /\ stage[c] \in from
    /\ stage' = [stage EXCEPT ![c] = to]

Ask(c) ==
    /\ Moves(c, {"none"}, "asked")
    /\ \E items \in (SUBSET Equipment) \ {{}} : claim' = [claim EXCEPT ![c] = items]
    /\ UNCHANGED away

Agree(c)    == Moves(c, {"asked"}, "agreed") /\ UNCHANGED <<claim, away>>
TakeBack(c) == Moves(c, {"agreed"}, "asked") /\ UNCHANGED <<claim, away>>
Refuse(c)   == Moves(c, {"asked", "agreed"}, "refused") /\ UNCHANGED <<claim, away>>

\* Handing over needs the equipment to be there.
HandOver(c) ==
    /\ Moves(c, {"agreed"}, "out")
    /\ claim[c] \cap away = {}
    /\ away' = away \cup claim[c]
    /\ UNCHANGED claim

\* A rental is handed back and settled later, any other checkout is settled
\* as its equipment is put back into use.
HandBack(c) ==
    /\ \/ Moves(c, {"out"}, "back")
       \/ Moves(c, {"out"}, "settled")
    /\ away' = away \ claim[c]
    /\ UNCHANGED claim

\* The lender disputes the state of what came back: the borrower has it again.
Dispute(c) ==
    /\ Moves(c, {"back"}, "out")
    /\ claim[c] \cap away = {}
    /\ away' = away \cup claim[c]
    /\ UNCHANGED claim

Settle(c) == Moves(c, {"back"}, "settled") /\ UNCHANGED <<claim, away>>

Next ==
    \E c \in Checkouts :
        Ask(c) \/ Agree(c) \/ TakeBack(c) \/ Refuse(c) \/ HandOver(c)
          \/ HandBack(c) \/ Dispute(c) \/ Settle(c)

Spec == Init /\ [][Next]_vars

=============================================================================
