-------------------------- MODULE NonConformanceLedger --------------------------
(***************************************************************************)
(* What the records of non-conformances promise as long as nobody but      *)
(* users and repairs touches them: a ledger in which equipment is taken    *)
(* out of use by an entry, the entry is remedied, corrected and closed,    *)
(* and with its closing the equipment is what it was before.  An entry may *)
(* be withdrawn instead, for which nothing is given back.  Each of these   *)
(* is one step.                                                            *)
(*                                                                         *)
(* Entries do not look at each other: that no other is open when one is    *)
(* closed follows from how they are opened.  Versions, caches, requests    *)
(* and transactions are of no concern here.                                *)
(***************************************************************************)

CONSTANTS
    NCs,            \* entries
    Equipment,      \* pieces of equipment
    NoId,           \* stands for no equipment
    StartStatuses,  \* the statuses equipment may have at first
    Unfit           \* statuses that equipment does not return to

VARIABLES
    state,   \* how far the entry is
    about,   \* the equipment it takes out of use
    needs,   \* the remedy it requires, or "none"
    has,     \* the remedies it has got
    noted,   \* the status of the equipment when the entry was made
    status   \* the status of each piece of equipment

vars == <<state, about, needs, has, noted, status>>

Init ==
    /\ state = [n \in NCs |-> "none"]
    /\ about = [n \in NCs |-> NoId]
    /\ needs = [n \in NCs |-> "none"]
    /\ has = [n \in NCs |-> {}]
    /\ noted = [n \in NCs |-> "none"]
    /\ status \in [Equipment -> StartStatuses]

Open(n, e) ==
    /\ state[n] = "none"
    /\ status[e] # "non_conforming"
    /\ state' = [state EXCEPT ![n] = "open"]
    /\ about' = [about EXCEPT ![n] = e]
    /\ \E remedy \in {"none", "repair", "recalibration"} :
           needs' = [needs EXCEPT ![n] = remedy]
    /\ noted' = [noted EXCEPT ![n] = status[e]]
    /\ status' = [status EXCEPT ![e] = "non_conforming"]
    /\ UNCHANGED has

\* A remedy comes once, and before the entry is closed.
Remedy(n, remedy) ==
    /\ state[n] \in {"open", "corrected"}
    /\ remedy \notin has[n]
    /\ has' = [has EXCEPT ![n] = @ \cup {remedy}]
    /\ UNCHANGED <<state, about, needs, noted, status>>

Moves(n, from, to) ==
    /\ state[n] = from
    /\ state' = [state EXCEPT ![n] = to]
    /\ UNCHANGED <<about, needs, has, noted>>

Correct(n) ==
    /\ needs[n] \in has[n] \cup {"none"}
    /\ Moves(n, "open", "corrected")
    /\ UNCHANGED status

Reject(n) == Moves(n, "corrected", "open") /\ UNCHANGED status

\* The equipment is what it was, or available if it was out of use then.
Close(n) ==
    /\ Moves(n, "corrected", "closed")
    /\ status[about[n]] = "non_conforming"
    /\ status' = [status EXCEPT ![about[n]] =
                      IF noted[n] \in Unfit THEN "available" ELSE noted[n]]

\* An entry may be withdrawn whatever its state.  The equipment then stays as it is.
Withdraw(n) ==
    /\ \E from \in {"open", "corrected", "closed"} : Moves(n, from, "withdrawn")
    /\ UNCHANGED status

Next ==
    \E n \in NCs :
        \/ \E e \in Equipment : Open(n, e)
        \/ Remedy(n, "repair")
        \/ Correct(n) \/ Reject(n) \/ Close(n) \/ Withdraw(n)

Spec == Init /\ [][Next]_vars

=============================================================================
