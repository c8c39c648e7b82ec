------------------------------ MODULE BorrowedReturn ------------------------------
(***************************************************************************)
(* What the imports promise about borrowed equipment.  It is asked for,    *)
(* received, and given back.  Giving it back is begun, carried out by one  *)
(* checkout at a time, and ends: the equipment is gone if a checkout took  *)
(* it, and is here again only if none has it.  Each of these is one step.  *)
(*                                                                         *)
(* Requests, claims, links, versions, events and crashes are of no concern *)
(* here.                                                                   *)
(***************************************************************************)
EXTENDS Naturals

CONSTANTS
    Imports,     \* borrowed equipment
    Checkouts,   \* attempts to take it back
    NoId         \* stands for no import

VARIABLES
    stage,   \* how far the import of the equipment has come
    takes,   \* the import whose equipment a checkout takes back
    course   \* how the checkout goes

vars == <<stage, takes, course>>

Stages  == {"none", "asked", "agreed", "dropped", "here", "leaving", "gone"}
Courses == {"none", "open", "done", "failed"}

TypeOK ==
    /\ stage \in [Imports -> Stages]
    /\ takes \in [Checkouts -> Imports \cup {NoId}]
    /\ course \in [Checkouts -> Courses]

Init ==
    /\ stage = [i \in Imports |-> "none"]
    /\ takes = [c \in Checkouts |-> NoId]
    /\ course = [c \in Checkouts |-> "none"]

\* The checkouts that take the equipment back, or took it.
Takers(i) == { c \in Checkouts : takes[c] = i /\ course[c] \in {"open", "done"} }

Moves(i, from, to) ==
    /\ stage[i] \in from
    /\ stage' = [stage EXCEPT ![i] = to]
    /\ UNCHANGED <<takes, course>>

Ask(i)     == Moves(i, {"none"}, "asked")
Agree(i)   == Moves(i, {"asked"}, "agreed")
Drop(i)    == Moves(i, {"asked", "agreed"}, "dropped")
Receive(i) == Moves(i, {"agreed"}, "here")

Begin(i) == Moves(i, {"here"}, "leaving")

Take(i, c) ==
    /\ stage[i] = "leaving"
    /\ Takers(i) = {}
    /\ course[c] = "none"
    /\ takes' = [takes EXCEPT ![c] = i]
    /\ course' = [course EXCEPT ![c] = "open"]
    /\ UNCHANGED stage

Ends(c, end) ==
    /\ course[c] = "open"
    /\ course' = [course EXCEPT ![c] = end]
    /\ UNCHANGED <<stage, takes>>

\* Nobody takes it, or whoever was to take it did not.
Stay(i) == Takers(i) = {} /\ Moves(i, {"leaving"}, "here")

Leave(i) ==
    /\ \E c \in Takers(i) : course[c] = "done"
    /\ Moves(i, {"leaving"}, "gone")

Next ==
    \/ \E i \in Imports :
           \/ Ask(i) \/ Agree(i) \/ Drop(i) \/ Receive(i)
           \/ Begin(i) \/ Stay(i) \/ Leave(i)
           \/ \E c \in Checkouts : Take(i, c)
    \/ \E c \in Checkouts : Ends(c, "done") \/ Ends(c, "failed")

Spec == Init /\ [][Next]_vars

=============================================================================
