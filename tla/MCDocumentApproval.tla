--------------------------- MODULE MCDocumentApproval ---------------------------
(***************************************************************************)
(* Instances of DocumentApproval for TLC.  The first document is taken     *)
(* through its chain, a second one is only begun.                          *)
(***************************************************************************)
EXTENDS DocumentApproval, TLC

CONSTANTS d1, d2, d3

MCDocs == {d1, d2}

ThreeDocs == {d1, d2, d3}

First == [intermediate |-> 5, self |-> 6, validation |-> 8, plan |-> 5, disposal |-> 3]

MCMaxVersion == [k \in AllKinds |-> [d \in Docs |-> IF d = d1 THEN First[k] ELSE 2]]

\* The parts of a self inspection are those of an intermediate one.
MCMaxParts == [k \in AllKinds |-> IF k \in {"intermediate", "plan"} THEN 1 ELSE 0]

Symmetry == Permutations(Users) \cup Permutations(Requests)

=============================================================================
