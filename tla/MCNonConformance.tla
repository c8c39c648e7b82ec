---------------------------- MODULE MCNonConformance ----------------------------
(***************************************************************************)
(* Instances of NonConformance for TLC.                                    *)
(***************************************************************************)
EXTENDS NonConformance, TLC

Symmetry == Permutations(Requests) \cup Permutations(NCs) \cup Permutations(Repairs)

=============================================================================
