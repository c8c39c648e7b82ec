------------------------------ MODULE MCCheckout ------------------------------
(***************************************************************************)
(* Instances of the checkout service for TLC.  Requests are interchangeable *)
(* and no property or constant tells them apart.                           *)
(***************************************************************************)
EXTENDS ApprovalQueue, TLC

RequestSymmetry == Permutations(Requests)

=============================================================================
