--------------------------- MODULE MCEquipmentImport ---------------------------
(* EquipmentImport over small sets of model values. *)
EXTENDS EquipmentImport, TLC

\* Identifiers of requests are interchangeable.
Symmetry == Permutations(Requests)

=============================================================================
