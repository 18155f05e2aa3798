-------------------------- MODULE MCFamilyRegistry --------------------------
(* Small instances of FamilyRegistry for TLC. *)
EXTENDS FamilyRegistry, TLC

(* Names are only compared for equality. *)
MCSymmetry == Permutations(Name)

=============================================================================
