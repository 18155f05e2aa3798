--------------------------- MODULE MCPageFamilies ---------------------------
(* Small instances of PageFamilies for TLC. *)
EXTENDS UsageReport, TLC

CONSTANTS f1, f2

MCSizes == f1 :> 3 @@ f2 :> 5

(* Page addresses are only compared for equality. *)
MCSymmetry == Permutations(Page)

=============================================================================
