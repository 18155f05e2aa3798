----------------------------- MODULE MCPoolDriver -----------------------------
(* A small instance of PoolDriver for TLC. *)
EXTENDS PoolDriver

MCHeap == {10, 14, 20}

=============================================================================
