---------------------------- MODULE MCStoragePools ----------------------------
(* Small instances of StoragePools for TLC. *)
EXTENDS StoragePools

(* Room for a pool of each size, in several orders and with several gaps,  *)
(* above all offsets from nullptr.                                         *)
MCHeap == {10, 14, 20, 21, 24}

=============================================================================
