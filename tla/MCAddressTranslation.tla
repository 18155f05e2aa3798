------------------------- MODULE MCAddressTranslation -------------------------
(* Small instances of AddressTranslation for TLC. *)
EXTENDS AddressTranslation

(* Pages of two bytes: both bytes of each page, the addresses below zero   *)
(* of page 0 and of page -1, and the first address of no page.             *)
MCAddress == -2 .. NUM_PAGES * PAGE_SIZE

=============================================================================
