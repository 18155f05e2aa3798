--------------------------- MODULE MCMemProtection ---------------------------
(* Small instances of MemProtection for TLC. *)
EXTENDS MemProtection

(* Every byte of the pages, the address below zero that the division makes *)
(* one of page 0 and the one of page -1, and one past the last page.       *)
MCAddress == -PAGE_SIZE .. NUM_PAGES * PAGE_SIZE

(* Every page, and a number past the last. *)
MCPageNumber == 0 .. NUM_PAGES
=============================================================================
