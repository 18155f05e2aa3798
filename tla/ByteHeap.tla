------------------------------ MODULE ByteHeap ------------------------------
(***************************************************************************)
(* What a family allocator promises its callers, without blocks or lists.  *)
(* Memory is owned in regions: bytes from .. upto - 1 of a page, which has *)
(* one family.  A page is mapped exactly while a region of it is owned.    *)
(***************************************************************************)
EXTENDS Integers

CONSTANTS Family, Page, PageSize

VARIABLES owned, pages

Region == {r \in [family : Family, page : Page, from : 0 .. PageSize, upto : 0 .. PageSize] :
             r.from <= r.upto}

Disjoint(r, s) ==
  \/ r.page # s.page
  \/ r.upto <= s.from
  \/ s.upto <= r.from

(* A region of s's page belongs to s's family, and shares no byte with it. *)
Compatible(r, s) == Disjoint(r, s) /\ (r.page = s.page => r.family = s.family)

Init ==
  /\ owned = {}
  /\ pages = {}

Allocate ==
  \E r \in owned' \ owned :
    /\ owned' = owned \cup {r}
    /\ r \in Region
    /\ \A s \in owned : Compatible(r, s)
    /\ pages' = {s.page : s \in owned'}

Free ==
  \E r \in owned \ owned' :
    /\ owned' = owned \ {r}
    /\ pages' = {s.page : s \in owned'}

Next == Allocate \/ Free

Spec == Init /\ [][Next]_<<owned, pages>>

=============================================================================
