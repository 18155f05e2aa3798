----------------------------- MODULE PageMapping -----------------------------
(***************************************************************************)
(* What address translation promises: pages are given frames one at a time *)
(* and for good, and no two pages share a frame.                           *)
(***************************************************************************)
EXTENDS Integers

CONSTANTS VirtualPage, Frame

VARIABLES mapping  \* the pairs <<page, frame>> so far

Init == mapping = {}

Load ==
  \E p \in VirtualPage, f \in Frame :
    /\ \A m \in mapping : m[1] # p /\ m[2] # f
    /\ mapping' = mapping \cup {<<p, f>>}

Spec == Init /\ [][Load]_mapping

=============================================================================
