---------------------------- MODULE AccessControl ----------------------------
(***************************************************************************)
(* What permission checks promise when several threads set, load and check *)
(* pages: every one of these takes effect at once, at some moment between  *)
(* its call and its return.                                                *)
(***************************************************************************)
CONSTANTS Thread, VirtualPage, Permission, Access, NONE

VARIABLES
  table,   \* per page: whether it is valid, and the accesses it permits
  asked,   \* per thread: the page and the access of its last check, or NONE
  result   \* per thread: what that check has answered

vars == <<table, asked, result>>

Init ==
  /\ table = [p \in VirtualPage |-> [valid |-> FALSE, permissions |-> Permission]]
  /\ asked = [t \in Thread |-> NONE]
  /\ result = [t \in Thread |-> "none"]

Decision(entry, access) ==
  IF ~entry.valid THEN "page_fault"
  ELSE IF access \notin Permission THEN "invalid_access_type"
  ELSE IF access \in entry.permissions THEN "allowed"
  ELSE "violation"

Grant ==
  \E p \in VirtualPage, permissions \in SUBSET Permission :
    /\ table' = [table EXCEPT ![p] = [valid |-> TRUE, permissions |-> permissions]]
    /\ UNCHANGED <<asked, result>>

Load ==
  \E p \in VirtualPage :
    /\ table' = [table EXCEPT ![p].valid = TRUE]
    /\ UNCHANGED <<asked, result>>

Ask(t) ==
  /\ \E q \in VirtualPage \X Access : asked' = [asked EXCEPT ![t] = q]
  /\ result' = [result EXCEPT ![t] = "none"]
  /\ UNCHANGED table

Answer(t) ==
  /\ asked[t] # NONE /\ result[t] = "none"
  /\ result' = [result EXCEPT ![t] = Decision(table[asked[t][1]], asked[t][2])]
  /\ UNCHANGED <<table, asked>>

Next == Grant \/ Load \/ \E t \in Thread : Ask(t) \/ Answer(t)

Spec == Init /\ [][Next]_vars

=============================================================================
