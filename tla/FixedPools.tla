------------------------------ MODULE FixedPools ------------------------------
(***************************************************************************)
(* What a manager of fixed-size pools promises its callers: a pool of n    *)
(* blocks serves n callers at a time, each block one of them, and turns a  *)
(* request away only when all of its blocks are in use.                    *)
(***************************************************************************)
EXTENDS Integers

CONSTANTS Size

VARIABLES
  blocks,  \* per size: the number of blocks of its pool, 0 when there is none
  owned,   \* the blocks in use: [size, block]
  full     \* a request has been turned away

Init ==
  /\ blocks = [s \in Size |-> 0]
  /\ owned = {}
  /\ full = FALSE

(* Pools are never resized or destroyed. *)
Keeps(s) == blocks[s] = 0 \/ blocks'[s] = blocks[s]

Configure ==
  /\ \A s \in Size : Keeps(s)
  /\ UNCHANGED <<owned, full>>

(* One block is handed out, perhaps of a new pool. *)
Acquire ==
  \E b \in owned' \ owned :
    /\ owned' = owned \cup {b}
    /\ \A s \in Size : Keeps(s)
    /\ b.block \in 0 .. blocks'[b.size] - 1
    /\ UNCHANGED full

Release ==
  \E b \in owned \ owned' :
    /\ owned' = owned \ {b}
    /\ UNCHANGED <<blocks, full>>

TurnAway ==
  /\ \E s \in Size : /\ blocks[s] > 0
                     /\ \A b \in 0 .. blocks[s] - 1 : [size |-> s, block |-> b] \in owned
  /\ full' = TRUE
  /\ UNCHANGED <<blocks, owned>>

Next == Configure \/ Acquire \/ Release \/ TurnAway

Spec == Init /\ [][Next]_<<blocks, owned, full>>

=============================================================================
