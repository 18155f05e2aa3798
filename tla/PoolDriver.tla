------------------------------ MODULE PoolDriver ------------------------------
(***************************************************************************)
(* main.cpp: allocate MAX_ALLOCATIONS times, from the pools or from the    *)
(* heap, and free a block either at once or never.                         *)
(***************************************************************************)
EXTENDS StoragePools

CONSTANTS MAX_ALLOCATIONS

ASSUME DriverAssumption == MAX_ALLOCATIONS \in Nat

VARIABLES
  pc,  \* "init", "alloc", "check", "dispose", or how main ended
  i,   \* the number of iterations done
  ptr, \* the local variable of an iteration: a block, or NULL for nullptr
  DO_POOL_ALLOCATION,  \* a macro: what main was compiled with
  heapAllocs,
  heapFrees

heapVars == <<heapAllocs, heapFrees>>

driverVars == <<pc, i, ptr, DO_POOL_ALLOCATION, heapVars,
                m_initialPoolSize, m_PoolMap, live, ended>>

DriverTypeOK ==
  /\ TypeOK
  /\ pc \in {"init", "alloc", "check", "dispose", "done", "aborted"}
  /\ i \in 0 .. MAX_ALLOCATIONS
  /\ ptr \in live \cup {NULL}
  /\ DO_POOL_ALLOCATION \in BOOLEAN
  /\ heapAllocs \in 0 .. MAX_ALLOCATIONS
  /\ heapFrees \in 0 .. heapAllocs

-----------------------------------------------------------------------------
(* Seeded faults of the definitions below, to see the properties fail.     *)

Repeat_Forever == pc' = "alloc" /\ UNCHANGED i

-----------------------------------------------------------------------------
Start ==
  /\ pc = "init"
  /\ IF DO_POOL_ALLOCATION THEN initStorageManager ELSE UNCHANGED vars
  /\ pc' = IF MAX_ALLOCATIONS > 0 THEN "alloc" ELSE "done"
  /\ UNCHANGED <<i, ptr, DO_POOL_ALLOCATION, heapVars>>

(* SM_ALLOC_ARRAY of a random size among the initial pools'. *)
Allocate ==
  /\ pc = "alloc" /\ DO_POOL_ALLOCATION
  /\ \E size \in InitialPools : SM_alloc(size)
  /\ pc' = "check"
  /\ ptr' \in IF live' = live THEN {NULL} ELSE live' \ live
  /\ UNCHANGED <<i, DO_POOL_ALLOCATION, heapVars>>

(* "ERROR: ALLOC FAILED!", abort() on nullptr. *)
Check ==
  /\ pc = "check"
  /\ pc' = IF ptr = NULL THEN "aborted" ELSE "dispose"
  /\ UNCHANGED <<i, ptr, DO_POOL_ALLOCATION, heapVars, vars>>

Repeat ==
  /\ i' = i + 1
  /\ pc' = IF i + 1 < MAX_ALLOCATIONS THEN "alloc" ELSE "done"

(* DO_DEALLOCATIONS: every other block, by chance. *)
Dispose ==
  /\ pc = "dispose" /\ DO_POOL_ALLOCATION
  /\ SM_dealloc(ptr) \/ UNCHANGED vars
  /\ Repeat
  /\ ptr' = NULL
  /\ UNCHANGED <<DO_POOL_ALLOCATION, heapVars>>

(* "HEAP ALLOCATION FAILURE!", abort() when malloc has no memory. *)
HeapAllocate ==
  /\ pc = "alloc" /\ ~DO_POOL_ALLOCATION
  /\ \/ pc' = "dispose" /\ heapAllocs' = heapAllocs + 1
     \/ pc' = "aborted" /\ UNCHANGED heapAllocs
  /\ UNCHANGED <<i, ptr, DO_POOL_ALLOCATION, heapFrees, vars>>

HeapDispose ==
  /\ pc = "dispose" /\ ~DO_POOL_ALLOCATION
  /\ heapFrees' \in {heapFrees, heapFrees + 1}
  /\ Repeat
  /\ UNCHANGED <<ptr, DO_POOL_ALLOCATION, heapAllocs, vars>>

DriverInit ==
  /\ Init
  /\ pc = "init"
  /\ i = 0
  /\ ptr = NULL
  /\ DO_POOL_ALLOCATION \in BOOLEAN
  /\ heapAllocs = 0
  /\ heapFrees = 0

DriverNext ==
  /\ ended = "none"
  /\ Start \/ Allocate \/ Check \/ Dispose \/ HeapAllocate \/ HeapDispose

(* main is one thread: it goes on as long as it can. *)
DriverSpec ==
  /\ DriverInit
  /\ [][DriverNext]_driverVars
  /\ WF_driverVars(DriverNext)

-----------------------------------------------------------------------------
(* Properties *)

(* The driver never gets memory outside a pool and never fails to return   *)
(* a block: freeing a block before the next allocation leaves none to      *)
(* lose, and a pool without memory shows at its first block.               *)
DriverStaysInPools == ended \in {"none", "exhausted"}

(* A run of main comes to its end, or to one of its aborts, whichever      *)
(* branch it was compiled with.                                            *)
DriverEnds == <>(pc \in {"done", "aborted"} \/ ended # "none")

=============================================================================
