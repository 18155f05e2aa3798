--------------------------- MODULE PoolDriver_proofs ---------------------------
(***************************************************************************)
(* The driver of main.cpp, for any number of allocations, any pools and    *)
(* any memory that malloc gives: it never gets a block outside its pools,  *)
(* and never returns one that is not found, though each pool remembers one *)
(* freed block only.                                                       *)
(***************************************************************************)
EXTENDS PoolDriver, StoragePools_proofs

(* The loop: of the two branches of main one is compiled, and the heap's   *)
(* allocations are those of the iterations.                                *)
LoopInv ==
  /\ pc \in {"init", "alloc", "check", "dispose", "done", "aborted"}
  /\ i \in 0 .. MAX_ALLOCATIONS
  /\ pc = "init" => i = 0
  /\ pc \in {"alloc", "check", "dispose"} => i < MAX_ALLOCATIONS
  /\ pc = "check" => DO_POOL_ALLOCATION
  /\ DO_POOL_ALLOCATION \in BOOLEAN
  /\ ptr \in live \cup {NULL}
  /\ heapAllocs \in Nat
  /\ heapFrees \in Nat
  /\ DO_POOL_ALLOCATION => heapAllocs = 0 /\ heapFrees = 0
  /\ ~DO_POOL_ALLOCATION =>
       /\ heapAllocs = IF pc = "dispose" THEN i + 1 ELSE i
       /\ heapFrees <= i

(* The pools have a record of every block: what the sequence has passed is *)
(* held, but for the one freed block that waits.                           *)
NothingLost ==
  \A s \in SizeId : Backed(s) =>
    m_PoolMap[s].nextFreeBlockInSequence =
      Cardinality(Held(s)) + IF Waiting(m_PoolMap[s]) THEN 1 ELSE 0

(* Nothing has been taken of a pool that has no memory.                    *)
NoNullTaken ==
  \A s \in Pools : ~Backed(s) =>
    /\ m_PoolMap[s].nextFreeBlockInSequence = 0
    /\ ~Waiting(m_PoolMap[s])

(* The pools, while main uses them.  The block that was taken last, and    *)
(* only that, may be freed: its pool has no freed block then.  A nullptr   *)
(* ends the loop at Check.                                                 *)
PoolsInv ==
  /\ pc = "init" => Pools = {} /\ live = {}
  /\ pc # "init" => InitialPools \subseteq Pools
  /\ NothingLost
  /\ pc \in {"alloc", "dispose"} => NoNullTaken
  /\ pc = "check" /\ ptr # NULL => NoNullTaken
  /\ pc = "dispose" => ptr # NULL
  /\ pc \in {"check", "dispose"} /\ ptr # NULL => ~Waiting(m_PoolMap[ptr.size])

(* The inductive invariant.                                                *)
DInv ==
  /\ PInv
  /\ LoopInv
  /\ DO_POOL_ALLOCATION => PoolsInv
  /\ DriverStaysInPools


(* When main stops, or only looks at what it has, the pools stay.          *)
LEMMA PoolsStay ==
  ASSUME UNCHANGED <<m_PoolMap, live>>
  PROVE  /\ Pools' = Pools
         /\ \A s : Backed(s)' <=> Backed(s)
         /\ NothingLost' <=> NothingLost
         /\ NoNullTaken' <=> NoNullTaken
  BY DEF Pools, Backed, NothingLost, NoNullTaken, Held

(* After initStorageManager each pool is full and has no freed block.      *)
LEMMA StartMakesPools ==
  ASSUME PoolsFitInUnsigned, initStorageManager, Pools = {}, live = {}
  PROVE  InitialPools \subseteq Pools' /\ NothingLost' /\ NoNullTaken'
<1>1. PICK start \in [InitialPools -> Heap \cup {0}] :
        m_PoolMap' = [s \in SizeId |->
          IF s \in InitialPools THEN initializePoolData(s * POOL_SIZE, start[s], s)
          ELSE m_PoolMap[s]]
  BY DEF initStorageManager
<1>2. ASSUME NEW s \in InitialPools
      PROVE  /\ s \in SizeId
             /\ m_PoolMap'[s] \in PoolData
             /\ m_PoolMap'[s].nextFreeBlockInSequence = 0
             /\ ~Waiting(m_PoolMap'[s])
  <2>1. s \in SizeId \ {0} /\ start[s] \in Heap \cup {0}
    BY Addresses
  <2>2. m_PoolMap'[s] = initializePoolData(s * POOL_SIZE, start[s], s)
    BY <1>1, <2>1
  <2> QED
    BY <2>1, <2>2, FullNewPool
<1>3. Pools' = InitialPools
  BY <1>1, <1>2, NullIsNoPool DEF Pools
<1>4. \A s : Held(s)' = {} /\ Cardinality(Held(s)') = 0
  BY FS_EmptySet DEF initStorageManager, Held
<1> HIDE DEF Waiting
<1>5. NoNullTaken'
  BY <1>2, <1>3 DEF NoNullTaken
<1>6. NothingLost'
  BY <1>2, <1>3, <1>4 DEF NothingLost, Backed
<1> QED
  BY <1>3, <1>5, <1>6

(* An allocation of main: the pool is exhausted, or it has no memory and   *)
(* gives nullptr, or it gives a block, and then has no freed block.        *)
LEMMA AllocateKeepsPools ==
  ASSUME PoolsFitInUnsigned, PInv, NothingLost, NoNullTaken,
         NEW s \in Pools, SM_alloc(s)
  PROVE  /\ NothingLost' /\ Pools' = Pools
         /\ ended' \in {"none", "exhausted"}
         /\ \/ live' = live
            \/ \E b : /\ live' = live \cup {b} /\ b.size = s
                      /\ NoNullTaken' /\ ~Waiting(m_PoolMap'[s])
<1> DEFINE pool == m_PoolMap[s]
           addr == findAddressFromBlock(BlockToTake(pool), s, pool)
           new  == BlockTaken(pool, s)
<1>1. /\ s \in SizeId /\ Fits(s, pool) /\ TypeOK /\ s \in Nat \ {0} /\ pool \in PoolData
      /\ Backed(s) <=> pool.startAddress # 0
  BY Addresses DEF PInv, TInv, Pools, Backed, Fits
<1>2. CASE End("exhausted")
  BY <1>2, PoolsStay DEF End
<1>3. ASSUME HandOut(pool, s), pool.freeBlocks # 0, ended = "none"
      PROVE  /\ addr = 0 <=> ~Backed(s)
             /\ addr = 0 \/ InPool(pool, s, addr)
             /\ Backed(s) => [size |-> s, addr |-> addr] \notin live
  <2>1. CASE Backed(s)
    <3>1. /\ BlockToTake(pool) \in 0 .. POOL_SIZE /\ addr # 0
          /\ (InPool(pool, s, addr) <=> BlockToTake(pool) < POOL_SIZE)
          /\ (~Waiting(pool) => BlockToTake(pool) = pool.nextFreeBlockInSequence)
          /\ (BlockToTake(pool) = POOL_SIZE => ~Waiting(pool))
          /\ [size |-> s, addr |-> addr] \notin live
      BY <1>1, <2>1, NextBlock
    <3>2. BlockToTake(pool) # POOL_SIZE
      <4> SUFFICES ASSUME BlockToTake(pool) = POOL_SIZE PROVE FALSE
        OBVIOUS
      <4>1. Cardinality(Held(s)) = POOL_SIZE
        <5>1. POOL_SIZE = Cardinality(Held(s)) + 0
          BY <1>1, <2>1, <3>1 DEF NothingLost
        <5> QED
          BY <1>1, <2>1, <5>1, HeldAreBlocks
      <4>2. pool.freeBlocks = POOL_SIZE - POOL_SIZE
        BY <1>1, <2>1, <4>1 DEF Fits
      <4> QED
        BY <1>3, <4>2, Addresses
    <3> QED
      BY <2>1, <3>1, <3>2, Addresses
  <2>2. CASE ~Backed(s)
    <3>1. pool.startAddress = 0 /\ pool.nextFreeBlockInSequence = 0 /\ ~Waiting(pool)
      BY <1>1, <2>2 DEF NoNullTaken
    <3>2. BlockToTake(pool) = 0
      BY <3>1 DEF BlockToTake
    <3>3. (0 * s) % UINT32 = 0
      BY <1>1, Addresses
    <3> QED
      BY <2>2, <3>1, <3>2, <3>3 DEF findAddressFromBlock
  <2> QED
    BY <2>1, <2>2
<1>4. CASE HandOut(pool, s) /\ pool.freeBlocks # 0 /\ ended = "none"
  <2>1. /\ m_PoolMap' = [m_PoolMap EXCEPT ![s] = new]
        /\ live' = live \cup (IF addr = 0 THEN {} ELSE {[size |-> s, addr |-> addr]})
        /\ UNCHANGED ended
    BY <1>3, <1>4 DEF HandOut
  <2>2. /\ new \in PoolData
        /\ new.startAddress = pool.startAddress
        /\ new.nextFreeBlockInSequence = IF Waiting(pool) THEN pool.nextFreeBlockInSequence
                                         ELSE pool.nextFreeBlockInSequence + 1
        /\ ~Waiting(new)
    BY <1>1, TakenFields
  <2> HIDE DEF new
  <2>3. /\ Pools' = Pools \cup {s} /\ m_PoolMap'[s] = new
        /\ \A t \in SizeId \ {s} : /\ m_PoolMap'[t] = m_PoolMap[t]
                                   /\ Backed(t)' <=> Backed(t)
    BY <1>1, <2>1, <2>2, PoolsAfter
  <2>4. Backed(s)' <=> Backed(s)
    BY <1>1, <2>2, <2>3 DEF Backed
  <2>5. \A t \in SizeId \ {s} : Held(t)' = Held(t)
    BY <2>1 DEF Held
  <2>6. CASE ~Backed(s)
    <3>1. live' = live
      BY <1>3, <1>4, <2>1, <2>6
    <3>2. NothingLost'
      BY <2>3, <2>4, <2>5, <2>6 DEF NothingLost
    <3> QED
      BY <1>4, <2>1, <2>3, <3>1, <3>2
  <2>7. CASE Backed(s)
    <3> DEFINE b == [size |-> s, addr |-> addr]
    <3>1. live' = live \cup {b} /\ b \notin live
      BY <1>3, <1>4, <2>1, <2>7
    <3>2. Held(s)' = Held(s) \cup {b} /\ b \notin Held(s)
      BY <3>1 DEF Held
    <3>3. IsFiniteSet(Held(s)) /\ Cardinality(Held(s)) \in 0 .. POOL_SIZE
      BY <1>1, <2>7, HeldAreBlocks
    <3>4. Cardinality(Held(s)') = Cardinality(Held(s)) + 1
      BY <3>2, <3>3, FS_AddElement
    <3>5. new.nextFreeBlockInSequence = Cardinality(Held(s)') + 0
      <4>1. pool.nextFreeBlockInSequence =
              Cardinality(Held(s)) + IF Waiting(pool) THEN 1 ELSE 0
        BY <1>1, <2>7 DEF NothingLost
      <4> QED
        BY <2>2, <3>3, <3>4, <4>1
    <3>6. NothingLost'
      BY <2>2, <2>3, <2>5, <3>5 DEF NothingLost
    <3>7. NoNullTaken'
      BY <2>3, <2>4, <2>7 DEF NoNullTaken, Pools
    <3>8. b.size = s
      OBVIOUS
    <3> HIDE DEF b
    <3> QED
      BY <1>4, <2>1, <2>2, <2>3, <3>1, <3>6, <3>7, <3>8
  <2> QED
    BY <2>6, <2>7
<1> QED
  BY <1>2, <1>4 DEF SM_alloc

(* The pool of the block that main frees remembers it.                     *)
LEMMA DisposeKeepsPools ==
  ASSUME PoolsFitInUnsigned, PInv, NothingLost, NoNullTaken,
         NEW b \in live, ~Waiting(m_PoolMap[b.size]), SM_dealloc(b)
  PROVE  NothingLost' /\ NoNullTaken' /\ Pools' = Pools /\ ended' = "none"
<1> DEFINE s    == b.size
           pool == m_PoolMap[s]
<1>1. PICK new : /\ new = BlockReturned(pool, s, b.addr)
                 /\ m_PoolMap' = [m_PoolMap EXCEPT ![s] = new]
                 /\ live' = live \ {b}
                 /\ ended' = "none"
  BY FoundInItsPool DEF SM_dealloc
<1>2. /\ Backed(s) /\ s \in Pools /\ s \in SizeId /\ s \in Nat \ {0} /\ pool \in PoolData
      /\ pool.startAddress # 0 /\ TypeOK /\ Fits(s, pool)
      /\ pool.startAddress <= b.addr /\ b.addr \in Nat
  <2>1. /\ Backed(s) /\ s \in Pools /\ s \in Nat \ {0} /\ Fits(s, pool)
        /\ b.addr \in pool.startAddress .. pool.endAddress
    BY HeldBlock
  <2> QED
    BY <2>1 DEF Pools, Fits, TypeOK, PInv, TInv, Backed
<1>3. /\ new \in PoolData /\ new.startAddress = pool.startAddress
      /\ new.nextFreeBlockInSequence = pool.nextFreeBlockInSequence /\ Waiting(new)
  BY <1>1, <1>2, ReturnedFields
<1>4. /\ Pools' = Pools \cup {s} /\ m_PoolMap'[s] = new
      /\ \A t \in SizeId \ {s} : /\ m_PoolMap'[t] = m_PoolMap[t]
                                 /\ Backed(t)' <=> Backed(t)
  BY <1>1, <1>2, <1>3, PoolsAfter
<1>5. Backed(s)'
  BY <1>2, <1>3, <1>4 DEF Backed
<1>6. \A t \in SizeId \ {s} : Held(t)' = Held(t)
  BY <1>1 DEF Held
<1>7. Held(s)' = Held(s) \ {b} /\ b \in Held(s)
  BY <1>1 DEF Held
<1>8. IsFiniteSet(Held(s)) /\ Cardinality(Held(s)) \in 0 .. POOL_SIZE
  BY <1>2, HeldAreBlocks
<1>9. Cardinality(Held(s)') = Cardinality(Held(s)) - 1
  BY <1>7, <1>8, FS_RemoveElement
<1>10. new.nextFreeBlockInSequence = Cardinality(Held(s)') + 1
  <2>1. pool.nextFreeBlockInSequence = Cardinality(Held(s)) + 0
    BY <1>2 DEF NothingLost
  <2> QED
    BY <1>3, <1>8, <1>9, <2>1
<1> HIDE DEF s
<1>11. NothingLost'
  BY <1>3, <1>4, <1>6, <1>10 DEF NothingLost
<1>12. NoNullTaken'
  BY <1>4, <1>5 DEF NoNullTaken, Pools
<1> QED
  BY <1>1, <1>2, <1>4, <1>11, <1>12

-----------------------------------------------------------------------------
(* Each step of main keeps the invariant *)

(* main begins: the pools are set up.                                      *)
LEMMA StartKeepsDInv ==
  ASSUME PoolsFitInUnsigned, DInv, ended = "none", Start
  PROVE  DInv'
<1>1. PInv'
  <2>1. [Next]_vars
    BY DEF Start, Next
  <2> QED
    BY <2>1, NextKeepsPInv DEF DInv
<1>2. live' = live /\ ended' = ended
  BY DEF Start, initStorageManager, vars
<1>3. LoopInv'
  BY <1>2, DriverAssumption DEF Start, heapVars, DInv, LoopInv
<1>4. ASSUME DO_POOL_ALLOCATION' PROVE PoolsInv'
  <2>1. DO_POOL_ALLOCATION /\ initStorageManager /\ pc = "init" /\ ptr' = ptr /\ Pools = {} /\ live = {}
    BY <1>4 DEF Start, DInv, PoolsInv
  <2>2. InitialPools \subseteq Pools' /\ NothingLost' /\ NoNullTaken'
    BY <2>1, StartMakesPools
  <2>3. pc' \in {"alloc", "done"}
    BY DEF Start
  <2> QED
    BY <2>2, <2>3 DEF PoolsInv
<1> QED
  BY <1>1, <1>2, <1>3, <1>4 DEF DInv, DriverStaysInPools

(* SM_alloc hands out a block of a pool, never NULL.                       *)
LEMMA AllocateKeepsDInv ==
  ASSUME PoolsFitInUnsigned, DInv, ended = "none", Allocate
  PROVE  DInv'
<1>1. PICK s \in InitialPools : SM_alloc(s)
  BY DEF Allocate
<1>2. PoolsInv /\ PInv /\ NothingLost /\ NoNullTaken /\ s \in Pools /\ InitialPools \subseteq Pools
  BY DEF DInv, PoolsInv, Allocate
<1>3. PInv'
  <2>1. [Next]_vars
    BY <1>1, Addresses DEF Next
  <2> QED
    BY <1>2, <2>1, NextKeepsPInv
<1>4. /\ NothingLost' /\ Pools' = Pools
      /\ ended' \in {"none", "exhausted"}
      /\ \/ live' = live
         \/ \E b : /\ live' = live \cup {b} /\ b.size = s
                   /\ NoNullTaken' /\ ~Waiting(m_PoolMap'[s])
  BY <1>1, <1>2, AllocateKeepsPools
<1>5. ptr' \in live' \cup {NULL}
  BY DEF Allocate
<1>6. LoopInv'
  BY <1>5 DEF Allocate, heapVars, DInv, LoopInv
<1>7. pc' = "check"
  BY DEF Allocate
<1>8. ptr' # NULL => NoNullTaken' /\ ~Waiting(m_PoolMap'[ptr'.size])
  <2> SUFFICES ASSUME ptr' # NULL PROVE NoNullTaken' /\ ~Waiting(m_PoolMap'[ptr'.size])
    OBVIOUS
  <2>1. live' # live /\ ptr' \in live' \ live
    BY DEF Allocate
  <2> QED
    BY <1>4, <2>1
<1>9. PoolsInv'
  BY <1>2, <1>4, <1>7, <1>8 DEF PoolsInv
<1> QED
  BY <1>3, <1>4, <1>6, <1>9 DEF DInv, DriverStaysInPools

(* The loop goes on or ends, and no pool changes.                          *)
LEMMA CheckKeepsDInv ==
  ASSUME DInv, Check
  PROVE  DInv'
<1>1. UNCHANGED vars /\ UNCHANGED <<m_initialPoolSize, m_PoolMap, live, ended>>
  BY DEF Check, vars
<1>2. PInv'
  <2>1. TInv'
    BY <1>1 DEF DInv, PInv, TInv, TypeOK, Pools
  <2> QED
    BY <1>1, <2>1, PInvStays DEF DInv
<1>3. LoopInv'
  BY <1>1 DEF Check, heapVars, DInv, LoopInv
<1>4. PoolsInv => PoolsInv'
  BY <1>1, PoolsStay DEF Check, PoolsInv
<1> QED
  BY <1>1, <1>2, <1>3, <1>4 DEF DInv, DriverStaysInPools, Check

(* SM_dealloc gets the block that was taken last.                          *)
LEMMA DisposeKeepsDInv ==
  ASSUME PoolsFitInUnsigned, DInv, ended = "none", Dispose
  PROVE  DInv'
<1>1. /\ PoolsInv /\ PInv /\ NothingLost /\ NoNullTaken /\ ptr \in live
      /\ ~Waiting(m_PoolMap[ptr.size]) /\ InitialPools \subseteq Pools
  BY DEF DInv, PoolsInv, LoopInv, Dispose
<1>2. PInv'
  <2>1. [Next]_vars
    BY <1>1 DEF Dispose, Next
  <2> QED
    BY <1>1, <2>1, NextKeepsPInv
<1>3. NothingLost' /\ NoNullTaken' /\ Pools' = Pools /\ ended' = "none"
  <2>1. CASE SM_dealloc(ptr)
    BY <1>1, <2>1, DisposeKeepsPools
  <2>2. CASE UNCHANGED vars
    BY <1>1, <2>2, PoolsStay DEF vars
  <2> QED
    BY <2>1, <2>2 DEF Dispose
<1>4. LoopInv'
  BY DriverAssumption DEF Dispose, Repeat, heapVars, DInv, LoopInv
<1>5. PoolsInv'
  BY <1>1, <1>3 DEF PoolsInv, Dispose, Repeat
<1> QED
  BY <1>2, <1>3, <1>4, <1>5 DEF DInv, DriverStaysInPools

(* Without the pools nothing can go wrong with them.                       *)
LEMMA HeapStepsKeepDInv ==
  ASSUME DInv, HeapAllocate \/ HeapDispose
  PROVE  DInv'
<1>1. UNCHANGED vars /\ UNCHANGED <<m_initialPoolSize, m_PoolMap, live, ended>>
  BY DEF HeapAllocate, HeapDispose, vars
<1>2. PInv'
  <2>1. TInv'
    BY <1>1 DEF DInv, PInv, TInv, TypeOK, Pools
  <2> QED
    BY <1>1, <2>1, PInvStays DEF DInv
<1>3. LoopInv'
  <2>1. CASE HeapAllocate
    BY <1>1, <2>1, DriverAssumption DEF HeapAllocate, DInv, LoopInv
  <2>2. CASE HeapDispose
    BY <1>1, <2>2, DriverAssumption DEF HeapDispose, Repeat, DInv, LoopInv
  <2> QED
    BY <2>1, <2>2
<1>4. ~DO_POOL_ALLOCATION'
  BY DEF HeapAllocate, HeapDispose
<1> QED
  BY <1>1, <1>2, <1>3, <1>4 DEF DInv, DriverStaysInPools

(* So the invariant holds in every behaviour of the driver.                *)
LEMMA DInvInvariant ==
  PoolsFitInUnsigned => (DriverSpec => []DInv)
<1> SUFFICES ASSUME PoolsFitInUnsigned PROVE DriverSpec => []DInv
  OBVIOUS
<1>1. DriverInit => DInv
  <2> SUFFICES ASSUME DriverInit PROVE DInv
    OBVIOUS
  <2>1. PInv /\ Pools = {} /\ live = {}
    BY PoolsAssumption DEF DriverInit, Init, PInv, TInv, TypeOK, Pools, Endings
  <2>2. LoopInv
    BY DriverAssumption DEF DriverInit, LoopInv
  <2>3. PoolsInv
    BY <2>1 DEF DriverInit, PoolsInv, NothingLost, NoNullTaken, Backed
  <2> QED
    BY <2>1, <2>2, <2>3 DEF DInv, DriverInit, Init, DriverStaysInPools
<1>2. DInv /\ [DriverNext]_driverVars => DInv'
  <2> SUFFICES ASSUME DInv, [DriverNext]_driverVars PROVE DInv'
    OBVIOUS
  <2>1. CASE UNCHANGED driverVars
    <3>1. UNCHANGED <<m_initialPoolSize, m_PoolMap, live, ended>>
      BY <2>1 DEF driverVars
    <3>2. TInv'
      BY <3>1 DEF DInv, PInv, TInv, TypeOK, Pools
    <3>3. PInv'
      BY <3>1, <3>2, PInvStays DEF DInv
    <3>4. LoopInv'
      BY <2>1 DEF driverVars, heapVars, DInv, LoopInv
    <3>5. PoolsInv => PoolsInv'
      BY <2>1, <3>1, PoolsStay DEF driverVars, PoolsInv
    <3> QED
      BY <2>1, <3>3, <3>4, <3>5 DEF driverVars, DInv, DriverStaysInPools
  <2>2. CASE DriverNext
    BY <2>2, StartKeepsDInv, AllocateKeepsDInv, CheckKeepsDInv, DisposeKeepsDInv,
       HeapStepsKeepDInv DEF DriverNext
  <2> QED
    BY <2>1, <2>2
<1> QED
  BY <1>1, <1>2, PTL DEF DriverSpec

-----------------------------------------------------------------------------
(* What main keeps has its types: the block it frees is one that it holds, *)
(* and it frees no more of the heap than it has taken.                     *)
THEOREM DriverTypes == PoolsFitInUnsigned => (DriverSpec => []DriverTypeOK)
<1> SUFFICES ASSUME PoolsFitInUnsigned PROVE DriverSpec => []DriverTypeOK
  OBVIOUS
<1>1. DInv => DriverTypeOK
  <2> SUFFICES ASSUME DInv PROVE DriverTypeOK
    OBVIOUS
  <2>1. heapAllocs \in 0 .. MAX_ALLOCATIONS /\ heapFrees \in 0 .. heapAllocs
    BY DriverAssumption DEF DInv, LoopInv
  <2> QED
    BY <2>1 DEF DInv, PInv, TInv, LoopInv, DriverTypeOK
<1> QED
  BY <1>1, DInvInvariant, PTL

(* The driver never gets memory outside a pool and never fails to return a *)
(* block, though the one freed block that a pool remembers may be lost to  *)
(* other clients of the manager.                                           *)
THEOREM DriverStays == PoolsFitInUnsigned => (DriverSpec => []DriverStaysInPools)
<1> SUFFICES ASSUME PoolsFitInUnsigned PROVE DriverSpec => []DriverStaysInPools
  OBVIOUS
<1>1. DInv => DriverStaysInPools
  BY DEF DInv
<1> QED
  BY <1>1, DInvInvariant, PTL

==============================================================================
