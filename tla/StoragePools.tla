----------------------------- MODULE StoragePools -----------------------------
(***************************************************************************)
(* The fixed size storage manager (sm.cpp, sm.h): one pool of equal blocks *)
(* per requested size, made by the first request or by initStorageManager. *)
(* The manager is sequential and its clients free what they own, in any    *)
(* order.  A pool remembers one freed block, in nextFreeBlock; the others  *)
(* it hands out come from nextFreeBlockInSequence.                         *)
(*                                                                         *)
(* ended says how the program stopped: an abort() of the source, or a      *)
(* block outside its pool, which a client may not touch.                   *)
(***************************************************************************)
EXTENDS Integers, FiniteSets

CONSTANTS
  SizeId,        \* the sizes that clients ask for
  InitialPools,  \* the sizes of initStorageManager's pools
  POOL_SIZE,     \* its initialPoolSize: the blocks of a pool
  Heap,          \* the addresses malloc may return (bounds the model)
  HEADER,        \* the bytes malloc keeps between two of its regions
  UINT32,        \* 2^32, the modulus of unsigned int
  NULL           \* no pool of a size

(* Address 0 is nullptr, which is below the heap with all of its offsets.  *)
ASSUME PoolsAssumption ==
  /\ SizeId \subseteq Nat
  /\ InitialPools \subseteq SizeId \ {0}
  /\ POOL_SIZE \in Nat
  /\ HEADER \in Nat \ {0}
  /\ UINT32 \in Nat \ {0}
  /\ Heap \subseteq Nat
  /\ \A a \in Heap, s \in SizeId : a > s * POOL_SIZE

VARIABLES
  m_initialPoolSize,
  m_PoolMap,  \* per size: its PoolData_t, or NULL
  live,       \* the memory clients hold: the size asked for and the address
  ended

vars == <<m_initialPoolSize, m_PoolMap, live, ended>>

PoolData == [startAddress               : Nat,
             endAddress                 : Nat,
             totalBlocks                : Nat,
             freeBlocks                 : 0 .. UINT32 - 1,
             usedBlocks                 : 0 .. UINT32 - 1,
             remainingSpace             : 0 .. UINT32 - 1,
             nextFreeBlockInSequence    : Nat,
             nextFreeBlock              : Nat \cup {-1},
             isFreedBlockBlockAvailable : BOOLEAN]

ASSUME NullIsNoPool == NULL \notin PoolData

Endings == {"none",
            "exhausted",  \* SM_alloc: no free block, abort()
            "no_pool",    \* findPoolFromAddress: no pool has the address, abort()
            "divided",    \* a pool of size 0: division by zero
            "strayed"}    \* the block handed out is not memory of its pool

TypeOK ==
  /\ m_initialPoolSize \in {0, POOL_SIZE}
  /\ m_PoolMap \in [SizeId -> PoolData \cup {NULL}]
  /\ live \subseteq [size : SizeId, addr : Nat]
  /\ ended \in Endings

Pools == {s \in SizeId : m_PoolMap[s] # NULL}

End(how) ==
  /\ ended' = how
  /\ UNCHANGED <<m_initialPoolSize, m_PoolMap, live>>

-----------------------------------------------------------------------------
(* Seeded faults of the definitions below, to see the properties fail.     *)

findAddressFromBlock_Unscaled(block, size, pool) == pool.startAddress + block

findBlockFromAddress_Reversed(addr, size, pool) == (pool.startAddress - addr) \div size

findPoolFromAddress_NoUpperBound(ptr) ==
  {s \in Pools : /\ m_PoolMap[s].startAddress <= ptr
                 /\ \A t \in Pools : m_PoolMap[t].startAddress <= ptr => s <= t}

BlockTaken_KeepsFreedBlock(pool, size) ==
  [pool EXCEPT !.nextFreeBlockInSequence =
                  IF pool.isFreedBlockBlockAvailable THEN @ ELSE @ + 1,
               !.freeBlocks     = (@ - 1) % UINT32,
               !.usedBlocks     = (@ + 1) % UINT32,
               !.remainingSpace = (@ - size) % UINT32]

BlockTaken_SequenceStays(pool, size) ==
  [pool EXCEPT !.nextFreeBlock              = -1,
               !.isFreedBlockBlockAvailable = FALSE,
               !.freeBlocks                 = (@ - 1) % UINT32,
               !.usedBlocks                 = (@ + 1) % UINT32,
               !.remainingSpace             = (@ - size) % UINT32]

BlockToTake_IgnoresFreed(pool) == pool.nextFreeBlockInSequence

BlockReturned_KeepsCounts(pool, size, addr) ==
  [pool EXCEPT !.nextFreeBlock              = (addr - pool.startAddress) \div size,
               !.isFreedBlockBlockAvailable = TRUE]

BlockReturned_NotWaiting(pool, size, addr) ==
  [pool EXCEPT !.nextFreeBlock  = (addr - pool.startAddress) \div size,
               !.freeBlocks     = (@ + 1) % UINT32,
               !.usedBlocks     = (@ - 1) % UINT32,
               !.remainingSpace = (@ + size) % UINT32]

-----------------------------------------------------------------------------
(* malloc (external): nullptr, or a region HEADER bytes away from others.  *)
Apart(a, n, b, m) == a + n + HEADER <= b \/ b + m + HEADER <= a

malloc(bytes) ==
  {0} \cup {a \in Heap :
    \A s \in Pools : LET pool == m_PoolMap[s] IN
      pool.startAddress # 0 =>
        Apart(a, bytes, pool.startAddress, pool.endAddress - pool.startAddress)}

(* initializePoolData, of a pool that malloc put at start. *)
initializePoolData(bytes, start, size) ==
  [startAddress               |-> start,
   endAddress                 |-> start + bytes,
   totalBlocks                |-> bytes \div size,
   freeBlocks                 |-> (bytes \div size) % UINT32,
   usedBlocks                 |-> 0,
   remainingSpace             |-> bytes % UINT32,
   nextFreeBlockInSequence    |-> 0,
   nextFreeBlock              |-> -1,
   isFreedBlockBlockAvailable |-> FALSE]

(* The pools that createNewPool may make. *)
createNewPool(size) ==
  LET bytes == size * m_initialPoolSize
  IN  {initializePoolData(bytes, start, size) : start \in malloc(bytes)}

findAddressFromBlock(block, size, pool) == pool.startAddress + ((block * size) % UINT32)

findBlockFromAddress(addr, size, pool) == (addr - pool.startAddress) \div size

(* The sizes whose pool has ptr, both ends included; the map is searched   *)
(* by ascending size.                                                      *)
findPoolFromAddress(ptr) ==
  LET has(s) == /\ m_PoolMap[s].startAddress <= ptr
                /\ ptr <= m_PoolMap[s].endAddress
  IN  {s \in Pools : has(s) /\ \A t \in Pools : has(t) => s <= t}

-----------------------------------------------------------------------------
(* Called once, before the manager is used. *)
initStorageManager ==
  /\ ended = "none"
  /\ m_initialPoolSize = 0
  /\ m_initialPoolSize' = POOL_SIZE
  /\ \E start \in [InitialPools -> Heap \cup {0}] :
       /\ \A s \in InitialPools : start[s] \in malloc(s * POOL_SIZE)
       /\ \A s, t \in InitialPools :
            s # t /\ start[s] # 0 /\ start[t] # 0 =>
              Apart(start[s], s * POOL_SIZE, start[t], t * POOL_SIZE)
       /\ m_PoolMap' = [s \in SizeId |->
            IF s \in InitialPools THEN initializePoolData(s * POOL_SIZE, start[s], s)
            ELSE m_PoolMap[s]]
  /\ UNCHANGED <<live, ended>>

(* The freed block that is waiting, or the next one in sequence ... *)
Waiting(pool) == pool.isFreedBlockBlockAvailable /\ pool.nextFreeBlock >= 0

BlockToTake(pool) ==
  IF Waiting(pool) THEN pool.nextFreeBlock ELSE pool.nextFreeBlockInSequence

(* ... and the pool without it. *)
BlockTaken(pool, size) ==
  LET counted == [pool EXCEPT !.freeBlocks     = (@ - 1) % UINT32,
                              !.usedBlocks     = (@ + 1) % UINT32,
                              !.remainingSpace = (@ - size) % UINT32]
  IN  IF Waiting(pool)
      THEN [counted EXCEPT !.isFreedBlockBlockAvailable = FALSE, !.nextFreeBlock = -1]
      ELSE [counted EXCEPT !.nextFreeBlockInSequence = @ + 1]

(* The block is memory of the pool, as far as malloc gave it any. *)
InPool(pool, size, addr) ==
  pool.startAddress # 0 /\ addr + size <= pool.endAddress

(* A pool that has no memory begins with a block at nullptr. *)
HandOut(pool, size) ==
  LET ptr == findAddressFromBlock(BlockToTake(pool), size, pool)
  IN  \/ /\ ptr # 0
         /\ ~InPool(pool, size, ptr)
         /\ End("strayed")
      \/ /\ ptr = 0 \/ InPool(pool, size, ptr)
         /\ m_PoolMap' = [m_PoolMap EXCEPT ![size] = BlockTaken(pool, size)]
         /\ live' = live \cup (IF ptr = 0 THEN {} ELSE {[size |-> size, addr |-> ptr]})
         /\ UNCHANGED <<m_initialPoolSize, ended>>

SM_alloc(size) ==
  /\ ended = "none"
  /\ \/ /\ size \in Pools
        /\ m_PoolMap[size].freeBlocks = 0
        /\ End("exhausted")
     \/ /\ size \in Pools
        /\ m_PoolMap[size].freeBlocks # 0
        /\ HandOut(m_PoolMap[size], size)
     \/ /\ size \notin Pools
        /\ size = 0
        /\ End("divided")
     \/ /\ size \notin Pools
        /\ size # 0
        /\ \E pool \in createNewPool(size) : HandOut(pool, size)

(* The pool of size with the block at addr again. *)
BlockReturned(pool, size, addr) ==
  [pool EXCEPT !.freeBlocks                 = (@ + 1) % UINT32,
               !.usedBlocks                 = (@ - 1) % UINT32,
               !.nextFreeBlock              = findBlockFromAddress(addr, size, pool),
               !.isFreedBlockBlockAvailable = TRUE,
               !.remainingSpace             = (@ + size) % UINT32]

(* The holder of b returns it; nullptr would be ignored.  The pool is      *)
(* looked up by the address alone; LiveBlocksAreFindable shows that it is  *)
(* always found.                                                           *)
SM_dealloc(b) ==
  /\ ended = "none"
  /\ \/ findPoolFromAddress(b.addr) = {} /\ End("no_pool")
     \/ \E s \in findPoolFromAddress(b.addr) :
          /\ m_PoolMap' = [m_PoolMap EXCEPT ![s] = BlockReturned(@, s, b.addr)]
          /\ live' = live \ {b}
          /\ UNCHANGED <<m_initialPoolSize, ended>>

-----------------------------------------------------------------------------
Init ==
  /\ m_initialPoolSize = 0
  /\ m_PoolMap = [s \in SizeId |-> NULL]
  /\ live = {}
  /\ ended = "none"

Next ==
  \/ initStorageManager
  \/ \E size \in SizeId : SM_alloc(size)
  \/ \E b \in live : SM_dealloc(b)

Spec == Init /\ [][Next]_vars

-----------------------------------------------------------------------------
(* Properties *)

Backed(s) == s \in Pools /\ m_PoolMap[s].startAddress # 0

(* No byte belongs to two callers, whatever order the blocks are freed in. *)
LiveBlocksDisjoint ==
  \A b, c \in live : b # c => b.addr + b.size <= c.addr \/ c.addr + c.size <= b.addr

(* The counters of a pool agree with what its clients hold: no block is    *)
(* handed out twice and none is counted twice (lines 170-173, 191-196).    *)
PoolAccounts ==
  \A s \in SizeId : Backed(s) =>
    LET pool == m_PoolMap[s]
        mine == Cardinality({b \in live : b.size = s})
    IN  /\ pool.usedBlocks = mine
        /\ pool.freeBlocks = pool.totalBlocks - mine
        /\ pool.remainingSpace = pool.freeBlocks * s

(* The search by address finds the pool a block came from, though it takes *)
(* the end address of a pool for its own (line 208), and its block number. *)
LiveBlocksAreFindable ==
  \A b \in live :
    /\ findPoolFromAddress(b.addr) = {b.size}
    /\ b.addr = findAddressFromBlock(
                  findBlockFromAddress(b.addr, b.size, m_PoolMap[b.size]),
                  b.size, m_PoolMap[b.size])

(* Neither the freed block that waits nor any block the sequence has not   *)
(* reached is in use.                                                      *)
NextBlocksAreFree ==
  \A b \in live :
    LET pool  == m_PoolMap[b.size]
        block == findBlockFromAddress(b.addr, b.size, pool)
    IN  /\ block < pool.nextFreeBlockInSequence
        /\ Waiting(pool) => block # pool.nextFreeBlock

(* Blocks of the pool that nobody holds and that it has no record of.      *)
LostBlocks(s) ==
  LET pool == m_PoolMap[s]
  IN  {k \in 0 .. pool.nextFreeBlockInSequence - 1 :
        /\ ~(Waiting(pool) /\ pool.nextFreeBlock = k)
        /\ \A b \in live : b # [size |-> s, addr |-> findAddressFromBlock(k, s, pool)]}

(* A client gets memory outside of the pool only if the manager was not    *)
(* initialised, if malloc gave the pool none, or if a free has overwritten *)
(* the one freed block that is remembered: never while a freed block waits *)
(* or the sequence has not ended.                                          *)
StraysOnlyAfterLoss ==
  [][\A s \in SizeId : SM_alloc(s) /\ ended' = "strayed" =>
       \/ m_initialPoolSize = 0
       \/ s \in Pools /\ ~Backed(s)
       \/ s \in Pools /\ ~Waiting(m_PoolMap[s]) /\ LostBlocks(s) # {}]_vars

(* The clients' view: blocks are handed out one owner at a time, and the   *)
(* abort of line 139 comes only when every block of the pool is in use.    *)
Promise == INSTANCE FixedPools WITH
             Size   <- SizeId,
             blocks <- [s \in SizeId |-> IF Backed(s) THEN m_PoolMap[s].totalBlocks ELSE 0],
             owned  <- {[size |-> b.size,
                         block |-> findBlockFromAddress(b.addr, b.size, m_PoolMap[b.size])] :
                           b \in live},
             full   <- ended = "exhausted"

ImplementsFixedPools == Promise!Spec

-----------------------------------------------------------------------------
(* What the sources say, and the code does not do *)

(* sm.cpp line 135, "Check if this pool has enough free blocks": a pool    *)
(* that counts a free block has one to hand out.                           *)
FreeBlockExists ==
  \A s \in SizeId :
    Backed(s) /\ m_PoolMap[s].freeBlocks # 0 =>
      BlockToTake(m_PoolMap[s]) < m_PoolMap[s].totalBlocks

=============================================================================
