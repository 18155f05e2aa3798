------------------------- MODULE StoragePools_proofs -------------------------
(***************************************************************************)
(* The storage manager of sm.cpp, for any sizes, any number of blocks and  *)
(* any addresses that malloc may return: blocks in use are disjoint, are   *)
(* counted, and are found again by their address; the manager implements   *)
(* FixedPools; and no request strays while a block could be found.         *)
(***************************************************************************)
EXTENDS StoragePools, FiniteSetTheorems, TLAPS

(* Pools are smaller than 4 GiB: findAddressFromBlock computes block * size *)
(* in 32 bits, and in larger pools two blocks would have one address.      *)
PoolsFitInUnsigned == \A s \in SizeId : s * POOL_SIZE < UINT32

-----------------------------------------------------------------------------
(* Arithmetic *)

(* The ranges of quotient and remainder.                                   *)
LEMMA DivMod ==
  ASSUME NEW a \in Int, NEW d \in Nat \ {0}
  PROVE  a % d \in 0 .. d - 1 /\ a \div d \in Int /\ (a >= 0 => a \div d \in Nat)
  OBVIOUS

(* A remainder is its own remainder.                                       *)
LEMMA SmallMod ==
  ASSUME NEW d \in Nat \ {0}, NEW a \in 0 .. d - 1
  PROVE  a % d = a
  OBVIOUS

(* A multiple divides without remainder.                                   *)
LEMMA MultipleDiv ==
  ASSUME NEW k \in Nat, NEW d \in Nat \ {0}
  PROVE  k * d \in Nat /\ (k * d) \div d = k /\ (d * k) \div d = k
  OBVIOUS

(* Blocks k and n of a pool of blocks of d bytes do not overlap.           *)
LEMMA BlocksApart ==
  ASSUME NEW k \in Nat, NEW n \in Nat, NEW d \in Nat, k < n
  PROVE  k * d + d <= n * d
<1>1. PICK m \in Nat : n = k + 1 + m
  <2>1. n - k - 1 \in Nat /\ n = k + 1 + (n - k - 1)
    OBVIOUS
  <2> QED
    BY <2>1
<1>2. n * d = k * d + d + m * d
  BY <1>1
<1>3. m * d >= 0
  OBVIOUS
<1>4. k * d \in Int /\ m * d \in Int /\ n * d \in Int
  OBVIOUS
<1> QED
  BY <1>2, <1>3, <1>4

-----------------------------------------------------------------------------
(* Types *)

(* What the addresses and the sizes are.                                   *)
LEMMA Addresses ==
  /\ \A a \in Heap \cup {0} : a \in Nat
  /\ \A s \in SizeId : s \in Nat
  /\ \A s \in InitialPools : s \in Nat \ {0} /\ s \in SizeId
  /\ UINT32 \in Nat \ {0}
  /\ HEADER \in Nat \ {0}
  /\ POOL_SIZE \in Nat
<1>1. Heap \subseteq Nat /\ SizeId \subseteq Nat /\ InitialPools \subseteq SizeId \ {0}
  BY PoolsAssumption
<1> QED
  BY <1>1, PoolsAssumption

(* A new pool of n blocks.                                                 *)
NewPoolData(start, bytes, n) ==
  [startAddress               |-> start,
   endAddress                 |-> start + bytes,
   totalBlocks                |-> n,
   freeBlocks                 |-> n % UINT32,
   usedBlocks                 |-> 0,
   remainingSpace             |-> bytes % UINT32,
   nextFreeBlockInSequence    |-> 0,
   nextFreeBlock              |-> -1,
   isFreedBlockBlockAvailable |-> FALSE]

(* initializePoolData makes a pool of n blocks of size bytes.              *)
LEMMA NewPool ==
  ASSUME NEW start \in Nat, NEW size \in Nat \ {0}, NEW n \in Nat
  PROVE  /\ initializePoolData(size * n, start, size) = NewPoolData(start, size * n, n)
         /\ NewPoolData(start, size * n, n) \in PoolData
<1> DEFINE bytes == size * n
<1>1. bytes \in Nat /\ bytes \div size = n
  BY MultipleDiv
<1>2. UINT32 \in Nat \ {0}
  BY PoolsAssumption
<1>3. bytes % UINT32 \in 0 .. UINT32 - 1 /\ n % UINT32 \in 0 .. UINT32 - 1
  <2>1. bytes \in Int /\ n \in Int
    BY <1>1
  <2> QED
    BY <1>2, <2>1, DivMod
<1>4. 0 \in 0 .. UINT32 - 1
  BY <1>2
<1> HIDE DEF bytes
<1>5. initializePoolData(bytes, start, size) = NewPoolData(start, bytes, n)
  BY <1>1 DEF initializePoolData, NewPoolData
<1>6. start + bytes \in Nat
  BY <1>1
<1>7. NewPoolData(start, bytes, n) \in PoolData
  BY <1>3, <1>4, <1>6 DEF PoolData, NewPoolData
<1> QED
  BY <1>5, <1>7 DEF bytes

(* The fields of a pool from which a block has been taken: the freed block *)
(* is gone, or the sequence has gone on.                                   *)
LEMMA TakenFields ==
  ASSUME NEW pool \in PoolData, NEW size \in Nat
  PROVE  LET new == BlockTaken(pool, size)
         IN  /\ new \in PoolData
             /\ new.startAddress = pool.startAddress
             /\ new.endAddress = pool.endAddress
             /\ new.totalBlocks = pool.totalBlocks
             /\ new.freeBlocks = (pool.freeBlocks - 1) % UINT32
             /\ new.usedBlocks = (pool.usedBlocks + 1) % UINT32
             /\ new.remainingSpace = (pool.remainingSpace - size) % UINT32
             /\ new.nextFreeBlockInSequence =
                  IF Waiting(pool) THEN pool.nextFreeBlockInSequence
                  ELSE pool.nextFreeBlockInSequence + 1
             /\ new.nextFreeBlock = (IF Waiting(pool) THEN -1 ELSE pool.nextFreeBlock)
             /\ ~Waiting(new)
             /\ BlockToTake(pool) \in Nat
<1> DEFINE free      == (pool.freeBlocks - 1) % UINT32
           used      == (pool.usedBlocks + 1) % UINT32
           remaining == (pool.remainingSpace - size) % UINT32
<1>1. free \in 0 .. UINT32 - 1 /\ used \in 0 .. UINT32 - 1 /\ remaining \in 0 .. UINT32 - 1
  <2>1. /\ pool.freeBlocks - 1 \in Int /\ pool.usedBlocks + 1 \in Int
        /\ pool.remainingSpace - size \in Int
    BY PoolsAssumption DEF PoolData
  <2> QED
    BY <2>1, DivMod, PoolsAssumption
<1> HIDE DEF free, used, remaining
<1>2. CASE Waiting(pool)
  <2>1. BlockTaken(pool, size) =
          [pool EXCEPT !.freeBlocks = free, !.usedBlocks = used, !.remainingSpace = remaining,
                       !.isFreedBlockBlockAvailable = FALSE, !.nextFreeBlock = -1]
    BY <1>2 DEF BlockTaken, free, used, remaining, PoolData
  <2> DEFINE new == BlockTaken(pool, size)
  <2>2. new \in PoolData
    BY <1>1, <2>1 DEF PoolData
  <2>3. /\ new.startAddress = pool.startAddress /\ new.endAddress = pool.endAddress
        /\ new.totalBlocks = pool.totalBlocks
        /\ new.freeBlocks = free /\ new.usedBlocks = used /\ new.remainingSpace = remaining
        /\ new.nextFreeBlockInSequence = pool.nextFreeBlockInSequence
        /\ new.nextFreeBlock = -1 /\ new.isFreedBlockBlockAvailable = FALSE
    BY <2>1 DEF PoolData
  <2>4. ~Waiting(new)
    BY <1>2, <2>3 DEF Waiting
  <2>5. BlockToTake(pool) \in Nat
    BY <1>2 DEF BlockToTake, Waiting, PoolData
  <2> QED
    BY <1>2, <2>2, <2>3, <2>4, <2>5 DEF free, used, remaining
<1>3. CASE ~Waiting(pool)
  <2>1. BlockTaken(pool, size) =
          [pool EXCEPT !.freeBlocks = free, !.usedBlocks = used, !.remainingSpace = remaining,
                       !.nextFreeBlockInSequence = pool.nextFreeBlockInSequence + 1]
    BY <1>3 DEF BlockTaken, free, used, remaining, PoolData
  <2> DEFINE new == BlockTaken(pool, size)
  <2>0. pool.nextFreeBlockInSequence + 1 \in Nat
    BY DEF PoolData
  <2>2. new \in PoolData
    BY <1>1, <2>0, <2>1 DEF PoolData
  <2>3. /\ new.startAddress = pool.startAddress /\ new.endAddress = pool.endAddress
        /\ new.totalBlocks = pool.totalBlocks
        /\ new.freeBlocks = free /\ new.usedBlocks = used /\ new.remainingSpace = remaining
        /\ new.nextFreeBlockInSequence = pool.nextFreeBlockInSequence + 1
        /\ new.nextFreeBlock = pool.nextFreeBlock
        /\ new.isFreedBlockBlockAvailable = pool.isFreedBlockBlockAvailable
    BY <2>1 DEF PoolData
  <2>4. ~Waiting(new)
    BY <1>3, <2>3 DEF Waiting
  <2>5. BlockToTake(pool) \in Nat
    BY <1>3 DEF BlockToTake, Waiting, PoolData
  <2> QED
    BY <1>3, <2>2, <2>3, <2>4, <2>5 DEF free, used, remaining
<1> QED
  BY <1>2, <1>3

(* The fields of a pool to which the block at addr has been returned.      *)
LEMMA ReturnedFields ==
  ASSUME NEW pool \in PoolData, NEW size \in Nat \ {0}, NEW addr \in Nat,
         pool.startAddress <= addr
  PROVE  LET new   == BlockReturned(pool, size, addr)
             block == findBlockFromAddress(addr, size, pool)
         IN  /\ new \in PoolData
             /\ new.startAddress = pool.startAddress
             /\ new.endAddress = pool.endAddress
             /\ new.totalBlocks = pool.totalBlocks
             /\ new.freeBlocks = (pool.freeBlocks + 1) % UINT32
             /\ new.usedBlocks = (pool.usedBlocks - 1) % UINT32
             /\ new.remainingSpace = (pool.remainingSpace + size) % UINT32
             /\ new.nextFreeBlockInSequence = pool.nextFreeBlockInSequence
             /\ new.nextFreeBlock = block
             /\ block \in Nat
             /\ Waiting(new)
<1> DEFINE free      == (pool.freeBlocks + 1) % UINT32
           used      == (pool.usedBlocks - 1) % UINT32
           remaining == (pool.remainingSpace + size) % UINT32
           block     == findBlockFromAddress(addr, size, pool)
<1>1. free \in 0 .. UINT32 - 1 /\ used \in 0 .. UINT32 - 1 /\ remaining \in 0 .. UINT32 - 1
  <2>1. /\ pool.freeBlocks + 1 \in Int /\ pool.usedBlocks - 1 \in Int
        /\ pool.remainingSpace + size \in Int
    BY PoolsAssumption DEF PoolData
  <2> QED
    BY <2>1, DivMod, PoolsAssumption
<1>2. block \in Nat
  <2>1. addr - pool.startAddress \in Int /\ addr - pool.startAddress >= 0
    BY DEF PoolData
  <2> QED
    BY <2>1, DivMod DEF findBlockFromAddress
<1> HIDE DEF free, used, remaining, block
<1>3. BlockReturned(pool, size, addr) =
        [pool EXCEPT !.freeBlocks = free, !.usedBlocks = used, !.nextFreeBlock = block,
                     !.isFreedBlockBlockAvailable = TRUE, !.remainingSpace = remaining]
  BY DEF BlockReturned, free, used, remaining, block, PoolData
<1> DEFINE new == BlockReturned(pool, size, addr)
<1>4. new \in PoolData
  BY <1>1, <1>2, <1>3 DEF PoolData
<1>5. /\ new.startAddress = pool.startAddress /\ new.endAddress = pool.endAddress
      /\ new.totalBlocks = pool.totalBlocks
      /\ new.freeBlocks = free /\ new.usedBlocks = used /\ new.remainingSpace = remaining
      /\ new.nextFreeBlockInSequence = pool.nextFreeBlockInSequence
      /\ new.nextFreeBlock = block /\ new.isFreedBlockBlockAvailable = TRUE
  BY <1>3 DEF PoolData
<1>6. Waiting(new)
  BY <1>2, <1>5 DEF Waiting
<1> QED
  BY <1>2, <1>4, <1>5, <1>6 DEF free, used, remaining, block

-----------------------------------------------------------------------------
(* No block has size 0: a request of size 0 divides by it before its pool  *)
(* is entered in the map.                                                  *)
TInv == TypeOK /\ 0 \notin Pools

(* The blocks of size s that clients hold.                                 *)
Held(s) == {b \in live : b.size = s}

(* pool, as the pool of the blocks of size s, fits the rest of the state:  *)
(* it has its memory to itself, or has none; what clients hold of it are   *)
(* blocks the sequence has passed, and not the freed block that waits; and *)
(* its counters count them.                                                *)
Fits(s, pool) ==
  /\ pool \in PoolData
  /\ s # 0
  /\ pool.startAddress = 0 => pool.endAddress <= s * POOL_SIZE
  /\ pool.startAddress # 0 =>
       /\ pool.startAddress \in Heap
       /\ pool.endAddress = pool.startAddress + s * POOL_SIZE
       /\ pool.totalBlocks = POOL_SIZE
       /\ pool.nextFreeBlockInSequence <= POOL_SIZE
       /\ Waiting(pool) => pool.nextFreeBlock < pool.nextFreeBlockInSequence
       /\ pool.usedBlocks = Cardinality(Held(s))
       /\ pool.freeBlocks = POOL_SIZE - Cardinality(Held(s))
       /\ pool.remainingSpace = pool.freeBlocks * s
       /\ m_initialPoolSize = 0 => s \in InitialPools /\ POOL_SIZE = 0
       /\ \A t \in SizeId \ {s} : Backed(t) =>
            Apart(pool.startAddress, s * POOL_SIZE, m_PoolMap[t].startAddress, t * POOL_SIZE)
  /\ \A b \in Held(s) :
       /\ pool.startAddress # 0
       /\ \E k \in 0 .. pool.nextFreeBlockInSequence - 1 :
            /\ b.addr = pool.startAddress + k * s
            /\ Waiting(pool) => k # pool.nextFreeBlock

(* The inductive invariant.                                                *)
PInv ==
  /\ TInv
  /\ \A b \in live : b.size \in Pools
  /\ \A s \in Pools : Fits(s, m_PoolMap[s])

-----------------------------------------------------------------------------
(* The pools after the pool of s has become new.                           *)
LEMMA PoolsAfter ==
  ASSUME TypeOK, NEW s \in SizeId, NEW new \in PoolData,
         m_PoolMap' = [m_PoolMap EXCEPT ![s] = new]
  PROVE  /\ Pools' = Pools \cup {s}
         /\ m_PoolMap'[s] = new
         /\ m_PoolMap' \in [SizeId -> PoolData \cup {NULL}]
         /\ \A t \in SizeId \ {s} : /\ m_PoolMap'[t] = m_PoolMap[t]
                                    /\ Backed(t)' <=> Backed(t)
<1>1. m_PoolMap \in [SizeId -> PoolData \cup {NULL}]
  BY DEF TypeOK
<1>2. /\ m_PoolMap'[s] = new /\ m_PoolMap' \in [SizeId -> PoolData \cup {NULL}]
      /\ \A t \in SizeId \ {s} : m_PoolMap'[t] = m_PoolMap[t]
  BY <1>1
<1>3. Pools' = Pools \cup {s}
  BY <1>2, NullIsNoPool DEF Pools
<1> QED
  BY <1>2, <1>3 DEF Backed

(* Pools of positive size keep their types.                                *)
LEMMA SM_allocKeepsTInv ==
  ASSUME TInv, NEW size \in SizeId, SM_alloc(size)
  PROVE  TInv'
<1> USE DEF TInv
<1>0. size \in Nat
  BY PoolsAssumption
<1>1. \A pool \in PoolData : size # 0 /\ HandOut(pool, size) => TInv'
  <2> SUFFICES ASSUME NEW pool \in PoolData, size # 0, HandOut(pool, size) PROVE TInv'
    OBVIOUS
  <2> DEFINE ptr == findAddressFromBlock(BlockToTake(pool), size, pool)
  <2>1. CASE End("strayed")
    BY <2>1 DEF End, TypeOK, Endings, Pools
  <2>2. CASE /\ m_PoolMap' = [m_PoolMap EXCEPT ![size] = BlockTaken(pool, size)]
             /\ live' = live \cup (IF ptr = 0 THEN {} ELSE {[size |-> size, addr |-> ptr]})
             /\ UNCHANGED <<m_initialPoolSize, ended>>
    <3>1. BlockTaken(pool, size) \in PoolData
      BY <1>0, TakenFields
    <3>2. Pools' = Pools \cup {size} /\ m_PoolMap' \in [SizeId -> PoolData \cup {NULL}]
      BY <2>2, <3>1, PoolsAfter
    <3>3. ptr \in Nat
      <4>0. PICK block \in Nat : block = BlockToTake(pool)
        BY <1>0, TakenFields
      <4>1. block * size \in Int
        BY <1>0
      <4>2. (block * size) % UINT32 \in 0 .. UINT32 - 1
        BY <4>1, DivMod, PoolsAssumption
      <4> QED
        BY <4>0, <4>2, PoolsAssumption DEF findAddressFromBlock, PoolData
    <3>4. live' \subseteq [size : SizeId, addr : Nat]
      BY <2>2, <3>3 DEF TypeOK
    <3> QED
      BY <2>2, <3>2, <3>4 DEF TypeOK
  <2> QED
    BY <2>1, <2>2 DEF HandOut
<1>2. CASE size \in Pools /\ m_PoolMap[size].freeBlocks # 0 /\ HandOut(m_PoolMap[size], size)
  BY <1>1, <1>2 DEF Pools, TypeOK
<1>3. CASE size # 0 /\ \E pool \in createNewPool(size) : HandOut(pool, size)
  <2>1. m_initialPoolSize \in Nat
    BY PoolsAssumption DEF TypeOK
  <2>2. malloc(size * m_initialPoolSize) \subseteq Heap \cup {0}
    BY DEF malloc
  <2>3. \A start \in malloc(size * m_initialPoolSize) :
          initializePoolData(size * m_initialPoolSize, start, size) \in PoolData
    <3>1. \A start \in malloc(size * m_initialPoolSize) : start \in Nat
      BY <2>2, Addresses
    <3>2. size \in Nat \ {0}
      BY <1>0, <1>3
    <3> QED
      BY <2>1, <3>1, <3>2, NewPool
  <2>4. createNewPool(size) \subseteq PoolData
    BY <2>3 DEF createNewPool
  <2> QED
    BY <1>1, <1>3, <2>4
<1>4. CASE End("exhausted") \/ End("divided")
  BY <1>4 DEF End, TypeOK, Endings, Pools
<1> QED
  BY <1>2, <1>3, <1>4 DEF SM_alloc

(* A block that is freed, in a pool or outside of all.                     *)
LEMMA SM_deallocKeepsTInv ==
  ASSUME TInv, NEW b \in live, SM_dealloc(b)
  PROVE  TInv'
<1> USE DEF TInv
<1>1. CASE End("no_pool")
  BY <1>1 DEF End, TypeOK, Endings, Pools
<1>2. ASSUME NEW s \in findPoolFromAddress(b.addr),
             /\ m_PoolMap' = [m_PoolMap EXCEPT ![s] = BlockReturned(m_PoolMap[s], s, b.addr)]
             /\ live' = live \ {b}
             /\ UNCHANGED <<m_initialPoolSize, ended>>
      PROVE  TInv'
  <2>1. s \in Pools /\ s \in SizeId /\ m_PoolMap[s].startAddress <= b.addr /\ m_PoolMap[s] \in PoolData
    BY DEF findPoolFromAddress, Pools, TypeOK
  <2>2. s \in Nat \ {0} /\ b.addr \in Nat
    BY <2>1, PoolsAssumption DEF TypeOK
  <2>3. BlockReturned(m_PoolMap[s], s, b.addr) \in PoolData
    BY <2>1, <2>2, ReturnedFields
  <2>4. Pools' = Pools \cup {s} /\ m_PoolMap' \in [SizeId -> PoolData \cup {NULL}]
    BY <1>2, <2>1, <2>3, PoolsAfter
  <2> QED
    BY <1>2, <2>1, <2>4 DEF TypeOK
<1> QED
  BY <1>1, <1>2 DEF SM_dealloc

(* The pools of the initialisation.                                        *)
LEMMA initStorageManagerKeepsTInv ==
  ASSUME TInv, initStorageManager
  PROVE  TInv'
<1> USE DEF TInv
<1>1. PICK start \in [InitialPools -> Heap \cup {0}] :
        m_PoolMap' = [s \in SizeId |->
          IF s \in InitialPools THEN initializePoolData(s * POOL_SIZE, start[s], s)
          ELSE m_PoolMap[s]]
  BY DEF initStorageManager
<1>2. \A s \in InitialPools : /\ s \in Nat \ {0} /\ start[s] \in Nat /\ s \in SizeId
                              /\ initializePoolData(s * POOL_SIZE, start[s], s) \in PoolData
  <2>0. \A s \in InitialPools : start[s] \in Heap \cup {0}
    OBVIOUS
  <2>1. \A s \in InitialPools : s \in Nat \ {0} /\ start[s] \in Nat /\ s \in SizeId
    BY <2>0, Addresses
  <2>2. \A s \in InitialPools : initializePoolData(s * POOL_SIZE, start[s], s) \in PoolData
    <3> SUFFICES ASSUME NEW s \in InitialPools
                 PROVE  initializePoolData(s * POOL_SIZE, start[s], s) \in PoolData
      OBVIOUS
    <3>1. PICK a \in Nat : a = start[s]
      BY <2>1
    <3>2. s \in Nat \ {0} /\ POOL_SIZE \in Nat
      BY <2>1, Addresses
    <3>3. initializePoolData(s * POOL_SIZE, a, s) \in PoolData
      BY <3>2, NewPool
    <3> QED
      BY <3>1, <3>3
  <2> QED
    BY <2>1, <2>2
<1>3. m_PoolMap' \in [SizeId -> PoolData \cup {NULL}]
  BY <1>1, <1>2 DEF TypeOK
<1>4. 0 \notin InitialPools
  BY <1>2
<1>5. 0 \notin Pools'
  BY <1>1, <1>4 DEF Pools
<1> QED
  BY <1>3, <1>5 DEF initStorageManager, TypeOK

(* What the storage manager keeps has its types: its counters stay within  *)
(* 32 bits, and no pool has blocks of size 0.                              *)
THEOREM TypeCorrect == Spec => []TypeOK
<1>1. Init => TInv
  BY PoolsAssumption DEF Init, TInv, TypeOK, Pools, Endings
<1>2. TInv /\ [Next]_vars => TInv'
  <2> SUFFICES ASSUME TInv, [Next]_vars PROVE TInv'
    OBVIOUS
  <2>1. CASE UNCHANGED vars
    BY <2>1 DEF vars, TInv, TypeOK, Pools
  <2>2. CASE Next
    BY <2>2, initStorageManagerKeepsTInv, SM_allocKeepsTInv, SM_deallocKeepsTInv DEF Next
  <2> QED
    BY <2>1, <2>2
<1>3. TInv => TypeOK
  BY DEF TInv
<1> QED
  BY <1>1, <1>2, <1>3, PTL DEF Spec

-----------------------------------------------------------------------------
(* The blocks of a pool *)

(* Memory of blocks of size s from start on, as clients hold it.           *)
BlocksFrom(start, s) == {[size |-> s, addr |-> start + k * s] : k \in 0 .. POOL_SIZE - 1}

(* A pool of POOL_SIZE blocks has room for as many holders.                *)
LEMMA CountBlocks ==
  ASSUME NEW start \in Nat, NEW s \in Nat \ {0}
  PROVE  /\ IsFiniteSet(BlocksFrom(start, s))
         /\ Cardinality(BlocksFrom(start, s)) = POOL_SIZE
<1> DEFINE K == 0 .. POOL_SIZE - 1
           f == [k \in K |-> [size |-> s, addr |-> start + k * s]]
<1>1. IsFiniteSet(K) /\ Cardinality(K) = POOL_SIZE
  BY FS_Interval, Addresses
<1>2. f \in Surjection(K, BlocksFrom(start, s))
  BY DEF Surjection, BlocksFrom
<1>3. \A k, n \in K : f[k] = f[n] => k = n
  <2> SUFFICES ASSUME NEW k \in K, NEW n \in K, f[k] = f[n] PROVE k = n
    OBVIOUS
  <2>1. k * s \in Nat /\ n * s \in Nat /\ (k * s) \div s = k /\ (n * s) \div s = n
    BY MultipleDiv
  <2>2. start + k * s = start + n * s
    <3>1. f[k].addr = f[n].addr
      OBVIOUS
    <3> QED
      BY <3>1
  <2> QED
    BY <2>1, <2>2
<1>4. f \in Injection(K, BlocksFrom(start, s))
  BY <1>2, <1>3 DEF Injection, Surjection, IsInjective
<1> QED
  BY <1>1, <1>2, <1>4, FS_Surjection

(* What clients hold of a pool are blocks of it.                           *)
LEMMA HeldAreBlocks ==
  ASSUME TypeOK, NEW s \in SizeId, NEW pool, Fits(s, pool), pool.startAddress # 0
  PROVE  /\ Held(s) \subseteq BlocksFrom(pool.startAddress, s)
         /\ IsFiniteSet(Held(s))
         /\ Cardinality(Held(s)) \in 0 .. POOL_SIZE
         /\ Cardinality(Held(s)) = POOL_SIZE => Held(s) = BlocksFrom(pool.startAddress, s)
<1>1. s \in Nat \ {0} /\ pool.startAddress \in Nat
  BY Addresses DEF Fits
<1>2. Held(s) \subseteq BlocksFrom(pool.startAddress, s)
  <2> SUFFICES ASSUME NEW b \in Held(s) PROVE b \in BlocksFrom(pool.startAddress, s)
    OBVIOUS
  <2>1. pool.nextFreeBlockInSequence \in Nat /\ pool.nextFreeBlockInSequence <= POOL_SIZE
    BY DEF Fits, PoolData
  <2>2. PICK k \in 0 .. pool.nextFreeBlockInSequence - 1 : b.addr = pool.startAddress + k * s
    BY DEF Fits
  <2>3. k \in 0 .. POOL_SIZE - 1
    BY <2>1, Addresses
  <2>4. b = [size |-> s, addr |-> pool.startAddress + k * s]
    BY <2>2 DEF Held, TypeOK
  <2> QED
    BY <2>3, <2>4 DEF BlocksFrom
<1>3. /\ IsFiniteSet(BlocksFrom(pool.startAddress, s))
      /\ Cardinality(BlocksFrom(pool.startAddress, s)) = POOL_SIZE
  BY <1>1, CountBlocks
<1>4. /\ IsFiniteSet(Held(s))
      /\ Cardinality(Held(s)) <= POOL_SIZE
      /\ Cardinality(Held(s)) = POOL_SIZE => Held(s) = BlocksFrom(pool.startAddress, s)
  BY <1>2, <1>3, FS_Subset
<1>5. Cardinality(Held(s)) \in Nat
  BY <1>4, FS_CardinalityType
<1> QED
  BY <1>2, <1>4, <1>5, Addresses

(* In a pool below 4 GiB the address of a block is the sum it stands for,  *)
(* up to the end of the pool, and its block number is found again.         *)
LEMMA BlockAddress ==
  ASSUME PoolsFitInUnsigned, NEW s \in SizeId, s # 0,
         NEW pool, pool.startAddress \in Nat,
         NEW k \in 0 .. POOL_SIZE
  PROVE  /\ k * s \in 0 .. s * POOL_SIZE
         /\ findAddressFromBlock(k, s, pool) = pool.startAddress + k * s
         /\ findBlockFromAddress(pool.startAddress + k * s, s, pool) = k
<1>1. s \in Nat \ {0} /\ POOL_SIZE \in Nat /\ UINT32 \in Nat \ {0}
  BY Addresses
<1>2. k * s \in Nat /\ (k * s) \div s = k /\ s * POOL_SIZE \in Nat
  BY <1>1, MultipleDiv
<1>3. k * s <= s * POOL_SIZE
  <2>1. k = POOL_SIZE \/ k < POOL_SIZE
    BY <1>1
  <2>2. k < POOL_SIZE => k * s + s <= POOL_SIZE * s
    BY <1>1, BlocksApart
  <2>3. POOL_SIZE * s = s * POOL_SIZE
    BY <1>1
  <2> QED
    BY <1>1, <1>2, <2>1, <2>2, <2>3
<1>4. s * POOL_SIZE < UINT32
  BY DEF PoolsFitInUnsigned
<1>5. (k * s) % UINT32 = k * s
  <2>1. k * s \in 0 .. UINT32 - 1
    BY <1>1, <1>2, <1>3, <1>4
  <2> QED
    BY <1>1, <2>1, SmallMod
<1>6. (pool.startAddress + k * s) - pool.startAddress = k * s
  BY <1>2
<1> QED
  BY <1>2, <1>3, <1>5, <1>6 DEF findAddressFromBlock, findBlockFromAddress

(* The block a pool hands out next is within its end, or just behind it,   *)
(* and nobody holds it.                                                    *)
LEMMA NextBlock ==
  ASSUME PoolsFitInUnsigned, TypeOK, NEW s \in SizeId, NEW pool, Fits(s, pool),
         pool.startAddress # 0
  PROVE  LET k   == BlockToTake(pool)
             ptr == findAddressFromBlock(k, s, pool)
         IN  /\ k \in 0 .. POOL_SIZE
             /\ ptr = pool.startAddress + k * s
             /\ ptr # 0
             /\ InPool(pool, s, ptr) <=> k < POOL_SIZE
             /\ ~Waiting(pool) => k = pool.nextFreeBlockInSequence
             /\ k = POOL_SIZE => ~Waiting(pool)
             /\ [size |-> s, addr |-> ptr] \notin live
<1> DEFINE k   == BlockToTake(pool)
           ptr == findAddressFromBlock(k, s, pool)
<1>1. s \in Nat \ {0} /\ pool.startAddress \in Nat /\ POOL_SIZE \in Nat
  BY Addresses DEF Fits
<1>2. /\ pool.nextFreeBlockInSequence \in 0 .. POOL_SIZE
      /\ Waiting(pool) => pool.nextFreeBlock \in 0 .. pool.nextFreeBlockInSequence - 1
      /\ pool.endAddress = pool.startAddress + s * POOL_SIZE
  BY <1>1 DEF Fits, PoolData, Waiting
<1>3. k \in 0 .. POOL_SIZE /\ (k = POOL_SIZE => ~Waiting(pool))
  BY <1>1, <1>2 DEF BlockToTake
<1>4. ~Waiting(pool) => k = pool.nextFreeBlockInSequence
  BY DEF BlockToTake
<1> HIDE DEF k
<1>5. k * s \in 0 .. s * POOL_SIZE /\ ptr = pool.startAddress + k * s
  BY <1>1, <1>3, BlockAddress
<1>6. ptr # 0
  BY <1>1, <1>5
<1>7. InPool(pool, s, ptr) <=> k < POOL_SIZE
  <2>1. k < POOL_SIZE => k * s + s <= POOL_SIZE * s
    BY <1>1, <1>3, BlocksApart
  <2>2. POOL_SIZE * s = s * POOL_SIZE /\ s * POOL_SIZE \in Nat
    BY <1>1
  <2>3. k = POOL_SIZE => k * s = s * POOL_SIZE
    BY <1>1
  <2> QED
    BY <1>1, <1>2, <1>3, <1>5, <2>1, <2>2, <2>3 DEF InPool
<1>8. [size |-> s, addr |-> ptr] \notin live
  <2> SUFFICES ASSUME [size |-> s, addr |-> ptr] \in live PROVE FALSE
    OBVIOUS
  <2>1. [size |-> s, addr |-> ptr] \in Held(s)
    BY DEF Held
  <2>2. PICK n \in 0 .. pool.nextFreeBlockInSequence - 1 :
          ptr = pool.startAddress + n * s /\ (Waiting(pool) => n # pool.nextFreeBlock)
    BY <2>1 DEF Fits
  <2>3. n \in Nat /\ k \in Nat
    BY <1>2, <1>3
  <2>4. /\ n * s \in Nat /\ k * s \in Nat
        /\ (n * s) \div s = n /\ (k * s) \div s = k
    BY <1>1, <2>3, MultipleDiv
  <2>5. n * s = k * s
    BY <1>1, <1>5, <2>2, <2>4
  <2>6. n = k
    BY <2>4, <2>5
  <2>7. CASE Waiting(pool)
    BY <2>2, <2>6, <2>7 DEF k, BlockToTake
  <2>8. CASE ~Waiting(pool)
    BY <1>2, <1>4, <2>6, <2>8
  <2> QED
    BY <2>7, <2>8
<1> QED
  BY <1>3, <1>4, <1>5, <1>6, <1>7, <1>8 DEF k

-----------------------------------------------------------------------------
(* The inductive invariant is kept *)

(* A pool that stays and of which clients hold the same goes on to fit,    *)
(* when another pool changes and stays where it is.                        *)
LEMMA OthersFit ==
  ASSUME PInv, NEW s \in SizeId, NEW pool, Fits(s, pool), NEW new \in PoolData,
         new.startAddress = pool.startAddress,
         m_PoolMap' = [m_PoolMap EXCEPT ![s] = new],
         UNCHANGED m_initialPoolSize,
         NEW t \in Pools \ {s}, Held(t)' = Held(t)
  PROVE  Fits(t, m_PoolMap[t])'
<1>1. /\ m_PoolMap'[s] = new /\ m_PoolMap'[t] = m_PoolMap[t]
      /\ \A u \in SizeId \ {s} : m_PoolMap'[u] = m_PoolMap[u] /\ (Backed(u)' <=> Backed(u))
      /\ t \in SizeId /\ t # s
  BY PoolsAfter DEF PInv, TInv, Pools
<1>2. Fits(t, m_PoolMap[t])
  BY DEF PInv
<1>3. m_PoolMap[t].startAddress # 0 => Backed(t)
  BY DEF Backed
<1>4. ASSUME m_PoolMap[t].startAddress # 0, NEW u \in SizeId \ {t}, Backed(u)'
      PROVE  Apart(m_PoolMap[t].startAddress, t * POOL_SIZE, m_PoolMap'[u].startAddress,
                   u * POOL_SIZE)
  <2>1. CASE u = s
    <3>1. m_PoolMap'[u].startAddress = pool.startAddress /\ pool.startAddress # 0
      BY <1>1, <1>4, <2>1 DEF Backed
    <3>2. Apart(pool.startAddress, s * POOL_SIZE, m_PoolMap[t].startAddress, t * POOL_SIZE)
      BY <1>1, <1>3, <1>4, <3>1 DEF Fits
    <3> QED
      BY <2>1, <3>1, <3>2 DEF Apart
  <2>2. CASE u # s
    BY <1>1, <1>2, <1>4, <2>2 DEF Fits
  <2> QED
    BY <2>1, <2>2
<1> QED
  BY <1>1, <1>2, <1>4 DEF Fits

(* When the program stops, it leaves everything as it is.                  *)
LEMMA PInvStays ==
  ASSUME PInv, UNCHANGED <<m_initialPoolSize, m_PoolMap, live>>, TInv'
  PROVE  PInv'
<1>1. /\ Pools' = Pools
      /\ \A s : Held(s)' = Held(s) /\ (Backed(s)' <=> Backed(s))
  BY DEF Pools, Held, Backed
<1>2. ASSUME NEW s \in Pools PROVE Fits(s, m_PoolMap[s])'
  <2>1. Fits(s, m_PoolMap[s])
    BY DEF PInv
  <2> QED
    BY <1>1, <2>1 DEF Fits
<1> QED
  BY <1>1, <1>2 DEF PInv

(* Handing out a block of a pool that fits, perhaps of a new one.          *)
LEMMA HandOutKeepsPInv ==
  ASSUME PoolsFitInUnsigned, PInv, NEW s \in SizeId, NEW pool, Fits(s, pool),
         s \in Pools => pool = m_PoolMap[s],
         HandOut(pool, s), TInv'
  PROVE  PInv'
<1> USE DEF PInv, TInv
<1> DEFINE k   == BlockToTake(pool)
           ptr == findAddressFromBlock(k, s, pool)
           new == BlockTaken(pool, s)
<1>1. CASE End("strayed")
  BY <1>1, PInvStays DEF End
<1>2. CASE /\ ptr = 0 \/ InPool(pool, s, ptr)
           /\ m_PoolMap' = [m_PoolMap EXCEPT ![s] = new]
           /\ live' = live \cup (IF ptr = 0 THEN {} ELSE {[size |-> s, addr |-> ptr]})
           /\ UNCHANGED <<m_initialPoolSize, ended>>
  <2>1. pool \in PoolData /\ s \in Nat \ {0}
    BY Addresses DEF Fits
  <2> HIDE DEF new, ptr, k
  <2>2. /\ new \in PoolData
        /\ new.startAddress = pool.startAddress
        /\ new.endAddress = pool.endAddress
        /\ new.totalBlocks = pool.totalBlocks
        /\ new.freeBlocks = (pool.freeBlocks - 1) % UINT32
        /\ new.usedBlocks = (pool.usedBlocks + 1) % UINT32
        /\ new.remainingSpace = (pool.remainingSpace - s) % UINT32
        /\ new.nextFreeBlockInSequence = IF Waiting(pool) THEN pool.nextFreeBlockInSequence
                                         ELSE pool.nextFreeBlockInSequence + 1
        /\ ~Waiting(new)
    BY <2>1, TakenFields DEF new
  <2>3. /\ Pools' = Pools \cup {s} /\ m_PoolMap'[s] = new
        /\ \A t \in SizeId \ {s} : /\ m_PoolMap'[t] = m_PoolMap[t]
                                   /\ Backed(t)' <=> Backed(t)
    BY <1>2, <2>2, PoolsAfter
  <2>4. \A t \in SizeId \ {s} : Held(t)' = Held(t)
    BY <1>2 DEF Held
  <2>5. \A t \in Pools \ {s} : Fits(t, m_PoolMap[t])'
    BY <1>2, <2>2, <2>4, OthersFit DEF Pools
  <2>6. \A b \in live' : b.size \in Pools'
    BY <1>2, <2>3
  <2>7. CASE pool.startAddress = 0
    <3>1. ptr = 0
      BY <1>2, <2>7 DEF InPool
    <3>2. Held(s)' = Held(s) /\ Held(s) = {}
      BY <1>2, <2>7, <3>1 DEF Held, Fits
    <3>3. Fits(s, new)'
      BY <2>2, <2>7, <3>2 DEF Fits
    <3> QED
      BY <2>3, <2>5, <2>6, <3>3
  <2>8. CASE pool.startAddress # 0
    <3> DEFINE b == [size |-> s, addr |-> ptr]
    <3>1. /\ k \in 0 .. POOL_SIZE /\ ptr # 0 /\ ptr = pool.startAddress + k * s
          /\ (InPool(pool, s, ptr) <=> k < POOL_SIZE)
          /\ (~Waiting(pool) => k = pool.nextFreeBlockInSequence)
          /\ b \notin live
      BY <2>8, NextBlock DEF k, ptr
    <3>2. k \in 0 .. POOL_SIZE - 1
      BY <1>2, <3>1, Addresses
    <3>3. Held(s)' = Held(s) \cup {b} /\ b \notin Held(s)
      BY <1>2, <3>1 DEF Held
    <3>4. IsFiniteSet(Held(s)) /\ Cardinality(Held(s)) \in 0 .. POOL_SIZE
      BY <2>8, HeldAreBlocks
    <3>5. Cardinality(Held(s)') = Cardinality(Held(s)) + 1
      BY <3>3, <3>4, FS_AddElement
    <3>6. Cardinality(Held(s)') <= POOL_SIZE
      <4>1. /\ IsFiniteSet(BlocksFrom(pool.startAddress, s))
            /\ Cardinality(BlocksFrom(pool.startAddress, s)) = POOL_SIZE
        BY <2>1, CountBlocks, Addresses DEF PoolData
      <4>2. Held(s)' \subseteq BlocksFrom(pool.startAddress, s)
        <5>1. Held(s) \subseteq BlocksFrom(pool.startAddress, s)
          BY <2>8, HeldAreBlocks
        <5>2. b \in BlocksFrom(pool.startAddress, s)
          BY <3>1, <3>2 DEF BlocksFrom
        <5> QED
          BY <3>3, <5>1, <5>2
      <4> QED
        BY <4>1, <4>2, FS_Subset
    <3>7. /\ new.usedBlocks = Cardinality(Held(s)')
          /\ new.freeBlocks = POOL_SIZE - Cardinality(Held(s)')
          /\ new.remainingSpace = new.freeBlocks * s
      <4> DEFINE n == Cardinality(Held(s))
      <4>1. n \in 0 .. POOL_SIZE - 1 /\ POOL_SIZE \in Nat /\ UINT32 \in Nat \ {0}
        BY <3>4, <3>5, <3>6, Addresses
      <4>2. /\ pool.usedBlocks = n /\ pool.freeBlocks = POOL_SIZE - n
            /\ pool.remainingSpace = (POOL_SIZE - n) * s
        BY <2>8 DEF Fits
      <4> HIDE DEF n
      <4>3. POOL_SIZE * s < UINT32
        BY <2>1, <4>1 DEF PoolsFitInUnsigned
      <4>4. POOL_SIZE < UINT32
        <5>1. POOL_SIZE <= POOL_SIZE * s
          BY <2>1, <4>1
        <5> QED
          BY <2>1, <4>1, <4>3, <5>1
      <4>5. /\ (POOL_SIZE - n) * s - s = (POOL_SIZE - n - 1) * s
            /\ (POOL_SIZE - n - 1) * s \in 0 .. POOL_SIZE * s
        <5>1. POOL_SIZE - n - 1 \in 0 .. POOL_SIZE
          BY <4>1
        <5>2. \A m \in 0 .. POOL_SIZE : m * s \in 0 .. s * POOL_SIZE
          BY <2>1, BlockAddress DEF PoolData
        <5> QED
          BY <2>1, <4>1, <5>1, <5>2
      <4>6. /\ (POOL_SIZE - n) - 1 \in 0 .. UINT32 - 1
            /\ n + 1 \in 0 .. UINT32 - 1
            /\ (POOL_SIZE - n) * s - s \in 0 .. UINT32 - 1
        BY <2>1, <4>1, <4>3, <4>4, <4>5
      <4>7. /\ ((POOL_SIZE - n) - 1) % UINT32 = (POOL_SIZE - n) - 1
            /\ (n + 1) % UINT32 = n + 1
            /\ ((POOL_SIZE - n) * s - s) % UINT32 = (POOL_SIZE - n) * s - s
        BY <4>1, <4>6, SmallMod
      <4>8. Cardinality(Held(s)') = n + 1
        BY <3>5 DEF n
      <4>9. /\ new.usedBlocks = n + 1
            /\ new.freeBlocks = (POOL_SIZE - n) - 1
            /\ new.remainingSpace = (POOL_SIZE - n) * s - s
        BY <2>2, <4>2, <4>7
      <4> QED
        BY <2>1, <4>1, <4>5, <4>8, <4>9
    <3>8. new.nextFreeBlockInSequence <= POOL_SIZE
      BY <2>2, <2>8, <3>1, <3>2, Addresses DEF Fits, PoolData
    <3>9. \A c \in Held(s)' : \E n \in 0 .. new.nextFreeBlockInSequence - 1 :
            c.addr = pool.startAddress + n * s
      <4>1. CASE Waiting(pool)
        <5>1. k = pool.nextFreeBlock /\ k \in 0 .. pool.nextFreeBlockInSequence - 1
          BY <2>8, <3>2, <4>1 DEF k, BlockToTake, Fits, PoolData
        <5>2. b.addr = pool.startAddress + k * s
          BY <3>1
        <5> QED
          BY <2>2, <3>3, <4>1, <5>1, <5>2 DEF Fits
      <4>2. CASE ~Waiting(pool)
        <5>1. /\ pool.nextFreeBlockInSequence \in Nat
              /\ new.nextFreeBlockInSequence = pool.nextFreeBlockInSequence + 1
          BY <2>1, <2>2, <4>2 DEF PoolData
        <5>2. k \in 0 .. new.nextFreeBlockInSequence - 1 /\ b.addr = pool.startAddress + k * s
          BY <3>1, <4>2, <5>1
        <5>3. \A c \in Held(s) : \E n \in 0 .. pool.nextFreeBlockInSequence - 1 :
                c.addr = pool.startAddress + n * s
          BY DEF Fits
        <5>4. 0 .. pool.nextFreeBlockInSequence - 1 \subseteq 0 .. new.nextFreeBlockInSequence - 1
          BY <5>1
        <5> QED
          BY <3>3, <5>2, <5>3, <5>4
      <4> QED
        BY <4>1, <4>2
    <3>10. Fits(s, new)'
      BY <1>2, <2>2, <2>3, <2>8, <3>7, <3>8, <3>9 DEF Fits
    <3> QED
      BY <2>3, <2>5, <2>6, <3>10
  <2> QED
    BY <2>7, <2>8
<1> QED
  BY <1>1, <1>2 DEF HandOut

(* A new pool of POOL_SIZE blocks counts all of them as free.              *)
LEMMA FullNewPool ==
  ASSUME PoolsFitInUnsigned, NEW s \in SizeId \ {0}, NEW start \in Heap \cup {0},
         NEW pool, pool = initializePoolData(s * POOL_SIZE, start, s)
  PROVE  /\ pool \in PoolData
         /\ pool.startAddress = start
         /\ pool.endAddress = start + s * POOL_SIZE
         /\ pool.totalBlocks = POOL_SIZE
         /\ pool.freeBlocks = POOL_SIZE
         /\ pool.usedBlocks = 0
         /\ pool.remainingSpace = POOL_SIZE * s
         /\ pool.nextFreeBlockInSequence = 0
         /\ ~Waiting(pool)
<1>1. s \in Nat \ {0} /\ start \in Nat /\ POOL_SIZE \in Nat /\ UINT32 \in Nat \ {0}
  BY Addresses
<1>2. s * POOL_SIZE \in 0 .. UINT32 - 1 /\ s * POOL_SIZE = POOL_SIZE * s
  BY <1>1 DEF PoolsFitInUnsigned
<1>3. POOL_SIZE <= POOL_SIZE * s
  BY <1>1
<1>4. (s * POOL_SIZE) % UINT32 = s * POOL_SIZE /\ POOL_SIZE % UINT32 = POOL_SIZE
  <2>1. POOL_SIZE \in 0 .. UINT32 - 1
    BY <1>1, <1>2, <1>3
  <2> QED
    BY <1>1, <1>2, <2>1, SmallMod
<1>5. /\ pool \in PoolData
      /\ pool.startAddress = start
      /\ pool.endAddress = start + s * POOL_SIZE
      /\ pool.totalBlocks = POOL_SIZE
      /\ pool.freeBlocks = POOL_SIZE % UINT32
      /\ pool.usedBlocks = 0
      /\ pool.remainingSpace = (s * POOL_SIZE) % UINT32
      /\ pool.nextFreeBlockInSequence = 0
      /\ ~pool.isFreedBlockBlockAvailable
  <2>1. pool = NewPoolData(start, s * POOL_SIZE, POOL_SIZE) /\ pool \in PoolData
    BY <1>1, NewPool
  <2> QED
    BY <2>1 DEF NewPoolData
<1>6. ~Waiting(pool)
  BY <1>5 DEF Waiting
<1> QED
  BY <1>2, <1>4, <1>5, <1>6

(* malloc keeps a new pool apart from those that have memory.              *)
LEMMA FreshPoolFits ==
  ASSUME PoolsFitInUnsigned, PInv, NEW s \in SizeId \ Pools, s # 0,
         m_initialPoolSize # 0, NEW pool \in createNewPool(s)
  PROVE  Fits(s, pool)
<1>1. m_initialPoolSize = POOL_SIZE
  BY DEF PInv, TInv, TypeOK
<1>2. PICK start \in malloc(s * POOL_SIZE) : pool = initializePoolData(s * POOL_SIZE, start, s)
  BY <1>1 DEF createNewPool
<1>3. start \in Heap \cup {0}
  BY DEF malloc
<1>4. /\ pool \in PoolData
      /\ pool.startAddress = start
      /\ pool.endAddress = start + s * POOL_SIZE
      /\ pool.totalBlocks = POOL_SIZE
      /\ pool.freeBlocks = POOL_SIZE
      /\ pool.usedBlocks = 0
      /\ pool.remainingSpace = POOL_SIZE * s
      /\ pool.nextFreeBlockInSequence = 0
      /\ ~Waiting(pool)
  BY <1>2, <1>3, FullNewPool
<1>5. Held(s) = {} /\ Cardinality(Held(s)) = 0
  BY FS_EmptySet DEF PInv, Held
<1>6. ASSUME start # 0, NEW t \in SizeId \ {s}, Backed(t)
      PROVE  Apart(start, s * POOL_SIZE, m_PoolMap[t].startAddress, t * POOL_SIZE)
  <2>1. /\ t \in Pools /\ m_PoolMap[t].startAddress # 0
        /\ m_PoolMap[t].startAddress \in Nat
        /\ m_PoolMap[t].endAddress = m_PoolMap[t].startAddress + t * POOL_SIZE
    BY <1>6, Addresses DEF Backed, PInv, Fits
  <2>2. m_PoolMap[t].endAddress - m_PoolMap[t].startAddress = t * POOL_SIZE
    <3>1. t * POOL_SIZE \in Int
      BY Addresses
    <3> QED
      BY <2>1, <3>1
  <2> QED
    BY <1>6, <2>1, <2>2 DEF malloc
<1>7. POOL_SIZE \in Nat /\ s * POOL_SIZE \in Nat
  BY Addresses
<1> HIDE DEF Waiting
<1> QED
  BY <1>1, <1>3, <1>4, <1>5, <1>6, <1>7 DEF Fits

(* Before initStorageManager a new pool has no block: it fits when malloc  *)
(* gives it no memory, and what it hands out strays when malloc does.      *)
LEMMA EmptyPoolFitsOrStrays ==
  ASSUME PInv, NEW size \in SizeId \ Pools, size # 0, m_initialPoolSize = 0,
         NEW pool \in createNewPool(size), HandOut(pool, size)
  PROVE  Fits(size, pool) \/ End("strayed")
<1>1. PICK start \in Heap \cup {0} : pool = initializePoolData(size * 0, start, size)
  BY DEF createNewPool, malloc
<1>2. size \in Nat \ {0} /\ start \in Nat
  BY Addresses
<1>3. /\ pool \in PoolData /\ pool.startAddress = start /\ pool.endAddress = start
      /\ ~Waiting(pool)
  <2>1. /\ pool \in PoolData /\ pool.startAddress = start
        /\ pool.endAddress = start + size * 0
        /\ ~pool.isFreedBlockBlockAvailable
    <3>1. pool = NewPoolData(start, size * 0, 0) /\ pool \in PoolData
      BY <1>1, <1>2, NewPool
    <3> QED
      BY <3>1 DEF NewPoolData
  <2>2. size * 0 = 0
    BY <1>2
  <2> QED
    BY <1>2, <2>1, <2>2 DEF Waiting
<1>4. CASE start = 0
  <2>1. Held(size) = {} /\ size * POOL_SIZE \in Nat
    BY Addresses DEF PInv, Held
  <2> QED
    BY <1>2, <1>3, <1>4, <2>1 DEF Fits
<1>5. CASE start # 0
  <2> DEFINE ptr == findAddressFromBlock(BlockToTake(pool), size, pool)
  <2>1. ptr \in Nat /\ ptr >= start
    <3>1. PICK k \in Nat : k = BlockToTake(pool)
      BY <1>2, <1>3, TakenFields
    <3>2. (k * size) % UINT32 \in 0 .. UINT32 - 1
      <4>1. k * size \in Int
        BY <1>2
      <4> QED
        BY <4>1, DivMod, Addresses
    <3> QED
      BY <1>2, <1>3, <3>1, <3>2, Addresses DEF findAddressFromBlock
  <2>2. ptr # 0 /\ ~InPool(pool, size, ptr)
    BY <1>2, <1>3, <1>5, <2>1 DEF InPool
  <2> QED
    BY <2>2 DEF HandOut
<1> QED
  BY <1>4, <1>5

(* An allocation, from an old pool or from one it makes.                   *)
LEMMA SM_allocKeepsPInv ==
  ASSUME PoolsFitInUnsigned, PInv, NEW size \in SizeId, SM_alloc(size)
  PROVE  PInv'
<1>0. TInv'
  BY SM_allocKeepsTInv DEF PInv
<1>1. CASE size \in Pools /\ HandOut(m_PoolMap[size], size)
  <2>1. Fits(size, m_PoolMap[size])
    BY <1>1 DEF PInv
  <2> QED
    BY <1>0, <1>1, <2>1, HandOutKeepsPInv
<1>2. ASSUME size \notin Pools, size # 0, NEW pool \in createNewPool(size), HandOut(pool, size)
      PROVE  PInv'
  <2>1. CASE m_initialPoolSize # 0
    BY <1>0, <1>2, <2>1, FreshPoolFits, HandOutKeepsPInv
  <2>2. CASE m_initialPoolSize = 0
    <3>1. Fits(size, pool) \/ End("strayed")
      BY <1>2, <2>2, EmptyPoolFitsOrStrays
    <3> QED
      BY <1>0, <1>2, <3>1, HandOutKeepsPInv, PInvStays DEF End
  <2> QED
    BY <2>1, <2>2
<1>3. CASE End("exhausted") \/ End("divided")
  BY <1>0, <1>3, PInvStays DEF End
<1> QED
  BY <1>1, <1>2, <1>3 DEF SM_alloc

-----------------------------------------------------------------------------
(* A block is found by its address: in its own pool only, as two pools are *)
(* at least HEADER bytes apart, and with its own number.                   *)
LEMMA HeldBlock ==
  ASSUME PoolsFitInUnsigned, PInv, NEW b \in live
  PROVE  LET pool  == m_PoolMap[b.size]
             block == findBlockFromAddress(b.addr, b.size, pool)
         IN  /\ b.size \in Pools /\ b.size \in Nat \ {0}
             /\ Fits(b.size, pool) /\ Backed(b.size)
             /\ block \in 0 .. pool.nextFreeBlockInSequence - 1
             /\ block \in 0 .. POOL_SIZE - 1
             /\ b.addr = pool.startAddress + block * b.size
             /\ b.addr = findAddressFromBlock(block, b.size, pool)
             /\ Waiting(pool) => block # pool.nextFreeBlock
             /\ b.addr \in pool.startAddress .. pool.endAddress
             /\ b.addr + b.size <= pool.endAddress
<1> DEFINE pool == m_PoolMap[b.size]
           s    == b.size
<1>1. s \in Pools /\ s \in SizeId /\ Fits(s, pool) /\ b \in Held(s)
  BY DEF PInv, Held, Pools
<1> HIDE DEF pool, s
<1>2. s \in Nat \ {0}
  BY <1>1, Addresses DEF Fits
<1>3. /\ pool.startAddress # 0 /\ pool.startAddress \in Nat
      /\ pool.endAddress = pool.startAddress + s * POOL_SIZE
      /\ pool.nextFreeBlockInSequence \in 0 .. POOL_SIZE
  BY <1>1, Addresses DEF Fits, PoolData
<1>4. PICK k \in 0 .. pool.nextFreeBlockInSequence - 1 :
        /\ b.addr = pool.startAddress + k * s
        /\ Waiting(pool) => k # pool.nextFreeBlock
  BY <1>1 DEF Fits
<1>5. k \in 0 .. POOL_SIZE - 1 /\ k \in 0 .. POOL_SIZE /\ POOL_SIZE \in Nat
  BY <1>3, Addresses
<1>6. /\ k * s \in 0 .. s * POOL_SIZE
      /\ findAddressFromBlock(k, s, pool) = pool.startAddress + k * s
      /\ findBlockFromAddress(pool.startAddress + k * s, s, pool) = k
  BY <1>1, <1>2, <1>3, <1>5, BlockAddress
<1>7. k * s + s <= s * POOL_SIZE
  <2>1. k * s + s <= POOL_SIZE * s
    BY <1>2, <1>5, BlocksApart
  <2> QED
    BY <1>2, <1>5, <2>1
<1>8. b.addr \in pool.startAddress .. pool.endAddress /\ b.addr + s <= pool.endAddress
  BY <1>2, <1>3, <1>4, <1>5, <1>6, <1>7
<1>9. Backed(s)
  BY <1>1, <1>3 DEF Backed, pool, s
<1> QED
  BY <1>1, <1>2, <1>4, <1>5, <1>6, <1>8, <1>9 DEF pool, s

(* The search by address finds the pool of the block, and no other.        *)
LEMMA FoundInItsPool ==
  ASSUME PoolsFitInUnsigned, PInv, NEW b \in live
  PROVE  findPoolFromAddress(b.addr) = {b.size}
<1> DEFINE s      == b.size
           has(t) == /\ m_PoolMap[t].startAddress <= b.addr
                     /\ b.addr <= m_PoolMap[t].endAddress
<1>1. /\ s \in Pools /\ s \in Nat \ {0} /\ Fits(s, m_PoolMap[s]) /\ Backed(s)
      /\ b.addr \in m_PoolMap[s].startAddress .. m_PoolMap[s].endAddress
  BY HeldBlock
<1>2. /\ m_PoolMap[s].startAddress \in Heap /\ m_PoolMap[s].startAddress \in Nat
      /\ m_PoolMap[s].endAddress = m_PoolMap[s].startAddress + s * POOL_SIZE
      /\ s \in SizeId
  BY <1>1, Addresses DEF Fits, Backed, Pools
<1>3. has(s)
  BY <1>1
<1>4. ASSUME NEW t \in Pools, t # s PROVE ~has(t)
  <2>1. Fits(t, m_PoolMap[t]) /\ t \in SizeId /\ t * POOL_SIZE \in Nat /\ s * POOL_SIZE \in Nat
    BY <1>2, Addresses DEF PInv, Pools
  <2>2. CASE m_PoolMap[t].startAddress = 0
    <3>1. m_PoolMap[s].startAddress > t * POOL_SIZE
      BY <1>2, <2>1, PoolsAssumption
    <3>2. m_PoolMap[t].endAddress <= t * POOL_SIZE /\ m_PoolMap[t].endAddress \in Nat
      BY <2>1, <2>2 DEF Fits, PoolData
    <3> QED
      BY <1>1, <1>2, <2>1, <3>1, <3>2
  <2>3. CASE m_PoolMap[t].startAddress # 0
    <3>1. /\ m_PoolMap[t].startAddress \in Nat
          /\ m_PoolMap[t].endAddress = m_PoolMap[t].startAddress + t * POOL_SIZE
          /\ Apart(m_PoolMap[t].startAddress, t * POOL_SIZE, m_PoolMap[s].startAddress,
                   s * POOL_SIZE)
      BY <1>1, <1>2, <1>4, <2>1, <2>3, Addresses DEF Fits
    <3> QED
      BY <1>1, <1>2, <2>1, <3>1, Addresses DEF Apart
  <2> QED
    BY <2>2, <2>3
<1> HIDE DEF has, s
<1>5. s <= s
  BY <1>1
<1> QED
  BY <1>1, <1>3, <1>4, <1>5 DEF findPoolFromAddress, has, s

(* A block that is returned is of the pool that is found, and nobody else  *)
(* holds it: it may wait there.                                            *)
LEMMA SM_deallocKeepsPInv ==
  ASSUME PoolsFitInUnsigned, PInv, NEW b \in live, SM_dealloc(b)
  PROVE  PInv'
<1> DEFINE s == b.size
<1>p. PICK pool, block, new : /\ pool = m_PoolMap[s]
                              /\ block = findBlockFromAddress(b.addr, s, pool)
                              /\ new = BlockReturned(pool, s, b.addr)
  OBVIOUS
<1>0. TInv'
  BY SM_deallocKeepsTInv DEF PInv
<1>1. /\ m_PoolMap' = [m_PoolMap EXCEPT ![s] = new]
      /\ live' = live \ {b}
      /\ UNCHANGED <<m_initialPoolSize, ended>>
  BY <1>p, FoundInItsPool DEF SM_dealloc
<1>2. /\ s \in Pools /\ s \in Nat \ {0} /\ Fits(s, pool) /\ Backed(s)
      /\ block \in 0 .. pool.nextFreeBlockInSequence - 1
      /\ b.addr = pool.startAddress + block * s
      /\ b.addr \in pool.startAddress .. pool.endAddress
  BY <1>p, HeldBlock
<1>3. /\ s \in SizeId /\ pool \in PoolData /\ pool.startAddress # 0 /\ b \in Held(s)
      /\ TypeOK
  BY <1>p, <1>2 DEF Pools, Backed, Fits, Held, PInv, TInv
<1> HIDE DEF s
<1>4. /\ new \in PoolData
      /\ new.startAddress = pool.startAddress
      /\ new.endAddress = pool.endAddress
      /\ new.totalBlocks = pool.totalBlocks
      /\ new.freeBlocks = (pool.freeBlocks + 1) % UINT32
      /\ new.usedBlocks = (pool.usedBlocks - 1) % UINT32
      /\ new.remainingSpace = (pool.remainingSpace + s) % UINT32
      /\ new.nextFreeBlockInSequence = pool.nextFreeBlockInSequence
      /\ new.nextFreeBlock = block
  <2>1. b.addr \in Nat /\ pool.startAddress <= b.addr
    BY <1>2, <1>3 DEF TypeOK, PoolData
  <2> QED
    BY <1>p, <1>2, <1>3, <2>1, ReturnedFields
<1>5. /\ Pools' = Pools \cup {s} /\ m_PoolMap'[s] = new
      /\ \A t \in SizeId \ {s} : /\ m_PoolMap'[t] = m_PoolMap[t]
                                 /\ Backed(t)' <=> Backed(t)
  BY <1>1, <1>3, <1>4, PoolsAfter
<1>6. \A t \in SizeId \ {s} : Held(t)' = Held(t)
  BY <1>1 DEF Held, s
<1>7. \A t \in Pools \ {s} : Fits(t, m_PoolMap[t])'
  BY <1>p, <1>1, <1>2, <1>3, <1>4, <1>6, OthersFit DEF Pools
<1>8. Held(s)' = Held(s) \ {b}
  BY <1>1 DEF Held
<1>9. IsFiniteSet(Held(s)) /\ Cardinality(Held(s)) \in 0 .. POOL_SIZE
  BY <1>2, <1>3, HeldAreBlocks
<1>10. Cardinality(Held(s)') = Cardinality(Held(s)) - 1 /\ Cardinality(Held(s)') \in Nat
  <2>1. IsFiniteSet(Held(s)') /\ Cardinality(Held(s)') = Cardinality(Held(s)) - 1
    BY <1>3, <1>8, <1>9, FS_RemoveElement
  <2> QED
    BY <2>1, FS_CardinalityType
<1>11. /\ new.usedBlocks = Cardinality(Held(s)')
       /\ new.freeBlocks = POOL_SIZE - Cardinality(Held(s)')
       /\ new.remainingSpace = new.freeBlocks * s
  <2> DEFINE n == Cardinality(Held(s))
  <2>1. n \in 1 .. POOL_SIZE /\ POOL_SIZE \in Nat /\ UINT32 \in Nat \ {0}
    BY <1>9, <1>10, Addresses
  <2>2. /\ pool.usedBlocks = n /\ pool.freeBlocks = POOL_SIZE - n
        /\ pool.remainingSpace = (POOL_SIZE - n) * s
    BY <1>2, <1>3 DEF Fits
  <2>3. Cardinality(Held(s)') = n - 1
    BY <1>10
  <2> HIDE DEF n
  <2>4. POOL_SIZE * s < UINT32
    BY <1>2, <1>3, <2>1 DEF PoolsFitInUnsigned
  <2>5. POOL_SIZE < UINT32
    <3>1. POOL_SIZE <= POOL_SIZE * s
      BY <1>2, <2>1
    <3> QED
      BY <1>2, <2>1, <2>4, <3>1
  <2>6. /\ (POOL_SIZE - n) * s + s = (POOL_SIZE - n + 1) * s
        /\ (POOL_SIZE - n + 1) * s \in 0 .. s * POOL_SIZE
    <3>1. POOL_SIZE - n + 1 \in 0 .. POOL_SIZE
      BY <2>1
    <3>2. \A m \in 0 .. POOL_SIZE : m * s \in 0 .. s * POOL_SIZE
      BY <1>2, <1>3, BlockAddress DEF PoolData
    <3> QED
      BY <1>2, <2>1, <3>1, <3>2
  <2>7. /\ (POOL_SIZE - n) + 1 \in 0 .. UINT32 - 1
        /\ n - 1 \in 0 .. UINT32 - 1
        /\ (POOL_SIZE - n) * s + s \in 0 .. UINT32 - 1
    BY <1>2, <2>1, <2>4, <2>5, <2>6
  <2>8. /\ ((POOL_SIZE - n) + 1) % UINT32 = (POOL_SIZE - n) + 1
        /\ (n - 1) % UINT32 = n - 1
        /\ ((POOL_SIZE - n) * s + s) % UINT32 = (POOL_SIZE - n) * s + s
    BY <2>1, <2>7, SmallMod
  <2>9. /\ new.usedBlocks = n - 1
        /\ new.freeBlocks = (POOL_SIZE - n) + 1
        /\ new.remainingSpace = (POOL_SIZE - n) * s + s
    BY <1>4, <2>2, <2>8
  <2> QED
    BY <1>2, <2>1, <2>3, <2>6, <2>9
<1>12. \A c \in Held(s)' : \E k \in 0 .. new.nextFreeBlockInSequence - 1 :
         c.addr = pool.startAddress + k * s /\ k # new.nextFreeBlock
  <2> SUFFICES ASSUME NEW c \in Held(s)'
               PROVE  \E k \in 0 .. new.nextFreeBlockInSequence - 1 :
                        c.addr = pool.startAddress + k * s /\ k # new.nextFreeBlock
    OBVIOUS
  <2>1. c \in Held(s) /\ c # b
    BY <1>8
  <2>2. PICK k \in 0 .. pool.nextFreeBlockInSequence - 1 : c.addr = pool.startAddress + k * s
    BY <1>2, <2>1 DEF Fits
  <2>3. c.addr # b.addr
    BY <1>3, <2>1 DEF Held, TypeOK
  <2>4. k # block
    BY <1>2, <2>2, <2>3
  <2> QED
    BY <1>4, <2>2, <2>4
<1>13. Fits(s, new)'
  <2>1. new.nextFreeBlock < new.nextFreeBlockInSequence
    BY <1>2, <1>3, <1>4 DEF PoolData
  <2> QED
    BY <1>1, <1>2, <1>3, <1>4, <1>5, <1>11, <1>12, <2>1 DEF Fits
<1>14. \A c \in live' : c.size \in Pools'
  BY <1>1, <1>5 DEF PInv
<1> QED
  BY <1>0, <1>5, <1>7, <1>13, <1>14 DEF PInv

(* Before initStorageManager no pool of another size has memory, and       *)
(* nobody holds anything.                                                  *)
LEMMA NothingHeldBeforeInit ==
  ASSUME PoolsFitInUnsigned, PInv, m_initialPoolSize = 0
  PROVE  live = {} /\ \A s \in SizeId : Backed(s) => s \in InitialPools
<1>1. \A s \in SizeId : Backed(s) => s \in InitialPools /\ POOL_SIZE = 0
  BY DEF PInv, Fits, Backed
<1>2. ASSUME NEW b \in live PROVE FALSE
  <2>1. Backed(b.size) /\ b.size \in SizeId
    BY HeldBlock DEF Backed, Pools
  <2>2. findBlockFromAddress(b.addr, b.size, m_PoolMap[b.size]) \in 0 .. POOL_SIZE - 1
    BY HeldBlock
  <2> QED
    BY <1>1, <2>1, <2>2
<1> QED
  BY <1>1, <1>2

(* The pools of the initialisation are apart, and empty.                   *)
LEMMA initStorageManagerKeepsPInv ==
  ASSUME PoolsFitInUnsigned, PInv, initStorageManager
  PROVE  PInv'
<1>0. TInv'
  BY initStorageManagerKeepsTInv DEF PInv
<1>1. live = {} /\ live' = {} /\ \A s \in SizeId : Backed(s) => s \in InitialPools
  BY NothingHeldBeforeInit DEF initStorageManager
<1>2. PICK start \in [InitialPools -> Heap \cup {0}] :
        /\ \A s, t \in InitialPools :
             s # t /\ start[s] # 0 /\ start[t] # 0 =>
               Apart(start[s], s * POOL_SIZE, start[t], t * POOL_SIZE)
        /\ m_PoolMap' = [s \in SizeId |->
             IF s \in InitialPools THEN initializePoolData(s * POOL_SIZE, start[s], s)
             ELSE m_PoolMap[s]]
  BY DEF initStorageManager
<1>3. \A s : Held(s)' = {} /\ Cardinality(Held(s)') = 0
  BY <1>1, FS_EmptySet DEF Held
<1>4. ASSUME NEW s \in InitialPools
      PROVE  LET pool == m_PoolMap'[s]
             IN  /\ pool \in PoolData
                 /\ pool.startAddress = start[s]
                 /\ pool.endAddress = start[s] + s * POOL_SIZE
                 /\ pool.totalBlocks = POOL_SIZE
                 /\ pool.freeBlocks = POOL_SIZE
                 /\ pool.usedBlocks = 0
                 /\ pool.remainingSpace = POOL_SIZE * s
                 /\ pool.nextFreeBlockInSequence = 0
                 /\ ~Waiting(pool)
  <2>1. s \in SizeId \ {0} /\ start[s] \in Heap \cup {0}
    BY Addresses
  <2>2. m_PoolMap'[s] = initializePoolData(s * POOL_SIZE, start[s], s)
    BY <1>2, <2>1
  <2> QED
    BY <2>1, <2>2, FullNewPool
<1>5. \A s \in SizeId \ InitialPools : m_PoolMap'[s] = m_PoolMap[s] /\ ~Backed(s)'
  BY <1>1, <1>2 DEF Backed, Pools
<1>6. m_initialPoolSize' = POOL_SIZE
  BY DEF initStorageManager
<1>7. ASSUME NEW s \in Pools' PROVE Fits(s, m_PoolMap[s])'
  <2>1. CASE s \in InitialPools
    <3> DEFINE pool == m_PoolMap'[s]
    <3>1. /\ pool \in PoolData
          /\ pool.startAddress = start[s]
          /\ pool.endAddress = start[s] + s * POOL_SIZE
          /\ pool.totalBlocks = POOL_SIZE
          /\ pool.freeBlocks = POOL_SIZE
          /\ pool.usedBlocks = 0
          /\ pool.remainingSpace = POOL_SIZE * s
          /\ pool.nextFreeBlockInSequence = 0
          /\ ~Waiting(pool)
      BY <1>4, <2>1
    <3>2. /\ s \in Nat \ {0} /\ start[s] \in Heap \cup {0} /\ POOL_SIZE \in Nat
          /\ s * POOL_SIZE \in Nat
      BY <2>1, Addresses
    <3>3. ASSUME start[s] # 0, NEW t \in SizeId \ {s}, Backed(t)'
          PROVE  Apart(start[s], s * POOL_SIZE, m_PoolMap'[t].startAddress, t * POOL_SIZE)
      <4>1. t \in InitialPools
        BY <1>5, <3>3
      <4>2. m_PoolMap'[t].startAddress = start[t] /\ start[t] # 0
        BY <1>4, <3>3, <4>1 DEF Backed
      <4> QED
        BY <1>2, <2>1, <3>3, <4>1, <4>2
    <3> HIDE DEF pool, Waiting
    <3>4. m_PoolMap'[s] = pool
      BY DEF pool
    <3> QED
      BY <1>3, <1>6, <2>1, <3>1, <3>2, <3>3, <3>4 DEF Fits
  <2>2. CASE s \notin InitialPools
    <3>1. s \in SizeId /\ m_PoolMap'[s] = m_PoolMap[s] /\ ~Backed(s)' /\ s \in Pools
      BY <1>5, <2>2 DEF Pools
    <3>2. m_PoolMap[s].startAddress = 0
      BY <1>7, <3>1 DEF Backed
    <3>3. Fits(s, m_PoolMap[s])
      BY <3>1 DEF PInv
    <3> QED
      BY <1>3, <3>1, <3>2, <3>3 DEF Fits
  <2> QED
    BY <2>1, <2>2
<1> QED
  BY <1>0, <1>1, <1>7 DEF PInv

(* So every step keeps the invariant ...                                   *)
LEMMA NextKeepsPInv ==
  ASSUME PoolsFitInUnsigned, PInv, [Next]_vars
  PROVE  PInv'
<1>1. CASE UNCHANGED vars
  <2>1. TInv'
    BY <1>1 DEF vars, PInv, TInv, TypeOK, Pools
  <2> QED
    BY <1>1, <2>1, PInvStays DEF vars
<1>2. CASE Next
  BY <1>2, initStorageManagerKeepsPInv, SM_allocKeepsPInv, SM_deallocKeepsPInv DEF Next
<1> QED
  BY <1>1, <1>2

(* ... and it holds in every behaviour.                                    *)
LEMMA PInvInvariant ==
  PoolsFitInUnsigned => (Spec => []PInv)
<1> SUFFICES ASSUME PoolsFitInUnsigned PROVE Spec => []PInv
  OBVIOUS
<1>1. Init => PInv
  BY PoolsAssumption DEF Init, PInv, TInv, TypeOK, Pools, Endings
<1>2. PInv /\ [Next]_vars => PInv'
  BY NextKeepsPInv
<1> QED
  BY <1>1, <1>2, PTL DEF Spec

-----------------------------------------------------------------------------
(* Safety *)

(* A held block is the k-th of its pool and ends within it.                *)
LEMMA HeldSpan ==
  ASSUME PoolsFitInUnsigned, PInv, NEW b \in live
  PROVE  \E k \in Nat, start \in Nat, end \in Nat :
           /\ start = m_PoolMap[b.size].startAddress
           /\ end = start + b.size * POOL_SIZE
           /\ b.addr = start + k * b.size /\ start <= b.addr /\ b.addr + b.size <= end
           /\ b.size \in Nat /\ b.size \in SizeId /\ b.size \in Pools /\ Backed(b.size)
           /\ Fits(b.size, m_PoolMap[b.size])
<1> DEFINE s    == b.size
           pool == m_PoolMap[s]
           k    == findBlockFromAddress(b.addr, s, pool)
<1>1. /\ s \in Pools /\ s \in Nat \ {0}
      /\ Fits(s, pool) /\ Backed(s)
      /\ k \in 0 .. POOL_SIZE - 1
      /\ b.addr = pool.startAddress + k * s
      /\ b.addr \in pool.startAddress .. pool.endAddress
      /\ b.addr + s <= pool.endAddress
  BY HeldBlock
<1> HIDE DEF s, pool, k
<1>2. k \in Nat /\ s \in SizeId
  BY <1>1 DEF Pools
<1>3. /\ pool.startAddress \in Nat /\ pool.endAddress \in Nat
      /\ pool.endAddress = pool.startAddress + s * POOL_SIZE
  BY <1>1 DEF Fits, PoolData, Backed, pool
<1>4. pool.startAddress <= b.addr
  BY <1>1, <1>3
<1> QED
  BY <1>1, <1>2, <1>3, <1>4 DEF s, pool

(* No byte belongs to two callers, whatever order the blocks are freed in. *)
THEOREM Disjointness == PoolsFitInUnsigned => (Spec => []LiveBlocksDisjoint)
<1> SUFFICES ASSUME PoolsFitInUnsigned PROVE Spec => []LiveBlocksDisjoint
  OBVIOUS
<1>1. PInv => LiveBlocksDisjoint
  <2> SUFFICES ASSUME PInv, NEW b \in live, NEW c \in live, b # c
               PROVE  b.addr + b.size <= c.addr \/ c.addr + c.size <= b.addr
    BY DEF LiveBlocksDisjoint
  <2> DEFINE s == b.size
             t == c.size
  <2>1. PICK k \in Nat, start \in Nat, end \in Nat :
          /\ start = m_PoolMap[s].startAddress /\ end = start + s * POOL_SIZE
          /\ b.addr = start + k * s /\ start <= b.addr /\ b.addr + s <= end
          /\ s \in Nat /\ s \in SizeId /\ s \in Pools /\ Backed(s) /\ Fits(s, m_PoolMap[s])
    BY HeldSpan
  <2>2. PICK n \in Nat, start2 \in Nat, end2 \in Nat :
          /\ start2 = m_PoolMap[t].startAddress /\ end2 = start2 + t * POOL_SIZE
          /\ c.addr = start2 + n * t /\ start2 <= c.addr /\ c.addr + t <= end2
          /\ t \in Nat /\ t \in SizeId /\ t \in Pools /\ Backed(t) /\ Fits(t, m_PoolMap[t])
    BY HeldSpan
  <2>r. /\ b = [size |-> s, addr |-> b.addr] /\ c = [size |-> t, addr |-> c.addr]
        /\ b.addr \in Nat /\ c.addr \in Nat
    BY DEF PInv, TInv, TypeOK
  <2> HIDE DEF s, t
  <2>3. CASE s = t
    <3>1. b.addr # c.addr
      BY <2>3, <2>r
    <3>2. k < n \/ n < k
      BY <2>1, <2>2, <2>3, <3>1
    <3>3. /\ k < n => k * s + s <= n * s
          /\ n < k => n * s + s <= k * s
      BY <2>1, BlocksApart
    <3>4. k * s \in Int /\ n * s \in Int
      BY <2>1
    <3> QED
      BY <2>1, <2>2, <2>3, <3>2, <3>3, <3>4 DEF s, t
  <2>4. CASE s # t
    <3>1. Apart(start, s * POOL_SIZE, start2, t * POOL_SIZE)
      BY <2>1, <2>2, <2>4 DEF Fits, Backed
    <3>2. /\ start + s * POOL_SIZE + HEADER <= start2 \/ start2 + t * POOL_SIZE + HEADER <= start
          /\ HEADER \in Nat
      BY <3>1, Addresses DEF Apart
    <3> QED
      BY <2>1, <2>2, <2>r, <3>2 DEF s, t
  <2> QED
    BY <2>3, <2>4
<1> QED
  BY <1>1, PInvInvariant, PTL

(* The counters of a pool agree with what its clients hold: the 32 bit     *)
(* counters do not wrap, and no block is counted twice.                    *)
THEOREM Accounts == PoolsFitInUnsigned => (Spec => []PoolAccounts)
<1> SUFFICES ASSUME PoolsFitInUnsigned PROVE Spec => []PoolAccounts
  OBVIOUS
<1>1. PInv => PoolAccounts
  BY DEF PInv, Fits, Backed, PoolAccounts, Held
<1> QED
  BY <1>1, PInvInvariant, PTL

(* The search by address finds the pool a block came from, though it takes *)
(* the end address of a pool for its own, and the number of the block.     *)
THEOREM Findability == PoolsFitInUnsigned => (Spec => []LiveBlocksAreFindable)
<1> SUFFICES ASSUME PoolsFitInUnsigned PROVE Spec => []LiveBlocksAreFindable
  OBVIOUS
<1>1. PInv => LiveBlocksAreFindable
  BY FoundInItsPool, HeldBlock DEF LiveBlocksAreFindable
<1> QED
  BY <1>1, PInvInvariant, PTL

(* What SM_alloc hands out next is in use by nobody.                       *)
THEOREM NextIsFree == PoolsFitInUnsigned => (Spec => []NextBlocksAreFree)
<1> SUFFICES ASSUME PoolsFitInUnsigned PROVE Spec => []NextBlocksAreFree
  OBVIOUS
<1>1. PInv => NextBlocksAreFree
  <2> SUFFICES ASSUME PInv, NEW b \in live
               PROVE  LET pool  == m_PoolMap[b.size]
                          block == findBlockFromAddress(b.addr, b.size, pool)
                      IN  /\ block < pool.nextFreeBlockInSequence
                          /\ Waiting(pool) => block # pool.nextFreeBlock
    BY DEF NextBlocksAreFree
  <2>1. m_PoolMap[b.size].nextFreeBlockInSequence \in Nat
    BY HeldBlock DEF Fits, PoolData
  <2> QED
    BY <2>1, HeldBlock
<1> QED
  BY <1>1, PInvInvariant, PTL

-----------------------------------------------------------------------------
(* Strays *)

(* A pool that has memory, whose sequence has ended and in which no freed  *)
(* block waits, but that counts a free block, has lost one.                *)
LEMMA EndedPoolHasLost ==
  ASSUME PoolsFitInUnsigned, PInv, NEW s \in Pools, Backed(s),
         m_PoolMap[s].freeBlocks # 0,
         BlockToTake(m_PoolMap[s]) = POOL_SIZE
  PROVE  ~Waiting(m_PoolMap[s]) /\ LostBlocks(s) # {}
<1> DEFINE pool == m_PoolMap[s]
<1>1. s \in SizeId /\ Fits(s, pool) /\ pool.startAddress # 0 /\ TypeOK /\ s \in Nat \ {0}
  BY Addresses DEF PInv, TInv, Pools, Backed, Fits
<1> HIDE DEF pool
<1>2. ~Waiting(pool) /\ pool.nextFreeBlockInSequence = POOL_SIZE
  BY <1>1, NextBlock DEF pool
<1>3. PICK k \in 0 .. POOL_SIZE - 1 :
        [size |-> s, addr |-> pool.startAddress + k * s] \notin live
  <2> SUFFICES ASSUME \A k \in 0 .. POOL_SIZE - 1 :
                        [size |-> s, addr |-> pool.startAddress + k * s] \in live
               PROVE  FALSE
    OBVIOUS
  <2>1. BlocksFrom(pool.startAddress, s) \subseteq Held(s)
    BY DEF BlocksFrom, Held
  <2>2. Held(s) = BlocksFrom(pool.startAddress, s)
    BY <1>1, <2>1, HeldAreBlocks
  <2>3. Cardinality(Held(s)) = POOL_SIZE
    BY <1>1, <2>2, CountBlocks, Addresses DEF Fits
  <2>4. pool.freeBlocks = 0
    BY <1>1, <2>3, Addresses DEF Fits
  <2> QED
    BY <2>4 DEF pool
<1>4. findAddressFromBlock(k, s, pool) = pool.startAddress + k * s
  <2>1. k \in 0 .. POOL_SIZE /\ pool.startAddress \in Nat
    BY <1>1, Addresses DEF Fits
  <2> QED
    BY <1>1, <2>1, BlockAddress
<1>5. k \in LostBlocks(s)
  BY <1>2, <1>3, <1>4 DEF LostBlocks, pool
<1> QED
  BY <1>2, <1>5 DEF pool

(* A client gets memory outside of the pool only if the manager was not    *)
(* initialised, if malloc gave the pool none, or if a free has overwritten *)
(* the one freed block that is remembered.                                 *)
THEOREM StraysOnlyThen == PoolsFitInUnsigned => (Spec => StraysOnlyAfterLoss)
<1> SUFFICES ASSUME PoolsFitInUnsigned PROVE Spec => StraysOnlyAfterLoss
  OBVIOUS
<1> DEFINE Excused(s) == \/ m_initialPoolSize = 0
                         \/ s \in Pools /\ ~Backed(s)
                         \/ s \in Pools /\ ~Waiting(m_PoolMap[s]) /\ LostBlocks(s) # {}
<1>1. ASSUME PInv, NEW s \in SizeId, SM_alloc(s), ended' = "strayed"
      PROVE  Excused(s)
  <2>1. CASE s \in Pools /\ HandOut(m_PoolMap[s], s) /\ m_PoolMap[s].freeBlocks # 0
    <3> DEFINE pool == m_PoolMap[s]
               ptr  == findAddressFromBlock(BlockToTake(pool), s, pool)
    <3>1. Fits(s, pool) /\ TypeOK
      BY <1>1, <2>1 DEF PInv, TInv
    <3>2. ~InPool(pool, s, ptr)
      BY <1>1, <2>1 DEF HandOut, SM_alloc
    <3>3. CASE Backed(s)
      <4>1. BlockToTake(pool) = POOL_SIZE
        <5>1. pool.startAddress # 0
          BY <3>3 DEF Backed
        <5>2. BlockToTake(pool) \in 0 .. POOL_SIZE /\ ~(BlockToTake(pool) < POOL_SIZE)
          BY <3>1, <3>2, <5>1, NextBlock
        <5> QED
          BY <5>2, Addresses
      <4> QED
        BY <1>1, <2>1, <3>3, <4>1, EndedPoolHasLost
    <3> QED
      BY <2>1, <3>3
  <2>2. ASSUME s \notin Pools, s # 0, NEW pool \in createNewPool(s), HandOut(pool, s),
               m_initialPoolSize # 0
        PROVE  FALSE
    <3> DEFINE ptr == findAddressFromBlock(BlockToTake(pool), s, pool)
    <3>1. Fits(s, pool) /\ TypeOK
      BY <1>1, <2>2, FreshPoolFits DEF PInv, TInv
    <3>2. ptr # 0 /\ ~InPool(pool, s, ptr)
      BY <1>1, <2>2 DEF HandOut, SM_alloc
    <3>3. PICK start \in Heap \cup {0} :
            pool = initializePoolData(s * m_initialPoolSize, start, s)
      BY <2>2 DEF createNewPool, malloc
    <3>4. m_initialPoolSize = POOL_SIZE /\ POOL_SIZE \in Nat \ {0} /\ s \in Nat \ {0}
      BY <2>2, <3>1, Addresses DEF TypeOK
    <3>5. /\ pool.startAddress = start /\ pool.nextFreeBlockInSequence = 0 /\ ~Waiting(pool)
      BY <2>2, <3>3, <3>4, FullNewPool
    <3>6. BlockToTake(pool) = 0
      BY <3>5 DEF BlockToTake
    <3>7. CASE start = 0
      <4>1. ptr = 0
        BY <3>4, <3>5, <3>6, <3>7, Addresses DEF findAddressFromBlock
      <4> QED
        BY <3>2, <4>1
    <3>8. CASE start # 0
      <4>1. pool.startAddress # 0 /\ BlockToTake(pool) < POOL_SIZE
        BY <3>4, <3>5, <3>6, <3>8
      <4>2. InPool(pool, s, ptr)
        BY <3>1, <4>1, NextBlock
      <4> QED
        BY <3>2, <4>2
    <3> QED
      BY <3>7, <3>8
  <2>3. CASE End("exhausted") \/ End("divided")
    BY <1>1, <2>3 DEF End
  <2> QED
    BY <1>1, <2>1, <2>2, <2>3 DEF SM_alloc
<1>2. PInv /\ [Next]_vars => [\A s \in SizeId : SM_alloc(s) /\ ended' = "strayed" => Excused(s)]_vars
  BY <1>1
<1> QED
  BY <1>2, PInvInvariant, PTL DEF Spec, StraysOnlyAfterLoss

-----------------------------------------------------------------------------
(* Refinement *)

(* A pool that malloc gave no memory turns nobody away as exhausted: its   *)
(* first block is nullptr and its second one strays.                       *)
NoMemoryNoBlocks ==
  \A s \in Pools : ~Backed(s) =>
    /\ m_PoolMap[s].freeBlocks > 0
    /\ m_PoolMap[s].nextFreeBlockInSequence = 0 => m_PoolMap[s].freeBlocks = POOL_SIZE
    /\ m_PoolMap[s].nextFreeBlockInSequence \in {0, 1}
    /\ ~Waiting(m_PoolMap[s])

(* With pools of one block the second request for one without memory would *)
(* end as exhausted already.                                               *)
PoolsOfSeveralBlocks == POOL_SIZE > 1

RInv == PInv /\ NoMemoryNoBlocks

(* The sizes and numbers of blocks lose nothing in 32 bits.                *)
LEMMA SizesFit ==
  ASSUME PoolsFitInUnsigned, PoolsOfSeveralBlocks, NEW s \in SizeId, s # 0
  PROVE  /\ s \in 1 .. UINT32 - 1 /\ s % UINT32 = s
         /\ POOL_SIZE - 1 \in 1 .. UINT32 - 1
         /\ (POOL_SIZE - 1) % UINT32 = POOL_SIZE - 1
         /\ UINT32 - 1 > 0 /\ (0 - 1) % UINT32 = UINT32 - 1
<1>1. s \in Nat \ {0} /\ POOL_SIZE \in Nat /\ UINT32 \in Nat \ {0} /\ POOL_SIZE > 1
  BY Addresses DEF PoolsOfSeveralBlocks
<1>2. s * POOL_SIZE < UINT32
  BY DEF PoolsFitInUnsigned
<1>3. s <= s * POOL_SIZE /\ POOL_SIZE <= s * POOL_SIZE /\ s * POOL_SIZE \in Nat
  BY <1>1
<1>4. s \in 1 .. UINT32 - 1 /\ POOL_SIZE - 1 \in 1 .. UINT32 - 1 /\ UINT32 - 1 > 0
  BY <1>1, <1>2, <1>3
<1>5. s % UINT32 = s /\ (POOL_SIZE - 1) % UINT32 = POOL_SIZE - 1
  BY <1>1, <1>4, SmallMod
<1>6. (0 - 1) % UINT32 = UINT32 - 1
  BY <1>1
<1> QED
  BY <1>4, <1>5, <1>6

(* What a request leaves of a pool without memory.                         *)
LEMMA HandOutWithoutMemory ==
  ASSUME PoolsFitInUnsigned, PoolsOfSeveralBlocks, NEW s \in SizeId, s # 0,
         NEW pool \in PoolData, pool.startAddress = 0, ~Waiting(pool),
         pool.nextFreeBlockInSequence \in {0, 1},
         pool.nextFreeBlockInSequence = 0 => pool.freeBlocks \in {0, POOL_SIZE},
         findAddressFromBlock(BlockToTake(pool), s, pool) = 0
  PROVE  LET new == BlockTaken(pool, s)
         IN  /\ new.startAddress = 0 /\ new.freeBlocks > 0
             /\ new.nextFreeBlockInSequence = 1 /\ ~Waiting(new)
<1>1. s \in Nat
  BY Addresses
<1>2. BlockToTake(pool) = pool.nextFreeBlockInSequence
  BY DEF BlockToTake
<1>3. pool.nextFreeBlockInSequence = 0
  <2> SUFFICES ASSUME pool.nextFreeBlockInSequence = 1 PROVE FALSE
    OBVIOUS
  <2>1. 1 * s = s /\ s % UINT32 = s
    BY <1>1, SizesFit
  <2>2. 0 + s = 0
    BY <1>2, <2>1 DEF findAddressFromBlock
  <2> QED
    BY <1>1, <2>2
<1> DEFINE new == BlockTaken(pool, s)
<1>4. /\ new.startAddress = pool.startAddress
      /\ new.freeBlocks = (pool.freeBlocks - 1) % UINT32
      /\ new.nextFreeBlockInSequence = IF Waiting(pool) THEN pool.nextFreeBlockInSequence
                                       ELSE pool.nextFreeBlockInSequence + 1
      /\ ~Waiting(new)
  BY <1>1, TakenFields
<1>5. (pool.freeBlocks - 1) % UINT32 > 0
  BY <1>3, SizesFit, Addresses
<1> HIDE DEF new
<1> QED
  BY <1>3, <1>4, <1>5 DEF new

(* A pool without memory gives nothing but NULL.                           *)
LEMMA HandOutKeepsNoMemory ==
  ASSUME PoolsFitInUnsigned, PoolsOfSeveralBlocks, RInv, NEW s \in SizeId, s # 0,
         NEW pool \in PoolData,
         s \in Pools => pool = m_PoolMap[s],
         s \notin Pools /\ pool.startAddress = 0 =>
           /\ ~Waiting(pool) /\ pool.nextFreeBlockInSequence = 0
           /\ pool.freeBlocks \in {0, POOL_SIZE},
         HandOut(pool, s)
  PROVE  NoMemoryNoBlocks'
<1> DEFINE ptr == findAddressFromBlock(BlockToTake(pool), s, pool)
           new == BlockTaken(pool, s)
<1>1. CASE End("strayed")
  BY <1>1 DEF End, RInv, NoMemoryNoBlocks, Backed, Pools
<1>2. CASE /\ ptr = 0 \/ InPool(pool, s, ptr)
           /\ m_PoolMap' = [m_PoolMap EXCEPT ![s] = new]
  <2>1. /\ new \in PoolData /\ new.startAddress = pool.startAddress
    BY TakenFields, Addresses
  <2>2. /\ Pools' = Pools \cup {s} /\ m_PoolMap'[s] = new
        /\ \A t \in SizeId \ {s} : /\ m_PoolMap'[t] = m_PoolMap[t]
                                   /\ Backed(t)' <=> Backed(t)
    BY <1>2, <2>1, PoolsAfter DEF RInv, PInv, TInv
  <2>3. CASE pool.startAddress # 0
    <3>1. Backed(s)'
      BY <2>1, <2>2, <2>3 DEF Backed
    <3> QED
      BY <2>2, <3>1 DEF RInv, NoMemoryNoBlocks, Pools
  <2>4. CASE pool.startAddress = 0
    <3>1. ptr = 0
      BY <1>2, <2>4 DEF InPool
    <3>2. /\ ~Waiting(pool) /\ pool.nextFreeBlockInSequence \in {0, 1}
          /\ pool.nextFreeBlockInSequence = 0 => pool.freeBlocks \in {0, POOL_SIZE}
      BY <2>4 DEF RInv, NoMemoryNoBlocks, Backed
    <3> HIDE DEF new
    <3>3. new.freeBlocks > 0 /\ new.nextFreeBlockInSequence = 1 /\ ~Waiting(new)
      BY <2>4, <3>1, <3>2, HandOutWithoutMemory DEF new
    <3> QED
      BY <2>2, <3>3 DEF RInv, NoMemoryNoBlocks, Pools
  <2> QED
    BY <2>3, <2>4
<1> QED
  BY <1>1, <1>2 DEF HandOut

(* So every step keeps such pools as they are.                             *)
LEMMA NextKeepsNoMemory ==
  ASSUME PoolsFitInUnsigned, PoolsOfSeveralBlocks, RInv, [Next]_vars
  PROVE  NoMemoryNoBlocks'
<1>1. ASSUME m_PoolMap' = m_PoolMap PROVE NoMemoryNoBlocks'
  BY <1>1 DEF RInv, NoMemoryNoBlocks, Backed, Pools
<1>2. ASSUME NEW size \in SizeId, SM_alloc(size) PROVE NoMemoryNoBlocks'
  <2>1. CASE size \in Pools /\ HandOut(m_PoolMap[size], size)
    <3>1. m_PoolMap[size] \in PoolData /\ size # 0
      BY <2>1 DEF RInv, PInv, Fits
    <3> QED
      BY <2>1, <3>1, HandOutKeepsNoMemory
  <2>2. ASSUME size \notin Pools, size # 0, NEW pool \in createNewPool(size), HandOut(pool, size)
        PROVE  NoMemoryNoBlocks'
    <3>1. PICK start \in Nat : pool = initializePoolData(size * m_initialPoolSize, start, size)
      BY <2>2, Addresses DEF createNewPool, malloc
    <3>2. size \in Nat \ {0} /\ m_initialPoolSize \in {0, POOL_SIZE} /\ m_initialPoolSize \in Nat
      BY <2>2, Addresses DEF RInv, PInv, TInv, TypeOK
    <3>3. /\ pool = NewPoolData(start, size * m_initialPoolSize, m_initialPoolSize)
          /\ pool \in PoolData
      BY <3>1, <3>2, NewPool
    <3>4. /\ pool.freeBlocks = m_initialPoolSize % UINT32
          /\ pool.nextFreeBlockInSequence = 0
          /\ ~Waiting(pool)
      BY <3>3 DEF NewPoolData, Waiting
    <3>5. m_initialPoolSize % UINT32 \in {0, POOL_SIZE}
      <4>1. 0 % UINT32 = 0 /\ POOL_SIZE % UINT32 = POOL_SIZE
        <5>1. 0 \in 0 .. UINT32 - 1 /\ POOL_SIZE \in 0 .. UINT32 - 1
          <6>1. size * POOL_SIZE < UINT32 /\ POOL_SIZE <= size * POOL_SIZE
            BY <3>2, Addresses DEF PoolsFitInUnsigned
          <6> QED
            BY <3>2, <6>1, Addresses
        <5> QED
          BY <5>1, SmallMod, Addresses
      <4> QED
        BY <3>2, <4>1
    <3> QED
      BY <2>2, <3>3, <3>4, <3>5, HandOutKeepsNoMemory
  <2>3. CASE End("exhausted") \/ End("divided")
    BY <1>1, <2>3 DEF End
  <2> QED
    BY <1>2, <2>1, <2>2, <2>3 DEF SM_alloc
<1>3. ASSUME NEW b \in live, SM_dealloc(b) PROVE NoMemoryNoBlocks'
  <2> DEFINE s == b.size
  <2>0. PInv /\ TypeOK
    BY DEF RInv, PInv, TInv
  <2>1. PICK new : /\ new = BlockReturned(m_PoolMap[s], s, b.addr)
                   /\ m_PoolMap' = [m_PoolMap EXCEPT ![s] = new]
    BY <1>3, <2>0, FoundInItsPool DEF SM_dealloc
  <2>2. /\ Backed(s) /\ s \in SizeId /\ s \in Nat \ {0} /\ m_PoolMap[s] \in PoolData
        /\ m_PoolMap[s].startAddress <= b.addr /\ b.addr \in Nat
    <3>1. /\ Backed(s) /\ s \in Pools /\ s \in Nat \ {0} /\ Fits(s, m_PoolMap[s])
          /\ b.addr \in m_PoolMap[s].startAddress .. m_PoolMap[s].endAddress
      BY <2>0, HeldBlock
    <3> QED
      BY <2>0, <3>1 DEF Pools, Fits, TypeOK
  <2>3. new \in PoolData /\ new.startAddress = m_PoolMap[s].startAddress
    BY <2>1, <2>2, ReturnedFields
  <2>4. /\ Pools' = Pools \cup {s} /\ m_PoolMap'[s] = new
        /\ \A t \in SizeId \ {s} : /\ m_PoolMap'[t] = m_PoolMap[t]
                                   /\ Backed(t)' <=> Backed(t)
    BY <2>0, <2>1, <2>2, <2>3, PoolsAfter
  <2>5. Backed(s)'
    BY <2>2, <2>3, <2>4 DEF Backed
  <2> QED
    BY <2>4, <2>5 DEF RInv, NoMemoryNoBlocks, Pools
<1>4. CASE initStorageManager
  <2>1. PICK start \in [InitialPools -> Heap \cup {0}] :
          m_PoolMap' = [s \in SizeId |->
            IF s \in InitialPools THEN initializePoolData(s * POOL_SIZE, start[s], s)
            ELSE m_PoolMap[s]]
    BY <1>4 DEF initStorageManager
  <2>2. ASSUME NEW s \in InitialPools
        PROVE  /\ m_PoolMap'[s].freeBlocks = POOL_SIZE
               /\ m_PoolMap'[s].nextFreeBlockInSequence = 0
               /\ ~Waiting(m_PoolMap'[s])
    <3>1. s \in SizeId \ {0} /\ start[s] \in Heap \cup {0}
      BY Addresses
    <3>2. m_PoolMap'[s] = initializePoolData(s * POOL_SIZE, start[s], s)
      BY <2>1, <3>1
    <3> QED
      BY <3>1, <3>2, FullNewPool
  <2>3. \A s \in SizeId \ InitialPools : m_PoolMap'[s] = m_PoolMap[s]
    BY <2>1
  <2>4. POOL_SIZE > 0
    BY Addresses DEF PoolsOfSeveralBlocks
  <2> SUFFICES ASSUME NEW s \in Pools', ~Backed(s)'
               PROVE  /\ m_PoolMap'[s].freeBlocks > 0
                      /\ m_PoolMap'[s].nextFreeBlockInSequence = 0 =>
                           m_PoolMap'[s].freeBlocks = POOL_SIZE
                      /\ m_PoolMap'[s].nextFreeBlockInSequence \in {0, 1}
                      /\ ~Waiting(m_PoolMap'[s])
    BY DEF NoMemoryNoBlocks
  <2>5. CASE s \in InitialPools
    BY <2>2, <2>4, <2>5
  <2>6. CASE s \notin InitialPools
    BY <2>3, <2>6 DEF RInv, NoMemoryNoBlocks, Backed, Pools
  <2> QED
    BY <2>5, <2>6
<1> QED
  BY <1>1, <1>2, <1>3, <1>4 DEF Next, vars

-----------------------------------------------------------------------------
(* The clients' view: what Promise's variables stand for.                  *)
BlockOf(b) ==
  [size |-> b.size, block |-> findBlockFromAddress(b.addr, b.size, m_PoolMap[b.size])]

BlocksView == [s \in SizeId |-> IF Backed(s) THEN m_PoolMap[s].totalBlocks ELSE 0]

OwnedView == {[size |-> b.size, block |-> findBlockFromAddress(b.addr, b.size, m_PoolMap[b.size])] :
                b \in live}

FullView == ended = "exhausted"

PromiseVars == <<BlocksView, OwnedView, FullView>>

(* Blocks keep their numbers as long as their pools stay where they are.   *)
LEMMA SameNumbers ==
  ASSUME NEW b, m_PoolMap'[b.size].startAddress = m_PoolMap[b.size].startAddress
  PROVE  [size  |-> b.size,
          block |-> findBlockFromAddress(b.addr, b.size, m_PoolMap'[b.size])] = BlockOf(b)
  BY DEF BlockOf, findBlockFromAddress

(* No block has two holders.                                               *)
LEMMA OneHolder ==
  ASSUME PoolsFitInUnsigned, PInv, NEW b \in live, NEW c \in live, BlockOf(b) = BlockOf(c)
  PROVE  b = c
<1>1. b.size = c.size
  BY DEF BlockOf
<1>2. findBlockFromAddress(b.addr, b.size, m_PoolMap[b.size]) =
        findBlockFromAddress(c.addr, c.size, m_PoolMap[c.size])
  BY DEF BlockOf
<1>3. b.addr = c.addr
  BY <1>1, <1>2, HeldBlock
<1> QED
  BY <1>1, <1>3 DEF PInv, TInv, TypeOK

(* Before initStorageManager there are no blocks, and what is made keeps   *)
(* its number of blocks.                                                   *)
LEMMA InitConfigures ==
  ASSUME PoolsFitInUnsigned, PoolsOfSeveralBlocks, RInv, initStorageManager
  PROVE  Promise!Configure
<1>1. live = {} /\ live' = {} /\ ended' = ended
  BY NothingHeldBeforeInit DEF initStorageManager, RInv
<1>2. \A s \in SizeId : ~Backed(s)
  BY DEF RInv, PInv, Fits, Backed, initStorageManager, PoolsOfSeveralBlocks
<1>3. \A s \in SizeId : BlocksView[s] = 0
  BY <1>2 DEF BlocksView
<1>4. OwnedView' = OwnedView
  BY <1>1 DEF OwnedView
<1> QED
  BY <1>1, <1>3, <1>4 DEF Promise!Configure, Promise!Keeps, BlocksView, OwnedView

(* A block is handed out to one owner, or no block at all.                 *)
LEMMA HandOutAcquires ==
  ASSUME PoolsFitInUnsigned, PInv, PInv', ended = "none", NEW s \in SizeId, NEW pool,
         Fits(s, pool),
         s \in Pools => pool = m_PoolMap[s],
         HandOut(pool, s)
  PROVE  Promise!Acquire \/ UNCHANGED PromiseVars
<1> DEFINE k   == BlockToTake(pool)
           ptr == findAddressFromBlock(k, s, pool)
           new == BlockTaken(pool, s)
<1>1. CASE End("strayed")
  <2>1. UNCHANGED <<m_PoolMap, live>> /\ ended' = "strayed"
    BY <1>1 DEF End
  <2> QED
    BY <2>1 DEF PromiseVars, BlocksView, OwnedView, FullView, Backed, Pools
<1>2. CASE /\ ptr = 0 \/ InPool(pool, s, ptr)
           /\ m_PoolMap' = [m_PoolMap EXCEPT ![s] = new]
           /\ live' = live \cup (IF ptr = 0 THEN {} ELSE {[size |-> s, addr |-> ptr]})
           /\ UNCHANGED <<m_initialPoolSize, ended>>
  <2>0. TypeOK /\ pool \in PoolData /\ s \in Nat \ {0}
    BY Addresses DEF PInv, TInv, Fits
  <2>1. /\ new \in PoolData /\ new.startAddress = pool.startAddress
        /\ new.totalBlocks = pool.totalBlocks
    BY <2>0, TakenFields
  <2> HIDE DEF new, ptr, k
  <2>2. /\ Pools' = Pools \cup {s} /\ m_PoolMap'[s] = new
        /\ \A t \in SizeId \ {s} : /\ m_PoolMap'[t] = m_PoolMap[t]
                                   /\ Backed(t)' <=> Backed(t)
    BY <1>2, <2>0, <2>1, PoolsAfter
  <2>3. \A c \in live : /\ c.size \in SizeId
                        /\ m_PoolMap'[c.size].startAddress = m_PoolMap[c.size].startAddress
    BY <2>1, <2>2 DEF PInv, Pools
  <2>4. \A c \in live :
          [size  |-> c.size,
           block |-> findBlockFromAddress(c.addr, c.size, m_PoolMap'[c.size])] = BlockOf(c)
    BY <2>3, SameNumbers
  <2>5. \A t \in SizeId \ {s} : BlocksView'[t] = BlocksView[t]
    BY <2>2 DEF BlocksView
  <2>6. FullView' = FullView
    BY <1>2 DEF FullView
  <2>7. CASE pool.startAddress = 0
    <3>1. ptr = 0
      BY <1>2, <2>7 DEF InPool
    <3>2. ~Backed(s) /\ ~Backed(s)'
      BY <2>1, <2>2, <2>7 DEF Backed
    <3>3. BlocksView'[s] = BlocksView[s]
      BY <3>2 DEF BlocksView
    <3>4. BlocksView' = BlocksView
      BY <2>5, <3>3 DEF BlocksView
    <3>5. live' = live
      BY <1>2, <3>1
    <3>6. OwnedView' = OwnedView
      BY <2>4, <3>5 DEF OwnedView, BlockOf
    <3> QED
      BY <2>6, <3>4, <3>6 DEF PromiseVars
  <2>8. CASE pool.startAddress # 0
    <3> DEFINE b   == [size |-> s, addr |-> ptr]
               blk == [size |-> s, block |-> k]
    <3>1. /\ k \in 0 .. POOL_SIZE /\ ptr # 0 /\ ptr = pool.startAddress + k * s
          /\ (InPool(pool, s, ptr) <=> k < POOL_SIZE)
          /\ b \notin live
      BY <2>0, <2>8, NextBlock DEF k, ptr
    <3>2. k \in 0 .. POOL_SIZE - 1
      BY <1>2, <3>1, Addresses
    <3>3. live' = live \cup {b}
      BY <1>2, <3>1
    <3>4. findBlockFromAddress(ptr, s, m_PoolMap'[s]) = k
      <4>1. m_PoolMap'[s].startAddress = pool.startAddress /\ pool.startAddress \in Nat
        BY <2>0, <2>1, <2>2 DEF PoolData
      <4> QED
        BY <2>0, <3>1, <4>1, BlockAddress
    <3>5. OwnedView' = OwnedView \cup {blk}
      <4>1. OwnedView' = {[size  |-> c.size,
                           block |-> findBlockFromAddress(c.addr, c.size, m_PoolMap'[c.size])] :
                             c \in live'}
        BY DEF OwnedView
      <4>2. OwnedView = {BlockOf(c) : c \in live}
        BY DEF OwnedView, BlockOf
      <4>3. [size  |-> b.size,
             block |-> findBlockFromAddress(b.addr, b.size, m_PoolMap'[b.size])] = blk
        BY <3>4
      <4> HIDE DEF b, blk
      <4>4. OwnedView' \subseteq OwnedView \cup {blk}
        BY <2>4, <3>3, <4>1, <4>2, <4>3
      <4>5. OwnedView \subseteq OwnedView' /\ blk \in OwnedView'
        BY <2>4, <3>3, <4>1, <4>2, <4>3
      <4> QED
        BY <4>4, <4>5
    <3>6. blk \notin OwnedView
      <4> SUFFICES ASSUME NEW c \in live, blk = BlockOf(c) PROVE FALSE
        BY DEF OwnedView, BlockOf
      <4>1. c.size = s /\ k = findBlockFromAddress(c.addr, c.size, m_PoolMap[c.size])
        BY DEF BlockOf
      <4>2. s \in Pools /\ c.addr = m_PoolMap[s].startAddress + k * s
        BY <4>1, HeldBlock
      <4>3. c.addr = ptr
        BY <3>1, <4>2
      <4>4. c = b
        BY <2>0, <4>1, <4>3 DEF TypeOK
      <4> QED
        BY <3>1, <4>4
    <3>7. Backed(s)' /\ BlocksView'[s] = POOL_SIZE
      <4>1. Backed(s)'
        BY <2>1, <2>2, <2>8 DEF Backed
      <4>2. m_PoolMap'[s].totalBlocks = POOL_SIZE
        BY <2>1, <2>2, <2>8 DEF Fits
      <4> QED
        BY <4>1, <4>2 DEF BlocksView
    <3>8. BlocksView[s] = 0 \/ BlocksView'[s] = BlocksView[s]
      <4>1. CASE Backed(s)
        <5>1. s \in Pools /\ pool = m_PoolMap[s]
          BY <4>1 DEF Backed
        <5>2. pool.totalBlocks = POOL_SIZE
          BY <2>8 DEF Fits
        <5> QED
          BY <3>7, <4>1, <5>1, <5>2 DEF BlocksView
      <4>2. CASE ~Backed(s)
        BY <4>2 DEF BlocksView
      <4> QED
        BY <4>1, <4>2
    <3>9. \A t \in SizeId : BlocksView[t] = 0 \/ BlocksView'[t] = BlocksView[t]
      BY <2>5, <3>8
    <3>10. blk \in OwnedView' \ OwnedView /\ blk.block \in 0 .. BlocksView'[blk.size] - 1
      BY <3>2, <3>5, <3>6, <3>7
    <3> HIDE DEF blk
    <3>11. \E x \in OwnedView' \ OwnedView :
             /\ OwnedView' = OwnedView \cup {x}
             /\ \A t \in SizeId : BlocksView[t] = 0 \/ BlocksView'[t] = BlocksView[t]
             /\ x.block \in 0 .. BlocksView'[x.size] - 1
             /\ UNCHANGED FullView
      BY <2>6, <3>5, <3>9, <3>10
    <3> QED
      BY <3>11 DEF Promise!Acquire, Promise!Keeps, BlocksView, OwnedView, FullView
  <2> QED
    BY <2>7, <2>8
<1> QED
  BY <1>1, <1>2 DEF HandOut

(* A pool that counts no free block has none.                              *)
LEMMA ExhaustedTurnsAway ==
  ASSUME PoolsFitInUnsigned, PoolsOfSeveralBlocks, RInv, NEW s \in Pools,
         m_PoolMap[s].freeBlocks = 0, End("exhausted")
  PROVE  Promise!TurnAway
<1> DEFINE pool == m_PoolMap[s]
<1>1. Backed(s)
  BY DEF RInv, NoMemoryNoBlocks
<1>2. s \in SizeId /\ Fits(s, pool) /\ pool.startAddress # 0 /\ TypeOK /\ s \in Nat \ {0}
  BY <1>1, Addresses DEF RInv, PInv, TInv, Pools, Backed, Fits
<1>3. BlocksView[s] = POOL_SIZE /\ POOL_SIZE > 0 /\ POOL_SIZE \in Nat
  BY <1>1, <1>2, Addresses DEF BlocksView, Fits, PoolsOfSeveralBlocks
<1>4. Held(s) = BlocksFrom(pool.startAddress, s)
  <2>1. Cardinality(Held(s)) = POOL_SIZE
    <3>1. 0 = POOL_SIZE - Cardinality(Held(s)) /\ Cardinality(Held(s)) \in Nat
      BY <1>2, HeldAreBlocks DEF Fits
    <3> QED
      BY <1>3, <3>1
  <2> QED
    BY <1>2, <2>1, HeldAreBlocks
<1>5. ASSUME NEW k \in 0 .. POOL_SIZE - 1
      PROVE  [size |-> s, block |-> k] \in OwnedView
  <2> DEFINE b == [size |-> s, addr |-> pool.startAddress + k * s]
  <2>1. b \in live
    BY <1>4 DEF BlocksFrom, Held
  <2>2. findBlockFromAddress(b.addr, b.size, m_PoolMap[b.size]) = k
    <3>1. k \in 0 .. POOL_SIZE /\ pool.startAddress \in Nat
      BY <1>2, <1>3 DEF Fits, PoolData
    <3> QED
      BY <1>2, <3>1, BlockAddress
  <2>3. b.size = s
    OBVIOUS
  <2> HIDE DEF b
  <2> QED
    BY <2>1, <2>2, <2>3 DEF OwnedView
<1>6. UNCHANGED <<m_PoolMap, live>> /\ ended' = "exhausted"
  BY DEF End
<1>7. UNCHANGED <<BlocksView, OwnedView>> /\ FullView' = TRUE
  BY <1>6 DEF BlocksView, OwnedView, FullView, Backed, Pools
<1>8. \E t \in SizeId : /\ BlocksView[t] > 0
                        /\ \A k \in 0 .. BlocksView[t] - 1 : [size |-> t, block |-> k] \in OwnedView
  BY <1>2, <1>3, <1>5
<1> QED
  BY <1>7, <1>8 DEF Promise!TurnAway, BlocksView, OwnedView, FullView

(* A free gives up one block, and its pool keeps its blocks.               *)
LEMMA DeallocReleases ==
  ASSUME PoolsFitInUnsigned, PInv, NEW b \in live, SM_dealloc(b)
  PROVE  Promise!Release
<1> DEFINE s   == b.size
           blk == BlockOf(b)
<1>0. TypeOK
  BY DEF PInv, TInv
<1>1. PICK new : /\ new = BlockReturned(m_PoolMap[s], s, b.addr)
                 /\ m_PoolMap' = [m_PoolMap EXCEPT ![s] = new]
                 /\ live' = live \ {b}
                 /\ UNCHANGED ended
  BY FoundInItsPool DEF SM_dealloc
<1>2. /\ Backed(s) /\ s \in SizeId /\ s \in Nat \ {0} /\ m_PoolMap[s] \in PoolData
      /\ m_PoolMap[s].startAddress <= b.addr /\ b.addr \in Nat
  <2>1. /\ Backed(s) /\ s \in Pools /\ s \in Nat \ {0} /\ Fits(s, m_PoolMap[s])
        /\ b.addr \in m_PoolMap[s].startAddress .. m_PoolMap[s].endAddress
    BY HeldBlock
  <2> QED
    BY <1>0, <2>1 DEF Pools, Fits, TypeOK
<1>3. /\ new \in PoolData /\ new.startAddress = m_PoolMap[s].startAddress
      /\ new.totalBlocks = m_PoolMap[s].totalBlocks
  BY <1>1, <1>2, ReturnedFields
<1>4. /\ Pools' = Pools \cup {s} /\ m_PoolMap'[s] = new
      /\ \A t \in SizeId \ {s} : /\ m_PoolMap'[t] = m_PoolMap[t]
                                 /\ Backed(t)' <=> Backed(t)
  BY <1>0, <1>1, <1>2, <1>3, PoolsAfter
<1>5. Backed(s)'
  BY <1>2, <1>3, <1>4 DEF Backed
<1>6. BlocksView' = BlocksView
  BY <1>2, <1>3, <1>4, <1>5 DEF BlocksView
<1>7. \A c \in live :
        [size  |-> c.size,
         block |-> findBlockFromAddress(c.addr, c.size, m_PoolMap'[c.size])] = BlockOf(c)
  <2>1. \A c \in live : c.size \in SizeId
    BY DEF PInv, Pools
  <2>2. \A c \in live : m_PoolMap'[c.size].startAddress = m_PoolMap[c.size].startAddress
    BY <1>3, <1>4, <2>1
  <2> QED
    BY <2>2, SameNumbers
<1>8. OwnedView' = {BlockOf(c) : c \in live \ {b}}
  BY <1>1, <1>7 DEF OwnedView
<1>9. OwnedView = {BlockOf(c) : c \in live}
  BY DEF OwnedView, BlockOf
<1>10. \A c \in live : c # b => BlockOf(c) # BlockOf(b)
  BY OneHolder
<1> HIDE DEF s
<1>11. blk \in OwnedView \ OwnedView' /\ OwnedView' = OwnedView \ {blk}
  <2> HIDE DEF BlockOf
  <2> QED
    BY <1>8, <1>9, <1>10
<1>12. FullView' = FullView
  BY <1>1 DEF FullView
<1>13. \E x \in OwnedView \ OwnedView' : OwnedView' = OwnedView \ {x} /\ UNCHANGED <<BlocksView, FullView>>
  BY <1>6, <1>11, <1>12
<1> QED
  BY <1>13 DEF Promise!Release, BlocksView, OwnedView, FullView

(* Every step of the manager is one that its clients may see, or one that  *)
(* they do not.                                                            *)
LEMMA NextImplements ==
  ASSUME PoolsFitInUnsigned, PoolsOfSeveralBlocks, RInv, [Next]_vars
  PROVE  [Promise!Next]_PromiseVars
<1>0. PInv /\ PInv' /\ TypeOK
  BY NextKeepsPInv DEF RInv, PInv, TInv
<1>1. ASSUME UNCHANGED <<m_PoolMap, live>>, FullView' = FullView
      PROVE  UNCHANGED PromiseVars
  BY <1>1 DEF PromiseVars, BlocksView, OwnedView, Backed, Pools
<1>2. ASSUME NEW size \in SizeId, SM_alloc(size)
      PROVE  Promise!Acquire \/ Promise!TurnAway \/ UNCHANGED PromiseVars
  <2>0. ended = "none"
    BY <1>2 DEF SM_alloc
  <2>1. CASE size \in Pools /\ HandOut(m_PoolMap[size], size)
    <3>1. Fits(size, m_PoolMap[size])
      BY <2>1, <1>0 DEF PInv
    <3> QED
      BY <1>0, <2>0, <2>1, <3>1, HandOutAcquires
  <2>2. ASSUME size \notin Pools, size # 0, NEW pool \in createNewPool(size), HandOut(pool, size)
        PROVE  Promise!Acquire \/ UNCHANGED PromiseVars
    <3>1. Fits(size, pool) \/ End("strayed")
      BY <1>0, <2>2, FreshPoolFits, EmptyPoolFitsOrStrays
    <3>2. CASE Fits(size, pool)
      BY <1>0, <2>0, <2>2, <3>2, HandOutAcquires
    <3>3. CASE End("strayed")
      BY <1>1, <2>0, <3>3 DEF End, FullView
    <3> QED
      BY <3>1, <3>2, <3>3
  <2>3. CASE size \in Pools /\ m_PoolMap[size].freeBlocks = 0 /\ End("exhausted")
    BY <2>3, ExhaustedTurnsAway
  <2>4. CASE End("divided")
    BY <1>1, <2>0, <2>4 DEF End, FullView
  <2> QED
    BY <1>2, <2>1, <2>2, <2>3, <2>4 DEF SM_alloc
<1>3. ASSUME NEW b \in live, SM_dealloc(b) PROVE Promise!Release
  BY <1>0, <1>3, DeallocReleases
<1>4. CASE initStorageManager
  BY <1>4, InitConfigures DEF Promise!Next
<1>5. CASE UNCHANGED vars
  BY <1>1, <1>5 DEF vars, FullView
<1> QED
  BY <1>2, <1>3, <1>4, <1>5 DEF Next, Promise!Next

(* The manager implements FixedPools: a pool serves as many callers as it  *)
(* has blocks, each block one of them, and SM_alloc aborts with the pool   *)
(* exhausted only when every block of it is in use.                        *)
THEOREM PoolsImplemented ==
  PoolsFitInUnsigned /\ PoolsOfSeveralBlocks => (Spec => ImplementsFixedPools)
<1> SUFFICES ASSUME PoolsFitInUnsigned, PoolsOfSeveralBlocks
             PROVE  Spec => ImplementsFixedPools
  OBVIOUS
<1>1. Init => RInv
  BY PoolsAssumption
     DEF Init, RInv, NoMemoryNoBlocks, PInv, TInv, TypeOK, Pools, Endings
<1>2. RInv /\ [Next]_vars => RInv'
  BY NextKeepsPInv, NextKeepsNoMemory DEF RInv
<1>3. Init => Promise!Init
  BY DEF Init, Promise!Init, Backed, Pools
<1>4. RInv /\ [Next]_vars => [Promise!Next]_PromiseVars
  BY NextImplements
<1> QED
  BY <1>1, <1>2, <1>3, <1>4, PTL
     DEF Spec, ImplementsFixedPools, Promise!Spec, PromiseVars, BlocksView, OwnedView, FullView

==============================================================================
