----------------------------- MODULE PageBlocks -----------------------------
(***************************************************************************)
(* The meta blocks inside one VM data page of the memory manager (mm.c and *)
(* mm.h).  A page is a function from offsets to the meta block stored      *)
(* there, or NULL; the pointers of the C structure are offsets in the same *)
(* page.  The operators are the page-local helpers of mm.c; they read and  *)
(* return such functions, and PageFamilies composes them into the API.     *)
(***************************************************************************)
EXTENDS Integers

CONSTANTS
  SYSTEM_PAGE_SIZE,  \* getpagesize()
  SIZEOF_META,       \* sizeof(block_meta_data_t)
  OFFSET_META,       \* offset_of(vm_page_t, block_meta_data)
  NULL

(* page_memory follows block_meta_data in vm_page_t, and both fit a page. *)
ASSUME PageGeometry ==
  /\ SYSTEM_PAGE_SIZE \in Nat
  /\ SIZEOF_META \in Nat \ {0}
  /\ OFFSET_META \in Nat
  /\ OFFSET_META + SIZEOF_META <= SYSTEM_PAGE_SIZE
  /\ NULL \notin Int

Offset == 0 .. SYSTEM_PAGE_SIZE - 1

(***************************************************************************)
(* block_meta_data_t without its list glue.  absorbed is a history field:  *)
(* TRUE once mm_union_free_blocks has bypassed the block.  Its bytes stay  *)
(* in memory, and a free list node may still be inside them.               *)
(***************************************************************************)
Block == [is_free    : BOOLEAN,
          block_size : Nat,
          offset     : Nat,
          prev_block : Offset \cup {NULL},
          next_block : Offset \cup {NULL},
          absorbed   : BOOLEAN]

ASSUME NullIsNoBlock == NULL \notin Block

Blocks == [Offset -> Block \cup {NULL}]

(* The blocks an iteration from the first one along next_block visits. *)
InChain(bp, k) == bp[k] # NULL /\ ~bp[k].absorbed

Chain(bp) == {k \in Offset : InChain(bp, k)}

mm_max_page_allocatable_memory == SYSTEM_PAGE_SIZE - (OFFSET_META + SIZEOF_META)

NoBlocks == [o \in Offset |-> NULL]

(* What allocate_vm_page leaves in a fresh page: MARK_VM_PAGE_EMPTY, then   *)
(* one free block of the whole allocatable memory.                         *)
EmptyPage ==
  [NoBlocks EXCEPT ![OFFSET_META] =
    [is_free    |-> TRUE,
     block_size |-> mm_max_page_allocatable_memory,
     offset     |-> OFFSET_META,
     prev_block |-> NULL,
     next_block |-> NULL,
     absorbed   |-> FALSE]]

(* NEXT_META_BLOCK_BY_SIZE: where the block would end, going by its size. *)
EndBySize(bp, k) == k + SIZEOF_META + bp[k].block_size

(* Where the memory of the block really ends: at the next meta block, or   *)
(* at the page boundary.                                                   *)
EndInPage(bp, k) ==
  IF bp[k].next_block = NULL THEN SYSTEM_PAGE_SIZE ELSE bp[k].next_block

-----------------------------------------------------------------------------
(* Seeded faults of the definitions below, to see the properties fail.     *)

LeavesNewBlock_SplitsOnlyWhenRoomForData(bp, k, size) ==
  bp[k].block_size - size > 0

bind_blocks_NoBackLink(bp, k, j) ==
  [bp EXCEPT ![j].prev_block = k,
             ![j].next_block = bp[k].next_block,
             ![k].next_block = j]

NewFreeBlock_OffsetSkipsMeta(bp, k, size) ==
  [is_free    |-> TRUE,
   block_size |-> bp[k].block_size - size - SIZEOF_META,
   offset     |-> bp[k].offset + size,
   prev_block |-> NULL,
   next_block |-> NULL,
   absorbed   |-> FALSE]

ReleaseBlock_NoMerge(bp, k) ==
  [bp EXCEPT ![k].is_free = TRUE, ![k].block_size = EndInPage(bp, k) - k - SIZEOF_META]

mm_is_vm_page_empty_IgnoresNext(bp) ==
  /\ bp[OFFSET_META].prev_block = NULL
  /\ bp[OFFSET_META].is_free

-----------------------------------------------------------------------------
(***************************************************************************)
(* mm_split_free_data_block_for_allocation: the block at k is allocated    *)
(* with size bytes.  Less remaining space than a meta block is left unused *)
(* ("hard internal fragmentation", and the exact fit); from there on the   *)
(* code's two other branches (partial and full split) are the same: a free *)
(* block is made of what remains, possibly with no data bytes at all.      *)
(***************************************************************************)
LeavesNewBlock(bp, k, size) == bp[k].block_size - size >= SIZEOF_META

NewFreeBlock(bp, k, size) ==
  [is_free    |-> TRUE,
   block_size |-> bp[k].block_size - size - SIZEOF_META,
   offset     |-> bp[k].offset + SIZEOF_META + size,
   prev_block |-> NULL,
   next_block |-> NULL,
   absorbed   |-> FALSE]

(* mm_bind_blocks_for_allocation: the new block j follows the block k. *)
bind_blocks(bp, k, j) ==
  LET bound == [bp EXCEPT ![j].prev_block = k,
                          ![j].next_block = bp[k].next_block,
                          ![k].next_block = j]
  IN  IF bp[k].next_block = NULL THEN bound
      ELSE [bound EXCEPT ![bp[k].next_block].prev_block = j]

SplitBlock(bp, k, size) ==
  LET taken == [bp EXCEPT ![k].is_free = FALSE, ![k].block_size = size]
      j     == k + SIZEOF_META + size
  IN  IF LeavesNewBlock(bp, k, size)
      THEN bind_blocks([taken EXCEPT ![j] = NewFreeBlock(bp, k, size)], k, j)
      ELSE taken

(* The other meta blocks whose bytes the split overwrites: with the new    *)
(* meta block, or with the memset to zero of the memory xcalloc returns.   *)
Trampled(bp, k, size) ==
  LET from == k + SIZEOF_META
      upto == IF LeavesNewBlock(bp, k, size) THEN from + size + SIZEOF_META
                                             ELSE from + size
  IN  {o \in Offset : /\ bp[o] # NULL
                      /\ o # k
                      /\ o < upto
                      /\ o + SIZEOF_META > from}

-----------------------------------------------------------------------------
(* Bytes between the end of the block by its size and its real end. *)
mm_get_hard_internal_memory_frag_size(bp, k) == EndInPage(bp, k) - EndBySize(bp, k)

(* first takes in the block second that follows it.  Nothing here unlinks  *)
(* second from the free list.                                              *)
mm_union_free_blocks(bp, first, second) ==
  LET after  == bp[second].next_block
      joined == [bp EXCEPT ![first].block_size = @ + SIZEOF_META + bp[second].block_size,
                           ![first].next_block = after,
                           ![second].absorbed  = TRUE]
  IN  IF after = NULL THEN joined
      ELSE [joined EXCEPT ![after].prev_block = first]

FreeNext(bp, k) == bp[k].next_block # NULL /\ bp[bp[k].next_block].is_free

FreePrev(bp, k) == bp[k].prev_block # NULL /\ bp[bp[k].prev_block].is_free

(* mm_free_blocks up to the merges: the block becomes free with all of its *)
(* memory, the fragmented part too, then takes in a free next block, ...   *)
ReleaseBlock(bp, k) ==
  LET freed == [bp EXCEPT ![k].is_free = TRUE,
                          ![k].block_size = @ + mm_get_hard_internal_memory_frag_size(bp, k)]
  IN  IF FreeNext(bp, k) THEN mm_union_free_blocks(freed, k, bp[k].next_block) ELSE freed

(* ... then is taken in by a free previous block: its return_block. *)
ReturnBlock(bp, k) == IF FreePrev(bp, k) THEN bp[k].prev_block ELSE k

FreeBlock(bp, k) ==
  LET released == ReleaseBlock(bp, k)
  IN  IF FreePrev(bp, k)
      THEN mm_union_free_blocks(released, bp[k].prev_block, k)
      ELSE released

mm_is_vm_page_empty(bp) ==
  /\ bp[OFFSET_META].next_block = NULL
  /\ bp[OFFSET_META].prev_block = NULL
  /\ bp[OFFSET_META].is_free

-----------------------------------------------------------------------------
(* Predicates on the blocks of a page, the parts of PageFamilies' invariants *)

(* prev_block and next_block are inverse, start at OFFSET_META, and skip   *)
(* no block: walking next_block visits exactly Chain(bp), by address.      *)
Linked(bp) ==
  /\ InChain(bp, OFFSET_META)
  /\ \A k \in Chain(bp) :
       LET prev == bp[k].prev_block
           next == bp[k].next_block
       IN  /\ prev = NULL <=> k = OFFSET_META
           /\ prev # NULL => /\ prev \in Chain(bp)
                             /\ bp[prev].next_block = k
           /\ next # NULL => /\ next \in Chain(bp)
                             /\ bp[next].prev_block = k
                             /\ k < next
           /\ \A j \in Chain(bp) : j <= k \/ (next # NULL /\ next <= j)

(* Every block ends where the next starts or the page ends, except that an *)
(* allocated one may leave less than a meta block's worth of bytes unused. *)
Tiled(bp) ==
  \A k \in Chain(bp) :
    /\ EndBySize(bp, k) <= EndInPage(bp, k)
    /\ bp[k].is_free => EndBySize(bp, k) = EndInPage(bp, k)
    /\ EndInPage(bp, k) < EndBySize(bp, k) + SIZEOF_META

(* offset is the true position: MM_GET_PAGE_FROM_META_BLOCK finds the page. *)
Located(bp) == \A k \in Chain(bp) : bp[k].offset = k

(* No two neighbours are both free. *)
Coalesced(bp) ==
  \A k \in Chain(bp) : bp[k].is_free => ~FreeNext(bp, k)

(* An absorbed block lies in a free block of the chain that is bigger.     *)
Covered(bp) ==
  \A k \in Offset : bp[k] # NULL /\ bp[k].absorbed =>
    \E j \in Chain(bp) : bp[j].is_free /\ j < k /\ EndBySize(bp, k) <= EndBySize(bp, j)

WellFormed(bp) == Linked(bp) /\ Tiled(bp) /\ Located(bp) /\ Coalesced(bp)

=============================================================================
