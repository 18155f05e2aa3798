---------------------------- MODULE PageFamilies ----------------------------
(***************************************************************************)
(* The memory manager's allocation API, xcalloc and xfree (mm.c, mm.h).    *)
(* Every registered page family owns a doubly linked list of VM data pages *)
(* and a priority list of its free blocks, biggest first.  The manager is  *)
(* sequential: a call is one step.                                         *)
(*                                                                         *)
(* The free list is the glthread library's, which is not in the repository.*)
(* A node lives inside the meta block it lists, and xfree does not unlink  *)
(* the nodes of blocks it merges or of pages it unmaps.  What the library  *)
(* does with a node whose bytes are gone is undefined: a call that uses    *)
(* one sets fault and is the last step of the behaviour.                   *)
(***************************************************************************)
EXTENDS PageBlocks, FiniteSets

CONSTANTS
  Family,      \* the families mm_instantiate_new_page_family has registered
  StructSize,  \* the struct_size of each
  Page,        \* the page addresses the kernel may return (bounds the model)
  Units,       \* the numbers of units a caller asks for
  UINT32       \* 2^32, the modulus of uint32_t

(* mm_instantiate_new_page_family refuses a struct_size above the page     *)
(* size; lookup_page_family_by_name never finds a family of size 0.        *)
ASSUME FamilyAssumption ==
  /\ StructSize \in [Family -> 1 .. SYSTEM_PAGE_SIZE]
  /\ Units \subseteq Int
  /\ UINT32 \in Nat
  /\ SYSTEM_PAGE_SIZE < UINT32
  /\ NULL \notin Page \cup Family

VARIABLES
  first_page,  \* per family: the head of its page list
  page,        \* per address: the vm_page_t header, NULL when not mapped
  block,       \* per address: the meta blocks of the page
  free_list,   \* per family: the nodes of free_block_priority_list_head
  fault        \* "none", or how the last call ended the program

vars == <<first_page, page, block, free_list, fault>>

(* size is the block's size when it was inserted, which fixes its place.   *)
Node == [page : Page, at : Offset, size : Nat]

Header == [next      : Page \cup {NULL},
           prev      : Page \cup {NULL},
           pg_family : Family]

ASSUME NullIsNoHeader == NULL \notin Header

Faults == {"none",
           "null_page",   \* allocate_vm_page writes through a NULL page
           "unmapped",    \* a node of a page returned to the kernel is read
           "clobbered",   \* the bytes of a listed node are overwritten
           "relinked"}    \* a node that is in the list is inserted again

TypeOK ==
  /\ first_page \in [Family -> Page \cup {NULL}]
  /\ page \in [Page -> Header \cup {NULL}]
  /\ block \in [Page -> Blocks]
  /\ free_list \in [Family -> SUBSET Node]
  /\ fault \in Faults

Mapped(p) == page[p] # NULL

Listed(p, k) == \E f \in Family : \E e \in free_list[f] : e.page = p /\ e.at = k

Crash(kind) ==
  /\ fault' = kind
  /\ UNCHANGED <<first_page, page, block, free_list>>

-----------------------------------------------------------------------------
(* Seeded faults of the definitions below, to see the properties fail.     *)

Biggest_TakesSmallest(f) ==
  {e \in free_list[f] : \A d \in free_list[f] : e.size <= d.size}

DropPage_ForgetsNext(f, p) ==
  IF first_page[f] = p THEN [page EXCEPT ![p] = NULL]
  ELSE [page EXCEPT ![page[p].prev].next = page[p].next, ![p] = NULL]

PushPage_LosesOthers(f, p) ==
  [page EXCEPT ![p] = [next |-> NULL, prev |-> NULL, pg_family |-> f]]

AddFreeBlock_Forgotten(f, e) == UNCHANGED free_list

-----------------------------------------------------------------------------
(* The free list (glthread, external).  It is kept in the order of         *)
(* free_blocks_comparison_function, bigger first, equals in any order.     *)

NewNode(p, k, bp) == [page |-> p, at |-> k, size |-> bp[k].block_size]

(* mm_get_biggest_free_block_page_family: the right of the list's head. *)
Biggest(f) == {e \in free_list[f] : \A d \in free_list[f] : d.size <= e.size}

(* The first nodes behind the place of a node of size s. *)
FirstBehind(nodes, s) ==
  {e \in nodes : /\ e.size < s
                 /\ \A d \in nodes : d.size < s => d.size <= e.size}

(* glthread_priority_insert compares the new block with the ones before    *)
(* its place and the first one behind it; their pages must be mapped.      *)
InsertReadsUnmapped(nodes, s) ==
  \E e \in nodes : ~Mapped(e.page) /\ (e.size >= s \/ e \in FirstBehind(nodes, s))

InsertSucceeds(nodes, s) ==
  /\ \A e \in nodes : e.size >= s => Mapped(e.page)
  /\ FirstBehind(nodes, s) # {} => \E e \in FirstBehind(nodes, s) : Mapped(e.page)

-----------------------------------------------------------------------------
(* The page list of a family. *)

(* allocate_vm_page puts the new page at the head of the list ... *)
PushPage(f, p) ==
  LET pushed == [page EXCEPT ![p] =
                   [next |-> first_page[f], prev |-> NULL, pg_family |-> f]]
  IN  IF first_page[f] = NULL THEN pushed
      ELSE [pushed EXCEPT ![first_page[f]].prev = p]

(* ... and mm_vm_page_delete_and_free takes a page out of it.              *)
DropPage(f, p) ==
  LET next    == page[p].next
      prev    == page[p].prev
      forward == IF first_page[f] = p THEN page
                 ELSE [page EXCEPT ![prev].next = next]
      newPrev == IF first_page[f] = p THEN NULL ELSE prev
      back    == IF next = NULL THEN forward
                 ELSE [forward EXCEPT ![next].prev = newPrev]
  IN  [back EXCEPT ![p] = NULL]

mm_vm_page_delete_and_free(p) ==
  LET f == page[p].pg_family
  IN  /\ page' = DropPage(f, p)
      /\ first_page' = IF first_page[f] = p
                       THEN [first_page EXCEPT ![f] = page[p].next]
                       ELSE first_page
      /\ block' = [block EXCEPT ![p] = NoBlocks]

-----------------------------------------------------------------------------
(* units * struct_size, an int times a uint32_t. *)
Request(f, n) == (n * StructSize[f]) % UINT32

(***************************************************************************)
(* The split of the free block k of page p, whose blocks are bp; nodes is  *)
(* the family's list without that block.                                   *)
(***************************************************************************)
SplitFaults(bp, k, size, nodes) ==
  (IF Trampled(bp, k, size) # {} THEN {"clobbered"} ELSE {}) \cup
  (IF /\ LeavesNewBlock(bp, k, size)
      /\ InsertReadsUnmapped(nodes, NewFreeBlock(bp, k, size).block_size)
   THEN {"unmapped"} ELSE {})

mm_split_free_data_block_for_allocation(f, p, bp, k, size, nodes) ==
  LET split == SplitBlock(bp, k, size)
      new   == IF LeavesNewBlock(bp, k, size)
               THEN {NewNode(p, k + SIZEOF_META + size, split)} ELSE {}
  IN  /\ Trampled(bp, k, size) = {}
      /\ \A e \in new : InsertSucceeds(nodes, e.size)
      /\ block' = [block EXCEPT ![p] = split]
      /\ free_list' = [free_list EXCEPT ![f] = nodes \cup new]

(* mm_family_new_page_add and the split of the new page.  The page's one   *)
(* block is inserted at the head of the free list and taken out again.     *)
XcallocNewPage(f, size) ==
  \/ Crash("null_page")   \* mmap returned MAP_FAILED
  \/ \E p \in Page :
       /\ ~Mapped(p)
       /\ \/ /\ \E k \in Offset : Listed(p, k)   \* zero-filled under a node
             /\ Crash("clobbered")
          \/ /\ \A k \in Offset : ~Listed(p, k)
             /\ \/ \E kind \in SplitFaults(EmptyPage, OFFSET_META, size, free_list[f]) :
                     Crash(kind)
                \/ /\ mm_split_free_data_block_for_allocation(
                        f, p, EmptyPage, OFFSET_META, size, free_list[f])
                   /\ page' = PushPage(f, p)
                   /\ first_page' = [first_page EXCEPT ![f] = p]
                   /\ UNCHANGED fault

(* The biggest free block can satisfy the request. *)
XcallocBiggest(f, e, size) ==
  LET bp   == block[e.page]
      rest == free_list[f] \ {e}
  IN  \/ \E kind \in SplitFaults(bp, e.at, size, rest) : Crash(kind)
      \/ /\ mm_split_free_data_block_for_allocation(f, e.page, bp, e.at, size, rest)
         /\ UNCHANGED <<first_page, page, fault>>

(* xcalloc, from mm_allocate_free_data_block on. *)
xcalloc(f, n) ==
  LET size == Request(f, n)
  IN  /\ fault = "none"
      /\ size <= mm_max_page_allocatable_memory
      /\ \/ free_list[f] = {} /\ XcallocNewPage(f, size)
         \/ \E e \in Biggest(f) :
              \/ ~Mapped(e.page) /\ Crash("unmapped")
              \/ /\ Mapped(e.page)
                 /\ IF block[e.page][e.at].block_size < size
                    THEN XcallocNewPage(f, size)
                    ELSE XcallocBiggest(f, e, size)

(* "Memory Requested Exceeds Page Size": NULL, and nothing changes. *)
xcalloc_refused(f, n) ==
  /\ fault = "none"
  /\ Request(f, n) > mm_max_page_allocatable_memory
  /\ UNCHANGED vars

(* mm_add_free_block_meta_data_to_free_block_list, when it is well used. *)
AddFreeBlock(f, e) ==
  /\ InsertSucceeds(free_list[f], e.size)
  /\ free_list' = [free_list EXCEPT ![f] = @ \cup {e}]

(* The caller frees the memory of an allocated block. *)
Allocated(p, k) == Mapped(p) /\ InChain(block[p], k) /\ ~block[p][k].is_free

xfree(p, k) ==
  LET freed == FreeBlock(block[p], k)
      f     == page[p].pg_family
      e     == NewNode(p, ReturnBlock(block[p], k), freed)
  IN  /\ fault = "none"
      /\ Allocated(p, k)
      /\ \/ /\ mm_is_vm_page_empty(freed)
            /\ mm_vm_page_delete_and_free(p)
            /\ UNCHANGED <<free_list, fault>>
         \/ /\ ~mm_is_vm_page_empty(freed)
            /\ \/ Listed(p, e.at) /\ Crash("relinked")
               \/ /\ ~Listed(p, e.at)
                  /\ \/ InsertReadsUnmapped(free_list[f], e.size) /\ Crash("unmapped")
                     \/ /\ AddFreeBlock(f, e)
                        /\ block' = [block EXCEPT ![p] = freed]
                        /\ UNCHANGED <<first_page, page, fault>>

-----------------------------------------------------------------------------
Init ==
  /\ first_page = [f \in Family |-> NULL]
  /\ page = [p \in Page |-> NULL]
  /\ block = [p \in Page |-> NoBlocks]
  /\ free_list = [f \in Family |-> {}]
  /\ fault = "none"

Next ==
  \/ \E f \in Family, n \in Units : xcalloc(f, n) \/ xcalloc_refused(f, n)
  \/ \E p \in Page, k \in Offset : xfree(p, k)

Spec == Init /\ [][Next]_vars

-----------------------------------------------------------------------------
(* Properties *)

(* Every mapped page is exactly covered by its blocks, walked by           *)
(* next_block; prev_block is the inverse; an allocated block wastes less   *)
(* than a meta block.  Hence no two blocks overlap, whatever the order of  *)
(* splits and merges (mm_bind_blocks_for_allocation, mm_union_free_blocks). *)
PagesTiled ==
  \A p \in Page : Mapped(p) => Linked(block[p]) /\ Tiled(block[p])

(* From any block MM_GET_PAGE_FROM_META_BLOCK finds its own page, so that  *)
(* xfree works on the right one (mm.c line 489; the code doubts the offset *)
(* at line 318).                                                           *)
BlocksFindTheirPage == \A p \in Page : Mapped(p) => Located(block[p])

(* mm_free_blocks merges with both neighbours, and that leaves no two free *)
(* blocks side by side in any history.                                     *)
FreeBlocksCoalesced == \A p \in Page : Mapped(p) => Coalesced(block[p])

(* The asserts of mm_print_block_usage (lines 597-602) cannot fail: a block *)
(* of a page is free exactly if its glue is in a list.  It is then in one  *)
(* list, the one of the page's family, once and at its true size.          *)
FreeBlocksListed ==
  \A p \in Page : Mapped(p) => \A k \in Chain(block[p]) :
    LET nodes(f) == {e \in free_list[f] : e.page = p /\ e.at = k}
        true_node == [page |-> p, at |-> k, size |-> block[p][k].block_size]
    IN  \A f \in Family :
          nodes(f) = IF block[p][k].is_free /\ f = page[p].pg_family THEN {true_node} ELSE {}

(* A node left behind by a merge is never the biggest of its list while    *)
(* its page is mapped: the free block it is inside of is listed and bigger.*)
(* So xcalloc never splits a block that is part of another.                *)
BiggestIsInChain ==
  \A f \in Family : \A e \in Biggest(f) :
    Mapped(e.page) => InChain(block[e.page], e.at)

(* The pages reached from first_page of a family by next. *)
PagesOf(f) ==
  LET reach[n \in Nat] ==
        IF n = 0 THEN {first_page[f]} \ {NULL}
        ELSE LET mapped == {p \in reach[n - 1] : Mapped(p)}
             IN  reach[n - 1] \cup ({page[p].next : p \in mapped} \ {NULL})
  IN  reach[Cardinality(Page)]

(* The page lists partition the mapped pages by family, and prev is the    *)
(* inverse of next: no page is lost or shared when one in the middle or at *)
(* the head is returned to the kernel.                                     *)
PageListsIntact ==
  /\ \A f \in Family : PagesOf(f) = {p \in Page : Mapped(p) /\ page[p].pg_family = f}
  /\ \A p \in Page : Mapped(p) =>
       /\ LET next == page[p].next IN next # NULL => Mapped(next) /\ page[next].prev = p
       /\ LET prev == page[p].prev IN
            IF prev = NULL THEN first_page[page[p].pg_family] = p
            ELSE Mapped(prev) /\ page[prev].next = p

(* A page is requested from the kernel only when no free block of any of   *)
(* the family's pages could hold the request ("Time to add a new page to   *)
(* Page family to satisfy the request").                                   *)
PageOnlyWhenNeeded ==
  [][\A p \in Page : ~Mapped(p) /\ Mapped(p)' =>
       \A q \in Page : Mapped(q) /\ page[q].pg_family = page'[p].pg_family =>
         \A k \in Chain(block[q]) : block[q][k].is_free =>
           block[q][k].block_size < block'[p][OFFSET_META].block_size]_vars

(* The client's view.  ByteHeap says what allocation promises; the owned   *)
(* memory is what follows the meta blocks of the allocated blocks.         *)
MappedPages == {p \in Page : Mapped(p)}

OwnedIn(p) ==
  {[family |-> page[p].pg_family, page |-> p,
    from   |-> k + SIZEOF_META,   upto |-> EndBySize(block[p], k)] :
      k \in {o \in Offset : Allocated(p, o)}}

Owned == UNION {OwnedIn(p) : p \in MappedPages}

Heap == INSTANCE ByteHeap WITH
          PageSize <- SYSTEM_PAGE_SIZE, owned <- Owned, pages <- MappedPages

(* xcalloc hands out memory of a page of the family that overlaps no       *)
(* other's, xfree takes back exactly one caller's, no call moves or resizes *)
(* the memory of another, and between calls a page is mapped exactly if it *)
(* holds somebody's memory.                                                *)
ImplementsByteHeap == Heap!Spec

-----------------------------------------------------------------------------
(* What the sources say, and the code does not do *)

(* mm.c line 306, assert(block_meta_data->is_free == MM_TRUE), of the block *)
(* the free list gives: it is a free block of a mapped page.               *)
BiggestIsFree ==
  \A f \in Family : \A e \in Biggest(f) :
    Mapped(e.page) /\ InChain(block[e.page], e.at) /\ block[e.page][e.at].is_free

(* mm.c lines 441-444: "If there is an error during the allocation process, *)
(* such as [...] the memory request exceeding the page size, it returns     *)
(* NULL": a call that is granted asked for at most a page.                 *)
OversizeIsRefused ==
  [][\A f \in Family, n \in Units :
       xcalloc(f, n) /\ fault' = "none" =>
         n * StructSize[f] <= mm_max_page_allocatable_memory]_vars

=============================================================================
