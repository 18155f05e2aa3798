# Memory management experiments: TLA+ models, checks and proofs

The repository holds four independent programs about memory management and a header that
declares a common API. This directory models them in TLA+, checks small instances with TLC and proves with
TLAPS, for every value of the constants, what the instances show of safety: every invariant, every
property of steps and every refinement that a passing run checks is a theorem. Liveness stays with TLC.

## 1. Inventory

| component | sources | state | operations | status |
|---|---|---|---|---|
| Block and page allocator | `Custom Memory Management Functions APIs/mm.c`, `mm.h` | per family a list of VM pages and a priority list of free blocks; in each page a chain of meta blocks | `xcalloc`, `xfree` and what they call | modelled, proved |
| Page family registry | same | linked pages of an array of families, `struct_size` 0 ends an array | `mm_init`, `mm_instantiate_new_page_family`, `lookup_page_family_by_name` | modelled, proved |
| Allocator statistics | same | none | `mm_print_block_usage`, `mm_print_memory_usage` | modelled (what they count), proved |
| Fixed size storage manager | `Fixed Size Storage Manager/sm.cpp`, `sm.h` | a pool of equal blocks per size, with counters, the next block in sequence and one freed block | `initStorageManager`, `SM_alloc`, `SM_dealloc` | modelled, proved |
| Its driver | `Fixed Size Storage Manager/main.cpp` | loop counter, last block | `main` | modelled, proved |
| Address translation | `Address Translation/addrTranslate.c` | page table, TLB, frame counters, statistics | `translate_address`, `handle_page_fault`, `testInput` | modelled, proved |
| Memory protection | `Memory Protection/mem_prot2.c` | page table with permissions, its mutex, a frame counter, physical memory | `set_page_permissions`, `check_permissions`, `handle_fault_or_violation` | modelled, proved |
| API header | `mmapi.h` | none | declarations | not modelled: no code, and no source includes it |

**Interaction.** The programs do not call each other. Inside the allocator, a family owns its
pages and its free list; a node of the free list lives *inside* the meta block it lists, so the
list, the chains of blocks and the mapping of pages are three views of the same bytes, and the
hard behaviours come from their disagreement. The list itself is the `glthread` library, which
is not in the repository. The storage manager owes its addresses to `malloc`. The driver is the
only client of the storage manager. In address translation the TLB caches the page table. In
memory protection threads share the page table, the mutex and the frame counter.

**What is hard, and what correctness means.**

* Registry: the end of a page of families (where its cursor and the new page disagree), families
  of size 0, names that are registered twice, use before `mm_init`. Lookups must go on finding what
  they once found, because every page of the allocator points back to its family.
* Allocator: long mixes of splits and merges (the blocks of a page must cover it, without
  overlap, and be coalesced); boundary sizes; nodes that merges and unmapped pages leave in the
  free list (the head of the list must be a free block); pages leaving a family's list at any
  place; a failing `mmap`; 32 bit products.
* Storage manager: one slot for freed blocks and a counter for all of them; use before
  initialisation; pools without memory; the search of a pool by address with an inclusive end.
* Address translation: frames given out by a counter (no two pages may share one); a TLB that is
  not refilled; entries of the same second; signed division; the double count of the retry; loops
  over a file that end differently for each way the file may end.
* Memory protection: a lock that covers only a part of the accesses (decisions must be those of
  one moment, every path must release the lock); the frame counter outside of the lock; failing
  reads.

`PROJECT.json` lists the hazards with their lines and the properties about them.

## 2. Plan

1. `PageBlocks`, `PageFamilies` (allocator), with `ByteHeap` as the callers' view. **Done.**
2. Proof of its inductive invariant: `PageBlocks_proofs`, `PageFamilies_proofs`. **Done.**
3. `StoragePools`, its abstract view `FixedPools`, and `PoolDriver` on top of it. **Done.**
4. `AddressTranslation` with the abstract `PageMapping`. **Done.**
5. `MemProtection` with threads, against `AccessControl` and `PageMapping`. **Done.**
6. Proof about `MemProtection` for any number of threads: mutual exclusion, decisions under the
   lock, the refinement of `AccessControl`: `MemProtection_proofs`. **Done.**
7. Proofs about `AddressTranslation` (exclusive frames, for all `NUM_PAGES <= NUM_FRAMES`; the
   refinement of `PageMapping`), about `StoragePools` (disjoint blocks, accounts, the refinement of
   `FixedPools`), `PoolDriver`, and the frames of `MemProtection`. **Done.**
8. `FamilyRegistry`: registration across a page boundary, a `struct_size` of 0, a failing
   `mmap`; `FamilyDirectory`, which is what `PageFamilies` relies on; the proof that it may:
   `FamilyRegistry_proofs`. **Done.**
   `UsageReport`, the statistics over `PageFamilies`. **Done.**
9. Proofs that `PageFamilies` implements `ByteHeap`, of `PageOnlyWhenNeeded`, of the page lists and of
   what the statistics count: `PageFamiliesHeap_proofs`, `PageFamilies_proofs`. **Done.**

What is left is outside of the prover's reach: the three liveness properties.

## 3. Modules

### Registry

`FamilyRegistry` has the list of pages of families as a sequence, oldest first, because pages are
only added; a family's place, a page and an index, is its address. A page is a function with one
index more than its array has: what is behind the array, where the code writes when a page is full.
(63 families of 64 bytes fit a page of 4096, and the next one begins in the page and ends behind it.)
Such a write is undefined; the model lets the program end (`fault`) or go on, with no harm done to
memory anybody uses. A `Name` stands for the 32 characters that `strncmp` compares. `registered` is
a history variable: what the API has accepted.

`FamilyDirectory` is the promise, and the interface to the allocator: names get one size and one
place for good. `PageFamilies` takes `Family` and `StructSize` as constants, and assumes sizes from 1 to
a page; that `FamilyRegistry` implements `FamilyDirectory` is what allows this. A family that registers
while others allocate disturbs none of them, so the two are not composed into one state space.

### Allocator

`PageBlocks` is one page: a function from offsets to meta blocks, or `NULL`. Its operators are
the page-local helpers of the code under their names (`mm_union_free_blocks`, `bind_blocks` for
the macro `mm_bind_blocks_for_allocation`, `mm_is_vm_page_empty`, ...). Pointers are offsets.
The two branches of the split that make a new block are one (they do the same), and the exact fit
and the hard fragmentation are the other. A merged block stays in the function, marked
`absorbed`: its bytes stay in memory and its list node too. `absorbed` is the only history field.

`PageFamilies` is the API. A call is one step, as the allocator has no locks and no callbacks.
`first_page`, `page`, `block` and `free_list` are the C structures; `free_list` is a set of nodes
with the size each was inserted with, which orders it, and equal sizes stay in any order. `fault`
ends a behaviour when the code does something whose outcome is undefined: it writes through a
`NULL` page, reads a node of an unmapped page, overwrites a listed node, or inserts a node that is
in the list. Nothing is claimed about the states after that. What each step reads of the list
(`InsertReadsUnmapped`) is the comparisons a priority insert must make.

`ByteHeap` is what callers are promised: disjoint regions in pages of one family, and a page is
mapped exactly while a region in it is owned. `ImplementsByteHeap` instantiates it with the memory
behind the allocated blocks.

`UsageReport` extends `PageFamilies` by what the statistics count on their walks along `next` of the
pages and `next_block` of the blocks. The code begins these walks with the newest page of families
only (`mm.c:586`), and reads it when there is none (`mm_print_usage` of `FamilyRegistry`).

### Storage manager

`StoragePools` has a pool per size in `m_PoolMap`, the fields under their names, and `live`, what
the clients hold. `malloc` is external: it fails or returns a region away from the others. `ended`
tells how the program stopped: an `abort()` of the source, the division by zero of a pool of size
0, or a block that is not memory of its pool. `FixedPools` is the promise: a block has one owner
and a request is turned away only by a pool whose blocks are all in use. `PoolDriver` extends it by
main's loop, with both values of the macro `DO_POOL_ALLOCATION`: a variable that never changes.

### Address translation

`AddressTranslation` takes one address per step, as `main` does; the four `Translate` actions are
the paths of `translate_address`, with the page fault handler, `set_page_table_entry` and
`add_tlb_entry` inside. `tlb_hits` counts what `get_page_table_entry` counts, also in
`set_page_table_entry` and in the retry. `Tick` is the clock, in seconds. `testInput` is one round of
its loop: a `fscanf`, a read of `memory[frame_idx][offset]` and the test of `feof`, which depends on
how the file ends (`ending`: after the last digit, with white space, or with a word that is no number).
A file without a number leaves `address` uninitialised, that is, with any value. `output` is a set, and
`testInput` reads its addresses in any order: what the properties say does not depend on the order of
the lines. `PageMapping` is the promise: pages get frames for good, one to one.

### Memory protection

`MemProtection` has threads that do what `main` does, in any interleaving; a step is one access to
shared state, with `pc` for where a thread is. The mutex is `page_table_lock`. The counter of
`allocate_frame` is tested, read and written in three steps, as no lock covers it. Reads of the
backing store succeed, fail without effect, or fail half-way. A read into a frame that does not
exist sets `stray`, the last step. `PASSES_ADDRESS` says what the caller gives the fault handler: the
address, as `main` does, or its page number, as the parameter is named. `main` only ever checks
address 0, for which it is the same. `AccessControl` is the promise: setting, loading and checking
each take effect at once. In the refinement a page counts as valid from the moment its permissions
are written under the lock, because no check can look between that and the write of the valid bit.

## 4. Runs

| run | checks | bounds |
|---|---|---|
| `FamilyRegistry_main` | types, no family vanishes, the refinement of `FamilyDirectory` | 5 names, sizes 0, 1, 4, 5 on pages of 4 bytes with 2 families, 3 pages |
| `PageFamilies_api` | types, tiling, offsets, coalescing, exact free list, head of the list, page lists, statistics, `PageOnlyWhenNeeded`, `ImplementsByteHeap` | 2 families (struct sizes 3, 5), 3 pages of 9 bytes, meta block of 2 bytes at 1, 0 to 2 units (10 bytes exceed a page) |
| `PageFamilies_stale`, `_wrap` | violated: see section 7 | 2 pages of 12 bytes; `UINT32` 16 for `_wrap` |
| `StoragePools_api` | types, disjointness, counters, searches, the causes of a block outside its pool, the refinement of `FixedPools` | sizes 0 to 3, two initial pools, 3 blocks per pool, 5 heap addresses |
| `StoragePools_lost` | violated | 2 blocks per pool |
| `PoolDriver_main` | the driver stays in its pools and comes to an end | 2 pools of 3 blocks or the heap, 6 allocations |
| `AddressTranslation_main` | frames, TLB, faults, injectivity, `testInput`, the ratios, eviction, the refinement of `PageMapping`, the end of the run | 3 pages and frames, TLB of 2, pages of 2 bytes, 5 references, 3 seconds |
| `AddressTranslation_negative` | violated | the same |
| `MemProtection_threads` | decisions under the lock, the refinement of `AccessControl`, every call returns | 2 threads, 1 page, 1 frame, 2 calls each, the handler gets the address |
| `MemProtection_alone` | types, the bytes of loaded pages, the refinement of `PageMapping` | 1 thread, 3 pages, 2 frames, 4 calls, the handler gets the page number |
| `MemProtection_frames` | violated | 2 threads, 2 pages and frames, 1 call each |

**Why the bounds are enough.** Two families on a page are enough for a first, a last and a family past the
end, and three pages for a page that is neither the oldest nor the newest; a lost name can be registered
again, so that five names fill them. Sizes 0, 1, 4 and 5 are none, the least, a page and more than a page.
A page of 9 bytes with meta blocks of 2 holds up to four blocks, so that a block is freed between free,
allocated and no neighbours, on a page that stays or goes, and requests leave 0, 1, 2, 3 and more bytes: an
exact fit, hard fragmentation, a free block of no bytes, a full split. What the theorems state for every
page size needs no more. Three pages are needed to take one out of the middle of a list. Three blocks in a pool let two be freed, in both
orders, while one is held; the five heap addresses put pools in both orders, next to each other and
apart. Three pages on a TLB of two force evictions, with equal and different times. The addresses
include both bytes of every page, negative ones that round to page 0 and to page -1, and one past the
end; the same holds for the addresses and page numbers of `MemProtection`, where a frame fewer than
pages makes the frames run out.

`CHECK_DEADLOCK FALSE` stands in every configuration because every program may stop: on a fault, an
`abort()`, at the end of its input or of its calls.

**Fairness.** Liveness is claimed three times. `DriverSpec`, and `FairSpec` of `AddressTranslation`, have weak
fairness of the program's next step, not of the clock's: `main` is one thread and goes on while it can.
`FairSpec` of `MemProtection` has weak fairness of each thread's
steps, which a preemptive scheduler gives; a POSIX mutex promises no order among its waiters, so
nothing is assumed about who gets the lock. With finitely many calls weak fairness is enough: the others
run out of calls and the lock stays free. The allocator and its registry are called and return; nothing in
them waits.

## 5. Proofs

`PageBlocks_proofs` has the lemmas about one page: `EmptyPageWellFormed`, a split keeps a page well
formed (`ExactSplitWellFormed`, `NewBlockSplitWellFormed`, together `SplitPage`), a union does
(`UnionWellFormed`), a release does (`ReleaseWellFormed`, `ReleasePage`). *Well formed* means linked,
tiled, located and coalesced, the parts of the invariants of `PageFamilies`.

`PageFamilies_proofs` proves `Invariance`, `Spec => []IInv`. The inductive invariant is

    TypeOK, PagesWellFormed, NodesSound, FreeBlocksHaveNodes, AbsorbedBlocksCovered, PageListsLinked, NoRingOfPages

None of the checked invariants is inductive alone. That a page is tiled after a split needs the block
that is split to be a free one of the chain; xcalloc takes it from the head of the free list; that the
head is in the chain needs that a node which a merge left behind lies in a bigger free block
(`AbsorbedBlocksCovered`) which is listed too (`FreeBlocksHaveNodes`), and that sizes in the list are true
(`NodesSound`). `PageListsLinked` is needed to know that `mm_vm_page_delete_and_free` writes only headers
of mapped pages. From `IInv` follow `TypeCorrect`, `Tiling`, `Locating`, `Coalescing`, `Listing`,
`BiggestInItsChain` and `PageLists`.

`PageLists` is about reachability: `PagesOf` iterates `next`. Links in both directions do not rule out a
ring of pages beside the list; `NoRingOfPages` does: a set of mapped pages that has the `prev` of each of its
members is empty. The iteration itself is a recursive function on numbers. `InductiveSet` is induction
for a *set* of naturals (a least element outside of it is absurd), from which `Iterates` gets that such a
function exists, and `GrowthStops` that it has reached everything after as many steps as there are
pages: the theorem is for any finite set of page addresses.

`PageFamiliesHeap_proofs` has the callers' view. `HeapImplemented`: `PageFamilies` implements `ByteHeap`. Its
invariant `HInv` adds two facts to `IInv`: no block lies in the header of a page, and a page is mapped only while
somebody owns memory of it. Each call is then one `Allocate` or `Free` of `ByteHeap`, or a stutter: a split adds
the region of the block that was split (`SplitIsAllocate`) and no other allocated block changes
(`OthersKeepTheirRegions`); a release takes one away (`BlockFreedIsFree`); a page goes with its last region
(`EmptiedPage`: the page is empty after the merges only if no other block of it was allocated).
`NewPagesAreNeeded` is the property of steps `PageOnlyWhenNeeded`: the head of the list is a block of its chain
and no listed block is bigger, so if it is too small they all are, although stale nodes are in the list.
`ReportsAreTrue` is `ReportIsTrue`, for finitely many families and pages. Its sums are folds, whose order is that of
`CHOOSE`; `FoldExists` and `FoldSums` show that the fold has a value and that the order does not matter,
`SameSum` that a bijection keeps the sum, and the rest gives the bijections: occupied blocks and owned
regions (`OccupiedAreOwned`), the other blocks and the nodes of the free list (`OthersAreListed`).

`MemProtection_proofs` proves, for any number of threads, pages, frames and calls: `Locking`, the
inductive invariant `LInv`; `TypeCorrect`; `DecisionStands`; and `AtomicAccess`: `MemProtection` implements
`AccessControl`. `LInv` adds to the types and the stated invariant that a thread holds the lock exactly
while it is between its lock and its unlock (else another thread could change permissions in between),
that the targets of a running `set_page_permissions` are in range, and that a check has no answer before
it decides. For the refinement each action is a `Grant`, `Load`, `Ask`, `Answer` or a stutter. The answer
"page fault" is the delicate one: it is given on a valid bit of FALSE, and `MutualExclusion` rules out that
another thread has set permissions and not yet the valid bit; "allowed" needs that the valid bit read before
is still set, which holds because nothing ever clears it.

The frames are outside of the lock, and two threads do give two pages one frame (`MemProtection_frames`).
So what the module proves of them is for `OneThread`: `AloneHandlerKeepsBytes` (`LoadedPagesHoldTheirBytes`) from
`HInv`, by which frames are used in the order of the counter (`LoadedBelowCounter`) and the one that is being
loaded belongs to nobody (`FrameTaken`); and `AloneHandlerMaps`, the refinement of `PageMapping`, which needs
`PassesPageNumber` too: the handler is told the page that was checked. With an address in its place another
page is loaded, and may be given a second frame. `main` fulfils both: its threads are one, its address is 0.

`AddressTranslation_proofs` proves `AInv`, which has besides the checked invariants

    UsedFramesCharged, EmptyEntriesOldest, OutputStands, StraysOutsideSpace

A page fault takes the least used frame. That nobody has it (`FramesExclusive`) needs two facts: a frame is
charged with an access exactly when a page has it (`UsedFramesCharged`), and there are as many frames as
pages, so that some frame is not charged when a page is not loaded (`LeastUsedFrame`, the pigeonhole
principle). `EmptyEntriesOldest` says why the TLB fills up before it evicts. `OutputStands` relates
addresses that were translated long ago to the page table: loaded pages never move. From it follow `Injectivity` and
`TestAgrees`, with the arithmetic of truncated division in `SpaceAddress` and `ByteOfOneFrame`. `Eviction` is a
property of steps, and `MappingImplemented` the refinement of `PageMapping`.

`StoragePools_proofs` proves `PInv`: every pool `Fits` the rest of the state, that is, it has its memory to itself,
what clients hold of it are blocks that the sequence has passed and not the freed block that waits, and its
counters count them. `HandOutKeepsPInv` is the heart: the block handed out is the waiting one or the next of the
sequence, and neither is held. From `PInv` follow `Disjointness`, `Accounts`, `Findability`, `NextIsFree` and
`StraysOnlyThen`. `FoundInItsPool` settles the inclusive end of the search by address (`sm.cpp`): no block begins at
the end of another pool, because `malloc` puts a header in front of a region. The theorems other than
`TypeCorrect` assume `PoolsFitInUnsigned`, pools below 4 GiB: above, the 32 bit product at `sm.cpp:222` gives two
blocks one address. `PoolsImplemented`, the refinement of `FixedPools`, also assumes `PoolsOfSeveralBlocks`
(`POOL_SIZE > 1`): of a pool without memory the first block is `nullptr` and the second is outside of it, but a pool
of one block would report itself exhausted first, with nothing in use.

`PoolDriver_proofs` proves `DriverTypes` and `DriverStays` from `DInv`. A pool remembers one freed block and
its counter counts all of them, which is why `StoragePools_lost` is violated; the driver stays clear of it because it
frees only the block it has just taken, and so has a free slot for it (`PoolsInv`). Then no block is ever lost
(`NothingLost`), and a pool without memory ends the loop at its first `nullptr` (`NoNullTaken`).

`FamilyRegistry_proofs` proves `TypeCorrect`, `Vanishing` and `DirectoryImplemented` from its inductive
invariant `RInv`. The iterations over a page stop at the first `struct_size` of 0, so what they see depends
on there being no gap: `PagesFillInTurn` says that all pages but the newest are full, and that the newest
one has no family behind its end. `PlacesOfFamilies` turns that into the set of places an iteration visits;
`NextFamily`, `FirstFamily` and `FamilyPastPage` show how one call changes it: by one place at the end, or
not at all. `NamesUnique` is what lets a lookup answer for all pages. Each call is then one `Register` of
`FamilyDirectory` or a stutter; a registration past its page is a stutter, its family is in no directory.

The assumptions are those of the modules: the geometry of a page (`PageGeometry`: a header and a meta
block fit a page), `FamilyAssumption` (registered sizes are between 1 and the page size, a page is smaller
than 2^32), `RegistryAssumption` (a page holds at least one family), `ProtectionAssumption`, `SizesAssumption`
(at least as many frames as pages, as in the code; some second passes on the clock that is not 0),
`PoolsAssumption` (`malloc` gives addresses above the size of a pool), `DriverAssumption`, and that `NULL` and `NONE`
are no values of the data. TLC evaluates them in every run. The hypotheses of single theorems are named above
and written in their statements.

Only model-checked: the three liveness properties, `DriverEnds`, `RunEnds` and `CallsReturn`, which the prover
cannot do.

## 6. What is not modelled

* What is printed: `mm_print_vm_page_details`, `mm_print_registered_page_families` and `displayPoolInfo` only
  print, and the statistics are modelled up to their numbers, without the filter by name.
* What a family written past its page destroys: the behaviour ends, or nothing in use is hit.
* Contents of memory, except which page a frame holds: no property depends on the bytes.
* `xfree` of an address that is not one of a live allocation, and `SM_dealloc` likewise: the code has no
  defence worth modelling, its callers own what they free.
* A program after undefined behaviour: a behaviour ends at the fault.
* The characters of `addresses.txt`, except how the file ends.
* The timing and the output of the driver.
* The width of the counters of address translation: 2^31 references are out of reach of its inputs.

## 7. Where the code and its own statements differ

| run | statement | what happens |
|---|---|---|
| `PageFamilies_stale` | `mm.c:306` asserts that the block from the free list is free | alloc, free, alloc: the page was unmapped with its block at the head of the list |
| `PageFamilies_wrap` | `mm.c:441-444`: NULL for a request above the page size | the product at `mm.c:460` wraps, and a smaller block is returned |
| `StoragePools_lost` | `sm.cpp:135` "Check if this pool has enough free blocks" | two frees in a row: the counter says one is free, the sequence is at its end |
| `AddressTranslation_negative` | `addrTranslate.c:118-119` "handling invalid page numbers" | -1 is page 0, offset -1 |
| `MemProtection_frames` | `mem_prot2.c:36` "Mutex for page table access" | two concurrent faults give two pages one frame |

The model also takes these paths, which no run singles out:

* `mm.c:212-224` adds a page of families and writes the family behind the old one: every family that comes to
  a full page is lost, though `mm_instantiate_new_page_family` returns and `mm.c:455` calls only what was
  never registered "not registered with Memory Manager". `NoFamilyVanishes` says that no other is lost.
* `mm.c:586` and `mm.c:639` walk the families of the newest page, unlike `mm.c:233-246`, which walks all of them.
* `addrTranslate.c:281` loops on `feof`: the byte of the last address is read twice if white space follows it,
  and at a word that is no number, where `addrTranslate.c:323` stops, the loop never ends.

* `mm.c:93` writes through the NULL of a failed `mmap`, though `mm.c:441-444` says that on an error
  xcalloc returns NULL (`fault` is then `"null_page"`).
* `sm.cpp:145` lets a request before the initialisation make a pool of 0 blocks and take one:
  2^32 - 1 are then free, against `sm.h:20-21`.
* `addrTranslate.c:255` counts a fault as a TLB hit too, against `addrTranslate.c:76`.
* `addrTranslate.c:217-222`, the read of the page, is commented out; `addrTranslate.c:23-24` says that valid
  pages are loaded.
* `mem_prot2.c:219` passes an address for the parameter `virtual_page_number` of `mem_prot2.c:182`: of an
  address other than 0, another page is loaded, or none.
* `mem_prot2.c:60` makes a page valid that has no frame; `mem_prot2.c:27` says "1: Page loaded".

In all of these the model does what the code does; the passing runs and the theorems hold
nevertheless, up to the step that is undefined.
