----------------------------- MODULE UsageReport -----------------------------
(***************************************************************************)
(* The statistics of the memory manager (mm.c): what mm_print_block_usage  *)
(* and mm_print_memory_usage count while they walk the pages of a family   *)
(* and the blocks of a page.  They change nothing.  The families are those *)
(* of the registry's newest page (FamilyRegistry).                         *)
(***************************************************************************)
EXTENDS PageFamilies, FiniteSetsExt

-----------------------------------------------------------------------------
(* The blocks that the walk over f's pages comes to. *)
BlocksOf(f) ==
  UNION {{[page |-> p, at |-> k] : k \in Chain(block[p])} : p \in PagesOf(f)}

IsOccupied(b) == ~block[b.page][b.at].is_free

application_memory_usage(b) == block[b.page][b.at].block_size + SIZEOF_META

mm_print_block_usage(f) ==
  LET occupied == {b \in BlocksOf(f) : IsOccupied(b)}
  IN  [total_block_count        |-> Cardinality(BlocksOf(f)),
       free_block_count         |-> Cardinality(BlocksOf(f) \ occupied),
       occupied_block_count     |-> Cardinality(occupied),
       application_memory_usage |->
         MapThenSumSet(application_memory_usage, occupied) % UINT32]

(* cumulative_vm_pages_claimed_from_kernel, of all families. *)
mm_print_memory_usage ==
  MapThenSumSet(LAMBDA f : Cardinality(PagesOf(f)), Family)

-----------------------------------------------------------------------------
(* The counters that the walks along next and next_block give are those of *)
(* the memory in the callers' hands and of the free list, and the pages    *)
(* are all that the kernel has given and not got back, after any history   *)
(* of splits, merges and returned pages.                                   *)
ReportIsTrue ==
  /\ mm_print_memory_usage = Cardinality(MappedPages)
  /\ \A f \in Family :
       LET report == mm_print_block_usage(f)
           owned  == {r \in Owned : r.family = f}
           nodes  == {e \in free_list[f] : Mapped(e.page) /\ InChain(block[e.page], e.at)}
       IN  /\ report.occupied_block_count = Cardinality(owned)
           /\ report.application_memory_usage =
                MapThenSumSet(LAMBDA r : r.upto - r.from + SIZEOF_META, owned) % UINT32
           /\ report.free_block_count = Cardinality(nodes)
           /\ report.total_block_count =
                report.free_block_count + report.occupied_block_count

=============================================================================
