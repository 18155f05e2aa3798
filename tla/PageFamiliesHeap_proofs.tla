------------------------ MODULE PageFamiliesHeap_proofs ------------------------
(***************************************************************************)
(* The callers' view of the allocation API: PageFamilies implements        *)
(* ByteHeap, asks the kernel for a page only when it has to, and reports   *)
(* what there is (UsageReport).                                            *)
(***************************************************************************)
EXTENDS PageFamilies_proofs, UsageReport

(* No block lies in the header of a page, or before its first block.       *)
AboveHeader(bp) == \A o \in Offset : bp[o] # NULL => OFFSET_META <= o

BlocksAboveHeader == \A p \in Page : Mapped(p) => AboveHeader(block[p])

(* A page is mapped only while somebody owns memory of it.                 *)
PagesInUse == \A p \in Page : Mapped(p) => \E k \in Offset : Allocated(p, k)

(* The inductive invariant of the refinement.                              *)
HInv == IInv /\ BlocksAboveHeader /\ PagesInUse


-----------------------------------------------------------------------------
(* The blocks of a page *)

(* A block lies in its page.                                               *)
LEMMA BlockInPage ==
  ASSUME NEW bp \in Blocks, WellFormed(bp), NEW k \in Chain(bp)
  PROVE  /\ k \in Nat
         /\ EndBySize(bp, k) \in Nat
         /\ k + SIZEOF_META <= EndBySize(bp, k)
         /\ EndBySize(bp, k) <= SYSTEM_PAGE_SIZE
<1>1. /\ k \in Offset /\ bp[k].block_size \in Nat /\ bp[k].next_block \in Offset \cup {NULL}
  BY ChainBlock
<1>2. EndBySize(bp, k) <= EndInPage(bp, k)
  BY DEF WellFormed, Tiled
<1>3. EndInPage(bp, k) <= SYSTEM_PAGE_SIZE /\ EndInPage(bp, k) \in Int
  BY <1>1, PageGeometry DEF EndInPage, Offset
<1> QED
  BY <1>1, <1>2, <1>3, PageGeometry DEF EndBySize, Offset

(* A block ends before a later one begins.                                 *)
LEMMA ChainBlocksApart ==
  ASSUME NEW bp \in Blocks, WellFormed(bp), NEW k \in Chain(bp), NEW j \in Chain(bp), k < j
  PROVE  EndBySize(bp, k) <= j
<1>1. /\ k \in Int /\ j \in Int /\ bp[k].block_size \in Nat
      /\ bp[k].next_block \in Offset \cup {NULL}
  BY ChainBlock
<1>2. bp[k].next_block # NULL /\ bp[k].next_block <= j
  BY <1>1 DEF WellFormed, Linked
<1>3. EndBySize(bp, k) <= bp[k].next_block
  BY <1>2 DEF WellFormed, Tiled, EndInPage
<1>4. bp[k].next_block \in Int /\ EndBySize(bp, k) \in Int
  BY <1>1, <1>2, PageGeometry DEF Offset, EndBySize
<1> QED
  BY <1>1, <1>2, <1>3, <1>4

(* A split allocates one block of size bytes, and no other changes hands.  *)
LEMMA SplitAllocates ==
  ASSUME NEW bp \in Blocks, WellFormed(bp),
         NEW k \in Chain(bp), bp[k].is_free,
         NEW size \in Nat, size <= bp[k].block_size
  PROVE  LET s == SplitBlock(bp, k, size)
         IN  /\ s \in Blocks /\ WellFormed(s)
             /\ InChain(s, k) /\ ~s[k].is_free /\ s[k].block_size = size
             /\ \A o \in Offset : o # k =>
                  /\ InChain(s, o) /\ ~s[o].is_free <=> InChain(bp, o) /\ ~bp[o].is_free
                  /\ InChain(bp, o) /\ ~bp[o].is_free => s[o].block_size = bp[o].block_size
             /\ AboveHeader(bp) => AboveHeader(s)
<1> DEFINE s == SplitBlock(bp, k, size)
<1>1. k \in Offset /\ k \in Int /\ bp[k] # NULL
  BY ChainBlock DEF Chain, InChain
<1>2. CASE ~LeavesNewBlock(bp, k, size)
  <2>1. /\ s \in Blocks /\ WellFormed(s) /\ Chain(s) = Chain(bp)
        /\ ~s[k].is_free /\ s[k].block_size = size
        /\ \A o \in Offset \ {k} : s[o] = bp[o]
    BY <1>2, ExactSplitWellFormed
  <2> HIDE DEF s
  <2>2. InChain(s, k)
    BY <2>1 DEF Chain
  <2>3. AboveHeader(bp) => AboveHeader(s)
    BY <1>1, <2>1 DEF AboveHeader
  <2> QED
    BY <2>1, <2>2, <2>3 DEF s, InChain
<1>3. CASE LeavesNewBlock(bp, k, size)
  <2> DEFINE j == k + SIZEOF_META + size
  <2>1. /\ s \in Blocks /\ WellFormed(s)
        /\ j \in Offset \ Chain(bp) /\ k < j
        /\ Chain(s) = Chain(bp) \cup {j}
        /\ s[j].is_free /\ s[k].block_size = size
        /\ \A o \in Chain(bp) : /\ s[o].is_free <=> bp[o].is_free /\ o # k
                                /\ o # k => s[o].block_size = bp[o].block_size
        /\ \A o \in Offset \ Chain(s) : s[o] = bp[o]
    BY <1>3, NewBlockSplitWellFormed
  <2> HIDE DEF s, j
  <2>2. InChain(s, k) /\ ~s[k].is_free
    BY <2>1 DEF Chain
  <2>3. ASSUME NEW o \in Offset, o # k
        PROVE  /\ InChain(s, o) /\ ~s[o].is_free <=> InChain(bp, o) /\ ~bp[o].is_free
               /\ InChain(bp, o) /\ ~bp[o].is_free => s[o].block_size = bp[o].block_size
    BY <2>1, <2>3 DEF Chain
  <2>4. AboveHeader(bp) => AboveHeader(s)
    <3> SUFFICES ASSUME AboveHeader(bp), NEW o \in Offset, s[o] # NULL
                 PROVE  OFFSET_META <= o
      BY DEF AboveHeader
    <3>1. o \in Chain(bp) => bp[o] # NULL
      BY DEF Chain, InChain
    <3>2. OFFSET_META <= j
      BY <1>1, <2>1, PageGeometry DEF AboveHeader, Offset
    <3> QED
      BY <2>1, <3>1, <3>2 DEF AboveHeader
  <2> QED
    BY <2>1, <2>2, <2>3, <2>4 DEF s
<1> QED
  BY <1>2, <1>3

(* A release frees one block, and no other changes hands.                  *)
LEMMA ReleaseFrees ==
  ASSUME NEW bp \in Blocks, WellFormed(bp), NEW k \in Chain(bp), ~bp[k].is_free,
         ~FreePrev(bp, k)
  PROVE  LET r == ReleaseBlock(bp, k)
         IN  /\ r \in Blocks /\ WellFormed(r)
             /\ InChain(r, k) /\ r[k].is_free
             /\ \A o \in Offset : o # k =>
                  /\ InChain(r, o) /\ ~r[o].is_free <=> InChain(bp, o) /\ ~bp[o].is_free
                  /\ InChain(bp, o) /\ ~bp[o].is_free => r[o].block_size = bp[o].block_size
             /\ AboveHeader(bp) => AboveHeader(r)
<1> DEFINE r == ReleaseBlock(bp, k)
           m == bp[k].next_block
<1>1. /\ r \in Blocks /\ WellFormed(r) /\ k \in Chain(r)
      /\ Chain(r) = IF FreeNext(bp, k) THEN Chain(bp) \ {m} ELSE Chain(bp)
      /\ \A o \in Chain(r) : /\ r[o].is_free <=> bp[o].is_free \/ o = k
                             /\ o # k => r[o].block_size = bp[o].block_size
      /\ \A o \in Offset \ Chain(bp) : r[o] = bp[o]
  BY ReleaseWellFormed
<1>2. FreeNext(bp, k) => bp[m].is_free
  BY DEF FreeNext
<1> HIDE DEF r, m
<1>3. InChain(r, k) /\ r[k].is_free
  BY <1>1 DEF Chain
<1>4. ASSUME NEW o \in Offset, o # k
      PROVE  /\ InChain(r, o) /\ ~r[o].is_free <=> InChain(bp, o) /\ ~bp[o].is_free
             /\ InChain(bp, o) /\ ~bp[o].is_free => r[o].block_size = bp[o].block_size
  BY <1>1, <1>2, <1>4 DEF Chain
<1>5. AboveHeader(bp) => AboveHeader(r)
  <2> SUFFICES ASSUME AboveHeader(bp), NEW o \in Offset, r[o] # NULL
               PROVE  OFFSET_META <= o
    BY DEF AboveHeader
  <2>1. o \in Chain(bp) => bp[o] # NULL
    BY DEF Chain, InChain
  <2> QED
    BY <1>1, <2>1 DEF AboveHeader
<1> QED
  BY <1>1, <1>3, <1>4, <1>5 DEF r

(* A page that is not empty, by the test of the code, has a block in use.  *)
LEMMA NonEmptyPageInUse ==
  ASSUME NEW bp \in Blocks, WellFormed(bp), ~mm_is_vm_page_empty(bp)
  PROVE  \E o \in Offset : InChain(bp, o) /\ ~bp[o].is_free
<1> SUFFICES ASSUME \A o \in Offset : InChain(bp, o) => bp[o].is_free
             PROVE  FALSE
  OBVIOUS
<1>1. /\ OFFSET_META \in Chain(bp) /\ bp[OFFSET_META].is_free
      /\ bp[OFFSET_META].prev_block = NULL
  BY FirstOffset DEF WellFormed, Linked, Chain
<1>2. bp[OFFSET_META].next_block # NULL
  BY <1>1 DEF mm_is_vm_page_empty
<1>3. /\ bp[OFFSET_META].next_block \in Chain(bp)
      /\ ~bp[bp[OFFSET_META].next_block].is_free
  BY <1>1, <1>2 DEF WellFormed, Linked, Coalesced, FreeNext
<1> QED
  BY <1>3 DEF Chain

(* What mm_union_free_blocks does to the forward links.                     *)
LEMMA UnionLinks ==
  ASSUME NEW bp \in Blocks, NEW first \in Offset, bp[first] \in Block,
         NEW second \in Offset, bp[second] \in Block, first # second,
         bp[second].next_block # NULL =>
           /\ bp[second].next_block \in Offset
           /\ bp[bp[second].next_block] \in Block
           /\ bp[second].next_block # first /\ bp[second].next_block # second
  PROVE  LET u == mm_union_free_blocks(bp, first, second)
         IN  /\ u \in Blocks
             /\ u[first].next_block = bp[second].next_block
             /\ \A o \in Offset : bp[o] \in Block =>
                  /\ u[o] \in Block
                  /\ o # first => u[o].next_block = bp[o].next_block
<1> DEFINE n  == bp[second].next_block
           u  == mm_union_free_blocks(bp, first, second)
           bf == [bp[first] EXCEPT !.block_size = @ + SIZEOF_META + bp[second].block_size,
                                   !.next_block = n]
           bs == [bp[second] EXCEPT !.absorbed = TRUE]
           bn == [bp[n] EXCEPT !.prev_block = first]
<1>1. bp[first].block_size + SIZEOF_META + bp[second].block_size \in Nat
  BY PageGeometry DEF Block
<1>2. /\ bf \in Block /\ bf.next_block = n
      /\ bs \in Block /\ bs.next_block = n
      /\ n # NULL => bn \in Block /\ bn.next_block = bp[n].next_block
  BY <1>1 DEF Block
<1> DEFINE t == [bp EXCEPT ![first].block_size = @ + SIZEOF_META + bp[second].block_size,
                           ![first].next_block = n,
                           ![second].absorbed = TRUE]
           t1 == [bp EXCEPT ![first].block_size = @ + SIZEOF_META + bp[second].block_size]
           t2 == [t1 EXCEPT ![first].next_block = n]
           t3 == [t2 EXCEPT ![second].absorbed = TRUE]
<1>3. u = IF n = NULL THEN t ELSE [t EXCEPT ![n].prev_block = first]
  BY DEF mm_union_free_blocks
<1>4. t = t3
  OBVIOUS
<1> HIDE DEF u, t
<1>5. t2 = [bp EXCEPT ![first] = bf]
  BY DEF Blocks
<1>6. t2[second] = bp[second]
  BY <1>5 DEF Blocks
<1> HIDE DEF t2, bf
<1>7. t3 = [t2 EXCEPT ![second] = bs]
  BY <1>6
<1> HIDE DEF t3, bs
<1>8. /\ t \in Blocks /\ t[first] = bf /\ t[second] = bs
      /\ \A o \in Offset \ {first, second} : t[o] = bp[o]
  BY <1>2, <1>4, <1>5, <1>7 DEF Blocks
<1>a. ASSUME NEW o \in Offset, bp[o] \in Block
      PROVE  t[o] \in Block /\ (o # first => t[o].next_block = bp[o].next_block)
  <2>1. CASE o = first
    BY <2>1, <1>2, <1>8
  <2>2. CASE o = second
    BY <2>2, <1>2, <1>8
  <2>3. CASE o # first /\ o # second
    BY <2>3, <1>a, <1>8
  <2> QED
    BY <2>1, <2>2, <2>3
<1>b. t[first].next_block = n
  BY <1>2, <1>8
<1>9. CASE n = NULL
  <2>1. u = t
    BY <1>3, <1>9
  <2> QED
    BY <1>8, <1>a, <1>b, <2>1 DEF u
<1>10. CASE n # NULL
  <2>1. t[n] = bp[n]
    BY <1>8, <1>10
  <2>2. u = [t EXCEPT ![n] = bn]
    BY <1>3, <1>10, <2>1
  <2> HIDE DEF bn
  <2>3. /\ u \in Blocks /\ u[n] = bn
        /\ \A o \in Offset : o # n => u[o] = t[o]
    BY <1>2, <1>8, <1>10, <2>2 DEF Blocks
  <2>4. ASSUME NEW o \in Offset, bp[o] \in Block
        PROVE  u[o] \in Block /\ (o # first => u[o].next_block = bp[o].next_block)
    <3>1. CASE o = n
      BY <3>1, <1>2, <1>10, <2>3
    <3>2. CASE o # n
      BY <3>2, <1>a, <2>3, <2>4
    <3> QED
      BY <3>1, <3>2
  <2>5. u[first].next_block = n
    BY <1>b, <1>10, <2>3
  <2> QED
    BY <2>3, <2>4, <2>5 DEF u
<1> QED
  BY <1>9, <1>10 DEF u

(* A page that a free leaves empty had no other block in use, whichever of *)
(* its neighbours the freed block is merged with.                          *)
LEMMA EmptiedPage ==
  ASSUME NEW bp \in Blocks, WellFormed(bp), AboveHeader(bp),
         NEW k \in Chain(bp), ~bp[k].is_free,
         mm_is_vm_page_empty(FreeBlock(bp, k)),
         NEW j \in Chain(bp)
  PROVE  j = k \/ bp[j].is_free
<1> DEFINE F == OFFSET_META
           n == bp[k].next_block
           a == bp[n].next_block
           q == bp[k].prev_block
           r == ReleaseBlock(bp, k)
           u == FreeBlock(bp, k)
<1>1. /\ F \in Chain(bp) /\ F \in Offset /\ k \in Offset /\ j \in Offset
      /\ F \in Int /\ k \in Int /\ j \in Int
      /\ bp[F].prev_block = NULL /\ NULL \notin Int
      /\ bp[k] \in Block /\ n \in Offset \cup {NULL} /\ q \in Offset \cup {NULL}
      /\ bp[F] \in Block
      /\ \A o \in Chain(bp) : o \in Offset /\ o \in Int /\ bp[o] \in Block
  BY FirstOffset, ChainBlock, PageGeometry DEF WellFormed, Linked, Chain
<1>2. F <= k /\ F <= j
  BY <1>1 DEF AboveHeader, Chain, InChain
<1>3. /\ n # NULL => n \in Chain(bp) /\ k < n
      /\ q # NULL => q \in Chain(bp) /\ bp[q].next_block = k
  BY <1>1 DEF WellFormed, Linked
<1>4. /\ q # NULL => q < k
      /\ n # NULL => a \in Offset \cup {NULL} /\ (a # NULL => a \in Chain(bp) /\ n < a)
  <2>1. q # NULL => q < k
    <3>1. ASSUME NEW o \in Chain(bp), bp[o].next_block # NULL PROVE o < bp[o].next_block
      BY <3>1 DEF WellFormed, Linked
    <3> QED
      BY <1>1, <1>3, <3>1
  <2>2. n # NULL => a \in Offset \cup {NULL}
    BY <1>3, ChainBlock
  <2>3. n # NULL /\ a # NULL => a \in Chain(bp) /\ n < a
    BY <1>3 DEF WellFormed, Linked
  <2> QED
    BY <2>1, <2>2, <2>3
<1>5. /\ n = NULL => j <= k
      /\ n # NULL => j <= k \/ n <= j
      /\ n # NULL /\ a = NULL => j <= n
      /\ q # NULL => j <= q \/ k <= j
      /\ bp[F].next_block = NULL => k <= F
  BY <1>1, <1>3 DEF WellFormed, Linked
<1>6. u[F].next_block = NULL
  BY DEF mm_is_vm_page_empty
<1>7. /\ r \in Blocks /\ r[k] \in Block
      /\ r[k].next_block = (IF FreeNext(bp, k) THEN a ELSE n)
      /\ \A o \in Chain(bp) : r[o] \in Block /\ (o # k => r[o].next_block = bp[o].next_block)
  <2> DEFINE b == [bp[k] EXCEPT !.is_free = TRUE,
                                !.block_size = @ + mm_get_hard_internal_memory_frag_size(bp, k)]
             t == [bp EXCEPT ![k] = b]
  <2>1. b \in Block /\ b.next_block = n
    <3>1. bp[k].block_size + mm_get_hard_internal_memory_frag_size(bp, k) \in Nat
      <4>1. EndBySize(bp, k) <= EndInPage(bp, k) /\ bp[k].block_size \in Nat
        BY ChainBlock DEF WellFormed, Tiled
      <4>2. EndBySize(bp, k) \in Int /\ EndInPage(bp, k) \in Int
        BY <1>1, <4>1, PageGeometry DEF EndBySize, EndInPage, Offset
      <4> QED
        BY <4>1, <4>2 DEF mm_get_hard_internal_memory_frag_size
    <3> QED
      BY <1>1, <3>1 DEF Block
  <2>2. [bp EXCEPT ![k].is_free = TRUE,
                   ![k].block_size = @ + mm_get_hard_internal_memory_frag_size(bp, k)] = t
    BY <1>1 DEF Blocks
  <2>3. r = IF FreeNext(bp, k) THEN mm_union_free_blocks(t, k, n) ELSE t
    BY <2>2 DEF ReleaseBlock
  <2> HIDE DEF b, r
  <2>4. t \in Blocks /\ t[k] = b /\ \A o \in Offset : o # k => t[o] = bp[o]
    BY <1>1, <2>1 DEF Blocks
  <2> HIDE DEF t
  <2>5. CASE ~FreeNext(bp, k)
    BY <1>1, <2>1, <2>3, <2>4, <2>5
  <2>6. CASE FreeNext(bp, k)
    <3>1. n # NULL /\ n # k /\ n \in Offset /\ t[n] = bp[n] /\ t[n] \in Block /\ t[k] \in Block
      BY <1>1, <1>3, <2>1, <2>4, <2>6 DEF FreeNext
    <3>2. a # NULL => a \in Offset /\ a # k /\ a # n /\ t[a] \in Block
      <4>1. a # NULL => a \in Chain(bp) /\ k < n /\ n < a
        BY <1>3, <1>4, <3>1
      <4>2. a # NULL => a \in Offset /\ a \in Int /\ n \in Int /\ bp[a] \in Block
        BY <1>1, <1>3, <4>1, <3>1
      <4> QED
        BY <1>1, <2>4, <4>1, <4>2
    <3> DEFINE m == n
    <3> HIDE DEF m
    <3>3. m \in Offset /\ t[m] \in Block /\ m # k
      BY <3>1 DEF m
    <3>4. t[m].next_block # NULL =>
            /\ t[m].next_block \in Offset /\ t[t[m].next_block] \in Block
            /\ t[m].next_block # k /\ t[m].next_block # m
      BY <3>1, <3>2 DEF m
    <3> DEFINE v == mm_union_free_blocks(t, k, m)
    <3>5. /\ v \in Blocks
          /\ v[k].next_block = t[m].next_block
          /\ \A o \in Offset : t[o] \in Block =>
               /\ v[o] \in Block
               /\ o # k => v[o].next_block = t[o].next_block
      BY <1>1, <2>4, <3>1, <3>3, <3>4, UnionLinks
    <3> HIDE DEF v
    <3>6. r = v
      BY <2>3, <2>6 DEF v, m
    <3> QED
      BY <1>1, <2>4, <2>6, <3>1, <3>5, <3>6 DEF m
  <2> QED
    BY <2>5, <2>6
<1> HIDE DEF r
<1>8. j = k \/ bp[j].is_free \/ r[k].next_block # NULL \/ j < k
  <2>1. CASE FreeNext(bp, k)
    <3>1. n # NULL /\ bp[n].is_free /\ n \in Int
      BY <1>1, <1>3, <2>1 DEF FreeNext
    <3> QED
      BY <1>1, <1>5, <1>7, <2>1, <3>1
  <2>2. CASE ~FreeNext(bp, k)
    BY <1>1, <1>5, <1>7, <2>2
  <2> QED
    BY <2>1, <2>2
<1>9. CASE ~FreePrev(bp, k)
  <2>1. u = r
    BY <1>9 DEF FreeBlock, r
  <2>2. F = k
    BY <1>1, <1>2, <1>5, <1>6, <1>7, <2>1
  <2> QED
    BY <1>1, <1>2, <1>6, <1>8, <2>1, <2>2
<1>10. CASE FreePrev(bp, k)
  <2>1. q # NULL /\ bp[q].is_free /\ q \in Chain(bp) /\ q \in Int /\ q \in Offset /\ q # k
        /\ q < k /\ k # F
    BY <1>1, <1>3, <1>4, <1>10 DEF FreePrev
  <2>2. r[k].next_block # NULL =>
          /\ r[k].next_block \in Offset /\ r[r[k].next_block] \in Block
          /\ r[k].next_block # k /\ r[k].next_block # q
    <3>1. CASE FreeNext(bp, k)
      <4>1. n # NULL
        BY <3>1 DEF FreeNext
      <4>2. a # NULL => a \in Chain(bp) /\ k < n /\ n < a /\ n \in Int /\ a \in Int
        BY <1>1, <1>3, <1>4, <4>1
      <4> QED
        BY <1>1, <1>7, <2>1, <3>1, <4>2
    <3>2. CASE ~FreeNext(bp, k)
      <4>1. n # NULL => n \in Chain(bp) /\ n \in Offset /\ n \in Int /\ k < n /\ r[n] \in Block
        BY <1>1, <1>3, <1>7
      <4> QED
        BY <1>1, <1>7, <2>1, <3>2, <4>1
    <3> QED
      BY <3>1, <3>2
  <2> DEFINE v == mm_union_free_blocks(r, q, k)
  <2>3. u = v
    BY <1>10 DEF FreeBlock, r
  <2>4. /\ v[q].next_block = r[k].next_block
        /\ \A o \in Offset : r[o] \in Block => (o # q => v[o].next_block = r[o].next_block)
    <3> DEFINE p == q
    <3> HIDE DEF p
    <3>1. /\ p \in Offset /\ r[p] \in Block /\ p # k /\ r[k].next_block # NULL =>
               /\ r[k].next_block \in Offset /\ r[r[k].next_block] \in Block
               /\ r[k].next_block # k /\ r[k].next_block # p
      BY <2>2 DEF p
    <3>2. p \in Offset /\ r[p] \in Block /\ p # k
      BY <1>7, <2>1 DEF p
    <3>3. /\ mm_union_free_blocks(r, p, k)[p].next_block = r[k].next_block
          /\ \A o \in Offset : r[o] \in Block =>
               (o # p => mm_union_free_blocks(r, p, k)[o].next_block = r[o].next_block)
      BY <1>1, <1>7, <3>1, <3>2, UnionLinks
    <3> QED
      BY <3>3 DEF p
  <2> HIDE DEF v, u
  <2>5. F = q
    BY <1>1, <1>2, <1>5, <1>6, <1>7, <2>1, <2>3, <2>4
  <2> QED
    BY <1>1, <1>2, <1>5, <1>6, <1>8, <2>1, <2>3, <2>4, <2>5
<1> QED
  BY <1>9, <1>10

-----------------------------------------------------------------------------
(* The owned memory *)

(* The region that the allocated block at k of page p stands for.          *)
RegionAt(p, k) ==
  [family |-> page[p].pg_family, page |-> p,
   from   |-> k + SIZEOF_META,   upto |-> EndBySize(block[p], k)]

(* The owned regions are those of the allocated blocks, before and after a *)
(* step.                                                                   *)
LEMMA OwnedMembers ==
  /\ \A r : r \in Owned <=> \E p \in Page, k \in Offset : Allocated(p, k) /\ r = RegionAt(p, k)
  /\ \A r : r \in Owned' <=>
       \E p \in Page, k \in Offset : Allocated(p, k)' /\ r = RegionAt(p, k)'
<1>1. ASSUME NEW r
      PROVE  r \in Owned <=> \E p \in Page, k \in Offset : Allocated(p, k) /\ r = RegionAt(p, k)
  BY DEF Owned, OwnedIn, MappedPages, Allocated, RegionAt
<1>2. ASSUME NEW r
      PROVE  r \in Owned' <=>
               \E p \in Page, k \in Offset : Allocated(p, k)' /\ r = RegionAt(p, k)'
  BY DEF Owned, OwnedIn, MappedPages, Allocated, RegionAt
<1> QED
  BY <1>1, <1>2

(* While every mapped page is in use, the mapped pages are those of the    *)
(* owned regions.                                                          *)
LEMMA UsedPages ==
  /\ PagesInUse => MappedPages = {s.page : s \in Owned}
  /\ PagesInUse' => MappedPages' = {s.page : s \in Owned'}
<1>1. ASSUME PagesInUse PROVE MappedPages = {s.page : s \in Owned}
  <2>1. ASSUME NEW p \in MappedPages PROVE p \in {s.page : s \in Owned}
    <3>1. PICK k \in Offset : Allocated(p, k)
      BY <1>1, <2>1 DEF MappedPages, PagesInUse
    <3>2. RegionAt(p, k) \in Owned /\ RegionAt(p, k).page = p
      BY <2>1, <3>1, OwnedMembers DEF MappedPages, RegionAt
    <3> QED
      BY <3>2
  <2>2. ASSUME NEW s \in Owned PROVE s.page \in MappedPages
    BY <2>2, OwnedMembers DEF RegionAt, Allocated, MappedPages
  <2> QED
    BY <2>1, <2>2
<1>2. ASSUME PagesInUse' PROVE MappedPages' = {s.page : s \in Owned'}
  <2>1. ASSUME NEW p \in MappedPages' PROVE p \in {s.page : s \in Owned'}
    <3>1. PICK k \in Offset : Allocated(p, k)'
      BY <1>2, <2>1 DEF MappedPages, PagesInUse
    <3>2. RegionAt(p, k)' \in Owned' /\ RegionAt(p, k)'.page = p
      BY <2>1, <3>1, OwnedMembers DEF MappedPages, RegionAt
    <3> QED
      BY <3>2
  <2>2. ASSUME NEW s \in Owned' PROVE s.page \in MappedPages'
    BY <2>2, OwnedMembers DEF RegionAt, Allocated, MappedPages
  <2> QED
    BY <2>1, <2>2
<1> QED
  BY <1>1, <1>2

(* Every allocated block but the one at k of page p is one before and after *)
(* the step, at the same place, and of the same size and family.           *)
OthersKeepTheirs(p, k) ==
  \A q \in Page, o \in Offset : <<q, o>> # <<p, k>> =>
    /\ Allocated(q, o)' <=> Allocated(q, o)
    /\ Allocated(q, o) => /\ page'[q].pg_family = page[q].pg_family
                          /\ block'[q][o].block_size = block[q][o].block_size

(* Their regions are the same.                                             *)
LEMMA OthersKeepTheirRegions ==
  ASSUME NEW p \in Page, NEW k \in Offset, OthersKeepTheirs(p, k),
         NEW q \in Page, NEW o \in Offset, <<q, o>> # <<p, k>>
  PROVE  /\ Allocated(q, o)' <=> Allocated(q, o)
         /\ Allocated(q, o) => RegionAt(q, o)' = RegionAt(q, o)
  BY DEF OthersKeepTheirs, RegionAt, EndBySize

(* A step that makes one more block allocated hands out its memory.        *)
LEMMA OneMoreIsAllocate ==
  ASSUME PagesInUse, IInv',
         NEW p \in Page, NEW k \in Offset,
         ~Allocated(p, k), Allocated(p, k)', OthersKeepTheirs(p, k),
         \A q \in Page \ {p} : Mapped(q)' => Mapped(q)
  PROVE  PagesInUse' /\ Heap!Allocate
<1>1. PagesInUse'
  <2> SUFFICES ASSUME NEW q \in Page, Mapped(q)'
               PROVE  \E o \in Offset : Allocated(q, o)'
    BY DEF PagesInUse
  <2>1. CASE q = p
    BY <2>1
  <2>2. CASE q # p
    <3>1. PICK o \in Offset : Allocated(q, o)
      BY <2>2 DEF PagesInUse
    <3>2. Allocated(q, o)'
      BY <2>2, <3>1, OthersKeepTheirRegions
    <3> QED
      BY <3>2
  <2> QED
    BY <2>1, <2>2
<1> DEFINE r == RegionAt(p, k)'
           bp == block'[p]
<1>2. bp \in Blocks /\ WellFormed(bp) /\ k \in Chain(bp) /\ page'[p].pg_family \in Family
  BY HeaderOfMapped DEF IInv, TypeOK, PagesWellFormed, Allocated, Chain, Mapped, Header
<1>3. /\ r = [family |-> page'[p].pg_family, page |-> p,
              from |-> k + SIZEOF_META, upto |-> EndBySize(bp, k)]
      /\ r.page = p /\ r.family = page'[p].pg_family
      /\ r.from = k + SIZEOF_META /\ r.upto = EndBySize(bp, k)
  BY DEF RegionAt
<1>4. r \in Heap!Region
  <2>1. /\ k \in Nat /\ EndBySize(bp, k) \in Nat
        /\ k + SIZEOF_META <= EndBySize(bp, k) /\ EndBySize(bp, k) <= SYSTEM_PAGE_SIZE
    BY <1>2, BlockInPage
  <2>2. SYSTEM_PAGE_SIZE \in Nat /\ SIZEOF_META \in Nat
    BY PageGeometry
  <2>3. k + SIZEOF_META \in 0 .. SYSTEM_PAGE_SIZE /\ EndBySize(bp, k) \in 0 .. SYSTEM_PAGE_SIZE
    BY <2>1, <2>2
  <2> HIDE DEF bp
  <2> QED
    BY <1>2, <1>3, <2>1, <2>3 DEF Heap!Region
<1>5. r \in Owned' /\ r \notin Owned
  <2>1. r \in Owned'
    BY OwnedMembers
  <2>2. ASSUME NEW q \in Page, NEW o \in Offset, Allocated(q, o), r = RegionAt(q, o)
        PROVE  FALSE
    <3>1. q = p /\ o + SIZEOF_META = k + SIZEOF_META
      BY <1>3, <2>2 DEF RegionAt
    <3>2. o = k
      BY <3>1, PageGeometry DEF Offset
    <3> QED
      BY <2>2, <3>1, <3>2
  <2> QED
    BY <2>1, <2>2, OwnedMembers
<1> HIDE DEF r
<1>6. Owned' = Owned \cup {r}
  <2>1. ASSUME NEW s \in Owned' PROVE s \in Owned \/ s = r
    <3>1. PICK q \in Page, o \in Offset : Allocated(q, o)' /\ s = RegionAt(q, o)'
      BY OwnedMembers
    <3>2. CASE <<q, o>> = <<p, k>>
      BY <3>1, <3>2 DEF r
    <3>3. CASE <<q, o>> # <<p, k>>
      BY <3>1, <3>3, OthersKeepTheirRegions, OwnedMembers
    <3> QED
      BY <3>2, <3>3
  <2>2. ASSUME NEW s \in Owned PROVE s \in Owned'
    <3>1. PICK q \in Page, o \in Offset : Allocated(q, o) /\ s = RegionAt(q, o)
      BY OwnedMembers
    <3>2. <<q, o>> # <<p, k>>
      BY <3>1
    <3> QED
      BY <3>1, <3>2, OthersKeepTheirRegions, OwnedMembers
  <2> QED
    BY <1>5, <2>1, <2>2
<1>7. ASSUME NEW s \in Owned PROVE Heap!Compatible(r, s)
  <2>1. PICK q \in Page, o \in Offset : Allocated(q, o) /\ s = RegionAt(q, o)
    BY OwnedMembers
  <2>2. <<q, o>> # <<p, k>> /\ Allocated(q, o)' /\ s = RegionAt(q, o)'
    BY <2>1, OthersKeepTheirRegions
  <2>3. /\ s.page = q /\ s.family = page'[q].pg_family
        /\ s.from = o + SIZEOF_META /\ s.upto = EndBySize(block'[q], o)
    BY <2>2 DEF RegionAt
  <2>4. CASE q # p
    BY <1>3, <2>3, <2>4 DEF Heap!Compatible, Heap!Disjoint
  <2>5. CASE q = p
    <3>1. o # k /\ o \in Chain(bp) /\ o \in Int /\ k \in Int
      BY <2>2, <2>5, PageGeometry DEF Allocated, Chain, Offset
    <3>2. /\ EndBySize(bp, k) \in Int /\ EndBySize(bp, o) \in Int
          /\ SIZEOF_META \in Nat
      <4>1. EndBySize(bp, k) \in Nat /\ EndBySize(bp, o) \in Nat
        BY <1>2, <3>1, BlockInPage
      <4> QED
        BY <4>1, PageGeometry
    <3>3. CASE k < o
      <4>1. EndBySize(bp, k) <= o
        BY <1>2, <3>1, <3>3, ChainBlocksApart
      <4> QED
        BY <1>3, <2>3, <2>5, <3>1, <3>2, <4>1 DEF Heap!Compatible, Heap!Disjoint
    <3>4. CASE o < k
      <4>1. EndBySize(bp, o) <= k
        BY <1>2, <3>1, <3>4, ChainBlocksApart
      <4> QED
        BY <1>3, <2>3, <2>5, <3>1, <3>2, <4>1 DEF Heap!Compatible, Heap!Disjoint
    <3> QED
      BY <3>1, <3>3, <3>4
  <2> QED
    BY <2>4, <2>5
<1>8. MappedPages' = {s.page : s \in Owned'}
  BY <1>1, UsedPages
<1> QED
  BY <1>1, <1>4, <1>5, <1>6, <1>7, <1>8 DEF Heap!Allocate

(* A step that leaves one block less allocated takes its memory back.      *)
LEMMA OneLessIsFree ==
  ASSUME PagesInUse,
         NEW p \in Page, NEW k \in Offset,
         Allocated(p, k), ~Allocated(p, k)', OthersKeepTheirs(p, k),
         Mapped(p)' => \E o \in Offset : Allocated(p, o)',
         \A q \in Page \ {p} : Mapped(q)' => Mapped(q)
  PROVE  PagesInUse' /\ Heap!Free
<1>1. PagesInUse'
  <2> SUFFICES ASSUME NEW q \in Page, Mapped(q)', q # p
               PROVE  \E o \in Offset : Allocated(q, o)'
    BY DEF PagesInUse
  <2>1. PICK o \in Offset : Allocated(q, o)
    BY DEF PagesInUse
  <2>2. Allocated(q, o)'
    BY <2>1, OthersKeepTheirRegions
  <2> QED
    BY <2>2
<1> DEFINE r == RegionAt(p, k)
<1>2. r.page = p /\ r.from = k + SIZEOF_META
  BY DEF RegionAt
<1>3. r \in Owned
  BY OwnedMembers
<1> HIDE DEF r
<1>4. ASSUME NEW q \in Page, NEW o \in Offset, <<q, o>> # <<p, k>>, Allocated(q, o)
      PROVE  RegionAt(q, o) # r
  <2>1. RegionAt(q, o).page = q /\ RegionAt(q, o).from = o + SIZEOF_META
    BY DEF RegionAt
  <2>2. o \in Int /\ k \in Int /\ SIZEOF_META \in Int
    BY PageGeometry DEF Offset
  <2> QED
    BY <1>2, <1>4, <2>1, <2>2
<1>5. Owned' = Owned \ {r}
  <2>1. ASSUME NEW s \in Owned' PROVE s \in Owned /\ s # r
    <3>1. PICK q \in Page, o \in Offset : Allocated(q, o)' /\ s = RegionAt(q, o)'
      BY OwnedMembers
    <3>2. <<q, o>> # <<p, k>>
      BY <3>1
    <3>3. Allocated(q, o) /\ s = RegionAt(q, o)
      BY <3>1, <3>2, OthersKeepTheirRegions
    <3> QED
      BY <3>2, <3>3, <1>4, OwnedMembers
  <2>2. ASSUME NEW s \in Owned, s # r PROVE s \in Owned'
    <3>1. PICK q \in Page, o \in Offset : Allocated(q, o) /\ s = RegionAt(q, o)
      BY OwnedMembers
    <3>2. <<q, o>> # <<p, k>>
      BY <2>2, <3>1 DEF r
    <3> QED
      BY <3>1, <3>2, OthersKeepTheirRegions, OwnedMembers
  <2> QED
    BY <2>1, <2>2
<1>6. MappedPages' = {s.page : s \in Owned'}
  BY <1>1, UsedPages
<1> QED
  BY <1>1, <1>3, <1>5, <1>6 DEF Heap!Free

-----------------------------------------------------------------------------
(* The steps *)

(* Every page but p keeps its blocks, its family, and whether it is mapped. *)
OtherPagesUnchanged(p) ==
  \A q \in Page \ {p} : /\ Mapped(q)' <=> Mapped(q)
                        /\ Mapped(q) => page'[q].pg_family = page[q].pg_family
                        /\ block'[q] = block[q]

(* The split of a free block, in a page that the step may have mapped.     *)
LEMMA SplitIsAllocate ==
  ASSUME HInv, IInv', NEW p \in Page, NEW bp \in Blocks, NEW k, NEW size \in Nat,
         WellFormed(bp), AboveHeader(bp), k \in Chain(bp), bp[k].is_free,
         size <= bp[k].block_size,
         block'[p] = SplitBlock(bp, k, size), Mapped(p)',
         Mapped(p) => bp = block[p] /\ page'[p].pg_family = page[p].pg_family,
         ~Mapped(p) => \A o \in Chain(bp) : bp[o].is_free,
         OtherPagesUnchanged(p)
  PROVE  HInv' /\ Heap!Allocate
<1> DEFINE s == SplitBlock(bp, k, size)
<1>1. /\ InChain(s, k) /\ ~s[k].is_free
      /\ \A o \in Offset : o # k =>
           /\ InChain(s, o) /\ ~s[o].is_free <=> InChain(bp, o) /\ ~bp[o].is_free
           /\ InChain(bp, o) /\ ~bp[o].is_free => s[o].block_size = bp[o].block_size
      /\ AboveHeader(s)
  BY SplitAllocates
<1> HIDE DEF s
<1>2. block'[p] = s /\ k \in Offset
  BY DEF s, Chain
<1>3. Allocated(p, k)' /\ ~Allocated(p, k)
  <2>1. Allocated(p, k)'
    BY <1>1, <1>2 DEF Allocated
  <2>2. ~Allocated(p, k)
    BY DEF Allocated
  <2> QED
    BY <2>1, <2>2
<1>4. OthersKeepTheirs(p, k)
  <2> SUFFICES ASSUME NEW q \in Page, NEW o \in Offset, <<q, o>> # <<p, k>>
               PROVE  /\ Allocated(q, o)' <=> Allocated(q, o)
                      /\ Allocated(q, o) => /\ page'[q].pg_family = page[q].pg_family
                                            /\ block'[q][o].block_size = block[q][o].block_size
    BY DEF OthersKeepTheirs
  <2>1. CASE q # p
    BY <2>1 DEF OtherPagesUnchanged, Allocated
  <2>2. CASE q = p /\ Mapped(p)
    BY <2>2, <1>1, <1>2 DEF Allocated
  <2>3. CASE q = p /\ ~Mapped(p)
    BY <2>3, <1>1, <1>2 DEF Allocated, Chain
  <2> QED
    BY <2>1, <2>2, <2>3
<1>5. PagesInUse' /\ Heap!Allocate
  BY <1>2, <1>3, <1>4, OneMoreIsAllocate DEF HInv, OtherPagesUnchanged
<1>6. BlocksAboveHeader'
  <2> SUFFICES ASSUME NEW q \in Page, Mapped(q)' PROVE AboveHeader(block'[q])
    BY DEF BlocksAboveHeader, AboveHeader
  <2> QED
    BY <1>1, <1>2 DEF HInv, BlocksAboveHeader, OtherPagesUnchanged
<1> QED
  BY <1>5, <1>6 DEF HInv

(* xcalloc, from a new page.                                               *)
LEMMA NewPageIsAllocate ==
  ASSUME HInv, IInv', NEW f \in Family, NEW p \in Page, NEW size \in Nat,
         size <= mm_max_page_allocatable_memory, ~Mapped(p),
         mm_split_free_data_block_for_allocation(f, p, EmptyPage, OFFSET_META, size, free_list[f]),
         page' = PushPage(f, p), first_page' = [first_page EXCEPT ![f] = p]
  PROVE  HInv' /\ Heap!Allocate
<1> DEFINE bp == EmptyPage
           k  == OFFSET_META
<1>1. /\ bp \in Blocks /\ WellFormed(bp) /\ Chain(bp) = {k} /\ k \in Offset
      /\ bp[k].is_free /\ bp[k].block_size = mm_max_page_allocatable_memory
      /\ \A o \in Offset \ {k} : bp[o] = NULL
  BY EmptyPageWellFormed, FirstOffset DEF EmptyPage, NoBlocks
<1>2. AboveHeader(bp)
  BY <1>1, PageGeometry DEF AboveHeader
<1>3. block'[p] = SplitBlock(bp, k, size) /\ \A q \in Page \ {p} : block'[q] = block[q]
  BY DEF HInv, IInv, TypeOK, mm_split_free_data_block_for_allocation
<1>4. /\ Mapped(p)'
      /\ \A q \in Page : q # p => /\ Mapped(q)' <=> Mapped(q)
                                  /\ Mapped(q) => page'[q].pg_family = page[q].pg_family
  BY PushKeepsLists DEF HInv, IInv, Mapped
<1>5. OtherPagesUnchanged(p)
  BY <1>3, <1>4 DEF OtherPagesUnchanged
<1> HIDE DEF bp, k
<1> QED
  BY <1>1, <1>2, <1>3, <1>4, <1>5, SplitIsAllocate

(* xcalloc, from the biggest free block.                                   *)
LEMMA BiggestIsAllocate ==
  ASSUME HInv, IInv', NEW f \in Family, NEW e \in Biggest(f), Mapped(e.page), NEW size \in Nat,
         size <= block[e.page][e.at].block_size,
         mm_split_free_data_block_for_allocation(
           f, e.page, block[e.page], e.at, size, free_list[f] \ {e}),
         UNCHANGED page
  PROVE  HInv' /\ Heap!Allocate
<1> DEFINE p  == e.page
           bp == block[p]
           k  == e.at
<1>1. p \in Page /\ k \in Chain(bp) /\ bp[k].is_free
  BY BiggestInChain DEF HInv
<1>2. bp \in Blocks /\ WellFormed(bp) /\ AboveHeader(bp)
  BY <1>1 DEF HInv, IInv, TypeOK, PagesWellFormed, BlocksAboveHeader
<1>3. block'[p] = SplitBlock(bp, k, size) /\ \A q \in Page \ {p} : block'[q] = block[q]
  BY <1>1 DEF HInv, IInv, TypeOK, mm_split_free_data_block_for_allocation
<1>4. Mapped(p)' /\ OtherPagesUnchanged(p)
  BY <1>3 DEF OtherPagesUnchanged, Mapped
<1> DEFINE c == bp
<1> HIDE DEF p, k, c
<1>5. /\ p \in Page /\ c \in Blocks /\ WellFormed(c) /\ AboveHeader(c) /\ k \in Chain(c)
      /\ c[k].is_free /\ size <= c[k].block_size /\ block'[p] = SplitBlock(c, k, size)
      /\ c = block[p] /\ page'[p].pg_family = page[p].pg_family /\ Mapped(p)
  BY <1>1, <1>2, <1>3 DEF p, k, c
<1> QED
  BY <1>4, <1>5, SplitIsAllocate

(* xfree that leaves its page empty, and returns it to the kernel.         *)
LEMMA PageFreedIsFree ==
  ASSUME HInv, IInv', NEW p \in Page, NEW k \in Offset, Allocated(p, k),
         mm_is_vm_page_empty(FreeBlock(block[p], k)), mm_vm_page_delete_and_free(p)
  PROVE  HInv' /\ Heap!Free
<1>1. /\ Mapped(p) /\ block[p] \in Blocks /\ WellFormed(block[p]) /\ AboveHeader(block[p])
      /\ k \in Chain(block[p]) /\ ~block[p][k].is_free
  BY DEF HInv, IInv, TypeOK, PagesWellFormed, BlocksAboveHeader, Allocated, Chain
<1>2. \A j \in Chain(block[p]) : j = k \/ block[p][j].is_free
  BY <1>1, EmptiedPage
<1>3. /\ ~Mapped(p)'
      /\ \A q \in Page : q # p => /\ Mapped(q)' <=> Mapped(q)
                                  /\ Mapped(q) => page'[q].pg_family = page[q].pg_family
  BY <1>1, DropKeepsLists DEF HInv, IInv, Mapped
<1>4. \A q \in Page \ {p} : block'[q] = block[q]
  BY DEF HInv, IInv, TypeOK, mm_vm_page_delete_and_free
<1>5. OthersKeepTheirs(p, k)
  <2> SUFFICES ASSUME NEW q \in Page, NEW o \in Offset, <<q, o>> # <<p, k>>
               PROVE  /\ Allocated(q, o)' <=> Allocated(q, o)
                      /\ Allocated(q, o) => /\ page'[q].pg_family = page[q].pg_family
                                            /\ block'[q][o].block_size = block[q][o].block_size
    BY DEF OthersKeepTheirs
  <2>1. CASE q # p
    BY <2>1, <1>3, <1>4 DEF Allocated
  <2>2. CASE q = p
    BY <2>2, <1>2, <1>3 DEF Allocated, Chain
  <2> QED
    BY <2>1, <2>2
<1>6. ~Allocated(p, k)'
  BY <1>3 DEF Allocated
<1>7. PagesInUse' /\ Heap!Free
  BY <1>3, <1>5, <1>6, OneLessIsFree DEF HInv
<1>8. BlocksAboveHeader'
  BY <1>3, <1>4 DEF HInv, BlocksAboveHeader, AboveHeader
<1> QED
  BY <1>7, <1>8 DEF HInv

(* xfree that lists the freed block.                                       *)
LEMMA BlockFreedIsFree ==
  ASSUME HInv, IInv', NEW p \in Page, NEW k \in Offset, Allocated(p, k),
         ~mm_is_vm_page_empty(FreeBlock(block[p], k)),
         ~Listed(p, ReturnBlock(block[p], k)),
         block' = [block EXCEPT ![p] = FreeBlock(block[p], k)],
         UNCHANGED page
  PROVE  HInv' /\ Heap!Free
<1> DEFINE bp == block[p]
           r  == ReleaseBlock(bp, k)
<1>1. /\ Mapped(p) /\ bp \in Blocks /\ WellFormed(bp) /\ AboveHeader(bp)
      /\ k \in Chain(bp) /\ ~bp[k].is_free /\ page[p].pg_family \in Family
  BY HeaderOfMapped
  DEF HInv, IInv, TypeOK, PagesWellFormed, BlocksAboveHeader, Allocated, Chain
<1>2. ~FreePrev(bp, k)
  <2> SUFFICES ASSUME FreePrev(bp, k) PROVE FALSE
    OBVIOUS
  <2> DEFINE o == bp[k].prev_block
  <2>1. o \in Chain(bp) /\ bp[o].is_free
    BY <1>1 DEF FreePrev, WellFormed, Linked
  <2>2. NewNode(p, o, bp) \in free_list[page[p].pg_family]
    BY <1>1, <2>1 DEF HInv, IInv, FreeBlocksHaveNodes
  <2>3. Listed(p, o)
    BY <1>1, <2>2 DEF Listed, NewNode
  <2> QED
    BY <2>3 DEF ReturnBlock
<1>3. FreeBlock(bp, k) = r
  BY <1>2 DEF FreeBlock
<1>4. /\ r \in Blocks /\ WellFormed(r) /\ r[k].is_free
      /\ \A o \in Offset : o # k =>
           /\ InChain(r, o) /\ ~r[o].is_free <=> InChain(bp, o) /\ ~bp[o].is_free
           /\ InChain(bp, o) /\ ~bp[o].is_free => r[o].block_size = bp[o].block_size
      /\ AboveHeader(r)
  BY <1>1, <1>2, ReleaseFrees
<1> HIDE DEF r
<1>5. block'[p] = r /\ \A q \in Page \ {p} : block'[q] = block[q]
  BY <1>3 DEF HInv, IInv, TypeOK
<1>6. \E o \in Offset : InChain(r, o) /\ ~r[o].is_free
  BY <1>3, <1>4, NonEmptyPageInUse
<1>7. Mapped(p)' => \E o \in Offset : Allocated(p, o)'
  BY <1>1, <1>5, <1>6 DEF Allocated, Mapped
<1>8. OthersKeepTheirs(p, k)
  <2> SUFFICES ASSUME NEW q \in Page, NEW o \in Offset, <<q, o>> # <<p, k>>
               PROVE  /\ Allocated(q, o)' <=> Allocated(q, o)
                      /\ Allocated(q, o) => block'[q][o].block_size = block[q][o].block_size
    BY DEF OthersKeepTheirs
  <2>1. CASE q # p
    BY <2>1, <1>5 DEF Allocated, Mapped
  <2>2. CASE q = p
    BY <2>2, <1>1, <1>4, <1>5 DEF Allocated, Mapped
  <2> QED
    BY <2>1, <2>2
<1>9. ~Allocated(p, k)'
  BY <1>4, <1>5 DEF Allocated
<1>10. PagesInUse' /\ Heap!Free
  BY <1>7, <1>8, <1>9, OneLessIsFree DEF HInv, Mapped
<1>11. BlocksAboveHeader'
  <2> SUFFICES ASSUME NEW q \in Page, Mapped(q) PROVE AboveHeader(block'[q])
    BY DEF BlocksAboveHeader, AboveHeader, Mapped
  <2> QED
    BY <1>4, <1>5 DEF HInv, BlocksAboveHeader
<1> QED
  BY <1>10, <1>11 DEF HInv

(* A step that changes no page changes nobody's memory.                    *)
LEMMA NobodysMemoryChanges ==
  ASSUME HInv, IInv', UNCHANGED <<page, block>>
  PROVE  HInv' /\ UNCHANGED <<Owned, MappedPages>>
<1>1. BlocksAboveHeader' /\ PagesInUse'
  BY DEF HInv, BlocksAboveHeader, PagesInUse, Mapped, Allocated, AboveHeader
<1>2. Owned' = Owned /\ MappedPages' = MappedPages
  BY DEF Owned, OwnedIn, MappedPages, Mapped, Allocated, EndBySize
<1> QED
  BY <1>1, <1>2 DEF HInv

(* A step in which somebody's memory changes is one of ByteHeap.           *)
LEMMA HeapStep ==
  ASSUME HInv, [Next]_vars
  PROVE  HInv' /\ [Heap!Next]_<<Owned, MappedPages>>
<1>1. IInv'
  BY NextKeepsIInv DEF HInv
<1>2. CASE UNCHANGED <<page, block>>
  BY <1>1, <1>2, NobodysMemoryChanges
<1>4. ASSUME NEW f \in Family, NEW size \in Nat, size <= mm_max_page_allocatable_memory,
             XcallocNewPage(f, size)
      PROVE  UNCHANGED <<page, block>> \/ (HInv' /\ Heap!Allocate)
  <2>1. CASE UNCHANGED <<page, block>>
    BY <2>1
  <2>2. CASE \E p \in Page :
               /\ ~Mapped(p)
               /\ mm_split_free_data_block_for_allocation(
                    f, p, EmptyPage, OFFSET_META, size, free_list[f])
               /\ page' = PushPage(f, p)
               /\ first_page' = [first_page EXCEPT ![f] = p]
    BY <1>1, <1>4, <2>2, NewPageIsAllocate
  <2> QED
    BY <1>4, <2>1, <2>2 DEF XcallocNewPage, Crash
<1>5. ASSUME NEW f \in Family, NEW n \in Units, xcalloc(f, n)
      PROVE  UNCHANGED <<page, block>> \/ (HInv' /\ Heap!Allocate)
  <2> DEFINE size == Request(f, n)
  <2>1. size \in Nat /\ size <= mm_max_page_allocatable_memory
    BY <1>5, RequestIsNat DEF xcalloc
  <2> HIDE DEF size
  <2>2. CASE XcallocNewPage(f, size)
    BY <1>4, <2>1, <2>2
  <2>3. CASE \E e \in Biggest(f) : Crash("unmapped")
    BY <2>3 DEF Crash
  <2>4. CASE \E e \in Biggest(f) : /\ Mapped(e.page)
                                   /\ ~(block[e.page][e.at].block_size < size)
                                   /\ XcallocBiggest(f, e, size)
    <3>1. PICK e \in Biggest(f) : /\ Mapped(e.page)
                                  /\ ~(block[e.page][e.at].block_size < size)
                                  /\ XcallocBiggest(f, e, size)
      BY <2>4
    <3>2. size <= block[e.page][e.at].block_size
      <4>1. e \in free_list[f] /\ e \in Node /\ block[e.page][e.at].block_size = e.size
        BY <3>1, BiggestInChain DEF HInv, IInv, TypeOK
      <4> QED
        BY <2>1, <3>1, <4>1 DEF Node
    <3>3. CASE \E kind \in SplitFaults(block[e.page], e.at, size, free_list[f] \ {e}) : Crash(kind)
      BY <3>3 DEF Crash
    <3>4. CASE /\ mm_split_free_data_block_for_allocation(
                    f, e.page, block[e.page], e.at, size, free_list[f] \ {e})
               /\ UNCHANGED <<first_page, page, fault>>
      BY <1>1, <2>1, <3>1, <3>2, <3>4, BiggestIsAllocate
    <3> QED
      BY <3>1, <3>3, <3>4 DEF XcallocBiggest
  <2> QED
    BY <1>5, <2>2, <2>3, <2>4 DEF xcalloc, size
<1>6. ASSUME NEW p \in Page, NEW k \in Offset, xfree(p, k)
      PROVE  UNCHANGED <<page, block>> \/ (HInv' /\ Heap!Free)
  <2>1. Allocated(p, k)
    BY <1>6 DEF xfree
  <2>2. CASE mm_is_vm_page_empty(FreeBlock(block[p], k)) /\ mm_vm_page_delete_and_free(p)
    BY <1>1, <2>1, <2>2, PageFreedIsFree
  <2>3. CASE Crash("relinked") \/ Crash("unmapped")
    BY <2>3 DEF Crash
  <2>4. CASE /\ ~mm_is_vm_page_empty(FreeBlock(block[p], k))
             /\ ~Listed(p, ReturnBlock(block[p], k))
             /\ block' = [block EXCEPT ![p] = FreeBlock(block[p], k)]
             /\ UNCHANGED <<first_page, page, fault>>
    BY <1>1, <2>1, <2>4, BlockFreedIsFree
  <2> QED
    BY <1>6, <2>2, <2>3, <2>4 DEF xfree, NewNode
<1>7. CASE UNCHANGED vars \/ \E f \in Family, n \in Units : xcalloc_refused(f, n)
  BY <1>2, <1>7 DEF vars, xcalloc_refused
<1>8. CASE \E f \in Family, n \in Units : xcalloc(f, n)
  BY <1>2, <1>5, <1>8 DEF Heap!Next
<1>9. CASE \E p \in Page, k \in Offset : xfree(p, k)
  BY <1>2, <1>6, <1>9 DEF Heap!Next
<1> QED
  BY <1>7, <1>8, <1>9 DEF Next

(* No memory is owned before the first call.                               *)
LEMMA HeapInit == Init => HInv /\ Heap!Init
<1> SUFFICES ASSUME Init PROVE HInv /\ Heap!Init
  OBVIOUS
<1>1. \A p \in Page : ~Mapped(p)
  BY DEF Init, Mapped
<1>2. IInv
  BY InitIInv
<1>3. BlocksAboveHeader /\ PagesInUse
  BY <1>1 DEF BlocksAboveHeader, PagesInUse
<1>4. Heap!Init
  BY <1>1 DEF Heap!Init, Owned, MappedPages
<1> QED
  BY <1>2, <1>3, <1>4 DEF HInv

(* What the callers of xcalloc and xfree may rely on, for every page size, *)
(* set of families and sequence of calls: xcalloc hands out memory of a    *)
(* page of the family that overlaps nobody else's, xfree takes back exactly *)
(* one caller's, no call moves or resizes another's memory, and a page is  *)
(* mapped exactly while somebody owns memory of it.                        *)
THEOREM HeapImplemented == Spec => ImplementsByteHeap
<1> USE DEF ImplementsByteHeap
<1>1. Init => HInv /\ Heap!Init
  BY HeapInit
<1>2. HInv /\ [Next]_vars => HInv' /\ [Heap!Next]_<<Owned, MappedPages>>
  BY HeapStep
<1> QED
  BY <1>1, <1>2, PTL DEF Spec, Heap!Spec

-----------------------------------------------------------------------------
(* A call that maps a page found the first node of the free list too small, *)
(* and no free block is bigger.                                            *)
LEMMA NewPageIsNeeded ==
  ASSUME IInv, NEW f \in Family, NEW n \in Units, xcalloc(f, n),
         NEW p \in Page, ~Mapped(p), Mapped(p)',
         NEW q \in Page, Mapped(q), page[q].pg_family = page'[p].pg_family,
         NEW k \in Chain(block[q]), block[q][k].is_free
  PROVE  block[q][k].block_size < block'[p][OFFSET_META].block_size
<1> DEFINE size == Request(f, n)
<1>1. size \in Nat /\ size <= mm_max_page_allocatable_memory
  BY RequestIsNat DEF xcalloc
<1>2. page' # page
  BY DEF Mapped
<1> HIDE DEF size
<1>3. /\ XcallocNewPage(f, size)
      /\ \/ free_list[f] = {}
         \/ \E e \in Biggest(f) : Mapped(e.page) /\ block[e.page][e.at].block_size < size
  BY <1>2 DEF xcalloc, XcallocBiggest, Crash, size
<1>4. PICK r \in Page : /\ ~Mapped(r)
                        /\ mm_split_free_data_block_for_allocation(
                             f, r, EmptyPage, OFFSET_META, size, free_list[f])
                        /\ page' = PushPage(f, r)
                        /\ first_page' = [first_page EXCEPT ![f] = r]
  BY <1>2, <1>3 DEF XcallocNewPage, Crash
<1>5. p = r /\ page'[p].pg_family = f
  BY <1>4, PushKeepsLists DEF IInv, Mapped
<1>6. block'[p][OFFSET_META].block_size = size
  <2>1. /\ EmptyPage \in Blocks /\ WellFormed(EmptyPage) /\ OFFSET_META \in Chain(EmptyPage)
        /\ EmptyPage[OFFSET_META].is_free
        /\ EmptyPage[OFFSET_META].block_size = mm_max_page_allocatable_memory
    BY EmptyPageWellFormed, FirstOffset DEF EmptyPage, NoBlocks
  <2>2. SplitBlock(EmptyPage, OFFSET_META, size)[OFFSET_META].block_size = size
    BY <1>1, <2>1, SplitAllocates
  <2> QED
    BY <1>4, <1>5, <2>2 DEF IInv, TypeOK, mm_split_free_data_block_for_allocation
<1>7. NewNode(q, k, block[q]) \in free_list[f]
  BY <1>5 DEF IInv, FreeBlocksHaveNodes
<1>8. PICK e \in Biggest(f) : Mapped(e.page) /\ block[e.page][e.at].block_size < size
  BY <1>3, <1>7
<1>9. /\ block[q][k].block_size <= e.size /\ block[q][k].block_size \in Nat
      /\ block[e.page][e.at].block_size = e.size /\ e.size \in Nat
  <2>1. e \in free_list[f] /\ block[e.page][e.at].block_size = e.size
    BY <1>8, BiggestInChain
  <2>2. e.size \in Nat /\ block[q] \in Blocks
    BY <2>1 DEF IInv, TypeOK, Node
  <2>3. block[q][k].block_size \in Nat
    BY <2>2, ChainBlock
  <2>4. block[q][k].block_size <= e.size
    BY <1>7 DEF Biggest, NewNode
  <2> QED
    BY <2>1, <2>2, <2>3, <2>4
<1> QED
  BY <1>1, <1>6, <1>8, <1>9

(* A family asks the kernel for a page only when none of its free blocks   *)
(* could hold the request ("Time to add a new page to Page family to       *)
(* satisfy the request", mm.c): the first node of the list is at least as  *)
(* big as any free block, although nodes of merged blocks stay in the list. *)
THEOREM NewPagesAreNeeded == Spec => PageOnlyWhenNeeded
<1>1. IInv /\ [Next]_vars =>
        [\A p \in Page : ~Mapped(p) /\ Mapped(p)' =>
           \A q \in Page : Mapped(q) /\ page[q].pg_family = page'[p].pg_family =>
             \A k \in Chain(block[q]) : block[q][k].is_free =>
               block[q][k].block_size < block'[p][OFFSET_META].block_size]_vars
  <2> SUFFICES ASSUME IInv, Next,
                      NEW p \in Page, ~Mapped(p), Mapped(p)',
                      NEW q \in Page, Mapped(q), page[q].pg_family = page'[p].pg_family,
                      NEW k \in Chain(block[q]), block[q][k].is_free
               PROVE  block[q][k].block_size < block'[p][OFFSET_META].block_size
    OBVIOUS
  <2>1. CASE \E f \in Family, n \in Units : xcalloc(f, n)
    BY <2>1, NewPageIsNeeded
  <2>2. CASE \E f \in Family, n \in Units : xcalloc_refused(f, n)
    BY <2>2 DEF xcalloc_refused, vars, Mapped
  <2>3. ASSUME NEW r \in Page, NEW o \in Offset, xfree(r, o) PROVE FALSE
    <3>1. page' # page
      BY DEF Mapped
    <3>2. mm_vm_page_delete_and_free(r) /\ Mapped(r)
      BY <2>3, <3>1 DEF xfree, Crash, Allocated
    <3>3. page'[r] = NULL /\ \A s \in Page : s # r => (page'[s] # NULL <=> Mapped(s))
      BY <3>2, DropKeepsLists DEF IInv
    <3> QED
      BY <3>3 DEF Mapped
  <2> QED
    BY <2>1, <2>2, <2>3 DEF Next
<1> QED
  BY <1>1, Invariance, PTL DEF Spec, PageOnlyWhenNeeded

-----------------------------------------------------------------------------
(* Sums over finite sets *)

(* A collection of subsets of a finite set has all of them, if it has each *)
(* one whose subsets with one element less it has.                         *)
LEMMA AllSubsets ==
  ASSUME NEW S, IsFiniteSet(S), NEW C \in SUBSET (SUBSET S),
         \A T \in SUBSET S : (\A x \in T : T \ {x} \in C) => T \in C
  PROVE  \A T \in SUBSET S : T \in C
<1> DEFINE N == {n \in Nat : \A T \in SUBSET S : Cardinality(T) = n => T \in C}
<1>1. \A T \in SUBSET S : IsFiniteSet(T) /\ Cardinality(T) \in Nat
  BY FS_Subset, FS_CardinalityType
<1>2. 0 \in N
  <2> SUFFICES ASSUME NEW T \in SUBSET S, Cardinality(T) = 0 PROVE T \in C
    OBVIOUS
  <2>1. T = {}
    BY <1>1, FS_EmptySet
  <2> QED
    BY <2>1
<1>3. ASSUME NEW n \in N PROVE n + 1 \in N
  <2> SUFFICES ASSUME NEW T \in SUBSET S, Cardinality(T) = n + 1 PROVE T \in C
    OBVIOUS
  <2>1. ASSUME NEW x \in T PROVE T \ {x} \in C
    <3>1. T \ {x} \in SUBSET S /\ n \in Nat
      OBVIOUS
    <3>2. Cardinality(T \ {x}) = Cardinality(T) - 1
      BY <1>1, FS_RemoveElement
    <3>3. Cardinality(T \ {x}) = n
      BY <3>1, <3>2
    <3> QED
      BY <3>1, <3>3
  <2> QED
    BY <2>1
<1>4. N \in SUBSET Nat
  OBVIOUS
<1>5. ASSUME NEW T \in SUBSET S PROVE Cardinality(T) \in N
  <2> HIDE DEF N
  <2> QED
    BY <1>1, <1>2, <1>3, <1>4, InductiveSet
<1> QED
  BY <1>1, <1>5

(* h is, for each subset of S, the sum of the values v of its elements.    *)
Sums(S, v, h) ==
  /\ h \in [SUBSET S -> Int]
  /\ h[{}] = 0
  /\ \A T \in SUBSET S : \A x \in T : h[T] = v[x] + h[T \ {x}]

(* What the fold computes: it takes the elements in the order of CHOOSE.   *)
Folded(s, v, h) ==
  IF s = {} THEN 0 ELSE LET x == CHOOSE y \in s : TRUE IN v[x] + h[s \ {x}]

Solves(S, v, h) == h = [s \in SUBSET S |-> Folded(s, v, h)]

(* The recursive definition of the fold has a solution.                    *)
LEMMA FoldExists ==
  ASSUME NEW S, IsFiniteSet(S), NEW v \in [S -> Int]
  PROVE  \E h : Solves(S, v, h)
<1> DEFINE Small(n) == {s \in SUBSET S : Cardinality(s) <= n}
           Part(n, h) == h \in [Small(n) -> Int] /\ \A s \in Small(n) : h[s] = Folded(s, v, h)
           N == {n \in Nat : \E h : Part(n, h)}
<1>1. \A T \in SUBSET S : IsFiniteSet(T) /\ Cardinality(T) \in Nat /\ Cardinality(T) <= Cardinality(S)
  BY FS_Subset, FS_CardinalityType
<1>2. \A T \in SUBSET S : T # {} =>
        LET x == CHOOSE y \in T : TRUE
        IN  x \in T /\ v[x] \in Int /\ T \ {x} \in SUBSET S /\ Cardinality(T \ {x}) = Cardinality(T) - 1
  BY <1>1, FS_RemoveElement
<1>3. 0 \in N
  <2> DEFINE h == [s \in Small(0) |-> 0]
  <2>1. \A s \in Small(0) : s = {}
    <3> SUFFICES ASSUME NEW s \in SUBSET S, Cardinality(s) <= 0 PROVE s = {}
      OBVIOUS
    <3>1. Cardinality(s) = 0
      BY <1>1
    <3> QED
      BY <1>1, <3>1, FS_EmptySet
  <2>2. Part(0, h)
    BY <2>1 DEF Folded
  <2> QED
    BY <2>2
<1>4. ASSUME NEW n \in N PROVE n + 1 \in N
  <2>1. PICK h : Part(n, h)
    OBVIOUS
  <2>2. n \in Nat /\ n + 1 \in Nat
    OBVIOUS
  <2> DEFINE k == [s \in Small(n + 1) |-> IF s \in Small(n) THEN h[s] ELSE Folded(s, v, h)]
  <2>3. ASSUME NEW s \in Small(n + 1), s # {}
        PROVE  LET x == CHOOSE y \in s : TRUE
               IN  v[x] \in Int /\ s \ {x} \in Small(n) /\ s \ {x} \in Small(n + 1)
    <3> DEFINE x == CHOOSE y \in s : TRUE
    <3>1. /\ v[x] \in Int /\ s \ {x} \in SUBSET S
          /\ Cardinality(s \ {x}) = Cardinality(s) - 1
      BY <1>2, <2>3
    <3>2. Cardinality(s) \in Nat /\ Cardinality(s) <= n + 1
      BY <1>1
    <3> HIDE DEF x
    <3>3. Cardinality(s \ {x}) <= n /\ Cardinality(s \ {x}) <= n + 1
      BY <2>2, <3>1, <3>2
    <3> QED
      BY <3>1, <3>3 DEF x
  <2>4. ASSUME NEW s \in Small(n + 1) PROVE Folded(s, v, h) \in Int
    <3>1. CASE s = {}
      BY <3>1 DEF Folded
    <3>2. CASE s # {}
      <4> DEFINE x == CHOOSE y \in s : TRUE
      <4>1. v[x] \in Int /\ h[s \ {x}] \in Int
        BY <2>1, <2>3, <3>2
      <4>2. Folded(s, v, h) = v[x] + h[s \ {x}]
        BY <3>2 DEF Folded
      <4> HIDE DEF x
      <4> QED
        BY <4>1, <4>2
    <3> QED
      BY <3>1, <3>2
  <2>5. k \in [Small(n + 1) -> Int]
    <3> HIDE DEF Small
    <3> QED
      BY <2>1, <2>4
  <2>6. ASSUME NEW s \in Small(n + 1) PROVE k[s] = Folded(s, v, h)
    BY <2>1
  <2>7. ASSUME NEW s \in Small(n + 1) PROVE Folded(s, v, k) = Folded(s, v, h)
    <3>1. CASE s = {}
      BY <3>1 DEF Folded
    <3>2. CASE s # {}
      <4> DEFINE x == CHOOSE y \in s : TRUE
      <4>1. s \ {x} \in Small(n) /\ s \ {x} \in Small(n + 1)
        BY <2>3, <3>2
      <4>2. k[s \ {x}] = h[s \ {x}]
        BY <4>1
      <4>3. Folded(s, v, h) = v[x] + h[s \ {x}] /\ Folded(s, v, k) = v[x] + k[s \ {x}]
        <5> HIDE DEF k
        <5> QED
          BY <3>2 DEF Folded
      <4> HIDE DEF x, k
      <4> QED
        BY <4>2, <4>3
    <3> QED
      BY <3>1, <3>2
  <2>8. Part(n + 1, k)
    <3> HIDE DEF k, Small
    <3> QED
      BY <2>5, <2>6, <2>7
  <2> QED
    BY <2>2, <2>8
<1>5. Cardinality(S) \in N
  <2>1. N \in SUBSET Nat /\ Cardinality(S) \in Nat
    BY <1>1
  <2> HIDE DEF N
  <2> QED
    BY <1>3, <1>4, <2>1, InductiveSet
<1>6. PICK h : Part(Cardinality(S), h)
  BY <1>5
<1>7. Small(Cardinality(S)) = SUBSET S
  BY <1>1
<1>8. h = [s \in SUBSET S |-> h[s]]
  BY <1>6, <1>7
<1>9. h = [s \in SUBSET S |-> Folded(s, v, h)]
  BY <1>6, <1>7, <1>8
<1> QED
  BY <1>9 DEF Solves

(* That solution is the sum: the order does not matter.                    *)
LEMMA FoldSums ==
  ASSUME NEW S, IsFiniteSet(S), NEW v \in [S -> Int],
         NEW h, Solves(S, v, h)
  PROVE  Sums(S, v, h)
<1> DEFINE Good(T) == /\ h[T] \in Int
                      /\ \A x \in T : h[T] = v[x] + h[T \ {x}] /\ h[T \ {x}] \in Int
           C == {T \in SUBSET S : Good(T)}
<1>0. h = [s \in SUBSET S |-> h[s]] /\ \A s \in SUBSET S : h[s] = Folded(s, v, h)
  BY DEF Solves
<1>1. h[{}] = 0
  BY <1>0 DEF Folded
<1>2. ASSUME NEW T \in SUBSET S, \A x \in T : T \ {x} \in C PROVE T \in C
  <2>1. CASE T = {}
    BY <1>1, <2>1
  <2>2. CASE T # {}
    <3> DEFINE c == CHOOSE y \in T : TRUE
    <3>1. c \in T
      BY <2>2
    <3>2. h[T] = v[c] + h[T \ {c}]
      <4>1. h[T] = Folded(T, v, h)
        BY <1>0
      <4> HIDE DEF c
      <4>2. Folded(T, v, h) = v[c] + h[T \ {c}]
        BY <2>2 DEF Folded, c
      <4> QED
        BY <4>1, <4>2
    <3> HIDE DEF c
    <3>3. ASSUME NEW x \in T PROVE v[x] \in Int /\ Good(T \ {x})
      BY <1>2
    <3>4. \A x \in T : v[x] \in Int /\ h[T \ {x}] \in Int
      BY <3>3
    <3>5. h[T] \in Int
      BY <3>1, <3>2, <3>4
    <3>6. ASSUME NEW x \in T PROVE h[T] = v[x] + h[T \ {x}]
      <4>1. CASE x = c
        BY <3>2, <4>1
      <4>2. CASE x # c
        <5> DEFINE r == (T \ {c}) \ {x}
        <5>1. c \in T \ {x} /\ x \in T \ {c} /\ (T \ {x}) \ {c} = r
          BY <3>1, <4>2
        <5>2. h[T \ {x}] = v[c] + h[r] /\ h[r] \in Int
          BY <3>3, <5>1
        <5>3. h[T \ {c}] = v[x] + h[r]
          BY <3>1, <3>3, <5>1
        <5> HIDE DEF r, Good
        <5> QED
          BY <3>1, <3>2, <3>4, <5>2, <5>3
      <4> QED
        BY <4>1, <4>2
    <3> QED
      BY <3>4, <3>5, <3>6
  <2> QED
    BY <2>1, <2>2
<1>3. \A T \in SUBSET S : T \in C
  <2>1. C \in SUBSET (SUBSET S)
    OBVIOUS
  <2> HIDE DEF C
  <2> QED
    BY <1>2, <2>1, AllSubsets
<1>4. h \in [SUBSET S -> Int]
  BY <1>0, <1>3
<1> QED
  BY <1>1, <1>3, <1>4 DEF Sums

(* MapThenSumSet sums the sizes, as in mm_print_block_usage.               *)
LEMMA UsageIsSum ==
  ASSUME NEW S, IsFiniteSet(S), \A b \in S : application_memory_usage(b) \in Int
  PROVE  \E h : /\ Sums(S, [b \in S |-> application_memory_usage(b)], h)
                /\ MapThenSumSet(application_memory_usage, S) = h[S]
<1> DEFINE v == [b \in S |-> application_memory_usage(b)]
           body(h, s) == IF s = {} THEN 0
                         ELSE LET x == CHOOSE y \in s : TRUE
                              IN  application_memory_usage(x) + h[s \ {x}]
           h == CHOOSE g : g = [s \in SUBSET S |-> body(g, s)]
<1>1. MapThenSumSet(application_memory_usage, S) = h[S]
  BY DEF MapThenSumSet, MapThenFoldSet
<1>2. ASSUME NEW s \in SUBSET S, NEW g PROVE body(g, s) = Folded(s, v, g)
  <2>1. s # {} => (CHOOSE y \in s : TRUE) \in S
    OBVIOUS
  <2> QED
    BY <2>1 DEF Folded
<1>3. v \in [S -> Int]
  <2> HIDE DEF application_memory_usage
  <2> QED
    OBVIOUS
<1> HIDE DEF body, v
<1>4. \E g : g = [s \in SUBSET S |-> body(g, s)]
  <2>1. PICK g : Solves(S, v, g)
    BY <1>3, FoldExists
  <2> QED
    BY <1>2, <2>1 DEF Solves
<1>5. h = [s \in SUBSET S |-> body(h, s)]
  BY <1>4
<1>6. Solves(S, v, h)
  <2> HIDE DEF h
  <2> QED
    BY <1>2, <1>5 DEF Solves
<1> HIDE DEF h
<1>7. Sums(S, v, h)
  BY <1>3, <1>6, FoldSums
<1> QED
  BY <1>1, <1>7 DEF v

(* The bytes of a region, with the meta block in front of it.              *)
Extent(r) == r.upto - r.from + SIZEOF_META

(* MapThenSumSet sums the extents, as in ReportIsTrue ...                   *)
LEMMA ExtentIsSum ==
  ASSUME NEW S, IsFiniteSet(S), \A r \in S : Extent(r) \in Int
  PROVE  \E h : /\ Sums(S, [r \in S |-> Extent(r)], h)
                /\ MapThenSumSet(LAMBDA r : r.upto - r.from + SIZEOF_META, S) = h[S]
<1> DEFINE v == [r \in S |-> Extent(r)]
           body(h, s) == IF s = {} THEN 0
                         ELSE LET x == CHOOSE y \in s : TRUE
                              IN  (x.upto - x.from + SIZEOF_META) + h[s \ {x}]
           h == CHOOSE g : g = [s \in SUBSET S |-> body(g, s)]
<1>1. MapThenSumSet(LAMBDA r : r.upto - r.from + SIZEOF_META, S) = h[S]
  BY DEF MapThenSumSet, MapThenFoldSet
<1>2. ASSUME NEW s \in SUBSET S, NEW g PROVE body(g, s) = Folded(s, v, g)
  <2>1. s # {} => (CHOOSE y \in s : TRUE) \in S
    OBVIOUS
  <2> QED
    BY <2>1 DEF Folded, Extent
<1>3. v \in [S -> Int]
  OBVIOUS
<1> HIDE DEF body, v
<1>4. \E g : g = [s \in SUBSET S |-> body(g, s)]
  <2>1. PICK g : Solves(S, v, g)
    BY <1>3, FoldExists
  <2> QED
    BY <1>2, <2>1 DEF Solves
<1>5. h = [s \in SUBSET S |-> body(h, s)]
  BY <1>4
<1>6. Solves(S, v, h)
  <2> HIDE DEF h
  <2> QED
    BY <1>2, <1>5 DEF Solves
<1> HIDE DEF h
<1>7. Sums(S, v, h)
  BY <1>3, <1>6, FoldSums
<1> QED
  BY <1>1, <1>7 DEF v

(* ... and the numbers of pages, as in mm_print_memory_usage.              *)
LEMMA PagesIsSum ==
  ASSUME NEW S, IsFiniteSet(S), \A f \in S : Cardinality(PagesOf(f)) \in Int
  PROVE  \E h : /\ Sums(S, [f \in S |-> Cardinality(PagesOf(f))], h)
                /\ MapThenSumSet(LAMBDA f : Cardinality(PagesOf(f)), S) = h[S]
<1> DEFINE v == [f \in S |-> Cardinality(PagesOf(f))]
           body(h, s) == IF s = {} THEN 0
                         ELSE LET x == CHOOSE y \in s : TRUE
                              IN  Cardinality(PagesOf(x)) + h[s \ {x}]
           h == CHOOSE g : g = [s \in SUBSET S |-> body(g, s)]
<1>1. MapThenSumSet(LAMBDA f : Cardinality(PagesOf(f)), S) = h[S]
  BY DEF MapThenSumSet, MapThenFoldSet
<1>2. ASSUME NEW s \in SUBSET S, NEW g PROVE body(g, s) = Folded(s, v, g)
  <2>1. s # {} => (CHOOSE y \in s : TRUE) \in S
    OBVIOUS
  <2> QED
    BY <2>1 DEF Folded
<1>3. v \in [S -> Int]
  OBVIOUS
<1> HIDE DEF body, v
<1>4. \E g : g = [s \in SUBSET S |-> body(g, s)]
  <2>1. PICK g : Solves(S, v, g)
    BY <1>3, FoldExists
  <2> QED
    BY <1>2, <2>1 DEF Solves
<1>5. h = [s \in SUBSET S |-> body(h, s)]
  BY <1>4
<1>6. Solves(S, v, h)
  <2> HIDE DEF h
  <2> QED
    BY <1>2, <1>5 DEF Solves
<1> HIDE DEF h
<1>7. Sums(S, v, h)
  BY <1>3, <1>6, FoldSums
<1> QED
  BY <1>1, <1>7 DEF v

(* A bijection that keeps the values keeps the sum.                        *)
LEMMA SameSum ==
  ASSUME NEW S, IsFiniteSet(S), NEW R, NEW v, NEW w, NEW h, NEW k,
         Sums(S, v, h), Sums(R, w, k),
         NEW b \in Bijection(S, R), \A x \in S : v[x] = w[b[x]]
  PROVE  h[S] = k[R]
<1> DEFINE C == {T \in SUBSET S : h[T] = k[{b[x] : x \in T}]}
<1>1. /\ h[{}] = 0 /\ \A T \in SUBSET S : \A x \in T : h[T] = v[x] + h[T \ {x}]
      /\ k[{}] = 0 /\ \A T \in SUBSET R : \A x \in T : k[T] = w[x] + k[T \ {x}]
  BY DEF Sums
<1>2. /\ \A x \in S : b[x] \in R
      /\ \A x, y \in S : b[x] = b[y] => x = y
      /\ \A y \in R : \E x \in S : b[x] = y
  BY DEF Bijection, Injection, Surjection, IsInjective
<1>3. ASSUME NEW T \in SUBSET S, \A x \in T : T \ {x} \in C PROVE T \in C
  <2>1. CASE T = {}
    <3>1. {b[x] : x \in T} = {}
      BY <2>1
    <3> QED
      BY <1>1, <2>1, <3>1
  <2>2. CASE T # {}
    <3>1. PICK c \in T : TRUE
      BY <2>2
    <3> DEFINE I(U) == {b[x] : x \in U}
    <3>2. I(T) \in SUBSET R /\ b[c] \in I(T)
      BY <1>2
    <3>3. I(T) \ {b[c]} = I(T \ {c})
      BY <1>2
    <3>4. h[T] = v[c] + h[T \ {c}]
      BY <1>1
    <3>5. k[I(T)] = w[b[c]] + k[I(T \ {c})]
      <4> DEFINE U == I(T)
      <4>1. U \in SUBSET R /\ b[c] \in U /\ U \ {b[c]} = I(T \ {c})
        BY <3>2, <3>3
      <4> HIDE DEF U, I
      <4>2. k[U] = w[b[c]] + k[U \ {b[c]}]
        BY <1>1, <4>1
      <4> QED
        BY <4>1, <4>2 DEF U
    <3>6. h[T \ {c}] = k[I(T \ {c})]
      BY <1>3
    <3>7. v[c] = w[b[c]]
      OBVIOUS
    <3>8. h[T] = k[I(T)]
      <4> HIDE DEF I
      <4> QED
        BY <3>4, <3>5, <3>6, <3>7
    <3> QED
      BY <3>8
  <2> QED
    BY <2>1, <2>2
<1>4. S \in C
  <2>1. C \in SUBSET (SUBSET S)
    OBVIOUS
  <2> HIDE DEF C
  <2> QED
    BY <1>3, <2>1, AllSubsets
<1>5. {b[x] : x \in S} = R
  BY <1>2
<1> QED
  BY <1>4, <1>5

-----------------------------------------------------------------------------
(* The report *)

(* The blocks the walks come to are those of the family's pages, and they  *)
(* are finitely many.                                                      *)
LEMMA BlocksWalked ==
  ASSUME IInv, IsFiniteSet(Page), NEW f \in Family
  PROVE  /\ IsFiniteSet(BlocksOf(f))
         /\ \A b : b \in BlocksOf(f) <=>
              \E p \in Page, k \in Offset :
                /\ Mapped(p) /\ page[p].pg_family = f /\ InChain(block[p], k)
                /\ b = [page |-> p, at |-> k]
<1>1. ASSUME NEW b
      PROVE  b \in BlocksOf(f) <=>
              \E p \in Page, k \in Offset :
                /\ Mapped(p) /\ page[p].pg_family = f /\ InChain(block[p], k)
                /\ b = [page |-> p, at |-> k]
  <2>1. PagesOf(f) = {p \in Page : Mapped(p) /\ page[p].pg_family = f}
    BY ListReachesPages
  <2> QED
    BY <2>1 DEF BlocksOf, Chain
<1> DEFINE R == [page : Page, at : Offset]
           g == [x \in Page \X Offset |-> [page |-> x[1], at |-> x[2]]]
<1>2. IsFiniteSet(Offset)
  BY FS_Interval, PageGeometry DEF Offset
<1>3. IsFiniteSet(Page \X Offset)
  BY <1>2, FS_Product
<1>4. g \in Surjection(Page \X Offset, R)
  <2>1. g \in [Page \X Offset -> R]
    OBVIOUS
  <2>2. ASSUME NEW r \in R PROVE \E x \in Page \X Offset : g[x] = r
    <3>1. <<r.page, r.at>> \in Page \X Offset
      OBVIOUS
    <3>2. g[<<r.page, r.at>>] = r
      BY <3>1
    <3> QED
      BY <3>1, <3>2
  <2> HIDE DEF g, R
  <2> QED
    BY <2>1, <2>2 DEF Surjection
<1>5. IsFiniteSet(R)
  <2> HIDE DEF R, g
  <2> QED
    BY <1>3, <1>4, FS_Surjection DEF ExistsSurjection
<1>6. BlocksOf(f) \in SUBSET R
  BY <1>1
<1>7. IsFiniteSet(BlocksOf(f))
  <2> HIDE DEF R
  <2> QED
    BY <1>5, <1>6, FS_Subset
<1> QED
  BY <1>1, <1>7

OccupiedOf(f) == {b \in BlocksOf(f) : IsOccupied(b)}

OwnedOf(f) == {r \in Owned : r.family = f}

(* The occupied blocks are those in front of the callers' memory, and make *)
(* up the same number of bytes.                                            *)
LEMMA OccupiedAreOwned ==
  ASSUME IInv, IsFiniteSet(Page), NEW f \in Family
  PROVE  /\ IsFiniteSet(OccupiedOf(f)) /\ IsFiniteSet(OwnedOf(f))
         /\ Cardinality(OccupiedOf(f)) = Cardinality(OwnedOf(f))
         /\ MapThenSumSet(application_memory_usage, OccupiedOf(f)) =
              MapThenSumSet(LAMBDA r : r.upto - r.from + SIZEOF_META, OwnedOf(f))
<1> DEFINE S == OccupiedOf(f)
           R == OwnedOf(f)
           g == [b \in S |-> RegionAt(b.page, b.at)]
<1>1. \A b : b \in S <=>
        \E p \in Page, k \in Offset :
          /\ Allocated(p, k) /\ page[p].pg_family = f
          /\ b = [page |-> p, at |-> k]
  BY BlocksWalked DEF OccupiedOf, IsOccupied, Allocated
<1>2. \A r : r \in R <=>
        \E p \in Page, k \in Offset :
          /\ Allocated(p, k) /\ page[p].pg_family = f
          /\ r = RegionAt(p, k)
  BY OwnedMembers DEF OwnedOf, RegionAt
<1>3. \A p \in Page, k \in Offset : Allocated(p, k) =>
        /\ k \in Int /\ block[p][k].block_size \in Int
        /\ EndBySize(block[p], k) = k + SIZEOF_META + block[p][k].block_size
  <2> SUFFICES ASSUME NEW p \in Page, NEW k \in Offset, Allocated(p, k)
               PROVE  /\ k \in Int /\ block[p][k].block_size \in Int
                      /\ EndBySize(block[p], k) = k + SIZEOF_META + block[p][k].block_size
    OBVIOUS
  <2>1. block[p] \in Blocks /\ k \in Chain(block[p])
    BY DEF IInv, TypeOK, Allocated, Chain
  <2>2. k \in Offset /\ block[p][k].block_size \in Nat
    BY <2>1, ChainBlock
  <2> QED
    BY <2>2 DEF EndBySize, Offset
<1>4. \A b \in S : b.page \in Page /\ b.at \in Offset /\ Allocated(b.page, b.at) /\ page[b.page].pg_family = f
                   /\ b = [page |-> b.page, at |-> b.at]
  BY <1>1
<1>5. g \in Bijection(S, R)
  <2>1. g \in [S -> R]
    <3>1. \A b \in S : RegionAt(b.page, b.at) \in R
      BY <1>2, <1>4
    <3> QED
      BY <3>1
  <2>2. ASSUME NEW b \in S, NEW c \in S, g[b] = g[c] PROVE b = c
    <3>1. b.page = c.page /\ b.at + SIZEOF_META = c.at + SIZEOF_META
      BY <2>2 DEF RegionAt
    <3>2. b.at \in Int /\ c.at \in Int
      BY <1>3, <1>4
    <3>3. b.at = c.at
      BY <3>1, <3>2, PageGeometry
    <3>4. b = [page |-> b.page, at |-> b.at] /\ c = [page |-> c.page, at |-> c.at]
      BY <1>4
    <3> QED
      BY <3>1, <3>3, <3>4
  <2>3. ASSUME NEW r \in R PROVE \E b \in S : g[b] = r
    <3>1. PICK p \in Page, k \in Offset :
            Allocated(p, k) /\ page[p].pg_family = f /\ r = RegionAt(p, k)
      BY <1>2
    <3>2. [page |-> p, at |-> k] \in S
      BY <1>1, <3>1
    <3>3. g[[page |-> p, at |-> k]] = r
      BY <3>1, <3>2
    <3> QED
      BY <3>2, <3>3
  <2> HIDE DEF g, S, R
  <2> QED
    BY <2>1, <2>2, <2>3 DEF Bijection, Injection, Surjection, IsInjective
<1>6. IsFiniteSet(S)
  <2>1. S \in SUBSET BlocksOf(f) /\ IsFiniteSet(BlocksOf(f))
    BY BlocksWalked DEF OccupiedOf
  <2> HIDE DEF S
  <2> QED
    BY <2>1, FS_Subset
<1>7. IsFiniteSet(R) /\ Cardinality(R) = Cardinality(S)
  <2> HIDE DEF S, R, g
  <2> QED
    BY <1>5, <1>6, FS_Bijection DEF ExistsBijection
<1>8. \A b \in S : /\ application_memory_usage(b) \in Int
                   /\ Extent(g[b]) = application_memory_usage(b)
  <2> SUFFICES ASSUME NEW b \in S
               PROVE  /\ application_memory_usage(b) \in Int
                      /\ Extent(g[b]) = application_memory_usage(b)
    OBVIOUS
  <2> DEFINE n == block[b.page][b.at].block_size
             k == b.at
  <2>1. /\ k \in Int /\ n \in Int /\ EndBySize(block[b.page], k) = k + SIZEOF_META + n
    BY <1>3, <1>4
  <2>2. application_memory_usage(b) = n + SIZEOF_META
    BY DEF application_memory_usage
  <2>3. g[b].from = k + SIZEOF_META /\ g[b].upto = EndBySize(block[b.page], k)
    BY DEF RegionAt
  <2>4. Extent(g[b]) = g[b].upto - g[b].from + SIZEOF_META
    BY DEF Extent
  <2>5. SIZEOF_META \in Int
    BY PageGeometry
  <2> HIDE DEF n, k, g
  <2> QED
    BY <2>1, <2>2, <2>3, <2>4, <2>5
<1>9. \A r \in R : Extent(r) \in Int
  <2> SUFFICES ASSUME NEW r \in R PROVE Extent(r) \in Int
    OBVIOUS
  <2>1. PICK b \in S : g[b] = r
    <3> HIDE DEF S, R, g
    <3> QED
      BY <1>5 DEF Bijection, Surjection
  <2> HIDE DEF S, R, g
  <2> QED
    BY <1>8, <2>1
<1> DEFINE v == [b \in S |-> application_memory_usage(b)]
           w == [r \in R |-> Extent(r)]
<1>10. PICK h : Sums(S, v, h) /\ MapThenSumSet(application_memory_usage, S) = h[S]
  <2> HIDE DEF S
  <2> QED
    BY <1>6, <1>8, UsageIsSum
<1>11. PICK k : /\ Sums(R, w, k)
                /\ MapThenSumSet(LAMBDA r : r.upto - r.from + SIZEOF_META, R) = k[R]
  <2> HIDE DEF R
  <2> QED
    BY <1>7, <1>9, ExtentIsSum
<1>12. h[S] = k[R]
  <2>1. \A b \in S : v[b] = w[g[b]]
    <3> HIDE DEF S, R, g
    <3>1. \A b \in S : g[b] \in R
      BY <1>5 DEF Bijection, Injection
    <3> QED
      BY <1>8, <3>1
  <2>2. Sums(S, v, h) /\ Sums(R, w, k)
    BY <1>10, <1>11
  <2> HIDE DEF S, R, g, v, w
  <2> QED
    BY <1>5, <1>6, <2>1, <2>2, SameSum
<1> QED
  BY <1>6, <1>7, <1>10, <1>11, <1>12

NodesOf(f) == {e \in free_list[f] : Mapped(e.page) /\ InChain(block[e.page], e.at)}

(* The other blocks are those of the nodes that lead to a block.           *)
LEMMA OthersAreListed ==
  ASSUME IInv, IsFiniteSet(Page), NEW f \in Family
  PROVE  Cardinality(BlocksOf(f) \ OccupiedOf(f)) = Cardinality(NodesOf(f))
<1> DEFINE S == BlocksOf(f) \ OccupiedOf(f)
           g == [b \in S |-> NewNode(b.page, b.at, block[b.page])]
<1>1. \A b : b \in S <=>
        \E p \in Page, k \in Offset :
          /\ Mapped(p) /\ page[p].pg_family = f /\ InChain(block[p], k)
          /\ block[p][k].is_free
          /\ b = [page |-> p, at |-> k]
  BY BlocksWalked DEF OccupiedOf, IsOccupied
<1>2. \A b \in S : /\ b.page \in Page /\ b.at \in Offset /\ Mapped(b.page)
                   /\ page[b.page].pg_family = f /\ b.at \in Chain(block[b.page])
                   /\ block[b.page][b.at].is_free
                   /\ b = [page |-> b.page, at |-> b.at]
  BY <1>1 DEF Chain
<1>3. ASSUME NEW b \in S PROVE g[b] \in NodesOf(f)
  <2>1. g[b] = NewNode(b.page, b.at, block[b.page])
    BY <1>3
  <2>2. g[b] \in free_list[f]
    BY <1>2, <2>1 DEF IInv, FreeBlocksHaveNodes
  <2>3. g[b].page = b.page /\ g[b].at = b.at
    BY <2>1 DEF NewNode
  <2> QED
    BY <1>2, <2>2, <2>3 DEF NodesOf, Chain
<1>4. ASSUME NEW b \in S, NEW c \in S, g[b] = g[c] PROVE b = c
  <2>1. b.page = c.page /\ b.at = c.at
    BY <1>4 DEF NewNode
  <2>2. b = [page |-> b.page, at |-> b.at] /\ c = [page |-> c.page, at |-> c.at]
    BY <1>2
  <2> QED
    BY <2>1, <2>2
<1>5. ASSUME NEW e \in NodesOf(f) PROVE \E b \in S : g[b] = e
  <2>1. /\ e \in Node /\ e.page \in Page /\ e.at \in Offset
        /\ e = [page |-> e.page, at |-> e.at, size |-> e.size]
    BY DEF NodesOf, IInv, TypeOK, Node
  <2>2. /\ Mapped(e.page) /\ InChain(block[e.page], e.at)
        /\ block[e.page][e.at].is_free /\ block[e.page][e.at].block_size = e.size
        /\ page[e.page].pg_family = f
    BY DEF NodesOf, IInv, NodesSound
  <2>3. [page |-> e.page, at |-> e.at] \in S
    BY <1>1, <2>1, <2>2
  <2>4. g[[page |-> e.page, at |-> e.at]] = e
    BY <2>1, <2>2, <2>3 DEF NewNode
  <2> QED
    BY <2>3, <2>4
<1>6. IsFiniteSet(S)
  <2>1. S \in SUBSET BlocksOf(f) /\ IsFiniteSet(BlocksOf(f))
    BY BlocksWalked
  <2> HIDE DEF S
  <2> QED
    BY <2>1, FS_Subset
<1>7. g \in Bijection(S, NodesOf(f))
  <2>1. g \in [S -> NodesOf(f)]
    <3>1. g = [b \in S |-> g[b]]
      OBVIOUS
    <3> HIDE DEF g, S
    <3> QED
      BY <1>3, <3>1
  <2> HIDE DEF g, S
  <2> QED
    BY <1>4, <1>5, <2>1 DEF Bijection, Injection, Surjection, IsInjective
<1> HIDE DEF g, S
<1> QED
  BY <1>6, <1>7, FS_Bijection DEF ExistsBijection, S

(* Every mapped page is one of one family's.                               *)
LEMMA PagesOfAllFamilies ==
  ASSUME IInv, IsFiniteSet(Page), IsFiniteSet(Family)
  PROVE  mm_print_memory_usage = Cardinality(MappedPages)
<1> DEFINE In(F) == {p \in Page : Mapped(p) /\ page[p].pg_family \in F}
           v == [f \in Family |-> Cardinality(PagesOf(f))]
<1>1. \A f \in Family : PagesOf(f) = In({f})
  BY ListReachesPages
<1>2. \A F \in SUBSET Family : IsFiniteSet(In(F)) /\ Cardinality(In(F)) \in Nat
  <2> SUFFICES ASSUME NEW F \in SUBSET Family
               PROVE  IsFiniteSet(In(F)) /\ Cardinality(In(F)) \in Nat
    OBVIOUS
  <2>1. In(F) \in SUBSET Page
    OBVIOUS
  <2> HIDE DEF In
  <2> QED
    BY <2>1, FS_Subset, FS_CardinalityType
<1>3. \A f \in Family : Cardinality(PagesOf(f)) \in Int
  <2>1. \A f \in Family : Cardinality(In({f})) \in Int
    <3> HIDE DEF In
    <3> QED
      BY <1>2
  <2> QED
    BY <1>1, <2>1
<1>4. PICK h : Sums(Family, v, h) /\ mm_print_memory_usage = h[Family]
  <2>1. PICK h : /\ Sums(Family, v, h)
                 /\ MapThenSumSet(LAMBDA f : Cardinality(PagesOf(f)), Family) = h[Family]
    BY <1>3, PagesIsSum
  <2> QED
    BY <2>1 DEF mm_print_memory_usage
<1> DEFINE C == {F \in SUBSET Family : h[F] = Cardinality(In(F))}
<1>5. ASSUME NEW F \in SUBSET Family, \A f \in F : F \ {f} \in C PROVE F \in C
  <2>1. CASE F = {}
    <3>1. In(F) = {}
      BY <2>1
    <3>2. h[F] = 0
      BY <1>4, <2>1 DEF Sums
    <3> QED
      BY <3>1, <3>2, FS_EmptySet
  <2>2. CASE F # {}
    <3>1. PICK f \in F : TRUE
      BY <2>2
    <3> DEFINE G == F \ {f}
    <3>2. In(F) = In(G) \cup In({f}) /\ In(G) \cap In({f}) = {}
      OBVIOUS
    <3>3. h[F] = v[f] + h[G]
      BY <1>4 DEF Sums
    <3>4. v[f] = Cardinality(In({f})) /\ h[G] = Cardinality(In(G))
      BY <1>1, <1>5
    <3>5. /\ IsFiniteSet(In(G)) /\ IsFiniteSet(In({f}))
          /\ Cardinality(In(G)) \in Nat /\ Cardinality(In({f})) \in Nat
      <4> HIDE DEF In
      <4> QED
        BY <1>2
    <3> HIDE DEF In, G
    <3>6. Cardinality(In(F)) = Cardinality(In(G)) + Cardinality(In({f})) - Cardinality({})
      BY <3>2, <3>5, FS_Union
    <3>7. Cardinality(In(F)) = h[F]
      BY <3>3, <3>4, <3>5, <3>6, FS_EmptySet
    <3> QED
      BY <3>7
  <2> QED
    BY <2>1, <2>2
<1>6. Family \in C
  <2>1. C \in SUBSET (SUBSET Family)
    OBVIOUS
  <2> HIDE DEF C
  <2> QED
    BY <1>5, <2>1, AllSubsets
<1>7. In(Family) = MappedPages
  BY HeaderOfMapped DEF IInv, MappedPages
<1> QED
  BY <1>4, <1>6, <1>7

(* What the statistics report is true: the occupied blocks and their bytes *)
(* are those of the memory in the callers' hands, the others are those of  *)
(* the free list, and the pages are all that are mapped, after any history *)
(* of splits, merges and returned pages.  Families and page addresses are  *)
(* finitely many.                                                          *)
THEOREM ReportsAreTrue ==
  IsFiniteSet(Page) /\ IsFiniteSet(Family) => (Spec => []ReportIsTrue)
<1> SUFFICES ASSUME IsFiniteSet(Page), IsFiniteSet(Family) PROVE Spec => []ReportIsTrue
  OBVIOUS
<1>1. IInv => ReportIsTrue
  <2> SUFFICES ASSUME IInv PROVE ReportIsTrue
    OBVIOUS
  <2>1. mm_print_memory_usage = Cardinality(MappedPages)
    BY PagesOfAllFamilies
  <2>2. ASSUME NEW f \in Family
        PROVE  LET report == mm_print_block_usage(f)
                   owned  == {r \in Owned : r.family = f}
                   nodes  == {e \in free_list[f] : Mapped(e.page) /\ InChain(block[e.page], e.at)}
               IN  /\ report.occupied_block_count = Cardinality(owned)
                   /\ report.application_memory_usage =
                        MapThenSumSet(LAMBDA r : r.upto - r.from + SIZEOF_META, owned) % UINT32
                   /\ report.free_block_count = Cardinality(nodes)
                   /\ report.total_block_count =
                        report.free_block_count + report.occupied_block_count
    <3> DEFINE report == mm_print_block_usage(f)
    <3>1. /\ report.total_block_count = Cardinality(BlocksOf(f))
          /\ report.free_block_count = Cardinality(BlocksOf(f) \ OccupiedOf(f))
          /\ report.occupied_block_count = Cardinality(OccupiedOf(f))
          /\ report.application_memory_usage =
               MapThenSumSet(application_memory_usage, OccupiedOf(f)) % UINT32
      BY DEF mm_print_block_usage, OccupiedOf
    <3> HIDE DEF report
    <3>2. report.occupied_block_count = Cardinality(OwnedOf(f))
      BY <3>1, OccupiedAreOwned
    <3>3. report.application_memory_usage =
            MapThenSumSet(LAMBDA r : r.upto - r.from + SIZEOF_META, OwnedOf(f)) % UINT32
      BY <3>1, OccupiedAreOwned
    <3>4. report.free_block_count = Cardinality(NodesOf(f))
      BY <3>1, OthersAreListed
    <3>5. report.total_block_count = report.free_block_count + report.occupied_block_count
      <4> DEFINE B == BlocksOf(f)
                 O == OccupiedOf(f)
      <4>1. IsFiniteSet(B) /\ O \in SUBSET B
        BY BlocksWalked DEF OccupiedOf
      <4>2. /\ report.total_block_count = Cardinality(B)
            /\ report.free_block_count = Cardinality(B \ O)
            /\ report.occupied_block_count = Cardinality(O)
        BY <3>1
      <4> HIDE DEF B, O
      <4>3. Cardinality(B \ O) = Cardinality(B) - Cardinality(B \cap O) /\ B \cap O = O
        BY <4>1, FS_Difference
      <4>4. Cardinality(B) \in Nat /\ Cardinality(O) \in Nat
        BY <4>1, FS_Subset, FS_CardinalityType
      <4> QED
        BY <4>2, <4>3, <4>4
    <3> QED
      BY <3>2, <3>3, <3>4, <3>5 DEF OwnedOf, NodesOf, report
  <2> QED
    BY <2>1, <2>2 DEF ReportIsTrue
<1> QED
  BY <1>1, Invariance, PTL

==============================================================================
