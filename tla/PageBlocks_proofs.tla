-------------------------- MODULE PageBlocks_proofs --------------------------
(***************************************************************************)
(* Lemmas about the page-local helpers of PageBlocks: a fresh page, a split *)
(* and a release keep the blocks of the page well formed.  They hold for   *)
(* every page size and every size of the structures.                       *)
(***************************************************************************)
EXTENDS PageBlocks, TLAPS

(* The first block of a page is at an offset of the page. *)
LEMMA FirstOffset == OFFSET_META \in Offset
  BY PageGeometry DEF Offset

(* allocate_vm_page leaves one free block that covers the page. *)
LEMMA EmptyPageWellFormed ==
  /\ EmptyPage \in Blocks
  /\ WellFormed(EmptyPage)
  /\ Chain(EmptyPage) = {OFFSET_META}
<1> DEFINE b == [is_free |-> TRUE, block_size |-> mm_max_page_allocatable_memory,
                 offset |-> OFFSET_META, prev_block |-> NULL, next_block |-> NULL,
                 absorbed |-> FALSE]
<1>1. b \in Block
  BY PageGeometry DEF Block, mm_max_page_allocatable_memory
<1>2. /\ EmptyPage = [o \in Offset |-> IF o = OFFSET_META THEN b ELSE NULL]
      /\ EmptyPage \in Blocks
  BY <1>1, FirstOffset DEF EmptyPage, NoBlocks, Blocks
<1>3. EmptyPage[OFFSET_META] = b
  BY <1>2, FirstOffset
<1>4. Chain(EmptyPage) = {OFFSET_META}
  BY <1>1, <1>2, <1>3, FirstOffset, NullIsNoBlock DEF Chain, InChain
<1>5. InChain(EmptyPage, OFFSET_META)
  BY <1>4 DEF Chain
<1>6. Linked(EmptyPage)
  BY <1>3, <1>4, <1>5, PageGeometry DEF Linked
<1>7. Tiled(EmptyPage) /\ Located(EmptyPage) /\ Coalesced(EmptyPage)
  BY <1>3, <1>4, PageGeometry
  DEF Tiled, Located, Coalesced, EndBySize, EndInPage, FreeNext,
      mm_max_page_allocatable_memory
<1> QED
  BY <1>2, <1>4, <1>6, <1>7 DEF WellFormed

(* What it takes to be a block of the chain. *)
LEMMA ChainBlock ==
  ASSUME NEW bp \in Blocks, NEW k \in Chain(bp)
  PROVE  /\ k \in Offset /\ k \in Int /\ k # NULL
         /\ bp[k] \in Block
         /\ bp[k].is_free \in BOOLEAN /\ ~bp[k].absorbed
         /\ bp[k].block_size \in Nat /\ bp[k].offset \in Nat
         /\ bp[k].prev_block \in Offset \cup {NULL}
         /\ bp[k].next_block \in Offset \cup {NULL}
<1>1. k \in Offset /\ bp[k] # NULL /\ ~bp[k].absorbed
  BY DEF Chain, InChain
<1>2. bp[k] \in Block
  BY <1>1 DEF Blocks
<1> QED
  BY <1>1, <1>2, PageGeometry DEF Block, Offset

(* The case of a split that leaves too little for a new block. *)
LEMMA ExactSplitWellFormed ==
  ASSUME NEW bp \in Blocks, WellFormed(bp),
         NEW k \in Chain(bp), bp[k].is_free,
         NEW size \in Nat, size <= bp[k].block_size,
         ~LeavesNewBlock(bp, k, size)
  PROVE  LET s == SplitBlock(bp, k, size)
         IN  /\ s \in Blocks
             /\ Chain(s) = Chain(bp)
             /\ ~s[k].is_free /\ s[k].block_size = size
             /\ \A o \in Offset \ {k} : s[o] = bp[o]
             /\ WellFormed(s)
<1> DEFINE s == SplitBlock(bp, k, size)
           b == [bp[k] EXCEPT !.is_free = FALSE, !.block_size = size]
<1>1. /\ k \in Offset /\ bp[k] \in Block /\ b \in Block
      /\ ~b.is_free /\ b.block_size = size
      /\ b.offset = bp[k].offset /\ b.prev_block = bp[k].prev_block
      /\ b.next_block = bp[k].next_block /\ b.absorbed = bp[k].absorbed
  BY ChainBlock DEF Block
<1>2. s = [bp EXCEPT ![k] = b]
  BY <1>1 DEF SplitBlock, Blocks
<1>3. s \in Blocks /\ s[k] = b /\ \A o \in Offset \ {k} : s[o] = bp[o]
  BY <1>1, <1>2 DEF Blocks
<1> HIDE DEF s, b
<1>4. \A o \in Offset : InChain(s, o) <=> InChain(bp, o)
  BY <1>1, <1>3, NullIsNoBlock DEF InChain, Chain
<1>5. Chain(s) = Chain(bp)
  BY <1>4 DEF Chain
<1>6. \A o \in Chain(s) : /\ s[o].prev_block = bp[o].prev_block
                          /\ s[o].next_block = bp[o].next_block
                          /\ s[o].offset = bp[o].offset
                          /\ s[o].is_free => bp[o].is_free
                          /\ o # k => s[o] = bp[o]
  BY <1>1, <1>3, <1>5 DEF Chain
<1>7. Linked(s)
  BY <1>4, <1>5, <1>6, FirstOffset DEF Linked, WellFormed, Chain
<1>8. Located(s)
  BY <1>5, <1>6 DEF Located, WellFormed
<1>9. Coalesced(s)
  BY <1>5, <1>6 DEF Coalesced, WellFormed, FreeNext, Linked
<1>10. Tiled(s)
  <2> SUFFICES ASSUME NEW o \in Chain(s)
               PROVE  /\ EndBySize(s, o) <= EndInPage(s, o)
                      /\ s[o].is_free => EndBySize(s, o) = EndInPage(s, o)
                      /\ EndInPage(s, o) < EndBySize(s, o) + SIZEOF_META
    BY DEF Tiled
  <2>1. CASE o # k
    BY <2>1, <1>5, <1>6 DEF EndBySize, EndInPage, Tiled, WellFormed
  <2>2. CASE o = k
    <3>1. EndInPage(s, k) = EndInPage(bp, k) /\ EndInPage(bp, k) = k + SIZEOF_META + bp[k].block_size
      BY <2>2, <1>5, <1>6 DEF EndBySize, EndInPage, Tiled, WellFormed
    <3>2. bp[k].block_size \in Nat /\ bp[k].block_size - size < SIZEOF_META /\ k \in Int
      BY ChainBlock, PageGeometry DEF LeavesNewBlock
    <3> QED
      BY <2>2, <1>1, <1>3, <3>1, <3>2, PageGeometry DEF EndBySize
  <2> QED
    BY <2>1, <2>2
<1> QED
  BY <1>1, <1>3, <1>5, <1>7, <1>8, <1>9, <1>10 DEF WellFormed, s

(* The other case: the remaining memory becomes a free block j after k.    *)
LEMMA NewBlockSplitWellFormed ==
  ASSUME NEW bp \in Blocks, WellFormed(bp),
         NEW k \in Chain(bp), bp[k].is_free,
         NEW size \in Nat,
         LeavesNewBlock(bp, k, size)
  PROVE  LET s == SplitBlock(bp, k, size)
             j == k + SIZEOF_META + size
         IN  /\ s \in Blocks
             /\ j \in Offset \ Chain(bp)
             /\ k < j /\ j < EndInPage(bp, k)
             /\ Chain(s) = Chain(bp) \cup {j}
             /\ s[j].is_free /\ EndBySize(s, j) = EndBySize(bp, k)
             /\ s[k].block_size = size
             /\ \A o \in Chain(bp) : /\ s[o].is_free <=> bp[o].is_free /\ o # k
                                     /\ o # k => s[o].block_size = bp[o].block_size
             /\ \A o \in Offset \ Chain(s) : s[o] = bp[o]
             /\ WellFormed(s)
<1> DEFINE s == SplitBlock(bp, k, size)
           j == k + SIZEOF_META + size
           n == bp[k].next_block
           bk == [bp[k] EXCEPT !.is_free = FALSE, !.block_size = size, !.next_block = j]
           new == NewFreeBlock(bp, k, size)
           bj == [new EXCEPT !.prev_block = k, !.next_block = n]
           bn == [bp[n] EXCEPT !.prev_block = j]
<1>1. /\ k \in Offset /\ k \in Int /\ bp[k] \in Block
      /\ bp[k].block_size \in Nat /\ bp[k].offset = k
      /\ bp[k].block_size >= size + SIZEOF_META /\ ~bp[k].absorbed
      /\ n \in Offset \cup {NULL}
  BY ChainBlock, PageGeometry DEF LeavesNewBlock, WellFormed, Located
<1>2. /\ EndInPage(bp, k) = k + SIZEOF_META + bp[k].block_size
      /\ EndInPage(bp, k) <= SYSTEM_PAGE_SIZE
      /\ n # NULL => EndInPage(bp, k) = n /\ n \in Chain(bp) /\ n \in Offset /\ k < n
                     /\ bp[n] \in Block /\ ~bp[n].absorbed
  BY <1>1, ChainBlock, PageGeometry DEF WellFormed, Tiled, Linked, EndInPage, EndBySize, Offset
<1>3. j \in Offset /\ j \in Int /\ k < j /\ j < EndInPage(bp, k)
  BY <1>1, <1>2, PageGeometry DEF Offset
<1>4. n = NULL \/ j < n
  BY <1>2, <1>3
<1>5. j \notin Chain(bp)
  BY <1>1, <1>3, <1>4, ChainBlock, PageGeometry DEF WellFormed, Linked, EndInPage, Offset
<1>5a. /\ new \in Block
       /\ new.is_free = TRUE /\ new.offset = j /\ new.absorbed = FALSE
       /\ new.block_size = bp[k].block_size - size - SIZEOF_META
  BY <1>1, <1>3, PageGeometry DEF NewFreeBlock, Block, Offset
<1> HIDE DEF new
<1>6. bk \in Block /\ bj \in Block /\ (n # NULL => bn \in Block)
  <2>1. bk \in Block
    BY <1>1, <1>3 DEF Block
  <2>2. bj \in Block
    BY <1>1, <1>3, <1>5a DEF Block
  <2>3. n # NULL => bn \in Block
    BY <1>2, <1>3 DEF Block
  <2> QED
    BY <2>1, <2>2, <2>3
<1>7. /\ bk.is_free = FALSE /\ bk.block_size = size /\ bk.offset = k
      /\ bk.prev_block = bp[k].prev_block /\ bk.next_block = j /\ bk.absorbed = FALSE
      /\ bj.is_free = TRUE /\ bj.block_size = bp[k].block_size - size - SIZEOF_META
      /\ bj.offset = j /\ bj.prev_block = k /\ bj.next_block = n /\ bj.absorbed = FALSE
      /\ n # NULL => /\ bn.is_free = bp[n].is_free /\ bn.block_size = bp[n].block_size
                     /\ bn.offset = bp[n].offset /\ bn.prev_block = j
                     /\ bn.next_block = bp[n].next_block /\ bn.absorbed = FALSE
  BY <1>1, <1>2, <1>5a DEF Block
<1>8. /\ s \in Blocks
      /\ s[k] = bk /\ s[j] = bj
      /\ n # NULL => s[n] = bn
      /\ \A o \in Offset \ {k, j, n} : s[o] = bp[o]
  <2> DEFINE t1 == [bp EXCEPT ![k].is_free = FALSE, ![k].block_size = size]
             t2 == [t1 EXCEPT ![j] = new]
             t3 == [t2 EXCEPT ![j].prev_block = k, ![j].next_block = t2[k].next_block,
                              ![k].next_block = j]
  <2>1. t1 = [bp EXCEPT ![k] = [bp[k] EXCEPT !.is_free = FALSE, !.block_size = size]]
    BY <1>1 DEF Blocks
  <2>2. /\ t2 \in [Offset -> Block \cup {NULL}]
        /\ t2[k] = [bp[k] EXCEPT !.is_free = FALSE, !.block_size = size]
        /\ t2[j] = new
        /\ \A o \in Offset \ {k, j} : t2[o] = bp[o]
    <3>1. [bp[k] EXCEPT !.is_free = FALSE, !.block_size = size] \in Block
      BY <1>1 DEF Block
    <3> HIDE DEF t1
    <3> QED
      BY <1>1, <1>3, <1>5a, <2>1, <3>1 DEF Blocks
  <2>3. t2[k].next_block = n
    BY <1>1, <2>2 DEF Block
  <2>4. s = bind_blocks(t2, k, j)
    BY DEF SplitBlock, new
  <2> HIDE DEF t2, s
  <2>5. /\ t3 \in [Offset -> Block \cup {NULL}] /\ t3[k] = bk /\ t3[j] = bj
        /\ \A o \in Offset \ {k, j} : t3[o] = bp[o]
    <3> DEFINE u1 == [t2 EXCEPT ![j].prev_block = k]
               u2 == [u1 EXCEPT ![j].next_block = t2[k].next_block]
               u3 == [u2 EXCEPT ![k].next_block = j]
    <3>1. /\ u1 = [t2 EXCEPT ![j] = [t2[j] EXCEPT !.prev_block = k]]
          /\ u1[j] = [t2[j] EXCEPT !.prev_block = k]
          /\ \A o \in Offset \ {j} : u1[o] = t2[o]
          /\ DOMAIN u1 = Offset
      BY <1>3, <2>2
    <3> HIDE DEF u1
    <3>2. /\ u2 = [u1 EXCEPT ![j] = [u1[j] EXCEPT !.next_block = n]]
          /\ u2 = [o \in Offset |-> IF o = j THEN [u1[j] EXCEPT !.next_block = n] ELSE u1[o]]
      BY <1>3, <2>3, <3>1
    <3>3. [u1[j] EXCEPT !.next_block = n] = bj
      BY <2>2, <3>1
    <3> HIDE DEF u2, bj
    <3>4. u2 = [o \in Offset |-> IF o = j THEN bj ELSE t2[o]]
      BY <3>1, <3>2, <3>3
    <3>5. u2[k] = t2[k] /\ [u2[k] EXCEPT !.next_block = j] = bk
      <4>1. u2[k] = t2[k]
        BY <1>1, <1>3, <3>4
      <4>2. [t2[k] EXCEPT !.next_block = j] = bk
        BY <2>2
      <4> QED
        BY <4>1, <4>2
    <3>6. u3 = [u2 EXCEPT ![k] = bk]
      BY <3>5
    <3>7. t3 = u3
      BY DEF u1, u2
    <3> HIDE DEF u3, bk, t3
    <3> QED
      BY <1>1, <1>3, <1>6, <2>2, <3>4, <3>6, <3>7
  <2> HIDE DEF t3
  <2>6. s = IF n = NULL THEN t3 ELSE [t3 EXCEPT ![n].prev_block = j]
    BY <2>3, <2>4 DEF bind_blocks, t3
  <2>7. CASE n = NULL
    BY <2>5, <2>6, <2>7, <1>1, PageGeometry DEF Blocks, Offset
  <2>8. CASE n # NULL
    <3>1. n \in Offset /\ n # k /\ n # j /\ t3[n] = bp[n]
      BY <1>2, <1>3, <1>4, <2>5, <2>8, PageGeometry DEF Offset
    <3>2. s = [t3 EXCEPT ![n] = bn]
      BY <2>6, <2>8, <2>5, <3>1
    <3> HIDE DEF bk, bj, bn
    <3> QED
      BY <2>5, <3>1, <3>2, <1>1, <1>3, <1>6, <2>8 DEF Blocks
  <2> QED
    BY <2>7, <2>8
<1> HIDE DEF s, bk, bj, bn
<1>9. Chain(s) = Chain(bp) \cup {j}
  <2>1. /\ InChain(s, k) /\ InChain(s, j) /\ InChain(bp, k)
        /\ n # NULL => InChain(s, n) /\ InChain(bp, n)
    BY <1>2, <1>6, <1>7, <1>8, NullIsNoBlock DEF InChain, Chain
  <2>2. \A o \in Offset : InChain(s, o) <=> (InChain(bp, o) \/ o = j)
    BY <1>8, <2>1, PageGeometry DEF InChain, Offset
  <2> QED
    BY <2>2, <1>3 DEF Chain
<1>10. /\ \A o \in Chain(bp) : /\ o \in Offset /\ o \in Int /\ o # j /\ o # NULL
                               /\ s[o].is_free <=> bp[o].is_free /\ o # k
                               /\ s[o].offset = bp[o].offset
                               /\ o # k => /\ s[o].block_size = bp[o].block_size
                                           /\ s[o].next_block = bp[o].next_block
                               /\ o # n => s[o].prev_block = bp[o].prev_block
       /\ k # j /\ k # n /\ j # n /\ j # NULL /\ k # NULL
  <2>1. \A o \in Chain(bp) : o \in Offset /\ o \in Int /\ o # j /\ o # NULL
    BY <1>5, ChainBlock
  <2>2. k # j /\ k # n /\ j # n /\ j # NULL /\ k # NULL
    BY <1>1, <1>2, <1>3, <1>4, <1>5, <2>1, PageGeometry DEF Offset
  <2>3. \A o \in Chain(bp) : /\ s[o].is_free <=> bp[o].is_free /\ o # k
                             /\ s[o].offset = bp[o].offset
                             /\ o # k => /\ s[o].block_size = bp[o].block_size
                                         /\ s[o].next_block = bp[o].next_block
                             /\ o # n => s[o].prev_block = bp[o].prev_block
    <3> TAKE o \in Chain(bp)
    <3>1. CASE o = k
      BY <3>1, <1>1, <1>7, <1>8, <2>2
    <3>2. CASE o = n
      BY <3>2, <1>2, <1>7, <1>8, <2>1, <2>2
    <3>3. CASE o # k /\ o # n
      BY <3>3, <1>8, <2>1
    <3> QED
      BY <3>1, <3>2, <3>3
  <2> QED
    BY <2>1, <2>2, <2>3
<1>11. Linked(s)
  <2>1. InChain(s, OFFSET_META)
    BY <1>9, FirstOffset DEF WellFormed, Linked, Chain
  <2>2. ASSUME NEW o \in Chain(s)
        PROVE  /\ s[o].prev_block = NULL <=> o = OFFSET_META
               /\ s[o].prev_block # NULL => /\ s[o].prev_block \in Chain(s)
                                            /\ s[s[o].prev_block].next_block = o
               /\ s[o].next_block # NULL => /\ s[o].next_block \in Chain(s)
                                            /\ s[s[o].next_block].prev_block = o
                                            /\ o < s[o].next_block
               /\ \A i \in Chain(s) : i <= o \/ (s[o].next_block # NULL /\ s[o].next_block <= i)
    <3>0. /\ OFFSET_META \in Chain(bp)
          /\ n # NULL => n \in Chain(bp) /\ bp[n].prev_block = k
      BY FirstOffset DEF WellFormed, Linked, Chain
    <3>1. CASE o = j
      <4>1. s[j].prev_block = k /\ s[j].next_block = n /\ s[k].next_block = j
        BY <1>7, <1>8
      <4>2. n # NULL => n \in Chain(s) /\ s[n].prev_block = j /\ j < n
        BY <1>4, <1>7, <1>8, <1>9, <3>0
      <4>3. \A i \in Chain(bp) : i <= k \/ (n # NULL /\ n <= i)
        BY DEF WellFormed, Linked
      <4>4. \A i \in Chain(s) : i <= j \/ (n # NULL /\ n <= i)
        BY <4>3, <1>3, <1>1, <1>9, <1>10
      <4>5. j # OFFSET_META
        BY <3>0, <1>10
      <4> QED
        BY <3>1, <4>1, <4>2, <4>4, <4>5, <1>9, <1>10
    <3>2. CASE o = k
      <4>1. s[k].prev_block = bp[k].prev_block /\ s[k].next_block = j /\ s[j].prev_block = k
        BY <1>7, <1>8
      <4>2. \A i \in Chain(bp) : i <= k \/ (n # NULL /\ n <= i)
        BY DEF WellFormed, Linked
      <4>3. \A i \in Chain(s) : i <= k \/ j <= i
        BY <4>2, <1>3, <1>1, <1>4, <1>9, <1>10, <1>2
      <4>4. bp[k].prev_block # NULL => /\ bp[k].prev_block \in Chain(bp)
                                       /\ bp[bp[k].prev_block].next_block = k
                                       /\ bp[k].prev_block # k
        BY <1>1, ChainBlock DEF WellFormed, Linked
      <4>5. bp[k].prev_block # NULL => s[bp[k].prev_block].next_block = k
        BY <4>4, <1>10
      <4>6. bp[k].prev_block = NULL <=> k = OFFSET_META
        BY DEF WellFormed, Linked
      <4> QED
        BY <3>2, <4>1, <4>3, <4>4, <4>5, <4>6, <1>3, <1>9, <1>10
    <3>3. CASE o \in Chain(bp) /\ o # k
      <4>1. /\ o \in Int /\ o # j /\ s[o].next_block = bp[o].next_block
            /\ o # n => s[o].prev_block = bp[o].prev_block
        BY <3>3, <1>10
      <4>2. /\ bp[o].prev_block = NULL <=> o = OFFSET_META
            /\ bp[o].prev_block # NULL => /\ bp[o].prev_block \in Chain(bp)
                                          /\ bp[bp[o].prev_block].next_block = o
            /\ bp[o].next_block # NULL => /\ bp[o].next_block \in Chain(bp)
                                          /\ bp[bp[o].next_block].prev_block = o
                                          /\ o < bp[o].next_block
            /\ \A i \in Chain(bp) : i <= o \/ (bp[o].next_block # NULL /\ bp[o].next_block <= i)
        BY <3>3 DEF WellFormed, Linked
      <4>3. o = n => /\ s[o].prev_block = j /\ s[j].next_block = o /\ o # OFFSET_META
        <5> SUFFICES ASSUME o = n PROVE s[o].prev_block = j /\ s[j].next_block = o /\ o # OFFSET_META
          OBVIOUS
        <5>1. n # NULL
          BY <1>10, <3>3
        <5>2. bp[o].prev_block = k
          BY <5>1, <3>0
        <5> QED
          BY <5>1, <5>2, <1>7, <1>8, <1>10, <4>2
      <4>4. o # n /\ bp[o].prev_block # NULL =>
                /\ bp[o].prev_block # k /\ s[bp[o].prev_block].next_block = o
        BY <4>2, <1>10
      <4>5. bp[o].next_block # NULL => s[bp[o].next_block].prev_block = o
        BY <4>2, <3>0, <3>3, <1>10
      <4>6. bp[o].next_block # NULL /\ bp[o].next_block <= k => bp[o].next_block <= j
        BY <4>2, <1>1, <1>3, <1>10
      <4>7. j <= o \/ (bp[o].next_block # NULL /\ bp[o].next_block <= j)
        <5>1. k <= o \/ (bp[o].next_block # NULL /\ bp[o].next_block <= k)
          BY <4>2
        <5>2. o <= k \/ (n # NULL /\ n <= o)
          BY <3>3 DEF WellFormed, Linked
        <5>3. n # NULL /\ n <= o => j <= o
          BY <1>2, <1>3, <1>4, <4>1, PageGeometry DEF Offset
        <5> QED
          BY <5>1, <5>2, <5>3, <4>6, <4>1, <1>1, <1>3, <3>3
      <4>8. \A i \in Chain(s) : i <= o \/ (s[o].next_block # NULL /\ s[o].next_block <= i)
        BY <4>1, <4>2, <4>7, <1>9
      <4>9. CASE o = n
        BY <4>1, <4>2, <4>3, <4>5, <4>8, <4>9, <1>9, <1>10
      <4>10. CASE o # n
        BY <4>1, <4>2, <4>4, <4>5, <4>8, <4>10, <1>9
      <4> QED
        BY <4>9, <4>10
    <3> QED
      BY <3>1, <3>2, <3>3, <1>9
  <2> QED
    BY <2>1, <2>2 DEF Linked
<1>12. Tiled(s)
  <2> SUFFICES ASSUME NEW o \in Chain(s)
               PROVE  /\ EndBySize(s, o) <= EndInPage(s, o)
                      /\ s[o].is_free => EndBySize(s, o) = EndInPage(s, o)
                      /\ EndInPage(s, o) < EndBySize(s, o) + SIZEOF_META
    BY DEF Tiled
  <2>1. CASE o = j
    BY <2>1, <1>1, <1>2, <1>3, <1>7, <1>8, PageGeometry DEF EndBySize, EndInPage
  <2>2. CASE o = k
    BY <2>2, <1>1, <1>2, <1>3, <1>7, <1>8, <1>10, PageGeometry DEF EndBySize, EndInPage
  <2>3. CASE o \in Chain(bp) /\ o # k
    BY <2>3, <1>10 DEF EndBySize, EndInPage, Tiled, WellFormed
  <2> QED
    BY <2>1, <2>2, <2>3, <1>9
<1>13. Located(s)
  BY <1>7, <1>8, <1>9, <1>10 DEF Located, WellFormed
<1>14. Coalesced(s)
  <2> SUFFICES ASSUME NEW o \in Chain(s), s[o].is_free, FreeNext(s, o)
               PROVE  FALSE
    BY DEF Coalesced
  <2>1. CASE o = j
    BY <2>1, <1>2, <1>7, <1>8, <1>10 DEF FreeNext, WellFormed, Coalesced
  <2>2. CASE o \in Chain(bp)
    BY <2>2, <1>10 DEF FreeNext, WellFormed, Coalesced, Linked
  <2> QED
    BY <2>1, <2>2, <1>9
<1>14a. EndBySize(s, j) = EndBySize(bp, k)
  BY <1>1, <1>3, <1>7, <1>8, PageGeometry DEF EndBySize
<1>15. \A o \in Offset \ Chain(s) : s[o] = bp[o]
  BY <1>2, <1>8, <1>9, PageGeometry DEF Offset
<1> QED
  BY <1>3, <1>5, <1>7, <1>8, <1>9, <1>10, <1>11, <1>12, <1>13, <1>14, <1>14a, <1>15
  DEF WellFormed, s

(* mm_union_free_blocks: first takes in the free block m that follows it.  *)
LEMMA UnionWellFormed ==
  ASSUME NEW bp \in Blocks, Linked(bp), Tiled(bp), Located(bp),
         NEW first \in Chain(bp), bp[first].is_free, FreeNext(bp, first),
         \A o \in Chain(bp) \ {first} : bp[o].is_free => ~FreeNext(bp, o)
  PROVE  LET m == bp[first].next_block
             u == mm_union_free_blocks(bp, first, m)
         IN  /\ u \in Blocks
             /\ m \in Chain(bp) /\ first < m
             /\ Chain(u) = Chain(bp) \ {m}
             /\ u[first].is_free
             /\ EndBySize(u, first) = EndBySize(bp, m)
             /\ u[m] # NULL /\ u[m].is_free /\ u[m].block_size = bp[m].block_size
             /\ \A o \in Chain(u) : /\ u[o].is_free <=> bp[o].is_free
                                    /\ o # first => u[o].block_size = bp[o].block_size
             /\ \A o \in Offset \ (Chain(u) \cup {m}) : u[o] = bp[o]
             /\ WellFormed(u)
<1> DEFINE m  == bp[first].next_block
           n  == bp[m].next_block
           u  == mm_union_free_blocks(bp, first, m)
           bf == [bp[first] EXCEPT !.block_size = @ + SIZEOF_META + bp[m].block_size,
                                   !.next_block = n]
           bm == [bp[m] EXCEPT !.absorbed = TRUE]
           bn == [bp[n] EXCEPT !.prev_block = first]
<1>1. /\ first \in Offset /\ first \in Int /\ bp[first] \in Block /\ ~bp[first].absorbed
      /\ bp[first].block_size \in Nat
      /\ m \in Chain(bp) /\ m # NULL /\ first < m /\ bp[m].prev_block = first
      /\ bp[m].is_free
  BY ChainBlock DEF Linked, FreeNext
<1>2. /\ m \in Offset /\ m \in Int /\ bp[m] \in Block /\ ~bp[m].absorbed
      /\ bp[m].block_size \in Nat /\ n \in Offset \cup {NULL}
  BY <1>1, ChainBlock
<1>3. n # NULL => /\ n \in Chain(bp) /\ n \in Offset /\ n \in Int /\ m < n
                  /\ bp[n].prev_block = m /\ bp[n] \in Block /\ ~bp[n].absorbed
                  /\ ~bp[n].is_free
  <2>1. n # NULL => n \in Chain(bp) /\ bp[n].prev_block = m /\ m < n
    BY <1>1 DEF Linked
  <2>2. ~FreeNext(bp, m)
    BY <1>1, <1>2
  <2> QED
    BY <2>1, <2>2, ChainBlock DEF FreeNext
<1>4. /\ EndBySize(bp, first) = m
      /\ EndBySize(bp, m) = EndInPage(bp, m)
      /\ EndInPage(bp, m) = IF n = NULL THEN SYSTEM_PAGE_SIZE ELSE n
  BY <1>1 DEF Tiled, EndInPage
<1>5. bf \in Block /\ bm \in Block /\ (n # NULL => bn \in Block)
  <2>1. bp[first].block_size + SIZEOF_META + bp[m].block_size \in Nat
    BY <1>1, <1>2, PageGeometry
  <2>2. bf \in Block
    BY <2>1, <1>1, <1>2 DEF Block
  <2>3. bm \in Block
    BY <1>2 DEF Block
  <2>4. n # NULL => bn \in Block
    BY <1>1, <1>3 DEF Block
  <2> QED
    BY <2>2, <2>3, <2>4
<1>6. /\ bf.is_free = bp[first].is_free /\ bf.offset = bp[first].offset
      /\ bf.block_size = bp[first].block_size + SIZEOF_META + bp[m].block_size
      /\ bf.prev_block = bp[first].prev_block /\ bf.next_block = n /\ bf.absorbed = FALSE
      /\ bm.absorbed = TRUE /\ bm.is_free = bp[m].is_free /\ bm.block_size = bp[m].block_size
      /\ n # NULL => /\ bn.is_free = bp[n].is_free /\ bn.block_size = bp[n].block_size
                     /\ bn.offset = bp[n].offset /\ bn.prev_block = first
                     /\ bn.next_block = bp[n].next_block /\ bn.absorbed = FALSE
  BY <1>1, <1>2, <1>3 DEF Block
<1>7. first # m /\ first # n /\ m # n /\ m # NULL /\ first # NULL
  BY <1>1, <1>2, <1>3, PageGeometry
<1>8. /\ u \in Blocks
      /\ u[first] = bf /\ u[m] = bm
      /\ n # NULL => u[n] = bn
      /\ \A o \in Offset \ {first, m, n} : u[o] = bp[o]
  <2> DEFINE t == [bp EXCEPT ![first].block_size = @ + SIZEOF_META + bp[m].block_size,
                             ![first].next_block = n,
                             ![m].absorbed = TRUE]
             t1 == [bp EXCEPT ![first].block_size = @ + SIZEOF_META + bp[m].block_size]
             t2 == [t1 EXCEPT ![first].next_block = n]
             t3 == [t2 EXCEPT ![m].absorbed = TRUE]
  <2>1. u = IF n = NULL THEN t ELSE [t EXCEPT ![n].prev_block = first]
    BY DEF mm_union_free_blocks
  <2>2. t = t3
    OBVIOUS
  <2> HIDE DEF u, t
  <2>3. t2 = [bp EXCEPT ![first] = bf]
    BY <1>1 DEF Blocks
  <2>4. t2[m] = bp[m]
    BY <2>3, <1>1, <1>2, <1>7 DEF Blocks
  <2> HIDE DEF t2, bf
  <2>5. t3 = [t2 EXCEPT ![m] = bm]
    BY <2>4
  <2> HIDE DEF t3, bm
  <2>6. /\ t \in [Offset -> Block \cup {NULL}] /\ t[first] = bf /\ t[m] = bm
        /\ \A o \in Offset \ {first, m} : t[o] = bp[o]
    BY <2>2, <2>3, <2>5, <1>1, <1>2, <1>5, <1>7 DEF Blocks
  <2>7. CASE n = NULL
    BY <2>1, <2>6, <2>7, PageGeometry DEF Blocks, Offset
  <2>8. CASE n # NULL
    <3>1. t[n] = bp[n]
      BY <1>3, <1>7, <2>6, <2>8
    <3>2. u = [t EXCEPT ![n] = bn]
      BY <2>1, <2>8, <3>1
    <3> HIDE DEF bn
    <3> QED
      BY <2>6, <2>8, <3>2, <1>1, <1>2, <1>3, <1>5, <1>7 DEF Blocks
  <2> QED
    BY <2>7, <2>8
<1> HIDE DEF u, bf, bm, bn
<1>9. Chain(u) = Chain(bp) \ {m}
  <2>1. /\ InChain(u, first) /\ ~InChain(u, m) /\ InChain(bp, first)
        /\ n # NULL => InChain(u, n) /\ InChain(bp, n)
    BY <1>3, <1>5, <1>6, <1>8, NullIsNoBlock DEF InChain, Chain
  <2>2. \A o \in Offset : InChain(u, o) <=> (InChain(bp, o) /\ o # m)
    BY <1>8, <2>1, PageGeometry DEF InChain, Offset
  <2> QED
    BY <2>2 DEF Chain
<1>10. \A o \in Chain(u) : /\ o \in Offset /\ o \in Int /\ o # NULL /\ o # m /\ o \in Chain(bp)
                           /\ u[o].is_free <=> bp[o].is_free
                           /\ u[o].offset = bp[o].offset
                           /\ o # first => /\ u[o].block_size = bp[o].block_size
                                           /\ u[o].next_block = bp[o].next_block
                           /\ o # n => u[o].prev_block = bp[o].prev_block
  <2> TAKE o \in Chain(u)
  <2>1. o \in Chain(bp) /\ o # m /\ o \in Offset /\ o \in Int /\ o # NULL
    BY <1>9, ChainBlock
  <2>2. CASE o = first
    BY <2>1, <2>2, <1>6, <1>7, <1>8
  <2>3. CASE o = n
    BY <2>1, <2>3, <1>6, <1>7, <1>8
  <2>4. CASE o # first /\ o # n
    BY <2>1, <2>4, <1>8
  <2> QED
    BY <2>1, <2>2, <2>3, <2>4
<1>11. Linked(u)
  <2>0. /\ OFFSET_META \in Chain(bp) /\ OFFSET_META # m
        /\ InChain(u, OFFSET_META)
    BY <1>1, <1>7, <1>9, FirstOffset DEF Linked, Chain
  <2>1. ASSUME NEW o \in Chain(u)
        PROVE  /\ u[o].prev_block = NULL <=> o = OFFSET_META
               /\ u[o].prev_block # NULL => /\ u[o].prev_block \in Chain(u)
                                            /\ u[u[o].prev_block].next_block = o
               /\ u[o].next_block # NULL => /\ u[o].next_block \in Chain(u)
                                            /\ u[u[o].next_block].prev_block = o
                                            /\ o < u[o].next_block
               /\ \A i \in Chain(u) : i <= o \/ (u[o].next_block # NULL /\ u[o].next_block <= i)
    <3>1. /\ o \in Chain(bp) /\ o \in Int /\ o # m /\ o # NULL
          /\ o # first => u[o].next_block = bp[o].next_block
          /\ o # n => u[o].prev_block = bp[o].prev_block
      BY <1>10
    <3>2. /\ bp[o].prev_block = NULL <=> o = OFFSET_META
          /\ bp[o].prev_block # NULL => /\ bp[o].prev_block \in Chain(bp)
                                        /\ bp[bp[o].prev_block].next_block = o
          /\ bp[o].next_block # NULL => /\ bp[o].next_block \in Chain(bp)
                                        /\ bp[bp[o].next_block].prev_block = o
                                        /\ o < bp[o].next_block
          /\ \A i \in Chain(bp) : i <= o \/ (bp[o].next_block # NULL /\ bp[o].next_block <= i)
      BY <3>1 DEF Linked
    <3>3. u[first].next_block = n /\ first \in Chain(u)
      BY <1>6, <1>7, <1>8, <1>9
    <3>4. n # NULL => n \in Chain(u) /\ u[n].prev_block = first /\ first < n
      BY <1>1, <1>2, <1>3, <1>6, <1>7, <1>8, <1>9
    <3>5. /\ u[o].prev_block = NULL <=> o = OFFSET_META
          /\ u[o].prev_block # NULL => /\ u[o].prev_block \in Chain(u)
                                       /\ u[u[o].prev_block].next_block = o
      <4>1. CASE o = n
        <5>1. n # NULL /\ bp[n].prev_block = m
          BY <4>1, <3>1, <1>3
        <5> QED
          BY <5>1, <4>1, <3>2, <3>3, <3>4, <1>7
      <4>2. CASE o # n
        <5>1. bp[o].prev_block # m
          BY <4>2, <3>2, <1>7
        <5>2. bp[o].prev_block # first
          BY <3>1, <3>2, <1>7
        <5>3. bp[o].prev_block # NULL => bp[o].prev_block \in Chain(u)
          BY <5>1, <3>2, <1>9
        <5> QED
          BY <4>2, <3>1, <3>2, <5>2, <5>3, <1>10
      <4> QED
        BY <4>1, <4>2
    <3>6. u[o].next_block # NULL => /\ u[o].next_block \in Chain(u)
                                    /\ u[u[o].next_block].prev_block = o
                                    /\ o < u[o].next_block
      <4>1. CASE o = first
        BY <4>1, <3>3, <3>4
      <4>2. CASE o # first
        <5>1. bp[o].next_block # m
          BY <4>2, <3>2, <1>1
        <5>2. bp[o].next_block # NULL => bp[o].next_block # n
          BY <3>1, <3>2, <1>3
        <5>3. bp[o].next_block # NULL => bp[o].next_block \in Chain(u)
          BY <5>1, <3>2, <1>9
        <5> QED
          BY <4>2, <3>1, <3>2, <5>2, <5>3, <1>10
      <4> QED
        BY <4>1, <4>2
    <3>7. \A i \in Chain(u) : i <= o \/ (u[o].next_block # NULL /\ u[o].next_block <= i)
      <4> TAKE i \in Chain(u)
      <4>1. i \in Chain(bp) /\ i # m /\ i \in Int
        BY <1>10
      <4>2. CASE o = first
        <5>1. i <= first \/ m <= i
          BY <4>1, <4>2, <3>2
        <5>2. i <= m \/ (n # NULL /\ n <= i)
          BY <4>1, <1>1 DEF Linked
        <5> QED
          BY <4>1, <4>2, <5>1, <5>2, <3>3, <1>2
      <4>3. CASE o # first
        BY <4>1, <4>3, <3>1, <3>2
      <4> QED
        BY <4>2, <4>3
    <3> QED
      BY <3>5, <3>6, <3>7
  <2> QED
    BY <2>0, <2>1 DEF Linked
<1>12. EndBySize(u, first) = EndBySize(bp, m)
  BY <1>1, <1>2, <1>4, <1>6, <1>8, PageGeometry DEF EndBySize
<1>13. Tiled(u)
  <2> SUFFICES ASSUME NEW o \in Chain(u)
               PROVE  /\ EndBySize(u, o) <= EndInPage(u, o)
                      /\ u[o].is_free => EndBySize(u, o) = EndInPage(u, o)
                      /\ EndInPage(u, o) < EndBySize(u, o) + SIZEOF_META
    BY DEF Tiled
  <2>1. CASE o = first
    <3>1. EndInPage(u, first) = EndInPage(bp, m)
      BY <1>4, <1>6, <1>8 DEF EndInPage
    <3>2. EndInPage(bp, m) \in Int
      BY <1>3, <1>4, PageGeometry
    <3> QED
      BY <2>1, <3>1, <3>2, <1>4, <1>12, PageGeometry
  <2>2. CASE o # first
    BY <2>2, <1>10 DEF EndBySize, EndInPage, Tiled
  <2> QED
    BY <2>1, <2>2
<1>14. Located(u)
  BY <1>10 DEF Located
<1>15. Coalesced(u)
  <2> SUFFICES ASSUME NEW o \in Chain(u), u[o].is_free, FreeNext(u, o)
               PROVE  FALSE
    BY DEF Coalesced
  <2>0. u[o].next_block \in Chain(u)
    BY <1>11 DEF FreeNext, Linked
  <2>1. CASE o = first
    BY <2>0, <2>1, <1>3, <1>6, <1>8 DEF FreeNext
  <2>2. CASE o # first
    BY <2>0, <2>2, <1>10 DEF FreeNext
  <2> QED
    BY <2>1, <2>2
<1>16. \A o \in Offset \ (Chain(u) \cup {m}) : u[o] = bp[o]
  BY <1>1, <1>3, <1>7, <1>8, <1>9, PageGeometry DEF Offset
<1>17. u[m] # NULL /\ u[m].is_free /\ u[m].block_size = bp[m].block_size
  BY <1>1, <1>5, <1>6, <1>8, NullIsNoBlock
<1> QED
  BY <1>1, <1>6, <1>7, <1>8, <1>9, <1>10, <1>11, <1>12, <1>13, <1>14, <1>15, <1>16, <1>17
  DEF WellFormed, u

(* mm_free_blocks up to the merge with a previous block, when there is none *)
(* to merge with: the page stays well formed and the block is free.        *)
LEMMA ReleaseWellFormed ==
  ASSUME NEW bp \in Blocks, WellFormed(bp),
         NEW k \in Chain(bp), ~bp[k].is_free, ~FreePrev(bp, k)
  PROVE  LET r == ReleaseBlock(bp, k)
             m == bp[k].next_block
         IN  /\ r \in Blocks
             /\ k \in Chain(r)
             /\ Chain(r) = IF FreeNext(bp, k) THEN Chain(bp) \ {m} ELSE Chain(bp)
             /\ FreeNext(bp, k) => /\ m \in Chain(bp) /\ k < m
                                   /\ r[m] # NULL /\ r[m].is_free
                                   /\ r[m].block_size = bp[m].block_size
                                   /\ EndBySize(r, k) = EndBySize(bp, m)
             /\ \A o \in Chain(r) : /\ r[o].is_free <=> bp[o].is_free \/ o = k
                                    /\ o # k => r[o].block_size = bp[o].block_size
             /\ \A o \in Offset \ Chain(bp) : r[o] = bp[o]
             /\ WellFormed(r)
<1> DEFINE r == ReleaseBlock(bp, k)
           m == bp[k].next_block
           b == [bp[k] EXCEPT !.is_free = TRUE,
                              !.block_size = @ + mm_get_hard_internal_memory_frag_size(bp, k)]
           t == [bp EXCEPT ![k] = b]
<1>1. /\ k \in Offset /\ k \in Int /\ bp[k] \in Block /\ ~bp[k].absorbed
      /\ bp[k].block_size \in Nat /\ bp[k].next_block \in Offset \cup {NULL}
      /\ EndInPage(bp, k) \in Int /\ EndBySize(bp, k) \in Int
      /\ EndBySize(bp, k) <= EndInPage(bp, k)
  BY ChainBlock, PageGeometry DEF EndInPage, EndBySize, Offset, WellFormed, Tiled
<1>2. b \in Block
  <2>1. bp[k].block_size + mm_get_hard_internal_memory_frag_size(bp, k) \in Nat
    BY <1>1 DEF mm_get_hard_internal_memory_frag_size
  <2> QED
    BY <1>1, <2>1 DEF Block
<1>3. /\ b.is_free = TRUE /\ b.absorbed = FALSE /\ b.offset = bp[k].offset
      /\ b.prev_block = bp[k].prev_block /\ b.next_block = bp[k].next_block
      /\ k + SIZEOF_META + b.block_size = EndInPage(bp, k)
  BY <1>1, PageGeometry DEF Block, mm_get_hard_internal_memory_frag_size, EndBySize
<1>4. /\ r = IF FreeNext(bp, k) THEN mm_union_free_blocks(t, k, m) ELSE t
  <2>1. t = [bp EXCEPT ![k].is_free = TRUE,
                       ![k].block_size = @ + mm_get_hard_internal_memory_frag_size(bp, k)]
    BY <1>1 DEF Blocks
  <2> QED
    BY <2>1 DEF ReleaseBlock
<1>5. t \in Blocks /\ t[k] = b /\ \A o \in Offset \ {k} : t[o] = bp[o]
  <2> HIDE DEF b
  <2> QED
    BY <1>1, <1>2 DEF Blocks
<1> HIDE DEF r, t, b
<1>6. Chain(t) = Chain(bp)
  <2>1. \A o \in Offset : InChain(t, o) <=> InChain(bp, o)
    BY <1>1, <1>2, <1>3, <1>5, NullIsNoBlock DEF InChain, Chain
  <2> QED
    BY <2>1 DEF Chain
<1>7. \A o \in Chain(t) : /\ t[o].prev_block = bp[o].prev_block
                          /\ t[o].next_block = bp[o].next_block
                          /\ t[o].offset = bp[o].offset
                          /\ t[o].is_free <=> bp[o].is_free \/ o = k
                          /\ o # k => t[o] = bp[o]
  BY <1>1, <1>3, <1>5, <1>6 DEF Chain
<1>8. Linked(t)
  <2>1. InChain(t, OFFSET_META)
    BY <1>6, FirstOffset DEF Linked, WellFormed, Chain
  <2> QED
    BY <2>1, <1>6, <1>7 DEF Linked, WellFormed
<1>9. Located(t)
  BY <1>6, <1>7 DEF Located, WellFormed
<1>10. Tiled(t)
  <2> SUFFICES ASSUME NEW o \in Chain(t)
               PROVE  /\ EndBySize(t, o) <= EndInPage(t, o)
                      /\ t[o].is_free => EndBySize(t, o) = EndInPage(t, o)
                      /\ EndInPage(t, o) < EndBySize(t, o) + SIZEOF_META
    BY DEF Tiled
  <2>1. CASE o # k
    BY <2>1, <1>6, <1>7 DEF EndBySize, EndInPage, Tiled, WellFormed
  <2>2. CASE o = k
    <3>1. EndInPage(t, k) = EndInPage(bp, k)
      BY <2>2, <1>7 DEF EndInPage
    <3>2. EndBySize(t, k) = EndInPage(bp, k)
      BY <1>3, <1>5 DEF EndBySize
    <3> QED
      BY <2>2, <3>1, <3>2, <1>1, PageGeometry
  <2> QED
    BY <2>1, <2>2
<1>11. /\ k \in Chain(t) /\ t[k].is_free
       /\ FreeNext(t, k) <=> FreeNext(bp, k)
       /\ m # NULL => m \in Chain(t) /\ k < m /\ m # k /\ t[m] = bp[m]
  <2>1. m # NULL => m \in Chain(bp) /\ k < m /\ m # k
    BY <1>1 DEF WellFormed, Linked
  <2> QED
    BY <2>1, <1>6, <1>7 DEF FreeNext
<1>12. \A o \in Chain(t) \ {k} : t[o].is_free => ~FreeNext(t, o)
  <2> SUFFICES ASSUME NEW o \in Chain(t), o # k, t[o].is_free, FreeNext(t, o)
               PROVE  FALSE
    OBVIOUS
  <2>1. bp[o].is_free /\ o \in Chain(bp) /\ ~FreeNext(bp, o) /\ o \in Offset /\ o # NULL
    BY <1>6, <1>7, ChainBlock DEF WellFormed, Coalesced
  <2>2. /\ bp[o].next_block # NULL /\ bp[o].next_block \in Chain(t)
        /\ bp[bp[o].next_block].prev_block = o
        /\ t[bp[o].next_block].is_free
    BY <2>1, <1>6, <1>7 DEF FreeNext, WellFormed, Linked
  <2>3. bp[o].next_block = k
    BY <2>1, <2>2, <1>7 DEF FreeNext
  <2> QED
    BY <2>1, <2>2, <2>3 DEF FreePrev
<1>13. CASE ~FreeNext(bp, k)
  <2>1. r = t
    BY <1>4, <1>13
  <2>2. Coalesced(r)
    BY <2>1, <1>11, <1>12, <1>13 DEF Coalesced
  <2>3. \A o \in Chain(r) : o # k => r[o].block_size = bp[o].block_size
    BY <2>1, <1>7
  <2>4. \A o \in Offset \ Chain(bp) : r[o] = bp[o]
    BY <2>1, <1>5
  <2> QED
    BY <2>1, <2>2, <2>3, <2>4, <1>5, <1>6, <1>7, <1>8, <1>9, <1>10, <1>11, <1>13 DEF WellFormed, r
<1>14. CASE FreeNext(bp, k)
  <2>1. t[k].next_block = m /\ m # NULL
    BY <1>7, <1>11, <1>14 DEF FreeNext
  <2>2. r = mm_union_free_blocks(t, k, m)
    BY <1>4, <1>14
  <2>3. /\ r \in Blocks
        /\ Chain(r) = Chain(t) \ {m}
        /\ r[k].is_free
        /\ EndBySize(r, k) = EndBySize(t, m)
        /\ r[m] # NULL /\ r[m].is_free /\ r[m].block_size = t[m].block_size
        /\ \A o \in Chain(r) : /\ r[o].is_free <=> t[o].is_free
                               /\ o # k => r[o].block_size = t[o].block_size
        /\ \A o \in Offset \ (Chain(r) \cup {m}) : r[o] = t[o]
        /\ WellFormed(r)
    BY <2>1, <2>2, <1>5, <1>8, <1>9, <1>10, <1>11, <1>12, <1>14, UnionWellFormed
  <2>4. EndBySize(t, m) = EndBySize(bp, m)
    BY <2>1, <1>11 DEF EndBySize
  <2>5. \A o \in Chain(r) : /\ r[o].is_free <=> bp[o].is_free \/ o = k
                            /\ o # k => r[o].block_size = bp[o].block_size
    BY <2>3, <1>6, <1>7
  <2>6. \A o \in Offset \ Chain(bp) : r[o] = bp[o]
    BY <2>3, <1>5, <1>6, <1>11, <2>1
  <2>7. m \in Chain(bp) /\ k < m /\ m # k /\ k \in Chain(r)
        /\ r[m] # NULL /\ r[m].is_free /\ r[m].block_size = bp[m].block_size
    BY <2>1, <2>3, <1>6, <1>11
  <2> QED
    BY <2>3, <2>4, <2>5, <2>6, <2>7, <1>6, <1>14 DEF r
<1> QED
  BY <1>13, <1>14

-----------------------------------------------------------------------------
(* What an allocation does to a page, in both cases of the split: no free  *)
(* block but k changes, and absorbed blocks stay inside free ones, since   *)
(* none of them is overwritten.                                            *)
LEMMA SplitPage ==
  ASSUME NEW bp \in Blocks, WellFormed(bp), Covered(bp),
         NEW k \in Chain(bp), bp[k].is_free,
         NEW size \in Nat, size <= bp[k].block_size,
         Trampled(bp, k, size) = {}
  PROVE  LET s == SplitBlock(bp, k, size)
             j == k + SIZEOF_META + size
         IN  /\ s \in Blocks /\ WellFormed(s) /\ Covered(s)
             /\ s[k].block_size = size
             /\ \A o \in Offset : o # k /\ bp[o] # NULL /\ bp[o].is_free =>
                  s[o] # NULL /\ s[o].is_free /\ s[o].block_size = bp[o].block_size
             /\ \A o \in Chain(s) : s[o].is_free =>
                  \/ /\ o \in Chain(bp) /\ o # k /\ bp[o].is_free
                     /\ s[o].block_size = bp[o].block_size
                  \/ LeavesNewBlock(bp, k, size) /\ o = j
             /\ LeavesNewBlock(bp, k, size) =>
                  j \in Offset /\ j # k /\ bp[j] = NULL /\ s[j] # NULL /\ s[j].is_free
<1> DEFINE s == SplitBlock(bp, k, size)
           j == k + SIZEOF_META + size
<1>0. /\ k \in Offset /\ k \in Int /\ bp[k].block_size \in Nat
      /\ \A o \in Offset : o \in Int /\ (bp[o] # NULL => bp[o].block_size \in Nat)
  <2>1. \A o \in Offset : o \in Int
    BY DEF Offset
  <2>2. ASSUME NEW o \in Offset, bp[o] # NULL PROVE bp[o].block_size \in Nat
    <3>1. bp[o] \in Block
      BY <2>2 DEF Blocks
    <3> QED
      BY <3>1 DEF Block
  <2> QED
    BY <2>1, <2>2, ChainBlock
<1>1. CASE LeavesNewBlock(bp, k, size)
  <2>1. /\ s \in Blocks
        /\ j \in Offset \ Chain(bp)
        /\ k < j /\ j < EndInPage(bp, k)
        /\ Chain(s) = Chain(bp) \cup {j}
        /\ s[j].is_free /\ EndBySize(s, j) = EndBySize(bp, k)
        /\ s[k].block_size = size
        /\ \A o \in Chain(bp) : /\ s[o].is_free <=> bp[o].is_free /\ o # k
                                /\ o # k => s[o].block_size = bp[o].block_size
        /\ \A o \in Offset \ Chain(s) : s[o] = bp[o]
        /\ WellFormed(s)
    BY <1>1, NewBlockSplitWellFormed
  <2> HIDE DEF s
  <2>2. \A o \in Offset : o > k /\ bp[o] # NULL => o >= j + SIZEOF_META
    <3> SUFFICES ASSUME NEW o \in Offset, o > k, bp[o] # NULL
                 PROVE  o >= j + SIZEOF_META
      OBVIOUS
    <3>1. o \in Int /\ k \in Int /\ j \in Int /\ SIZEOF_META \in Int
      BY <1>0, <2>1, PageGeometry DEF Offset
    <3>2. o # k /\ o + SIZEOF_META > k + SIZEOF_META
      BY <3>1
    <3>3. o \notin Trampled(bp, k, size)
      OBVIOUS
    <3>4. ~(o < k + SIZEOF_META + size + SIZEOF_META)
      BY <1>1, <3>2, <3>3 DEF Trampled
    <3> QED
      BY <3>1, <3>4
  <2>3. bp[j] = NULL /\ s[j] # NULL /\ j # k
    BY <1>0, <2>1, <2>2, PageGeometry DEF Chain, InChain
  <2>4. \A o \in Offset : o # k /\ bp[o] # NULL /\ bp[o].is_free =>
          s[o] # NULL /\ s[o].is_free /\ s[o].block_size = bp[o].block_size
    BY <2>1, <2>3 DEF Chain, InChain
  <2>5. Covered(s)
    <3> SUFFICES ASSUME NEW o \in Offset, s[o] # NULL, s[o].absorbed
                 PROVE  \E i \in Chain(s) : s[i].is_free /\ i < o /\ EndBySize(s, o) <= EndBySize(s, i)
      BY DEF Covered
    <3>1. o \notin Chain(s) /\ s[o] = bp[o] /\ EndBySize(s, o) = EndBySize(bp, o)
      BY <2>1 DEF Chain, InChain, EndBySize
    <3>2. PICK i \in Chain(bp) : bp[i].is_free /\ i < o /\ EndBySize(bp, o) <= EndBySize(bp, i)
      BY <3>1 DEF Covered
    <3>3. CASE i = k
      <4>1. o >= j + SIZEOF_META /\ o \in Int /\ j \in Int
        BY <3>1, <3>2, <3>3, <1>0, <2>1, <2>2
      <4>2. j < o
        BY <4>1, <1>0, PageGeometry
      <4> QED
        BY <4>2, <3>1, <3>2, <3>3, <2>1
    <3>4. CASE i # k
      <4>1. s[i].is_free /\ EndBySize(s, i) = EndBySize(bp, i) /\ i \in Chain(s)
        BY <3>2, <3>4, <2>1 DEF EndBySize
      <4> QED
        BY <4>1, <3>1, <3>2
    <3> QED
      BY <3>3, <3>4
  <2> QED
    BY <1>1, <2>1, <2>3, <2>4, <2>5 DEF s
<1>2. CASE ~LeavesNewBlock(bp, k, size)
  <2>1. /\ s \in Blocks
        /\ Chain(s) = Chain(bp)
        /\ ~s[k].is_free /\ s[k].block_size = size
        /\ \A o \in Offset \ {k} : s[o] = bp[o]
        /\ WellFormed(s)
    BY <1>2, ExactSplitWellFormed
  <2> HIDE DEF s
  <2>2. \A o \in Offset : o > k /\ bp[o] # NULL => o >= k + SIZEOF_META + size
    BY <1>0, <1>2, PageGeometry DEF Trampled
  <2>3. bp[k].block_size - size < SIZEOF_META
    BY <1>0, <1>2, PageGeometry DEF LeavesNewBlock
  <2>4. Covered(s)
    <3> SUFFICES ASSUME NEW o \in Offset, s[o] # NULL, s[o].absorbed
                 PROVE  \E i \in Chain(s) : s[i].is_free /\ i < o /\ EndBySize(s, o) <= EndBySize(s, i)
      BY DEF Covered
    <3>1. o # k /\ s[o] = bp[o] /\ EndBySize(s, o) = EndBySize(bp, o)
      BY <2>1 DEF Chain, InChain, EndBySize
    <3>2. PICK i \in Chain(bp) : bp[i].is_free /\ i < o /\ EndBySize(bp, o) <= EndBySize(bp, i)
      BY <3>1 DEF Covered
    <3>3. i # k
      <4> SUFFICES ASSUME i = k PROVE FALSE
        OBVIOUS
      <4>1. o >= k + SIZEOF_META + size /\ o \in Int /\ bp[o].block_size \in Nat
        BY <3>1, <3>2, <1>0, <2>2
      <4>2. o + SIZEOF_META + bp[o].block_size <= k + SIZEOF_META + bp[k].block_size
        BY <3>2 DEF EndBySize
      <4> QED
        BY <4>1, <4>2, <1>0, <2>3, PageGeometry
    <3>4. i \in Offset /\ s[i] = bp[i]
      BY <3>3, <2>1 DEF Chain
    <3> QED
      BY <3>1, <3>2, <3>4, <2>1 DEF EndBySize
  <2> QED
    BY <1>2, <2>1, <2>4, ChainBlock DEF s
<1> QED
  BY <1>1, <1>2

(* What a release does to a page: the same, and k is free.                 *)
LEMMA ReleasePage ==
  ASSUME NEW bp \in Blocks, WellFormed(bp), Covered(bp),
         NEW k \in Chain(bp), ~bp[k].is_free, ~FreePrev(bp, k)
  PROVE  LET r == ReleaseBlock(bp, k)
         IN  /\ r \in Blocks /\ WellFormed(r) /\ Covered(r)
             /\ k \in Chain(r) /\ r[k].is_free
             /\ \A o \in Offset : bp[o] # NULL /\ bp[o].is_free =>
                  r[o] # NULL /\ r[o].is_free /\ r[o].block_size = bp[o].block_size
             /\ \A o \in Chain(r) : r[o].is_free /\ o # k =>
                  /\ o \in Chain(bp) /\ bp[o].is_free
                  /\ r[o].block_size = bp[o].block_size
<1> DEFINE r == ReleaseBlock(bp, k)
           m == bp[k].next_block
<1>1. /\ r \in Blocks
      /\ k \in Chain(r)
      /\ Chain(r) = IF FreeNext(bp, k) THEN Chain(bp) \ {m} ELSE Chain(bp)
      /\ FreeNext(bp, k) => /\ m \in Chain(bp) /\ k < m
                            /\ r[m] # NULL /\ r[m].is_free
                            /\ r[m].block_size = bp[m].block_size
                            /\ EndBySize(r, k) = EndBySize(bp, m)
      /\ \A o \in Chain(r) : /\ r[o].is_free <=> bp[o].is_free \/ o = k
                             /\ o # k => r[o].block_size = bp[o].block_size
      /\ \A o \in Offset \ Chain(bp) : r[o] = bp[o]
      /\ WellFormed(r)
  BY ReleaseWellFormed
<1> HIDE DEF r
<1>2. \A o \in Offset : bp[o] # NULL /\ bp[o].is_free =>
        r[o] # NULL /\ r[o].is_free /\ r[o].block_size = bp[o].block_size
  BY <1>1 DEF Chain, InChain
<1>3. Covered(r)
  <2> SUFFICES ASSUME NEW o \in Offset, r[o] # NULL, r[o].absorbed
               PROVE  \E i \in Chain(r) : r[i].is_free /\ i < o /\ EndBySize(r, o) <= EndBySize(r, i)
    BY DEF Covered
  <2>0. o \notin Chain(r) /\ \A i \in Offset : i \in Int
    BY DEF Chain, InChain, Offset
  <2>1. CASE o \in Chain(bp)
    <3>1. FreeNext(bp, k) /\ o = m
      BY <2>0, <2>1, <1>1
    <3>2. EndBySize(r, m) = EndBySize(bp, m) /\ EndBySize(bp, m) \in Int
      BY <3>1, <1>1, ChainBlock, PageGeometry DEF EndBySize
    <3> QED
      BY <3>1, <3>2, <1>1
  <2>2. CASE o \notin Chain(bp)
    <3>1. r[o] = bp[o] /\ EndBySize(r, o) = EndBySize(bp, o)
      BY <2>2, <1>1 DEF EndBySize
    <3>2. PICK i \in Chain(bp) : bp[i].is_free /\ i < o /\ EndBySize(bp, o) <= EndBySize(bp, i)
      BY <3>1 DEF Covered
    <3>3. CASE i \in Chain(r)
      BY <3>1, <3>2, <3>3, <1>1 DEF EndBySize
    <3>4. CASE i \notin Chain(r)
      <4>1. FreeNext(bp, k) /\ i = m
        BY <3>2, <3>4, <1>1
      <4>2. k \in Int /\ m \in Int /\ o \in Int
        BY <4>1, <1>1, <2>0, ChainBlock
      <4> QED
        BY <4>1, <4>2, <3>1, <3>2, <1>1
    <3> QED
      BY <3>3, <3>4
  <2> QED
    BY <2>1, <2>2
<1> QED
  BY <1>1, <1>2, <1>3 DEF r

=============================================================================
