------------------------- MODULE PageFamilies_proofs -------------------------
(***************************************************************************)
(* Safety of the allocation API, for every page size, every set of         *)
(* families and pages and every request: the inductive invariant IInv and  *)
(* the invariants of PageFamilies that follow from it.                     *)
(***************************************************************************)
EXTENDS PageFamilies, PageBlocks_proofs, FiniteSetTheorems

(* Every mapped page is tiled, located and coalesced.                      *)
PagesWellFormed == \A p \in Page : Mapped(p) => WellFormed(block[p])

(* A node lists a free block of its family at its true size: a block of    *)
(* the chain, or one that a merge has absorbed.                            *)
NodesSound ==
  \A f \in Family : \A e \in free_list[f] : Mapped(e.page) =>
    /\ block[e.page][e.at] # NULL
    /\ block[e.page][e.at].is_free
    /\ block[e.page][e.at].block_size = e.size
    /\ page[e.page].pg_family = f

(* Every free block of a chain is listed.                                  *)
FreeBlocksHaveNodes ==
  \A p \in Page : Mapped(p) =>
    \A k \in Chain(block[p]) : block[p][k].is_free =>
      NewNode(p, k, block[p]) \in free_list[page[p].pg_family]

(* An absorbed block lies inside a bigger free one, so that a node left    *)
(* behind by a merge is never the biggest.                                 *)
AbsorbedBlocksCovered == \A p \in Page : Mapped(p) => Covered(block[p])

(* The page lists are linked both ways and stay within a family.           *)
PageListsLinked ==
  /\ \A f \in Family : first_page[f] # NULL =>
       /\ Mapped(first_page[f])
       /\ page[first_page[f]].prev = NULL
       /\ page[first_page[f]].pg_family = f
  /\ \A p \in Page : Mapped(p) =>
       /\ page[p].next # NULL => /\ Mapped(page[p].next)
                                 /\ page[page[p].next].prev = p
                                 /\ page[page[p].next].pg_family = page[p].pg_family
       /\ IF page[p].prev = NULL THEN first_page[page[p].pg_family] = p
          ELSE /\ Mapped(page[p].prev)
               /\ page[page[p].prev].next = p
               /\ page[page[p].prev].pg_family = page[p].pg_family

(* Going back along prev one comes to the head of a list: no set of mapped *)
(* pages has the prev of each of its pages, as those of a ring would.      *)
NoRingOfPages ==
  \A S \in SUBSET {p \in Page : Mapped(p)} : S # {} => \E p \in S : page[p].prev \notin S

(* The inductive invariant.                                                *)
IInv ==
  /\ TypeOK
  /\ PagesWellFormed
  /\ NodesSound
  /\ FreeBlocksHaveNodes
  /\ AbsorbedBlocksCovered
  /\ PageListsLinked
  /\ NoRingOfPages
-----------------------------------------------------------------------------
(* What the types say of a page header.                                    *)
LEMMA HeaderOfMapped ==
  ASSUME TypeOK, NEW p \in Page, Mapped(p)
  PROVE  /\ page[p] \in Header
         /\ page[p].next \in Page \cup {NULL}
         /\ page[p].prev \in Page \cup {NULL}
         /\ page[p].pg_family \in Family
  BY DEF TypeOK, Mapped, Header

(* A request in bytes is a natural number, whatever overflowed.            *)
LEMMA RequestIsNat ==
  ASSUME NEW f \in Family, NEW n \in Units
  PROVE  Request(f, n) \in Nat
<1>1. StructSize[f] \in Int /\ n \in Int /\ UINT32 \in Nat /\ UINT32 > 0
  BY FamilyAssumption, PageGeometry
<1>2. n * StructSize[f] \in Int
  BY <1>1
<1> QED
  BY <1>1, <1>2 DEF Request

(* The head of the free list, when its page is mapped, is a block of the   *)
(* page's chain and free.                                                  *)
LEMMA BiggestInChain ==
  ASSUME IInv, NEW f \in Family, NEW e \in Biggest(f), Mapped(e.page)
  PROVE  /\ e \in free_list[f] /\ e.page \in Page /\ e.at \in Offset
         /\ e.at \in Chain(block[e.page])
         /\ block[e.page][e.at].is_free
         /\ block[e.page][e.at].block_size = e.size
         /\ page[e.page].pg_family = f
<1> DEFINE bp == block[e.page]
<1>1. /\ e \in free_list[f] /\ e \in Node /\ e.page \in Page /\ e.at \in Offset
      /\ e.size \in Nat
      /\ \A d \in free_list[f] : d \in Node /\ d.size <= e.size
  BY DEF IInv, TypeOK, Biggest, Node
<1>2. /\ bp[e.at] # NULL /\ bp[e.at].is_free /\ bp[e.at].block_size = e.size
      /\ page[e.page].pg_family = f
  BY <1>1 DEF IInv, NodesSound
<1>3. bp \in Blocks
  BY <1>1 DEF IInv, TypeOK
<1>4. ~bp[e.at].absorbed
  <2> SUFFICES ASSUME bp[e.at].absorbed PROVE FALSE
    OBVIOUS
  <2>1. PICK j \in Chain(bp) : bp[j].is_free /\ j < e.at /\ EndBySize(bp, e.at) <= EndBySize(bp, j)
    BY <1>1, <1>2 DEF IInv, AbsorbedBlocksCovered, Covered
  <2>2. NewNode(e.page, j, bp) \in free_list[f]
    BY <1>1, <1>2, <2>1 DEF IInv, FreeBlocksHaveNodes
  <2>3. bp[j].block_size <= e.size /\ bp[j].block_size \in Nat /\ j \in Int /\ e.at \in Int
    BY <1>1, <1>3, <2>2, ChainBlock DEF NewNode, Offset
  <2> QED
    BY <1>1, <1>2, <2>1, <2>3, PageGeometry DEF EndBySize
<1> QED
  BY <1>1, <1>2, <1>4 DEF Chain, InChain

(* Steps that leave the memory alone keep the invariant.                   *)
LEMMA NothingChanges ==
  ASSUME IInv, fault' \in Faults, UNCHANGED <<first_page, page, block, free_list>>
  PROVE  IInv'
<1>1. TypeOK'
  BY DEF IInv, TypeOK
<1>2. PagesWellFormed' /\ AbsorbedBlocksCovered'
  BY DEF IInv, PagesWellFormed, AbsorbedBlocksCovered, Mapped
<1>3. NodesSound'
  BY DEF IInv, NodesSound, Mapped
<1>4. FreeBlocksHaveNodes'
  BY DEF IInv, FreeBlocksHaveNodes, Mapped, NewNode
<1>5. PageListsLinked' /\ NoRingOfPages'
  BY DEF IInv, PageListsLinked, NoRingOfPages, Mapped
<1> QED
  BY <1>1, <1>2, <1>3, <1>4, <1>5 DEF IInv
-----------------------------------------------------------------------------
(* A step in which an allocation of the family f takes the free block k of *)
(* page p, whose blocks are bp; lists are the free lists without it.  The  *)
(* page may be mapped by the same step.                                    *)
Takes(f, p, bp, k, size, lists) ==
  /\ bp \in Blocks /\ WellFormed(bp) /\ Covered(bp)
  /\ k \in Chain(bp) /\ bp[k].is_free /\ size <= bp[k].block_size
  /\ Trampled(bp, k, size) = {}
  /\ lists \in [Family -> SUBSET Node]
  /\ \A g \in Family : \A e \in lists[g] :
       IF e.page = p
       THEN g = f /\ e.at # k /\ bp[e.at] # NULL /\ bp[e.at].is_free
                  /\ bp[e.at].block_size = e.size
       ELSE page[e.page] # NULL =>
              /\ block[e.page][e.at] # NULL
              /\ block[e.page][e.at].is_free
              /\ block[e.page][e.at].block_size = e.size
              /\ page[e.page].pg_family = g
  /\ \A o \in Chain(bp) : bp[o].is_free /\ o # k => NewNode(p, o, bp) \in lists[f]
  /\ \A q \in Page : q # p /\ page[q] # NULL => \A o \in Chain(block[q]) :
       block[q][o].is_free => NewNode(q, o, block[q]) \in lists[page[q].pg_family]
  /\ page'[p] # NULL /\ page'[p].pg_family = f
  /\ \A q \in Page : q # p =>
       /\ page'[q] # NULL <=> page[q] # NULL
       /\ page[q] # NULL => page'[q].pg_family = page[q].pg_family
  /\ block' = [block EXCEPT ![p] = SplitBlock(bp, k, size)]
  /\ free_list' = [lists EXCEPT ![f] = @ \cup
       (IF LeavesNewBlock(bp, k, size)
        THEN {NewNode(p, k + SIZEOF_META + size, SplitBlock(bp, k, size))} ELSE {})]

(* Such a step keeps the types of the memory, the pages well formed and    *)
(* the free lists in agreement with the blocks.                            *)
LEMMA SplitStep ==
  ASSUME TypeOK, PagesWellFormed, AbsorbedBlocksCovered,
         NEW f \in Family, NEW p \in Page, NEW size \in Nat,
         NEW bp, NEW k, NEW lists, Takes(f, p, bp, k, size, lists)
  PROVE  /\ block' \in [Page -> Blocks]
         /\ free_list' \in [Family -> SUBSET Node]
         /\ PagesWellFormed' /\ NodesSound' /\ FreeBlocksHaveNodes' /\ AbsorbedBlocksCovered'
<1>0. /\ bp \in Blocks /\ WellFormed(bp) /\ Covered(bp)
      /\ k \in Chain(bp) /\ bp[k].is_free /\ size <= bp[k].block_size
      /\ Trampled(bp, k, size) = {}
      /\ lists \in [Family -> SUBSET Node]
      /\ \A g \in Family : \A e \in lists[g] : e.page = p =>
           g = f /\ e.at # k /\ bp[e.at] # NULL /\ bp[e.at].is_free /\ bp[e.at].block_size = e.size
      /\ \A g \in Family : \A e \in lists[g] : e.page # p /\ page[e.page] # NULL =>
           /\ block[e.page][e.at] # NULL
           /\ block[e.page][e.at].is_free
           /\ block[e.page][e.at].block_size = e.size
           /\ page[e.page].pg_family = g
      /\ \A o \in Chain(bp) : bp[o].is_free /\ o # k => NewNode(p, o, bp) \in lists[f]
      /\ \A q \in Page : q # p /\ page[q] # NULL => \A o \in Chain(block[q]) :
           block[q][o].is_free => NewNode(q, o, block[q]) \in lists[page[q].pg_family]
      /\ page'[p] # NULL /\ page'[p].pg_family = f
      /\ \A q \in Page : q # p =>
           /\ page'[q] # NULL <=> page[q] # NULL
           /\ page[q] # NULL => page'[q].pg_family = page[q].pg_family
      /\ block' = [block EXCEPT ![p] = SplitBlock(bp, k, size)]
      /\ free_list' = [lists EXCEPT ![f] = @ \cup
           (IF LeavesNewBlock(bp, k, size)
            THEN {NewNode(p, k + SIZEOF_META + size, SplitBlock(bp, k, size))} ELSE {})]
  BY DEF Takes
<1> DEFINE s == SplitBlock(bp, k, size)
           j == k + SIZEOF_META + size
           new == IF LeavesNewBlock(bp, k, size) THEN {NewNode(p, j, s)} ELSE {}
<1>1. /\ s \in Blocks /\ WellFormed(s) /\ Covered(s)
      /\ \A o \in Offset : o # k /\ bp[o] # NULL /\ bp[o].is_free =>
           s[o] # NULL /\ s[o].is_free /\ s[o].block_size = bp[o].block_size
      /\ \A o \in Chain(s) : s[o].is_free =>
           \/ /\ o \in Chain(bp) /\ o # k /\ bp[o].is_free
              /\ s[o].block_size = bp[o].block_size
           \/ LeavesNewBlock(bp, k, size) /\ o = j
      /\ LeavesNewBlock(bp, k, size) =>
           j \in Offset /\ j # k /\ bp[j] = NULL /\ s[j] # NULL /\ s[j].is_free
  BY <1>0, SplitPage
<1> HIDE DEF s, j
<1>2. new \subseteq Node
  BY <1>1 DEF NewNode, Node, Blocks, Block
<1>3. /\ block' = [block EXCEPT ![p] = s]
      /\ free_list' = [lists EXCEPT ![f] = @ \cup new]
  BY <1>0 DEF s, j
<1> HIDE DEF new
<1>4. /\ block' \in [Page -> Blocks]
      /\ block'[p] = s
      /\ \A q \in Page : q # p => block'[q] = block[q]
      /\ free_list' \in [Family -> SUBSET Node]
      /\ free_list'[f] = lists[f] \cup new
      /\ \A g \in Family : g # f => free_list'[g] = lists[g]
  BY <1>0, <1>1, <1>2, <1>3 DEF TypeOK
<1>5. PagesWellFormed' /\ AbsorbedBlocksCovered'
  <2> SUFFICES ASSUME NEW q \in Page, page'[q] # NULL
               PROVE  WellFormed(block'[q]) /\ Covered(block'[q])
    BY DEF PagesWellFormed, AbsorbedBlocksCovered, Mapped
  <2> QED
    BY <1>0, <1>1, <1>4 DEF Mapped, PagesWellFormed, AbsorbedBlocksCovered
<1>6. NodesSound'
  <2> SUFFICES ASSUME NEW g \in Family, NEW e \in free_list'[g], page'[e.page] # NULL
               PROVE  /\ block'[e.page][e.at] # NULL
                      /\ block'[e.page][e.at].is_free
                      /\ block'[e.page][e.at].block_size = e.size
                      /\ page'[e.page].pg_family = g
    BY DEF NodesSound, Mapped
  <2>1. e \in lists[g] \/ (g = f /\ e \in new)
    BY <1>4
  <2>2. e.page \in Page /\ e.at \in Offset
    BY <1>4 DEF Node
  <2>3. CASE e \in new
    <3>1. e = NewNode(p, j, s) /\ LeavesNewBlock(bp, k, size)
      BY <2>3 DEF new
    <3>2. /\ e.page = p /\ e.at = j /\ e.size = s[j].block_size
      BY <1>0, <3>1 DEF NewNode
    <3>3. g = f
      <4>1. e \in lists[g] => bp[e.at] # NULL /\ g = f
        BY <1>0, <3>2
      <4> QED
        BY <4>1, <2>1
    <3> QED
      BY <1>0, <3>1, <3>2, <3>3, <1>1, <1>4
  <2>4. CASE e \in lists[g] /\ e.page = p
    BY <1>0, <2>2, <2>4, <1>1, <1>4
  <2>5. CASE e \in lists[g] /\ e.page # p
    BY <1>0, <2>2, <2>5, <1>4
  <2> QED
    BY <2>1, <2>3, <2>4, <2>5
<1>7. FreeBlocksHaveNodes'
  <2> SUFFICES ASSUME NEW q \in Page, page'[q] # NULL,
                      NEW o \in Chain(block'[q]), block'[q][o].is_free
               PROVE  NewNode(q, o, block'[q]) \in free_list'[page'[q].pg_family]
    BY DEF FreeBlocksHaveNodes, Mapped, NewNode
  <2>1. CASE q # p
    <3>1. NewNode(q, o, block[q]) \in lists[page[q].pg_family]
      BY <1>0, <2>1, <1>4
    <3>2. page'[q].pg_family = page[q].pg_family /\ page[q].pg_family \in Family
      BY <1>0, <2>1, HeaderOfMapped DEF Mapped
    <3> QED
      BY <2>1, <3>1, <3>2, <1>4
  <2>2. CASE q = p /\ LeavesNewBlock(bp, k, size) /\ o = j
    BY <1>0, <2>2, <1>4 DEF new
  <2>3. CASE q = p /\ ~(LeavesNewBlock(bp, k, size) /\ o = j)
    <3>1. o \in Chain(bp) /\ o # k /\ bp[o].is_free /\ s[o].block_size = bp[o].block_size
      BY <1>0, <2>3, <1>1, <1>4
    <3>2. NewNode(p, o, s) = NewNode(p, o, bp) /\ NewNode(p, o, bp) \in lists[f]
      BY <1>0, <3>1 DEF NewNode
    <3> QED
      BY <1>0, <2>3, <3>2, <1>4
  <2> QED
    BY <2>1, <2>2, <2>3
<1> QED
  BY <1>4, <1>5, <1>6, <1>7

-----------------------------------------------------------------------------
(* allocate_vm_page pushes a page on the list of its family.               *)
LEMMA PushKeepsLists ==
  ASSUME TypeOK, PageListsLinked, NoRingOfPages,
         NEW f \in Family, NEW p \in Page, ~Mapped(p),
         page' = PushPage(f, p), first_page' = [first_page EXCEPT ![f] = p]
  PROVE  /\ page' \in [Page -> Header \cup {NULL}]
         /\ first_page' \in [Family -> Page \cup {NULL}]
         /\ page'[p] # NULL /\ page'[p].pg_family = f
         /\ \A q \in Page : q # p => /\ page'[q] # NULL <=> Mapped(q)
                                     /\ Mapped(q) => page'[q].pg_family = page[q].pg_family
         /\ PageListsLinked' /\ NoRingOfPages'
<1> DEFINE h == first_page[f]
           hp == [next |-> h, prev |-> NULL, pg_family |-> f]
           hh == [page[h] EXCEPT !.prev = p]
<1>1. /\ h \in Page \cup {NULL} /\ p # NULL /\ NULL \notin Page
      /\ h # NULL => /\ h \in Page /\ Mapped(h) /\ h # p /\ page[h] \in Header
                     /\ page[h].prev = NULL /\ page[h].pg_family = f
  BY FamilyAssumption DEF TypeOK, PageListsLinked, Mapped
<1>2. hp \in Header /\ (h # NULL => hh \in Header)
  BY <1>1 DEF Header
<1>3. /\ hp.next = h /\ hp.prev = NULL /\ hp.pg_family = f
      /\ h # NULL => /\ hh.next = page[h].next /\ hh.prev = p /\ hh.pg_family = f
  BY <1>1 DEF Header
<1>4. /\ page' \in [Page -> Header \cup {NULL}]
      /\ page'[p] = hp
      /\ h # NULL => page'[h] = hh
      /\ \A q \in Page : q # p /\ q # h => page'[q] = page[q]
  <2>1. CASE h = NULL
    <3>1. page' = [page EXCEPT ![p] = hp]
      BY <2>1 DEF PushPage
    <3> HIDE DEF hp
    <3> QED
      BY <2>1, <3>1, <1>2 DEF TypeOK
  <2>2. CASE h # NULL
    <3>1. page' = [[page EXCEPT ![p] = hp] EXCEPT ![h].prev = p]
      BY <2>2 DEF PushPage
    <3>2. [page EXCEPT ![p] = hp][h] = page[h]
      BY <2>2, <1>1
    <3>3. page' = [[page EXCEPT ![p] = hp] EXCEPT ![h] = hh]
      BY <3>1, <3>2
    <3> HIDE DEF hp, hh
    <3> QED
      BY <2>2, <3>3, <1>1, <1>2 DEF TypeOK
  <2> QED
    BY <2>1, <2>2
<1> HIDE DEF hp, hh
<1>5. /\ first_page' \in [Family -> Page \cup {NULL}]
      /\ first_page'[f] = p
      /\ \A g \in Family : g # f => first_page'[g] = first_page[g]
  BY DEF TypeOK
<1>6. /\ page'[p] # NULL /\ page'[p].pg_family = f
      /\ \A q \in Page : q # p => /\ page'[q] # NULL <=> Mapped(q)
                                  /\ Mapped(q) => page'[q].pg_family = page[q].pg_family
  BY <1>1, <1>2, <1>3, <1>4, NullIsNoHeader DEF Mapped
<1>7. ASSUME NEW g \in Family, first_page'[g] # NULL
      PROVE  /\ page'[first_page'[g]] # NULL
             /\ page'[first_page'[g]].prev = NULL
             /\ page'[first_page'[g]].pg_family = g
  <2>1. CASE g = f
    BY <2>1, <1>3, <1>4, <1>5, <1>6
  <2>2. CASE g # f
    <3>1. first_page'[g] = first_page[g] /\ first_page[g] \in Page
      BY <2>2, <1>5, <1>7
    <3>2. /\ Mapped(first_page[g]) /\ page[first_page[g]].prev = NULL
          /\ page[first_page[g]].pg_family = g
      BY <3>1, <1>7 DEF PageListsLinked
    <3>3. first_page[g] # p /\ first_page[g] # h
      BY <2>2, <3>1, <3>2, <1>1 DEF Mapped
    <3> QED
      BY <3>1, <3>2, <3>3, <1>4 DEF Mapped
  <2> QED
    BY <2>1, <2>2
<1>8. ASSUME NEW q \in Page, page'[q] # NULL, page'[q].next # NULL
      PROVE  /\ page'[page'[q].next] # NULL
             /\ page'[page'[q].next].prev = q
             /\ page'[page'[q].next].pg_family = page'[q].pg_family
  <2>1. CASE q = p
    BY <2>1, <1>1, <1>3, <1>4, <1>6, <1>8
  <2>2. CASE q # p
    <3>1. /\ Mapped(q) /\ page'[q].next = page[q].next
          /\ page'[q].pg_family = page[q].pg_family
      BY <2>2, <1>1, <1>3, <1>4, <1>6, <1>8
    <3>2. /\ page[q].next \in Page /\ Mapped(page[q].next) /\ page[page[q].next].prev = q
          /\ page[page[q].next].pg_family = page[q].pg_family
      BY <3>1, <1>8, HeaderOfMapped DEF PageListsLinked
    <3>3. page[q].next # p /\ page[q].next # h
      BY <3>1, <3>2, <1>1
    <3> QED
      BY <3>1, <3>2, <3>3, <1>4 DEF Mapped
  <2> QED
    BY <2>1, <2>2
<1>9. ASSUME NEW q \in Page, page'[q] # NULL
      PROVE  IF page'[q].prev = NULL THEN first_page'[page'[q].pg_family] = q
             ELSE /\ page'[page'[q].prev] # NULL
                  /\ page'[page'[q].prev].next = q
                  /\ page'[page'[q].prev].pg_family = page'[q].pg_family
  <2>1. CASE q = p
    BY <2>1, <1>3, <1>4, <1>5
  <2>2. CASE q = h
    BY <2>2, <1>1, <1>3, <1>4, <1>6
  <2>3. CASE q # p /\ q # h
    <3>1. Mapped(q) /\ page'[q] = page[q] /\ page[q].pg_family \in Family
          /\ page[q].prev \in Page \cup {NULL}
      BY <2>3, <1>4, <1>6, <1>9, HeaderOfMapped DEF Mapped
    <3>2. CASE page[q].prev = NULL
      <4>1. first_page[page[q].pg_family] = q
        BY <3>1, <3>2 DEF PageListsLinked
      <4>2. page[q].pg_family # f
        BY <4>1, <2>3
      <4> QED
        BY <3>1, <3>2, <4>1, <4>2, <1>5
    <3>3. CASE page[q].prev # NULL
      <4>1. /\ page[q].prev \in Page /\ Mapped(page[q].prev)
            /\ page[page[q].prev].next = q
            /\ page[page[q].prev].pg_family = page[q].pg_family
        BY <3>1, <3>3 DEF PageListsLinked
      <4>2. page[q].prev # p
        BY <4>1
      <4>3. page'[page[q].prev].next = page[page[q].prev].next
        BY <4>1, <4>2, <1>1, <1>3, <1>4
      <4> QED
        BY <3>1, <3>3, <4>1, <4>2, <4>3, <1>6
    <3> QED
      BY <3>2, <3>3
  <2> QED
    BY <2>1, <2>2, <2>3
<1>10. PageListsLinked'
  BY <1>7, <1>8, <1>9 DEF PageListsLinked, Mapped
<1>11. NoRingOfPages'
  <2> SUFFICES ASSUME NEW S \in SUBSET {q \in Page : Mapped(q)'}, S # {}
               PROVE  \E q \in S : page'[q].prev \notin S
    BY DEF NoRingOfPages
  <2>1. CASE p \in S
    <3>1. page'[p].prev = NULL /\ NULL \notin S
      BY <1>1, <1>3, <1>4
    <3> QED
      BY <2>1, <3>1
  <2>2. CASE p \notin S
    <3>1. S \in SUBSET {q \in Page : Mapped(q)}
      BY <1>6, <2>2 DEF Mapped
    <3>2. PICK q \in S : page[q].prev \notin S
      BY <3>1 DEF NoRingOfPages
    <3>3. q \in Page /\ page'[q].prev \in {p, page[q].prev}
      BY <1>1, <1>3, <1>4, <2>2, <3>1
    <3> QED
      BY <2>2, <3>2, <3>3
  <2> QED
    BY <2>1, <2>2
<1> QED
  BY <1>4, <1>5, <1>6, <1>10, <1>11

(* mm_vm_page_delete_and_free takes a page out of the list of its family.  *)
LEMMA DropKeepsLists ==
  ASSUME TypeOK, PageListsLinked, NoRingOfPages,
         NEW p \in Page, Mapped(p), mm_vm_page_delete_and_free(p)
  PROVE  /\ page' \in [Page -> Header \cup {NULL}]
         /\ first_page' \in [Family -> Page \cup {NULL}]
         /\ page'[p] = NULL
         /\ \A q \in Page : q # p => /\ page'[q] # NULL <=> Mapped(q)
                                     /\ Mapped(q) => page'[q].pg_family = page[q].pg_family
         /\ PageListsLinked' /\ NoRingOfPages'
<1> DEFINE f == page[p].pg_family
           n == page[p].next
           r == page[p].prev
           hr == [page[r] EXCEPT !.next = n]
<1>1. /\ f \in Family /\ n \in Page \cup {NULL} /\ r \in Page \cup {NULL}
      /\ NULL \notin Page /\ p # NULL
      /\ r = NULL <=> first_page[f] = p
      /\ r = NULL \/ /\ r \in Page /\ Mapped(r) /\ page[r].next = p /\ page[r].pg_family = f
                     /\ page[r] \in Header
      /\ n = NULL \/ /\ n \in Page /\ Mapped(n) /\ page[n].prev = p /\ page[n].pg_family = f
                     /\ page[n] \in Header
  <2>1. f \in Family /\ n \in Page \cup {NULL} /\ r \in Page \cup {NULL}
    BY HeaderOfMapped
  <2>2. r = NULL => first_page[f] = p
    BY DEF PageListsLinked
  <2>3. first_page[f] = p => r = NULL
    BY <2>1, FamilyAssumption DEF PageListsLinked
  <2>4. r = NULL \/ (Mapped(r) /\ page[r].next = p /\ page[r].pg_family = f)
    BY DEF PageListsLinked
  <2>5. n = NULL \/ (Mapped(n) /\ page[n].prev = p /\ page[n].pg_family = f)
    BY DEF PageListsLinked
  <2> QED
    BY <2>1, <2>2, <2>3, <2>4, <2>5, HeaderOfMapped, FamilyAssumption
<1> DEFINE forward == IF r = NULL THEN page ELSE [page EXCEPT ![r] = hr]
           back == IF n = NULL THEN forward ELSE [forward EXCEPT ![n].prev = r]
<1>2. page' = [back EXCEPT ![p] = NULL]
  BY <1>1 DEF mm_vm_page_delete_and_free, DropPage
<1>3. /\ forward \in [Page -> Header \cup {NULL}]
      /\ \A q \in Page : forward[q] = IF q = r THEN hr ELSE page[q]
      /\ r # NULL => hr \in Header /\ hr.next = n /\ hr.prev = page[r].prev /\ hr.pg_family = f
  <2>1. r # NULL => hr \in Header /\ hr.next = n /\ hr.prev = page[r].prev /\ hr.pg_family = f
    BY <1>1 DEF Header
  <2> HIDE DEF hr
  <2> QED
    BY <2>1, <1>1 DEF TypeOK
<1> HIDE DEF forward, hr
<1>4. /\ back \in [Page -> Header \cup {NULL}]
      /\ \A q \in Page : q # n => back[q] = forward[q]
      /\ n # NULL => /\ back[n] \in Header /\ back[n].prev = r
                     /\ back[n].next = forward[n].next
                     /\ back[n].pg_family = forward[n].pg_family
  <2>1. CASE n = NULL
    BY <2>1, <1>1, <1>3
  <2>2. CASE n # NULL
    <3>1. forward[n] \in Header
      BY <2>2, <1>1, <1>3
    <3>2. [forward[n] EXCEPT !.prev = r] \in Header
      BY <3>1, <1>1 DEF Header
    <3>3. back = [forward EXCEPT ![n] = [forward[n] EXCEPT !.prev = r]]
      BY <2>2
    <3> QED
      BY <2>2, <3>1, <3>2, <3>3, <1>1, <1>3 DEF Header
  <2> QED
    BY <2>1, <2>2
<1> HIDE DEF back
<1>5. /\ page' \in [Page -> Header \cup {NULL}]
      /\ page'[p] = NULL
      /\ \A q \in Page : q # p => page'[q] = back[q]
  BY <1>2, <1>4
<1>6. ASSUME NEW q \in Page, q # p
      PROVE  /\ page'[q] # NULL <=> Mapped(q)
             /\ Mapped(q) =>
                  /\ page'[q].pg_family = page[q].pg_family
                  /\ page'[q].next = IF q = r THEN n ELSE page[q].next
                  /\ page'[q].prev = IF q = n THEN r ELSE page[q].prev
  <2>1. /\ Mapped(q) => page[q] \in Header
        /\ forward[q] = IF q = r THEN hr ELSE page[q]
        /\ page'[q] = back[q]
    BY <1>3, <1>5, <1>6 DEF TypeOK, Mapped
  <2>2. CASE q = n
    BY <2>1, <2>2, <1>1, <1>3, <1>4, NullIsNoHeader DEF Mapped
  <2>3. CASE q # n
    BY <2>1, <2>3, <1>1, <1>3, <1>4, NullIsNoHeader DEF Mapped
  <2> QED
    BY <2>2, <2>3
<1>7. /\ first_page' \in [Family -> Page \cup {NULL}]
      /\ \A g \in Family : first_page'[g] = IF g = f /\ r = NULL THEN n ELSE first_page[g]
  BY <1>1 DEF mm_vm_page_delete_and_free, TypeOK
<1>8. ASSUME NEW g \in Family, first_page'[g] # NULL
      PROVE  /\ page'[first_page'[g]] # NULL
             /\ page'[first_page'[g]].prev = NULL
             /\ page'[first_page'[g]].pg_family = g
  <2>1. CASE g = f /\ r = NULL
    <3>1. first_page'[g] = n /\ n # NULL /\ n # p
      BY <2>1, <1>1, <1>7, <1>8
    <3> QED
      BY <2>1, <3>1, <1>1, <1>6
  <2>2. CASE ~(g = f /\ r = NULL)
    <3>1. first_page'[g] = first_page[g] /\ first_page[g] \in Page
      BY <2>2, <1>7, <1>8
    <3>2. /\ Mapped(first_page[g]) /\ page[first_page[g]].prev = NULL
          /\ page[first_page[g]].pg_family = g
      BY <3>1, <1>8 DEF PageListsLinked
    <3>3. first_page[g] # p /\ first_page[g] # n
      BY <2>2, <3>1, <3>2, <1>1 DEF Mapped
    <3> QED
      BY <3>1, <3>2, <3>3, <1>6
  <2> QED
    BY <2>1, <2>2
<1>9. ASSUME NEW q \in Page, page'[q] # NULL, page'[q].next # NULL
      PROVE  /\ page'[page'[q].next] # NULL
             /\ page'[page'[q].next].prev = q
             /\ page'[page'[q].next].pg_family = page'[q].pg_family
  <2>0. q # p /\ Mapped(q) /\ page'[q].pg_family = page[q].pg_family
        /\ page'[q].next = IF q = r THEN n ELSE page[q].next
    BY <1>5, <1>6, <1>9 DEF Mapped
  <2>1. CASE q = r
    <3>1. n # NULL /\ page'[q].next = n /\ n # p /\ page[r].pg_family = f
      BY <2>0, <2>1, <1>1, <1>9
    <3> QED
      BY <2>0, <2>1, <3>1, <1>1, <1>6
  <2>2. CASE q # r
    <3>1. /\ page[q].next \in Page /\ Mapped(page[q].next) /\ page[page[q].next].prev = q
          /\ page[page[q].next].pg_family = page[q].pg_family
          /\ page'[q].next = page[q].next
      BY <2>0, <2>2, <1>9, HeaderOfMapped DEF PageListsLinked
    <3>2. page[q].next # p /\ page[q].next # n
      BY <2>0, <2>2, <3>1, <1>1
    <3> QED
      BY <2>0, <3>1, <3>2, <1>6
  <2> QED
    BY <2>1, <2>2
<1>10. ASSUME NEW q \in Page, page'[q] # NULL
       PROVE  IF page'[q].prev = NULL THEN first_page'[page'[q].pg_family] = q
              ELSE /\ page'[page'[q].prev] # NULL
                   /\ page'[page'[q].prev].next = q
                   /\ page'[page'[q].prev].pg_family = page'[q].pg_family
  <2>0. q # p /\ Mapped(q) /\ page'[q].pg_family = page[q].pg_family
        /\ page[q].pg_family \in Family
        /\ page'[q].prev = IF q = n THEN r ELSE page[q].prev
    BY <1>5, <1>6, <1>10, HeaderOfMapped DEF Mapped
  <2>1. CASE q = n
    <3>1. n # NULL /\ page[n].pg_family = f
      BY <2>1, <1>1
    <3>2. r # NULL => r # p
      BY <2>1, <2>0, <1>1
    <3> QED
      BY <2>0, <2>1, <3>1, <3>2, <1>1, <1>6, <1>7
  <2>2. CASE q # n
    <3>1. page'[q].prev = page[q].prev /\ page[q].prev \in Page \cup {NULL}
      BY <2>0, <2>2, HeaderOfMapped
    <3>2. CASE page[q].prev = NULL
      <4>1. first_page[page[q].pg_family] = q
        BY <2>0, <3>2 DEF PageListsLinked
      <4> QED
        BY <2>0, <3>1, <3>2, <4>1, <1>1, <1>7
    <3>3. CASE page[q].prev # NULL
      <4>1. /\ page[q].prev \in Page /\ Mapped(page[q].prev)
            /\ page[page[q].prev].next = q
            /\ page[page[q].prev].pg_family = page[q].pg_family
        BY <2>0, <3>1, <3>3 DEF PageListsLinked
      <4>2. page[q].prev # p /\ page[q].prev # r
        BY <2>0, <2>2, <4>1, <1>1
      <4> QED
        BY <2>0, <3>1, <3>3, <4>1, <4>2, <1>6
    <3> QED
      BY <3>2, <3>3
  <2> QED
    BY <2>1, <2>2
<1>11. PageListsLinked'
  BY <1>8, <1>9, <1>10 DEF PageListsLinked, Mapped
<1>12. NoRingOfPages'
  <2> SUFFICES ASSUME NEW S \in SUBSET {q \in Page : Mapped(q)'}, S # {}
               PROVE  \E q \in S : page'[q].prev \notin S
    BY DEF NoRingOfPages
  <2>1. /\ p \notin S /\ NULL \notin S
        /\ \A q \in S : /\ q \in Page /\ Mapped(q)
                        /\ page'[q].prev = IF q = n THEN r ELSE page[q].prev
    BY <1>1, <1>5, <1>6 DEF Mapped
  <2>2. CASE n \in S /\ r \in S
    <3>1. S \cup {p} \in SUBSET {q \in Page : Mapped(q)} /\ S \cup {p} # {}
      BY <2>1
    <3>2. PICK q \in S \cup {p} : page[q].prev \notin S \cup {p}
      BY <3>1 DEF NoRingOfPages
    <3>3. q # p /\ q # n
      BY <1>1, <2>1, <2>2, <3>2
    <3> QED
      BY <2>1, <3>2, <3>3
  <2>3. CASE n \in S /\ r \notin S
    BY <2>1, <2>3
  <2>4. CASE n \notin S
    <3>1. S \in SUBSET {q \in Page : Mapped(q)}
      BY <2>1
    <3>2. PICK q \in S : page[q].prev \notin S
      BY <3>1 DEF NoRingOfPages
    <3> QED
      BY <2>1, <2>4, <3>2
  <2> QED
    BY <2>2, <2>3, <2>4
<1> QED
  BY <1>5, <1>6, <1>7, <1>11, <1>12 DEF Mapped

-----------------------------------------------------------------------------
(* xcalloc maps a page and takes its memory.                               *)
LEMMA NewPageStep ==
  ASSUME IInv, NEW f \in Family, NEW p \in Page, NEW size \in Nat,
         size <= mm_max_page_allocatable_memory,
         ~Mapped(p), \A k \in Offset : ~Listed(p, k),
         mm_split_free_data_block_for_allocation(f, p, EmptyPage, OFFSET_META, size, free_list[f]),
         page' = PushPage(f, p), first_page' = [first_page EXCEPT ![f] = p],
         UNCHANGED fault
  PROVE  IInv'
<1>1. /\ TypeOK /\ PagesWellFormed /\ AbsorbedBlocksCovered
      /\ PageListsLinked /\ NoRingOfPages
  BY DEF IInv
<1>2. /\ EmptyPage \in Blocks /\ WellFormed(EmptyPage) /\ Chain(EmptyPage) = {OFFSET_META}
      /\ OFFSET_META \in Offset
      /\ EmptyPage[OFFSET_META].is_free
      /\ EmptyPage[OFFSET_META].block_size = mm_max_page_allocatable_memory
      /\ Covered(EmptyPage)
  <2>1. /\ EmptyPage[OFFSET_META].is_free
        /\ ~EmptyPage[OFFSET_META].absorbed
        /\ EmptyPage[OFFSET_META].block_size = mm_max_page_allocatable_memory
        /\ \A o \in Offset \ {OFFSET_META} : EmptyPage[o] = NULL
    BY FirstOffset DEF EmptyPage, NoBlocks
  <2>2. Covered(EmptyPage)
    BY <2>1 DEF Covered
  <2> QED
    BY <2>1, <2>2, EmptyPageWellFormed, FirstOffset
<1>3. /\ page' \in [Page -> Header \cup {NULL}]
      /\ first_page' \in [Family -> Page \cup {NULL}]
      /\ Mapped(p)' /\ page'[p].pg_family = f
      /\ \A q \in Page : q # p => /\ Mapped(q)' <=> Mapped(q)
                                  /\ Mapped(q) => page'[q].pg_family = page[q].pg_family
      /\ PageListsLinked' /\ NoRingOfPages'
  BY <1>1, PushKeepsLists DEF Mapped
<1>4. free_list \in [Family -> SUBSET Node]
  BY <1>1 DEF TypeOK
<1>5. \A g \in Family : \A e \in free_list[g] : e.page # p
  BY <1>4 DEF Listed, Node
<1>6. \A g \in Family : \A e \in free_list[g] : e.page # p /\ Mapped(e.page) =>
        /\ block[e.page][e.at] # NULL
        /\ block[e.page][e.at].is_free
        /\ block[e.page][e.at].block_size = e.size
        /\ page[e.page].pg_family = g
  BY DEF IInv, NodesSound
<1>7. \A q \in Page : q # p /\ Mapped(q) => \A o \in Chain(block[q]) :
        block[q][o].is_free => NewNode(q, o, block[q]) \in free_list[page[q].pg_family]
  BY DEF IInv, FreeBlocksHaveNodes
<1>8. /\ Trampled(EmptyPage, OFFSET_META, size) = {}
      /\ block' = [block EXCEPT ![p] = SplitBlock(EmptyPage, OFFSET_META, size)]
      /\ free_list' = [free_list EXCEPT ![f] = @ \cup
           (IF LeavesNewBlock(EmptyPage, OFFSET_META, size)
            THEN {NewNode(p, OFFSET_META + SIZEOF_META + size,
                          SplitBlock(EmptyPage, OFFSET_META, size))} ELSE {})]
  BY DEF mm_split_free_data_block_for_allocation
<1>9. /\ block' \in [Page -> Blocks]
      /\ free_list' \in [Family -> SUBSET Node]
      /\ PagesWellFormed' /\ NodesSound' /\ FreeBlocksHaveNodes' /\ AbsorbedBlocksCovered'
  <2> DEFINE k == OFFSET_META
             bp == EmptyPage
  <2>1. k \in Chain(bp) /\ \A o \in Chain(bp) : o = k
    BY <1>2
  <2> HIDE DEF k, bp
  <2>2. /\ bp \in Blocks /\ WellFormed(bp) /\ Covered(bp) /\ bp[k].is_free
        /\ size <= bp[k].block_size
    BY <1>2 DEF k, bp
  <2>3. /\ Trampled(bp, k, size) = {}
        /\ block' = [block EXCEPT ![p] = SplitBlock(bp, k, size)]
        /\ free_list' = [free_list EXCEPT ![f] = @ \cup
             (IF LeavesNewBlock(bp, k, size)
              THEN {NewNode(p, k + SIZEOF_META + size, SplitBlock(bp, k, size))} ELSE {})]
    BY <1>8 DEF k, bp
  <2>4. Takes(f, p, bp, k, size, free_list)
    BY <1>3, <1>4, <1>5, <1>6, <1>7, <2>1, <2>2, <2>3 DEF Takes, Mapped
  <2> QED
    BY <1>1, <2>4, SplitStep
<1>10. TypeOK'
  BY <1>1, <1>3, <1>9 DEF TypeOK
<1> QED
  BY <1>3, <1>9, <1>10 DEF IInv

(* xcalloc takes the memory of the biggest free block.                     *)
LEMMA BiggestStep ==
  ASSUME IInv, NEW f \in Family, NEW e \in Biggest(f), Mapped(e.page), NEW size \in Nat,
         size <= block[e.page][e.at].block_size,
         mm_split_free_data_block_for_allocation(
           f, e.page, block[e.page], e.at, size, free_list[f] \ {e}),
         UNCHANGED <<first_page, page, fault>>
  PROVE  IInv'
<1> DEFINE p == e.page
           bp == block[p]
           k == e.at
           lists == [free_list EXCEPT ![f] = @ \ {e}]
<1>1. /\ TypeOK /\ PagesWellFormed /\ AbsorbedBlocksCovered
      /\ PageListsLinked /\ NoRingOfPages
  BY DEF IInv
<1>2. /\ e \in free_list[f] /\ p \in Page /\ k \in Offset
      /\ k \in Chain(bp) /\ bp[k].is_free /\ bp[k].block_size = e.size
      /\ page[p].pg_family = f
  BY BiggestInChain
<1>3. /\ free_list \in [Family -> SUBSET Node]
      /\ lists \in [Family -> SUBSET Node]
      /\ lists[f] = free_list[f] \ {e}
      /\ \A g \in Family : g # f => lists[g] = free_list[g]
  BY <1>1 DEF TypeOK
<1>4. bp \in Blocks /\ WellFormed(bp) /\ Covered(bp)
  BY <1>1, <1>2 DEF TypeOK, PagesWellFormed, AbsorbedBlocksCovered
<1>5. \A g \in Family : \A d \in free_list[g] : Mapped(d.page) =>
        /\ block[d.page][d.at] # NULL
        /\ block[d.page][d.at].is_free
        /\ block[d.page][d.at].block_size = d.size
        /\ page[d.page].pg_family = g
  BY DEF IInv, NodesSound
<1>6. \A g \in Family : \A d \in lists[g] : d.page = p =>
        g = f /\ d.at # k /\ bp[d.at] # NULL /\ bp[d.at].is_free /\ bp[d.at].block_size = d.size
  <2> SUFFICES ASSUME NEW g \in Family, NEW d \in lists[g], d.page = p
               PROVE  g = f /\ d.at # k /\ bp[d.at] # NULL /\ bp[d.at].is_free
                      /\ bp[d.at].block_size = d.size
    OBVIOUS
  <2>1. d \in free_list[g] /\ d \in Node
    BY <1>3
  <2>2. /\ bp[d.at] # NULL /\ bp[d.at].is_free /\ bp[d.at].block_size = d.size
        /\ page[p].pg_family = g
    BY <2>1, <1>5
  <2>3. g = f
    BY <2>2, <1>2
  <2>4. d # e /\ e \in Node
    BY <2>3, <1>2, <1>3
  <2>5. d.at # k
    BY <2>1, <2>2, <2>4, <1>2 DEF Node
  <2> QED
    BY <2>2, <2>3, <2>5
<1>7. \A g \in Family : \A d \in lists[g] : d.page # p /\ Mapped(d.page) =>
        /\ block[d.page][d.at] # NULL
        /\ block[d.page][d.at].is_free
        /\ block[d.page][d.at].block_size = d.size
        /\ page[d.page].pg_family = g
  BY <1>3, <1>5
<1>8. \A o \in Chain(bp) : bp[o].is_free /\ o # k => NewNode(p, o, bp) \in lists[f]
  <2> SUFFICES ASSUME NEW o \in Chain(bp), bp[o].is_free, o # k
               PROVE  NewNode(p, o, bp) \in lists[f]
    OBVIOUS
  <2>1. NewNode(p, o, bp) \in free_list[f]
    BY <1>2 DEF IInv, FreeBlocksHaveNodes
  <2>2. NewNode(p, o, bp) # e
    BY DEF NewNode
  <2> QED
    BY <2>1, <2>2, <1>3
<1>9. \A q \in Page : q # p /\ Mapped(q) => \A o \in Chain(block[q]) :
        block[q][o].is_free => NewNode(q, o, block[q]) \in lists[page[q].pg_family]
  <2> SUFFICES ASSUME NEW q \in Page, q # p, Mapped(q),
                      NEW o \in Chain(block[q]), block[q][o].is_free
               PROVE  NewNode(q, o, block[q]) \in lists[page[q].pg_family]
    OBVIOUS
  <2>1. NewNode(q, o, block[q]) \in free_list[page[q].pg_family]
    BY DEF IInv, FreeBlocksHaveNodes
  <2>2. NewNode(q, o, block[q]) # e
    BY DEF NewNode
  <2>3. page[q].pg_family \in Family
    BY <1>1, HeaderOfMapped
  <2> QED
    BY <2>1, <2>2, <2>3, <1>3
<1>10. /\ Trampled(bp, k, size) = {}
       /\ block' = [block EXCEPT ![p] = SplitBlock(bp, k, size)]
       /\ free_list' = [lists EXCEPT ![f] = @ \cup
            (IF LeavesNewBlock(bp, k, size)
             THEN {NewNode(p, k + SIZEOF_META + size, SplitBlock(bp, k, size))} ELSE {})]
  <2> DEFINE new == IF LeavesNewBlock(bp, k, size)
                    THEN {NewNode(p, k + SIZEOF_META + size, SplitBlock(bp, k, size))} ELSE {}
  <2>1. /\ Trampled(bp, k, size) = {}
        /\ block' = [block EXCEPT ![p] = SplitBlock(bp, k, size)]
        /\ free_list' = [free_list EXCEPT ![f] = (free_list[f] \ {e}) \cup new]
    BY DEF mm_split_free_data_block_for_allocation
  <2> HIDE DEF new
  <2>2. free_list' = [lists EXCEPT ![f] = @ \cup new]
    BY <2>1, <1>3
  <2> QED
    BY <2>1, <2>2 DEF new
<1>11. /\ Mapped(p)' /\ page'[p].pg_family = f
       /\ \A q \in Page : q # p => /\ Mapped(q)' <=> Mapped(q)
                                   /\ Mapped(q) => page'[q].pg_family = page[q].pg_family
  BY <1>2 DEF Mapped
<1> HIDE DEF p, bp, k, lists
<1>12. /\ block' \in [Page -> Blocks]
       /\ free_list' \in [Family -> SUBSET Node]
       /\ PagesWellFormed' /\ NodesSound' /\ FreeBlocksHaveNodes' /\ AbsorbedBlocksCovered'
  <2>1. size <= bp[k].block_size
    BY DEF bp, k, p
  <2>2. Takes(f, p, bp, k, size, lists)
    BY <2>1, <1>2, <1>3, <1>4, <1>6, <1>7, <1>8, <1>9, <1>10, <1>11 DEF Takes, Mapped
  <2> QED
    BY <2>2, <1>1, <1>2, SplitStep
<1>13. TypeOK' /\ PageListsLinked' /\ NoRingOfPages'
  BY <1>1, <1>12 DEF TypeOK, PageListsLinked, NoRingOfPages, Mapped
<1> QED
  BY <1>12, <1>13 DEF IInv

(* xfree gives a page back to the kernel.                                  *)
LEMMA PageFreedStep ==
  ASSUME IInv, NEW p \in Page, Mapped(p), mm_vm_page_delete_and_free(p),
         UNCHANGED <<free_list, fault>>
  PROVE  IInv'
<1>1. TypeOK /\ PageListsLinked /\ NoRingOfPages
  BY DEF IInv
<1>2. /\ page' \in [Page -> Header \cup {NULL}]
      /\ first_page' \in [Family -> Page \cup {NULL}]
      /\ page'[p] = NULL
      /\ \A q \in Page : q # p => /\ page'[q] # NULL <=> page[q] # NULL
                                  /\ page[q] # NULL => page'[q].pg_family = page[q].pg_family
      /\ PageListsLinked' /\ NoRingOfPages'
  BY <1>1, DropKeepsLists DEF Mapped
<1>3. NoBlocks \in Blocks
  BY DEF NoBlocks, Blocks
<1>4. /\ block' \in [Page -> Blocks]
      /\ \A q \in Page : q # p => block'[q] = block[q]
  BY <1>1, <1>3 DEF mm_vm_page_delete_and_free, TypeOK
<1>5. TypeOK'
  BY <1>1, <1>2, <1>4 DEF TypeOK
<1>6. PagesWellFormed' /\ AbsorbedBlocksCovered'
  BY <1>2, <1>4 DEF IInv, PagesWellFormed, AbsorbedBlocksCovered, Mapped
<1>7. NodesSound'
  <2> SUFFICES ASSUME NEW f \in Family, NEW e \in free_list[f], page'[e.page] # NULL
               PROVE  /\ block'[e.page][e.at] # NULL
                      /\ block'[e.page][e.at].is_free
                      /\ block'[e.page][e.at].block_size = e.size
                      /\ page'[e.page].pg_family = f
    BY DEF NodesSound, Mapped
  <2>1. e.page \in Page /\ e.page # p
    BY <1>1, <1>2 DEF TypeOK, Node
  <2> QED
    BY <2>1, <1>2, <1>4 DEF IInv, NodesSound, Mapped
<1>8. FreeBlocksHaveNodes'
  <2> SUFFICES ASSUME NEW q \in Page, page'[q] # NULL,
                      NEW o \in Chain(block'[q]), block'[q][o].is_free
               PROVE  NewNode(q, o, block'[q]) \in free_list[page'[q].pg_family]
    BY DEF FreeBlocksHaveNodes, Mapped, NewNode
  <2>1. /\ q # p /\ block'[q] = block[q] /\ page[q] # NULL
        /\ page'[q].pg_family = page[q].pg_family
    BY <1>2, <1>4
  <2> QED
    BY <2>1 DEF IInv, FreeBlocksHaveNodes, Mapped
<1> QED
  BY <1>2, <1>5, <1>6, <1>7, <1>8 DEF IInv

(* xfree lists the freed block.  When the block before it is free, that one *)
(* is in the list already and the insertion is not well used.              *)
LEMMA BlockFreedStep ==
  ASSUME IInv, NEW p \in Page, NEW k \in Offset, Allocated(p, k),
         ~Listed(p, ReturnBlock(block[p], k)),
         AddFreeBlock(page[p].pg_family,
                      NewNode(p, ReturnBlock(block[p], k), FreeBlock(block[p], k))),
         block' = [block EXCEPT ![p] = FreeBlock(block[p], k)],
         UNCHANGED <<first_page, page, fault>>
  PROVE  IInv'
<1> DEFINE bp == block[p]
           f  == page[p].pg_family
           r  == ReleaseBlock(bp, k)
           e  == NewNode(p, k, r)
<1>1. /\ TypeOK /\ PagesWellFormed /\ AbsorbedBlocksCovered
      /\ Mapped(p) /\ bp \in Blocks /\ WellFormed(bp) /\ Covered(bp)
      /\ k \in Chain(bp) /\ ~bp[k].is_free /\ f \in Family
  BY HeaderOfMapped
  DEF IInv, TypeOK, PagesWellFormed, AbsorbedBlocksCovered, Allocated, Chain
<1>2. ~FreePrev(bp, k)
  <2> SUFFICES ASSUME FreePrev(bp, k) PROVE FALSE
    OBVIOUS
  <2> DEFINE o == bp[k].prev_block
  <2>1. o \in Chain(bp) /\ bp[o].is_free /\ o \in Offset
    BY <1>1 DEF FreePrev, WellFormed, Linked, Chain
  <2>2. NewNode(p, o, bp) \in free_list[f]
    BY <1>1, <2>1 DEF IInv, FreeBlocksHaveNodes
  <2>3. Listed(p, o)
    BY <1>1, <2>2 DEF Listed, NewNode
  <2> QED
    BY <2>3 DEF ReturnBlock
<1>3. /\ block' = [block EXCEPT ![p] = r]
      /\ free_list' = [free_list EXCEPT ![f] = @ \cup {e}]
  BY <1>2 DEF FreeBlock, ReturnBlock, AddFreeBlock
<1>4. /\ r \in Blocks /\ WellFormed(r) /\ Covered(r)
      /\ k \in Chain(r) /\ r[k].is_free
      /\ \A o \in Offset : bp[o] # NULL /\ bp[o].is_free =>
           r[o] # NULL /\ r[o].is_free /\ r[o].block_size = bp[o].block_size
      /\ \A o \in Chain(r) : r[o].is_free /\ o # k =>
           /\ o \in Chain(bp) /\ bp[o].is_free
           /\ r[o].block_size = bp[o].block_size
  BY <1>1, <1>2, ReleasePage
<1> HIDE DEF r, f, bp
<1>5. e \in Node /\ r[k] # NULL
  BY <1>4, ChainBlock DEF NewNode, Node, Chain, InChain
<1> HIDE DEF e
<1>6. /\ block' \in [Page -> Blocks]
      /\ block'[p] = r
      /\ \A q \in Page : q # p => block'[q] = block[q]
      /\ free_list' \in [Family -> SUBSET Node]
      /\ free_list'[f] = free_list[f] \cup {e}
      /\ \A g \in Family : g # f => free_list'[g] = free_list[g]
  BY <1>1, <1>3, <1>4, <1>5 DEF TypeOK
<1>7. TypeOK' /\ PageListsLinked' /\ NoRingOfPages'
  BY <1>6 DEF IInv, TypeOK, PageListsLinked, NoRingOfPages, Mapped
<1>8. PagesWellFormed' /\ AbsorbedBlocksCovered'
  BY <1>1, <1>4, <1>6 DEF PagesWellFormed, AbsorbedBlocksCovered, Mapped
<1>9. NodesSound'
  <2> SUFFICES ASSUME NEW g \in Family, NEW d \in free_list'[g], page[d.page] # NULL
               PROVE  /\ block'[d.page][d.at] # NULL
                      /\ block'[d.page][d.at].is_free
                      /\ block'[d.page][d.at].block_size = d.size
                      /\ page[d.page].pg_family = g
    BY DEF NodesSound, Mapped
  <2>1. d.page \in Page /\ d.at \in Offset
    BY <1>6 DEF Node
  <2>2. CASE d \in free_list[g]
    <3>1. /\ block[d.page][d.at] # NULL
          /\ block[d.page][d.at].is_free
          /\ block[d.page][d.at].block_size = d.size
          /\ page[d.page].pg_family = g
      BY <2>2 DEF IInv, NodesSound, Mapped
    <3>2. CASE d.page = p
      BY <2>1, <3>1, <3>2, <1>4, <1>6 DEF bp
    <3>3. CASE d.page # p
      BY <2>1, <3>1, <3>3, <1>6
    <3> QED
      BY <3>2, <3>3
  <2>3. CASE d \notin free_list[g]
    <3>1. g = f /\ d = e
      BY <2>3, <1>6
    <3>2. d.page = p /\ d.at = k /\ d.size = r[k].block_size
      BY <3>1 DEF e, NewNode
    <3> QED
      BY <3>1, <3>2, <1>4, <1>5, <1>6 DEF f
  <2> QED
    BY <2>2, <2>3
<1>10. FreeBlocksHaveNodes'
  <2> SUFFICES ASSUME NEW q \in Page, page[q] # NULL,
                      NEW o \in Chain(block'[q]), block'[q][o].is_free
               PROVE  NewNode(q, o, block'[q]) \in free_list'[page[q].pg_family]
    BY DEF FreeBlocksHaveNodes, Mapped, NewNode
  <2>0. page[q].pg_family \in Family
    BY <1>1, HeaderOfMapped DEF Mapped
  <2>1. CASE q # p
    BY <2>0, <2>1, <1>6 DEF IInv, FreeBlocksHaveNodes, Mapped
  <2>2. CASE q = p /\ o = k
    BY <2>2, <1>6 DEF e, f
  <2>3. CASE q = p /\ o # k
    <3>1. o \in Chain(bp) /\ bp[o].is_free /\ r[o].block_size = bp[o].block_size
      BY <2>3, <1>4, <1>6
    <3>2. NewNode(p, o, bp) \in free_list[f] /\ NewNode(p, o, r) = NewNode(p, o, bp)
      BY <3>1, <1>1 DEF IInv, FreeBlocksHaveNodes, bp, f, NewNode
    <3> QED
      BY <2>3, <3>2, <1>6 DEF f
  <2> QED
    BY <2>1, <2>2, <2>3
<1> QED
  BY <1>7, <1>8, <1>9, <1>10 DEF IInv

-----------------------------------------------------------------------------
(* The actions.                                                            *)

(* A call that ends the program leaves the memory as it was.               *)
LEMMA CrashKeepsIInv ==
  ASSUME IInv, NEW kind \in Faults, Crash(kind)
  PROVE  IInv'
  BY NothingChanges DEF Crash

(* The faults of a split are faults of the program.                        *)
LEMMA SplitFaultsAreFaults ==
  ASSUME NEW bp, NEW k, NEW size, NEW nodes
  PROVE  SplitFaults(bp, k, size, nodes) \subseteq Faults
  BY DEF SplitFaults, Faults

(* xcalloc that asks the kernel for a page, however that ends.             *)
LEMMA NewPageKeepsIInv ==
  ASSUME IInv, NEW f \in Family, NEW size \in Nat,
         size <= mm_max_page_allocatable_memory, XcallocNewPage(f, size)
  PROVE  IInv'
<1>1. CASE Crash("null_page")
  BY <1>1, CrashKeepsIInv DEF Faults
<1>2. CASE \E p \in Page : ~Mapped(p) /\ (\E k \in Offset : Listed(p, k)) /\ Crash("clobbered")
  BY <1>2, CrashKeepsIInv DEF Faults
<1>3. CASE \E kind \in SplitFaults(EmptyPage, OFFSET_META, size, free_list[f]) : Crash(kind)
  BY <1>3, CrashKeepsIInv, SplitFaultsAreFaults
<1>4. CASE \E p \in Page :
             /\ ~Mapped(p)
             /\ \A k \in Offset : ~Listed(p, k)
             /\ mm_split_free_data_block_for_allocation(
                  f, p, EmptyPage, OFFSET_META, size, free_list[f])
             /\ page' = PushPage(f, p)
             /\ first_page' = [first_page EXCEPT ![f] = p]
             /\ UNCHANGED fault
  BY <1>4, NewPageStep
<1> QED
  BY <1>1, <1>2, <1>3, <1>4 DEF XcallocNewPage

(* xcalloc, from the new page, from the biggest free block, or failing.    *)
LEMMA XcallocKeepsIInv ==
  ASSUME IInv, NEW f \in Family, NEW n \in Units, xcalloc(f, n)
  PROVE  IInv'
<1> DEFINE size == Request(f, n)
<1>1. size \in Nat /\ size <= mm_max_page_allocatable_memory
  BY RequestIsNat DEF xcalloc
<1> HIDE DEF size
<1>2. CASE XcallocNewPage(f, size)
  BY <1>1, <1>2, NewPageKeepsIInv
<1>3. CASE \E e \in Biggest(f) : Crash("unmapped")
  BY <1>3, CrashKeepsIInv DEF Faults
<1>4. CASE \E e \in Biggest(f) :
             /\ Mapped(e.page)
             /\ ~(block[e.page][e.at].block_size < size)
             /\ XcallocBiggest(f, e, size)
  <2>1. PICK e \in Biggest(f) : /\ Mapped(e.page)
                                /\ ~(block[e.page][e.at].block_size < size)
                                /\ XcallocBiggest(f, e, size)
    BY <1>4
  <2>2. size <= block[e.page][e.at].block_size
    <3>1. e \in free_list[f] /\ e \in Node /\ block[e.page][e.at].block_size = e.size
      BY <2>1, BiggestInChain DEF IInv, TypeOK
    <3> QED
      BY <2>1, <3>1, <1>1 DEF Node
  <2>3. CASE \E kind \in SplitFaults(block[e.page], e.at, size, free_list[f] \ {e}) : Crash(kind)
    BY <2>3, CrashKeepsIInv, SplitFaultsAreFaults
  <2>4. CASE /\ mm_split_free_data_block_for_allocation(
                  f, e.page, block[e.page], e.at, size, free_list[f] \ {e})
             /\ UNCHANGED <<first_page, page, fault>>
    BY <2>1, <2>2, <2>4, <1>1, BiggestStep
  <2> QED
    BY <2>1, <2>3, <2>4 DEF XcallocBiggest
<1> QED
  BY <1>2, <1>3, <1>4 DEF xcalloc, size

(* xfree: the page is unmapped, the block is listed, or the program ends.  *)
LEMMA XfreeKeepsIInv ==
  ASSUME IInv, NEW p \in Page, NEW k \in Offset, xfree(p, k)
  PROVE  IInv'
<1>1. Allocated(p, k) /\ Mapped(p)
  BY DEF xfree, Allocated
<1>2. CASE mm_vm_page_delete_and_free(p) /\ UNCHANGED <<free_list, fault>>
  BY <1>1, <1>2, PageFreedStep
<1>3. CASE Crash("relinked") \/ Crash("unmapped")
  BY <1>3, CrashKeepsIInv DEF Faults
<1>4. CASE /\ ~Listed(p, ReturnBlock(block[p], k))
           /\ AddFreeBlock(page[p].pg_family,
                           NewNode(p, ReturnBlock(block[p], k), FreeBlock(block[p], k)))
           /\ block' = [block EXCEPT ![p] = FreeBlock(block[p], k)]
           /\ UNCHANGED <<first_page, page, fault>>
  BY <1>1, <1>4, BlockFreedStep
<1> QED
  BY <1>2, <1>3, <1>4 DEF xfree, NewNode

(* Nothing is mapped or listed before the first call.                      *)
LEMMA InitIInv == Init => IInv
<1> SUFFICES ASSUME Init PROVE IInv
  OBVIOUS
<1>1. NoBlocks \in Blocks
  BY DEF NoBlocks, Blocks
<1>2. TypeOK
  BY <1>1 DEF Init, TypeOK, Faults
<1> QED
  BY <1>2, FamilyAssumption
  DEF Init, IInv, PagesWellFormed, NodesSound, FreeBlocksHaveNodes,
      AbsorbedBlocksCovered, PageListsLinked, NoRingOfPages, Mapped

(* Every call keeps IInv.                                                  *)
LEMMA NextKeepsIInv == IInv /\ [Next]_vars => IInv'
<1> SUFFICES ASSUME IInv, [Next]_vars PROVE IInv'
  OBVIOUS
<1>1. CASE \E f \in Family, n \in Units : xcalloc(f, n)
  BY <1>1, XcallocKeepsIInv
<1>2. CASE \E p \in Page, k \in Offset : xfree(p, k)
  BY <1>2, XfreeKeepsIInv
<1>3. CASE UNCHANGED vars
  BY <1>3, NothingChanges DEF vars, IInv, TypeOK
<1>4. CASE \E f \in Family, n \in Units : xcalloc_refused(f, n)
  BY <1>4, <1>3 DEF xcalloc_refused
<1> QED
  BY <1>1, <1>2, <1>3, <1>4 DEF Next

(* IInv holds initially, and every step keeps it.                          *)
THEOREM Invariance == Spec => []IInv
  BY InitIInv, NextKeepsIInv, PTL DEF Spec

-----------------------------------------------------------------------------
(* What follows from it.                                                   *)

(* Every variable keeps its type.                                          *)
THEOREM TypeCorrect == Spec => []TypeOK
<1>1. IInv => TypeOK
  BY DEF IInv
<1> QED
  BY <1>1, Invariance, PTL

(* The blocks of a page cover it without overlap, in any history of splits *)
(* and merges.                                                             *)
THEOREM Tiling == Spec => []PagesTiled
<1>1. IInv => PagesTiled
  BY DEF IInv, PagesWellFormed, WellFormed, PagesTiled
<1> QED
  BY <1>1, Invariance, PTL

(* Every block finds the page it is in.                                    *)
THEOREM Locating == Spec => []BlocksFindTheirPage
<1>1. IInv => BlocksFindTheirPage
  BY DEF IInv, PagesWellFormed, WellFormed, BlocksFindTheirPage
<1> QED
  BY <1>1, Invariance, PTL

(* No two neighbouring blocks are both free.                               *)
THEOREM Coalescing == Spec => []FreeBlocksCoalesced
<1>1. IInv => FreeBlocksCoalesced
  BY DEF IInv, PagesWellFormed, WellFormed, FreeBlocksCoalesced
<1> QED
  BY <1>1, Invariance, PTL

(* A block of a mapped page is in the free list of its family exactly if   *)
(* it is free, once and at its true size.                                  *)
THEOREM Listing == Spec => []FreeBlocksListed
<1>1. IInv => FreeBlocksListed
  <2> SUFFICES ASSUME IInv, NEW p \in Page, Mapped(p), NEW k \in Chain(block[p]),
                      NEW f \in Family
               PROVE  {e \in free_list[f] : e.page = p /\ e.at = k} =
                        IF block[p][k].is_free /\ f = page[p].pg_family
                        THEN {[page |-> p, at |-> k, size |-> block[p][k].block_size]} ELSE {}
    BY DEF FreeBlocksListed
  <2> DEFINE node == [page |-> p, at |-> k, size |-> block[p][k].block_size]
  <2>1. ASSUME NEW e \in free_list[f], e.page = p, e.at = k
        PROVE  block[p][k].is_free /\ f = page[p].pg_family /\ e = node
    <3>1. /\ block[p][k].is_free /\ block[p][k].block_size = e.size
          /\ page[p].pg_family = f
      BY <2>1 DEF IInv, NodesSound
    <3>2. e \in Node
      BY DEF IInv, TypeOK
    <3> QED
      BY <2>1, <3>1, <3>2 DEF Node
  <2>2. block[p][k].is_free /\ f = page[p].pg_family => node \in free_list[f]
    BY DEF IInv, FreeBlocksHaveNodes, NewNode
  <2> QED
    BY <2>1, <2>2
<1> QED
  BY <1>1, Invariance, PTL

(* xcalloc never splits a block that is a part of another one.             *)
THEOREM BiggestInItsChain == Spec => []BiggestIsInChain
<1>1. IInv => BiggestIsInChain
  BY BiggestInChain DEF BiggestIsInChain, Chain
<1> QED
  BY <1>1, Invariance, PTL

-----------------------------------------------------------------------------
(* The page lists, from their heads *)

(* Induction on the members of a set of natural numbers.                   *)
LEMMA InductiveSet ==
  ASSUME NEW S \in SUBSET Nat, 0 \in S, \A n \in S : n + 1 \in S
  PROVE  \A n \in Nat : n \in S
<1> DEFINE R == OpToRel(<, Nat)
           T == Nat \ S
<1> SUFFICES ASSUME T # {} PROVE FALSE
  OBVIOUS
<1>1. IsWellFoundedOn(R, Nat)
  BY NatLessThanWellFounded
<1>2. PICK n \in T : \A m \in T : ~(<<m, n>> \in R)
  <2> HIDE DEF R
  <2> QED
    BY <1>1, WFMin
<1>3. \A m \in T : ~(m < n)
  BY <1>2 DEF OpToRel
<1>4. n # 0 /\ n - 1 \in Nat /\ n - 1 < n
  OBVIOUS
<1>5. n - 1 \in S
  BY <1>3, <1>4
<1>6. n - 1 + 1 = n
  OBVIOUS
<1> QED
  BY <1>5, <1>6

Iterable(U, A, s) == A \in SUBSET U /\ s \in [SUBSET U -> SUBSET U]

Iteration(U, A, s, g) ==
  /\ g \in [Nat -> SUBSET U]
  /\ g[0] = A
  /\ \A n \in Nat : g[n + 1] = s[g[n]]

(* A function on sets can be iterated: a recursive definition has a value. *)
LEMMA Iterates ==
  ASSUME NEW U, NEW A, NEW s, Iterable(U, A, s)
  PROVE  \E g : Iteration(U, A, s, g)
<1>0. A \in SUBSET U /\ s \in [SUBSET U -> SUBSET U]
  BY DEF Iterable
<1> DEFINE Begins(n, h) == /\ h \in [0 .. n -> SUBSET U] /\ h[0] = A
                           /\ \A i \in 1 .. n : h[i] = s[h[i - 1]]
           Some == {n \in Nat : \E h : Begins(n, h)}
<1>1. ASSUME NEW n \in Nat PROVE \E h : Begins(n, h)
  <2>1. 0 \in Some
    <3>1. Begins(0, [i \in 0 .. 0 |-> A])
      BY <1>0
    <3> QED
      BY <3>1
  <2>2. ASSUME NEW m \in Some PROVE m + 1 \in Some
    <3>1. PICK h : Begins(m, h)
      OBVIOUS
    <3> DEFINE k == [i \in 0 .. m + 1 |-> IF i = m + 1 THEN s[h[m]] ELSE h[i]]
    <3>2. m \in Nat /\ m \in 0 .. m /\ h[m] \in SUBSET U
      BY <3>1
    <3>3. s[h[m]] \in SUBSET U
      BY <1>0, <3>2
    <3>4. \A i \in 0 .. m : i \in 0 .. m + 1 /\ i # m + 1 /\ k[i] = h[i] /\ h[i] \in SUBSET U
      BY <3>1, <3>2
    <3>5. m + 1 \in 0 .. m + 1 /\ k[m + 1] = s[h[m]]
      BY <3>2
    <3>6. \A i \in 0 .. m + 1 : i = m + 1 \/ i \in 0 .. m
      BY <3>2
    <3>7. k \in [0 .. m + 1 -> SUBSET U]
      BY <3>3, <3>4, <3>6
    <3> HIDE DEF k
    <3>8. k[0] = A
      BY <3>1, <3>2, <3>4
    <3>9. ASSUME NEW i \in 1 .. m + 1 PROVE k[i] = s[k[i - 1]]
      <4>1. CASE i = m + 1
        <5>1. i - 1 = m
          BY <3>2, <4>1
        <5> QED
          BY <3>2, <3>4, <3>5, <4>1, <5>1
      <4>2. CASE i # m + 1
        <5>1. i \in 1 .. m /\ i \in 0 .. m /\ i - 1 \in 0 .. m
          BY <3>2, <4>2
        <5> QED
          BY <3>1, <3>4, <5>1
      <4> QED
        BY <4>1, <4>2
    <3>10. Begins(m + 1, k)
      BY <3>7, <3>8, <3>9
    <3> QED
      BY <3>2, <3>10
  <2>3. Some \in SUBSET Nat
    OBVIOUS
  <2> HIDE DEF Some
  <2>4. n \in Some
    BY <2>1, <2>2, <2>3, InductiveSet
  <2> QED
    BY <2>4 DEF Some
<1>2. ASSUME NEW n \in Nat, NEW h, NEW k, Begins(n, h), Begins(n + 1, k)
      PROVE  k[n] = h[n]
  <2> DEFINE Same == {i \in Nat : i <= n => k[i] = h[i]}
  <2>1. 0 \in Same
    BY <1>2
  <2>2. ASSUME NEW i \in Same PROVE i + 1 \in Same
    <3> SUFFICES ASSUME i + 1 <= n PROVE k[i + 1] = h[i + 1]
      OBVIOUS
    <3>1. i + 1 \in 1 .. n /\ i + 1 \in 1 .. n + 1 /\ (i + 1) - 1 = i
      OBVIOUS
    <3>2. k[i] = h[i]
      OBVIOUS
    <3> QED
      BY <1>2, <3>1, <3>2
  <2>3. Same \in SUBSET Nat
    OBVIOUS
  <2> HIDE DEF Same
  <2>4. n \in Same
    BY <2>1, <2>2, <2>3, InductiveSet
  <2> QED
    BY <2>4 DEF Same
<1> DEFINE H(n) == CHOOSE h : Begins(n, h)
           g    == [n \in Nat |-> H(n)[n]]
<1>3. ASSUME NEW n \in Nat PROVE Begins(n, H(n))
  BY <1>1
<1> HIDE DEF H
<1>4. g \in [Nat -> SUBSET U]
  BY <1>3
<1>5. g[0] = A
  BY <1>3
<1>6. ASSUME NEW n \in Nat PROVE g[n + 1] = s[g[n]]
  <2>1. n + 1 \in Nat /\ n + 1 \in 1 .. n + 1 /\ (n + 1) - 1 = n
    OBVIOUS
  <2>2. H(n + 1)[n + 1] = s[H(n + 1)[n]]
    BY <1>3, <2>1
  <2>3. H(n + 1)[n] = H(n)[n]
    BY <1>2, <1>3, <2>1
  <2> QED
    BY <2>1, <2>2, <2>3
<1> QED
  BY <1>4, <1>5, <1>6 DEF Iteration

(* Growing subsets of a finite set, which stop growing once they have      *)
(* stopped, have stopped after as many steps as the set has members.       *)
LEMMA GrowthStops ==
  ASSUME NEW U, IsFiniteSet(U), NEW g \in [Nat -> SUBSET U],
         \A n \in Nat : g[n] \subseteq g[n + 1],
         \A n \in Nat : g[n + 1] = g[n] => g[n + 2] = g[n + 1]
  PROVE  /\ Cardinality(U) \in Nat
         /\ g[Cardinality(U) + 1] = g[Cardinality(U)]
<1> DEFINE N == Cardinality(U)
           C(n) == Cardinality(g[n])
<1>1. /\ N \in Nat
      /\ \A n \in Nat : IsFiniteSet(g[n]) /\ C(n) \in Nat /\ (C(n) >= N => g[n] = U)
  <2>1. N \in Nat
    BY FS_CardinalityType
  <2>2. ASSUME NEW n \in Nat
        PROVE  IsFiniteSet(g[n]) /\ C(n) \in Nat /\ (C(n) >= N => g[n] = U)
    <3>1. IsFiniteSet(g[n]) /\ C(n) <= N /\ (N = C(n) => U = g[n])
      BY FS_Subset
    <3>2. C(n) \in Nat
      BY <3>1, FS_CardinalityType
    <3> HIDE DEF N, C
    <3> QED
      BY <2>1, <3>1, <3>2
  <2> QED
    BY <2>1, <2>2
<1> DEFINE S == {n \in Nat : C(n) >= n \/ g[n + 1] = g[n]}
<1>2. 0 \in S
  BY <1>1
<1>3. ASSUME NEW n \in S PROVE n + 1 \in S
  <2>1. n \in Nat /\ n + 1 \in Nat /\ (n + 1) + 1 = n + 2
    OBVIOUS
  <2>2. CASE g[n + 1] = g[n]
    BY <2>1, <2>2
  <2>3. CASE g[n + 1] # g[n] /\ C(n) >= n
    <3>1. g[n] \in SUBSET g[n + 1] /\ IsFiniteSet(g[n + 1])
      BY <1>1, <2>1
    <3>2. C(n) <= C(n + 1) /\ C(n) # C(n + 1)
      BY <2>3, <3>1, FS_Subset
    <3>3. C(n) \in Nat /\ C(n + 1) \in Nat
      BY <1>1, <2>1
    <3> HIDE DEF C
    <3>4. C(n + 1) >= n + 1
      BY <2>1, <2>3, <3>2, <3>3
    <3> QED
      BY <2>1, <3>4
  <2> QED
    BY <2>2, <2>3
<1>4. S \in SUBSET Nat
  OBVIOUS
<1>5. N \in S
  <2> HIDE DEF S
  <2> QED
    BY <1>1, <1>2, <1>3, <1>4, InductiveSet
<1>6. CASE g[N + 1] = g[N]
  BY <1>1, <1>6
<1>7. CASE C(N) >= N
  <2>1. g[N] = U /\ g[N + 1] \in SUBSET U /\ g[N] \subseteq g[N + 1]
    BY <1>1, <1>7
  <2> QED
    BY <1>1, <2>1
<1> QED
  BY <1>5, <1>6, <1>7

(* One more step along next, of the pages that have been reached.          *)
NextPages(S) == S \cup ({page[p].next : p \in {q \in S : Mapped(q)}} \ {NULL})

(* PagesOf iterates that, beginning with first_page.                       *)
LEMMA PagesByIteration ==
  ASSUME TypeOK, NEW f \in Family
  PROVE  \E g \in [Nat -> SUBSET Page] :
           /\ g[0] = {first_page[f]} \ {NULL}
           /\ \A n \in Nat : g[n + 1] = NextPages(g[n])
           /\ PagesOf(f) = g[Cardinality(Page)]
<1> DEFINE A == {first_page[f]} \ {NULL}
           body(g, n) == IF n = 0 THEN {first_page[f]} \ {NULL}
                         ELSE LET mapped == {p \in g[n - 1] : Mapped(p)}
                              IN  g[n - 1] \cup ({page[p].next : p \in mapped} \ {NULL})
           reach == CHOOSE g : g = [n \in Nat |-> body(g, n)]
           s == [S \in SUBSET Page |-> NextPages(S)]
<1>1. PagesOf(f) = reach[Cardinality(Page)]
  BY DEF PagesOf
<1>2. A \in SUBSET Page
  BY DEF TypeOK
<1>3. ASSUME NEW S \in SUBSET Page PROVE NextPages(S) \in SUBSET Page
  BY HeaderOfMapped DEF NextPages
<1>4. \A g, n : n # 0 => body(g, n) = NextPages(g[n - 1])
  BY DEF NextPages
<1>5. \A g : body(g, 0) = A
  OBVIOUS
<1> HIDE DEF body, A
<1>6. \E g : g = [n \in Nat |-> body(g, n)]
  <2>1. s \in [SUBSET Page -> SUBSET Page]
    BY <1>3
  <2> HIDE DEF s, reach
  <2>2. PICK g : Iteration(Page, A, s, g)
    <3>1. Iterable(Page, A, s)
      BY <1>2, <2>1 DEF Iterable
    <3> QED
      BY <3>1, Iterates
  <2>6. g \in [Nat -> SUBSET Page] /\ g[0] = A /\ \A n \in Nat : g[n + 1] = s[g[n]]
    BY <2>2 DEF Iteration
  <2>3. ASSUME NEW n \in Nat PROVE g[n] = body(g, n)
    <3>1. CASE n = 0
      BY <2>6, <3>1, <1>5
    <3>2. CASE n # 0
      <4>1. n - 1 \in Nat /\ (n - 1) + 1 = n
        BY <3>2
      <4>2. g[n] = s[g[n - 1]] /\ g[n - 1] \in SUBSET Page
        BY <2>6, <4>1
      <4> QED
        BY <1>4, <3>2, <4>2 DEF s
    <3> QED
      BY <3>1, <3>2
  <2>4. g = [n \in Nat |-> g[n]]
    BY <2>6
  <2>5. g = [n \in Nat |-> body(g, n)]
    BY <2>3, <2>4
  <2> QED
    BY <2>5
<1>7. reach = [n \in Nat |-> body(reach, n)]
  BY <1>6
<1> HIDE DEF reach
<1>8. reach[0] = A
  BY <1>5, <1>7
<1>9. ASSUME NEW n \in Nat PROVE reach[n + 1] = NextPages(reach[n])
  <2>1. n + 1 \in Nat /\ n + 1 # 0 /\ (n + 1) - 1 = n
    OBVIOUS
  <2> QED
    BY <1>4, <1>7, <2>1
<1>10. reach \in [Nat -> SUBSET Page]
  <2> DEFINE S == {n \in Nat : reach[n] \in SUBSET Page}
  <2>1. 0 \in S
    BY <1>2, <1>8
  <2>2. \A n \in S : n + 1 \in S
    BY <1>3, <1>9
  <2>3. \A n \in Nat : n \in S
    <3> HIDE DEF S
    <3>1. S \in SUBSET Nat
      BY DEF S
    <3> QED
      BY <2>1, <2>2, <3>1, InductiveSet
  <2>4. reach = [n \in Nat |-> reach[n]]
    BY <1>7
  <2> QED
    BY <2>3, <2>4
<1> QED
  BY <1>1, <1>8, <1>9, <1>10 DEF A

(* From the head of a family's list one comes to all of its pages, and to  *)
(* no other.                                                               *)
LEMMA ListReachesPages ==
  ASSUME IInv, IsFiniteSet(Page), NEW f \in Family
  PROVE  PagesOf(f) = {p \in Page : Mapped(p) /\ page[p].pg_family = f}
<1> DEFINE F == {p \in Page : Mapped(p) /\ page[p].pg_family = f}
           N == Cardinality(Page)
<1>1. PICK g \in [Nat -> SUBSET Page] :
        /\ g[0] = {first_page[f]} \ {NULL}
        /\ \A n \in Nat : g[n + 1] = NextPages(g[n])
        /\ PagesOf(f) = g[N]
  BY PagesByIteration DEF IInv
<1>2. /\ \A n \in Nat : g[n] \subseteq g[n + 1]
      /\ \A n \in Nat : g[n + 1] = g[n] => g[n + 2] = g[n + 1]
  <2>1. ASSUME NEW n \in Nat, g[n + 1] = g[n] PROVE g[n + 2] = g[n + 1]
    <3>1. n + 1 \in Nat /\ (n + 1) + 1 = n + 2
      OBVIOUS
    <3>2. g[n + 2] = NextPages(g[n + 1]) /\ g[n + 1] = NextPages(g[n])
      BY <1>1, <3>1
    <3> QED
      BY <2>1, <3>2
  <2> QED
    BY <1>1, <2>1 DEF NextPages
<1>3. N \in Nat /\ g[N + 1] = g[N]
  BY <1>2, GrowthStops
<1> HIDE DEF N
<1>4. \A n \in Nat : g[n] \subseteq F
  <2> DEFINE S == {n \in Nat : g[n] \subseteq F}
  <2>1. 0 \in S
    BY <1>1 DEF IInv, TypeOK, PageListsLinked
  <2>2. ASSUME NEW n \in S PROVE n + 1 \in S
    <3>1. n \in Nat /\ n + 1 \in Nat /\ g[n] \subseteq F /\ g[n + 1] = NextPages(g[n])
      BY <1>1
    <3>2. ASSUME NEW p \in F, page[p].next # NULL PROVE page[p].next \in F
      BY <3>2, HeaderOfMapped DEF IInv, PageListsLinked
    <3> QED
      BY <3>1, <3>2 DEF NextPages
  <2>3. S \in SUBSET Nat
    OBVIOUS
  <2> HIDE DEF S
  <2>4. \A n \in Nat : n \in S
    BY <2>1, <2>2, <2>3, InductiveSet
  <2> QED
    BY <2>4 DEF S
<1>5. first_page[f] # NULL => first_page[f] \in g[N]
  <2> DEFINE S == {n \in Nat : first_page[f] # NULL => first_page[f] \in g[n]}
  <2>1. 0 \in S
    BY <1>1
  <2>2. \A n \in S : n + 1 \in S
    BY <1>2
  <2>3. S \in SUBSET Nat
    OBVIOUS
  <2> HIDE DEF S
  <2>4. N \in S
    BY <1>3, <2>1, <2>2, <2>3, InductiveSet
  <2> QED
    BY <2>4 DEF S
<1>6. F \subseteq g[N]
  <2> DEFINE T == F \ g[N]
  <2> SUFFICES ASSUME T # {} PROVE FALSE
    OBVIOUS
  <2>1. T \in SUBSET {p \in Page : Mapped(p)}
    OBVIOUS
  <2>2. PICK p \in T : page[p].prev \notin T
    <3> HIDE DEF T
    <3> QED
      BY <2>1 DEF IInv, NoRingOfPages
  <2>3. p \in Page /\ Mapped(p) /\ page[p].pg_family = f /\ p \notin g[N] /\ p # NULL
    BY FamilyAssumption
  <2>4. CASE page[p].prev = NULL
    <3>1. first_page[f] = p
      BY <2>3, <2>4 DEF IInv, PageListsLinked
    <3> QED
      BY <1>5, <2>3, <3>1
  <2>5. CASE page[p].prev # NULL
    <3> DEFINE r == page[p].prev
    <3>1. r \in Page /\ Mapped(r) /\ page[r].next = p /\ page[r].pg_family = f
      BY <2>3, <2>5, HeaderOfMapped DEF IInv, PageListsLinked
    <3>2. r \in g[N]
      BY <2>2, <3>1
    <3>3. p \in NextPages(g[N])
      BY <2>3, <3>1, <3>2 DEF NextPages
    <3> QED
      BY <1>1, <1>3, <2>3, <3>3
  <2> QED
    BY <2>4, <2>5
<1> QED
  BY <1>1, <1>3, <1>4, <1>6

(* The page lists partition the mapped pages by family and are linked both *)
(* ways: no page is lost or shared when one is returned from the middle or *)
(* the head of a list.  Page addresses are finitely many.                  *)
THEOREM PageLists == IsFiniteSet(Page) => (Spec => []PageListsIntact)
<1> SUFFICES ASSUME IsFiniteSet(Page) PROVE Spec => []PageListsIntact
  OBVIOUS
<1>1. IInv => PageListsIntact
  <2> SUFFICES ASSUME IInv PROVE PageListsIntact
    OBVIOUS
  <2>1. \A f \in Family : PagesOf(f) = {p \in Page : Mapped(p) /\ page[p].pg_family = f}
    BY ListReachesPages
  <2>2. \A p \in Page : Mapped(p) =>
          /\ LET next == page[p].next IN next # NULL => Mapped(next) /\ page[next].prev = p
          /\ LET prev == page[p].prev IN
               IF prev = NULL THEN first_page[page[p].pg_family] = p
               ELSE Mapped(prev) /\ page[prev].next = p
    BY DEF IInv, PageListsLinked
  <2> QED
    BY <2>1, <2>2 DEF PageListsIntact
<1> QED
  BY <1>1, Invariance, PTL

==============================================================================
