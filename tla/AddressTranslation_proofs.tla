---------------------- MODULE AddressTranslation_proofs ----------------------
(***************************************************************************)
(* Proofs about AddressTranslation, for every number of pages, frames, TLB *)
(* entries and bytes in a page, and every file of addresses.               *)
(***************************************************************************)
EXTENDS AddressTranslation, FiniteSetTheorems, TLAPS

-----------------------------------------------------------------------------
(* The inductive invariant *)

LoadedPages == {p \in VirtualPage : Valid(p)}

FrameOf(p) == page_table[p].frame_number

(* A frame has been charged exactly if a page has it, so the least used    *)
(* frame is a free one as long as there is one.                            *)
UsedFramesCharged ==
  \A f \in Frame : memory_access_times[f] = 0 <=> \A p \in LoadedPages : FrameOf(p) # f

(* An empty entry looks older than any other to the TLB's replacement.     *)
EmptyEntriesOldest ==
  \A i \in TlbIndex : tlb[i].virtual_page_number = -1 <=> tlb[i].last_accessed_time = 0

(* The page of an address that main has translated is still loaded, and    *)
(* where it was.                                                           *)
OutputStands ==
  \A r \in output : InSpace(r[1]) =>
    /\ Quot(r[1]) \in LoadedPages
    /\ r[2] = FrameOf(Quot(r[1])) * PAGE_SIZE + Rem(r[1])

StraysOutsideSpace ==
  pc = "out_of_bounds" => references = 0 \/ \E r \in output : ~InSpace(r[1])

AInv ==
  /\ TypeOK
  /\ FramesExclusive
  /\ UsedFramesCharged
  /\ TlbCoherent
  /\ EmptyEntriesOldest
  /\ OneFaultPerPage
  /\ RatiosAddUp
  /\ OutputStands
  /\ StraysOutsideSpace

-----------------------------------------------------------------------------
(* Numbers *)

(* A set of naturals has a least member.                                   *)
LEMMA LeastNatural ==
  ASSUME NEW S \in SUBSET Nat, S # {}
  PROVE  \E n \in S : \A m \in S : n <= m
<1> DEFINE R == OpToRel(<, Nat)
<1>1. IsWellFoundedOn(R, Nat)
  BY NatLessThanWellFounded
<1>2. PICK n \in S : \A m \in S : ~(<<m, n>> \in R)
  <2> HIDE DEF R
  <2> QED
    BY <1>1, WFMin
<1>3. \A m \in S : ~(m < n)
  BY <1>2 DEF OpToRel
<1> QED
  BY <1>3

(* Of some indices with keys, one is the first of those whose key is least. *)
LEMMA FirstOfLeast ==
  ASSUME NEW S \in SUBSET Nat, S # {}, NEW key \in [S -> Nat]
  PROVE  \E i \in S : \A j \in S : key[i] < key[j] \/ (key[i] = key[j] /\ i <= j)
<1>1. PICK k \in {key[i] : i \in S} : \A m \in {key[i] : i \in S} : k <= m
  <2>1. {key[i] : i \in S} \in SUBSET Nat /\ {key[i] : i \in S} # {}
    OBVIOUS
  <2> QED
    BY <2>1, LeastNatural
<1>2. PICK i \in {j \in S : key[j] = k} : \A m \in {j \in S : key[j] = k} : i <= m
  <2>1. {j \in S : key[j] = k} \in SUBSET Nat /\ {j \in S : key[j] = k} # {}
    BY <1>1
  <2> QED
    BY <2>1, LeastNatural
<1>3. \A j \in S : k <= key[j]
  BY <1>1
<1>4. ASSUME NEW j \in S PROVE key[i] < key[j] \/ (key[i] = key[j] /\ i <= j)
  <2>1. key[i] = k /\ k \in Nat /\ key[j] \in Nat /\ k <= key[j]
    BY <1>2, <1>3
  <2>2. CASE key[j] = k
    BY <1>2, <2>1, <2>2
  <2>3. CASE key[j] # k
    BY <2>1, <2>3
  <2> QED
    BY <2>2, <2>3
<1> QED
  BY <1>2, <1>4

(* Page and offset determine an address, and an address of the space has a *)
(* page and an offset.                                                     *)
LEMMA QuotRem ==
  ASSUME NEW address \in Int
  PROVE  /\ Quot(address) \in Int
         /\ Rem(address) \in Int
         /\ address = PAGE_SIZE * Quot(address) + Rem(address)
  BY SizesAssumption DEF Quot, Rem

(* An address of the space has a page and an offset in it, and testInput   *)
(* finds that page again.                                                  *)
LEMMA SpaceAddress ==
  ASSUME NEW address \in Int, InSpace(address)
  PROVE  /\ Quot(address) \in VirtualPage
         /\ Rem(address) \in 0 .. PAGE_SIZE - 1
         /\ TestPage(address) = Quot(address)
<1>1. address \in Nat /\ address < NUM_PAGES * PAGE_SIZE
  BY SizesAssumption DEF InSpace
<1>2. Quot(address) = address \div PAGE_SIZE
  BY <1>1 DEF Quot
<1>3. /\ address \div PAGE_SIZE \in Nat
      /\ address \div PAGE_SIZE < NUM_PAGES
      /\ address - PAGE_SIZE * (address \div PAGE_SIZE) \in 0 .. PAGE_SIZE - 1
  BY <1>1, SizesAssumption
<1>4. Quot(address) \in VirtualPage
  BY <1>2, <1>3, SizesAssumption DEF VirtualPage
<1>5. Rem(address) \in 0 .. PAGE_SIZE - 1
  BY <1>2, <1>3 DEF Rem
<1>6. Quot(address) % NUM_PAGES = Quot(address)
  BY <1>2, <1>3, SizesAssumption
<1> QED
  BY <1>2, <1>3, <1>4, <1>5, <1>6 DEF TestPage

(* A physical address belongs to one frame only.                           *)
LEMMA ByteOfOneFrame ==
  ASSUME NEW f \in Int, NEW g \in Int,
         NEW m \in 0 .. PAGE_SIZE - 1, NEW n \in 0 .. PAGE_SIZE - 1,
         f * PAGE_SIZE + m = g * PAGE_SIZE + n
  PROVE  f = g /\ m = n
  BY SizesAssumption

-----------------------------------------------------------------------------
(* What the searches of the handler find *)

(* The TLB has an oldest entry.                                            *)
LEMMA OldestEntry ==
  ASSUME TypeOK
  PROVE  /\ Oldest \in TlbIndex
         /\ \A j \in TlbIndex : tlb[Oldest].last_accessed_time <= tlb[j].last_accessed_time
<1> DEFINE key == [i \in TlbIndex |-> tlb[i].last_accessed_time]
<1>1. TlbIndex \subseteq Nat /\ 0 \in TlbIndex /\ key \in [TlbIndex -> Nat]
  <2>1. \A i \in TlbIndex : tlb[i].last_accessed_time \in Nat
    BY DEF TypeOK
  <2>2. TlbIndex \subseteq Nat /\ 0 \in TlbIndex
    BY SizesAssumption DEF TlbIndex
  <2> QED
    BY <2>1, <2>2
<1>2. \E i \in TlbIndex : \A j \in TlbIndex : key[i] < key[j] \/ (key[i] = key[j] /\ i <= j)
  <2> HIDE DEF key
  <2> QED
    BY <1>1, FirstOfLeast
<1>3. /\ Oldest \in TlbIndex
      /\ \A j \in TlbIndex : \/ tlb[Oldest].last_accessed_time < tlb[j].last_accessed_time
                             \/ /\ tlb[Oldest].last_accessed_time = tlb[j].last_accessed_time
                                /\ Oldest <= j
  BY <1>2 DEF Oldest
<1>4. \A j \in TlbIndex : tlb[j].last_accessed_time \in Nat
  BY DEF TypeOK
<1> QED
  BY <1>3, <1>4

(* While a page is not loaded, there is a frame that no page has.          *)
LEMMA FreeFrameExists ==
  ASSUME TypeOK, FramesExclusive, NEW page \in VirtualPage, ~Valid(page)
  PROVE  \E f \in Frame : \A p \in LoadedPages : FrameOf(p) # f
<1>1. SUFFICES ASSUME \A f \in Frame : \E p \in LoadedPages : FrameOf(p) = f
               PROVE  FALSE
  OBVIOUS
<1>2. /\ IsFiniteSet(VirtualPage) /\ Cardinality(VirtualPage) = NUM_PAGES
      /\ IsFiniteSet(Frame) /\ Cardinality(Frame) = NUM_FRAMES
  BY FS_Interval, SizesAssumption DEF VirtualPage, Frame
<1>3. IsFiniteSet(LoadedPages) /\ Cardinality(LoadedPages) < NUM_PAGES
  <2>1. LoadedPages \in SUBSET VirtualPage /\ LoadedPages # VirtualPage
    BY DEF LoadedPages
  <2>2. Cardinality(LoadedPages) \in Nat
    BY <1>2, <2>1, FS_Subset, FS_CardinalityType
  <2> QED
    BY <1>2, <2>1, <2>2, FS_Subset, SizesAssumption
<1> DEFINE owner == [f \in Frame |-> CHOOSE p \in LoadedPages : FrameOf(p) = f]
<1>4. \A f \in Frame : owner[f] \in LoadedPages /\ FrameOf(owner[f]) = f
  BY <1>1
<1>5. owner \in [Frame -> LoadedPages]
  BY <1>4
<1>6. Cardinality(LoadedPages) \in Nat /\ Cardinality(LoadedPages) < Cardinality(Frame)
  BY <1>2, <1>3, FS_CardinalityType, SizesAssumption
<1>7. \E f, g \in Frame : f # g /\ owner[f] = owner[g]
  <2> HIDE DEF owner
  <2> QED
    BY <1>2, <1>3, <1>5, <1>6, FS_PigeonHole
<1> QED
  BY <1>4, <1>7

(* While a page is not loaded there is a frame that no page has.           *)
LEMMA LeastUsedFrame ==
  ASSUME AInv, NEW page \in VirtualPage, ~Valid(page)
  PROVE  /\ findLRUFrame \in Frame
         /\ \A p \in LoadedPages : FrameOf(p) # findLRUFrame
<1>1. PICK free \in Frame : \A p \in LoadedPages : FrameOf(p) # free
  BY FreeFrameExists DEF AInv
<1>2. memory_access_times[free] = 0
  BY <1>1 DEF AInv, UsedFramesCharged
<1>3. \E f \in Frame : \A g \in Frame :
        \/ memory_access_times[f] < memory_access_times[g]
        \/ memory_access_times[f] = memory_access_times[g] /\ f <= g
  <2>1. Frame \subseteq Nat
    BY SizesAssumption DEF Frame
  <2>2. Frame # {} /\ memory_access_times \in [Frame -> Nat]
    BY <1>1 DEF AInv, TypeOK
  <2> QED
    BY <2>1, <2>2, FirstOfLeast
<1>4. /\ findLRUFrame \in Frame
      /\ \/ memory_access_times[findLRUFrame] < memory_access_times[free]
         \/ memory_access_times[findLRUFrame] = memory_access_times[free]
  BY <1>3 DEF findLRUFrame
<1>5. memory_access_times[findLRUFrame] = 0
  BY <1>2, <1>4 DEF AInv, TypeOK
<1> QED
  BY <1>4, <1>5 DEF AInv, UsedFramesCharged

-----------------------------------------------------------------------------
(* What a step does to the tables *)

Tables == TypeOK /\ FramesExclusive /\ UsedFramesCharged /\ TlbCoherent /\ EmptyEntriesOldest

(* A step that leaves the page table, the TLB and the frames alone.        *)
LEMMA TablesStay ==
  ASSUME Tables, UNCHANGED <<page_table, tlb, memory_access_times>>
  PROVE  /\ FramesExclusive' /\ UsedFramesCharged' /\ TlbCoherent' /\ EmptyEntriesOldest'
         /\ LoadedPages' = LoadedPages
         /\ \A p \in LoadedPages : FrameOf(p)' = FrameOf(p)
  BY DEF Tables, FramesExclusive, UsedFramesCharged, TlbCoherent, EmptyEntriesOldest,
         LoadedPages, FrameOf, Valid

(* handle_page_fault, of a page that is not loaded. *)
LEMMA TablesAfterFault ==
  ASSUME AInv, NEW page \in VirtualPage, ~Valid(page), handle_page_fault(page)
  PROVE  /\ page_table' \in [VirtualPage -> [valid_bit : {0, 1}, frame_number : Frame \cup {-1}]]
         /\ tlb' \in [TlbIndex -> [virtual_page_number   : VirtualPage \cup {-1},
                                   physical_frame_number : Frame \cup {-1},
                                   last_accessed_time    : Nat]]
         /\ memory_access_times' \in [Frame -> Nat]
         /\ FramesExclusive' /\ UsedFramesCharged' /\ TlbCoherent' /\ EmptyEntriesOldest'
         /\ LoadedPages' = LoadedPages \cup {page}
         /\ \A p \in LoadedPages : FrameOf(p)' = FrameOf(p)
         /\ FrameOf(page)' = findLRUFrame
<1> DEFINE f == findLRUFrame
           old == Oldest
<1>1. f \in Frame /\ \A p \in LoadedPages : FrameOf(p) # f
  BY LeastUsedFrame
<1>2. old \in TlbIndex /\ TypeOK
  BY OldestEntry DEF AInv
<1>3. /\ page_table' = [page_table EXCEPT ![page] = [valid_bit |-> 1, frame_number |-> f]]
      /\ tlb' = [tlb EXCEPT ![old] = [virtual_page_number   |-> page,
                                      physical_frame_number |-> f,
                                      last_accessed_time    |-> time]]
      /\ memory_access_times' = [memory_access_times EXCEPT ![f] = @ + 1]
  BY DEF handle_page_fault, set_page_table_entry, add_tlb_entry, Charged
<1> HIDE DEF f, old
<1>4. /\ page_table' \in [VirtualPage -> [valid_bit : {0, 1}, frame_number : Frame \cup {-1}]]
      /\ memory_access_times' \in [Frame -> Nat]
  BY <1>1, <1>2, <1>3 DEF TypeOK
<1>5. tlb' \in [TlbIndex -> [virtual_page_number   : VirtualPage \cup {-1},
                             physical_frame_number : Frame \cup {-1},
                             last_accessed_time    : Nat]]
  <2>1. time \in Nat
    BY <1>2, SizesAssumption DEF TypeOK
  <2> QED
    BY <1>1, <1>2, <1>3, <2>1 DEF TypeOK
<1>6. /\ page_table'[page] = [valid_bit |-> 1, frame_number |-> f]
      /\ \A p \in VirtualPage \ {page} : page_table'[p] = page_table[p]
  BY <1>2, <1>3 DEF TypeOK
<1>7. LoadedPages' = LoadedPages \cup {page}
  BY <1>6 DEF LoadedPages, Valid
<1>8. page \notin LoadedPages
  BY DEF LoadedPages
<1>9. (\A p \in LoadedPages : FrameOf(p)' = FrameOf(p)) /\ FrameOf(page)' = f
  BY <1>6, <1>8 DEF LoadedPages, FrameOf
<1>10. FramesExclusive'
  <2>1. \A p \in LoadedPages : FrameOf(p) \in Frame
    BY DEF AInv, FramesExclusive, LoadedPages, FrameOf
  <2>2. \A p, q \in LoadedPages : p # q => FrameOf(p) # FrameOf(q)
    BY DEF AInv, FramesExclusive, LoadedPages, FrameOf
  <2>3. \A p \in LoadedPages' : FrameOf(p)' \in Frame
    BY <1>1, <1>7, <1>9, <2>1
  <2>4. \A p, q \in LoadedPages' : p # q => FrameOf(p)' # FrameOf(q)'
    BY <1>1, <1>7, <1>9, <2>2
  <2> QED
    BY <2>3, <2>4 DEF FramesExclusive, LoadedPages, FrameOf
<1>11. UsedFramesCharged'
  <2>1. ASSUME NEW g \in Frame
        PROVE  memory_access_times'[g] = 0 <=> \A p \in LoadedPages' : FrameOf(p)' # g
    <3>1. memory_access_times[g] \in Nat
      BY <1>2 DEF TypeOK
    <3>2. CASE g = f
      <4>1. memory_access_times'[g] = memory_access_times[g] + 1
        BY <1>2, <1>3, <3>2 DEF TypeOK
      <4> QED
        BY <1>7, <1>9, <3>1, <3>2, <4>1
    <3>3. CASE g # f
      <4>1. memory_access_times'[g] = memory_access_times[g]
        BY <1>2, <1>3, <3>3 DEF TypeOK
      <4>2. memory_access_times[g] = 0 <=> \A p \in LoadedPages : FrameOf(p) # g
        BY DEF AInv, UsedFramesCharged
      <4> QED
        BY <1>7, <1>9, <3>3, <4>1, <4>2
    <3> QED
      BY <3>2, <3>3
  <2> QED
    BY <2>1 DEF UsedFramesCharged
<1>12. /\ tlb'[old] = [virtual_page_number   |-> page,
                       physical_frame_number |-> f,
                       last_accessed_time    |-> time]
       /\ \A i \in TlbIndex \ {old} : tlb'[i] = tlb[i]
  BY <1>2, <1>3 DEF TypeOK
<1>13. \A i \in TlbIndex : tlb[i].virtual_page_number # page
  <2>1. page # -1
    BY SizesAssumption DEF VirtualPage
  <2>2. page_table[page].valid_bit # 1
    BY DEF Valid
  <2>3. ASSUME NEW i \in TlbIndex, tlb[i].virtual_page_number = page
        PROVE  FALSE
    <3>1. page_table[page] = [valid_bit |-> 1, frame_number |-> tlb[i].physical_frame_number]
      BY <2>1, <2>3 DEF AInv, TlbCoherent
    <3> QED
      BY <2>2, <3>1
  <2> QED
    BY <2>3
<1>14. TlbCoherent'
  <2>1. ASSUME NEW i \in TlbIndex, NEW j \in TlbIndex, tlb'[i].virtual_page_number # -1
        PROVE  /\ page_table'[tlb'[i].virtual_page_number] =
                    [valid_bit |-> 1, frame_number |-> tlb'[i].physical_frame_number]
               /\ tlb'[j].virtual_page_number = tlb'[i].virtual_page_number => i = j
    <3>1. CASE i = old
      BY <1>6, <1>12, <1>13, <3>1
    <3>2. CASE i # old
      <4>1. tlb'[i] = tlb[i] /\ tlb[i].virtual_page_number \in VirtualPage \ {page}
        BY <1>2, <1>12, <1>13, <2>1, <3>2 DEF TypeOK
      <4>2. /\ page_table[tlb[i].virtual_page_number] =
                 [valid_bit |-> 1, frame_number |-> tlb[i].physical_frame_number]
            /\ tlb[j].virtual_page_number = tlb[i].virtual_page_number => i = j
        BY <2>1, <4>1 DEF AInv, TlbCoherent
      <4>3. tlb'[j].virtual_page_number = tlb[i].virtual_page_number => i = j
        BY <1>12, <4>1, <4>2
      <4> QED
        BY <1>6, <4>1, <4>2, <4>3
    <3> QED
      BY <3>1, <3>2
  <2> QED
    BY <2>1 DEF TlbCoherent
<1>15. EmptyEntriesOldest'
  <2>1. time # 0 /\ page # -1
    BY <1>2, SizesAssumption DEF TypeOK, VirtualPage
  <2> QED
    BY <1>2, <1>12, <2>1 DEF AInv, EmptyEntriesOldest
<1> QED
  BY <1>4, <1>5, <1>7, <1>9, <1>10, <1>11, <1>14, <1>15 DEF f

-----------------------------------------------------------------------------
(* What a step does to the output and the counters *)

(* Addresses that are translated already keep their translation. *)
LEMMA OldOutputStands ==
  ASSUME AInv, LoadedPages \subseteq LoadedPages',
         \A p \in LoadedPages : FrameOf(p)' = FrameOf(p)
  PROVE  \A r \in output : InSpace(r[1]) =>
           /\ Quot(r[1]) \in LoadedPages'
           /\ r[2] = FrameOf(Quot(r[1]))' * PAGE_SIZE + Rem(r[1])
  BY DEF AInv, OutputStands

(* The translation of an address whose page is loaded in the next state. *)
LEMMA PhysicalAddress ==
  ASSUME NEW address \in Address, FrameOf(Quot(address))' \in Frame
  PROVE  /\ Physical(address) \in Int
         /\ Physical(address) = FrameOf(Quot(address))' * PAGE_SIZE + Rem(address)
<1>1. Quot(address) \in Int /\ Rem(address) \in Int
  BY QuotRem, SizesAssumption
<1>2. page_table'[Quot(address)].frame_number \in Int
  BY SizesAssumption DEF FrameOf, Frame
<1> QED
  BY <1>1, <1>2, SizesAssumption DEF Physical, FrameOf

(* The invariant OneFaultPerPage, without its comparison of sets ...       *)
LEMMA LoadedCount ==
  /\ IsFiniteSet(LoadedPages)
  /\ Cardinality(LoadedPages) \in Nat
  /\ OneFaultPerPage <=> page_faults = Cardinality(LoadedPages) + (IF pc = "exit" THEN 1 ELSE 0)
<1>1. IsFiniteSet(VirtualPage)
  BY FS_Interval, SizesAssumption DEF VirtualPage
<1>2. LoadedPages \in SUBSET VirtualPage
  BY DEF LoadedPages
<1> QED
  BY <1>1, <1>2, FS_Subset, FS_CardinalityType DEF OneFaultPerPage, LoadedPages

(* ... and after a step.                                                   *)
LEMMA PrimedCount ==
  OneFaultPerPage' <=> page_faults' = Cardinality(LoadedPages') + (IF pc' = "exit" THEN 1 ELSE 0)
  BY DEF OneFaultPerPage, LoadedPages

(* The TLB has no page that is not loaded: such a page is no hit before it *)
(* faults.                                                                 *)
LEMMA FaultingPageMisses ==
  ASSUME AInv, NEW page \in VirtualPage, page_table[page].valid_bit = 0
  PROVE  ~Valid(page) /\ Hits(page) = 0
<1>1. ASSUME NEW i \in TlbIndex, tlb[i].virtual_page_number = page
      PROVE  FALSE
  <2>1. page # -1
    BY SizesAssumption DEF VirtualPage
  <2>2. page_table[page] = [valid_bit |-> 1, frame_number |-> tlb[i].physical_frame_number]
    BY <1>1, <2>1 DEF AInv, TlbCoherent
  <2> QED
    BY <2>2
<1>2. get_tlb_entry(page) = {}
  BY <1>1 DEF get_tlb_entry
<1> QED
  BY <1>2 DEF Valid, Hits

-----------------------------------------------------------------------------
(* Every step keeps the invariant *)

(* An address outside of the space changes nothing but the statistics.     *)
LEMMA InvalidKeepsAInv ==
  ASSUME AInv, NEW address \in Address, TranslateInvalid(address)
  PROVE  AInv'
<1>1. Tables /\ UNCHANGED <<page_table, tlb, memory, memory_access_times, page_faults, tlb_hits, pc>>
  BY DEF AInv, Tables, TranslateInvalid, translation
<1>2. /\ FramesExclusive' /\ UsedFramesCharged' /\ TlbCoherent' /\ EmptyEntriesOldest'
      /\ LoadedPages' = LoadedPages
      /\ \A p \in LoadedPages : FrameOf(p)' = FrameOf(p)
  BY <1>1, TablesStay
<1>3. pc = "main" /\ references' = references + 1 /\ output' = output \cup {<<address, -1>>}
  BY DEF TranslateInvalid, Reference
<1>4. TypeOK'
  BY <1>1, <1>3, SizesAssumption DEF AInv, TypeOK, TranslateInvalid, Reference
<1>5. OneFaultPerPage' /\ RatiosAddUp'
  BY <1>1, <1>2, <1>3, LoadedCount, PrimedCount DEF AInv, RatiosAddUp, TypeOK
<1>6. OutputStands'
  <2>1. ~InSpace(address)
    BY SpaceAddress, SizesAssumption DEF TranslateInvalid
  <2> QED
    BY <1>2, <1>3, <2>1, OldOutputStands DEF OutputStands
<1>7. StraysOutsideSpace'
  BY <1>1, <1>3 DEF StraysOutsideSpace
<1> QED
  BY <1>2, <1>4, <1>5, <1>6, <1>7 DEF AInv

(* The page is loaded: the TLB may get an entry.                           *)
LEMMA LoadedKeepsAInv ==
  ASSUME AInv, NEW address \in Address, TranslateLoaded(address)
  PROVE  AInv'
<1> DEFINE page == Quot(address)
<1>1. Tables /\ UNCHANGED <<page_table, tlb, memory, memory_access_times, page_faults, pc>>
  BY DEF AInv, Tables, TranslateLoaded
<1>2. /\ FramesExclusive' /\ UsedFramesCharged' /\ TlbCoherent' /\ EmptyEntriesOldest'
      /\ LoadedPages' = LoadedPages
      /\ \A p \in LoadedPages : FrameOf(p)' = FrameOf(p)
  BY <1>1, TablesStay
<1>3. /\ pc = "main" /\ references' = references + 1 /\ page \in LoadedPages
      /\ tlb_hits' = tlb_hits + Hits(page)
      /\ output' = output \cup {<<address, Physical(address)>>}
  BY DEF TranslateLoaded, Reference, LoadedPages, Valid
<1>4. /\ Physical(address) \in Int
      /\ Physical(address) = FrameOf(page)' * PAGE_SIZE + Rem(address)
  <2>1. FrameOf(page)' \in Frame
    BY <1>2, <1>3 DEF AInv, FramesExclusive, LoadedPages, FrameOf
  <2> QED
    BY <2>1, PhysicalAddress
<1>5. Hits(page) \in {0, 1}
  BY DEF Hits
<1>6. TypeOK'
  <2>1. output' \subseteq Address \X Int
    BY <1>3, <1>4 DEF AInv, TypeOK
  <2>2. tlb_hits' \in Nat /\ references' \in 0 .. MAX_REFERENCES
    BY <1>3, <1>5, SizesAssumption DEF AInv, TypeOK, TranslateLoaded, Reference
  <2> QED
    BY <1>1, <1>3, <2>1, <2>2, SizesAssumption DEF AInv, TypeOK, TranslateLoaded, Reference
<1>7. OneFaultPerPage' /\ RatiosAddUp'
  BY <1>1, <1>2, <1>3, <1>5, LoadedCount, PrimedCount DEF AInv, RatiosAddUp, TypeOK
<1>8. OutputStands'
  BY <1>2, <1>3, <1>4, OldOutputStands DEF OutputStands
<1>9. StraysOutsideSpace'
  BY <1>1, <1>3 DEF StraysOutsideSpace
<1> QED
  BY <1>2, <1>6, <1>7, <1>8, <1>9 DEF AInv

(* The page is loaded now, into a frame that was free.                     *)
LEMMA FaultingKeepsAInv ==
  ASSUME AInv, NEW address \in Address, TranslateFaulting(address)
  PROVE  AInv'
<1> DEFINE page == Quot(address)
<1>1. /\ pc = "main" /\ references' = references + 1
      /\ references < MAX_REFERENCES
      /\ page \in VirtualPage /\ page_table[page].valid_bit = 0
      /\ page_faults' = page_faults + 1
      /\ handle_page_fault(page)
      /\ tlb_hits' = tlb_hits + 2 * Hits(page) + 1
      /\ output' = output \cup {<<address, Physical(address)>>}
      /\ UNCHANGED <<memory, time, unread, ending, pc>>
  BY DEF TranslateFaulting, Reference, handle_page_fault
<1>2. ~Valid(page) /\ Hits(page) = 0
  BY <1>1, FaultingPageMisses
<1>3. /\ page_table' \in [VirtualPage -> [valid_bit : {0, 1}, frame_number : Frame \cup {-1}]]
      /\ tlb' \in [TlbIndex -> [virtual_page_number   : VirtualPage \cup {-1},
                                physical_frame_number : Frame \cup {-1},
                                last_accessed_time    : Nat]]
      /\ memory_access_times' \in [Frame -> Nat]
      /\ FramesExclusive' /\ UsedFramesCharged' /\ TlbCoherent' /\ EmptyEntriesOldest'
      /\ LoadedPages' = LoadedPages \cup {page}
      /\ \A p \in LoadedPages : FrameOf(p)' = FrameOf(p)
      /\ FrameOf(page)' = findLRUFrame
  BY <1>1, <1>2, TablesAfterFault
<1>4. /\ Physical(address) \in Int
      /\ Physical(address) = FrameOf(page)' * PAGE_SIZE + Rem(address)
  <2>1. FrameOf(page)' \in Frame
    BY <1>1, <1>2, <1>3, LeastUsedFrame
  <2> QED
    BY <2>1, PhysicalAddress
<1>5. TypeOK'
  <2>1. output' \subseteq Address \X Int
    BY <1>1, <1>4 DEF AInv, TypeOK
  <2>2. /\ tlb_hits' \in Nat /\ page_faults' \in Nat
        /\ references' \in 0 .. MAX_REFERENCES /\ unread' \in 0 .. references'
    BY <1>1, <1>2, SizesAssumption DEF AInv, TypeOK
  <2> QED
    BY <1>1, <1>3, <2>1, <2>2 DEF AInv, TypeOK
<1>6. OneFaultPerPage'
  <2>1. page \notin LoadedPages
    BY <1>2 DEF LoadedPages
  <2>2. Cardinality(LoadedPages') = Cardinality(LoadedPages) + 1
    BY <1>3, <2>1, LoadedCount, FS_AddElement
  <2> QED
    BY <1>1, <2>2, LoadedCount, PrimedCount DEF AInv
<1>7. RatiosAddUp'
  BY <1>1, <1>2 DEF AInv, RatiosAddUp, TypeOK
<1>8. OutputStands'
  BY <1>1, <1>3, <1>4, OldOutputStands DEF OutputStands
<1>9. StraysOutsideSpace'
  BY <1>1 DEF StraysOutsideSpace
<1> QED
  BY <1>3, <1>5, <1>6, <1>7, <1>8, <1>9 DEF AInv

(* The handler finds no frame, and the program exits.                      *)
LEMMA FailsKeepsAInv ==
  ASSUME AInv, NEW address \in Address, TranslateFails(address)
  PROVE  AInv'
<1>1. Tables /\ UNCHANGED <<page_table, tlb, memory, memory_access_times, output>>
  BY DEF AInv, Tables, TranslateFails
<1>2. /\ FramesExclusive' /\ UsedFramesCharged' /\ TlbCoherent' /\ EmptyEntriesOldest'
      /\ LoadedPages' = LoadedPages
      /\ \A p \in LoadedPages : FrameOf(p)' = FrameOf(p)
  BY <1>1, TablesStay
<1>3. /\ pc = "main" /\ pc' = "exit" /\ references' = references + 1
      /\ page_faults' = page_faults + 1
      /\ tlb_hits' = tlb_hits
  <2>1. Hits(Quot(address)) = 0
    BY FaultingPageMisses DEF TranslateFails
  <2> QED
    BY <2>1 DEF TranslateFails, Reference, AInv, TypeOK
<1>4. TypeOK'
  BY <1>1, <1>3, SizesAssumption DEF AInv, TypeOK, TranslateFails, Reference
<1>5. OneFaultPerPage' /\ RatiosAddUp'
  BY <1>1, <1>2, <1>3, LoadedCount, PrimedCount DEF AInv, RatiosAddUp, TypeOK
<1>6. OutputStands'
  BY <1>1, <1>2, OldOutputStands DEF OutputStands
<1>7. StraysOutsideSpace'
  BY <1>3 DEF StraysOutsideSpace
<1> QED
  BY <1>2, <1>4, <1>5, <1>6, <1>7 DEF AInv

(* main's other steps, a second that passes, and stuttering. *)
LEMMA StartTestKeepsAInv ==
  ASSUME AInv, StartTest
  PROVE  AInv'
<1>1. Tables /\ UNCHANGED <<translation, references, output>>
  BY DEF AInv, Tables, StartTest
<1>2. /\ FramesExclusive' /\ UsedFramesCharged' /\ TlbCoherent' /\ EmptyEntriesOldest'
      /\ LoadedPages' = LoadedPages
      /\ \A p \in LoadedPages : FrameOf(p)' = FrameOf(p)
  BY <1>1, TablesStay DEF translation
<1>3. TypeOK'
  BY <1>1 DEF AInv, TypeOK, StartTest, translation, Endings
<1>4. OneFaultPerPage' /\ RatiosAddUp'
  BY <1>1, <1>2, LoadedCount, PrimedCount DEF AInv, RatiosAddUp, StartTest, translation
<1>5. OutputStands' /\ StraysOutsideSpace'
  BY <1>1, <1>2, OldOutputStands DEF OutputStands, StraysOutsideSpace, StartTest
<1> QED
  BY <1>2, <1>3, <1>4, <1>5 DEF AInv

(* testInput reads what was translated.                                    *)
LEMMA TestKeepsAInv ==
  ASSUME AInv, testInput
  PROVE  AInv'
<1>1. Tables /\ UNCHANGED <<translation, references, output>>
  BY DEF AInv, Tables, testInput
<1>2. /\ FramesExclusive' /\ UsedFramesCharged' /\ TlbCoherent' /\ EmptyEntriesOldest'
      /\ LoadedPages' = LoadedPages
      /\ \A p \in LoadedPages : FrameOf(p)' = FrameOf(p)
  BY <1>1, TablesStay DEF translation
<1>3. pc = "test" /\ pc' \in {"test", "done", "out_of_bounds"}
  BY DEF testInput
<1>4. TypeOK'
  <2>1. unread' \in 0 .. references
    BY DEF AInv, TypeOK, testInput
  <2> QED
    BY <1>1, <1>3, <2>1 DEF AInv, TypeOK, testInput, translation
<1>5. OneFaultPerPage' /\ RatiosAddUp'
  BY <1>1, <1>2, <1>3, LoadedCount, PrimedCount DEF AInv, RatiosAddUp, translation
<1>6. OutputStands'
  BY <1>1, <1>2, OldOutputStands DEF OutputStands
<1>7. StraysOutsideSpace'
  <2>1. SUFFICES ASSUME pc' = "out_of_bounds", references # 0
                 PROVE  \E r \in output : ~InSpace(r[1])
    BY <1>1 DEF StraysOutsideSpace
  <2>2. PICK address \in ReadAddress : ~InMemory(address)
    BY <2>1 DEF testInput
  <2>3. PICK r \in output : address = r[1]
    BY <2>1, <2>2 DEF ReadAddress
  <2>4. address \in Int
    BY <2>3, SizesAssumption DEF AInv, TypeOK
  <2>5. ASSUME InSpace(address)
        PROVE  InMemory(address)
    <3>1. TestPage(address) = Quot(address) /\ Rem(address) \in 0 .. PAGE_SIZE - 1
      BY <2>4, <2>5, SpaceAddress
    <3>2. Quot(address) \in LoadedPages
      BY <2>3, <2>5 DEF AInv, OutputStands
    <3> QED
      BY <3>1, <3>2 DEF AInv, FramesExclusive, LoadedPages, InMemory
  <2> QED
    BY <2>2, <2>3, <2>5
<1> QED
  BY <1>2, <1>4, <1>5, <1>6, <1>7 DEF AInv

(* Time passes, or nothing happens.                                        *)
LEMMA TickKeepsAInv ==
  ASSUME AInv, Tick \/ UNCHANGED vars
  PROVE  AInv'
<1>1. Tables /\ UNCHANGED <<translation, references, output, unread, ending, pc>>
  BY DEF AInv, Tables, Tick, vars
<1>2. /\ FramesExclusive' /\ UsedFramesCharged' /\ TlbCoherent' /\ EmptyEntriesOldest'
      /\ LoadedPages' = LoadedPages
      /\ \A p \in LoadedPages : FrameOf(p)' = FrameOf(p)
  BY <1>1, TablesStay DEF translation
<1>3. time' \in 1 .. MAX_TIME
  BY SizesAssumption DEF AInv, TypeOK, Tick, vars
<1>4. TypeOK'
  BY <1>1, <1>3 DEF AInv, TypeOK, translation
<1>5. OneFaultPerPage' /\ RatiosAddUp'
  BY <1>1, <1>2, LoadedCount, PrimedCount DEF AInv, RatiosAddUp, translation
<1>6. OutputStands' /\ StraysOutsideSpace'
  BY <1>1, <1>2, OldOutputStands DEF AInv, OutputStands, StraysOutsideSpace
<1> QED
  BY <1>2, <1>4, <1>5, <1>6 DEF AInv

(* So every step keeps the invariant.                                      *)
LEMMA NextKeepsAInv ==
  ASSUME AInv, [Next]_vars
  PROVE  AInv'
  BY InvalidKeepsAInv, LoadedKeepsAInv, FaultingKeepsAInv, FailsKeepsAInv,
     StartTestKeepsAInv, TestKeepsAInv, TickKeepsAInv
     DEF Next, Program, translate_address

(* Nothing is loaded at the start.                                         *)
LEMMA InitAInv ==
  ASSUME Init
  PROVE  AInv
<1>1. LoadedPages = {} /\ output = {} /\ pc = "main"
  BY DEF Init, LoadedPages, Valid
<1>2. TypeOK
  <2>1. 0 \in 0 .. references /\ references \in 0 .. MAX_REFERENCES /\ time \in 1 .. MAX_TIME
    BY SizesAssumption DEF Init
  <2> QED
    BY <2>1, SizesAssumption DEF Init, TypeOK, Endings
<1>3. Cardinality(LoadedPages) = 0
  BY <1>1, FS_EmptySet
<1>4. OneFaultPerPage
  BY <1>1, <1>3, LoadedCount DEF Init
<1>5. FramesExclusive /\ UsedFramesCharged /\ TlbCoherent /\ EmptyEntriesOldest
  BY <1>1 DEF Init, FramesExclusive, UsedFramesCharged, TlbCoherent, EmptyEntriesOldest,
              LoadedPages
<1>6. RatiosAddUp /\ OutputStands /\ StraysOutsideSpace
  BY <1>1 DEF Init, RatiosAddUp, OutputStands, StraysOutsideSpace
<1> QED
  BY <1>2, <1>4, <1>5, <1>6 DEF AInv

-----------------------------------------------------------------------------
(* The theorems *)

(* The page table, the TLB, the frames and the output of main agree with   *)
(* one another after every translation.                                    *)
THEOREM Invariance == Spec => []AInv
<1>1. Init => AInv
  BY InitAInv
<1>2. AInv /\ [Next]_vars => AInv'
  BY NextKeepsAInv
<1> QED
  BY <1>1, <1>2, PTL DEF Spec

(* Every variable keeps its type: frames and pages in the tables are ones  *)
(* that exist.                                                             *)
THEOREM TypeCorrect == Spec => []TypeOK
<1>1. AInv => TypeOK
  BY DEF AInv
<1> QED
  BY <1>1, Invariance, PTL

(* findLRUFrame, which only counts how often it gave a frame out, never    *)
(* gives one to two pages if there are at least as many frames as pages.   *)
THEOREM Exclusion == Spec => []FramesExclusive
<1>1. AInv => FramesExclusive
  BY DEF AInv
<1> QED
  BY <1>1, Invariance, PTL

(* What add_tlb_entry keeps is what the page table says, once per page.    *)
THEOREM Coherence == Spec => []TlbCoherent
<1>1. AInv => TlbCoherent
  BY DEF AInv
<1> QED
  BY <1>1, Invariance, PTL

(* page_faults counts the pages that are loaded, and the fault that ended  *)
(* the program if one did.                                                 *)
THEOREM FaultsOnce == Spec => []OneFaultPerPage
<1>1. AInv => OneFaultPerPage
  BY DEF AInv
<1> QED
  BY <1>1, Invariance, PTL

(* The ratios that main prints are never more than 1.                      *)
THEOREM Ratios == Spec => []RatiosAddUp
<1>1. AInv => RatiosAddUp
  BY DEF AInv
<1> QED
  BY <1>1, Invariance, PTL

(* translate_address is a function of the address over the whole run, and  *)
(* one to one on the virtual space.                                        *)
THEOREM Injectivity == Spec => []TranslationIsInjective
<1>1. ASSUME AInv PROVE TranslationIsInjective
  <2>1. SUFFICES ASSUME NEW r \in output, NEW s \in output, InSpace(r[1]), InSpace(s[1])
                 PROVE  r[1] = s[1] <=> r[2] = s[2]
    BY DEF TranslationIsInjective
  <2> DEFINE p == Quot(r[1])
             q == Quot(s[1])
  <2>2. r[1] \in Int /\ s[1] \in Int
    BY <1>1, SizesAssumption DEF AInv, TypeOK
  <2>3. /\ p \in LoadedPages /\ r[2] = FrameOf(p) * PAGE_SIZE + Rem(r[1])
        /\ q \in LoadedPages /\ s[2] = FrameOf(q) * PAGE_SIZE + Rem(s[1])
    BY <1>1, <2>1 DEF AInv, OutputStands
  <2>4. Rem(r[1]) \in 0 .. PAGE_SIZE - 1 /\ Rem(s[1]) \in 0 .. PAGE_SIZE - 1
    BY <2>1, <2>2, SpaceAddress
  <2>5. FrameOf(p) \in Frame /\ FrameOf(q) \in Frame /\ (p # q => FrameOf(p) # FrameOf(q))
    BY <1>1, <2>3 DEF AInv, FramesExclusive, LoadedPages, FrameOf
  <2>6. ASSUME r[2] = s[2] PROVE r[1] = s[1]
    <3>1. FrameOf(p) = FrameOf(q) /\ Rem(r[1]) = Rem(s[1])
      <4>1. FrameOf(p) \in Int /\ FrameOf(q) \in Int
        BY <2>5, SizesAssumption DEF Frame
      <4> HIDE DEF p, q
      <4> QED
        BY <2>3, <2>4, <2>6, <4>1, ByteOfOneFrame
    <3>2. p = q
      BY <2>5, <3>1
    <3> QED
      BY <2>2, <3>1, <3>2, QuotRem
  <2> QED
    BY <2>3, <2>6
<1>2. AInv => TranslationIsInjective
  BY <1>1
<1> QED
  BY <1>2, Invariance, PTL

(* testInput computes page and offset in another way than main, and still  *)
(* reads the byte that main has translated.                                *)
THEOREM TestAgrees == Spec => []TestReadsWhatWasTranslated
<1>1. ASSUME AInv PROVE TestReadsWhatWasTranslated
  <2>1. ASSUME NEW r \in output, InSpace(r[1])
        PROVE  r[2] = page_table[TestPage(r[1])].frame_number * PAGE_SIZE + Rem(r[1])
    <3>1. r[1] \in Int
      BY <1>1, SizesAssumption DEF AInv, TypeOK
    <3>2. TestPage(r[1]) = Quot(r[1])
      BY <2>1, <3>1, SpaceAddress
    <3> QED
      BY <1>1, <2>1, <3>2 DEF AInv, OutputStands, FrameOf
  <2> QED
    BY <1>1, <2>1 DEF AInv, StraysOutsideSpace, TestReadsWhatWasTranslated
<1>2. AInv => TestReadsWhatWasTranslated
  BY <1>1
<1> QED
  BY <1>2, Invariance, PTL

(* add_tlb_entry replaces a page only when the TLB is full, and then one   *)
(* that was loaded no later than any other.                                *)
THEOREM Eviction == Spec => TlbEvictsOldest
<1> DEFINE A == \A i \in TlbIndex :
       tlb[i].virtual_page_number \notin {-1, tlb'[i].virtual_page_number} =>
         \A j \in TlbIndex : /\ tlb[j].virtual_page_number # -1
                             /\ tlb[i].last_accessed_time <= tlb[j].last_accessed_time
<1>1. ASSUME AInv, Next PROVE A
  <2>1. CASE UNCHANGED tlb
    BY <2>1
  <2>2. CASE tlb' # tlb
    <3>1. PICK page, frame : tlb' = add_tlb_entry(page, frame)
      BY <1>1, <2>2 DEF Next, Program, translate_address, TranslateInvalid, TranslateLoaded,
                        TranslateFaulting, TranslateFails, StartTest, testInput, Tick,
                        handle_page_fault, translation
    <3>2. /\ Oldest \in TlbIndex
          /\ \A j \in TlbIndex : tlb[Oldest].last_accessed_time <= tlb[j].last_accessed_time
      BY <1>1, OldestEntry DEF AInv
    <3>3. \A i \in TlbIndex \ {Oldest} : tlb'[i] = tlb[i]
      BY <1>1, <3>1 DEF add_tlb_entry, AInv, TypeOK
    <3>4. ASSUME NEW i \in TlbIndex, NEW j \in TlbIndex,
                 tlb[i].virtual_page_number \notin {-1, tlb'[i].virtual_page_number}
          PROVE  /\ tlb[j].virtual_page_number # -1
                 /\ tlb[i].last_accessed_time <= tlb[j].last_accessed_time
      <4>1. i = Oldest
        BY <3>3, <3>4
      <4>2. tlb[i].last_accessed_time # 0
        BY <1>1, <3>4 DEF AInv, EmptyEntriesOldest
      <4>3. tlb[i].last_accessed_time <= tlb[j].last_accessed_time
        BY <3>2, <4>1
      <4>4. tlb[i].last_accessed_time \in Nat /\ tlb[j].last_accessed_time \in Nat
        BY <1>1 DEF AInv, TypeOK
      <4>5. tlb[j].last_accessed_time # 0
        BY <4>2, <4>3, <4>4
      <4> QED
        BY <1>1, <4>3, <4>5 DEF AInv, EmptyEntriesOldest
    <3> QED
      BY <3>4
  <2> QED
    BY <2>1, <2>2
<1>2. AInv /\ [Next]_vars => [A]_vars
  BY <1>1
<1> QED
  BY <1>2, Invariance, PTL DEF Spec, TlbEvictsOldest

(* The page table implements PageMapping: pages get frames for good and    *)
(* one to one.                                                             *)
THEOREM MappingImplemented == Spec => ImplementsPageMapping
<1> DEFINE view == {<<p, page_table[p].frame_number>> : p \in {q \in VirtualPage : Valid(q)}}
<1>1. Init => view = {}
  BY DEF Init, Valid
<1>2. ASSUME AInv, [Next]_vars PROVE [Mapping!Load]_view
  <2>1. CASE UNCHANGED page_table
    BY <2>1 DEF Valid
  <2>2. CASE page_table' # page_table
    <3>1. PICK page \in VirtualPage : ~Valid(page) /\ handle_page_fault(page)
      BY <1>2, <2>2 DEF Next, Program, translate_address, TranslateInvalid, TranslateLoaded,
                        TranslateFaulting, TranslateFails, StartTest, testInput, Tick, vars,
                        translation, Valid
    <3>2. /\ findLRUFrame \in Frame
          /\ \A p \in LoadedPages : FrameOf(p) # findLRUFrame
      BY <1>2, <3>1, LeastUsedFrame
    <3>3. /\ LoadedPages' = LoadedPages \cup {page}
          /\ \A p \in LoadedPages : FrameOf(p)' = FrameOf(p)
          /\ FrameOf(page)' = findLRUFrame
      BY <1>2, <3>1, TablesAfterFault
    <3>4. view = {<<p, FrameOf(p)>> : p \in LoadedPages}
      BY DEF LoadedPages, FrameOf
    <3>5. view' = {<<p, FrameOf(p)'>> : p \in LoadedPages'}
      BY DEF LoadedPages, FrameOf
    <3> HIDE DEF view
    <3>6. view' = view \cup {<<page, findLRUFrame>>}
      BY <3>3, <3>4, <3>5
    <3>7. \A m \in view : m[1] # page /\ m[2] # findLRUFrame
      <4>1. page \notin LoadedPages
        BY <3>1 DEF LoadedPages
      <4> QED
        BY <3>2, <3>4, <4>1
    <3> QED
      BY <3>1, <3>2, <3>6, <3>7 DEF Mapping!Load, view
  <2> QED
    BY <2>1, <2>2
<1>3. AInv /\ [Next]_vars => [Mapping!Load]_view
  BY <1>2
<1> QED
  BY <1>1, <1>3, Invariance, PTL DEF Spec, ImplementsPageMapping, Mapping!Spec, Mapping!Init

==============================================================================
