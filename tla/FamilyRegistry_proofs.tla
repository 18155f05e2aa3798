------------------------ MODULE FamilyRegistry_proofs ------------------------
(***************************************************************************)
(* Proofs about FamilyRegistry, for every page size, every number of       *)
(* families in a page and every set of names and sizes.                    *)
(***************************************************************************)
EXTENDS FamilyRegistry, TLAPS

-----------------------------------------------------------------------------
(* The inductive invariant *)

Full(page) == \A i \in Index : i < MAX_FAMILIES_PER_VM_PAGE => page[i].struct_size # 0

(* The families of the page are those before n, and nothing is behind it. *)
EndsAt(page, n) == \A i \in Index : i < n <=> page[i].struct_size # 0

(* Pages as registrations make them: all full but the newest. *)
Shape(pages, n) ==
  /\ Len(pages) \in 1 .. MAX_PAGES
  /\ \A k \in 1 .. Len(pages) - 1 : Full(pages[k])
  /\ EndsAt(pages[Len(pages)], n)

PagesFillInTurn == registry # <<>> => \E n \in Index : Shape(registry, n)

NoPageBeforeInit == SYSTEM_PAGE_SIZE = 0 => registry = <<>>

At(place) == registry[place[1]][place[2]]

NamesUnique ==
  \A p, q \in Families : At(p).struct_name = At(q).struct_name => p = q

RInv ==
  /\ TypeOK
  /\ NoPageBeforeInit
  /\ PagesFillInTurn
  /\ NamesUnique
  /\ NoFamilyVanishes

-----------------------------------------------------------------------------
(* Where the iterations over a page end (ITERATE_PAGE_FAMILIES, mm.h). *)

(* The cursor stops at the end of the families ...                         *)
LEMMA CursorOfEnd ==
  ASSUME NEW page \in vm_page_for_families, NEW n \in Index, EndsAt(page, n)
  PROVE  Cursor(page) = n
<1> DEFINE S == {MAX_FAMILIES_PER_VM_PAGE} \cup {i \in Index : page[i].struct_size = 0}
<1>1. S \subseteq Nat
  BY RegistryAssumption DEF Index
<1>2. n \in S
  BY RegistryAssumption DEF EndsAt, Index
<1>3. \A i \in S : n <= i
  BY RegistryAssumption DEF EndsAt, Index
<1>4. \A x \in S : (\A y \in S : x <= y) => x = n
  BY <1>1, <1>2, <1>3
<1> HIDE DEF S
<1>5. Min(S) = n
  BY <1>2, <1>3, <1>4 DEF Min
<1> QED
  BY <1>5 DEF S, Cursor

(* ... or at the end of a full page.                                       *)
LEMMA CursorOfFull ==
  ASSUME NEW page \in vm_page_for_families, Full(page)
  PROVE  Cursor(page) = MAX_FAMILIES_PER_VM_PAGE
<1> DEFINE S == {MAX_FAMILIES_PER_VM_PAGE} \cup {i \in Index : page[i].struct_size = 0}
<1>1. S = {MAX_FAMILIES_PER_VM_PAGE}
  BY RegistryAssumption DEF Full, Index
<1>2. Min(S) = MAX_FAMILIES_PER_VM_PAGE
  BY <1>1, RegistryAssumption DEF Min
<1> QED
  BY <1>2 DEF Cursor

(* The families of some pages: Families is FamiliesOf(registry). *)
FamiliesOf(pages) == UNION {{k} \X (0 .. Cursor(pages[k]) - 1) : k \in DOMAIN pages}

Places(len, n) ==
  {place \in (1 .. len) \X Index :
     place[2] < IF place[1] < len THEN MAX_FAMILIES_PER_VM_PAGE ELSE n}

(* With no gaps the iterations visit all places up to the end.             *)
LEMMA PlacesOfFamilies ==
  ASSUME NEW pages \in Seq(vm_page_for_families), NEW n \in Index, Shape(pages, n)
  PROVE  FamiliesOf(pages) = Places(Len(pages), n)
<1>1. ASSUME NEW k \in 1 .. Len(pages)
      PROVE  Cursor(pages[k]) = IF k < Len(pages) THEN MAX_FAMILIES_PER_VM_PAGE ELSE n
  <2>1. pages[k] \in vm_page_for_families
    OBVIOUS
  <2>2. CASE k < Len(pages)
    <3>1. Full(pages[k])
      BY <2>2 DEF Shape
    <3> QED
      BY <2>1, <2>2, <3>1, CursorOfFull
  <2>3. CASE k = Len(pages)
    <3>1. EndsAt(pages[k], n)
      BY <2>3 DEF Shape
    <3> QED
      BY <2>1, <2>3, <3>1, CursorOfEnd
  <2> QED
    BY <2>2, <2>3
<1>2. DOMAIN pages = 1 .. Len(pages)
  OBVIOUS
<1>3. ASSUME NEW place \in FamiliesOf(pages)
      PROVE  place \in Places(Len(pages), n)
  <2>1. PICK k \in 1 .. Len(pages) : place \in {k} \X (0 .. Cursor(pages[k]) - 1)
    BY <1>2 DEF FamiliesOf
  <2>2. place = <<k, place[2]>> /\ place[2] \in 0 .. Cursor(pages[k]) - 1
    BY <2>1
  <2> QED
    BY <1>1, <2>2, RegistryAssumption DEF Places, Index
<1>4. ASSUME NEW place \in Places(Len(pages), n)
      PROVE  place \in FamiliesOf(pages)
  <2>1. place[1] \in 1 .. Len(pages) /\ place = <<place[1], place[2]>>
    BY DEF Places
  <2>2. place[2] \in 0 .. Cursor(pages[place[1]]) - 1
    BY <1>1, <2>1, RegistryAssumption DEF Places, Index
  <2>3. place \in {place[1]} \X (0 .. Cursor(pages[place[1]]) - 1)
    BY <2>1, <2>2
  <2> QED
    BY <1>2, <2>1, <2>3 DEF FamiliesOf
<1> QED
  BY <1>3, <1>4

(* A family that is found has a name, and a size a page may hold. *)
LEMMA FamiliesHaveSizes ==
  ASSUME NEW pages \in Seq(vm_page_for_families), NEW n \in Index, Shape(pages, n),
         NEW place \in Places(Len(pages), n)
  PROVE  /\ pages[place[1]][place[2]] \in vm_page_family
         /\ pages[place[1]][place[2]].struct_size \in 1 .. PAGE_SIZE
<1>1. /\ place[1] \in 1 .. Len(pages)
      /\ place[2] \in Index
      /\ place[2] < IF place[1] < Len(pages) THEN MAX_FAMILIES_PER_VM_PAGE ELSE n
  BY DEF Places
<1>2. pages[place[1]] \in [Index -> vm_page_family]
  BY <1>1 DEF vm_page_for_families
<1>3. pages[place[1]][place[2]] \in vm_page_family
  BY <1>1, <1>2
<1>4. pages[place[1]][place[2]].struct_size # 0
  BY <1>1 DEF Shape, Full, EndsAt
<1> QED
  BY <1>3, <1>4, RegistryAssumption DEF vm_page_family


-----------------------------------------------------------------------------
(* What a call can do to the families: nothing, or add one of a new name.  *)

Entries ==
  {[name  |-> registry[place[1]][place[2]].struct_name,
    size  |-> registry[place[1]][place[2]].struct_size,
    place |-> place] : place \in Families}

(* When no place changes, lookups go on as before.                         *)
LEMMA FamiliesStay ==
  ASSUME NamesUnique, Families' = Families, \A p \in Families : At(p)' = At(p)
  PROVE  NamesUnique' /\ Found' = Found /\ Entries' = Entries
<1>1. NamesUnique'
  BY DEF NamesUnique
<1>2. \A p \in Families : registry'[p[1]][p[2]] = registry[p[1]][p[2]]
  BY DEF At
<1>3. Found' = Found
  BY <1>2 DEF Found, Binding
<1>4. Entries' = Entries
  BY <1>2 DEF Entries
<1> QED
  BY <1>1, <1>3, <1>4

(* One more place with a new name is one more entry.                       *)
LEMMA OneMoreFamily ==
  ASSUME NamesUnique, NEW name, NEW size, NEW place,
         lookup_page_family_by_name(name) = {},
         Families' = Families \cup {place},
         \A p \in Families : At(p)' = At(p),
         At(place)' = [struct_name |-> name, struct_size |-> size]
  PROVE  /\ NamesUnique'
         /\ Found' = Found \cup {[name |-> name, size |-> size]}
         /\ Entries' = Entries \cup {[name |-> name, size |-> size, place |-> place]}
         /\ \A other \in Entries : other.name # name
<1>1. \A p \in Families : At(p).struct_name # name
  BY DEF lookup_page_family_by_name, At
<1>2. At(place)'.struct_name = name
  OBVIOUS
<1>3. NamesUnique'
  BY <1>1, <1>2 DEF NamesUnique
<1>4. /\ \A p \in Families : registry'[p[1]][p[2]] = registry[p[1]][p[2]]
      /\ registry'[place[1]][place[2]] = [struct_name |-> name, struct_size |-> size]
  BY DEF At
<1>5. Found' = Found \cup {[name |-> name, size |-> size]}
  BY <1>4 DEF Found, Binding
<1>6. Entries' = Entries \cup {[name |-> name, size |-> size, place |-> place]}
  BY <1>4 DEF Entries
<1>7. \A other \in Entries : other.name # name
  BY <1>1 DEF Entries, At
<1> QED
  BY <1>3, <1>5, <1>6, <1>7

(* The families, in a state of the invariant and in the next one. *)
LEMMA NoFamilies ==
  FamiliesOf(<<>>) = {}
  BY DEF FamiliesOf

(* Families, before and after a step.                                      *)
LEMMA FamiliesNow ==
  Families = FamiliesOf(registry) /\ Families' = FamiliesOf(registry')
  BY DEF Families, FamiliesOf

(* The places of the registry, and the cursor of its newest page.          *)
LEMMA FamilyPlaces ==
  ASSUME TypeOK, NEW n \in Index, Shape(registry, n)
  PROVE  /\ Families = Places(Len(registry), n)
         /\ Cursor(Newest) = n
<1>1. Len(registry) \in 1 .. MAX_PAGES /\ registry \in Seq(vm_page_for_families)
  BY DEF Shape, TypeOK
<1>2. Newest \in vm_page_for_families
  BY <1>1, RegistryAssumption DEF Newest
<1>3. EndsAt(Newest, n)
  BY DEF Newest, Shape
<1> QED
  BY <1>1, <1>2, <1>3, FamiliesNow, PlacesOfFamilies, CursorOfEnd

(* A page with one family more. *)
LEMMA WritePage ==
  ASSUME NEW page \in vm_page_for_families, NEW i \in Index,
         NEW name \in Name, NEW size \in 0 .. PAGE_SIZE
  PROVE  /\ Write(page, i, name, size) \in vm_page_for_families
         /\ Write(page, i, name, size)[i] = [struct_name |-> name, struct_size |-> size]
         /\ \A j \in Index \ {i} : Write(page, i, name, size)[j] = page[j]
  BY DEF Write, vm_page_for_families, vm_page_family

(* A fresh page has no families.                                           *)
LEMMA EmptyPage ==
  NewPage \in vm_page_for_families /\ EndsAt(NewPage, 0)
  BY RegistryAssumption DEF NewPage, EndsAt, vm_page_for_families, vm_page_family, Index

-----------------------------------------------------------------------------
(* mm_instantiate_new_page_family, one case of an accepted call after the  *)
(* other: what it makes of the families, of those past a page and of the   *)
(* directory.                                                              *)

Registers(name, size) ==
  \/ /\ size = 0
     /\ Found' = Found /\ Entries' = Entries
  \/ /\ size # 0
     /\ Found' = Found \cup {[name |-> name, size |-> size]}
     /\ \E place \in (1 .. MAX_PAGES) \X Index :
          /\ place \notin Families
          /\ Entries' = Entries \cup {[name |-> name, size |-> size, place |-> place]}
          /\ \A other \in Entries : other.name # name

(* The first family gets the first page.                                   *)
LEMMA FirstFamily ==
  ASSUME RInv, NEW name \in Name, NEW size \in 0 .. PAGE_SIZE,
         registry = <<>>,
         registry' = <<Write(NewPage, 0, name, size)>>
  PROVE  /\ registry' \in Seq(vm_page_for_families)
         /\ \E n \in Index : Shape(registry', n)
         /\ NamesUnique'
         /\ Registers(name, size)
         /\ PastPages' = PastPages
<1> DEFINE page == Write(NewPage, 0, name, size)
           n == IF size = 0 THEN 0 ELSE 1
<1>1. 0 \in Index /\ n \in Index
  BY RegistryAssumption DEF Index
<1>2. /\ page \in vm_page_for_families
      /\ page[0] = [struct_name |-> name, struct_size |-> size]
      /\ \A j \in Index \ {0} : page[j] = NewPage[j]
  BY <1>1, EmptyPage, WritePage
<1> HIDE DEF page
<1>3. EndsAt(page, n)
  BY <1>2, EmptyPage, RegistryAssumption DEF EndsAt, Index
<1>4. /\ registry' = <<page>>
      /\ registry' \in Seq(vm_page_for_families)
      /\ Len(registry') = 1
      /\ registry'[1] = page
  BY <1>2 DEF page
<1>5. Shape(registry', n)
  BY <1>3, <1>4, RegistryAssumption DEF Shape
<1>6. Families' = Places(1, n)
  BY <1>1, <1>4, <1>5, FamiliesNow, PlacesOfFamilies
<1>7. Families = {}
  BY FamiliesNow, NoFamilies
<1>8. PastPages' = PastPages
  <2>1. 1 .. Len(registry) - 1 = {} /\ 1 .. Len(registry') - 1 = {}
    BY <1>4
  <2>2. PastPages = {} /\ PastPages' = {}
    BY <2>1 DEF PastPages
  <2> QED
    BY <2>2
<1>9. CASE size = 0
  <2>1. Families' = Families
    BY <1>6, <1>7, <1>9 DEF Places, Index
  <2>2. NamesUnique' /\ Found' = Found /\ Entries' = Entries
    BY <1>7, <2>1, FamiliesStay DEF RInv
  <2> QED
    BY <1>1, <1>4, <1>5, <1>8, <1>9, <2>2 DEF Registers
<1>10. CASE size # 0
  <2>1. Places(1, 1) = {<<1, 0>>}
    BY RegistryAssumption DEF Places, Index
  <2>2. Families' = Families \cup {<<1, 0>>}
    BY <1>6, <1>7, <1>10, <2>1
  <2>3. At(<<1, 0>>)' = [struct_name |-> name, struct_size |-> size]
    BY <1>2, <1>4 DEF At
  <2>4. lookup_page_family_by_name(name) = {}
    BY <1>7 DEF lookup_page_family_by_name
  <2>5. /\ NamesUnique'
        /\ Found' = Found \cup {[name |-> name, size |-> size]}
        /\ Entries' = Entries \cup {[name |-> name, size |-> size, place |-> <<1, 0>>]}
        /\ \A other \in Entries : other.name # name
    BY <1>7, <2>2, <2>3, <2>4, OneMoreFamily DEF RInv
  <2>6. <<1, 0>> \in (1 .. MAX_PAGES) \X Index
    BY <1>1, RegistryAssumption
  <2>7. Registers(name, size)
    BY <1>7, <1>10, <2>5, <2>6 DEF Registers
  <2> QED
    BY <1>1, <1>4, <1>5, <1>8, <2>5, <2>7
<1> QED
  BY <1>9, <1>10

(* A family gets the next place of a page that is not full ...             *)
LEMMA NextFamily ==
  ASSUME RInv, NEW name \in Name, NEW size \in 0 .. PAGE_SIZE,
         registry # <<>>,
         lookup_page_family_by_name(name) = {},
         Cursor(Newest) < MAX_FAMILIES_PER_VM_PAGE,
         registry' = [registry EXCEPT ![Len(registry)] = Write(@, Cursor(@), name, size)]
  PROVE  /\ registry' \in Seq(vm_page_for_families)
         /\ \E n \in Index : Shape(registry', n)
         /\ NamesUnique'
         /\ Registers(name, size)
         /\ PastPages' = PastPages
<1> DEFINE L == Len(registry)
<1>1. PICK n \in Index : Shape(registry, n)
  BY DEF RInv, PagesFillInTurn
<1>2. /\ registry \in Seq(vm_page_for_families)
      /\ L \in 1 .. MAX_PAGES /\ L \in Nat \ {0}
      /\ Newest \in vm_page_for_families
      /\ Families = Places(L, n)
      /\ Cursor(Newest) = n
  <2>1. registry \in Seq(vm_page_for_families) /\ L \in 1 .. MAX_PAGES
    BY <1>1 DEF RInv, TypeOK, Shape
  <2> QED
    BY <1>1, <2>1, FamilyPlaces, RegistryAssumption DEF RInv, Newest
<1> DEFINE page == Write(Newest, n, name, size)
           m == IF size = 0 THEN n ELSE n + 1
<1>3. n < MAX_FAMILIES_PER_VM_PAGE /\ m \in Index
  BY <1>2, RegistryAssumption DEF Index
<1>4. /\ page \in vm_page_for_families
      /\ page[n] = [struct_name |-> name, struct_size |-> size]
      /\ \A j \in Index \ {n} : page[j] = Newest[j]
  BY <1>2, WritePage
<1>5. registry' = [registry EXCEPT ![L] = page]
  BY <1>2 DEF Newest
<1> HIDE DEF page
<1>6. /\ registry' \in Seq(vm_page_for_families)
      /\ Len(registry') = L
      /\ registry'[L] = page
      /\ \A k \in 1 .. L - 1 : registry'[k] = registry[k]
  BY <1>2, <1>4, <1>5
<1>7. EndsAt(page, m)
  <2>1. EndsAt(Newest, n)
    BY <1>1 DEF Shape, Newest
  <2> QED
    BY <1>3, <1>4, <2>1, RegistryAssumption DEF EndsAt, Index
<1>8. Shape(registry', m)
  BY <1>1, <1>2, <1>6, <1>7 DEF Shape
<1>9. Families' = Places(L, m)
  BY <1>3, <1>6, <1>8, FamiliesNow, PlacesOfFamilies
<1>10. \A p \in Families : At(p)' = At(p)
  <2> TAKE p \in Families
  <2>1. /\ p[1] \in 1 .. L /\ p[2] \in Index
        /\ p[2] < IF p[1] < L THEN MAX_FAMILIES_PER_VM_PAGE ELSE n
    BY <1>2 DEF Places
  <2>2. CASE p[1] < L
    <3>1. p[1] \in 1 .. L - 1
      BY <1>2, <2>1, <2>2
    <3> QED
      BY <1>6, <3>1 DEF At
  <2>3. CASE p[1] = L
    <3>1. p[2] \in Index \ {n}
      BY <2>1, <2>3, RegistryAssumption DEF Index
    <3> QED
      BY <1>4, <1>6, <2>3, <3>1 DEF At, Newest
  <2> QED
    BY <1>2, <2>1, <2>2, <2>3
<1>11. PastPages' = PastPages
  BY <1>6 DEF PastPages
<1>12. CASE size = 0
  <2>1. Families' = Families
    BY <1>2, <1>9, <1>12
  <2>2. NamesUnique' /\ Found' = Found /\ Entries' = Entries
    BY <1>10, <2>1, FamiliesStay DEF RInv
  <2> QED
    BY <1>3, <1>6, <1>8, <1>11, <1>12, <2>2 DEF Registers
<1>13. CASE size # 0
  <2>1. Places(L, n + 1) = Places(L, n) \cup {<<L, n>>}
    <3>1. ASSUME NEW p \in Places(L, n + 1) PROVE p \in Places(L, n) \cup {<<L, n>>}
      <4>1. /\ p[1] \in 1 .. L /\ p[2] \in Index /\ p = <<p[1], p[2]>>
            /\ p[2] < IF p[1] < L THEN MAX_FAMILIES_PER_VM_PAGE ELSE n + 1
        BY DEF Places
      <4>2. CASE p[2] < IF p[1] < L THEN MAX_FAMILIES_PER_VM_PAGE ELSE n
        BY <4>1, <4>2 DEF Places
      <4>3. CASE ~(p[2] < IF p[1] < L THEN MAX_FAMILIES_PER_VM_PAGE ELSE n)
        <5>1. p[1] = L /\ p[2] = n
          BY <1>2, <4>1, <4>3, RegistryAssumption DEF Index
        <5> QED
          BY <4>1, <5>1
      <4> QED
        BY <4>2, <4>3
    <3>2. ASSUME NEW p \in Places(L, n) PROVE p \in Places(L, n + 1)
      BY RegistryAssumption DEF Places, Index
    <3>3. <<L, n>> \in Places(L, n + 1)
      BY <1>2, RegistryAssumption DEF Places, Index
    <3> QED
      BY <3>1, <3>2, <3>3
  <2>2. Families' = Families \cup {<<L, n>>}
    BY <1>2, <1>9, <1>13, <2>1
  <2>3. At(<<L, n>>)' = [struct_name |-> name, struct_size |-> size]
    <3>1. registry'[L][n] = [struct_name |-> name, struct_size |-> size]
      BY <1>4, <1>6
    <3>2. registry'[<<L, n>>[1]][<<L, n>>[2]] = registry'[L][n]
      OBVIOUS
    <3> QED
      BY <3>1, <3>2 DEF At
  <2>4. /\ NamesUnique'
        /\ Found' = Found \cup {[name |-> name, size |-> size]}
        /\ Entries' = Entries \cup {[name |-> name, size |-> size, place |-> <<L, n>>]}
        /\ \A other \in Entries : other.name # name
    BY <1>10, <2>2, <2>3, OneMoreFamily DEF RInv
  <2>5. <<L, n>> \in (1 .. MAX_PAGES) \X Index /\ <<L, n>> \notin Families
    BY <1>2, RegistryAssumption DEF Places, Index
  <2>6. Registers(name, size)
    BY <1>13, <2>4, <2>5 DEF Registers
  <2> QED
    BY <1>3, <1>6, <1>8, <1>11, <2>4, <2>6
<1> QED
  BY <1>12, <1>13

(* ... and is written past the end of a full one.                          *)
LEMMA FamilyPastPage ==
  ASSUME RInv, NEW name \in Name, NEW size \in 0 .. PAGE_SIZE,
         registry # <<>>,
         Cursor(Newest) = MAX_FAMILIES_PER_VM_PAGE,
         Len(registry) < MAX_PAGES,
         registry' = Append([registry EXCEPT ![Len(registry)] =
                               Write(@, Cursor(@), name, size)],
                            NewPage)
  PROVE  /\ registry' \in Seq(vm_page_for_families)
         /\ \E n \in Index : Shape(registry', n)
         /\ NamesUnique' /\ Found' = Found /\ Entries' = Entries
         /\ PastPages' = PastPages \cup {[name |-> name, size |-> size]}
<1> DEFINE L == Len(registry)
           M == MAX_FAMILIES_PER_VM_PAGE
<1>1. PICK n \in Index : Shape(registry, n)
  BY DEF RInv, PagesFillInTurn
<1>2. /\ registry \in Seq(vm_page_for_families)
      /\ L \in 1 .. MAX_PAGES /\ L \in Nat \ {0}
      /\ Newest \in vm_page_for_families
      /\ Families = Places(L, n)
      /\ Cursor(Newest) = n
  <2>1. registry \in Seq(vm_page_for_families) /\ L \in 1 .. MAX_PAGES
    BY <1>1 DEF RInv, TypeOK, Shape
  <2> QED
    BY <1>1, <2>1, FamilyPlaces, RegistryAssumption DEF RInv, Newest
<1>3. n = M
  BY <1>2
<1> DEFINE page == Write(Newest, M, name, size)
<1>4. /\ page \in vm_page_for_families
      /\ page[M] = [struct_name |-> name, struct_size |-> size]
      /\ \A j \in Index \ {M} : page[j] = Newest[j]
  BY <1>1, <1>2, <1>3, WritePage
<1>5. registry' = Append([registry EXCEPT ![L] = page], NewPage)
  BY <1>2, <1>3 DEF Newest
<1> HIDE DEF page
<1>6. /\ registry' \in Seq(vm_page_for_families)
      /\ Len(registry') = L + 1
      /\ registry'[L + 1] = NewPage
      /\ registry'[L] = page
      /\ \A k \in 1 .. L - 1 : registry'[k] = registry[k]
  BY <1>2, <1>4, <1>5, EmptyPage
<1>7. Full(page)
  <2>1. EndsAt(Newest, M)
    BY <1>1, <1>3 DEF Shape, Newest
  <2> QED
    BY <1>4, <2>1, RegistryAssumption DEF EndsAt, Full, Index
<1>8. Shape(registry', 0)
  <2>1. \A k \in 1 .. L : Full(registry'[k])
    BY <1>1, <1>2, <1>6, <1>7 DEF Shape
  <2> QED
    BY <1>2, <1>6, <2>1, EmptyPage, RegistryAssumption DEF Shape
<1>9. Families' = Places(L + 1, 0)
  <2>1. 0 \in Index
    BY RegistryAssumption DEF Index
  <2>2. FamiliesOf(registry') = Places(Len(registry'), 0)
    BY <1>6, <1>8, <2>1, PlacesOfFamilies
  <2> QED
    BY <1>6, <2>2, FamiliesNow
<1>10. Families' = Families
  <2>1. Places(L + 1, 0) = Places(L, M)
    BY <1>2, RegistryAssumption DEF Places, Index
  <2> QED
    BY <1>2, <1>3, <1>9, <2>1
<1>11. \A p \in Families : At(p)' = At(p)
  <2> TAKE p \in Families
  <2>1. p[1] \in 1 .. L /\ p[2] \in Index \ {M}
    BY <1>2, <1>3, RegistryAssumption DEF Places, Index
  <2>2. CASE p[1] < L
    <3>1. p[1] \in 1 .. L - 1
      BY <1>2, <2>1, <2>2
    <3> QED
      BY <1>6, <3>1 DEF At
  <2>3. CASE p[1] = L
    BY <1>4, <1>6, <2>1, <2>3 DEF At, Newest
  <2> QED
    BY <1>2, <2>1, <2>2, <2>3
<1>12. NamesUnique' /\ Found' = Found /\ Entries' = Entries
  BY <1>10, <1>11, FamiliesStay DEF RInv
<1>13. PastPages' = PastPages \cup {[name |-> name, size |-> size]}
  <2>1. PastPages' = {Binding(registry'[k][M]) : k \in 1 .. L}
    BY <1>2, <1>6 DEF PastPages
  <2>2. Binding(registry'[L][M]) = [name |-> name, size |-> size]
    BY <1>4, <1>6 DEF Binding
  <2>3. \A k \in 1 .. L - 1 : Binding(registry'[k][M]) = Binding(registry[k][M])
    BY <1>6
  <2>4. 1 .. L = (1 .. L - 1) \cup {L}
    BY <1>2
  <2> HIDE DEF L
  <2> QED
    BY <2>1, <2>2, <2>3, <2>4 DEF PastPages, L
<1> QED
  BY <1>6, <1>8, <1>12, <1>13, RegistryAssumption DEF Index

-----------------------------------------------------------------------------
(* The invariant, and the step of the directory, from what a call does.    *)

Keeps == RInv' /\ (Entries' = Entries \/ \E entry \in Directory!Entry : Directory!Register(entry))

(* A call that is refused, or ends in a fault.                             *)
LEMMA KeepsWhenUnchanged ==
  ASSUME RInv, UNCHANGED <<registry, registered>>,
         SYSTEM_PAGE_SIZE' \in {SYSTEM_PAGE_SIZE, PAGE_SIZE}, fault' \in Faults
  PROVE  Keeps
<1>1. Families' = Families
  BY FamiliesNow
<1>2. NamesUnique' /\ Found' = Found /\ Entries' = Entries
  BY <1>1, FamiliesStay DEF RInv, At
<1>3. TypeOK' /\ NoPageBeforeInit'
  BY RegistryAssumption DEF RInv, TypeOK, NoPageBeforeInit
<1>4. PagesFillInTurn'
  BY DEF RInv, PagesFillInTurn
<1>5. NoFamilyVanishes'
  BY <1>2 DEF RInv, NoFamilyVanishes, PastPages
<1> QED
  BY <1>2, <1>3, <1>4, <1>5 DEF RInv, Keeps

(* An accepted registration keeps the types and the pages filled in turn.  *)
LEMMA TypeAfterAccept ==
  ASSUME RInv, NEW name \in Name, NEW size \in 0 .. PAGE_SIZE,
         SYSTEM_PAGE_SIZE # 0,
         Accept(name, size, registry'),
         registry' \in Seq(vm_page_for_families),
         \E n \in Index : Shape(registry', n)
  PROVE  TypeOK' /\ NoPageBeforeInit' /\ PagesFillInTurn'
<1>1. registered' \subseteq [name : Name, size : 1 .. PAGE_SIZE]
  BY RegistryAssumption DEF RInv, TypeOK, Accept
<1> QED
  BY <1>1 DEF RInv, TypeOK, Accept, NoPageBeforeInit, PagesFillInTurn

(* A family that lookups find is a new entry of the directory.             *)
LEMMA KeepsWhenRegistered ==
  ASSUME RInv, NEW name \in Name, NEW size \in 0 .. PAGE_SIZE,
         SYSTEM_PAGE_SIZE # 0,
         Accept(name, size, registry'),
         registry' \in Seq(vm_page_for_families),
         \E n \in Index : Shape(registry', n),
         NamesUnique', Registers(name, size), PastPages' = PastPages
  PROVE  Keeps
<1>1. TypeOK' /\ NoPageBeforeInit' /\ PagesFillInTurn'
  BY TypeAfterAccept
<1>2. CASE size = 0
  <2>1. Found' = Found /\ Entries' = Entries
    BY <1>2 DEF Registers
  <2>2. NoFamilyVanishes'
    BY <1>2, <2>1 DEF RInv, NoFamilyVanishes, Accept
  <2> QED
    BY <1>1, <2>1, <2>2 DEF RInv, Keeps
<1>3. CASE size # 0
  <2>1. Found' = Found \cup {[name |-> name, size |-> size]}
    BY <1>3 DEF Registers
  <2>2. PICK place \in (1 .. MAX_PAGES) \X Index :
          /\ place \notin Families
          /\ Entries' = Entries \cup {[name |-> name, size |-> size, place |-> place]}
          /\ \A other \in Entries : other.name # name
    BY <1>3 DEF Registers
  <2>3. NoFamilyVanishes'
    BY <1>3, <2>1 DEF RInv, NoFamilyVanishes, Accept
  <2> DEFINE entry == [name |-> name, size |-> size, place |-> place]
  <2>4. entry \in Directory!Entry
    BY <1>3, RegistryAssumption DEF Directory!Entry
  <2>5. \A other \in Entries : other.place # place
    BY <2>2 DEF Entries
  <2>6. Directory!Register(entry)
    BY <2>2, <2>5 DEF Directory!Register, Entries
  <2> QED
    BY <1>1, <2>3, <2>4, <2>6 DEF RInv, Keeps
<1> QED
  BY <1>2, <1>3

(* A family written past the end is none.                                  *)
LEMMA KeepsWhenPastPage ==
  ASSUME RInv, NEW name \in Name, NEW size \in 0 .. PAGE_SIZE,
         SYSTEM_PAGE_SIZE # 0,
         Accept(name, size, registry'),
         registry' \in Seq(vm_page_for_families),
         \E n \in Index : Shape(registry', n),
         NamesUnique', Found' = Found, Entries' = Entries,
         PastPages' = PastPages \cup {[name |-> name, size |-> size]}
  PROVE  Keeps
<1>1. TypeOK' /\ NoPageBeforeInit' /\ PagesFillInTurn'
  BY TypeAfterAccept
<1>2. NoFamilyVanishes'
  BY DEF RInv, NoFamilyVanishes, Accept
<1> QED
  BY <1>1, <1>2 DEF RInv, Keeps

(* Every call keeps the invariant, and takes a step of the directory. *)
LEMMA StepKeeps ==
  ASSUME RInv, [Next]_vars
  PROVE  Keeps
<1>1. SYSTEM_PAGE_SIZE \in {0, PAGE_SIZE} /\ fault \in Faults
  BY DEF RInv, TypeOK
<1>2. CASE mm_init
  BY <1>1, <1>2, KeepsWhenUnchanged DEF mm_init
<1>3. ASSUME NEW name \in Name, NEW size \in Size,
             mm_instantiate_new_page_family(name, size)
      PROVE  Keeps
  <2>1. CASE RegisterRefused(name, size)
    BY <1>1, <2>1, KeepsWhenUnchanged DEF RegisterRefused, vars
  <2>2. ASSUME NEW kind \in Faults, Crash(kind)
        PROVE  Keeps
    BY <1>1, <2>2, KeepsWhenUnchanged DEF Crash
  <2>3. ~TooBig(size) => size \in 0 .. PAGE_SIZE
    BY <1>1, RegistryAssumption DEF TooBig
  <2>4. registry # <<>> => SYSTEM_PAGE_SIZE # 0
    BY DEF RInv, NoPageBeforeInit
  <2>5. CASE RegisterFirst(name, size)
    <3>1. CASE Crash("null_page")
      BY <2>2, <3>1 DEF Faults
    <3>2. CASE SYSTEM_PAGE_SIZE # 0 /\ Accept(name, size, <<Write(NewPage, 0, name, size)>>)
      <4>1. /\ registry = <<>> /\ size \in 0 .. PAGE_SIZE
            /\ registry' = <<Write(NewPage, 0, name, size)>>
            /\ Accept(name, size, registry')
        BY <2>3, <2>5, <3>2 DEF RegisterFirst, Accept
      <4> QED
        BY <3>2, <4>1, FirstFamily, KeepsWhenRegistered
    <3> QED
      BY <2>5, <3>1, <3>2 DEF RegisterFirst
  <2>6. CASE RegisterTwice(name, size)
    BY <2>2, <2>6 DEF RegisterTwice, Faults
  <2>7. CASE RegisterNext(name, size)
    <3>1. /\ registry # <<>> /\ size \in 0 .. PAGE_SIZE
          /\ lookup_page_family_by_name(name) = {}
          /\ Cursor(Newest) < MAX_FAMILIES_PER_VM_PAGE
          /\ registry' = [registry EXCEPT ![Len(registry)] = Write(@, Cursor(@), name, size)]
          /\ Accept(name, size, registry')
      BY <2>3, <2>7 DEF RegisterNext, Accept
    <3> QED
      BY <2>4, <3>1, NextFamily, KeepsWhenRegistered
  <2>8. CASE RegisterPastPage(name, size)
    <3>1. CASE Crash("null_page") \/ Crash("past_page")
      BY <2>2, <3>1 DEF Faults
    <3>2. CASE ~(Crash("null_page") \/ Crash("past_page"))
      <4>1. /\ registry # <<>> /\ size \in 0 .. PAGE_SIZE
            /\ Cursor(Newest) = MAX_FAMILIES_PER_VM_PAGE
            /\ Len(registry) < MAX_PAGES
            /\ registry' = Append([registry EXCEPT ![Len(registry)] =
                                     Write(@, Cursor(@), name, size)], NewPage)
            /\ Accept(name, size, registry')
        BY <2>3, <2>8, <3>2 DEF RegisterPastPage, Accept
      <4> QED
        BY <2>4, <4>1, FamilyPastPage, KeepsWhenPastPage
    <3> QED
      BY <3>1, <3>2
  <2> QED
    BY <1>3, <2>1, <2>5, <2>6, <2>7, <2>8 DEF mm_instantiate_new_page_family
<1>4. CASE mm_print_usage
  BY <1>1, <1>4, KeepsWhenUnchanged DEF mm_print_usage, Crash, Faults
<1>5. CASE UNCHANGED vars
  BY <1>1, <1>5, KeepsWhenUnchanged DEF vars
<1> QED
  BY <1>2, <1>3, <1>4, <1>5 DEF Next

(* No family is registered at the start.                                   *)
LEMMA InitKeeps ==
  Init => RInv /\ Entries = {}
<1> SUFFICES ASSUME Init PROVE RInv /\ Entries = {}
  OBVIOUS
<1>1. registry = <<>> /\ Families = {}
  BY FamiliesNow, NoFamilies DEF Init
<1>2. TypeOK /\ NoPageBeforeInit /\ PagesFillInTurn
  BY <1>1 DEF Init, TypeOK, Faults, NoPageBeforeInit, PagesFillInTurn
<1>3. NamesUnique /\ Entries = {} /\ Found = {}
  BY <1>1 DEF NamesUnique, Entries, Found
<1>4. PastPages = {}
  <2>1. 1 .. Len(registry) - 1 = {}
    BY <1>1
  <2> QED
    BY <2>1 DEF PastPages
<1> QED
  BY <1>2, <1>3, <1>4 DEF RInv, NoFamilyVanishes, Init

-----------------------------------------------------------------------------
(* The theorems *)

(* The registry's invariant holds in every state: pages fill one after the *)
(* other, a page's families have no gap, and no two families share a name. *)
THEOREM Invariance == Spec => []RInv
<1>1. RInv /\ [Next]_vars => RInv'
  BY StepKeeps DEF Keeps
<1> QED
  BY <1>1, InitKeeps, PTL DEF Spec

(* Registrations keep the registry's types: no size of more than a page is *)
(* ever registered, before mm_init has run or after it.                    *)
THEOREM TypeCorrect == Spec => []TypeOK
<1>1. RInv => TypeOK
  BY DEF RInv
<1> QED
  BY <1>1, Invariance, PTL

(* The families that mm_instantiate_new_page_family has accepted are those *)
(* that lookups find and those it wrote past the end of a full page.       *)
THEOREM Vanishing == Spec => []NoFamilyVanishes
<1>1. RInv => NoFamilyVanishes
  BY DEF RInv
<1> QED
  BY <1>1, Invariance, PTL

(* The registry implements the directory: a name is registered once, and   *)
(* its family keeps its size and its address for ever.                     *)
THEOREM DirectoryImplemented == Spec => ImplementsDirectory
<1>1. Init => Entries = {}
  BY InitKeeps
<1>2. RInv /\ [Next]_vars =>
        [\E entry \in Directory!Entry : Directory!Register(entry)]_Entries
  BY StepKeeps DEF Keeps
<1> QED
  BY <1>1, <1>2, Invariance, PTL DEF Spec, ImplementsDirectory, Directory!Spec, Entries

=============================================================================
