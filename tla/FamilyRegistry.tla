---------------------------- MODULE FamilyRegistry ----------------------------
(***************************************************************************)
(* The registry of page families (mm.c, mm.h): pages that each hold an     *)
(* array of vm_page_family_t, which the first family of size 0 ends.  The  *)
(* newest page is the head of their list.  Families are never removed.     *)
(*                                                                         *)
(* A registration on a full page puts a new page at the head and writes    *)
(* its family behind the old page's array.  That family ends after the     *)
(* page: the program may get a signal or destroy other memory, which ends  *)
(* the behaviour, or hit memory nobody uses, and go on.                    *)
(***************************************************************************)
EXTENDS Naturals, Sequences, FiniteSetsExt

CONSTANTS
  Name,                      \* names, as far as strncmp compares them
  Size,                      \* the struct_sizes that callers register
  PAGE_SIZE,                 \* getpagesize()
  MAX_FAMILIES_PER_VM_PAGE,
  MAX_PAGES,                 \* pages of families (bounds the model)
  EMPTY                      \* the struct_name of zero-filled memory

ASSUME RegistryAssumption ==
  /\ Size \subseteq Nat
  /\ PAGE_SIZE \in Nat \ {0}
  /\ MAX_FAMILIES_PER_VM_PAGE \in Nat \ {0}
  /\ MAX_PAGES \in Nat \ {0}
  /\ EMPTY \notin Name

VARIABLES
  SYSTEM_PAGE_SIZE,
  registry,    \* the pages of families, oldest first: the last one is the head
  registered,  \* history: name and size of the families the API has accepted
  fault        \* "none", or how the last call ended the program

vars == <<SYSTEM_PAGE_SIZE, registry, registered, fault>>

(* The array of a page, and at MAX_FAMILIES_PER_VM_PAGE what is behind it. *)
Index == 0 .. MAX_FAMILIES_PER_VM_PAGE

vm_page_family == [struct_name : Name \cup {EMPTY}, struct_size : 0 .. PAGE_SIZE]

vm_page_for_families == [Index -> vm_page_family]

Faults == {"none",
           "null_page",   \* mmap failed, and NULL is written through
           "no_page",     \* the statistics read the head of an empty list
           "past_page",   \* a family is written over what follows its page
           "assert"}      \* assert(0): the name is registered already

TypeOK ==
  /\ SYSTEM_PAGE_SIZE \in {0, PAGE_SIZE}
  /\ registry \in Seq(vm_page_for_families)
  /\ registered \subseteq [name : Name, size : 1 .. PAGE_SIZE]
  /\ fault \in Faults

Crash(kind) ==
  /\ fault' = kind
  /\ UNCHANGED <<SYSTEM_PAGE_SIZE, registry, registered>>

-----------------------------------------------------------------------------
(* Seeded faults of the definitions below, to see the properties fail.     *)

TooBig_Never(size) == FALSE

Cursor_OneShort(page) ==
  Min({MAX_FAMILIES_PER_VM_PAGE - 1} \cup {i \in Index : page[i].struct_size = 0})

lookup_page_family_by_name_HeadOnly(name) ==
  {place \in (DOMAIN registry) \X Index :
     /\ place[1] = Len(registry)
     /\ registry[place[1]][place[2]].struct_size # 0
     /\ registry[place[1]][place[2]].struct_name = name}

-----------------------------------------------------------------------------
NewPage == [i \in Index |-> [struct_name |-> EMPTY, struct_size |-> 0]]

(* Where ITERATE_PAGE_FAMILIES leaves its cursor ... *)
Cursor(page) ==
  Min({MAX_FAMILIES_PER_VM_PAGE} \cup {i \in Index : page[i].struct_size = 0})

(* ... and the families it has been at, as pairs of a page and an index.   *)
Families == UNION {{k} \X (0 .. Cursor(registry[k]) - 1) : k \in DOMAIN registry}

lookup_page_family_by_name(name) ==
  {place \in Families : registry[place[1]][place[2]].struct_name = name}

TooBig(size) == size > SYSTEM_PAGE_SIZE

Write(page, i, name, size) ==
  [page EXCEPT ![i] = [struct_name |-> name, struct_size |-> size]]

Newest == registry[Len(registry)]

(* The call returns, and its family has been written. *)
Accept(name, size, pages) ==
  /\ registry' = pages
  /\ registered' = registered \cup
                     (IF size = 0 THEN {} ELSE {[name |-> name, size |-> size]})
  /\ UNCHANGED <<SYSTEM_PAGE_SIZE, fault>>

-----------------------------------------------------------------------------
mm_init ==
  /\ fault = "none"
  /\ SYSTEM_PAGE_SIZE' = PAGE_SIZE
  /\ UNCHANGED <<registry, registered, fault>>

(* "Size exceeds system page size": before mm_init, of every size but 0.   *)
RegisterRefused(name, size) ==
  /\ fault = "none"
  /\ TooBig(size)
  /\ UNCHANGED vars

(* Before mm_init the kernel is asked for a page of length 0, which fails. *)
RegisterFirst(name, size) ==
  /\ fault = "none" /\ ~TooBig(size)
  /\ registry = <<>>
  /\ \/ Crash("null_page")
     \/ /\ SYSTEM_PAGE_SIZE # 0
        /\ Accept(name, size, <<Write(NewPage, 0, name, size)>>)

RegisterTwice(name, size) ==
  /\ fault = "none" /\ ~TooBig(size)
  /\ lookup_page_family_by_name(name) # {}
  /\ Crash("assert")

RegisterNext(name, size) ==
  /\ fault = "none" /\ ~TooBig(size)
  /\ registry # <<>>
  /\ lookup_page_family_by_name(name) = {}
  /\ Cursor(Newest) < MAX_FAMILIES_PER_VM_PAGE
  /\ Accept(name, size,
            [registry EXCEPT ![Len(registry)] = Write(@, Cursor(@), name, size)])

(* The cursor is that of the old head, which the new page does not change. *)
RegisterPastPage(name, size) ==
  /\ fault = "none" /\ ~TooBig(size)
  /\ registry # <<>>
  /\ lookup_page_family_by_name(name) = {}
  /\ Cursor(Newest) = MAX_FAMILIES_PER_VM_PAGE
  /\ \/ Crash("null_page")
     \/ Crash("past_page")
     \/ /\ Len(registry) < MAX_PAGES
        /\ Accept(name, size,
                  Append([registry EXCEPT ![Len(registry)] =
                            Write(@, Cursor(@), name, size)],
                         NewPage))

mm_instantiate_new_page_family(name, size) ==
  \/ RegisterRefused(name, size)
  \/ RegisterFirst(name, size)
  \/ RegisterTwice(name, size)
  \/ RegisterNext(name, size)
  \/ RegisterPastPage(name, size)

(* mm_print_block_usage and mm_print_memory_usage begin with the array of  *)
(* the head; they change nothing.                                          *)
mm_print_usage ==
  /\ fault = "none"
  /\ registry = <<>>
  /\ Crash("no_page")

Init ==
  /\ SYSTEM_PAGE_SIZE = 0
  /\ registry = <<>>
  /\ registered = {}
  /\ fault = "none"

Next ==
  \/ mm_init
  \/ \E name \in Name, size \in Size : mm_instantiate_new_page_family(name, size)
  \/ mm_print_usage

Spec == Init /\ [][Next]_vars

-----------------------------------------------------------------------------
(* Properties *)

Binding(family) == [name |-> family.struct_name, size |-> family.struct_size]

(* Families that lookups find, and families that were written past the end *)
(* of a page's array.                                                      *)
Found == {Binding(registry[place[1]][place[2]]) : place \in Families}

PastPages ==
  {Binding(registry[k][MAX_FAMILIES_PER_VM_PAGE]) : k \in 1 .. Len(registry) - 1}

(* Of the families the API has accepted, exactly those are lost that came  *)
(* when a page was full: a family of size 0, which ends the iterations and *)
(* is overwritten, hides or takes the place of no other, and a new head    *)
(* hides none of the older pages'.                                         *)
NoFamilyVanishes ==
  registered = Found \cup {lost \in PastPages : lost.size # 0}

Directory == INSTANCE FamilyDirectory WITH
               PageSize  <- PAGE_SIZE,
               Place     <- (1 .. MAX_PAGES) \X Index,
               directory <- {[name  |-> registry[place[1]][place[2]].struct_name,
                              size  |-> registry[place[1]][place[2]].struct_size,
                              place |-> place] : place \in Families}

(* Once a lookup finds a family it always finds the same one: a name has   *)
(* one family, of one size between 1 and a page, at one address, where the *)
(* pages' pg_family leads.  A registration past a page registers nothing.  *)
ImplementsDirectory == Directory!Spec

=============================================================================
