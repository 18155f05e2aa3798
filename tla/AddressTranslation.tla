-------------------------- MODULE AddressTranslation --------------------------
(***************************************************************************)
(* Address translation (addrTranslate.c): a page table, a TLB and frames   *)
(* that are given out by least use.  main translates the addresses of a    *)
(* file one by one, then testInput reads the file again, and the byte at   *)
(* each address.  The program is sequential: one translation and one round *)
(* of testInput are a step each.                                           *)
(***************************************************************************)
EXTENDS Integers, FiniteSets

CONSTANTS
  NUM_PAGES, NUM_FRAMES, TLB_SIZE, PAGE_SIZE,
  Address,         \* the addresses that addresses.txt may hold
  MAX_REFERENCES,  \* its length (bounds the model)
  MAX_TIME         \* the seconds the run may take (bounds the model)

(* 256, 256, 16 and 256: every page can have a frame of its own.           *)
ASSUME SizesAssumption ==
  /\ NUM_PAGES \in Nat \ {0}
  /\ NUM_FRAMES \in Nat /\ NUM_PAGES <= NUM_FRAMES
  /\ TLB_SIZE \in Nat \ {0}
  /\ PAGE_SIZE \in Nat \ {0}
  /\ Address \subseteq Int
  /\ MAX_REFERENCES \in Nat
  /\ MAX_TIME \in Nat \ {0}

VirtualPage == 0 .. NUM_PAGES - 1
Frame       == 0 .. NUM_FRAMES - 1
TlbIndex    == 0 .. TLB_SIZE - 1

VARIABLES
  page_table,           \* per page: valid_bit and frame_number, -1 for none
  tlb,                  \* per index: page, frame and time of the last load
  memory,               \* per frame: the page whose bytes it holds, -1 for none
  memory_access_times,  \* per frame: how often it has been given out
  page_faults,
  tlb_hits,
  references,           \* the addresses main has read so far, in number ...
  output,               \* ... and the distinct pairs <<address, result>>
  time,                 \* time(NULL), in seconds since the epoch
  unread,               \* how many of the addresses testInput has yet to read
  ending,               \* what follows the last of them, once main knows
  pc                    \* "main", "test", or how the program ended

translation == <<page_table, tlb, memory, memory_access_times, page_faults, tlb_hits>>

vars == <<translation, references, output, time, unread, ending, pc>>

(* After the last number the file ends at once, after white space, or goes *)
(* on with something that is no number.                                    *)
Endings == {"digit", "space", "word"}

TypeOK ==
  /\ page_table \in [VirtualPage -> [valid_bit : {0, 1}, frame_number : Frame \cup {-1}]]
  /\ tlb \in [TlbIndex -> [virtual_page_number   : VirtualPage \cup {-1},
                           physical_frame_number : Frame \cup {-1},
                           last_accessed_time    : Nat]]
  /\ memory \in [Frame -> VirtualPage \cup {-1}]
  /\ memory_access_times \in [Frame -> Nat]
  /\ page_faults \in Nat
  /\ tlb_hits \in Nat
  /\ references \in 0 .. MAX_REFERENCES
  /\ output \subseteq Address \X Int
  /\ time \in 1 .. MAX_TIME
  /\ unread \in 0 .. references
  /\ ending \in Endings \cup {"unknown"}
  /\ pc \in {"main", "test", "done", "exit", "out_of_bounds"}

-----------------------------------------------------------------------------
(* Seeded faults of the definitions below, to see the properties fail.     *)

Charged_Never(frame) == UNCHANGED memory_access_times

add_tlb_entry_NoTime(page, frame) ==
  LET i == CHOOSE j \in TlbIndex : \A k \in TlbIndex :
             \/ tlb[j].last_accessed_time < tlb[k].last_accessed_time
             \/ tlb[j].last_accessed_time = tlb[k].last_accessed_time /\ j <= k
  IN  [tlb EXCEPT ![i].virtual_page_number = page, ![i].physical_frame_number = frame]

add_tlb_entry_PageAsFrame(page, frame) ==
  LET i == CHOOSE j \in TlbIndex : \A k \in TlbIndex :
             \/ tlb[j].last_accessed_time < tlb[k].last_accessed_time
             \/ tlb[j].last_accessed_time = tlb[k].last_accessed_time /\ j <= k
  IN  [tlb EXCEPT ![i] = [virtual_page_number   |-> page,
                          physical_frame_number |-> page,
                          last_accessed_time    |-> time]]

set_page_table_entry_StaysInvalid(page, valid, frame) ==
  [page_table EXCEPT ![page].frame_number = frame]

set_page_table_entry_ForgetsFrame(page, valid, frame) ==
  [page_table EXCEPT ![page].valid_bit = valid]

set_page_table_entry_Swapped(page, valid, frame) ==
  [page_table EXCEPT ![page] = [valid_bit |-> frame, frame_number |-> valid]]

feof_Never == FALSE

Rem_Divided(address) == address \div PAGE_SIZE

-----------------------------------------------------------------------------
(* Division of int in C: towards zero, and the remainder has address's sign *)
Quot(address) ==
  IF address >= 0 THEN address \div PAGE_SIZE ELSE -((-address) \div PAGE_SIZE)

Rem(address) == address - PAGE_SIZE * Quot(address)

get_tlb_entry(page) == {i \in TlbIndex : tlb[i].virtual_page_number = page}

(* What get_page_table_entry adds to tlb_hits; the entry is that of page.  *)
Hits(page) == IF get_tlb_entry(page) # {} THEN 1 ELSE 0

set_page_table_entry(page, valid, frame) ==
  [page_table EXCEPT ![page] = [valid_bit |-> valid, frame_number |-> frame]]

(* The first of the entries, or of the frames, whose key is least.         *)
Oldest == CHOOSE i \in TlbIndex : \A j \in TlbIndex :
            \/ tlb[i].last_accessed_time < tlb[j].last_accessed_time
            \/ tlb[i].last_accessed_time = tlb[j].last_accessed_time /\ i <= j

add_tlb_entry(page, frame) ==
  [tlb EXCEPT ![Oldest] = [virtual_page_number   |-> page,
                           physical_frame_number |-> frame,
                           last_accessed_time    |-> time]]

findLRUFrame == CHOOSE f \in Frame : \A g \in Frame :
                  \/ memory_access_times[f] < memory_access_times[g]
                  \/ memory_access_times[f] = memory_access_times[g] /\ f <= g

Charged(frame) == memory_access_times' = [memory_access_times EXCEPT ![frame] = @ + 1]

(* The read from the backing store is commented out: memory stays as it is. *)
handle_page_fault(page) ==
  LET frame == findLRUFrame
  IN  /\ Charged(frame)
      /\ page_table' = set_page_table_entry(page, 1, frame)
      /\ tlb' = add_tlb_entry(page, frame)
      /\ UNCHANGED memory

-----------------------------------------------------------------------------
Physical(address) == page_table'[Quot(address)].frame_number * PAGE_SIZE + Rem(address)

(* main reads one more address and writes its translation. *)
Reference(address) ==
  /\ pc = "main"
  /\ references < MAX_REFERENCES
  /\ references' = references + 1
  /\ UNCHANGED <<time, unread, ending>>

(* "Error: Invalid virtual page number". *)
TranslateInvalid(address) ==
  /\ Reference(address)
  /\ Quot(address) \notin VirtualPage
  /\ output' = output \cup {<<address, -1>>}
  /\ UNCHANGED <<translation, pc>>

TranslateLoaded(address) ==
  /\ Reference(address)
  /\ Quot(address) \in VirtualPage
  /\ page_table[Quot(address)].valid_bit = 1
  /\ tlb_hits' = tlb_hits + Hits(Quot(address))
  /\ UNCHANGED <<page_table, tlb, memory, memory_access_times, page_faults, pc>>
  /\ output' = output \cup {<<address, Physical(address)>>}

(* The page table is looked up before the fault, in set_page_table_entry,  *)
(* and after it, when the TLB has the page.                                *)
TranslateFaulting(address) ==
  LET page == Quot(address)
  IN  /\ Reference(address)
      /\ page \in VirtualPage
      /\ page_table[page].valid_bit = 0
      /\ page_faults' = page_faults + 1
      /\ handle_page_fault(page)
      /\ tlb_hits' = tlb_hits + 2 * Hits(page) + 1
      /\ output' = output \cup {<<address, Physical(address)>>}
      /\ UNCHANGED pc

(* The backing store cannot be opened: exit(1), with no output. *)
TranslateFails(address) ==
  /\ Reference(address)
  /\ Quot(address) \in VirtualPage
  /\ page_table[Quot(address)].valid_bit = 0
  /\ page_faults' = page_faults + 1
  /\ tlb_hits' = tlb_hits + Hits(Quot(address))
  /\ pc' = "exit"
  /\ UNCHANGED <<page_table, tlb, memory, memory_access_times, output>>

(* fscanf gives main no more numbers; testInput reads the same file.       *)
StartTest ==
  /\ pc = "main"
  /\ pc' = "test"
  /\ unread' = references
  /\ ending' \in Endings
  /\ UNCHANGED <<translation, references, output, time>>

(* The page number of testInput, modulo NUM_PAGES as in C, and its read of  *)
(* memory[frame_idx][offset].                                              *)
TestPage(address) ==
  IF Quot(address) >= 0 THEN Quot(address) % NUM_PAGES ELSE -((-Quot(address)) % NUM_PAGES)

InMemory(address) ==
  /\ TestPage(address) \in VirtualPage
  /\ page_table[TestPage(address)].frame_number \in Frame
  /\ Rem(address) \in 0 .. PAGE_SIZE - 1

(* The next read meets the end of the file, which feof tells afterwards:   *)
(* that of the last number if nothing follows it, else one that finds none. *)
(* fscanf stays in front of a word for ever.                               *)
feof ==
  IF unread > 0 THEN unread = 1 /\ ending = "digit" ELSE ending # "word"

(* The values of address after the read: a number of the file, in any      *)
(* order, or the one before if there is none; no value if there never was. *)
ReadAddress == IF references = 0 THEN Address ELSE {result[1] : result \in output}

testInput ==
  /\ pc = "test"
  /\ unread' = IF unread > 0 THEN unread - 1 ELSE 0
  /\ \E address \in ReadAddress :
       pc' = IF ~InMemory(address) THEN "out_of_bounds" ELSE IF feof THEN "done" ELSE "test"
  /\ UNCHANGED <<translation, references, output, time, ending>>

(* A second passes. *)
Tick ==
  /\ pc = "main"
  /\ time < MAX_TIME
  /\ time' = time + 1
  /\ UNCHANGED <<translation, references, output, unread, ending, pc>>

Init ==
  /\ page_table = [p \in VirtualPage |-> [valid_bit |-> 0, frame_number |-> -1]]
  /\ tlb = [i \in TlbIndex |-> [virtual_page_number |-> -1, physical_frame_number |-> -1,
                                last_accessed_time |-> 0]]
  /\ memory = [f \in Frame |-> -1]
  /\ memory_access_times = [f \in Frame |-> 0]
  /\ page_faults = 0
  /\ tlb_hits = 0
  /\ references = 0
  /\ output = {}
  /\ time = 1
  /\ unread = 0
  /\ ending = "unknown"
  /\ pc = "main"

translate_address(address) ==
  \/ TranslateInvalid(address)
  \/ TranslateLoaded(address)
  \/ TranslateFaulting(address)
  \/ TranslateFails(address)

Program ==
  \/ \E address \in Address : translate_address(address)
  \/ StartTest
  \/ testInput

Next == Program \/ Tick

Spec == Init /\ [][Next]_vars

(* The program is one thread: it goes on as long as it can. *)
FairSpec == Spec /\ WF_vars(Program)

-----------------------------------------------------------------------------
(* Properties *)

Valid(p) == page_table[p].valid_bit = 1

InSpace(address) == address \in 0 .. NUM_PAGES * PAGE_SIZE - 1

(* No two loaded pages share a frame: findLRUFrame only counts how often   *)
(* it gave a frame out, which is enough while there is a frame per page.   *)
FramesExclusive ==
  \A p, q \in VirtualPage :
    Valid(p) => /\ page_table[p].frame_number \in Frame
                /\ Valid(q) /\ p # q => page_table[p].frame_number # page_table[q].frame_number

(* The TLB has a page once, with the frame of its valid page table entry.  *)
TlbCoherent ==
  \A i, j \in TlbIndex :
    LET page == tlb[i].virtual_page_number
    IN  page # -1 =>
          /\ page_table[page] = [valid_bit |-> 1, frame_number |-> tlb[i].physical_frame_number]
          /\ tlb[j].virtual_page_number = page => i = j

(* A page faults once: it stays loaded, and is not loaded again.           *)
OneFaultPerPage ==
  page_faults = Cardinality({p \in VirtualPage : Valid(p)}) + (IF pc = "exit" THEN 1 ELSE 0)

(* Over the whole run, an address always has the same translation, and two *)
(* addresses of the virtual space never have the same one.                 *)
TranslationIsInjective ==
  \A r, s \in output :
    InSpace(r[1]) /\ InSpace(s[1]) => (r[1] = s[1] <=> r[2] = s[2])

(* testInput, which computes page and offset on its own, leaves memory only *)
(* for addresses outside the virtual space, or if there is no address.     *)
TestReadsWhatWasTranslated ==
  /\ pc = "out_of_bounds" => references = 0 \/ \E r \in output : ~InSpace(r[1])
  /\ \A r \in output : InSpace(r[1]) =>
       r[2] = page_table[TestPage(r[1])].frame_number * PAGE_SIZE + Rem(r[1])

(* The TLB drops a page only when it has no empty entry, and drops one     *)
(* that was loaded no later than the others.                               *)
TlbEvictsOldest ==
  [][\A i \in TlbIndex :
       tlb[i].virtual_page_number \notin {-1, tlb'[i].virtual_page_number} =>
         \A j \in TlbIndex : /\ tlb[j].virtual_page_number # -1
                             /\ tlb[i].last_accessed_time <= tlb[j].last_accessed_time]_vars

(* The printed ratios are at most 1: a reference is at most one hit,       *)
(* though the page table is looked up up to three times, and a fault is    *)
(* one hit too, that of its retry.  So the TLB never has a page that       *)
(* faults.                                                                 *)
RatiosAddUp ==
  /\ tlb_hits <= references
  /\ page_faults <= tlb_hits + (IF pc = "exit" THEN 1 ELSE 0)

(* The program comes to an end, by itself or by an error, unless there is  *)
(* something in the file that is no number.                                *)
RunEnds == <>(pc \in {"done", "exit", "out_of_bounds"} \/ ending = "word")

Mapping == INSTANCE PageMapping WITH
             mapping <- {<<p, page_table[p].frame_number>> : p \in {q \in VirtualPage : Valid(q)}}

(* The page table maps pages to frames for good and one to one.            *)
ImplementsPageMapping == Mapping!Spec

-----------------------------------------------------------------------------
(* What the sources say, and the code does not do *)

(* Lines 118-119, get_page_table_entry does the "handling [of] invalid page *)
(* numbers": an address outside the virtual space is not translated.       *)
InvalidAddressesRefused == \A r \in output : ~InSpace(r[1]) => r[2] = -1

=============================================================================
