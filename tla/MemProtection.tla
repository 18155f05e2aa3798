---------------------------- MODULE MemProtection ----------------------------
(***************************************************************************)
(* Page permissions and page faults (mem_prot2.c), called by threads.      *)
(* set_page_permissions and check_permissions hold page_table_lock while   *)
(* they use the page table; the page fault handler does not.  A thread     *)
(* does what main does: it sets permissions, or it checks an access and    *)
(* has a fault or violation handled.  main passes the address on to the    *)
(* handler, whose parameter is a page number: 0 is both.  A step is one    *)
(* access to shared state.                                                 *)
(*                                                                         *)
(* dirty_bit and last_accessed_time are left out: nothing reads them.      *)
(***************************************************************************)
EXTENDS Integers, FiniteSets

CONSTANTS
  Thread,
  NUM_PAGES, NUM_FRAMES, PAGE_SIZE,
  Address,     \* the virtual addresses that are checked
  PageNumber,  \* the page numbers whose permissions are set
  Permission,  \* PERMISSION_READ, PERMISSION_WRITE, PERMISSION_EXECUTE
  Access,      \* the access types, some of which may be none of these
  PASSES_ADDRESS, \* the handler gets the address, as in main, or its page number
  MAX_CALLS,   \* the calls of a thread (bounds the model)
  NONE         \* no thread, no page

VirtualPage == 0 .. NUM_PAGES - 1
Frame       == 0 .. NUM_FRAMES - 1

ASSUME ProtectionAssumption ==
  /\ NUM_PAGES \in Nat \ {0}
  /\ NUM_FRAMES \in Nat
  /\ PAGE_SIZE \in Nat \ {0}
  /\ Address \subseteq Int
  /\ PageNumber \subseteq Int
  /\ PASSES_ADDRESS \in BOOLEAN
  /\ MAX_CALLS \in Nat
  /\ NONE \notin Thread
  /\ NONE \notin VirtualPage
  /\ NONE \notin Access
  /\ NONE \notin VirtualPage \X Access

VARIABLES
  page_table,
  page_table_lock,  \* the thread that holds it, or NONE
  next_frame,       \* allocate_frame's static counter
  physical_memory,  \* per frame: the page whose bytes it holds, or NONE
  calls,            \* per thread: the calls it has made
  pc,               \* per thread: where it is in a call, "caller" between two
  local,            \* per thread: the arguments and variables of the call
  result,           \* per thread: what its check returned
  stray             \* a frame has been read outside of physical_memory

vars == <<page_table, page_table_lock, next_frame, physical_memory, calls, pc, local,
          result, stray>>

Entry == [valid_bit : BOOLEAN, frame_number : Nat \cup {-1}, permissions : SUBSET Permission]

Local == [target       : Int,                     \* of set_page_permissions
          permissions  : SUBSET Permission,
          page         : VirtualPage,             \* of check_permissions
          access_type  : Access \cup {NONE},
          passed       : Int,                     \* of the fault handler
          frame_number : Nat]

Label == {"caller",
          "set_lock", "set_permissions", "set_valid_bit", "set_unlock",
          "check_lock", "check_valid_bit", "check_permissions", "check_unlock",
          "handle", "frame_check", "frame_load", "frame_store", "read",
          "entry_valid_bit", "entry_frame"}

Codes == {"none", "allowed", "page_fault", "invalid_access_type", "violation"}

TypeOK ==
  /\ page_table \in [VirtualPage -> Entry]
  /\ page_table_lock \in Thread \cup {NONE}
  /\ next_frame \in Nat
  /\ physical_memory \in [Frame -> VirtualPage \cup {NONE}]
  /\ calls \in [Thread -> 0 .. MAX_CALLS]
  /\ pc \in [Thread -> Label]
  /\ local \in [Thread -> Local]
  /\ result \in [Thread -> Codes]
  /\ stray \in BOOLEAN

(* A step of t from one label to another; the program has not gone astray. *)
Go(t, from, to) ==
  /\ ~stray
  /\ pc[t] = from
  /\ pc' = [pc EXCEPT ![t] = to]

InRange_OneTooFar(page) == page \in 0 .. NUM_PAGES

InRange(page) == page \in VirtualPage

lock(t) ==
  /\ page_table_lock = NONE
  /\ page_table_lock' = t
  /\ UNCHANGED <<page_table, next_frame, physical_memory, calls, local, result, stray>>

unlock(t) ==
  /\ page_table_lock' = NONE
  /\ UNCHANGED <<page_table, next_frame, physical_memory, calls, local, result, stray>>

-----------------------------------------------------------------------------
(* Seeded faults of the definitions below, to see the properties fail.     *)

SetLock_NotTaken(t) ==
  /\ Go(t, "set_lock", "set_permissions")
  /\ UNCHANGED <<page_table, page_table_lock, next_frame, physical_memory, calls, local,
                 result, stray>>

CheckLock_NotTaken(t) ==
  /\ Go(t, "check_lock", "check_valid_bit")
  /\ UNCHANGED <<page_table, page_table_lock, next_frame, physical_memory, calls, local,
                 result, stray>>

CheckUnlock_LockedOnBadType(t) ==
  /\ Go(t, "check_unlock", IF result[t] = "allowed" THEN "caller" ELSE "handle")
  /\ IF result[t] # "invalid_access_type" THEN unlock(t)
     ELSE UNCHANGED <<page_table, page_table_lock, next_frame, physical_memory, calls,
                      local, result, stray>>

read_from_backing_store_ErrorIgnored(t) ==
  /\ Go(t, "read", "entry_valid_bit")
  /\ \E content \in {local[t].passed, physical_memory[local[t].frame_number], NONE} :
       physical_memory' = [physical_memory EXCEPT ![local[t].frame_number] = content]
  /\ UNCHANGED <<page_table, page_table_lock, next_frame, calls, local, result, stray>>

FrameStore_Missing(t) ==
  /\ Go(t, "frame_store", "read")
  /\ UNCHANGED <<page_table, page_table_lock, next_frame, physical_memory, calls, local,
                 result, stray>>

-----------------------------------------------------------------------------
(* Division of int in C: towards zero. *)
Quot(address) ==
  IF address >= 0 THEN address \div PAGE_SIZE ELSE -((-address) \div PAGE_SIZE)

Passed(address) == IF PASSES_ADDRESS THEN address ELSE Quot(address)

Call(t) ==
  /\ calls[t] < MAX_CALLS
  /\ calls' = [calls EXCEPT ![t] = @ + 1]
  /\ UNCHANGED <<page_table, page_table_lock, next_frame, physical_memory, stray>>

(* set_page_permissions(page, permissions) *)
CallSet(t) ==
  \E page \in PageNumber, permissions \in SUBSET Permission :
    /\ Go(t, "caller", "set_lock")
    /\ Call(t)
    /\ local' = [local EXCEPT ![t].target = page, ![t].permissions = permissions]
    /\ UNCHANGED result

SetLock(t) ==
  /\ Go(t, "set_lock", IF InRange(local[t].target) THEN "set_permissions" ELSE "set_unlock")
  /\ lock(t)

SetPermissions(t) ==
  /\ Go(t, "set_permissions", "set_valid_bit")
  /\ page_table' = [page_table EXCEPT ![local[t].target].permissions = local[t].permissions]
  /\ UNCHANGED <<page_table_lock, next_frame, physical_memory, calls, local, result, stray>>

SetValidBit(t) ==
  /\ Go(t, "set_valid_bit", "set_unlock")
  /\ page_table' = [page_table EXCEPT ![local[t].target].valid_bit = TRUE]
  /\ UNCHANGED <<page_table_lock, next_frame, physical_memory, calls, local, result, stray>>

SetUnlock(t) == Go(t, "set_unlock", "caller") /\ unlock(t)

-----------------------------------------------------------------------------
(* check_permissions(address, access); of a page that does not exist it    *)
(* returns -1 at once, which handle_fault_or_violation does not know.      *)
CallCheck(t) ==
  \E address \in Address, access \in Access :
    /\ Go(t, "caller", IF InRange(Quot(address)) THEN "check_lock" ELSE "caller")
    /\ Call(t)
    /\ IF InRange(Quot(address))
       THEN /\ local' = [local EXCEPT ![t].page = Quot(address), ![t].access_type = access,
                                      ![t].passed = Passed(address)]
            /\ result' = [result EXCEPT ![t] = "none"]
       ELSE UNCHANGED <<local, result>>

CheckLock(t) == Go(t, "check_lock", "check_valid_bit") /\ lock(t)

Returns(t, code) ==
  /\ result' = [result EXCEPT ![t] = code]
  /\ UNCHANGED <<page_table, page_table_lock, next_frame, physical_memory, calls, local, stray>>

CheckValidBit(t) ==
  \/ /\ ~page_table[local[t].page].valid_bit
     /\ Go(t, "check_valid_bit", "check_unlock")
     /\ Returns(t, "page_fault")
  \/ /\ page_table[local[t].page].valid_bit
     /\ Go(t, "check_valid_bit", "check_permissions")
     /\ Returns(t, result[t])

CheckPermissions(t) ==
  LET access  == local[t].access_type
      granted == page_table[local[t].page].permissions
  IN  /\ Go(t, "check_permissions", "check_unlock")
      /\ \/ access \notin Permission /\ Returns(t, "invalid_access_type")
         \/ access \in Permission \ granted /\ Returns(t, "violation")
         \/ access \in granted /\ Returns(t, "allowed")

(* After the unlock of a check that was not allowed its caller has the     *)
(* fault or violation handled.                                             *)
CheckUnlock(t) ==
  /\ Go(t, "check_unlock", IF result[t] = "allowed" THEN "caller" ELSE "handle")
  /\ unlock(t)

-----------------------------------------------------------------------------
(* handle_fault_or_violation: only a page fault changes anything.          *)
handle_fault_or_violation(t) ==
  /\ Go(t, "handle", IF result[t] = "page_fault" THEN "frame_check" ELSE "caller")
  /\ UNCHANGED <<page_table, page_table_lock, next_frame, physical_memory, calls, local,
                 result, stray>>

(* allocate_frame: the counter is read, read again and written. *)
FrameCheck(t) ==
  /\ Go(t, "frame_check", IF next_frame < NUM_FRAMES THEN "frame_load" ELSE "caller")
  /\ UNCHANGED <<page_table, page_table_lock, next_frame, physical_memory, calls, local,
                 result, stray>>

FrameLoad(t) ==
  /\ Go(t, "frame_load", "frame_store")
  /\ local' = [local EXCEPT ![t].frame_number = next_frame]
  /\ UNCHANGED <<page_table, page_table_lock, next_frame, physical_memory, calls, result,
                 stray>>

FrameStore(t) ==
  /\ Go(t, "frame_store", "read")
  /\ next_frame' = local[t].frame_number + 1
  /\ UNCHANGED <<page_table, page_table_lock, physical_memory, calls, local, result, stray>>

(* The backing store cannot be opened or positioned, or ends within the    *)
(* page, or is read.                                                       *)
read_from_backing_store(t) ==
  LET frame == local[t].frame_number
      page  == local[t].passed
      holds(content) == physical_memory' = [physical_memory EXCEPT ![frame] = content]
  IN  /\ \/ Go(t, "read", "caller") /\ UNCHANGED <<physical_memory, stray>>
         \/ /\ page >= 0 /\ frame \in Frame
            /\ Go(t, "read", "caller")
            /\ holds(NONE)
            /\ UNCHANGED stray
         \/ /\ page >= 0 /\ frame \in Frame
            /\ Go(t, "read", "entry_valid_bit")
            /\ holds(IF InRange(page) THEN page ELSE NONE)
            /\ UNCHANGED stray
         \/ /\ page >= 0 /\ frame \notin Frame
            /\ Go(t, "read", "caller")
            /\ stray' = TRUE
            /\ UNCHANGED physical_memory
      /\ UNCHANGED <<page_table, page_table_lock, next_frame, calls, local, result>>

(* set_page_table_entry *)
EntryValidBit(t) ==
  /\ \/ /\ InRange(local[t].passed)
        /\ Go(t, "entry_valid_bit", "entry_frame")
        /\ page_table' = [page_table EXCEPT ![local[t].passed].valid_bit = TRUE]
     \/ /\ ~InRange(local[t].passed)
        /\ Go(t, "entry_valid_bit", "caller")
        /\ UNCHANGED page_table
  /\ UNCHANGED <<page_table_lock, next_frame, physical_memory, calls, local, result, stray>>

EntryFrame(t) ==
  /\ Go(t, "entry_frame", "caller")
  /\ page_table' = [page_table EXCEPT ![local[t].passed].frame_number = local[t].frame_number]
  /\ UNCHANGED <<page_table_lock, next_frame, physical_memory, calls, local, result, stray>>

-----------------------------------------------------------------------------
(* initialize_page_table *)
Init ==
  /\ page_table = [p \in VirtualPage |->
       [valid_bit |-> FALSE, frame_number |-> -1, permissions |-> Permission]]
  /\ page_table_lock = NONE
  /\ next_frame = 0
  /\ physical_memory = [f \in Frame |-> NONE]
  /\ calls = [t \in Thread |-> 0]
  /\ pc = [t \in Thread |-> "caller"]
  /\ local = [t \in Thread |-> [target |-> 0, permissions |-> {}, page |-> 0,
                                 access_type |-> NONE, passed |-> 0, frame_number |-> 0]]
  /\ result = [t \in Thread |-> "none"]
  /\ stray = FALSE

Set(t) == CallSet(t) \/ SetLock(t) \/ SetPermissions(t) \/ SetValidBit(t) \/ SetUnlock(t)

Check(t) ==
  CallCheck(t) \/ CheckLock(t) \/ CheckValidBit(t) \/ CheckPermissions(t) \/ CheckUnlock(t)

Handle(t) ==
  \/ handle_fault_or_violation(t)
  \/ FrameCheck(t) \/ FrameLoad(t) \/ FrameStore(t)
  \/ read_from_backing_store(t)
  \/ EntryValidBit(t) \/ EntryFrame(t)

Step(t) == Set(t) \/ Check(t) \/ Handle(t)

Next == \E t \in Thread : Step(t)

Spec == Init /\ [][Next]_vars

(* A thread that can go on does so; who gets the lock next is open.        *)
FairSpec == Spec /\ \A t \in Thread : WF_vars(Step(t))

-----------------------------------------------------------------------------
(* Properties *)

(* The permissions a check decides on are those of the page until the      *)
(* check has returned: nobody changes them under the lock.                 *)
DecisionStandsUnderLock ==
  \A t \in Thread : pc[t] = "check_unlock" /\ result[t] \in {"allowed", "violation"} =>
    (result[t] = "allowed") = (local[t].access_type \in page_table[local[t].page].permissions)

(* The threads' view, for any number of threads: permissions and valid bit *)
(* are set as one, and a check sees both of one moment.  A page that is    *)
(* about to become valid under the lock counts as valid.                   *)
BecomesValid(p) == \E t \in Thread : pc[t] = "set_valid_bit" /\ local[t].target = p

Table == [p \in VirtualPage |-> [valid       |-> page_table[p].valid_bit \/ BecomesValid(p),
                                 permissions |-> page_table[p].permissions]]

Asked == [t \in Thread |-> IF local[t].access_type = NONE THEN NONE
                           ELSE <<local[t].page, local[t].access_type>>]

Control == INSTANCE AccessControl WITH table <- Table, asked <- Asked

ImplementsAccessControl == Control!Spec

(* No call waits for ever: the lock is released on every path, and nobody  *)
(* takes it twice (lines 57-66 and 94-122).                                *)
CallsReturn == <>(stray \/ \A t \in Thread : pc[t] = "caller" /\ calls[t] = MAX_CALLS)

Loaded(p) == page_table[p].frame_number # -1

(* Pages that are loaded have frames of their own, that hold their bytes:   *)
(* so it is for one thread.  page_table_lock is the "Mutex for page table  *)
(* access" (line 36) of several, and with two of them it is not so.        *)
LoadedPagesHoldTheirBytes ==
  \A p \in VirtualPage : Loaded(p) => /\ page_table[p].frame_number \in Frame
                                      /\ physical_memory[page_table[p].frame_number] = p

Mapping == INSTANCE PageMapping WITH
             mapping <- {<<p, page_table[p].frame_number>> : p \in {q \in VirtualPage : Loaded(q)}}

(* The fault handler gives pages frames for good, and no frame twice.      *)
ImplementsPageMapping == Mapping!Spec

=============================================================================
