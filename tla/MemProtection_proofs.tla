------------------------- MODULE MemProtection_proofs -------------------------
(***************************************************************************)
(* The page table lock of mem_prot2.c, for any number of threads and pages *)
(* and any number of calls: mutual exclusion, the permissions of a         *)
(* decision, and the refinement of AccessControl.  Then the page fault     *)
(* handler, which takes no lock, for one thread: the frames of loaded      *)
(* pages hold their bytes, and the handler implements PageMapping.         *)
(***************************************************************************)
EXTENDS MemProtection, TLAPS

(* Where a thread holds page_table_lock.                                   *)
Locked == {"set_permissions", "set_valid_bit", "set_unlock",
           "check_valid_bit", "check_permissions", "check_unlock"}

(* The lock is held by a thread exactly while it is between its lock and   *)
(* its unlock.                                                             *)
MutualExclusion == \A t \in Thread : pc[t] \in Locked <=> page_table_lock = t

(* Between lock and unlock set_page_permissions is about a page in range.  *)
TargetsInRange ==
  \A t \in Thread : pc[t] \in {"set_permissions", "set_valid_bit"} =>
    local[t].target \in VirtualPage

(* A check that has been called has an access type and, until it decides,  *)
(* no result; it goes on to the permissions of valid pages only.           *)
ChecksInProgress ==
  \A t \in Thread :
    /\ pc[t] \in {"check_lock", "check_valid_bit", "check_permissions"} =>
         local[t].access_type \in Access /\ result[t] = "none"
    /\ pc[t] = "check_permissions" => page_table[local[t].page].valid_bit

(* The inductive invariant.                                                *)
LInv ==
  /\ TypeOK
  /\ MutualExclusion
  /\ TargetsInRange
  /\ ChecksInProgress
  /\ DecisionStandsUnderLock

-----------------------------------------------------------------------------
(* The assignments to fields of the page table and of a thread's variables *)
(* keep their types.                                                       *)
LEMMA EntryUpdates ==
  ASSUME NEW e \in Entry
  PROVE  /\ [e EXCEPT !.valid_bit = TRUE] \in Entry
         /\ \A n \in Nat : [e EXCEPT !.frame_number = n] \in Entry
         /\ \A permissions \in SUBSET Permission :
              [e EXCEPT !.permissions = permissions] \in Entry
  BY DEF Entry

(* What a step writes into a thread's locals keeps their type.             *)
LEMMA LocalUpdates ==
  ASSUME NEW l \in Local
  PROVE  /\ \A target \in Int, permissions \in SUBSET Permission :
              [l EXCEPT !.target = target, !.permissions = permissions] \in Local
         /\ \A page \in VirtualPage, access \in Access, passed \in Int :
              [l EXCEPT !.page = page, !.access_type = access, !.passed = passed] \in Local
         /\ \A n \in Nat : [l EXCEPT !.frame_number = n] \in Local
  BY DEF Local

(* Initially nobody holds the lock and nobody is in a call.                *)
LEMMA InitLInv == Init => LInv
<1> SUFFICES ASSUME Init PROVE LInv
  OBVIOUS
<1> USE ProtectionAssumption DEF Init
<1>1. TypeOK
  <2>1. 0 \in VirtualPage
    BY DEF VirtualPage
  <2>2. [valid_bit |-> FALSE, frame_number |-> -1, permissions |-> Permission] \in Entry
    BY DEF Entry
  <2>3. [target |-> 0, permissions |-> {}, page |-> 0, access_type |-> NONE, passed |-> 0,
         frame_number |-> 0] \in Local
    BY <2>1 DEF Local
  <2>4. page_table \in [VirtualPage -> Entry]
    BY <2>2
  <2>5. local \in [Thread -> Local]
    BY <2>3
  <2> QED
    <3>1. /\ page_table_lock \in Thread \cup {NONE} /\ next_frame \in Nat
          /\ physical_memory \in [Frame -> VirtualPage \cup {NONE}] /\ stray \in BOOLEAN
      OBVIOUS
    <3>3. calls \in [Thread -> 0 .. MAX_CALLS]
      OBVIOUS
    <3>2. pc \in [Thread -> Label] /\ result \in [Thread -> Codes]
      BY DEF Label, Codes
    <3> QED
      BY <2>4, <2>5, <3>1, <3>2, <3>3 DEF TypeOK
<1>2. MutualExclusion
  BY DEF MutualExclusion, Locked
<1>3. TargetsInRange
  BY DEF TargetsInRange
<1>4. ChecksInProgress
  BY DEF ChecksInProgress
<1>5. DecisionStandsUnderLock
  BY DEF DecisionStandsUnderLock
<1> QED
  BY <1>1, <1>2, <1>3, <1>4, <1>5 DEF LInv

(* Steps of a thread that sets permissions.                                *)
LEMMA SetKeepsLInv ==
  ASSUME LInv, NEW t \in Thread, Set(t)
  PROVE  LInv'
<1> USE ProtectionAssumption DEF LInv, TypeOK, MutualExclusion, TargetsInRange,
          ChecksInProgress, DecisionStandsUnderLock, Label, Codes, Locked, Go
<1>0. \A u \in Thread : /\ local[u].target \in Int
                        /\ local[u].permissions \in SUBSET Permission
                        /\ local[u].page \in VirtualPage
                        /\ local[u].access_type \in Access \cup {NONE}
                        /\ local[u].passed \in Int
                        /\ local[u].frame_number \in Nat
  BY DEF Local
<1>1. CASE CallSet(t)
  <2>1. PICK page \in PageNumber, permissions \in SUBSET Permission :
          /\ Go(t, "caller", "set_lock")
          /\ Call(t)
          /\ local' = [local EXCEPT ![t].target = page, ![t].permissions = permissions]
          /\ UNCHANGED result
    BY <1>1 DEF CallSet
  <2>2. local' \in [Thread -> Local]
    <3>1. local' = [local EXCEPT ![t] =
                      [local[t] EXCEPT !.target = page, !.permissions = permissions]]
      BY <2>1
    <3>2. [local[t] EXCEPT !.target = page, !.permissions = permissions] \in Local
      BY LocalUpdates, <2>1
    <3> QED
      BY <3>1, <3>2
  <2>3. \A u \in Thread : /\ local'[u].access_type = local[u].access_type
                          /\ local'[u].page = local[u].page
                          /\ u # t => local'[u] = local[u]
    BY <2>1
  <2>4. /\ pc' = [pc EXCEPT ![t] = "set_lock"] /\ pc[t] = "caller"
        /\ calls' \in [Thread -> 0 .. MAX_CALLS]
        /\ UNCHANGED <<page_table, page_table_lock, next_frame, physical_memory, result, stray>>
    BY <2>1 DEF Call
  <2>5. TypeOK'
    BY <2>2, <2>4
  <2>6. MutualExclusion' /\ TargetsInRange'
    BY <2>3, <2>4
  <2>7. ChecksInProgress' /\ DecisionStandsUnderLock'
    BY <2>3, <2>4
  <2> QED
    BY <2>5, <2>6, <2>7
<1>2. CASE SetLock(t)
  BY <1>2 DEF SetLock, lock, InRange
<1>3. CASE SetPermissions(t)
  <2>1. local[t].target \in VirtualPage /\ local[t].permissions \in SUBSET Permission
    BY <1>0, <1>3 DEF SetPermissions
  <2>2. page_table' = [page_table EXCEPT ![local[t].target].permissions = local[t].permissions]
    BY <1>3 DEF SetPermissions
  <2>3. page_table' = [page_table EXCEPT ![local[t].target] =
                         [page_table[local[t].target] EXCEPT !.permissions = local[t].permissions]]
    BY <2>2
  <2>4. page_table' \in [VirtualPage -> Entry]
    BY <2>1, <2>3, EntryUpdates
  <2>5. \A p \in VirtualPage : page_table'[p].valid_bit = page_table[p].valid_bit
    BY <2>1, <2>2
  <2>6. TypeOK'
    BY <1>3, <2>4 DEF SetPermissions
  <2>7. MutualExclusion' /\ TargetsInRange'
    BY <1>3 DEF SetPermissions
  <2>8. ChecksInProgress' /\ DecisionStandsUnderLock'
    BY <1>3, <2>5 DEF SetPermissions
  <2> QED
    BY <2>6, <2>7, <2>8
<1>4. CASE SetValidBit(t)
  <2>1. local[t].target \in VirtualPage
    BY <1>4 DEF SetValidBit
  <2>2. page_table' = [page_table EXCEPT ![local[t].target].valid_bit = TRUE]
    BY <1>4 DEF SetValidBit
  <2>3. page_table' \in [VirtualPage -> Entry]
    <3>1. page_table' = [page_table EXCEPT ![local[t].target] =
                           [page_table[local[t].target] EXCEPT !.valid_bit = TRUE]]
      BY <2>2
    <3> QED
      BY <2>1, <3>1, EntryUpdates
  <2>4. \A p \in VirtualPage : /\ page_table'[p].permissions = page_table[p].permissions
                               /\ page_table[p].valid_bit => page_table'[p].valid_bit
    BY <2>1, <2>2
  <2>5. TypeOK'
    BY <1>4, <2>3 DEF SetValidBit
  <2>6. MutualExclusion' /\ TargetsInRange'
    BY <1>4 DEF SetValidBit
  <2>7. ChecksInProgress' /\ DecisionStandsUnderLock'
    BY <1>4, <2>4 DEF SetValidBit
  <2> QED
    BY <2>5, <2>6, <2>7
<1>5. CASE SetUnlock(t)
  BY <1>5 DEF SetUnlock, unlock
<1> QED
  BY <1>1, <1>2, <1>3, <1>4, <1>5 DEF Set

(* Steps of a thread that checks permissions.                              *)
LEMMA CheckKeepsLInv ==
  ASSUME LInv, NEW t \in Thread, Check(t)
  PROVE  LInv'
<1> USE ProtectionAssumption DEF LInv, TypeOK, MutualExclusion, TargetsInRange,
          ChecksInProgress, DecisionStandsUnderLock, Label, Codes, Locked, Go
<1>0. \A u \in Thread : /\ local[u].target \in Int
                        /\ local[u].permissions \in SUBSET Permission
                        /\ local[u].page \in VirtualPage
                        /\ local[u].access_type \in Access \cup {NONE}
                        /\ local[u].passed \in Int
                        /\ local[u].frame_number \in Nat
  BY DEF Local
<1>1. CASE CallCheck(t)
  <2>1. PICK address \in Address, access \in Access :
          /\ Go(t, "caller", IF InRange(Quot(address)) THEN "check_lock" ELSE "caller")
          /\ Call(t)
          /\ IF InRange(Quot(address))
             THEN /\ local' = [local EXCEPT ![t].page = Quot(address),
                                            ![t].access_type = access,
                                            ![t].passed = Passed(address)]
                  /\ result' = [result EXCEPT ![t] = "none"]
             ELSE UNCHANGED <<local, result>>
    BY <1>1 DEF CallCheck
  <2>2. CASE ~InRange(Quot(address))
    BY <2>1, <2>2 DEF Call
  <2>3. CASE InRange(Quot(address))
    <3> DEFINE page   == Quot(address)
               passed == Passed(address)
    <3>1. page \in VirtualPage /\ passed \in Int
      BY <2>3, ProtectionAssumption DEF InRange, Passed, VirtualPage
    <3> HIDE DEF page, passed
    <3>2. /\ local' = [local EXCEPT ![t].page = page, ![t].access_type = access,
                                    ![t].passed = passed]
          /\ result' = [result EXCEPT ![t] = "none"]
          /\ pc' = [pc EXCEPT ![t] = "check_lock"] /\ pc[t] = "caller"
      BY <2>1, <2>3 DEF page, passed
    <3>3. /\ calls' \in [Thread -> 0 .. MAX_CALLS]
          /\ UNCHANGED <<page_table, page_table_lock, next_frame, physical_memory, stray>>
      BY <2>1 DEF Call
    <3>4. local' \in [Thread -> Local]
      <4>1. local' = [local EXCEPT ![t] =
                        [local[t] EXCEPT !.page = page, !.access_type = access,
                                         !.passed = passed]]
        BY <3>2
      <4>2. [local[t] EXCEPT !.page = page, !.access_type = access,
                             !.passed = passed] \in Local
        BY <3>1, LocalUpdates
      <4> QED
        BY <4>1, <4>2
    <3>5. /\ \A u \in Thread : /\ local'[u].target = local[u].target
                               /\ u # t => local'[u] = local[u]
          /\ local'[t].access_type = access
      BY <3>2
    <3>6. TypeOK'
      BY <3>2, <3>3, <3>4
    <3>7. MutualExclusion' /\ TargetsInRange'
      BY <3>2, <3>3, <3>5
    <3>8. ChecksInProgress' /\ DecisionStandsUnderLock'
      BY <3>2, <3>3, <3>5
    <3> QED
      BY <3>6, <3>7, <3>8
  <2> QED
    BY <2>2, <2>3
<1>2. CASE CheckLock(t)
  BY <1>2 DEF CheckLock, lock
<1>3. CASE CheckValidBit(t)
  <2>1. CASE ~page_table[local[t].page].valid_bit
    BY <1>3, <2>1 DEF CheckValidBit, Returns
  <2>2. CASE page_table[local[t].page].valid_bit
    <3>1. /\ pc' = [pc EXCEPT ![t] = "check_permissions"] /\ pc[t] = "check_valid_bit"
          /\ result' = [result EXCEPT ![t] = result[t]]
          /\ UNCHANGED <<page_table, page_table_lock, next_frame, physical_memory, calls,
                         local, stray>>
      BY <1>3, <2>2 DEF CheckValidBit, Returns
    <3>2. result' = result
      BY <3>1
    <3>3. TypeOK' /\ MutualExclusion' /\ TargetsInRange'
      BY <3>1, <3>2
    <3>4. ChecksInProgress' /\ DecisionStandsUnderLock'
      BY <2>2, <3>1, <3>2
    <3> QED
      BY <3>3, <3>4
  <2> QED
    BY <2>1, <2>2
<1>4. CASE CheckPermissions(t)
  BY <1>4 DEF CheckPermissions, Returns
<1>5. CASE CheckUnlock(t)
  BY <1>5 DEF CheckUnlock, unlock
<1> QED
  BY <1>1, <1>2, <1>3, <1>4, <1>5 DEF Check

(* Steps of a thread in the fault handler, which does not take the lock.   *)
LEMMA HandleKeepsLInv ==
  ASSUME LInv, NEW t \in Thread, Handle(t)
  PROVE  LInv'
<1> USE ProtectionAssumption DEF LInv, TypeOK, MutualExclusion, TargetsInRange,
          ChecksInProgress, DecisionStandsUnderLock, Label, Codes, Locked, Go
<1>0. \A u \in Thread : /\ local[u].target \in Int
                        /\ local[u].permissions \in SUBSET Permission
                        /\ local[u].page \in VirtualPage
                        /\ local[u].access_type \in Access \cup {NONE}
                        /\ local[u].passed \in Int
                        /\ local[u].frame_number \in Nat
  BY DEF Local
<1>1. CASE handle_fault_or_violation(t)
  BY <1>1 DEF handle_fault_or_violation
<1>2. CASE FrameCheck(t)
  BY <1>2 DEF FrameCheck
<1>3. CASE FrameLoad(t)
  <2>1. local' = [local EXCEPT ![t].frame_number = next_frame]
    BY <1>3 DEF FrameLoad
  <2>2. local' \in [Thread -> Local]
    <3>1. local' = [local EXCEPT ![t] = [local[t] EXCEPT !.frame_number = next_frame]]
      BY <2>1
    <3>2. [local[t] EXCEPT !.frame_number = next_frame] \in Local
      BY LocalUpdates
    <3> QED
      BY <3>1, <3>2
  <2>3. \A u \in Thread : /\ local'[u].access_type = local[u].access_type
                          /\ local'[u].page = local[u].page
                          /\ local'[u].target = local[u].target
    BY <2>1
  <2>4. TypeOK'
    BY <1>3, <2>2 DEF FrameLoad
  <2>5. MutualExclusion' /\ TargetsInRange'
    BY <1>3, <2>3 DEF FrameLoad
  <2>6. ChecksInProgress' /\ DecisionStandsUnderLock'
    BY <1>3, <2>3 DEF FrameLoad
  <2> QED
    BY <2>4, <2>5, <2>6
<1>4. CASE FrameStore(t)
  BY <1>0, <1>4 DEF FrameStore
<1>5. CASE read_from_backing_store(t)
  <2>1. /\ physical_memory' \in [Frame -> VirtualPage \cup {NONE}]
        /\ stray' \in BOOLEAN
    <3>1. PICK page \in Int, frame \in Nat :
            page = local[t].passed /\ frame = local[t].frame_number
      BY <1>0
    <3>2. \/ UNCHANGED <<physical_memory, stray>>
          \/ physical_memory' = [physical_memory EXCEPT ![frame] = NONE] /\ UNCHANGED stray
          \/ /\ page \in VirtualPage /\ UNCHANGED stray
             /\ physical_memory' = [physical_memory EXCEPT ![frame] = page]
          \/ UNCHANGED physical_memory /\ stray' = TRUE
      BY <1>5, <3>1 DEF read_from_backing_store, InRange
    <3> QED
      BY <3>2
  <2>2. \E to \in {"caller", "entry_valid_bit"} : pc' = [pc EXCEPT ![t] = to]
    BY <1>5 DEF read_from_backing_store
  <2>3. /\ pc[t] = "read"
        /\ UNCHANGED <<page_table, page_table_lock, next_frame, calls, local, result>>
    BY <1>5 DEF read_from_backing_store
  <2>4. TypeOK'
    BY <2>1, <2>2, <2>3
  <2>5. MutualExclusion' /\ TargetsInRange'
    BY <2>2, <2>3
  <2>6. ChecksInProgress' /\ DecisionStandsUnderLock'
    BY <2>2, <2>3
  <2> QED
    BY <2>4, <2>5, <2>6
<1>6. CASE EntryValidBit(t)
  <2>0. PICK p \in Int : p = local[t].passed
    BY <1>0
  <2>1. \/ UNCHANGED page_table
        \/ page_table' = [page_table EXCEPT ![p].valid_bit = TRUE] /\ p \in VirtualPage
    BY <1>6, <2>0 DEF EntryValidBit, InRange
  <2>2. page_table' \in [VirtualPage -> Entry]
    <3>1. CASE page_table' = [page_table EXCEPT ![p].valid_bit = TRUE] /\ p \in VirtualPage
      <4>1. page_table' = [page_table EXCEPT ![p] = [page_table[p] EXCEPT !.valid_bit = TRUE]]
        BY <3>1
      <4> QED
        BY <3>1, <4>1, EntryUpdates
    <3> QED
      BY <2>1, <3>1
  <2>3. \A q \in VirtualPage : /\ page_table'[q].permissions = page_table[q].permissions
                               /\ page_table[q].valid_bit => page_table'[q].valid_bit
    BY <2>1 DEF Entry
  <2>4. \E to \in {"caller", "entry_frame"} : pc' = [pc EXCEPT ![t] = to]
    BY <1>6 DEF EntryValidBit
  <2>5. /\ pc[t] = "entry_valid_bit"
        /\ UNCHANGED <<page_table_lock, next_frame, physical_memory, calls, local, result, stray>>
    BY <1>6 DEF EntryValidBit
  <2>6. TypeOK'
    BY <2>2, <2>4, <2>5
  <2>7. MutualExclusion' /\ TargetsInRange'
    BY <2>4, <2>5
  <2>8. ChecksInProgress' /\ DecisionStandsUnderLock'
    BY <1>0, <2>3, <2>4, <2>5
  <2> QED
    BY <2>6, <2>7, <2>8
<1>7. CASE EntryFrame(t)
  <2> DEFINE p == local[t].passed
  <2>1. page_table' = [page_table EXCEPT ![p].frame_number = local[t].frame_number]
    BY <1>7 DEF EntryFrame
  <2>2. page_table' \in [VirtualPage -> Entry]
    <3>1. page_table' = [page_table EXCEPT ![p] =
                           [page_table[p] EXCEPT !.frame_number = local[t].frame_number]]
      BY <2>1
    <3>2. CASE p \in VirtualPage
      BY <1>0, <3>1, <3>2, EntryUpdates
    <3>3. CASE p \notin VirtualPage
      BY <3>1, <3>3
    <3> QED
      BY <3>2, <3>3
  <2>3. \A q \in VirtualPage : /\ page_table'[q].permissions = page_table[q].permissions
                               /\ page_table[q].valid_bit => page_table'[q].valid_bit
    BY <2>1
  <2>4. TypeOK'
    BY <1>7, <2>2 DEF EntryFrame
  <2>5. MutualExclusion' /\ TargetsInRange'
    BY <1>7 DEF EntryFrame
  <2>6. ChecksInProgress' /\ DecisionStandsUnderLock'
    BY <1>0, <1>7, <2>3 DEF EntryFrame
  <2> QED
    BY <2>4, <2>5, <2>6
<1> QED
  BY <1>1, <1>2, <1>3, <1>4, <1>5, <1>6, <1>7 DEF Handle

(* The inductive invariant holds in every state.                           *)
THEOREM Locking == Spec => []LInv
<1>1. LInv /\ [Next]_vars => LInv'
  <2> SUFFICES ASSUME LInv, [Next]_vars PROVE LInv'
    OBVIOUS
  <2>1. CASE UNCHANGED vars
    BY <2>1 DEF vars, LInv, TypeOK, MutualExclusion, TargetsInRange, ChecksInProgress,
                DecisionStandsUnderLock
  <2>2. CASE \E t \in Thread : Step(t)
    BY <2>2, SetKeepsLInv, CheckKeepsLInv, HandleKeepsLInv DEF Step
  <2> QED
    BY <2>1, <2>2 DEF Next
<1> QED
  BY <1>1, InitLInv, PTL DEF Spec

(* However the threads of mem_prot2.c interleave, the page table, the lock *)
(* and physical memory keep their types, and so does each thread's call.   *)
THEOREM TypeCorrect == Spec => []TypeOK
<1>1. LInv => TypeOK
  BY DEF LInv
<1> QED
  BY <1>1, Locking, PTL

(* The permissions a check decides on are those of its page until it has   *)
(* given the lock back.                                                    *)
THEOREM DecisionStands == Spec => []DecisionStandsUnderLock
<1>1. LInv => DecisionStandsUnderLock
  BY DEF LInv
<1> QED
  BY <1>1, Locking, PTL

-----------------------------------------------------------------------------
(* In terms of AccessControl.  Who is about to set a valid bit is settled  *)
(* by pc and by the targets of the threads.                                *)
LEMMA SameView ==
  ASSUME LInv, UNCHANGED <<page_table, local>>, NEW t \in Thread, NEW to,
         pc' = [pc EXCEPT ![t] = to], pc[t] # "set_valid_bit", to # "set_valid_bit"
  PROVE  UNCHANGED <<Table, Asked>>
<1>1. \A u \in Thread : pc'[u] = "set_valid_bit" <=> pc[u] = "set_valid_bit"
  BY DEF LInv, TypeOK
<1>2. \A p \in VirtualPage : BecomesValid(p)' <=> BecomesValid(p)
  BY <1>1 DEF BecomesValid
<1> QED
  BY <1>2 DEF Table, Asked

(* Setting permissions takes effect at their assignment; the rest of       *)
(* set_page_permissions changes nothing that a thread can see.             *)
LEMMA SetIsGrant ==
  ASSUME LInv, NEW t \in Thread, Set(t)
  PROVE  Control!Grant \/ UNCHANGED Control!vars
<1> USE DEF LInv, Go
<1>1. CASE CallSet(t)
  <2>1. \A u \in Thread : /\ local'[u].access_type = local[u].access_type
                          /\ local'[u].page = local[u].page
                          /\ u # t => local'[u].target = local[u].target
    BY <1>1 DEF CallSet, TypeOK
  <2>2. UNCHANGED <<page_table, result>> /\ pc[t] = "caller"
        /\ pc' = [pc EXCEPT ![t] = "set_lock"]
    BY <1>1 DEF CallSet, Call
  <2>3. \A p \in VirtualPage : BecomesValid(p)' <=> BecomesValid(p)
    BY <2>1, <2>2 DEF BecomesValid, TypeOK
  <2> QED
    BY <2>1, <2>2, <2>3 DEF Table, Asked, Control!vars
<1>2. CASE SetLock(t)
  BY <1>2, SameView DEF SetLock, lock, Control!vars
<1>3. CASE SetPermissions(t)
  <2>1. PICK p \in VirtualPage, granted \in SUBSET Permission :
          p = local[t].target /\ granted = local[t].permissions
    BY <1>3 DEF SetPermissions, TargetsInRange, TypeOK, Local
  <2>2. UNCHANGED <<local, result>> /\ pc[t] = "set_permissions"
        /\ pc' = [pc EXCEPT ![t] = "set_valid_bit"]
        /\ page_table' = [page_table EXCEPT ![p].permissions = granted]
    BY <1>3, <2>1 DEF SetPermissions
  <2>3. BecomesValid(p)'
    BY <2>1, <2>2 DEF BecomesValid, TypeOK
  <2>4. \A q \in VirtualPage : q # p => (BecomesValid(q)' <=> BecomesValid(q))
    BY <2>1, <2>2 DEF BecomesValid, TypeOK
  <2>5. \A q \in VirtualPage : q # p => page_table'[q] = page_table[q]
    BY <2>1, <2>2 DEF TypeOK
  <2>6. page_table'[p].permissions = granted
    BY <2>1, <2>2 DEF TypeOK, Entry
  <2>7. Table' = [Table EXCEPT ![p] = [valid |-> TRUE, permissions |-> granted]]
    <3> DEFINE New == [Table EXCEPT ![p] = [valid |-> TRUE, permissions |-> granted]]
    <3>1. \A q \in VirtualPage : q # p => Table'[q] = New[q]
      BY <2>4, <2>5 DEF Table
    <3>2. Table'[p] = New[p]
      <4>1. Table'[p] = [valid       |-> page_table'[p].valid_bit \/ BecomesValid(p)',
                         permissions |-> page_table'[p].permissions]
        BY <2>1 DEF Table
      <4>2. (page_table'[p].valid_bit \/ BecomesValid(p)') = TRUE
        BY <2>3
      <4>3. New[p] = [valid |-> TRUE, permissions |-> granted]
        BY <2>1 DEF Table
      <4> QED
        BY <2>6, <4>1, <4>2, <4>3
    <3>3. Table' = [q \in VirtualPage |-> Table'[q]] /\ New = [q \in VirtualPage |-> New[q]]
      BY DEF Table
    <3> QED
      BY <3>1, <3>2, <3>3
  <2>8. UNCHANGED Asked
    BY <2>2 DEF Asked
  <2> QED
    BY <2>1, <2>2, <2>7, <2>8 DEF Control!Grant
<1>4. CASE SetValidBit(t)
  <2> DEFINE p == local[t].target
  <2>1. p \in VirtualPage
    BY <1>4 DEF SetValidBit, TargetsInRange
  <2>2. UNCHANGED <<local, result>> /\ pc[t] = "set_valid_bit"
        /\ pc' = [pc EXCEPT ![t] = "set_unlock"]
        /\ page_table' = [page_table EXCEPT ![p].valid_bit = TRUE]
    BY <1>4 DEF SetValidBit
  <2>3. BecomesValid(p)
    BY <2>2 DEF BecomesValid
  <2>4. \A q \in VirtualPage : q # p => (BecomesValid(q)' <=> BecomesValid(q))
    BY <2>2 DEF BecomesValid, TypeOK
  <2>5. \A q \in VirtualPage : q # p => page_table'[q] = page_table[q]
    BY <2>1, <2>2 DEF TypeOK
  <2>6. page_table'[p].valid_bit = TRUE /\ page_table'[p].permissions = page_table[p].permissions
    BY <2>1, <2>2 DEF TypeOK, Entry
  <2>7. UNCHANGED <<Table, Asked>>
    BY <2>1, <2>2, <2>3, <2>4, <2>5, <2>6 DEF Table, Asked
  <2> QED
    BY <2>2, <2>7 DEF Control!vars
<1>5. CASE SetUnlock(t)
  BY <1>5, SameView DEF SetUnlock, unlock, Control!vars
<1> QED
  BY <1>1, <1>2, <1>3, <1>4, <1>5 DEF Set

(* A check is asked when it is called and answered by one assignment to    *)
(* its result.  Under the lock nobody is about to set a valid bit, so the  *)
(* valid bit it has read is still that of the page, as a page never        *)
(* becomes invalid.                                                        *)
LEMMA NobodySetsUnderLock ==
  ASSUME LInv, NEW t \in Thread, pc[t] \in {"check_valid_bit", "check_permissions"}
  PROVE  /\ Table[local[t].page] = [valid       |-> page_table[local[t].page].valid_bit,
                                    permissions |-> page_table[local[t].page].permissions]
         /\ Asked[t] = <<local[t].page, local[t].access_type>>
         /\ Asked[t] # NONE
         /\ result[t] = "none"
         /\ Control!Decision(Table[Asked[t][1]], Asked[t][2]) =
              LET entry == page_table[local[t].page]
              IN  IF ~entry.valid_bit THEN "page_fault"
                  ELSE IF local[t].access_type \notin Permission THEN "invalid_access_type"
                  ELSE IF local[t].access_type \in entry.permissions THEN "allowed"
                  ELSE "violation"
<1>1. \A u \in Thread : pc[u] # "set_valid_bit"
  BY DEF LInv, MutualExclusion, Locked
<1>2. local[t].page \in VirtualPage
  BY DEF LInv, TypeOK, Local
<1>3. page_table[local[t].page].valid_bit \in BOOLEAN
  BY <1>2 DEF LInv, TypeOK, Entry
<1>4. local[t].access_type \in Access /\ result[t] = "none"
  BY DEF LInv, ChecksInProgress
<1>5. <<local[t].page, local[t].access_type>> \in VirtualPage \X Access
  BY <1>2, <1>4
<1>6. Asked[t] = <<local[t].page, local[t].access_type>> /\ Asked[t] # NONE
  BY <1>4, <1>5, ProtectionAssumption DEF Asked
<1>7. ~BecomesValid(local[t].page)
  BY <1>1 DEF BecomesValid
<1>8. Table[local[t].page] = [valid       |-> page_table[local[t].page].valid_bit,
                              permissions |-> page_table[local[t].page].permissions]
  BY <1>2, <1>3, <1>7 DEF Table
<1>9. Asked[t][1] = local[t].page /\ Asked[t][2] = local[t].access_type
  BY <1>6
<1> QED
  BY <1>4, <1>6, <1>8, <1>9 DEF Control!Decision

(* A step of check_permissions asks, answers or is not seen.               *)
LEMMA CheckIsAskOrAnswer ==
  ASSUME LInv, NEW t \in Thread, Check(t)
  PROVE  Control!Ask(t) \/ Control!Answer(t) \/ UNCHANGED Control!vars
<1> USE DEF LInv, Go
<1>1. CASE CallCheck(t)
  <2>1. PICK address \in Address, access \in Access :
          /\ Go(t, "caller", IF InRange(Quot(address)) THEN "check_lock" ELSE "caller")
          /\ Call(t)
          /\ IF InRange(Quot(address))
             THEN /\ local' = [local EXCEPT ![t].page = Quot(address),
                                            ![t].access_type = access,
                                            ![t].passed = Passed(address)]
                  /\ result' = [result EXCEPT ![t] = "none"]
             ELSE UNCHANGED <<local, result>>
    BY <1>1 DEF CallCheck
  <2>2. CASE ~InRange(Quot(address))
    BY <2>1, <2>2, SameView DEF Call, Control!vars
  <2>3. CASE InRange(Quot(address))
    <3> DEFINE page   == Quot(address)
               passed == Passed(address)
    <3>1. page \in VirtualPage /\ passed \in Int
      BY <2>3, ProtectionAssumption DEF InRange, Passed, VirtualPage
    <3> HIDE DEF page, passed
    <3>2. /\ local' = [local EXCEPT ![t].page = page, ![t].access_type = access,
                                    ![t].passed = passed]
          /\ result' = [result EXCEPT ![t] = "none"]
          /\ pc' = [pc EXCEPT ![t] = "check_lock"] /\ pc[t] = "caller"
          /\ UNCHANGED page_table
      BY <2>1, <2>3 DEF page, passed, Call
    <3>3. \A u \in Thread : /\ local'[u].target = local[u].target
                            /\ u # t => local'[u] = local[u]
      BY <3>2 DEF TypeOK
    <3>4. local'[t].page = page /\ local'[t].access_type = access
      BY <3>2 DEF TypeOK, Local
    <3>5. \A p \in VirtualPage : BecomesValid(p)' <=> BecomesValid(p)
      BY <3>2, <3>3 DEF BecomesValid, TypeOK
    <3>6. UNCHANGED Table
      BY <3>2, <3>5 DEF Table
    <3>7. Asked' = [Asked EXCEPT ![t] = <<page, access>>]
      <4>1. access # NONE
        BY ProtectionAssumption
      <4> QED
        BY <3>3, <3>4, <4>1 DEF Asked
    <3>8. <<page, access>> \in VirtualPage \X Access
      BY <3>1
    <3> QED
      BY <3>2, <3>6, <3>7, <3>8 DEF Control!Ask
  <2> QED
    BY <2>2, <2>3
<1>2. CASE CheckLock(t)
  BY <1>2, SameView DEF CheckLock, lock, Control!vars
<1>3. CASE CheckValidBit(t)
  <2>1. CASE ~page_table[local[t].page].valid_bit
    <3>1. /\ UNCHANGED <<page_table, local>> /\ pc[t] = "check_valid_bit"
          /\ pc' = [pc EXCEPT ![t] = "check_unlock"]
          /\ result' = [result EXCEPT ![t] = "page_fault"]
      BY <1>3, <2>1 DEF CheckValidBit, Returns
    <3>2. UNCHANGED <<Table, Asked>>
      BY <3>1, SameView
    <3>3. Control!Decision(Table[Asked[t][1]], Asked[t][2]) = "page_fault"
      BY <2>1, <3>1, NobodySetsUnderLock DEF Control!Decision
    <3> QED
      BY <3>1, <3>2, <3>3, NobodySetsUnderLock DEF Control!Answer
  <2>2. CASE page_table[local[t].page].valid_bit
    <3>1. /\ UNCHANGED <<page_table, local>> /\ pc[t] = "check_valid_bit"
          /\ pc' = [pc EXCEPT ![t] = "check_permissions"]
          /\ result' = [result EXCEPT ![t] = result[t]]
      BY <1>3, <2>2 DEF CheckValidBit, Returns
    <3>2. UNCHANGED <<Table, Asked>>
      BY <3>1, SameView
    <3>3. result' = result
      BY <3>1 DEF TypeOK
    <3> QED
      BY <3>2, <3>3 DEF Control!vars
  <2> QED
    BY <2>1, <2>2
<1>4. CASE CheckPermissions(t)
  <2> DEFINE access  == local[t].access_type
             granted == page_table[local[t].page].permissions
  <2>1. /\ UNCHANGED <<page_table, local>> /\ pc[t] = "check_permissions"
        /\ pc' = [pc EXCEPT ![t] = "check_unlock"]
    BY <1>4 DEF CheckPermissions, Returns
  <2>2. UNCHANGED <<Table, Asked>>
    BY <2>1, SameView
  <2>3. \E code \in {"invalid_access_type", "violation", "allowed"} :
          /\ result' = [result EXCEPT ![t] = code]
          /\ code = IF access \notin Permission THEN "invalid_access_type"
                    ELSE IF access \in granted THEN "allowed" ELSE "violation"
    <3>1. granted \subseteq Permission
      BY DEF TypeOK, Local, Entry
    <3> QED
      BY <1>4, <3>1 DEF CheckPermissions, Returns
  <2>4. page_table[local[t].page].valid_bit
    BY <2>1 DEF ChecksInProgress
  <2>5. Control!Decision(Table[Asked[t][1]], Asked[t][2]) =
          IF access \notin Permission THEN "invalid_access_type"
          ELSE IF access \in granted THEN "allowed" ELSE "violation"
    BY <2>1, <2>4, NobodySetsUnderLock DEF Control!Decision
  <2> QED
    BY <2>1, <2>2, <2>3, <2>5, NobodySetsUnderLock DEF Control!Answer
<1>5. CASE CheckUnlock(t)
  BY <1>5, SameView DEF CheckUnlock, unlock, Control!vars
<1> QED
  BY <1>1, <1>2, <1>3, <1>4, <1>5 DEF Check

(* The fault handler makes a page valid, outside of the lock, or changes   *)
(* nothing that a check can see.                                           *)
LEMMA HandleIsLoad ==
  ASSUME LInv, NEW t \in Thread, Handle(t)
  PROVE  Control!Load \/ UNCHANGED Control!vars
<1> USE DEF LInv, Go
<1>1. CASE handle_fault_or_violation(t)
  BY <1>1, SameView DEF handle_fault_or_violation, Control!vars
<1>2. CASE FrameCheck(t)
  BY <1>2, SameView DEF FrameCheck, Control!vars
<1>3. CASE FrameLoad(t)
  <2>1. \A u \in Thread : /\ local'[u].access_type = local[u].access_type
                          /\ local'[u].page = local[u].page
                          /\ local'[u].target = local[u].target
    BY <1>3 DEF FrameLoad, TypeOK, Local
  <2>2. UNCHANGED <<page_table, result>> /\ pc[t] = "frame_load"
        /\ pc' = [pc EXCEPT ![t] = "frame_store"]
    BY <1>3 DEF FrameLoad
  <2>3. \A p \in VirtualPage : BecomesValid(p)' <=> BecomesValid(p)
    BY <2>1, <2>2 DEF BecomesValid, TypeOK
  <2> QED
    BY <2>1, <2>2, <2>3 DEF Table, Asked, Control!vars
<1>4. CASE FrameStore(t)
  BY <1>4, SameView DEF FrameStore, Control!vars
<1>5. CASE read_from_backing_store(t)
  BY <1>5, SameView DEF read_from_backing_store, Control!vars
<1>6. CASE EntryValidBit(t)
  <2>0. CASE local[t].passed \notin VirtualPage
    BY <1>6, <2>0, SameView DEF EntryValidBit, InRange, Control!vars
  <2> SUFFICES ASSUME local[t].passed \in VirtualPage PROVE Control!Load
    BY <2>0
  <2>1. PICK p \in VirtualPage : p = local[t].passed
    OBVIOUS
  <2> DEFINE New == [Table EXCEPT ![p].valid = TRUE]
  <2>2. /\ UNCHANGED <<local, result>> /\ pc[t] = "entry_valid_bit"
        /\ pc' = [pc EXCEPT ![t] = "entry_frame"]
        /\ page_table' = [page_table EXCEPT ![p].valid_bit = TRUE]
    BY <1>6, <2>1 DEF EntryValidBit, InRange
  <2>3. \A q \in VirtualPage : BecomesValid(q)' <=> BecomesValid(q)
    BY <2>2 DEF BecomesValid, TypeOK
  <2>4. \A q \in VirtualPage : q # p => page_table'[q] = page_table[q]
    BY <2>1, <2>2 DEF TypeOK
  <2>5. page_table'[p].valid_bit = TRUE /\ page_table'[p].permissions = page_table[p].permissions
    BY <2>1, <2>2 DEF TypeOK, Entry
  <2>6. \A q \in VirtualPage : q # p => Table'[q] = New[q]
    BY <2>3, <2>4 DEF Table
  <2>7. Table'[p] = New[p]
    <3>1. Table'[p] = [valid       |-> page_table'[p].valid_bit \/ BecomesValid(p)',
                       permissions |-> page_table'[p].permissions]
      BY <2>1 DEF Table
    <3>2. (page_table'[p].valid_bit \/ BecomesValid(p)') = TRUE
      BY <2>5
    <3>3. New[p] = [valid |-> TRUE, permissions |-> page_table[p].permissions]
      BY <2>1 DEF Table
    <3> QED
      BY <2>5, <3>1, <3>2, <3>3
  <2>8. Table' = [q \in VirtualPage |-> Table'[q]] /\ New = [q \in VirtualPage |-> New[q]]
    BY DEF Table
  <2>9. Table' = New /\ UNCHANGED Asked
    BY <2>2, <2>6, <2>7, <2>8 DEF Asked
  <2> QED
    BY <2>1, <2>2, <2>9 DEF Control!Load
<1>7. CASE EntryFrame(t)
  <2>1. /\ UNCHANGED <<local, result>> /\ pc[t] = "entry_frame"
        /\ pc' = [pc EXCEPT ![t] = "caller"]
        /\ page_table' = [page_table EXCEPT ![local[t].passed].frame_number = local[t].frame_number]
    BY <1>7 DEF EntryFrame
  <2>2. \A q \in VirtualPage : /\ page_table'[q].valid_bit = page_table[q].valid_bit
                               /\ page_table'[q].permissions = page_table[q].permissions
    BY <2>1 DEF TypeOK, Entry
  <2>3. \A q \in VirtualPage : BecomesValid(q)' <=> BecomesValid(q)
    BY <2>1 DEF BecomesValid, TypeOK
  <2> QED
    BY <2>1, <2>2, <2>3 DEF Table, Asked, Control!vars
<1> QED
  BY <1>1, <1>2, <1>3, <1>4, <1>5, <1>6, <1>7 DEF Handle

(* Whatever the interleaving, permissions are set and checked as if every  *)
(* call took effect at once: MemProtection implements AccessControl.       *)
THEOREM AtomicAccess == Spec => ImplementsAccessControl
<1>1. Init => Control!Init
  <2> SUFFICES ASSUME Init PROVE Control!Init
    OBVIOUS
  <2>1. \A p \in VirtualPage : ~BecomesValid(p)
    BY DEF Init, BecomesValid
  <2>2. Table = [p \in VirtualPage |-> [valid |-> FALSE, permissions |-> Permission]]
    BY <2>1 DEF Init, Table
  <2>3. Asked = [t \in Thread |-> NONE] /\ result = [t \in Thread |-> "none"]
    BY DEF Init, Asked
  <2> QED
    BY <2>2, <2>3 DEF Control!Init
<1>2. LInv /\ [Next]_vars => [Control!Next]_(Control!vars)
  <2> SUFFICES ASSUME LInv, [Next]_vars
               PROVE  Control!Next \/ UNCHANGED Control!vars
    OBVIOUS
  <2>1. CASE UNCHANGED vars
    BY <2>1 DEF vars, Control!vars, Table, Asked, BecomesValid
  <2>2. CASE \E t \in Thread : Step(t)
    BY <2>2, SetIsGrant, CheckIsAskOrAnswer, HandleIsLoad DEF Step, Control!Next
  <2> QED
    BY <2>1, <2>2 DEF Next
<1> QED
  BY <1>1, <1>2, Locking, PTL DEF Spec, ImplementsAccessControl, Control!Spec


-----------------------------------------------------------------------------
(* One thread: the page fault handler is then alone with its frames.       *)
OneThread == \E t : Thread = {t}

Loading == {"read", "entry_valid_bit", "entry_frame"}

(* The frame a fault is being served with is below the counter, is used by *)
(* no loaded page, and holds the bytes of the page once they are read.     *)
FrameTaken ==
  \A t \in Thread :
    /\ pc[t] \in {"frame_load", "frame_store"} => next_frame < NUM_FRAMES
    /\ pc[t] = "frame_store" => local[t].frame_number = next_frame
    /\ pc[t] \in Loading => /\ local[t].frame_number \in Frame
                            /\ next_frame = local[t].frame_number + 1
                            /\ \A p \in VirtualPage : Loaded(p) =>
                                 page_table[p].frame_number < local[t].frame_number
    /\ pc[t] \in {"entry_valid_bit", "entry_frame"} /\ InRange(local[t].passed) =>
         physical_memory[local[t].frame_number] = local[t].passed
    /\ pc[t] = "entry_frame" => InRange(local[t].passed)

(* Frames are used from 0 on, as the counter counts them.                  *)
LoadedBelowCounter == \A p \in VirtualPage : Loaded(p) => page_table[p].frame_number < next_frame

(* The inductive invariant of the handler of one thread.                   *)
HInv == LInv /\ FrameTaken /\ LoadedBelowCounter /\ LoadedPagesHoldTheirBytes

(* The handler is passed the number of the page that was checked: so it is *)
(* in main, whose only address is 0.                                       *)
PassesPageNumber == \A address \in Address : InRange(Quot(address)) => Passed(address) = Quot(address)

InCheck == {"check_lock", "check_valid_bit", "check_permissions", "check_unlock"}

InHandler == {"handle", "frame_check", "frame_load", "frame_store"} \cup Loading

(* A fault is served for a page that is not loaded, and not valid until it *)
(* is about to be given its frame.                                         *)
FaultPending ==
  \A t \in Thread :
    /\ pc[t] \in InCheck \cup InHandler => local[t].passed = local[t].page
    /\ pc[t] \in {"check_unlock", "handle"} /\ result[t] = "page_fault"
         => ~page_table[local[t].page].valid_bit
    /\ pc[t] \in InHandler \ {"handle", "entry_frame"} => ~page_table[local[t].page].valid_bit
    /\ pc[t] = "entry_frame" => /\ page_table[local[t].page].valid_bit
                                /\ ~Loaded(local[t].page)

LoadedAreValid == \A p \in VirtualPage : Loaded(p) => page_table[p].valid_bit

(* The inductive invariant under which no page is given a second frame.    *)
MInv == HInv /\ FaultPending /\ LoadedAreValid

-----------------------------------------------------------------------------
(* A step that gives no page a frame, and after which no frame is being    *)
(* taken, keeps the handler's invariant.                                   *)
LEMMA StepBesideFrames ==
  ASSUME HInv, LInv', NEW t, Thread = {t},
         pc'[t] \notin {"frame_load", "frame_store"} \cup Loading,
         \A p \in VirtualPage : page_table'[p].frame_number = page_table[p].frame_number,
         UNCHANGED <<next_frame, physical_memory>>
  PROVE  HInv'
<1>1. FrameTaken'
  BY DEF FrameTaken, Loading
<1>2. LoadedBelowCounter' /\ LoadedPagesHoldTheirBytes'
  BY DEF HInv, LoadedBelowCounter, LoadedPagesHoldTheirBytes, Loaded
<1> QED
  BY <1>1, <1>2 DEF HInv

(* set_page_permissions leaves frames and their bytes alone.               *)
LEMMA SetKeepsHInv ==
  ASSUME HInv, NEW t, Thread = {t}, Set(t)
  PROVE  HInv'
<1>0. LInv'
  BY SetKeepsLInv DEF HInv
<1>1. /\ pc'[t] \in {"set_lock", "set_permissions", "set_valid_bit", "set_unlock", "caller"}
      /\ UNCHANGED <<next_frame, physical_memory>>
  BY DEF Set, CallSet, SetLock, SetPermissions, SetValidBit, SetUnlock, Call, Go, lock, unlock,
         HInv, LInv, TypeOK
<1>2. \/ UNCHANGED page_table
      \/ page_table' = [page_table EXCEPT ![local[t].target].permissions = local[t].permissions]
      \/ page_table' = [page_table EXCEPT ![local[t].target].valid_bit = TRUE]
  BY DEF Set, CallSet, SetLock, SetPermissions, SetValidBit, SetUnlock, Call, lock, unlock
<1>3. \A p \in VirtualPage : page_table'[p].frame_number = page_table[p].frame_number
  BY <1>2 DEF HInv, LInv, TypeOK, Entry
<1> QED
  BY <1>0, <1>1, <1>3, StepBesideFrames DEF Loading

(* So does check_permissions.                                              *)
LEMMA CheckKeepsHInv ==
  ASSUME HInv, NEW t, Thread = {t}, Check(t)
  PROVE  HInv'
<1>0. LInv'
  BY CheckKeepsLInv DEF HInv
<1>1. /\ pc'[t] \in InCheck \cup {"handle", "caller"}
      /\ UNCHANGED <<page_table, next_frame, physical_memory>>
  BY DEF Check, CallCheck, CheckLock, CheckValidBit, CheckPermissions, CheckUnlock, Call, Go,
         lock, unlock, Returns, InCheck, HInv, LInv, TypeOK
<1> QED
  BY <1>0, <1>1, StepBesideFrames DEF Loading, InCheck

(* The handler takes the frame of the counter, which is used by no page,   *)
(* fills it with the bytes of its page, and gives it to the page.          *)
LEMMA HandleKeepsHInv ==
  ASSUME HInv, NEW t, Thread = {t}, Handle(t)
  PROVE  HInv'
<1> USE DEF HInv, Go
<1>0. LInv'
  BY HandleKeepsLInv
<1>t. /\ pc \in [Thread -> Label] /\ next_frame \in Nat /\ page_table \in [VirtualPage -> Entry]
      /\ physical_memory \in [Frame -> VirtualPage \cup {NONE}]
      /\ \A p \in VirtualPage : page_table[p].frame_number \in Nat \cup {-1}
      /\ local[t].passed \in Int /\ local[t].frame_number \in Nat
  BY DEF LInv, TypeOK, Entry, Local
<1>1. CASE handle_fault_or_violation(t)
  BY <1>0, <1>1, <1>t, StepBesideFrames DEF handle_fault_or_violation, Loading
<1>2. CASE FrameCheck(t)
  <2>1. CASE ~(next_frame < NUM_FRAMES)
    BY <1>0, <1>2, <1>t, <2>1, StepBesideFrames DEF FrameCheck, Loading
  <2>2. CASE next_frame < NUM_FRAMES
    <3>1. pc'[t] = "frame_load" /\ UNCHANGED <<page_table, next_frame, physical_memory>>
      BY <1>2, <1>t, <2>2 DEF FrameCheck
    <3>2. FrameTaken'
      BY <2>2, <3>1 DEF FrameTaken, Loading
    <3> QED
      BY <1>0, <3>1, <3>2 DEF LoadedBelowCounter, LoadedPagesHoldTheirBytes, Loaded
  <2> QED
    BY <2>1, <2>2
<1>3. CASE FrameLoad(t)
  <2>1. /\ pc[t] = "frame_load" /\ pc'[t] = "frame_store"
        /\ UNCHANGED <<page_table, next_frame, physical_memory>>
    BY <1>3, <1>t DEF FrameLoad
  <2>2. local'[t].frame_number = next_frame
    BY <1>3 DEF FrameLoad, LInv, TypeOK, Local
  <2>3. FrameTaken'
    BY <2>1, <2>2 DEF FrameTaken, Loading
  <2> QED
    BY <1>0, <2>1, <2>3 DEF LoadedBelowCounter, LoadedPagesHoldTheirBytes, Loaded
<1>4. CASE FrameStore(t)
  <2>1. /\ pc[t] = "frame_store" /\ pc'[t] = "read"
        /\ UNCHANGED <<page_table, physical_memory, local>>
        /\ next_frame' = local[t].frame_number + 1
    BY <1>4, <1>t DEF FrameStore
  <2>2. local[t].frame_number = next_frame /\ next_frame < NUM_FRAMES
    BY <2>1 DEF FrameTaken
  <2>3. local[t].frame_number \in Frame
    BY <1>t, <2>2, ProtectionAssumption DEF Frame
  <2>4. FrameTaken'
    BY <2>1, <2>2, <2>3 DEF FrameTaken, Loading, LoadedBelowCounter, Loaded
  <2>5. LoadedBelowCounter' /\ LoadedPagesHoldTheirBytes'
    BY <1>t, <2>1, <2>2 DEF LoadedBelowCounter, LoadedPagesHoldTheirBytes, Loaded
  <2> QED
    BY <1>0, <2>4, <2>5
<1>5. CASE read_from_backing_store(t)
  <2> DEFINE frame == local[t].frame_number
             page  == local[t].passed
  <2>1. /\ pc[t] = "read" /\ UNCHANGED <<page_table, next_frame, local>>
        /\ pc'[t] \in {"caller", "entry_valid_bit"}
    BY <1>5, <1>t DEF read_from_backing_store
  <2>2. /\ frame \in Frame /\ next_frame = frame + 1
        /\ \A p \in VirtualPage : Loaded(p) => page_table[p].frame_number < frame
    BY <2>1 DEF FrameTaken, Loading
  <2>3. \/ UNCHANGED physical_memory
        \/ \E content \in VirtualPage \cup {NONE} :
             physical_memory' = [physical_memory EXCEPT ![frame] = content]
    BY <1>5 DEF read_from_backing_store, InRange
  <2>4. pc'[t] = "entry_valid_bit" /\ InRange(page) => physical_memory'[frame] = page
    BY <1>5, <1>t, <2>2 DEF read_from_backing_store
  <2>5. \A f \in Frame : f # frame => physical_memory'[f] = physical_memory[f]
    BY <1>t, <2>3
  <2>6. FrameTaken'
    BY <2>1, <2>2, <2>4 DEF FrameTaken, Loading, Loaded
  <2>7. \A p \in VirtualPage : Loaded(p) => page_table[p].frame_number # frame
    BY <1>t, <2>2
  <2>8. LoadedPagesHoldTheirBytes'
    BY <2>1, <2>5, <2>7 DEF LoadedPagesHoldTheirBytes, Loaded
  <2> QED
    BY <1>0, <2>1, <2>6, <2>8 DEF LoadedBelowCounter, Loaded
<1>6. CASE EntryValidBit(t)
  <2>1. /\ pc[t] = "entry_valid_bit" /\ UNCHANGED <<next_frame, physical_memory, local>>
        /\ \/ pc'[t] = "entry_frame" /\ InRange(local[t].passed)
           \/ pc'[t] = "caller"
    BY <1>6, <1>t DEF EntryValidBit
  <2>2. \A p \in VirtualPage : page_table'[p].frame_number = page_table[p].frame_number
    BY <1>6, <1>t DEF EntryValidBit, Entry
  <2>3. FrameTaken'
    BY <2>1, <2>2 DEF FrameTaken, Loading, Loaded
  <2> QED
    BY <1>0, <2>1, <2>2, <2>3 DEF LoadedBelowCounter, LoadedPagesHoldTheirBytes, Loaded
<1>7. CASE EntryFrame(t)
  <2> DEFINE frame == local[t].frame_number
             page  == local[t].passed
  <2>1. /\ pc[t] = "entry_frame" /\ pc'[t] = "caller"
        /\ UNCHANGED <<next_frame, physical_memory, local>>
        /\ page_table' = [page_table EXCEPT ![page].frame_number = frame]
    BY <1>7, <1>t DEF EntryFrame
  <2>2. /\ frame \in Frame /\ next_frame = frame + 1 /\ page \in VirtualPage
        /\ physical_memory[frame] = page
    BY <2>1 DEF FrameTaken, Loading, InRange
  <2>3. /\ page_table'[page].frame_number = frame
        /\ \A p \in VirtualPage : p # page => page_table'[p] = page_table[p]
    BY <1>t, <2>1, <2>2 DEF Entry
  <2>4. FrameTaken'
    BY <2>1 DEF FrameTaken, Loading
  <2>5. LoadedBelowCounter'
    BY <1>t, <2>1, <2>2, <2>3 DEF LoadedBelowCounter, Loaded
  <2>6. LoadedPagesHoldTheirBytes'
    BY <2>1, <2>2, <2>3 DEF LoadedPagesHoldTheirBytes, Loaded
  <2> QED
    BY <1>0, <2>4, <2>5, <2>6
<1> QED
  BY <1>1, <1>2, <1>3, <1>4, <1>5, <1>6, <1>7 DEF Handle

(* No page is loaded at the start.                                         *)
LEMMA InitHInv == Init => HInv
<1> SUFFICES ASSUME Init PROVE HInv
  OBVIOUS
<1>1. \A p \in VirtualPage : ~Loaded(p)
  BY DEF Init, Loaded
<1>2. \A t \in Thread : pc[t] = "caller"
  BY DEF Init
<1>3. LoadedBelowCounter /\ LoadedPagesHoldTheirBytes
  BY <1>1 DEF LoadedBelowCounter, LoadedPagesHoldTheirBytes
<1>4. FrameTaken
  BY <1>2 DEF FrameTaken, Loading
<1> QED
  BY <1>3, <1>4, InitLInv DEF HInv

(* So every step of the one thread keeps the invariant.                    *)
LEMMA StepKeepsHInv ==
  ASSUME OneThread, HInv, [Next]_vars
  PROVE  HInv'
<1>1. CASE UNCHANGED vars
  <2>1. LInv'
    BY <1>1 DEF HInv, vars, LInv, TypeOK, MutualExclusion, TargetsInRange, ChecksInProgress,
                DecisionStandsUnderLock
  <2> QED
    BY <1>1, <2>1 DEF HInv, vars, FrameTaken, LoadedBelowCounter, LoadedPagesHoldTheirBytes, Loaded
<1>2. CASE \E t \in Thread : Step(t)
  BY <1>2, SetKeepsHInv, CheckKeepsHInv, HandleKeepsHInv DEF OneThread, Step
<1> QED
  BY <1>1, <1>2 DEF Next

(* With one thread every loaded page has a frame of physical memory, which *)
(* holds its bytes.  (With two it has not: the counter is read, read again *)
(* and written outside of the lock.)                                       *)
THEOREM AloneHandlerKeepsBytes == OneThread => (Spec => []LoadedPagesHoldTheirBytes)
<1> SUFFICES ASSUME OneThread PROVE Spec => []LoadedPagesHoldTheirBytes
  OBVIOUS
<1>1. HInv /\ [Next]_vars => HInv'
  BY StepKeepsHInv
<1>2. HInv => LoadedPagesHoldTheirBytes
  BY DEF HInv
<1> QED
  BY <1>1, <1>2, InitHInv, PTL DEF Spec

-----------------------------------------------------------------------------
(* A page that is faulted for is not loaded, so that it is given its only  *)
(* frame.                                                                  *)
LEMMA InitMInv == Init => MInv
<1> SUFFICES ASSUME Init PROVE MInv
  OBVIOUS
<1>1. \A p \in VirtualPage : ~Loaded(p)
  BY DEF Init, Loaded
<1>2. \A t \in Thread : pc[t] = "caller"
  BY DEF Init
<1>3. LoadedAreValid
  BY <1>1 DEF LoadedAreValid
<1>4. FaultPending
  BY <1>2 DEF FaultPending, InCheck, InHandler, Loading
<1> QED
  BY <1>3, <1>4, InitHInv DEF MInv

(* set_page_permissions loads no page.                                     *)
LEMMA SetKeepsMInv ==
  ASSUME MInv, NEW t, Thread = {t}, Set(t)
  PROVE  MInv'
<1>0. HInv'
  BY SetKeepsHInv DEF MInv
<1>1. /\ pc'[t] \in {"set_lock", "set_permissions", "set_valid_bit", "set_unlock", "caller"}
  BY DEF Set, CallSet, SetLock, SetPermissions, SetValidBit, SetUnlock, Call, Go, MInv, HInv,
         LInv, TypeOK
<1>2. \/ UNCHANGED page_table
      \/ page_table' = [page_table EXCEPT ![local[t].target].permissions = local[t].permissions]
      \/ page_table' = [page_table EXCEPT ![local[t].target].valid_bit = TRUE]
  BY DEF Set, CallSet, SetLock, SetPermissions, SetValidBit, SetUnlock, Call, lock, unlock
<1>3. \A p \in VirtualPage : /\ page_table'[p].frame_number = page_table[p].frame_number
                             /\ page_table[p].valid_bit => page_table'[p].valid_bit
  BY <1>2 DEF MInv, HInv, LInv, TypeOK, Entry
<1>4. FaultPending'
  BY <1>1 DEF FaultPending, InCheck, InHandler, Loading
<1> QED
  BY <1>0, <1>3, <1>4 DEF MInv, LoadedAreValid, Loaded

(* check_permissions passes a page that is not loaded to the handler.      *)
LEMMA CheckKeepsMInv ==
  ASSUME PassesPageNumber, MInv, NEW t, Thread = {t}, Check(t)
  PROVE  MInv'
<1> USE DEF MInv, Go
<1>0. HInv'
  BY CheckKeepsHInv
<1>t. /\ pc \in [Thread -> Label] /\ local \in [Thread -> Local] /\ result \in [Thread -> Codes]
  BY DEF HInv, LInv, TypeOK
<1>1. UNCHANGED page_table
  BY DEF Check, CallCheck, CheckLock, CheckValidBit, CheckPermissions, CheckUnlock, Call, lock,
         unlock, Returns
<1>2. LoadedAreValid'
  BY <1>1 DEF LoadedAreValid, Loaded
<1>3. FaultPending'
  <2>1. CASE CallCheck(t)
    <3>1. PICK address \in Address, access \in Access :
            /\ Go(t, "caller", IF InRange(Quot(address)) THEN "check_lock" ELSE "caller")
            /\ IF InRange(Quot(address))
               THEN local' = [local EXCEPT ![t].page = Quot(address),
                                           ![t].access_type = access,
                                           ![t].passed = Passed(address)]
               ELSE UNCHANGED local
      BY <2>1 DEF CallCheck
    <3> HIDE DEF Quot, Passed
    <3>2. CASE InRange(Quot(address))
      <4>1. pc'[t] = "check_lock"
        BY <1>t, <3>1, <3>2
      <4>2. local'[t].page = Quot(address) /\ local'[t].passed = Passed(address)
        BY <1>t, <3>1, <3>2 DEF Local
      <4>3. Passed(address) = Quot(address)
        BY <3>2 DEF PassesPageNumber
      <4> QED
        BY <4>1, <4>2, <4>3 DEF FaultPending, InCheck, InHandler, Loading
    <3>3. CASE ~InRange(Quot(address))
      BY <1>t, <3>1, <3>3 DEF FaultPending, InCheck, InHandler, Loading
    <3> QED
      BY <3>2, <3>3
  <2>2. CASE CheckLock(t)
    BY <1>t, <2>2 DEF CheckLock, lock, FaultPending, InCheck, InHandler, Loading
  <2>3. CASE CheckValidBit(t)
    BY <1>t, <2>3 DEF CheckValidBit, Returns, FaultPending, InCheck, InHandler, Loading
  <2>4. CASE CheckPermissions(t)
    BY <1>t, <2>4 DEF CheckPermissions, Returns, FaultPending, InCheck, InHandler, Loading
  <2>5. CASE CheckUnlock(t)
    BY <1>t, <2>5 DEF CheckUnlock, unlock, FaultPending, InCheck, InHandler, Loading
  <2> QED
    BY <2>1, <2>2, <2>3, <2>4, <2>5 DEF Check
<1> QED
  BY <1>0, <1>2, <1>3

(* The handler loads that page, if at all.                                 *)
LEMMA HandleKeepsMInv ==
  ASSUME MInv, NEW t, Thread = {t}, Handle(t)
  PROVE  MInv'
<1> USE DEF MInv, Go
<1>0. HInv'
  BY HandleKeepsHInv
<1>t. /\ pc \in [Thread -> Label] /\ page_table \in [VirtualPage -> Entry]
      /\ local \in [Thread -> Local]
      /\ local[t].page \in VirtualPage
  BY DEF HInv, LInv, TypeOK, Local
<1> USE DEF FaultPending, LoadedAreValid, Loaded, InCheck, InHandler, Loading
<1>1. CASE handle_fault_or_violation(t)
  BY <1>0, <1>1, <1>t DEF handle_fault_or_violation
<1>2. CASE FrameCheck(t)
  BY <1>0, <1>2, <1>t DEF FrameCheck
<1>3. CASE FrameLoad(t)
  <2>1. local'[t].page = local[t].page /\ local'[t].passed = local[t].passed
    BY <1>3, <1>t DEF FrameLoad, Local
  <2> QED
    BY <1>0, <1>3, <1>t, <2>1 DEF FrameLoad
<1>4. CASE FrameStore(t)
  BY <1>0, <1>4, <1>t DEF FrameStore
<1>5. CASE read_from_backing_store(t)
  <2>1. /\ UNCHANGED <<page_table, local, result>> /\ pc[t] = "read"
        /\ pc'[t] \in {"caller", "entry_valid_bit"}
    BY <1>5, <1>t DEF read_from_backing_store
  <2> QED
    BY <1>0, <2>1
<1>6. CASE EntryValidBit(t)
  <2>1. /\ UNCHANGED <<local, result>> /\ pc[t] = "entry_valid_bit"
        /\ \/ /\ pc'[t] = "entry_frame"
              /\ page_table' = [page_table EXCEPT ![local[t].passed].valid_bit = TRUE]
           \/ pc'[t] = "caller" /\ UNCHANGED page_table
    BY <1>6, <1>t DEF EntryValidBit
  <2>2. local[t].passed = local[t].page /\ ~page_table[local[t].page].valid_bit
    BY <2>1
  <2>3. ~Loaded(local[t].page)
    BY <1>t, <2>2
  <2>4. \A p \in VirtualPage : /\ page_table'[p].frame_number = page_table[p].frame_number
                               /\ page_table[p].valid_bit => page_table'[p].valid_bit
                               /\ pc'[t] = "entry_frame" /\ p = local[t].page =>
                                    page_table'[p].valid_bit
    BY <1>t, <2>1, <2>2 DEF Entry
  <2>5. LoadedAreValid'
    BY <2>4
  <2>6. FaultPending'
    BY <1>t, <2>1, <2>2, <2>3, <2>4
  <2> QED
    BY <1>0, <2>5, <2>6
<1>7. CASE EntryFrame(t)
  <2>1. /\ UNCHANGED <<local, result>> /\ pc[t] = "entry_frame" /\ pc'[t] = "caller"
        /\ page_table' = [page_table EXCEPT ![local[t].passed].frame_number =
                                              local[t].frame_number]
    BY <1>7, <1>t DEF EntryFrame
  <2>2. FaultPending'
    BY <2>1
  <2>3. page_table[local[t].page].valid_bit
    BY <1>t, <2>1
  <2>4. LoadedAreValid'
    BY <1>t, <2>1, <2>3 DEF Entry
  <2> QED
    BY <1>0, <2>2, <2>4
<1> QED
  BY <1>1, <1>2, <1>3, <1>4, <1>5, <1>6, <1>7 DEF Handle

(* So every step of the one thread keeps the invariant.                    *)
LEMMA StepKeepsMInv ==
  ASSUME OneThread, PassesPageNumber, MInv, [Next]_vars
  PROVE  MInv'
<1>1. CASE UNCHANGED vars
  <2>1. HInv'
    BY StepKeepsHInv DEF MInv
  <2> QED
    BY <1>1, <2>1 DEF MInv, vars, FaultPending, LoadedAreValid, Loaded
<1>2. CASE \E t \in Thread : Step(t)
  BY <1>2, SetKeepsMInv, CheckKeepsMInv, HandleKeepsMInv DEF OneThread, Step
<1> QED
  BY <1>1, <1>2 DEF Next

(* The pages that are loaded, with their frames: Mapping's state.          *)
LoadedPairs == {<<p, page_table[p].frame_number>> : p \in {q \in VirtualPage : Loaded(q)}}

(* Only set_page_table_entry gives a page a frame, and that page had none: *)
(* it is Mapping's Load, with a frame that no loaded page has.             *)
LEMMA EntryFrameIsLoad ==
  ASSUME MInv, NEW t, Thread = {t}, EntryFrame(t)
  PROVE  Mapping!Load
<1> DEFINE frame == local[t].frame_number
           page  == local[t].passed
<1> USE DEF MInv, HInv, Go
<1>t. /\ page_table \in [VirtualPage -> Entry]
      /\ \A p \in VirtualPage : page_table[p].frame_number \in Nat \cup {-1}
      /\ local[t].frame_number \in Nat
  BY DEF LInv, TypeOK, Entry, Local
<1>1. /\ pc[t] = "entry_frame"
      /\ page_table' = [page_table EXCEPT ![page].frame_number = frame]
  BY DEF EntryFrame
<1>2. /\ frame \in Frame /\ page \in VirtualPage
      /\ \A p \in VirtualPage : Loaded(p) => page_table[p].frame_number < frame
  BY <1>1 DEF FrameTaken, Loading, InRange
<1>3. ~Loaded(page)
  BY <1>1 DEF FaultPending, InHandler, Loading
<1>4. /\ page_table'[page].frame_number = frame
      /\ \A p \in VirtualPage : p # page => page_table'[p] = page_table[p]
  BY <1>t, <1>1, <1>2 DEF Entry
<1>5. \A m \in LoadedPairs : m[1] # page /\ m[2] # frame
  BY <1>t, <1>2, <1>3 DEF LoadedPairs
<1>6. \A p \in VirtualPage : Loaded(p)' <=> Loaded(p) \/ p = page
  BY <1>t, <1>2, <1>4 DEF Loaded
<1>7. LoadedPairs' = LoadedPairs \cup {<<page, frame>>}
  <2>1. \A p \in VirtualPage : p # page => page_table'[p].frame_number = page_table[p].frame_number
    BY <1>4
  <2>2. LoadedPairs' = {<<p, page_table'[p].frame_number>> : p \in {q \in VirtualPage : Loaded(q)'}}
    BY DEF LoadedPairs
  <2>3. {q \in VirtualPage : Loaded(q)'} = {q \in VirtualPage : Loaded(q)} \cup {page}
    BY <1>2, <1>6
  <2>4. \A p \in VirtualPage : Loaded(p) => page_table'[p].frame_number = page_table[p].frame_number
    BY <1>3, <2>1
  <2>5. LoadedPairs' \subseteq LoadedPairs \cup {<<page, frame>>}
    BY <1>4, <2>2, <2>3, <2>4 DEF LoadedPairs
  <2>6. LoadedPairs \subseteq LoadedPairs'
    BY <2>2, <2>3, <2>4 DEF LoadedPairs
  <2>7. <<page, frame>> \in LoadedPairs'
    BY <1>2, <1>4, <2>2, <2>3
  <2> QED
    BY <2>5, <2>6, <2>7
<1> QED
  BY <1>2, <1>5, <1>7 DEF Mapping!Load, LoadedPairs

(* Only the step that writes the frame into the entry maps a page.         *)
LEMMA OtherStepsKeepMapping ==
  ASSUME MInv, NEW t \in Thread, Step(t), ~EntryFrame(t)
  PROVE  UNCHANGED LoadedPairs
<1>1. \/ UNCHANGED page_table
      \/ page_table' = [page_table EXCEPT ![local[t].target].permissions = local[t].permissions]
      \/ page_table' = [page_table EXCEPT ![local[t].target].valid_bit = TRUE]
      \/ page_table' = [page_table EXCEPT ![local[t].passed].valid_bit = TRUE]
  BY DEF Step, Set, CallSet, SetLock, SetPermissions, SetValidBit, SetUnlock, Call, lock, unlock,
         Check, CallCheck, CheckLock, CheckValidBit, CheckPermissions, CheckUnlock, Returns,
         Handle, handle_fault_or_violation, FrameCheck, FrameLoad, FrameStore,
         read_from_backing_store, EntryValidBit
<1>2. \A p \in VirtualPage : page_table'[p].frame_number = page_table[p].frame_number
  BY <1>1 DEF MInv, HInv, LInv, TypeOK, Entry
<1> QED
  BY <1>2 DEF LoadedPairs, Loaded

(* With one thread that passes on page numbers the page fault handler      *)
(* implements PageMapping: a page is given one frame, for good, and no     *)
(* frame is given twice.                                                   *)
THEOREM AloneHandlerMaps == OneThread /\ PassesPageNumber => (Spec => ImplementsPageMapping)
<1> SUFFICES ASSUME OneThread, PassesPageNumber PROVE Spec => ImplementsPageMapping
  OBVIOUS
<1>1. Init => Mapping!Init
  BY DEF Init, Mapping!Init, Loaded
<1>2. MInv /\ [Next]_vars => MInv'
  BY StepKeepsMInv
<1>3. MInv /\ [Next]_vars => [Mapping!Load]_LoadedPairs
  <2> SUFFICES ASSUME MInv, [Next]_vars PROVE Mapping!Load \/ UNCHANGED LoadedPairs
    OBVIOUS
  <2>1. CASE UNCHANGED vars
    BY <2>1 DEF vars, LoadedPairs, Loaded
  <2>2. CASE \E t \in Thread : Step(t)
    BY <2>2, EntryFrameIsLoad, OtherStepsKeepMapping DEF OneThread
  <2> QED
    BY <2>1, <2>2 DEF Next
<1> QED
  BY <1>1, <1>2, <1>3, InitMInv, PTL DEF Spec, ImplementsPageMapping, Mapping!Spec, LoadedPairs

==============================================================================
