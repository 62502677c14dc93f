-------------------------------- MODULE TLB --------------------------------
(***************************************************************************)
(* kern/vm/vm_tlb.c: which slot of the TLB a translation goes to.  Slots   *)
(* that are free are linked in a list of nodes; when it is empty a slot is *)
(* taken in turn.  All of it runs with interrupts off.                     *)
(***************************************************************************)
EXTENDS Base, Integers, FiniteSets

CONSTANTS Vpn, NUM_TLB

Index == 0..(NUM_TLB - 1)

ASSUME SlotAssumption == NUM_TLB \in Nat \ {0} /\ NULL \notin Vpn \cup Int

VARIABLES
  entry,        \* the hardware: virtual page of each slot, or NULL
  next_free,    \* per node: the next one
  tlbnextfree,  \* first node of the list
  next_victim,
  written       \* the index last given to TLB_Write(), or NULL

tlb_vars == <<entry, next_free, tlbnextfree, next_victim, written>>

\* The slot node i stands for, as tlb_init_free_list() sets it.
id(i) == IF i < NUM_TLB - 1 THEN i ELSE NUM_TLB

InitialNext == [i \in Index |-> IF i < NUM_TLB - 1 THEN i + 1 ELSE NULL]

\* tlb_bootstrap()
TlbInit ==
  /\ entry = [i \in Index |-> NULL]
  /\ next_free = InitialNext /\ tlbnextfree = 0
  /\ next_victim = 0
  /\ written = NULL

\* TLB_Write(): the processor ignores the bits of the index register above
\* those it needs to number its slots.
TLB_Write(v, index) ==
  /\ entry' = [entry EXCEPT ![index % NUM_TLB] = v]
  /\ written' = index

\* TLB_Probe()
Matching(v) == {i \in Index : entry[i] = v}

\* tlb_get_free_entry(): the first node leaves the list.  The link of the
\* node whose number is its id is cleared; for the last node that is memory
\* behind the nodes, which is not part of this state.
tlb_get_free_entry ==
  /\ tlbnextfree # NULL
  /\ tlbnextfree' = next_free[tlbnextfree]
  /\ next_free' = [i \in Index |-> IF i = id(tlbnextfree) THEN NULL ELSE next_free[i]]

\* tlb_get_rr_victim()
tlb_get_rr_victim == next_victim' = (next_victim + 1) % NUM_TLB

\* tlb_add_entry(), after a miss on v.
tlb_add_entry(v) ==
  /\ Matching(v) = {}
  /\ \/ /\ tlb_get_free_entry
        /\ TLB_Write(v, id(tlbnextfree))
        /\ UNCHANGED next_victim
     \/ /\ tlbnextfree = NULL
        /\ tlb_get_rr_victim
        /\ TLB_Write(v, next_victim)
        /\ UNCHANGED <<tlbnextfree, next_free>>

\* tlb_invalidate_vaddr(): the slot is overwritten and its node put in front.
tlb_invalidate_vaddr(v) ==
  \E victim \in Matching(v) :
    /\ TLB_Write(NULL, victim)
    /\ next_free' = [next_free EXCEPT ![victim] = tlbnextfree]
    /\ tlbnextfree' = victim
    /\ UNCHANGED next_victim

bug_tlb_context_switch ==    \* the loop ends one slot too early
  /\ next_free' = InitialNext /\ tlbnextfree' = 0
  /\ entry' = [i \in Index |-> IF i < NUM_TLB - 1 THEN NULL ELSE entry[i]]
  /\ written' = NUM_TLB - 1
  /\ UNCHANGED next_victim

\* tlb_context_switch()
tlb_context_switch ==
  /\ next_free' = InitialNext /\ tlbnextfree' = 0
  /\ entry' = [i \in Index |-> NULL]
  /\ written' = NUM_TLB - 1
  /\ UNCHANGED next_victim

TlbNext ==
  \/ \E v \in Vpn : tlb_add_entry(v) \/ tlb_invalidate_vaddr(v)
  \/ tlb_context_switch

TlbSpec == TlbInit /\ [][TlbNext]_tlb_vars

----------------------------------------------------------------------------
(* Properties *)

Present == {v \in Vpn : Matching(v) # {}}

\* The slots hold a set of translations as VM.tla uses it, although a node
\* whose id is not its own number can leave a used slot on the list:
\* tlb_add_entry() loses at most one other, tlb_invalidate_vaddr() removes
\* what it is given and tlb_context_switch() everything.
Translations == INSTANCE TLBSpec WITH present <- Present
TLBImplements == Translations!Spec

\* TLB_Write() takes the number of a slot, and NUM_TLB is the "Number of TLB
\* entries in the processor" (arch/mips/include/tlb.h:70).
WritesASlot == written \in Index \cup {NULL}
============================================================================
