------------------------------ MODULE TLBSpec ------------------------------
(***************************************************************************)
(* What the rest of the VM system relies on in vm_tlb.c: a set of          *)
(* translations, of which adding one may lose at most one other.           *)
(***************************************************************************)
CONSTANTS Vpn

VARIABLES present   \* virtual pages that have a translation

Init == present = {}

Add(v) ==
  \E lost \in SUBSET present :
    /\ \A u, w \in lost : u = w
    /\ v \notin present
    /\ present' = (present \ lost) \cup {v}

Invalidate(v) == present' = present \ {v}

Flush == present' = {}

Next == (\E v \in Vpn : Add(v) \/ Invalidate(v)) \/ Flush

Spec == Init /\ [][Next]_present
============================================================================
