----------------------------- MODULE AddressLease -----------------------------
(***************************************************************************)
(* What the reverse table promises, whoever works on it: an address of a   *)
(* client's pool is leased to at most one host, a lease is given only on   *)
(* an address nobody holds, and it ends before the address is leased       *)
(* again.  One lease is given at a time; any number may end together.      *)
(***************************************************************************)
CONSTANTS Slot,   \* the addresses, those of all clients together
          Host,   \* the hosts they are leased to
          Free    \* marks an address without a lease

VARIABLE owner

Init == owner = [slot \in Slot |-> Free]

Lease(slot, host) ==
    /\ owner[slot] = Free
    /\ owner' = [owner EXCEPT ![slot] = host]

Release(slots) ==
    owner' = [slot \in Slot |-> IF slot \in slots THEN Free ELSE owner[slot]]

Next ==
    \/ \E slot \in Slot, host \in Host : Lease(slot, host)
    \/ \E slots \in SUBSET Slot : Release(slots)

Spec == Init /\ [][Next]_owner

=============================================================================
