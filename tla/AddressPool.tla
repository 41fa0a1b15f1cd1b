---------------------------- MODULE AddressPool ----------------------------
(* What an exclusive pool of private addresses promises, whoever its owners *)
(* are: an address is checked out while it is free, is used by the owner it *)
(* was checked out for and by no other, and comes back only when its owner  *)
(* has stopped using it.  A machine uses the addresses of its interfaces.   *)
CONSTANTS
  Address,  \* the addresses of the pool
  Owner,    \* those an address may be checked out for
  NONE      \* no owner

VARIABLES
  lessee,   \* the owner of each address; NONE: free
  used      \* the addresses each owner has in use

Leased(o) == {a \in Address : lessee[a] = o}

Init == lessee = [a \in Address |-> NONE] /\ used = [o \in Owner |-> {}]

CheckOut(o) ==
  /\ \E a \in Leased(NONE) : lessee' = [lessee EXCEPT ![a] = o]
  /\ UNCHANGED used

(* Addresses are put to use, and no longer used.                            *)
Use ==
  /\ used' \in [Owner -> SUBSET Address]
  /\ \A o \in Owner : used'[o] \subseteq Leased(o)
  /\ UNCHANGED lessee

GiveBack(o) ==
  /\ \E back \in SUBSET (Leased(o) \ used[o]) :
       lessee' = [a \in Address |-> IF a \in back THEN NONE ELSE lessee[a]]
  /\ UNCHANGED used

Next == Use \/ \E o \in Owner : CheckOut(o) \/ GiveBack(o)

Spec == Init /\ [][Next]_<<lessee, used>>
=============================================================================
