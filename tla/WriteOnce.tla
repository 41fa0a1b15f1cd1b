----------------------------- MODULE WriteOnce -----------------------------
(***************************************************************************)
(* What a double-checked cache whose entries are never invalidated          *)
(* promises: an entry is filled once, and every client that is answered     *)
(* holds what it was filled with.  GenericLockProvider.get_resource_lock,   *)
(* for keys that no clean-up removes, and KeyPairService.get_key_pair are   *)
(* shown to implement it.                                                   *)
(***************************************************************************)
CONSTANTS
  Key,    \* names of the entries
  Client, \* threads that ask for them
  Value,  \* what an entry may be filled with
  NONE

VARIABLES
  cell,   \* each entry, NONE until it is filled
  answer  \* what each client holds of each entry, or NONE

vars == <<cell, answer>>

NoAnswer == [k \in Key |-> NONE]

Init == cell = [k \in Key |-> NONE] /\ answer = [c \in Client |-> NoAnswer]

Fill(k, v) ==
  /\ cell[k] = NONE /\ cell' = [cell EXCEPT ![k] = v]
  /\ UNCHANGED answer

Answer(c, k) ==
  /\ cell[k] # NONE /\ answer' = [answer EXCEPT ![c] = [NoAnswer EXCEPT ![k] = cell[k]]]
  /\ UNCHANGED cell

Forget(c) == answer' = [answer EXCEPT ![c] = NoAnswer] /\ UNCHANGED cell

Next ==
  \/ \E k \in Key : \E v \in Value : Fill(k, v)
  \/ \E c \in Client : Forget(c) \/ \E k \in Key : Answer(c, k)

Spec == Init /\ [][Next]_vars
=============================================================================
