---------------------------- MODULE LockProvider ----------------------------
(***************************************************************************)
(* GenericLockProvider: a lock object per key, made on first use by a       *)
(* double-checked get_resource_lock, and removed from the dictionary by     *)
(* remove_lock_resource when a reservation's connectivity is cleaned up.    *)
(* The first check, the final read and the first check of the removal are   *)
(* outside the provider's own lock.                                         *)
(***************************************************************************)
EXTENDS Naturals

CONSTANTS
  Thread,   \* commands that work under a lock of the provider
  Cleaner,  \* cleanup_connectivity commands
  Key,      \* all keys
  Used,     \* keys that get_resource_lock is called with
  Removed,  \* keys that a cleanup removes
  MaxLocks, \* bound on the lock objects the provider makes
  NONE

ASSUME KeysAssumption == Used \subseteq Key /\ Removed \subseteq Key
ASSUME ActorsAssumption ==
  /\ Thread \intersect Cleaner = {}
  /\ NONE \notin Thread \union Cleaner \union Key
  /\ MaxLocks \in Nat

Actor == Thread \union Cleaner
LockObj == 1..MaxLocks  \* in the order they are made
NoLock == 0

VARIABLES
  dict,   \* lock_dictionary: the lock object of each key, or NoLock
  made,   \* how many lock objects have been made
  guard,  \* the actor inside self._lock, or NONE
  owner,  \* the thread inside each lock object, or NONE
  pc,
  key,    \* the key each actor is working with
  ref,    \* what get_resource_lock returned to each thread
  todo    \* keys each cleaner has yet to remove

vars == <<dict, made, guard, owner, pc, key, ref, todo>>

Init ==
  /\ dict = [k \in Key |-> NoLock]
  /\ made = 0
  /\ guard = NONE
  /\ owner = [l \in LockObj |-> NONE]
  /\ pc = [a \in Actor |-> "idle"]
  /\ key = [a \in Actor |-> NONE]
  /\ ref = [t \in Thread |-> NoLock]
  /\ todo = [c \in Cleaner |-> Removed]

Goto(a, from, to) == pc[a] = from /\ pc' = [pc EXCEPT ![a] = to]
Known(a) == dict[key[a]] # NoLock

(* Deviations (named ...Bug) are slips the properties below must reveal.     *)
AllocateLockNotMadeBug(k) ==
  made < MaxLocks /\ made' = made /\ dict' = [dict EXCEPT ![k] = made + 1]
AllocateLockSharedBug(k) == made' = 1 /\ dict' = [dict EXCEPT ![k] = 1]

AllocateLock(k) ==
  made < MaxLocks /\ made' = made + 1 /\ dict' = [dict EXCEPT ![k] = made + 1]

(* "with self._lock:" of either method.                                    *)
EnterGuard(a) ==
  /\ guard = NONE /\ guard' = a
  /\ Goto(a, "guard", "guarded")
  /\ UNCHANGED <<dict, made, owner, key, ref, todo>>
-----------------------------------------------------------------------------
(* get_resource_lock                                                       *)

(* A thread takes its next command also when the last one raised.           *)
GetLock(t) ==
  /\ Goto(t, "idle", "check") \/ Goto(t, "keyError", "check")
  /\ \E k \in Used : key' = [key EXCEPT ![t] = k]
  /\ UNCHANGED <<dict, made, guard, owner, ref, todo>>

CheckKey(t) ==
  /\ \/ Goto(t, "check", "guard") /\ ~Known(t)
     \/ Goto(t, "check", "read") /\ Known(t)
  /\ UNCHANGED <<dict, made, guard, owner, key, ref, todo>>

NoRecheckBug(t) ==
  /\ Goto(t, "guarded", "create")
  /\ UNCHANGED <<dict, made, guard, owner, key, ref, todo>>

(* The second check, under the guard.                                      *)
RecheckKey(t) ==
  /\ \/ Goto(t, "guarded", "create") /\ ~Known(t) /\ UNCHANGED guard
     \/ Goto(t, "guarded", "read") /\ Known(t) /\ guard' = NONE
  /\ UNCHANGED <<dict, made, owner, key, ref, todo>>

CreateLock(t) ==
  /\ Goto(t, "create", "read") /\ guard' = NONE
  /\ AllocateLock(key[t])
  /\ UNCHANGED <<owner, key, ref, todo>>

(* return self.lock_dictionary[lock_key]: a KeyError if it has gone.       *)
ReadLock(t) ==
  /\ \/ Goto(t, "read", "lock") /\ Known(t)
     \/ Goto(t, "read", "keyError") /\ ~Known(t)
  /\ ref' = [ref EXCEPT ![t] = dict[key[t]]]
  /\ UNCHANGED <<dict, made, guard, owner, key, todo>>

(* The caller's "with lock:".                                              *)
Enter(t) ==
  /\ Goto(t, "lock", "inside")
  /\ owner[ref[t]] = NONE /\ owner' = [owner EXCEPT ![ref[t]] = t]
  /\ UNCHANGED <<dict, made, guard, key, ref, todo>>

LeaveKeepsLockBug(t) ==
  Goto(t, "inside", "idle") /\ UNCHANGED <<dict, made, guard, owner, key, ref, todo>>

Leave(t) ==
  /\ Goto(t, "inside", "idle")
  /\ owner' = [owner EXCEPT ![ref[t]] = NONE]
  /\ UNCHANGED <<dict, made, guard, key, ref, todo>>
-----------------------------------------------------------------------------
(* remove_lock_resource, for each key cleanup_connectivity names           *)

StartRemove(c) ==
  /\ \E k \in todo[c] :
       /\ key' = [key EXCEPT ![c] = k]
       /\ todo' = [todo EXCEPT ![c] = @ \ {k}]
  /\ Goto(c, "idle", "check")
  /\ UNCHANGED <<dict, made, guard, owner, ref>>

CheckRemove(c) ==
  /\ \/ Goto(c, "check", "idle") /\ ~Known(c)
     \/ Goto(c, "check", "guard") /\ Known(c)
  /\ UNCHANGED <<dict, made, guard, owner, key, ref, todo>>

RecheckRemove(c) ==
  /\ \/ Goto(c, "guarded", "remove") /\ Known(c) /\ UNCHANGED guard
     \/ Goto(c, "guarded", "idle") /\ ~Known(c) /\ guard' = NONE
  /\ UNCHANGED <<dict, made, owner, key, ref, todo>>

RemoveAllLocksBug(c) ==
  /\ Goto(c, "remove", "idle") /\ guard' = NONE
  /\ dict' = [k \in Key |-> NoLock]
  /\ UNCHANGED <<made, owner, key, ref, todo>>

RemoveLock(c) ==
  /\ Goto(c, "remove", "idle") /\ guard' = NONE
  /\ dict' = [dict EXCEPT ![key[c]] = NoLock]
  /\ UNCHANGED <<made, owner, key, ref, todo>>

CleanupDone(c) ==
  /\ todo[c] = {} /\ Goto(c, "idle", "done")
  /\ UNCHANGED <<dict, made, guard, owner, key, ref, todo>>
-----------------------------------------------------------------------------
Work(t) == CheckKey(t) \/ RecheckKey(t) \/ CreateLock(t) \/ ReadLock(t) \/ Leave(t)
Clean(c) ==
  StartRemove(c) \/ CheckRemove(c) \/ RecheckRemove(c) \/ RemoveLock(c) \/ CleanupDone(c)

Next == \/ \E t \in Thread : GetLock(t) \/ Work(t) \/ Enter(t)
        \/ \E c \in Cleaner : Clean(c)
        \/ \E a \in Actor : EnterGuard(a)

Spec == Init /\ [][Next]_vars

(* Threads keep running, and whoever keeps finding a lock free gets it.    *)
FairSpec ==
  /\ Spec
  /\ \A t \in Thread : WF_vars(Work(t)) /\ SF_vars(Enter(t))
  /\ \A c \in Cleaner : WF_vars(Clean(c))
  /\ \A a \in Actor : SF_vars(EnterGuard(a))
-----------------------------------------------------------------------------
(* The type of every variable.                                             *)
TypeOK ==
  /\ made \in 0..MaxLocks /\ dict \in [Key -> 0..made]
  /\ guard \in Actor \union {NONE}
  /\ owner \in [LockObj -> Thread \union {NONE}]
  /\ pc \in [Actor -> {"idle", "check", "guard", "guarded", "create", "remove", "read", "lock",
                       "inside", "keyError", "done"}]
  /\ key \in [Actor -> Key \union {NONE}]
  /\ ref \in [Thread -> 0..made]
  /\ todo \in [Cleaner -> SUBSET Removed]

Kept == Key \ Removed  \* the keys that no cleanup removes

(* No two threads are ever inside the lock of one key that no cleanup       *)
(* removes, though the first check and the last read of the dictionary      *)
(* take no lock.                                                            *)
MutualExclusion ==
  \A t, u \in Thread :
    pc[t] = "inside" /\ pc[u] = "inside" /\ key[t] = key[u] /\ key[t] \in Kept => t = u

(* get_resource_lock never fails between its check and its last read, for   *)
(* a key that no cleanup removes.                                           *)
NoKeyError == \A t \in Thread : pc[t] = "keyError" => key[t] \notin Kept

(* Two keys never share a lock object: work on one security group does not  *)
(* wait for work on another.                                                *)
LocksIndependent ==
  \A j, k \in Key : dict[j] # NoLock /\ dict[j] = dict[k] => j = k

(* A command that asks for a lock gets inside it, or meets a cleanup that    *)
(* removed its key, and every cleanup ends.                                 *)
RequestsServed ==
  /\ \A t \in Thread : pc[t] = "check" ~> pc[t] \in {"inside", "keyError"}
  /\ \A c \in Cleaner : <>(pc[c] = "done")

(* cleanup_connectivity: "release the generic lock for reservation in       *)
(* context".  When it ends while no command uses a lock, no entry is left.  *)
CleanupForgetsLocks ==
  [][\A c \in Cleaner : CleanupDone(c) /\ (\A t \in Thread : pc[t] = "idle") =>
       \A k \in Key : dict'[k] = NoLock]_vars

Cell == [k \in Kept |-> dict[k]]
Answer == [t \in Thread |-> [k \in Kept |->
             IF key[t] = k /\ pc[t] \in {"lock", "inside"} THEN ref[t] ELSE NoLock]]
Once == INSTANCE WriteOnce WITH
  Key <- Kept, Client <- Thread, Value <- LockObj, NONE <- NoLock, cell <- Cell, answer <- Answer

(* get_resource_lock is a write-once cache of lock objects: a thread that    *)
(* waits for the lock of a kept key, or is inside it, holds the one object   *)
(* that was ever made for that key.                                         *)
LocksOnce == Once!Spec
=============================================================================
