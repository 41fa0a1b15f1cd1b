------------------------- MODULE LockProviderProofs -------------------------
(* GenericLockProvider for any number of commands, cleanups, keys and lock   *)
(* objects: the exclusion of LockProvider's runs, proved.                    *)
EXTENDS LockProvider, TLAPS

Guarded == {"guarded", "create", "remove"}
Locating == {"check", "guard", "read"} \union Guarded
Holding == {"lock", "inside"}

(* Who works with which key.                                               *)
KeysInv ==
  /\ \A t \in Thread : pc[t] \notin {"remove", "done"} /\ (pc[t] \in Locating \union Holding => key[t] \in Used)
  /\ \A c \in Cleaner : /\ pc[c] \in {"idle", "check", "guard", "guarded", "remove", "done"}
                        /\ pc[c] \in Locating => key[c] \in Removed

(* One actor at a time is inside the provider's guard, so that a key found   *)
(* absent there stays absent until its lock is stored.                      *)
GuardInv ==
  /\ \A a \in Actor : pc[a] \in Guarded => guard = a
  /\ \A t \in Thread : pc[t] = "create" => ~Known(t)

(* Past get_resource_lock's check the entry of a kept key stays, and what    *)
(* was returned is still that entry.                                        *)
EntryInv ==
  \A t \in Thread :
    /\ pc[t] \in {"read"} \union Holding /\ key[t] \in Kept => dict[key[t]] # NoLock
    /\ pc[t] \in Holding => ref[t] # NoLock
    /\ pc[t] \in Holding /\ key[t] \in Kept => ref[t] = dict[key[t]]

OwnerInv == \A t \in Thread : pc[t] = "inside" => owner[ref[t]] = t

IInv == TypeOK /\ KeysInv /\ GuardInv /\ EntryInv /\ OwnerInv /\ LocksIndependent /\ NoKeyError

-----------------------------------------------------------------------------
USE DEF Actor, LockObj, NoLock, Kept, Known, Goto

(* The type invariant is inductive once the keys at work are known.          *)
LEMMA TypeStep ==
  ASSUME TypeOK, KeysInv, [Next]_vars
  PROVE  TypeOK'
<1> USE KeysAssumption, ActorsAssumption
<1>1. ASSUME NEW t \in Thread, GetLock(t)
      PROVE  TypeOK'
  BY <1>1 DEF TypeOK, GetLock
<1>2. ASSUME NEW t \in Thread, CheckKey(t)
      PROVE  TypeOK'
  BY <1>2 DEF TypeOK, CheckKey
<1>3. ASSUME NEW t \in Thread, CreateLock(t)
      PROVE  TypeOK'
  <2>1. key[t] \in Key
    BY <1>3 DEF CreateLock, KeysInv, Locating, Guarded
  <2> QED
    BY <1>3, <2>1 DEF TypeOK, CreateLock, AllocateLock
<1>4. ASSUME NEW t \in Thread, ReadLock(t)
      PROVE  TypeOK'
  <2>1. key[t] \in Key
    BY <1>4 DEF ReadLock, KeysInv, Locating, Guarded
  <2> QED
    BY <1>4, <2>1 DEF TypeOK, ReadLock
<1>5. ASSUME NEW t \in Thread, Enter(t)
      PROVE  TypeOK'
  BY <1>5 DEF TypeOK, Enter
<1>6. ASSUME NEW t \in Thread, Leave(t)
      PROVE  TypeOK'
  BY <1>6 DEF TypeOK, Leave
<1>7. ASSUME NEW c \in Cleaner, StartRemove(c)
      PROVE  TypeOK'
  BY <1>7 DEF TypeOK, StartRemove
<1>8. ASSUME NEW c \in Cleaner, CheckRemove(c)
      PROVE  TypeOK'
  BY <1>8 DEF TypeOK, CheckRemove
<1>9. ASSUME NEW c \in Cleaner, RemoveLock(c)
      PROVE  TypeOK'
  <2>1. dict \in [Key -> 0..made] /\ 0 \in 0..made
    BY DEF TypeOK
  <2>2. dict' = [dict EXCEPT ![key[c]] = 0] /\ made' = made
    BY <1>9 DEF RemoveLock
  <2>3. dict' \in [Key -> 0..made']
    BY <2>1, <2>2
  <2> QED
    BY <1>9, <2>3 DEF TypeOK, RemoveLock
<1>10. ASSUME NEW c \in Cleaner, CleanupDone(c)
       PROVE  TypeOK'
  BY <1>10 DEF TypeOK, CleanupDone
<1>11. ASSUME NEW a \in Actor, EnterGuard(a)
       PROVE  TypeOK'
  BY <1>11 DEF TypeOK, EnterGuard
<1>12. ASSUME NEW t \in Thread, RecheckKey(t)
       PROVE  TypeOK'
  BY <1>12 DEF TypeOK, RecheckKey
<1>13. ASSUME NEW c \in Cleaner, RecheckRemove(c)
       PROVE  TypeOK'
  BY <1>13 DEF TypeOK, RecheckRemove
<1>14. CASE UNCHANGED vars
  BY <1>14 DEF TypeOK, vars
<1> QED
  BY <1>1, <1>2, <1>3, <1>4, <1>5, <1>6, <1>7, <1>8, <1>9, <1>10, <1>11, <1>12,
     <1>13, <1>14
  DEF Next, Work, Clean
-----------------------------------------------------------------------------
LEMMA KeysStep ==
  ASSUME TypeOK, KeysInv, [Next]_vars
  PROVE  KeysInv'
<1> USE KeysAssumption, ActorsAssumption DEF TypeOK, KeysInv, Locating, Guarded, Holding
<1>1. ASSUME NEW t \in Thread, GetLock(t)
      PROVE  KeysInv'
  BY <1>1 DEF GetLock
<1>2. ASSUME NEW t \in Thread, Work(t) \/ Enter(t)
      PROVE  KeysInv'
  BY <1>2 DEF Work, CheckKey, RecheckKey, CreateLock, ReadLock, Enter, Leave
<1>3. ASSUME NEW c \in Cleaner, StartRemove(c)
      PROVE  KeysInv'
  BY <1>3 DEF StartRemove
<1>4. ASSUME NEW c \in Cleaner, CheckRemove(c) \/ RecheckRemove(c) \/ RemoveLock(c) \/ CleanupDone(c)
      PROVE  KeysInv'
  <2>1. CASE CheckRemove(c) \/ RecheckRemove(c)
    BY <2>1 DEF CheckRemove, RecheckRemove
  <2>2. CASE RemoveLock(c) \/ CleanupDone(c)
    BY <2>2 DEF RemoveLock, CleanupDone
  <2> QED
    BY <1>4, <2>1, <2>2
<1>5. ASSUME NEW a \in Actor, EnterGuard(a)
      PROVE  KeysInv'
  BY <1>5 DEF EnterGuard
<1>6. CASE UNCHANGED vars
  BY <1>6 DEF vars
<1> QED
  BY <1>1, <1>2, <1>3, <1>4, <1>5, <1>6 DEF Next, Clean

LEMMA GuardStep ==
  ASSUME TypeOK, KeysInv, GuardInv, [Next]_vars
  PROVE  GuardInv'
<1> USE ActorsAssumption, KeysAssumption DEF TypeOK, KeysInv, GuardInv, Guarded, Locating
<1>1. ASSUME NEW t \in Thread, GetLock(t) \/ CheckKey(t) \/ ReadLock(t) \/ Enter(t) \/ Leave(t)
      PROVE  GuardInv'
  BY <1>1 DEF GetLock, CheckKey, ReadLock, Enter, Leave
<1>2. ASSUME NEW t \in Thread, RecheckKey(t)
      PROVE  GuardInv'
  BY <1>2 DEF RecheckKey
<1>3. ASSUME NEW t \in Thread, CreateLock(t)
      PROVE  GuardInv'
  <2>1. \A a \in Actor : pc'[a] \notin Guarded
    BY <1>3 DEF CreateLock
  <2> QED
    BY <2>1
<1>4. ASSUME NEW c \in Cleaner, StartRemove(c) \/ CheckRemove(c) \/ RecheckRemove(c) \/ CleanupDone(c)
      PROVE  GuardInv'
  BY <1>4 DEF StartRemove, CheckRemove, RecheckRemove, CleanupDone
<1>5. ASSUME NEW c \in Cleaner, RemoveLock(c)
      PROVE  GuardInv'
  <2>1. \A a \in Actor : pc'[a] \notin Guarded
    BY <1>5 DEF RemoveLock
  <2> QED
    BY <2>1
<1>6. ASSUME NEW a \in Actor, EnterGuard(a)
      PROVE  GuardInv'
  BY <1>6 DEF EnterGuard
<1>7. CASE UNCHANGED vars
  BY <1>7 DEF vars
<1> QED
  BY <1>1, <1>2, <1>3, <1>4, <1>5, <1>6, <1>7 DEF Next, Work, Clean

(* A step never changes the entry of a key that no cleanup removes, once     *)
(* there is one.                                                            *)
LEMMA EntryStays ==
  ASSUME TypeOK, KeysInv, GuardInv, [Next]_vars,
         NEW k \in Key \ Removed, dict[k] # NoLock
  PROVE  dict'[k] = dict[k]
<1> USE KeysAssumption DEF TypeOK, KeysInv, Locating, Guarded
<1>1. ASSUME NEW t \in Thread, CreateLock(t)
      PROVE  dict'[k] = dict[k]
  BY <1>1 DEF CreateLock, AllocateLock, GuardInv
<1>2. ASSUME NEW c \in Cleaner, RemoveLock(c)
      PROVE  dict'[k] = dict[k]
  BY <1>2 DEF RemoveLock
<1>3. CASE UNCHANGED dict
  BY <1>3
<1> QED
  BY <1>1, <1>2, <1>3
  DEF Next, vars, Work, Clean, GetLock, CheckKey, RecheckKey, ReadLock, Enter, Leave, StartRemove,
      CheckRemove, RecheckRemove, CleanupDone, EnterGuard

LEMMA EntryStep ==
  ASSUME TypeOK, KeysInv, GuardInv, EntryInv, [Next]_vars
  PROVE  EntryInv'
<1> USE KeysAssumption, ActorsAssumption DEF TypeOK, KeysInv, Locating, Guarded, Holding, EntryInv
<1>1. \A k \in Key \ Removed : dict[k] # NoLock => dict'[k] = dict[k]
  BY EntryStays
<1>2. ASSUME NEW t \in Thread, GetLock(t)
      PROVE  EntryInv'
  BY <1>2 DEF GetLock
<1>3. ASSUME NEW t \in Thread, CheckKey(t) \/ RecheckKey(t)
      PROVE  EntryInv'
  BY <1>3 DEF CheckKey, RecheckKey
<1>4. ASSUME NEW t \in Thread, CreateLock(t)
      PROVE  EntryInv'
  <2>1. dict'[key[t]] # NoLock
    BY <1>4 DEF CreateLock, AllocateLock
  <2>2. /\ pc' = [pc EXCEPT ![t] = "read"] /\ pc[t] = "create"
        /\ UNCHANGED <<key, ref>>
    BY <1>4 DEF CreateLock
  <2> QED
    BY <1>1, <2>1, <2>2
<1>5. ASSUME NEW t \in Thread, ReadLock(t)
      PROVE  EntryInv'
  BY <1>5 DEF ReadLock
<1>6. ASSUME NEW t \in Thread, Enter(t) \/ Leave(t)
      PROVE  EntryInv'
  BY <1>6 DEF Enter, Leave
<1>7. ASSUME NEW c \in Cleaner, Clean(c)
      PROVE  EntryInv'
  <2>1. \A t \in Thread : pc'[t] = pc[t] /\ key'[t] = key[t] /\ ref'[t] = ref[t]
    BY <1>7 DEF Clean, StartRemove, CheckRemove, RecheckRemove, RemoveLock, CleanupDone
  <2> QED
    BY <1>1, <2>1
<1>8. ASSUME NEW a \in Actor, EnterGuard(a)
      PROVE  EntryInv'
  BY <1>8 DEF EnterGuard
<1>9. CASE UNCHANGED vars
  BY <1>9 DEF vars
<1> QED
  BY <1>2, <1>3, <1>4, <1>5, <1>6, <1>7, <1>8, <1>9 DEF Next, Work

LEMMA OwnerStep ==
  ASSUME TypeOK, KeysInv, EntryInv, OwnerInv, [Next]_vars
  PROVE  OwnerInv'
<1> USE ActorsAssumption DEF TypeOK, OwnerInv
<1>1. ASSUME NEW t \in Thread, Enter(t)
      PROVE  OwnerInv'
  <2>1. ref[t] \in LockObj
    BY <1>1 DEF Enter, EntryInv, Holding
  <2> QED
    BY <1>1, <2>1 DEF Enter
<1>2. ASSUME NEW t \in Thread, Leave(t)
      PROVE  OwnerInv'
  <2>1. /\ pc' = [pc EXCEPT ![t] = "idle"] /\ ref' = ref
        /\ owner' = [owner EXCEPT ![ref[t]] = NONE] /\ owner[ref[t]] = t
    BY <1>2 DEF Leave, Goto
  <2>2. ASSUME NEW u \in Thread, pc'[u] = "inside"
        PROVE  owner'[ref'[u]] = u
    <3>1. u # t /\ owner[ref[u]] = u
      BY <2>1, <2>2
    <3>2. ref[u] # ref[t]
      BY <2>1, <3>1
    <3> QED
      BY <2>1, <3>1, <3>2
  <2> QED
    BY <2>2
<1>3. ASSUME NEW t \in Thread, GetLock(t) \/ CheckKey(t) \/ RecheckKey(t) \/ CreateLock(t) \/ ReadLock(t)
      PROVE  OwnerInv'
  BY <1>3 DEF GetLock, CheckKey, RecheckKey, CreateLock, ReadLock
<1>4. ASSUME NEW c \in Cleaner, Clean(c)
      PROVE  OwnerInv'
  BY <1>4 DEF Clean, StartRemove, CheckRemove, RecheckRemove, RemoveLock, CleanupDone
<1>5. ASSUME NEW a \in Actor, EnterGuard(a)
      PROVE  OwnerInv'
  BY <1>5 DEF EnterGuard
<1>6. CASE UNCHANGED vars
  BY <1>6 DEF vars
<1> QED
  BY <1>1, <1>2, <1>3, <1>4, <1>5, <1>6 DEF Next, Work

LEMMA IndependentStep ==
  ASSUME TypeOK, KeysInv, LocksIndependent, [Next]_vars
  PROVE  LocksIndependent'
<1> USE KeysAssumption DEF TypeOK, LocksIndependent
<1>1. ASSUME NEW t \in Thread, CreateLock(t)
      PROVE  LocksIndependent'
  <2>1. key[t] \in Key /\ AllocateLock(key[t])
    BY <1>1 DEF CreateLock, KeysInv, Locating, Guarded
  <2>2. \A k \in Key : dict[k] < made + 1 /\ dict[k] \in Nat
    OBVIOUS
  <2> QED
    BY <2>1, <2>2 DEF AllocateLock
<1>2. ASSUME NEW c \in Cleaner, RemoveLock(c)
      PROVE  LocksIndependent'
  BY <1>2 DEF RemoveLock
<1>3. CASE UNCHANGED dict
  BY <1>3
<1> QED
  BY <1>1, <1>2, <1>3
  DEF Next, vars, Work, Clean, GetLock, CheckKey, RecheckKey, ReadLock, Enter, Leave, StartRemove,
      CheckRemove, RecheckRemove, CleanupDone, EnterGuard

LEMMA NoKeyErrorStep ==
  ASSUME TypeOK, KeysInv, EntryInv, NoKeyError, [Next]_vars
  PROVE  NoKeyError'
<1> USE DEF TypeOK, NoKeyError
<1>1. ASSUME NEW t \in Thread, ReadLock(t)
      PROVE  NoKeyError'
  BY <1>1 DEF ReadLock, EntryInv
<1>2. ASSUME NEW t \in Thread,
             \/ GetLock(t) \/ CheckKey(t) \/ RecheckKey(t) \/ CreateLock(t)
             \/ Enter(t) \/ Leave(t)
      PROVE  NoKeyError'
  BY <1>2 DEF GetLock, CheckKey, RecheckKey, CreateLock, Enter, Leave
<1>3. ASSUME NEW c \in Cleaner, Clean(c)
      PROVE  NoKeyError'
  BY <1>3, ActorsAssumption DEF Clean, StartRemove, CheckRemove, RecheckRemove, RemoveLock, CleanupDone
<1>4. ASSUME NEW a \in Actor, EnterGuard(a)
      PROVE  NoKeyError'
  BY <1>4 DEF EnterGuard
<1>5. CASE UNCHANGED vars
  BY <1>5 DEF vars
<1> QED
  BY <1>1, <1>2, <1>3, <1>4, <1>5 DEF Next, Work
-----------------------------------------------------------------------------
LEMMA Invariance == Spec => []IInv
<1>1. Init => IInv
  BY KeysAssumption, ActorsAssumption
  DEF Init, IInv, TypeOK, KeysInv, GuardInv, EntryInv, OwnerInv, LocksIndependent,
      NoKeyError, Locating, Guarded, Holding
<1>2. IInv /\ [Next]_vars => IInv'
  BY TypeStep, KeysStep, GuardStep, EntryStep, OwnerStep, IndependentStep, NoKeyErrorStep
  DEF IInv
<1> QED
  BY <1>1, <1>2, PTL DEF Spec

(* Whatever the commands and cleanups do, no two threads are inside the lock *)
(* of one key that no cleanup removes: get_resource_lock's unlocked check    *)
(* and read are harmless.                                                   *)
THEOREM Exclusion == Spec => []MutualExclusion
<1>1. IInv => MutualExclusion
  BY DEF IInv, EntryInv, OwnerInv, Holding, MutualExclusion
<1> QED
  BY <1>1, Invariance, PTL

(* get_resource_lock finds its key again at the final return, whatever other *)
(* threads and cleanups did since it looked.                                *)
THEOREM LockAlwaysFound == Spec => []NoKeyError
<1>1. IInv => NoKeyError
  BY DEF IInv
<1> QED
  BY <1>1, Invariance, PTL

(* Two keys never share a lock object: a deployment never waits for the lock *)
(* of another group.                                                        *)
THEOREM LocksDistinct == Spec => []LocksIndependent
<1>1. IInv => LocksIndependent
  BY DEF IInv
<1> QED
  BY <1>1, Invariance, PTL
-----------------------------------------------------------------------------
(* No lock is left behind: whoever has the provider's own lock is inside it, *)
(* and whoever has a lock object is inside the with statement, and works     *)
(* without waiting for any other lock.                                      *)
HoldersAtWork ==
  /\ guard # NONE => pc[guard] \in Guarded
  /\ \A l \in LockObj : \A t \in Thread : owner[l] = t => pc[t] = "inside" /\ ref[t] = l

(* A step of an actor that keeps what it has, or gives back the guard.       *)
LEMMA GuardHolder ==
  ASSUME TypeOK, HoldersAtWork, NEW a \in Actor, \A b \in Actor \ {a} : pc'[b] = pc[b],
         guard' = NONE \/ (guard' = guard /\ (pc[a] \in Guarded => pc'[a] \in Guarded))
  PROVE  guard' # NONE => pc'[guard'] \in Guarded
<1>1. guard \in Actor \union {NONE}
  BY DEF TypeOK
<1> QED
  BY <1>1 DEF HoldersAtWork

LEMMA HoldersStep ==
  ASSUME IInv, HoldersAtWork, [Next]_vars
  PROVE  HoldersAtWork'
<1> USE ActorsAssumption
<1>1. TypeOK /\ EntryInv
  BY DEF IInv
<1>2. /\ pc \in [Actor -> {"idle", "check", "guard", "guarded", "create", "remove", "read", "lock",
                         "inside", "keyError", "done"}]
      /\ owner \in [LockObj -> Thread \union {NONE}] /\ ref \in [Thread -> 0..made]
  BY <1>1 DEF TypeOK
<1>3. ASSUME NEW t \in Thread, GetLock(t) \/ CheckKey(t) \/ RecheckKey(t) \/ CreateLock(t) \/ ReadLock(t)
      PROVE  HoldersAtWork'
  <2>1. owner' = owner /\ pc[t] # "inside" /\ \A u \in Thread \ {t} : ref'[u] = ref[u]
    BY <1>2, <1>3 DEF GetLock, CheckKey, RecheckKey, CreateLock, ReadLock
  <2>2. \A b \in Actor \ {t} : pc'[b] = pc[b]
    BY <1>2, <1>3 DEF GetLock, CheckKey, RecheckKey, CreateLock, ReadLock
  <2>3. guard' = NONE \/ (guard' = guard /\ (pc[t] \in Guarded => pc'[t] \in Guarded))
    BY <1>2, <1>3 DEF GetLock, CheckKey, RecheckKey, CreateLock, ReadLock, Guarded
  <2>4. guard' # NONE => pc'[guard'] \in Guarded
    BY <1>1, <2>2, <2>3, GuardHolder
  <2>5. ASSUME NEW l \in LockObj, NEW u \in Thread, owner'[l] = u
        PROVE  pc'[u] = "inside" /\ ref'[u] = l
    BY <2>1, <2>2, <2>5 DEF HoldersAtWork
  <2> QED
    BY <2>4, <2>5 DEF HoldersAtWork
<1>4. ASSUME NEW t \in Thread, Enter(t)
      PROVE  HoldersAtWork'
  <2>1. /\ pc[t] = "lock" /\ pc' = [pc EXCEPT ![t] = "inside"] /\ UNCHANGED <<ref, guard>>
        /\ owner' = [owner EXCEPT ![ref[t]] = t]
    BY <1>4 DEF Enter
  <2>2. ref[t] \in LockObj
    BY <1>1, <2>1 DEF EntryInv, Holding, TypeOK
  <2>3. guard' # NONE => pc'[guard'] \in Guarded
    BY <1>1, <1>2, <2>1, GuardHolder DEF Guarded
  <2>4. ASSUME NEW l \in LockObj, NEW u \in Thread, owner'[l] = u
        PROVE  pc'[u] = "inside" /\ ref'[u] = l
    BY <1>2, <2>1, <2>2, <2>4 DEF HoldersAtWork
  <2> QED
    BY <2>3, <2>4 DEF HoldersAtWork
<1>5. ASSUME NEW t \in Thread, Leave(t)
      PROVE  HoldersAtWork'
  <2>1. /\ pc[t] = "inside" /\ pc' = [pc EXCEPT ![t] = "idle"] /\ UNCHANGED <<ref, guard>>
        /\ owner' = [owner EXCEPT ![ref[t]] = NONE]
    BY <1>5 DEF Leave
  <2>2. guard' # NONE => pc'[guard'] \in Guarded
    BY <1>1, <1>2, <2>1, GuardHolder DEF Guarded
  <2>3. ASSUME NEW l \in LockObj, NEW u \in Thread, owner'[l] = u
        PROVE  pc'[u] = "inside" /\ ref'[u] = l
    <3>1. owner[l] = u /\ l # ref[t]
      BY <1>2, <2>1, <2>3
    <3>2. pc[u] = "inside" /\ ref[u] = l
      BY <3>1 DEF HoldersAtWork
    <3> QED
      BY <1>2, <2>1, <3>1, <3>2
  <2> QED
    BY <2>2, <2>3 DEF HoldersAtWork
<1>6. ASSUME NEW c \in Cleaner, Clean(c)
      PROVE  HoldersAtWork'
  <2>1. UNCHANGED <<owner, ref>> /\ \A b \in Actor \ {c} : pc'[b] = pc[b]
    BY <1>2, <1>6 DEF Clean, StartRemove, CheckRemove, RecheckRemove, RemoveLock, CleanupDone
  <2>2. guard' = NONE \/ (guard' = guard /\ (pc[c] \in Guarded => pc'[c] \in Guarded))
    BY <1>2, <1>6 DEF Clean, StartRemove, CheckRemove, RecheckRemove, RemoveLock, CleanupDone, Guarded
  <2>3. guard' # NONE => pc'[guard'] \in Guarded
    BY <1>1, <2>1, <2>2, GuardHolder
  <2>4. ASSUME NEW l \in LockObj, NEW u \in Thread, owner'[l] = u
        PROVE  pc'[u] = "inside" /\ ref'[u] = l
    BY <2>1, <2>4 DEF HoldersAtWork
  <2> QED
    BY <2>3, <2>4 DEF HoldersAtWork
<1>7. ASSUME NEW a \in Actor, EnterGuard(a)
      PROVE  HoldersAtWork'
  <2>1. /\ pc[a] = "guard" /\ pc' = [pc EXCEPT ![a] = "guarded"]
        /\ guard' = a /\ UNCHANGED <<owner, ref>>
    BY <1>7 DEF EnterGuard
  <2> QED
    BY <1>2, <2>1 DEF HoldersAtWork, Guarded
<1>8. CASE UNCHANGED vars
  BY <1>8 DEF vars, HoldersAtWork
<1> QED
  BY <1>3, <1>4, <1>5, <1>6, <1>7, <1>8 DEF Next, Work

(* Whatever the commands and cleanups do, none of them waits for a lock that *)
(* nobody gives back, and none that has a lock waits for another.           *)
THEOREM NoLockLeftBehind == Spec => []HoldersAtWork
<1>1. Init => HoldersAtWork
  BY ActorsAssumption DEF Init, HoldersAtWork
<1> QED
  BY <1>1, HoldersStep, Invariance, PTL DEF Spec
-----------------------------------------------------------------------------
(* The provider implements a write-once cache of lock objects.              *)

LEMMA OnceInit == Init => Once!Init
BY DEF Init, Once!Init, Once!NoAnswer, Cell, Answer

(* The answers of a cleanup's step, or of any step that moves no thread in   *)
(* or out of a lock, are those before it.                                   *)
LEMMA AnswerStays ==
  ASSUME \A t \in Thread :
           \/ pc'[t] = pc[t] /\ key'[t] = key[t] /\ ref'[t] = ref[t]
           \/ pc[t] \notin Holding /\ pc'[t] \notin Holding
           \/ {pc[t], pc'[t]} \subseteq Holding /\ key'[t] = key[t] /\ ref'[t] = ref[t]
  PROVE  Answer' = Answer
<1>1. \A t \in Thread : pc'[t] \in Holding => pc[t] \in Holding /\ key'[t] = key[t] /\ ref'[t] = ref[t]
  OBVIOUS
<1>2. \A t \in Thread : pc[t] \in Holding => pc'[t] \in Holding
  OBVIOUS
<1> QED
  BY <1>1, <1>2 DEF Answer, Holding

LEMMA OnceStep ==
  ASSUME IInv, [Next]_vars
  PROVE  [Once!Next]_<<Cell, Answer>>
<1> USE KeysAssumption, ActorsAssumption DEF IInv, TypeOK, KeysInv, Locating, Guarded, Holding
<1>1. ASSUME NEW t \in Thread, CreateLock(t)
      PROVE  [Once!Next]_<<Cell, Answer>>
  <2>1. Answer' = Answer
    BY <1>1, AnswerStays DEF CreateLock
  <2>2. dict' = [dict EXCEPT ![key[t]] = made + 1] /\ made + 1 \in LockObj /\ dict[key[t]] = NoLock
    BY <1>1 DEF CreateLock, AllocateLock, GuardInv
  <2>3. CASE key[t] \in Kept
    <3>1. Cell' = [Cell EXCEPT ![key[t]] = made + 1] /\ Cell[key[t]] = NoLock
      BY <2>2, <2>3 DEF Cell
    <3> QED
      BY <2>1, <2>2, <2>3, <3>1 DEF Once!Next, Once!Fill
  <2>4. CASE key[t] \notin Kept
    BY <2>1, <2>2, <2>4 DEF Cell
  <2> QED
    BY <2>3, <2>4
<1>2. ASSUME NEW t \in Thread, ReadLock(t)
      PROVE  [Once!Next]_<<Cell, Answer>>
  <2>1. Cell' = Cell /\ key' = key /\ key[t] \in Key /\ pc[t] = "read"
    BY <1>2 DEF ReadLock, Cell
  <2>2. \A u \in Thread \ {t} : pc'[u] = pc[u] /\ ref'[u] = ref[u]
    BY <1>2 DEF ReadLock
  <2>3. CASE key[t] \in Kept
    <3>1. pc'[t] = "lock" /\ ref'[t] = Cell[key[t]] /\ Cell[key[t]] # NoLock
      BY <1>2, <2>3 DEF ReadLock, EntryInv, Cell
    <3>2. Answer'[t] = [Once!NoAnswer EXCEPT ![key[t]] = Cell[key[t]]]
      BY <2>1, <2>3, <3>1 DEF Answer, Once!NoAnswer
    <3>3. \A u \in Thread \ {t} : Answer'[u] = Answer[u]
      BY <2>1, <2>2 DEF Answer
    <3>4. Answer' = [Answer EXCEPT ![t] = [Once!NoAnswer EXCEPT ![key[t]] = Cell[key[t]]]]
      BY <3>2, <3>3 DEF Answer
    <3> QED
      BY <2>1, <2>3, <3>1, <3>4 DEF Once!Next, Once!Answer
  <2>4. CASE key[t] \notin Kept
    <3>1. \A u \in Thread : Answer'[u] = Answer[u]
      BY <2>1, <2>2, <2>4 DEF Answer
    <3> QED
      BY <2>1, <3>1 DEF Answer
  <2> QED
    BY <2>3, <2>4
<1>3. ASSUME NEW t \in Thread, Leave(t)
      PROVE  [Once!Next]_<<Cell, Answer>>
  <2>1. Cell' = Cell /\ pc' = [pc EXCEPT ![t] = "idle"] /\ UNCHANGED <<key, ref>>
    BY <1>3 DEF Leave, Cell
  <2>2. Answer' = [Answer EXCEPT ![t] = Once!NoAnswer]
    BY <2>1 DEF Answer, Once!NoAnswer
  <2> QED
    BY <2>1, <2>2 DEF Once!Next, Once!Forget
<1>4. ASSUME NEW t \in Thread, GetLock(t) \/ CheckKey(t) \/ RecheckKey(t) \/ Enter(t)
      PROVE  Cell' = Cell /\ Answer' = Answer
  <2>1. Cell' = Cell
    BY <1>4 DEF GetLock, CheckKey, RecheckKey, Enter, Cell
  <2> QED
    BY <1>4, <2>1, AnswerStays DEF GetLock, CheckKey, RecheckKey, Enter
<1>5. ASSUME NEW c \in Cleaner, Clean(c)
      PROVE  Cell' = Cell /\ Answer' = Answer
  <2>1. \A t \in Thread : pc'[t] = pc[t] /\ key'[t] = key[t] /\ ref'[t] = ref[t]
    BY <1>5 DEF Clean, StartRemove, CheckRemove, RecheckRemove, RemoveLock, CleanupDone
  <2>2. Cell' = Cell
    BY <1>5 DEF Clean, StartRemove, CheckRemove, RecheckRemove, RemoveLock, CleanupDone, Cell
  <2> QED
    BY <2>1, <2>2, AnswerStays
<1>6. ASSUME NEW a \in Actor, EnterGuard(a)
      PROVE  Cell' = Cell /\ Answer' = Answer
  <2>1. Cell' = Cell
    BY <1>6 DEF EnterGuard, Cell
  <2> QED
    BY <1>6, <2>1, AnswerStays DEF EnterGuard
<1>7. CASE UNCHANGED vars
  BY <1>7 DEF vars, Cell, Answer
<1> QED
  BY <1>1, <1>2, <1>3, <1>4, <1>5, <1>6, <1>7 DEF Next, Work

(* Whatever the commands, the keys and the cleanups, get_resource_lock makes *)
(* one lock object for each kept key and gives it to every caller.          *)
THEOREM CacheRefined == Spec => LocksOnce
<1>1. IInv /\ [Next]_vars => [Once!Next]_<<Cell, Answer>>
  BY OnceStep
<1> QED
  BY <1>1, OnceInit, Invariance, PTL DEF Spec, LocksOnce, Once!Spec, Once!vars

(* Every variable keeps its type, and no thread's reference is to a lock     *)
(* object that has not been made.                                           *)
THEOREM TypeCorrect == Spec => []TypeOK
<1>1. IInv => TypeOK
  BY DEF IInv
<1> QED
  BY <1>1, Invariance, PTL
=============================================================================
