--------------------------- MODULE SecurityGroup ---------------------------
(***************************************************************************)
(* The rules of one network security group, written by concurrent callers  *)
(* of SecurityGroupService.create_network_security_group_rules and removed  *)
(* by deletions that take no lock.  A batch lists the group and then PUTs   *)
(* its rules one by one, with the priorities of its own generator, under    *)
(* the lock its caller passes.  A rule is keyed by its name; an unnamed one *)
(* is called after its priority.  Azure refuses two inbound rules of one    *)
(* priority, and priorities over MaxPriority.  set_app_security_groups       *)
(* first lists the custom rules of a machine's group, without the lock, and  *)
(* deletes what it listed under it; then it runs one batch for each network  *)
(* configuration it was given, each of which takes the lock again.           *)
(***************************************************************************)
EXTENDS RulePriority

CONSTANTS
  Thread,       \* callers of create_network_security_group_rules
  Lock,         \* lock objects
  Name,         \* explicit rule names
  Custom,       \* those that contain 'custom_rule'
  Deletable,    \* names removed by delete_nsg_artifacts_associated_with_vm
  Jobs,         \* commands a caller may be asked for
  InitialRules, \* sets of rules the group may start with
  MaxPriority,  \* 4096 in Azure
  MaxFaults,    \* bound on the calls that fail
  NONE          \* no thread, no name

(* by stands for the ports and addresses of a rule: its command's, or others. *)
(* A command names the rules of all its batches one after the other; another  *)
(* batch begins behind each index in ends.                                   *)
Rule == [name: Name \union {NONE}, priority: 1..MaxPriority, by: Thread \union {NONE}]
Batch ==
  [start: Nat, names: Seq(Name \union {NONE}), ends: SUBSET Nat, lock: Lock, custom: BOOLEAN]
Priorities(rs) == {r.priority : r \in rs}

ASSUME CallersAssumption == NONE \notin Thread
ASSUME JobsAssumption ==
  /\ Jobs # {} /\ Jobs \subseteq Batch
  /\ \A j \in Jobs : j.start > RulePriorityIncreaseStep
ASSUME RulesAssumption ==
  /\ NONE \notin Name /\ Deletable \subseteq Name /\ Custom \subseteq Name
  /\ MaxPriority \in Nat /\ MaxFaults \in Nat
  /\ InitialRules # {} /\ InitialRules \subseteq SUBSET Rule
  /\ \A rs \in InitialRules : \A r, s \in rs : r.priority = s.priority => r = s

VARIABLES
  rules,   \* the rules of the group
  holder,  \* the thread inside each lock, or NONE
  pc,
  job,     \* the command of each thread
  listed,  \* names of the custom rules the thread has yet to delete
  sole,    \* the thread that listed custom rules last, if it did so alone, or NONE
  known,   \* priorities the thread's generator has listed or yielded
  first,   \* index of the first rule of the batch at hand
  next,    \* index of the rule to create
  faults

vars == <<rules, holder, pc, job, listed, sole, known, first, next, faults>>

Init ==
  /\ rules \in InitialRules
  /\ holder = [l \in Lock |-> NONE]
  /\ job \in [Thread -> Jobs]
  /\ pc = [t \in Thread |-> IF job[t].custom THEN "find" ELSE "idle"]
  /\ listed = [t \in Thread |-> {}] /\ sole = NONE
  /\ known = [t \in Thread |-> {}]
  /\ first = [t \in Thread |-> 1] /\ next = [t \in Thread |-> 1]
  /\ faults = 0

(* Deviations (named ...Bug) are slips the properties below must reveal.     *)
Fault == faults < MaxFaults /\ faults' = faults + 1
Goto(t, l) == pc' = [pc EXCEPT ![t] = l]
KeepsLockBug(t) == UNCHANGED holder
Unlock(t) == holder' = [holder EXCEPT ![job[t].lock] = IF @ = t THEN NONE ELSE @]
DropGenerator(t) == known' = [known EXCEPT ![t] = {}] /\ next' = [next EXCEPT ![t] = first[t]]

SameName(r, s) == r.name = s.name /\ (r.name = NONE => r.priority = s.priority)

(* Above the highest priority it knows, whatever gaps there are below.     *)
NextRuleLastBug(t) ==
  [name     |-> job[t].names[next[t]],
   priority |-> LET in == Relevant(job[t].start, known[t])
                IN RulePriorityIncreaseStep + CHOOSE p \in in : \A q \in in : q <= p,
   by       |-> t]

NextRule(t) == [name     |-> job[t].names[next[t]],
                priority |-> NextPriority(job[t].start, known[t]),
                by       |-> t]
Put(r) == {s \in rules : ~SameName(s, r)} \union {r}
Without(n) == {r \in rules : r.name # n}
AllPut(t) == next[t] > Len(job[t].names)
Over(t) == AllPut(t) \/ (next[t] > first[t] /\ next[t] - 1 \in job[t].ends)
Putting(t) == pc[t] = "put" /\ ~Over(t)
Refused(r) == \/ r.priority > MaxPriority
              \/ \E s \in rules : s.priority = r.priority /\ ~SameName(s, r)
-----------------------------------------------------------------------------
(* set_app_security_groups: delete_custom_security_rules_from_nsg, and the  *)
(* interface the rules of each configuration are for                        *)

FindCustom(t) ==
  /\ pc[t] = "find" /\ Goto(t, "wait")
  /\ listed' = [listed EXCEPT ![t] = {r.name : r \in rules} \intersect Custom]
  /\ sole' = IF \A u \in Thread \ {t} : job[u].custom => pc[u] \in {"find", "done", "failed"}
               THEN t ELSE NONE
  /\ UNCHANGED <<rules, holder, job, known, first, next, faults>>

AcquireClear(t) ==
  /\ pc[t] = "wait" /\ holder[job[t].lock] = NONE
  /\ holder' = [holder EXCEPT ![job[t].lock] = t]
  /\ Goto(t, "clear")
  /\ UNCHANGED <<rules, job, listed, sole, known, first, next, faults>>

DeleteCustomOnceBug(t) ==
  /\ pc[t] = "clear"
  /\ \E n \in listed[t] : rules' = Without(n) /\ listed' = [listed EXCEPT ![t] = {}]
  /\ UNCHANGED <<holder, pc, job, sole, known, first, next, faults>>

(* The deletion of a name that has gone meanwhile succeeds.                *)
DeleteCustom(t) ==
  /\ pc[t] = "clear"
  /\ \E n \in listed[t] : rules' = Without(n) /\ listed' = [listed EXCEPT ![t] = @ \ {n}]
  /\ UNCHANGED <<holder, pc, job, sole, known, first, next, faults>>

ClearDone(t) ==
  /\ pc[t] = "clear" /\ listed[t] = {}
  /\ Unlock(t) /\ Goto(t, "nics")
  /\ UNCHANGED <<rules, job, listed, sole, known, first, next, faults>>

(* None of the interfaces may be in the subnet a configuration names.        *)
ForNic(t) == \E l \in {"idle", "failed"} : Goto(t, l)

(* The machine and all its interfaces, and the one of the first batch.       *)
FindNic(t) ==
  /\ pc[t] = "nics" /\ ForNic(t)
  /\ UNCHANGED <<rules, holder, job, listed, sole, known, first, next, faults>>
-----------------------------------------------------------------------------
(* create_network_security_group_rules                                     *)

(* with lock:                                                              *)
AcquireUnlockedBug(t) ==
  /\ pc[t] = "idle" /\ Goto(t, "list")
  /\ UNCHANGED <<rules, holder, job, listed, sole, known, first, next, faults>>

Acquire(t) ==
  /\ pc[t] = "idle" /\ holder[job[t].lock] = NONE
  /\ holder' = [holder EXCEPT ![job[t].lock] = t]
  /\ Goto(t, "list")
  /\ UNCHANGED <<rules, job, listed, sole, known, first, next, faults>>

ListRulesFromZeroBug(t) ==
  /\ pc[t] = "list" /\ Goto(t, "put")
  /\ known' = [known EXCEPT ![t] = Priorities(rules)]
  /\ next' = [next EXCEPT ![t] = first[t] - 1]
  /\ UNCHANGED <<rules, holder, job, listed, sole, first, faults>>

(* security_rules.list, and a new generator over what it returned.         *)
ListRules(t) ==
  /\ pc[t] = "list"
  /\ known' = [known EXCEPT ![t] = Priorities(rules)]
  /\ next' = [next EXCEPT ![t] = first[t]]
  /\ Goto(t, "put")
  /\ UNCHANGED <<rules, holder, job, listed, sole, first, faults>>

(* One PUT.  The retries of create_network_security_group_rule send the     *)
(* same name and priority again: only the last answer counts.               *)
CreateRule(t) ==
  /\ Putting(t) /\ ~Refused(NextRule(t))
  /\ rules' = Put(NextRule(t))
  /\ known' = [known EXCEPT ![t] = @ \union {NextRule(t).priority}]
  /\ next' = [next EXCEPT ![t] = @ + 1]
  /\ UNCHANGED <<holder, pc, job, listed, sole, first, faults>>

(* A CloudError leaves the lock and reaches the caller.                    *)
RuleRefused(t) ==
  /\ Putting(t) /\ Refused(NextRule(t))
  /\ Unlock(t) /\ DropGenerator(t) /\ Goto(t, "failed")
  /\ UNCHANGED <<rules, job, listed, sole, first, faults>>

CallFailureSwallowedBug(t) ==
  /\ pc[t] \in {"list", "put"} /\ Fault
  /\ Unlock(t) /\ Goto(t, "done")
  /\ UNCHANGED <<rules, job, listed, sole, known, first, next>>

(* What a connection error has run again: the removal of the custom rules,  *)
(* or the batch at hand; the reads between them are not retried.            *)
RetryFrom ==
  [find |-> "find", clear |-> "find", nics |-> "failed", list |-> "idle", put |-> "idle"]

(* A call fails, with its effect or without: a connection error may be      *)
(* retried, anything else ends the command.                                 *)
CallFails(t) ==
  /\ pc[t] \in DOMAIN RetryFrom /\ Fault
  /\ \/ UNCHANGED rules
     \/ Putting(t) /\ ~Refused(NextRule(t)) /\ rules' = Put(NextRule(t))
     \/ pc[t] = "clear" /\ \E n \in listed[t] : rules' = Without(n)
  /\ Unlock(t) /\ DropGenerator(t) /\ listed' = [listed EXCEPT ![t] = {}]
  /\ \E l \in {RetryFrom[pc[t]], "failed"} : Goto(t, l)
  /\ UNCHANGED <<job, sole, first>>

(* The next configuration, if there is one, has a batch of its own.          *)
BatchDone(t) ==
  /\ pc[t] = "put" /\ Over(t) /\ Unlock(t)
  /\ IF AllPut(t) THEN Goto(t, "done") ELSE ForNic(t)
  /\ first' = [first EXCEPT ![t] = next[t]] /\ known' = [known EXCEPT ![t] = {}]
  /\ UNCHANGED <<rules, job, listed, sole, next, faults>>

(* NetworkService.delete_nsg_artifacts_associated_with_vm removes by name,  *)
(* outside every lock.                                                      *)
DeleteRule ==
  \E r \in rules :
    /\ r.name \in Deletable
    /\ rules' = rules \ {r}
    /\ UNCHANGED <<holder, pc, job, listed, sole, known, first, next, faults>>

CreateRules(t) ==
  \/ Acquire(t) \/ ListRules(t) \/ CreateRule(t) \/ RuleRefused(t) \/ CallFails(t) \/ BatchDone(t)

SetCustomRules(t) ==
  FindCustom(t) \/ AcquireClear(t) \/ DeleteCustom(t) \/ ClearDone(t) \/ FindNic(t)

Next == DeleteRule \/ \E t \in Thread : CreateRules(t) \/ SetCustomRules(t)

Spec == Init /\ [][Next]_vars

(* Threads run, and one that keeps finding the lock free gets it.          *)
FairSpec ==
  /\ Spec
  /\ \A t \in Thread : /\ SF_vars(Acquire(t) \/ AcquireClear(t))
                       /\ WF_vars((CreateRules(t) \/ SetCustomRules(t)) /\ pc[t] \notin {"idle", "wait"})
-----------------------------------------------------------------------------
(* The type of every variable.                                              *)
TypeOK ==
  /\ rules \subseteq Rule
  /\ holder \in [Lock -> Thread \union {NONE}]
  /\ pc \in [Thread -> {"find", "wait", "clear", "nics", "idle", "list", "put", "done", "failed"}]
  /\ job \in [Thread -> Jobs]
  /\ listed \in [Thread -> SUBSET Custom] /\ sole \in Thread \union {NONE}
  /\ known \in [Thread -> SUBSET (1..MaxPriority)]
  /\ first \in [Thread -> Nat \ {0}] /\ next \in [Thread -> Nat \ {0}]
  /\ faults \in Nat

Unnamed(t) == {i \in 1..Len(job[t].names) : job[t].names[i] = NONE}
(* Whatever the other callers, the retries and the unlocked deletions have  *)
(* done since the listing, the priority a batch is about to use is free:    *)
(* Azure never refuses a rule for a duplicate priority, and an unnamed rule *)
(* never replaces another.                                                  *)
NoPriorityClash ==
  \A t \in Thread : Putting(t) => NextRule(t).priority \notin Priorities(rules)

(* The priorities the callers of one lock start their rules at, each up to  *)
(* where the callers of another lock start theirs.                          *)
Band(l) ==
  {p \in Nat : \E j \in Jobs :
     /\ j.lock = l /\ j.start <= p
     /\ \A i \in Jobs : i.lock # l => ~(j.start < i.start /\ i.start <= p)}

(* Callers with different locks write to one group at a time, and only the   *)
(* priorities they start at keep them apart: a batch stays within the band   *)
(* of its own lock, whatever rules of the others it has met in the group.    *)
RulesInBand ==
  \A t \in Thread : Putting(t) => NextRule(t).priority \in Band(job[t].lock)

(* A rule leaves the group by a deletion, by a set_app_security_groups that  *)
(* listed it, or when a rule of its explicit name replaces it; no batch      *)
(* loses another's rules.                                                   *)
NoRuleLost ==
  [][\A r \in rules \ rules' :
       \/ r.name \in Deletable \/ \E t \in Thread : pc[t] = "clear" /\ r.name \in listed[t]
       \/ r.name # NONE /\ \E s \in rules' : s.name = r.name]_vars

(* A command that reports success has its rules in the group, whatever other  *)
(* batches wrote since and however often its own were retried: each name,    *)
(* unless its machine is being deleted or its custom rules are being set     *)
(* again, and a rule for each unnamed one.                                  *)
BatchLanded ==
  \A t \in Thread : pc[t] = "done" =>
    /\ \A i \in 1..Len(job[t].names) :
         job[t].names[i] \in {NONE} \union Deletable \union Custom \union {r.name : r \in rules}
    /\ Cardinality({r \in rules : r.name = NONE /\ r.by = t}) >= Cardinality(Unnamed(t))

(* "delete previous custom rules": when the command that listed them last,   *)
(* while no other was at work, reports success, the custom rules of the      *)
(* machine are the ones it was asked for and no older one, whatever failed   *)
(* half-way before it, however often its deletions or PUTs were retried, and  *)
(* though the batches of its configurations take the lock one by one.        *)
CustomRulesReplaced ==
  \A t \in Thread : pc[t] = "done" /\ sole = t =>
    LET custom == {r \in rules : r.name \in Custom}
    IN /\ {r.name : r \in custom} = {job[t].names[i] : i \in 1..Len(job[t].names)}
       /\ \A r \in custom : r.by = t

(* Every command ends, done or failed: an exception inside a batch leaves   *)
(* the lock, so that no caller waits for it forever.                        *)
EveryBatchEnds == \A t \in Thread : <>(pc[t] \in {"done", "failed"})
=============================================================================
