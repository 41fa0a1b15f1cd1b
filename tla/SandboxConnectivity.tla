------------------------ MODULE SandboxConnectivity ------------------------
(***************************************************************************)
(* The subnets of all sandboxes lie in one virtual network of the account.  *)
(* PrepareSandboxInfraOperation.prepare_connectivity creates a sandbox's    *)
(* resource group, security group and subnets, AddRouteOperation attaches   *)
(* a route table to them, and DeleteAzureVMOperation.cleanup_connectivity   *)
(* takes everything down.  Subnets are written under the process's          *)
(* subnet_locker.                                                           *)
(*                                                                          *)
(* CloudShell runs the commands of one sandbox one after the other, those   *)
(* of different sandboxes concurrently, and gives the addresses of a        *)
(* sandbox to another some time after a clean-up has ended, failed or not.  *)
(* Azure refuses a subnet that overlaps another, the deletion of a resource *)
(* group whose security group or route table a subnet refers to, and the    *)
(* deletion of a subnet with interfaces.  A cancellation is seen between    *)
(* two calls and is a failure of the later one without effect.              *)
(***************************************************************************)
EXTENDS Naturals

CONSTANTS
  Sandbox,   \* reservations, by id
  Past,      \* those that ended before, perhaps leaving subnets behind
  Cidr,      \* address ranges, none overlapping another
  CidrsOf,   \* the subnets each sandbox asks for
  MaxFaults, \* bound on the calls that fail
  NONE

Subnet == Sandbox \X Cidr  \* named "<reservation>_<cidr>"
Command == {"prepare", "cleanup", "route"} \X Sandbox

ASSUME SandboxesAssumption ==
  /\ Past \subseteq Sandbox
  /\ CidrsOf \in [Sandbox -> SUBSET Cidr \ {{}}]
  /\ MaxFaults \in Nat
  /\ NONE \notin Command \union Cidr

VARIABLES
  \* in Azure
  groups,   \* sandboxes whose resource group exists
  nsgs,     \* those whose security group exists, in the resource group
  tables,   \* those whose route table exists, in the resource group
  subnets,  \* subnets of the virtual network
  secured,  \* subnets that refer to their sandbox's security group
  routed,   \* subnets that refer to its route table
  nics,     \* subnets with interfaces, which are in the resource group
  \* in the shell
  locker,   \* the command inside subnet_locker, or NONE
  pc,
  todo,     \* address ranges left in a command's loop
  at,       \* the one it is working on
  snap,     \* the virtual network as a preparation read it
  read,     \* whether the subnet a route command read was secured
  errors,   \* whether a clean-up has collected errors
  \* in CloudShell
  released, \* sandboxes whose addresses may be given away
  faults

vnet == <<subnets, secured, routed>>
azure == <<groups, nsgs, tables, vnet, nics>>
loop == <<todo, at>>
vars == <<azure, locker, pc, loop, snap, read, errors, released, faults>>

P(s) == <<"prepare", s>>
C(s) == <<"cleanup", s>>
R(s) == <<"route", s>>
NothingRead == [subnets |-> {}, secured |-> {}, routed |-> {}]

Leftovers == {l \in SUBSET (Past \X Cidr) : \A x, y \in l : x[2] = y[2] => x = y}

Init ==
  /\ subnets \in {l \in Leftovers : \A x \in l : x[2] \in CidrsOf[x[1]]}
  /\ secured \in SUBSET subnets
  /\ groups = {x[1] : x \in secured} /\ nsgs = groups
  /\ tables = {} /\ routed = {} /\ nics = {}
  /\ locker = NONE
  /\ pc = [k \in Command |-> "idle"]
  /\ todo = [k \in Command |-> {}]
  /\ at = [k \in Command |-> NONE]
  /\ snap = [s \in Sandbox |-> NothingRead]
  /\ read = [s \in Sandbox |-> FALSE]
  /\ errors = [s \in Sandbox |-> FALSE]
  /\ released = Past
  /\ faults = 0
-----------------------------------------------------------------------------
Over(k) == pc[k] \in {"idle", "done", "failed"}
Goto(k, l) == pc' = [pc EXCEPT ![k] = l]
Returns(k, l) == Goto(k, l) /\ UNCHANGED faults
Fault == faults < MaxFaults /\ faults' = faults + 1
Raises(k, l) == Fault /\ Goto(k, l)

(* Azure's virtual network.                                                *)
Overlapped(x) == \E y \in subnets \ {x} : y[2] = x[2]
With(set, x, in) == IF in THEN set \union {x} ELSE set \ {x}
PutRefused(x, nsg, table) ==
  Overlapped(x) \/ (nsg /\ x[1] \notin nsgs) \/ (table /\ x[1] \notin tables)
PutSubnet(x, nsg, table) ==
  /\ subnets' = subnets \union {x}
  /\ secured' = With(secured, x, nsg)
  /\ routed' = With(routed, x, table)
RemoveSubnet(x) ==
  subnets' = subnets \ {x} /\ secured' = secured \ {x} /\ routed' = routed \ {x}
Referred(s) == \E x \in secured \union routed : x[1] = s

(* "with subnet_locker:".  Deviations (named ...Bug) are slips the          *)
(* properties below must reveal.                                            *)
EnterUnlockedBug(k, from, to) ==
  /\ pc[k] = from /\ Returns(k, to)
  /\ locker' = locker
  /\ \E c \in todo[k] : at' = [at EXCEPT ![k] = c] /\ todo' = [todo EXCEPT ![k] = @ \ {c}]
Enter(k, from, to) ==
  /\ pc[k] = from /\ Returns(k, to)
  /\ locker = NONE /\ locker' = k
  /\ \E c \in todo[k] : at' = [at EXCEPT ![k] = c] /\ todo' = [todo EXCEPT ![k] = @ \ {c}]

(* The end of the with; of the loop when nothing is left to do.  Locals    *)
(* are forgotten with the scope they are used in.                          *)
Leave(k, again, done) ==
  /\ locker' = NONE /\ Returns(k, IF todo[k] = {} THEN done ELSE again)
  /\ at' = [at EXCEPT ![k] = NONE] /\ UNCHANGED todo

(* An exception under the lock: what Azure refuses, or a call that fails.  *)
Unwinds(k, l) ==
  Goto(k, l) /\ at' = [at EXCEPT ![k] = NONE] /\ todo' = [todo EXCEPT ![k] = {}]
AbortKeepsLockBug(k, l) == locker' = locker /\ Unwinds(k, l)
Abort(k, l) == locker' = NONE /\ Unwinds(k, l)
-----------------------------------------------------------------------------
(* prepare_connectivity                                                    *)

CidrsFree(s) ==
  \A t \in Sandbox \ ({s} \union released) :
    CidrsOf[s] \intersect CidrsOf[t] # {} => pc[P(t)] = "idle"

StartPrepare(s) ==
  /\ s \notin Past /\ Over(P(s)) /\ Over(R(s)) /\ pc[C(s)] = "idle" /\ CidrsFree(s)
  /\ Returns(P(s), "group")
  /\ UNCHANGED <<azure, locker, loop, snap, read, errors, released>>

CreateGroupSkippedBug(s) ==
  /\ pc[P(s)] = "group" /\ Returns(P(s), "vnet")
  /\ UNCHANGED <<azure, locker, loop, snap, read, errors, released>>

CreateGroup(s) ==
  /\ pc[P(s)] = "group"
  /\ \/ groups' = groups \union {s} /\ Returns(P(s), "vnet")
     \/ groups' \in {groups, groups \union {s}} /\ Raises(P(s), "failed")
  /\ UNCHANGED <<nsgs, tables, vnet, nics, locker, loop, snap, read, errors, released>>

(* The virtual networks are read once, before the lock is ever taken.      *)
ReadVnet(s) ==
  /\ pc[P(s)] = "vnet"
  /\ Returns(P(s), "nsg") \/ Raises(P(s), "failed")
  /\ snap' = [snap EXCEPT ![s] = [subnets |-> subnets, secured |-> secured, routed |-> routed]]
  /\ UNCHANGED <<azure, locker, loop, read, errors, released>>

CreateNsg(s) ==
  /\ pc[P(s)] = "nsg"
  /\ \/ nsgs' = nsgs \union {s} /\ Returns(P(s), "rules")
     \/ nsgs' \in {nsgs, nsgs \union {s}} /\ Raises(P(s), "failed")
  /\ UNCHANGED <<groups, tables, vnet, nics, locker, loop, snap, read, errors, released>>

(* _create_subnet_nsg_rules: batch after batch under subnet_locker.        *)
CreateSubnetNsgRules(s) ==
  /\ pc[P(s)] = "rules" /\ locker = NONE
  /\ \/ Returns(P(s), "lock") /\ todo' = [todo EXCEPT ![P(s)] = CidrsOf[s]]
     \/ Raises(P(s), "failed") /\ UNCHANGED todo
  /\ UNCHANGED <<azure, locker, at, snap, read, errors, released>>

EnterCreate(s) ==
  Enter(P(s), "lock", "create") /\ UNCHANGED <<azure, snap, read, errors, released>>

(* A PUT with the security group and no route table.  The first refusal    *)
(* for an overlap leads to the stale subnet, the second one ends the       *)
(* command, as every other error does.                                     *)
CreateSubnet(s) ==
  LET x == <<s, at[P(s)]>>
  IN /\ pc[P(s)] \in {"create", "recreate"}
     /\ \/ ~PutRefused(x, TRUE, FALSE) /\ PutSubnet(x, TRUE, FALSE)
           /\ Leave(P(s), "lock", "join")
        \/ /\ Overlapped(x) /\ pc[P(s)] = "create"
           /\ Returns(P(s), "stale") /\ UNCHANGED <<vnet, locker, loop>>
        \/ /\ PutRefused(x, TRUE, FALSE) /\ ~(Overlapped(x) /\ pc[P(s)] = "create")
           /\ Abort(P(s), "failed") /\ UNCHANGED <<vnet, faults>>
        \/ /\ Fault /\ Abort(P(s), "failed")
           /\ UNCHANGED vnet \/ (~PutRefused(x, TRUE, FALSE) /\ PutSubnet(x, TRUE, FALSE))
     /\ UNCHANGED <<groups, nsgs, tables, nics, snap, read, errors, released>>

AnyStaleBug(s) == snap[s].subnets
OwnStaleBug(s) == {x \in snap[s].subnets : x = <<s, at[P(s)]>>}
Stale(s) == {x \in snap[s].subnets : x[2] = at[P(s)]}

(* _cleanup_stale_data: the subnet of this range in what was read, which   *)
(* is detached with a PUT of the object read.                              *)
DetachStale(s) ==
  /\ pc[P(s)] = "stale"
  /\ \/ Stale(s) = {} /\ Returns(P(s), "recreate") /\ UNCHANGED <<vnet, locker, loop>>
     \/ \E x \in Stale(s) :
          LET table == x \in snap[s].routed
          IN \/ /\ x \notin snap[s].secured
                /\ Returns(P(s), "unstale") /\ UNCHANGED <<vnet, locker, loop>>
             \/ /\ x \in snap[s].secured /\ ~PutRefused(x, FALSE, table)
                /\ PutSubnet(x, FALSE, table)
                /\ \/ Returns(P(s), "unstale") /\ UNCHANGED <<locker, loop>>
                   \/ Fault /\ Abort(P(s), "failed")
             \/ /\ x \in snap[s].secured /\ PutRefused(x, FALSE, table)
                /\ Abort(P(s), "failed") /\ UNCHANGED <<vnet, faults>>
     \/ Fault /\ Abort(P(s), "failed") /\ UNCHANGED vnet
  /\ UNCHANGED <<groups, nsgs, tables, nics, snap, read, errors, released>>

DeleteStale(s) ==
  /\ pc[P(s)] = "unstale"
  /\ \E x \in Stale(s) :
       \/ /\ x \notin nics /\ RemoveSubnet(x)
          /\ \/ Returns(P(s), "recreate") /\ UNCHANGED <<locker, loop>>
             \/ Fault /\ Abort(P(s), "failed")
       \/ x \in nics /\ Abort(P(s), "failed") /\ UNCHANGED <<vnet, faults>>
       \/ Fault /\ Abort(P(s), "failed") /\ UNCHANGED vnet
  /\ UNCHANGED <<groups, nsgs, tables, nics, snap, read, errors, released>>

(* pool.join: the storage account and the key pair of the pool's thread.   *)
JoinPool(s) ==
  /\ pc[P(s)] = "join"
  /\ Returns(P(s), "done") \/ Raises(P(s), "failed")
  /\ snap' = [snap EXCEPT ![s] = NothingRead]
  /\ UNCHANGED <<azure, locker, loop, read, errors, released>>

(* Machines are deployed into the prepared subnets, and some stay.         *)
Deploy(s) ==
  /\ pc[P(s)] = "done" /\ pc[C(s)] = "idle"
  /\ \E c \in CidrsOf[s] : nics' = nics \union {<<s, c>>}
  /\ UNCHANGED <<groups, nsgs, tables, vnet, locker, pc, loop, snap, read, errors, released, faults>>
-----------------------------------------------------------------------------
(* AddRouteOperation.create_route_table, which is retried as a whole.      *)

StartRoute(s) ==
  /\ pc[P(s)] = "done" /\ Over(R(s)) /\ pc[C(s)] = "idle"
  /\ Returns(R(s), "table")
  /\ UNCHANGED <<azure, locker, loop, snap, read, errors, released>>

CreateTable(s) ==
  /\ pc[R(s)] = "table"
  /\ \/ /\ tables' = tables \union {s} /\ Returns(R(s), "lock")
        /\ todo' = [todo EXCEPT ![R(s)] = CidrsOf[s]]
     \/ /\ tables' \in {tables, tables \union {s}} /\ UNCHANGED todo
        /\ Raises(R(s), "table") \/ Raises(R(s), "failed")
  /\ UNCHANGED <<groups, nsgs, vnet, nics, locker, at, snap, read, errors, released>>

EnterRoute(s) ==
  Enter(R(s), "lock", "get") /\ UNCHANGED <<azure, snap, read, errors, released>>

Retries(k) == Fault /\ (Abort(k, "table") \/ Abort(k, "failed"))

(* subnets.get and create_or_update of what it returned, subnet by subnet  *)
(* under one lock.                                                         *)
GetSubnet(s) ==
  /\ pc[R(s)] = "get"
  /\ \/ /\ Returns(R(s), "put") /\ UNCHANGED <<locker, loop>>
        /\ read' = [read EXCEPT ![s] = <<s, at[R(s)]>> \in secured]
     \/ Retries(R(s)) /\ UNCHANGED read
  /\ UNCHANGED <<azure, snap, errors, released>>

PutReadDropsNsgBug(s) == PutSubnet(<<s, at[R(s)]>>, FALSE, TRUE)
PutRead(s) == PutSubnet(<<s, at[R(s)]>>, read[s], TRUE)

PutRoute(s) ==
  /\ pc[R(s)] = "put"
  /\ \/ /\ PutRead(s) /\ todo[R(s)] = {}
        /\ Leave(R(s), "lock", "done")
     \/ /\ PutRead(s) /\ Returns(R(s), "get") /\ UNCHANGED locker
        /\ \E c \in todo[R(s)] :
             at' = [at EXCEPT ![R(s)] = c] /\ todo' = [todo EXCEPT ![R(s)] = @ \ {c}]
     \/ (PutRead(s) \/ UNCHANGED vnet) /\ Retries(R(s))
  /\ read' = [read EXCEPT ![s] = FALSE]
  /\ UNCHANGED <<groups, nsgs, tables, nics, snap, errors, released>>
-----------------------------------------------------------------------------
(* cleanup_connectivity: three commands, each of which may add an error.   *)

StartCleanup(s) ==
  /\ pc[P(s)] \in {"done", "failed"} /\ Over(R(s))
  /\ pc[C(s)] \in {"idle", "failed"} /\ s \notin released
  /\ Returns(C(s), "read")
  /\ snap' = [snap EXCEPT ![s] = NothingRead]
  /\ UNCHANGED <<azure, locker, loop, read, errors, released>>

CollectNothingBug(s) == errors' = errors
Collect(s) == errors' = [errors EXCEPT ![s] = TRUE]
CidrsFound(s) == {c \in Cidr : <<s, c>> \in subnets}

(* Each of the two loops reads the virtual network before it takes the     *)
(* lock; a loop without subnets is over.                                   *)
FindSubnets(s, here, first, next) ==
  /\ pc[C(s)] = here
  /\ \/ /\ todo' = [todo EXCEPT ![C(s)] = CidrsFound(s)]
        /\ Returns(C(s), IF CidrsFound(s) = {} THEN next ELSE first) /\ UNCHANGED errors
     \/ Raises(C(s), next) /\ Collect(s) /\ UNCHANGED todo
  /\ UNCHANGED <<azure, locker, at, snap, read, released>>

ReadSubnetsDetachesNoneBug(s) == FindSubnets(s, "read", "deleteGroup", "deleteGroup")
ReadSubnets(s) == FindSubnets(s, "read", "detachLock", "deleteGroup")
RereadSubnets(s) == FindSubnets(s, "reread", "deleteLock", "end")

EnterDetach(s) ==
  Enter(C(s), "detachLock", "detach") /\ UNCHANGED <<azure, snap, read, errors, released>>
EnterDelete(s) ==
  Enter(C(s), "deleteLock", "delete") /\ UNCHANGED <<azure, snap, read, errors, released>>

DetachSubnet(s) ==
  LET x == <<s, at[C(s)]>>
  IN /\ pc[C(s)] = "detach"
     /\ \/ /\ ~PutRefused(x, FALSE, FALSE) /\ PutSubnet(x, FALSE, FALSE)
           /\ Leave(C(s), "detachLock", "deleteGroup") /\ UNCHANGED errors
        \/ /\ PutRefused(x, FALSE, FALSE) /\ UNCHANGED <<vnet, faults>>
           /\ Abort(C(s), "deleteGroup") /\ Collect(s)
        \/ /\ Fault /\ Abort(C(s), "deleteGroup") /\ Collect(s)
           /\ UNCHANGED vnet \/ (~PutRefused(x, FALSE, FALSE) /\ PutSubnet(x, FALSE, FALSE))
     /\ UNCHANGED <<groups, nsgs, tables, nics, snap, read, released>>

Elsewhere(s) == {x \in nics : x[1] # s}
RemoveGroup(s) ==
  /\ groups' = groups \ {s} /\ nsgs' = nsgs \ {s} /\ tables' = tables \ {s}
  /\ nics' = Elsewhere(s)

(* An absent group is an error; one with resources in use loses the others. *)
DeleteGroup(s) ==
  /\ pc[C(s)] = "deleteGroup"
  /\ \/ /\ s \in groups /\ ~Referred(s) /\ RemoveGroup(s)
        /\ Returns(C(s), "reread") /\ UNCHANGED errors
     \/ /\ s \notin groups \/ Referred(s)
        /\ nics' \in {nics, Elsewhere(s)} /\ UNCHANGED <<groups, nsgs, tables>>
        /\ Returns(C(s), "reread") /\ Collect(s)
     \/ /\ \/ nics' \in {nics, Elsewhere(s)} /\ UNCHANGED <<groups, nsgs, tables>>
           \/ ~Referred(s) /\ RemoveGroup(s)
        /\ Raises(C(s), "reread") /\ Collect(s)
  /\ UNCHANGED <<vnet, locker, loop, snap, read, released>>

DeleteSubnet(s) ==
  LET x == <<s, at[C(s)]>>
  IN /\ pc[C(s)] = "delete"
     /\ \/ /\ x \notin nics /\ RemoveSubnet(x)
           /\ Leave(C(s), "deleteLock", "end") /\ UNCHANGED errors
        \/ /\ x \in nics /\ UNCHANGED <<vnet, faults>>
           /\ Abort(C(s), "end") /\ Collect(s)
        \/ /\ Fault /\ Abort(C(s), "end") /\ Collect(s)
           /\ UNCHANGED vnet \/ (x \notin nics /\ RemoveSubnet(x))
     /\ UNCHANGED <<groups, nsgs, tables, nics, snap, read, released>>

EndCleanup(s) ==
  /\ pc[C(s)] = "end"
  /\ Returns(C(s), IF errors[s] THEN "failed" ELSE "done")
  /\ errors' = [errors EXCEPT ![s] = FALSE]
  /\ UNCHANGED <<azure, locker, loop, snap, read, released>>

(* The sandbox ends in CloudShell.                                         *)
Release(s) ==
  /\ pc[C(s)] \in {"done", "failed"} /\ released' = released \union {s}
  /\ UNCHANGED <<azure, locker, pc, loop, snap, read, errors, faults>>
-----------------------------------------------------------------------------
PrepareStep(s) ==
  \/ CreateGroup(s) \/ ReadVnet(s) \/ CreateNsg(s) \/ CreateSubnetNsgRules(s)
  \/ EnterCreate(s) \/ CreateSubnet(s) \/ DetachStale(s) \/ DeleteStale(s) \/ JoinPool(s)
RouteStep(s) == CreateTable(s) \/ EnterRoute(s) \/ GetSubnet(s) \/ PutRoute(s)
CleanupStep(s) ==
  \/ ReadSubnets(s) \/ EnterDetach(s) \/ DetachSubnet(s) \/ DeleteGroup(s)
  \/ RereadSubnets(s) \/ EnterDelete(s) \/ DeleteSubnet(s) \/ EndCleanup(s)

Next == \E s \in Sandbox :
  \/ StartPrepare(s) \/ PrepareStep(s) \/ Deploy(s) \/ StartRoute(s) \/ RouteStep(s)
  \/ StartCleanup(s) \/ CleanupStep(s) \/ Release(s)

Spec == Init /\ [][Next]_vars

(* Commands run, and one that keeps finding subnet_locker free gets it.     *)
FairSpec ==
  Spec /\ \A s \in Sandbox \ Past : SF_vars(PrepareStep(s) \/ RouteStep(s) \/ CleanupStep(s))
-----------------------------------------------------------------------------
Labels ==
  {"idle", "done", "failed", "group", "vnet", "nsg", "rules", "lock", "create", "stale",
   "unstale", "recreate", "join", "table", "get", "put", "read", "detachLock", "detach",
   "deleteGroup", "reread", "deleteLock", "delete", "end"}

(* The types of the state.                                                 *)
TypeOK ==
  /\ groups \subseteq Sandbox /\ nsgs \subseteq groups /\ tables \subseteq groups
  /\ subnets \subseteq Subnet /\ secured \subseteq subnets /\ routed \subseteq subnets
  /\ nics \subseteq subnets
  /\ locker \in Command \union {NONE}
  /\ pc \in [Command -> Labels]
  /\ todo \in [Command -> SUBSET Cidr]
  /\ at \in [Command -> Cidr \union {NONE}]
  /\ snap \in [Sandbox -> [subnets: SUBSET Subnet, secured: SUBSET Subnet, routed: SUBSET Subnet]]
  /\ read \in [Sandbox -> BOOLEAN] /\ errors \in [Sandbox -> BOOLEAN]
  /\ released \subseteq Sandbox
  /\ faults \in 0 .. MaxFaults

(* "with subnet_locker" in prepare, route and clean-up: the calls that      *)
(* write subnets of the one virtual network never overlap in time.          *)
SubnetCall == {"create", "stale", "unstale", "recreate", "get", "put", "detach", "delete"}
InSubnetCall == {k \in Command : pc[k] \in SubnetCall}
SubnetCallsSerialised == \A j, k \in InSubnetCall : j = k

(* A prepared sandbox keeps its group and its subnets, all with the        *)
(* security group, until its own clean-up: route commands put back what    *)
(* they read, and other preparations take away stale subnets only.         *)
PreparedComplete ==
  \A s \in Sandbox : pc[P(s)] = "done" /\ pc[C(s)] = "idle" =>
    s \in groups \intersect nsgs /\ \A c \in CidrsOf[s] : <<s, c>> \in secured

(* A clean-up that reports success has left nothing of its sandbox, after   *)
(* whatever partial preparations and failed clean-ups there were.           *)
CleanupComplete ==
  \A s \in Sandbox : pc[C(s)] = "done" =>
    /\ s \notin groups \union nsgs \union tables
    /\ \A x \in subnets \union nics : x[1] # s

(* The order of the clean-up's commands ("The order of execution is very    *)
(* important"): when every call is answered, Azure refuses nothing the      *)
(* clean-up asks for, whatever was prepared, deployed and routed.           *)
CleanupNeverRefused == faults = 0 => \A s \in Sandbox : ~errors[s]

(* _cleanup_stale_data: what earlier sandboxes left makes a preparation     *)
(* fail only where interfaces are still in their subnet.                   *)
StaleReclaimed ==
  [][\A s \in Sandbox : pc[P(s)] # "failed" /\ pc'[P(s)] = "failed" /\ faults' = faults =>
       \E x \in nics : x[1] # s /\ x[2] = at[P(s)]]_vars

(* No command waits for subnet_locker for ever, nor stops half-way.         *)
EveryCommandEnds ==
  \A s \in Sandbox \ Past : ~Over(P(s)) \/ ~Over(R(s)) \/ ~Over(C(s)) ~>
                               Over(P(s)) /\ Over(R(s)) /\ Over(C(s))
=============================================================================
