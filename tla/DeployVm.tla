------------------------------ MODULE DeployVm ------------------------------
(***************************************************************************)
(* The life of the virtual machines of one sandbox: DeployAzureVMOperation  *)
(* creates the machine and what it needs, call by call, and rolls back on   *)
(* an exception; DeleteAzureVMOperation takes it down again.  Deployments   *)
(* of different machines run concurrently and share the sandbox's private   *)
(* address pool, kept by CloudShell, and the network security group of its  *)
(* subnets.                                                                 *)
(*                                                                          *)
(* A call to Azure either completes, or raises; one that raises may still   *)
(* have taken effect.  Most methods retry a single PUT or DELETE by name,    *)
(* which is one step here.  create_nic, _create_vm and                       *)
(* create_script_extension retry a body of several calls: an error takes    *)
(* them back to its start, as often as their @retry decorators say.         *)
(* MaxFaults bounds the calls that go wrong, or nothing does.               *)
(***************************************************************************)
EXTENDS Naturals

CONSTANTS
  VM,          \* virtual machines, by name
  IP,          \* addresses of the sandbox's private pool
  MaxNics,     \* most subnets a deployment is connected to
  Requests,    \* deployment models a deployment may be started with
  Allocation,  \* the provider's "Private IP Allocation Method" attribute
  Timeout,     \* waits between two looks at a script that its timeout spans
  ConnectionAttempts, \* stop_max_attempt_number of @retry on connection errors
  RetryableAttempts,  \* retryable_error_max_attempts
  MaxFaults,   \* bound on the calls that raise, or UNLIMITED
  UNLIMITED,
  NONE,        \* no address, no machine
  USER,        \* the owner of an address CloudShell's users take for themselves
  DYNAMIC      \* an address Azure assigns and the pool does not know

NicIndex == 1..MaxNics
NicId == VM \X NicIndex

(* nics: how many interfaces; public: which of them are on public subnets. *)
RequestType ==
  [nics: NicIndex, public: SUBSET NicIndex, addPublicIp: BOOLEAN,
   script: BOOLEAN, inboundPorts: BOOLEAN]

ASSUME RequestsAssumption ==
  /\ MaxNics \in Nat \ {0}
  /\ Requests \subseteq RequestType
  /\ Requests # {}
  /\ \A r \in Requests : r.public \subseteq 1..r.nics
ASSUME AllocationAssumption ==
  Allocation \in {"Azure Allocation", "Cloudshell Allocation"}
ASSUME AttemptsAssumption ==
  ConnectionAttempts \in Nat \ {0} /\ RetryableAttempts \in Nat \ {0}
ASSUME ValuesAssumption ==
  /\ MaxFaults \in Nat \union {UNLIMITED} /\ Timeout \in Nat
  /\ NONE \notin VM \union IP \union {USER}
  /\ USER \notin VM
  /\ DYNAMIC \notin IP \union {NONE}

VARIABLES
  \* resources in Azure
  vms,         \* machines that exist
  disks,       \* machines whose OS disk exists
  nicAddr,     \* private address of each network interface; NONE: no such NIC
  pubIps,      \* NICs whose "<interface>_PublicIP" resource exists
  nsgs,        \* machines whose own security group exists
  inbound,     \* destination NIC of the machine's inbound rules in the sandbox NSG; 0: no rule
  extension,   \* the last PUT of the script extension: none, running, ended
  \* the address pool in CloudShell
  lessee,      \* the machine an address was checked out for, or USER; NONE: free
  \* one deploy command per machine
  pc, req, idx, arg, ips, cancelled,
  attempt,     \* which attempt of a retried body runs, by each of its decorators
  clock,       \* waits since the extension was last PUT
  \* one delete command per machine
  del,
  faults

cloud == <<vms, disks, nicAddr, pubIps, nsgs, inbound>>
command == <<req, idx, arg, ips, attempt>>
script == <<extension, clock>>
vars == <<cloud, lessee, pc, command, cancelled, script, del, faults>>

Running == {"nsg", "publicIp", "checkout", "nic", "rules", "credentials", "vm",
            "vmWait", "script", "wait", "result", "details"}
RollingBack == {"rbVm", "rbNic", "rbIp", "rbNsg"}
Ended == {"rejected", "deployed", "failed", "rolledBack", "rollbackFailed"}

FirstAttempt == [connection |-> 1, retryable |-> 1]
NoDelete == [pc |-> "none", nics |-> {}, pubs |-> {}, ips |-> {}, disk |-> FALSE]

Init ==
  /\ vms = {} /\ disks = {} /\ pubIps = {} /\ nsgs = {}
  /\ nicAddr = [n \in NicId |-> NONE]
  /\ inbound = [v \in VM |-> 0]
  /\ lessee = [a \in IP |-> NONE]
  /\ pc = [v \in VM |-> "idle"]
  /\ req \in [VM -> Requests]
  /\ idx = [v \in VM |-> 1]
  /\ arg = [v \in VM |-> NONE]
  /\ ips = [v \in VM |-> {}]
  /\ cancelled = [v \in VM |-> FALSE]
  /\ attempt = [v \in VM |-> FirstAttempt]
  /\ extension = [v \in VM |-> "none"]
  /\ clock = [v \in VM |-> 0]
  /\ del = [v \in VM |-> NoDelete]
  /\ faults = 0
-----------------------------------------------------------------------------
(* Control flow of a deploy command.                                       *)

Goto(v, l) == pc' = [pc EXCEPT ![v] = l]
Returns(v, l) == Goto(v, l) /\ UNCHANGED faults
Fault ==
  \/ MaxFaults = UNLIMITED /\ UNCHANGED faults
  \/ MaxFaults # UNLIMITED /\ faults < MaxFaults /\ faults' = faults + 1
Raises(v, l) == Fault /\ Goto(v, l)

(* Deviations (named ...Bug) are kept beside the definition they would      *)
(* replace: each is a slip the properties below must reveal.                *)
(* The call returned and check_if_cancelled follows it, inside the try.    *)
ReturnsUnlessCancelled(v, l) == Returns(v, IF cancelled[v] THEN "rbVm" ELSE l)

(* A retried body is left, and its attempts with it.                       *)
Leaves(v) == attempt' = [attempt EXCEPT ![v] = FirstAttempt]
GivesUp(v) == Raises(v, "rbVm") /\ Leaves(v)

RetriesForeverBug(v, l) == Raises(v, l) /\ UNCHANGED attempt

(* @retry(retry_on_exception=retry_if_connection_error), the outer one: the *)
(* body is called anew, and so is the decorator inside.                     *)
RetriesConnection(v, l) ==
  /\ attempt[v].connection < ConnectionAttempts
  /\ attempt' = [attempt EXCEPT ![v] = [FirstAttempt EXCEPT !.connection =
                                                  attempt[v].connection + 1]]
  /\ Raises(v, l)

(* @retry(retry_on_exception=retry_if_retryable_error), the inner one.      *)
RetriesRetryable(v, l) ==
  /\ attempt[v].retryable < RetryableAttempts
  /\ attempt' = [attempt EXCEPT ![v] = [attempt[v] EXCEPT !.retryable = @ + 1]]
  /\ Raises(v, l)

(* An error in a body with both decorators: retried, or not of their kinds,  *)
(* or the last attempt's.                                                   *)
RetriesOrGivesUp(v, l) == RetriesConnection(v, l) \/ RetriesRetryable(v, l) \/ GivesUp(v)

Nic(v) == <<v, idx[v]>>
NicsOf(v) == {v} \X (1..req[v].nics)

NextNicPastLastBug(v, again, done) ==
  idx' = [idx EXCEPT ![v] = @ + 1] /\ Returns(v, IF idx[v] = req[v].nics THEN done ELSE again)

(* The end of the body of a loop over data.nic_requests.                    *)
NextNic(v, again, done) ==
  \/ idx[v] < req[v].nics /\ idx' = [idx EXCEPT ![v] = @ + 1] /\ Returns(v, again)
  \/ idx[v] = req[v].nics /\ idx' = idx /\ Returns(v, done)

(* A call that raises may have had its effect, or not.                     *)
MayAdd(s, x) == {s, s \union {x}}
MayRemove(s, x) == {s, s \ {x}}

IsStaticAllocation(method) == method \in {"static", "Static"}
ToAzureType(method) == IF method = "Cloudshell Allocation" THEN "Static" ELSE "Dynamic"
Static == IsStaticAllocation(ToAzureType(Allocation))

CheckoutFromPool(a, owner) == lessee[a] = NONE /\ lessee' = [lessee EXCEPT ![a] = owner]
ReleaseEverythingBug(addresses) == [a \in IP |-> NONE]
Release(addresses) == [a \in IP |-> IF a \in addresses THEN NONE ELSE lessee[a]]

ValidModel(r) == ~(r.public = {} /\ r.addPublicIp)
-----------------------------------------------------------------------------
(* DeployAzureVMOperation._deploy_vm_generic                               *)

(* _prepare_deploy_data creates nothing; what it raises, and the first     *)
(* cancellation check, end the command outside the try.                    *)
Prepare(v) ==
  /\ pc[v] = "idle"
  /\ \/ Returns(v, IF ValidModel(req[v]) /\ ~cancelled[v] THEN "nsg" ELSE "rejected")
     \/ Raises(v, "rejected")
  /\ UNCHANGED <<cloud, lessee, command, cancelled, script, del>>

CreateVmNsg(v) ==
  /\ pc[v] = "nsg"
  /\ \/ nsgs' = nsgs \union {v} /\ ReturnsUnlessCancelled(v, "publicIp")
     \/ nsgs' \in MayAdd(nsgs, v) /\ Raises(v, "rbVm")
  /\ UNCHANGED <<vms, disks, nicAddr, pubIps, inbound, lessee, command, cancelled, script, del>>

CreatePublicIp(v) ==
  /\ pc[v] = "publicIp"
  /\ IF req[v].addPublicIp /\ idx[v] \in req[v].public
       THEN \/ pubIps' = pubIps \union {Nic(v)} /\ Returns(v, "checkout")
            \/ pubIps' \in MayAdd(pubIps, Nic(v)) /\ Raises(v, "rbVm")
       ELSE pubIps' = pubIps /\ Returns(v, "checkout")
  /\ UNCHANGED <<vms, disks, nicAddr, nsgs, inbound, lessee, command, cancelled, script, del>>

(* create_nic, up to the PUT: CheckoutFromPool when the method is static.   *)
(* What CloudShell's pool raises is not retried.                            *)
CheckoutAddress(v) ==
  /\ pc[v] = "checkout"
  /\ IF Static
       THEN \/ \E a \in IP :
                 /\ CheckoutFromPool(a, v)
                 /\ arg' = [arg EXCEPT ![v] = a]
                 /\ Returns(v, "nic") /\ UNCHANGED attempt
            \/ /\ \A a \in IP : lessee[a] # NONE
               /\ Returns(v, "rbVm") /\ Leaves(v) /\ UNCHANGED <<lessee, arg>>
            \/ /\ UNCHANGED lessee \/ \E a \in IP : CheckoutFromPool(a, v)
               /\ GivesUp(v) /\ UNCHANGED arg
       ELSE /\ arg' = [arg EXCEPT ![v] = DYNAMIC]
            /\ Returns(v, "nic") /\ UNCHANGED <<lessee, attempt>>
  /\ UNCHANGED <<cloud, req, idx, ips, cancelled, script, del>>

(* create_nic, the PUT.  An error that is retried runs the whole body again. *)
CreateNic(v) ==
  /\ pc[v] = "nic"
  /\ \/ /\ nicAddr' = [nicAddr EXCEPT ![Nic(v)] = arg[v]]
        /\ ips' = [ips EXCEPT ![v] = @ \union {arg[v]}]
        /\ Returns(v, "rules") /\ Leaves(v)
     \/ /\ nicAddr' \in {nicAddr, [nicAddr EXCEPT ![Nic(v)] = arg[v]]}
        /\ RetriesOrGivesUp(v, "checkout")
        /\ UNCHANGED ips
  /\ UNCHANGED <<vms, disks, pubIps, nsgs, inbound, lessee, req, idx, arg, cancelled, script, del>>

(* The machine's rules have the same names whatever the NIC, and a PUT     *)
(* replaces the rule of that name: their destination is the last NIC.      *)
AddInboundRules(v) ==
  LET put == IF req[v].inboundPorts THEN [inbound EXCEPT ![v] = idx[v]] ELSE inbound
  IN /\ pc[v] = "rules"
     /\ \/ inbound' = put /\ NextNic(v, "publicIp", "credentials")
        \/ inbound' \in {inbound, put} /\ Raises(v, "rbVm") /\ UNCHANGED idx
     /\ UNCHANGED <<vms, disks, nicAddr, pubIps, nsgs, lessee, req, arg, ips, attempt, cancelled,
                    script, del>>

PrepareCredentials(v) ==
  /\ pc[v] = "credentials"
  /\ ReturnsUnlessCancelled(v, "vm") \/ Raises(v, "rbVm")
  /\ UNCHANGED <<cloud, lessee, command, cancelled, script, del>>

(* The machine and its OS disk, from a custom or a marketplace image.       *)
VmAndDisk(made) == vms' = vms \union made /\ disks' = disks \union made

bareCommand == <<req, idx, arg, ips>>

(* _create_vm, up to the wait for the machine.                              *)
CreateVm(v) ==
  /\ pc[v] = "vm"
  /\ \/ VmAndDisk({v}) /\ Returns(v, "vmWait") /\ UNCHANGED attempt
     \/ (\E made \in SUBSET {v} : VmAndDisk(made)) /\ RetriesOrGivesUp(v, "vm")
  /\ UNCHANGED <<nicAddr, pubIps, nsgs, inbound, lessee, bareCommand, cancelled, script, del>>

AfterVm(v) == IF req[v].script THEN "script" ELSE "details"

(* wait_for_task, which polls Azure and the cancellation of the command.  An *)
(* error of the poll or of the result has the machine PUT again.            *)
WaitVm(v) ==
  /\ pc[v] = "vmWait"
  /\ \/ ReturnsUnlessCancelled(v, AfterVm(v)) /\ Leaves(v)
     \/ RetriesOrGivesUp(v, "vm")
  /\ UNCHANGED <<cloud, lessee, bareCommand, cancelled, script, del>>

(* create_script_extension, up to the wait.  A script whose URL does not    *)
(* answer is skipped, and nobody is told.  The PUT does not look at the     *)
(* cancellation, and starts the timeout anew.                               *)
StartScript(v) ==
  /\ pc[v] = "script"
  /\ \/ ReturnsUnlessCancelled(v, "details") /\ Leaves(v) /\ UNCHANGED script
     \/ /\ Returns(v, "wait") /\ UNCHANGED attempt
        /\ extension' = [extension EXCEPT ![v] = "running"]
        /\ clock' = [clock EXCEPT ![v] = 0]
     \/ (RetriesConnection(v, "script") \/ GivesUp(v)) /\ UNCHANGED script
  /\ UNCHANGED <<cloud, lessee, bareCommand, cancelled, del>>

(* wait_for_task_with_timeout, the loop.  A sleep may end late.  An error of *)
(* the poll runs create_script_extension again, from the check of the URL.  *)
WaitScript(v) ==
  /\ pc[v] = "wait"
  /\ \/ /\ extension[v] = "running" /\ clock[v] < Timeout
        /\ \/ cancelled[v] /\ Returns(v, "rbVm") /\ Leaves(v) /\ UNCHANGED clock
           \/ /\ ~cancelled[v] /\ Returns(v, "wait") /\ UNCHANGED attempt
              /\ \E now \in (clock[v] + 1)..(Timeout + 1) : clock' = [clock EXCEPT ![v] = now]
     \/ /\ extension[v] = "ended" \/ clock[v] >= Timeout
        /\ Returns(v, "result") /\ UNCHANGED <<clock, attempt>>
     \/ (RetriesConnection(v, "script") \/ GivesUp(v)) /\ UNCHANGED clock
  /\ UNCHANGED <<cloud, lessee, bareCommand, cancelled, extension, del>>

ResultDespiteCancelBug(v) ==
  /\ pc[v] = "result" /\ extension[v] = "ended" /\ Returns(v, "details") /\ Leaves(v)
  /\ UNCHANGED <<cloud, lessee, bareCommand, cancelled, script, del>>

(* The poller is asked again, and the deadline compared again, strictly: at *)
(* the deadline itself the result is waited for, however long it takes.     *)
(* A timeout is reported, and the deployment goes on; an error of the        *)
(* result is retried like one of the poll.                                  *)
ScriptResult(v) ==
  /\ pc[v] = "result"
  /\ \/ extension[v] = "running" /\ clock[v] > Timeout /\ Returns(v, "details") /\ Leaves(v)
     \/ extension[v] = "ended" /\ ReturnsUnlessCancelled(v, "details") /\ Leaves(v)
     \/ RetriesConnection(v, "script") \/ GivesUp(v)
  /\ UNCHANGED <<cloud, lessee, bareCommand, cancelled, script, del>>

(* Azure: the script of the extension ends, if it ever does.                *)
ScriptEnds(v) ==
  /\ pc[v] \in {"wait", "result"} /\ extension[v] = "running"
  /\ extension' = [extension EXCEPT ![v] = "ended"]
  /\ UNCHANGED <<cloud, lessee, pc, command, cancelled, clock, del, faults>>

(* Past the try: the public address and the machine's details are read, and *)
(* an exception here reaches the caller without a rollback.                 *)
ReadDetails(v) ==
  LET checked == req[v].public # {} /\ req[v].addPublicIp
  IN /\ pc[v] = "details"
     /\ \/ Returns(v, IF checked /\ cancelled[v] THEN "failed" ELSE "deployed")
        \/ Raises(v, "failed")
     /\ UNCHANGED <<cloud, lessee, command, cancelled, script, del>>

(* CloudShell sets is_cancelled while the command runs.                    *)
Cancel(v) ==
  /\ pc[v] \notin Ended /\ ~cancelled[v]
  /\ cancelled' = [cancelled EXCEPT ![v] = TRUE]
  /\ UNCHANGED <<cloud, lessee, pc, command, script, del, faults>>
-----------------------------------------------------------------------------
(* DeployAzureVMOperation._rollback_deployed_resources: the first call that *)
(* raises ends it.                                                          *)

RollbackVmKeepsIndexBug(v) ==
  /\ pc[v] = "rbVm" /\ vms' = vms \ {v} /\ Returns(v, "rbNic")
  /\ UNCHANGED <<disks, nicAddr, pubIps, nsgs, inbound, lessee, command, cancelled, script, del>>

RollbackVm(v) ==
  /\ pc[v] = "rbVm"
  /\ \/ vms' = vms \ {v} /\ Returns(v, "rbNic")
     \/ vms' \in MayRemove(vms, v) /\ Raises(v, "rollbackFailed")
  /\ idx' = [idx EXCEPT ![v] = 1]
  /\ UNCHANGED <<disks, nicAddr, pubIps, nsgs, inbound, lessee, req, arg, ips, attempt, cancelled,
                 script, del>>

RollbackNic(v) ==
  LET gone == [nicAddr EXCEPT ![Nic(v)] = NONE]
  IN /\ pc[v] = "rbNic"
     /\ \/ nicAddr' = gone /\ Returns(v, "rbIp")
        \/ nicAddr' \in {nicAddr, gone} /\ Raises(v, "rollbackFailed")
     /\ UNCHANGED <<vms, disks, pubIps, nsgs, inbound, lessee, command, cancelled, script, del>>

RollbackPublicIp(v) ==
  /\ pc[v] = "rbIp"
  /\ \/ pubIps' = pubIps \ {Nic(v)} /\ NextNic(v, "rbNic", "rbNsg")
     \/ pubIps' \in MayRemove(pubIps, Nic(v)) /\ Raises(v, "rollbackFailed") /\ UNCHANGED idx
  /\ UNCHANGED <<vms, disks, nicAddr, nsgs, inbound, lessee, req, arg, ips, attempt, cancelled,
                 script, del>>

RollbackAllRulesBug(v) ==
  /\ pc[v] = "rbNsg" /\ nsgs' = nsgs \ {v} /\ inbound' = [u \in VM |-> 0]
  /\ Returns(v, "rolledBack")
  /\ UNCHANGED <<vms, disks, nicAddr, pubIps, lessee, command, cancelled, script, del>>

(* release_ips, guarded by the provider's own value of the allocation      *)
(* method, then delete_nsg_artifacts_associated_with_vm.                   *)
RollbackNsg(v) ==
  LET noRule == [inbound EXCEPT ![v] = 0]
  IN /\ pc[v] = "rbNsg"
     /\ lessee' = IF IsStaticAllocation(Allocation) THEN Release(ips[v]) ELSE lessee
     /\ \/ nsgs' = nsgs \ {v} /\ inbound' = noRule /\ Returns(v, "rolledBack")
        \/ /\ nsgs' \in MayRemove(nsgs, v) /\ inbound' \in {inbound, noRule}
           /\ Raises(v, "rollbackFailed")
     /\ UNCHANGED <<vms, disks, nicAddr, pubIps, command, cancelled, script, del>>
-----------------------------------------------------------------------------
(* AzureShell.delete_azure_vm and DeleteAzureVMOperation.delete.  CloudShell *)
(* knows a machine once its deployment returned, and may ask again after a   *)
(* deletion that failed.                                                     *)

DeleteGoto(v, l) == del' = [del EXCEPT ![v].pc = l] /\ UNCHANGED faults
DeleteRaises(v) == Fault /\ del' = [del EXCEPT ![v].pc = "failed"]
deployCommand == <<pc, command, cancelled, script>>

PrimaryNicBug(v) == {n \in NicsOf(v) : nicAddr[n] # NONE /\ n[2] = 1}

AttachedNics(v) == {n \in NicsOf(v) : nicAddr[n] # NONE}

(* What the machine's network profile names is read before anything goes.  *)
(* "Not Found" for the machine is swallowed; when only get_vm fails, the   *)
(* disk is left out of the commands.                                       *)
StartDelete(v) ==
  LET found == AttachedNics(v)
      names(disk) == [pc   |-> "vm", nics |-> found, pubs |-> found \intersect pubIps,
                      ips  |-> {nicAddr[n] : n \in found} \intersect IP,
                      disk |-> disk]
  IN /\ pc[v] = "deployed" /\ del[v].pc \in {"none", "failed"}
     /\ \/ /\ v \notin vms
           /\ DeleteGoto(v, "notFound")
        \/ /\ v \in vms
           /\ \/ del' = [del EXCEPT ![v] = names(TRUE)] /\ UNCHANGED faults
              \/ del' = [del EXCEPT ![v] = names(FALSE)] /\ Fault
        \/ DeleteRaises(v)
     /\ UNCHANGED <<cloud, lessee, deployCommand>>

DeleteVmNotAwaitedBug(v) ==
  /\ del[v].pc = "vm" /\ DeleteGoto(v, "nics") /\ UNCHANGED <<cloud, lessee, deployCommand>>
DeleteVmReleasesFirstBug(v) ==
  /\ del[v].pc = "vm" /\ vms' = vms \ {v} /\ DeleteGoto(v, "nics")
  /\ lessee' = Release(del[v].ips)
  /\ UNCHANGED <<disks, nicAddr, pubIps, nsgs, inbound, deployCommand>>

DeleteVm(v) ==
  /\ del[v].pc = "vm"
  /\ \/ vms' = vms \ {v} /\ DeleteGoto(v, "nics")
     \/ vms' \in MayRemove(vms, v) /\ DeleteRaises(v)
  /\ UNCHANGED <<disks, nicAddr, pubIps, nsgs, inbound, lessee, deployCommand>>

Without(gone) == [n \in NicId |-> IF n \in gone THEN NONE ELSE nicAddr[n]]

(* delete_nics and delete_ips loop over the names under one @retry: a retry  *)
(* deletes again from the first name, and Azure answers the deletion of a    *)
(* name that has gone with success.  So the "Not Found" that the caller      *)
(* swallows, and that would leave the rest of the loop, needs a resource     *)
(* group that has gone, and there is none here.                             *)
DeleteNics(v) ==
  /\ del[v].pc = "nics"
  /\ \/ nicAddr' = Without(del[v].nics) /\ DeleteGoto(v, "pubs")
     \/ \E gone \in SUBSET del[v].nics : nicAddr' = Without(gone) /\ DeleteRaises(v)
  /\ UNCHANGED <<vms, disks, pubIps, nsgs, inbound, lessee, deployCommand>>

DeletePublicIps(v) ==
  /\ del[v].pc = "pubs"
  /\ \/ pubIps' = pubIps \ del[v].pubs /\ DeleteGoto(v, IF del[v].disk THEN "disk" ELSE "nsg")
     \/ \E gone \in SUBSET del[v].pubs : pubIps' = pubIps \ gone /\ DeleteRaises(v)
  /\ UNCHANGED <<vms, disks, nicAddr, nsgs, inbound, lessee, deployCommand>>

DeleteDisk(v) ==
  /\ del[v].pc = "disk"
  /\ \/ disks' = disks \ {v} /\ DeleteGoto(v, "nsg")
     \/ disks' \in MayRemove(disks, v) /\ DeleteRaises(v)
  /\ UNCHANGED <<vms, nicAddr, pubIps, nsgs, inbound, lessee, deployCommand>>

DeleteNsgArtifacts(v) ==
  LET noRule == [inbound EXCEPT ![v] = 0]
  IN /\ del[v].pc = "nsg"
     /\ \/ nsgs' = nsgs \ {v} /\ inbound' = noRule /\ DeleteGoto(v, "release")
        \/ nsgs' \in MayRemove(nsgs, v) /\ inbound' \in {inbound, noRule} /\ DeleteRaises(v)
     /\ UNCHANGED <<vms, disks, nicAddr, pubIps, lessee, deployCommand>>

(* A failure to release is logged, and the deletion succeeds.              *)
ReleaseAddresses(v) ==
  /\ del[v].pc = "release"
  /\ del' = [del EXCEPT ![v].pc = "done"]
  /\ \/ lessee' = Release(del[v].ips) /\ UNCHANGED faults
     \/ Fault /\ UNCHANGED lessee
  /\ UNCHANGED <<cloud, deployCommand>>
-----------------------------------------------------------------------------
(* AzureShell.get_available_private_ip: an address for a user, never given back. *)
GetAvailablePrivateIp ==
  /\ Allocation = "Cloudshell Allocation"
  /\ \E a \in IP : CheckoutFromPool(a, USER)
  /\ UNCHANGED <<cloud, deployCommand, del, faults>>

Deploy(v) ==
  \/ Prepare(v) \/ CreateVmNsg(v) \/ CreatePublicIp(v) \/ CheckoutAddress(v)
  \/ CreateNic(v) \/ AddInboundRules(v) \/ PrepareCredentials(v) \/ CreateVm(v)
  \/ WaitVm(v) \/ StartScript(v) \/ WaitScript(v) \/ ScriptResult(v) \/ ReadDetails(v)
  \/ RollbackVm(v) \/ RollbackNic(v) \/ RollbackPublicIp(v) \/ RollbackNsg(v)

Delete(v) ==
  \/ StartDelete(v) \/ DeleteVm(v) \/ DeleteNics(v) \/ DeletePublicIps(v)
  \/ DeleteDisk(v) \/ DeleteNsgArtifacts(v) \/ ReleaseAddresses(v)

Next ==
  \/ \E v \in VM : Deploy(v) \/ Cancel(v) \/ ScriptEnds(v) \/ Delete(v)
  \/ GetAvailablePrivateIp

Spec == Init /\ [][Next]_vars

(* A command's thread keeps running; users may cancel and delete, or not.  *)
(* A script may hang, unless its result is waited for without a limit: Azure *)
(* ends every extension, only not within the timeout of the deployment.     *)
AwaitedScriptEnds(v) == pc[v] = "result" /\ ScriptEnds(v)
FairSpec == Spec /\ \A v \in VM : WF_vars(Deploy(v)) /\ WF_vars(AwaitedScriptEnds(v))
-----------------------------------------------------------------------------
(* Properties                                                               *)

DeployPc == {"idle"} \union Running \union RollingBack \union Ended
DeletePc == {"none", "vm", "nics", "pubs", "disk", "nsg", "release", "done", "notFound", "failed"}
DeleteType ==
  [pc: DeletePc, nics: SUBSET NicId, pubs: SUBSET NicId, ips: SUBSET IP, disk: BOOLEAN]

AzureTyped ==
  /\ vms \subseteq VM /\ disks \subseteq VM /\ nsgs \subseteq VM
  /\ pubIps \subseteq NicId
  /\ nicAddr \in [NicId -> IP \union {NONE, DYNAMIC}]
  /\ inbound \in [VM -> 0..MaxNics]

CommandTyped ==
  /\ req \in [VM -> Requests]
  /\ idx \in [VM -> NicIndex] /\ \A v \in VM : idx[v] <= req[v].nics
  /\ arg \in [VM -> IP \union {NONE, DYNAMIC}]
  /\ ips \in [VM -> SUBSET (IP \union {DYNAMIC})]
  /\ cancelled \in [VM -> BOOLEAN]
  /\ attempt \in [VM -> [connection: 1..ConnectionAttempts, retryable: 1..RetryableAttempts]]
  /\ extension \in [VM -> {"none", "running", "ended"}]
  /\ clock \in [VM -> 0..(Timeout + 1)]

ControlTyped == pc \in [VM -> DeployPc] /\ faults \in Nat

(* The type of every variable; the counters of the NIC loops stay within    *)
(* the NICs requested, those of the retries within the attempts allowed.    *)
TypeOK ==
  /\ AzureTyped
  /\ lessee \in [IP -> VM \union {NONE, USER}]
  /\ CommandTyped
  /\ ControlTyped
  /\ del \in [VM -> DeleteType]

(* No two interfaces of the sandbox ever have the same pool address, and    *)
(* the pool holds the address of every interface as checked out for its     *)
(* machine: it is never released while the interface exists, whatever       *)
(* create_nic retried, the rollback skipped or the deletion failed at.      *)
AddressesExclusive ==
  \A n \in NicId : nicAddr[n] \in IP =>
    /\ lessee[nicAddr[n]] = n[1]
    /\ \A m \in NicId : m # n => nicAddr[m] # nicAddr[n]

Used == [o \in VM \union {USER} |-> {nicAddr[n] : n \in {m \in NicId : m[1] = o}} \intersect IP]
Pool == INSTANCE AddressPool WITH Address <- IP, Owner <- VM \union {USER}, used <- Used

(* The sandbox keeps the promise of an exclusive pool: an address goes from *)
(* the pool to one owner, onto its interfaces only, and back only when it   *)
(* is on none of them; one a user took is never touched by a machine.       *)
PoolKept == Pool!Spec

Exists(v) == v \in vms \/ v \in nsgs \/ inbound[v] # 0
             \/ \E n \in NicId : n[1] = v /\ (nicAddr[n] # NONE \/ n \in pubIps)

(* A deployment that reported success has its machine, every requested      *)
(* interface, the public addresses asked for, its security group and its    *)
(* inbound rules, until somebody deletes it, whatever the rollbacks and     *)
(* deletions of its neighbours remove by name.                              *)
DeployedComplete ==
  \A v \in VM : pc[v] = "deployed" /\ del[v].pc = "none" =>
    /\ v \in vms /\ v \in nsgs
    /\ \A n \in NicsOf(v) : /\ nicAddr[n] # NONE
                            /\ (n \in pubIps) = (req[v].addPublicIp /\ n[2] \in req[v].public)
    /\ req[v].inboundPorts => inbound[v] # 0

(* A rollback none of whose calls raised leaves no machine, interface,      *)
(* public address, security group or rule behind, at whichever call the     *)
(* deployment stopped.                                                      *)
RolledBackClean == \A v \in VM : pc[v] = "rolledBack" => ~Exists(v)

(* A deletion that ran through its commands leaves nothing of the machine,  *)
(* and its disk only if get_vm failed, even after earlier deletions failed. *)
DeletedClean ==
  \A v \in VM : del[v].pc \in {"release", "done"} =>
    ~Exists(v) /\ (del[v].disk => v \notin disks)

(* Azure refuses to delete what is in use: an interface is only removed     *)
(* once its machine is gone, a public address once its interface is, and a  *)
(* security group once no interface of the machine is left.                 *)
DependencyOrder ==
  [][/\ \A n \in NicId :
          /\ nicAddr[n] # NONE /\ nicAddr'[n] = NONE => n[1] \notin vms
          /\ n \in pubIps /\ n \notin pubIps' => nicAddr[n] = NONE
     /\ \A v \in nsgs \ nsgs' : \A n \in NicId : n[1] = v => nicAddr[n] = NONE]_vars

(* A cancellation that reaches the command before its machine is created,   *)
(* or while the machine's script runs, is honoured: the command never       *)
(* reports the machine as deployed, unless the script outlived its timeout. *)
CancelHonoured ==
  \A v \in VM : [](cancelled[v] /\ pc[v] \in Running \ {"details"}
                    => [](pc[v] = "deployed" => clock[v] > Timeout))

(* Every deploy command that starts ends, rolled back or not, even when any  *)
(* call may go wrong any number of times: each retry of create_nic,          *)
(* _create_vm and create_script_extension spends an attempt, whatever        *)
(* timeout it starts anew, and the rollback walks every interface and stops. *)
EveryDeployEnds == \A v \in VM : pc[v] # "idle" ~> pc[v] \in Ended
-----------------------------------------------------------------------------
(* What the repository's text says and the code does not do.                *)

(* datamodel.xml, on CloudShell allocation: the addresses checked out are   *)
(* released; a rollback removes the instance and keeps them.                *)
RollbackReleasesLeases ==
  \A v \in VM : pc[v] = "rolledBack" => \A a \in IP : lessee[a] # v

(* The docstring of the rollback: everything the operation created is       *)
(* removed on any exception, when no call of the rollback itself raises.    *)
FailedDeployLeavesNothing ==
  \A v \in VM : pc[v] \in {"failed", "rolledBack"} => ~Exists(v) /\ v \notin disks

(* The docstring of delete: the machine and all related resources.  A       *)
(* second deletion finds no machine and reports success over what the       *)
(* first one left.                                                          *)
DeleteSuccessLeavesNothing ==
  \A v \in VM : del[v].pc \in {"done", "notFound"} => ~Exists(v)

(* The deployment logs that the inbound rules are added with the address of *)
(* each interface as destination; only the last interface keeps them.       *)
InboundReachesEveryNic ==
  \A v \in VM : pc[v] = "deployed" /\ del[v].pc = "none" /\ req[v].inboundPorts =>
    \A i \in 1..req[v].nics : inbound[v] = i
=============================================================================
