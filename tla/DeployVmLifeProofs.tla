------------------------- MODULE DeployVmLifeProofs -------------------------
(* What exists of a machine at each place of its deployment, its rollback    *)
(* and its deletion, for any machines, requests and number of faults.       *)
EXTENDS DeployVmProofs

Wanted(v, i) == req[v].addPublicIp /\ i \in req[v].public

(* Nothing exists that was not asked for.                                   *)
Requested(v) ==
  \A i \in NicIndex :
    /\ i > req[v].nics => nicAddr[<<v, i>>] = NONE
    /\ <<v, i>> \in pubIps => Wanted(v, i) /\ i <= req[v].nics

Connected(v, i) == nicAddr[<<v, i>>] # NONE /\ (Wanted(v, i) => <<v, i>> \in pubIps)
Complete(v) ==
  /\ v \in nsgs /\ (req[v].inboundPorts => inbound[v] # 0)
  /\ \A i \in NicIndex : i <= req[v].nics => Connected(v, i)

Connecting == {"publicIp", "checkout", "nic"}
WithVm == {"vmWait", "script", "wait", "result", "details"}

(* A deployment has made what it has passed, and nobody else takes it away. *)
Built(v) ==
  /\ pc[v] \in {"idle", "nsg"} => idx[v] = 1
  /\ pc[v] \in Connecting \union {"rules"} =>
       v \in nsgs /\ \A i \in NicIndex : i < idx[v] => Connected(v, i)
  /\ pc[v] \in {"checkout", "nic", "rules"} /\ Wanted(v, idx[v]) => <<v, idx[v]>> \in pubIps
  /\ pc[v] = "rules" => nicAddr[<<v, idx[v]>>] # NONE
  /\ pc[v] \in {"credentials", "vm"} \union WithVm => Complete(v)
  /\ pc[v] \in WithVm \/ (pc[v] = "deployed" /\ del[v].pc = "none") => v \in vms
  /\ pc[v] = "deployed" /\ v \in vms => Complete(v)

Absent(v, i) == nicAddr[<<v, i>>] = NONE /\ <<v, i>> \notin pubIps

(* A rollback has removed what it has passed.                               *)
Unbuilt(v) ==
  /\ pc[v] \in {"rbNic", "rbIp", "rbNsg", "rolledBack"} => v \notin vms
  /\ pc[v] \in {"rbNic", "rbIp"} => \A i \in NicIndex : i < idx[v] => Absent(v, i)
  /\ pc[v] = "rbIp" => nicAddr[<<v, idx[v]>>] = NONE
  /\ pc[v] \in {"rbNsg", "rolledBack"} => \A i \in NicIndex : Absent(v, i)
  /\ pc[v] = "rolledBack" => v \notin nsgs /\ inbound[v] = 0

PastNsg == {"release", "done"}
PastDisk == {"nsg"} \union PastNsg
PastPubs == {"disk"} \union PastDisk
PastNics == {"pubs"} \union PastPubs
PastVm == {"nics"} \union PastNics

(* A deletion read everything it has to delete, and has deleted what it has  *)
(* passed.                                                                  *)
Deleted(v) ==
  /\ \A n \in del[v].nics \union del[v].pubs : n[1] = v
  /\ \A i \in NicIndex :
       /\ del[v].pc \in NicsLeft /\ nicAddr[<<v, i>>] # NONE => <<v, i>> \in del[v].nics
       /\ del[v].pc \in NicsLeft \union {"pubs"} /\ <<v, i>> \in pubIps => <<v, i>> \in del[v].pubs
       /\ del[v].pc \in PastNics => nicAddr[<<v, i>>] = NONE
       /\ del[v].pc \in PastPubs => <<v, i>> \notin pubIps
  /\ del[v].pc \in PastVm => v \notin vms
  /\ del[v].pc \in PastDisk /\ del[v].disk => v \notin disks
  /\ del[v].pc \in PastNsg => v \notin nsgs /\ inbound[v] = 0

Life(v) == Requested(v) /\ Built(v) /\ Unbuilt(v) /\ Deleted(v)
LifeInv == \A v \in VM : Life(v)
-----------------------------------------------------------------------------
(* A step of one machine leaves the others as they are.                     *)

Untouched(v) ==
  /\ pc'[v] = pc[v] /\ req' = req /\ idx'[v] = idx[v] /\ del'[v] = del[v]
  /\ inbound'[v] = inbound[v]
  /\ v \in vms' <=> v \in vms
  /\ v \in nsgs' <=> v \in nsgs
  /\ v \in disks' <=> v \in disks
  /\ \A i \in NicIndex : /\ nicAddr'[<<v, i>>] = nicAddr[<<v, i>>]
                         /\ <<v, i>> \in pubIps' <=> <<v, i>> \in pubIps

LEMMA Frame ==
  ASSUME TypeOK, NEW v \in VM, Life(v), Untouched(v)
  PROVE  Life(v)'
<1>1. idx[v] \in NicIndex
  BY DEF TypeOK, CommandTyped
<1>2. \A i \in NicIndex : /\ Wanted(v, i)' <=> Wanted(v, i)
                          /\ Connected(v, i)' <=> Connected(v, i)
                          /\ Absent(v, i)' <=> Absent(v, i)
  BY DEF Untouched, Wanted, Connected, Absent
<1>3. Requested(v)'
  BY <1>2 DEF Life, Requested, Untouched
<1>4. Complete(v)' <=> Complete(v)
  BY <1>2 DEF Complete, Untouched
<1>5. Built(v)'
  BY <1>1, <1>2, <1>4 DEF Life, Built, Untouched
<1>6. Unbuilt(v)'
  BY <1>1, <1>2 DEF Life, Unbuilt, Untouched
<1>7. Deleted(v)'
  BY DEF Life, Deleted, Untouched
<1> QED
  BY <1>3, <1>5, <1>6, <1>7 DEF Life

LEMMA DeployOthers ==
  ASSUME TypeOK, NEW u \in VM, Deploy(u), NEW v \in VM \ {u}
  PROVE  Untouched(v)
<1> USE DEF Untouched, TypeOK, AzureTyped, CommandTyped, ControlTyped, cloud, command,
            Returns, ReturnsUnlessCancelled,
            Raises, Goto, RetriesOrGivesUp, RetriesConnection, RetriesRetryable, GivesUp, bareCommand, NicId, Nic
<1>1. CASE Prepare(u) \/ CheckoutAddress(u) \/ PrepareCredentials(u)
  BY <1>1 DEF Prepare, CheckoutAddress, PrepareCredentials
<1>2. CASE CreateVmNsg(u)
  BY <1>2 DEF CreateVmNsg, MayAdd
<1>3. CASE CreatePublicIp(u)
  BY <1>3 DEF CreatePublicIp, MayAdd
<1>4. CASE CreateNic(u)
  BY <1>4 DEF CreateNic
<1>5. CASE AddInboundRules(u)
  BY <1>5 DEF AddInboundRules, NextNic
<1>6. CASE CreateVm(u)
  BY <1>6 DEF CreateVm, VmAndDisk
<1>7. CASE WaitVm(u) \/ StartScript(u) \/ WaitScript(u) \/ ScriptResult(u) \/ ReadDetails(u)
  BY <1>7 DEF WaitVm, StartScript, WaitScript, ScriptResult, ReadDetails
<1>8. CASE RollbackVm(u)
  BY <1>8 DEF RollbackVm, MayRemove
<1>9. CASE RollbackNic(u)
  BY <1>9 DEF RollbackNic
<1>10. CASE RollbackPublicIp(u)
  BY <1>10 DEF RollbackPublicIp, NextNic, MayRemove
<1>11. CASE RollbackNsg(u)
  BY <1>11 DEF RollbackNsg, MayRemove
<1> QED
  BY <1>1, <1>2, <1>3, <1>4, <1>5, <1>6, <1>7, <1>8, <1>9, <1>10, <1>11 DEF Deploy

LEMMA DeleteOthers ==
  ASSUME TypeOK, NEW u \in VM, Deleted(u), Delete(u), NEW v \in VM \ {u}
  PROVE  Untouched(v)
<1> USE DEF Untouched, TypeOK, AzureTyped, cloud, deployCommand, command, DeleteGoto,
            DeleteRaises, NicId
<1>1. del'[v] = del[v]
  BY DeleteSnapshot
<1>2. \A i \in NicIndex : <<v, i>> \notin del[u].nics \union del[u].pubs
  BY DEF Deleted
<1>3. CASE StartDelete(u) \/ DeleteDisk(u) \/ ReleaseAddresses(u) \/ DeleteVm(u)
  BY <1>1, <1>3 DEF StartDelete, DeleteDisk, ReleaseAddresses, DeleteVm, MayRemove
<1>4. CASE DeleteNics(u)
  BY <1>1, <1>2, <1>4 DEF DeleteNics, Without
<1>5. CASE DeletePublicIps(u)
  BY <1>1, <1>2, <1>5 DEF DeletePublicIps
<1>6. CASE DeleteNsgArtifacts(u)
  BY <1>1, <1>6 DEF DeleteNsgArtifacts, MayRemove
<1> QED
  BY <1>3, <1>4, <1>5, <1>6 DEF Delete
-----------------------------------------------------------------------------
(* The steps of a machine's own deployment and rollback.                    *)

(* No deletion has begun.                                                   *)
LEMMA NotDeleted ==
  ASSUME TypeOK, DeleteAfterDeploy, NEW v \in VM, Deleted(v), Deploy(v)
  PROVE  Deleted(v)' /\ del'[v].pc = "none" /\ pc[v] # "deployed"
BY DeployLocal DEF DeleteAfterDeploy, Deleted, NicsLeft, PastVm, PastNics, PastPubs, PastDisk, PastNsg

LEMMA QuietLife ==
  ASSUME TypeOK, DeleteAfterDeploy, NEW v \in VM, Life(v), Deploy(v),
         \/ Prepare(v) \/ PrepareCredentials(v) \/ WaitVm(v) \/ StartScript(v) \/ WaitScript(v)
         \/ ScriptResult(v) \/ ReadDetails(v) \/ CheckoutAddress(v)
  PROVE  Life(v)'
<1> USE DEF TypeOK, ControlTyped, cloud, command, Returns, ReturnsUnlessCancelled,
            Raises, Goto, RetriesOrGivesUp, RetriesConnection, RetriesRetryable, GivesUp, bareCommand
<1>1. UNCHANGED <<vms, nicAddr, pubIps, nsgs, inbound, req, idx>>
  BY DEF Prepare, PrepareCredentials, WaitVm, StartScript, WaitScript, ScriptResult, ReadDetails,
         CheckoutAddress
<1>2. \A i \in NicIndex : /\ Wanted(v, i)' <=> Wanted(v, i)
                          /\ Connected(v, i)' <=> Connected(v, i)
  BY <1>1 DEF Wanted, Connected
<1>3. Requested(v)'
  BY <1>1, <1>2 DEF Life, Requested
<1>4. Complete(v)' <=> Complete(v)
  BY <1>1, <1>2 DEF Complete
<1>5. pc'[v] \notin {"rbNic", "rbIp", "rbNsg", "rolledBack"}
  BY DEF Prepare, PrepareCredentials, WaitVm, StartScript, WaitScript, ScriptResult, ReadDetails,
         CheckoutAddress, AfterVm
<1>6. Built(v)'
  <2>1. idx[v] \in NicIndex
    BY DEF CommandTyped
  <2>2. CASE Prepare(v) \/ PrepareCredentials(v) \/ WaitVm(v)
    BY <1>1, <1>2, <1>4, <2>1, <2>2
    DEF Life, Built, Prepare, PrepareCredentials, WaitVm, AfterVm, Connecting, WithVm
  <2>3. CASE StartScript(v) \/ WaitScript(v) \/ ScriptResult(v) \/ ReadDetails(v)
    BY <1>1, <1>2, <1>4, <2>1, <2>3
    DEF Life, Built, StartScript, WaitScript, ScriptResult, ReadDetails, Connecting, WithVm
  <2>4. CASE CheckoutAddress(v)
    BY <1>1, <1>2, <1>4, <2>1, <2>4 DEF Life, Built, CheckoutAddress, Connecting, WithVm
  <2> QED
    BY <2>2, <2>3, <2>4
<1>7. Unbuilt(v)'
  BY <1>5 DEF Unbuilt
<1> QED
  BY <1>3, <1>6, <1>7, NotDeleted DEF Life

LEMMA BuildLife ==
  ASSUME TypeOK, ArgInv, DeleteAfterDeploy, NEW v \in VM, Life(v), Deploy(v),
         CreateVmNsg(v) \/ CreatePublicIp(v) \/ CreateNic(v) \/ CreateVm(v)
  PROVE  Life(v)'
<1> USE DEF TypeOK, ControlTyped, AzureTyped, cloud, command, Returns, ReturnsUnlessCancelled,
            Raises, Goto, RetriesOrGivesUp, RetriesConnection, RetriesRetryable, GivesUp, bareCommand,
            NicId, Nic
<1>1. UNCHANGED <<inbound, req, idx>> /\ idx[v] \in NicIndex /\ idx[v] <= req[v].nics
  BY DEF CreateVmNsg, CreatePublicIp, CreateNic, CreateVm, CommandTyped
<1>2. pc'[v] \notin {"rbNic", "rbIp", "rbNsg", "rolledBack"}
  BY DEF CreateVmNsg, CreatePublicIp, CreateNic, CreateVm
<1>3. Unbuilt(v)'
  BY <1>2 DEF Unbuilt
<1>4. idx[v] \in Nat /\ NicIndex \subseteq Nat /\ req[v].nics \in Nat
  BY <1>1, RequestTyped, RequestsAssumption DEF NicIndex
<1>5. CASE CreateVmNsg(v)
  <2>1. UNCHANGED <<vms, nicAddr, pubIps>> /\ idx[v] = 1
    BY <1>5 DEF CreateVmNsg, Life, Built
  <2>2. Requested(v)'
    BY <1>1, <2>1 DEF Life, Requested, Wanted
  <2>3. pc'[v] \in {"publicIp", "rbVm"} /\ (pc'[v] = "publicIp" => v \in nsgs')
    BY <1>5 DEF CreateVmNsg
  <2>4. Built(v)'
    BY <1>1, <1>4, <2>1, <2>3 DEF Built, Connecting, WithVm, NicIndex
  <2> QED
    BY <1>3, <2>2, <2>4, NotDeleted DEF Life
<1>6. CASE CreatePublicIp(v)
  <2>1. UNCHANGED <<vms, nicAddr, nsgs>> /\ pc[v] = "publicIp"
    BY <1>6 DEF CreatePublicIp
  <2>2. pubIps \subseteq pubIps' /\ \A n \in pubIps' \ pubIps : n = Nic(v) /\ Wanted(v, idx[v])
    BY <1>6 DEF CreatePublicIp, MayAdd, Wanted
  <2>3. Requested(v)'
    BY <1>1, <2>1, <2>2 DEF Life, Requested, Wanted
  <2>4. /\ pc'[v] \in {"checkout", "rbVm"}
        /\ pc'[v] = "checkout" /\ Wanted(v, idx[v]) => Nic(v) \in pubIps'
    BY <1>6 DEF CreatePublicIp, Wanted
  <2>5. Built(v)'
    BY <1>1, <1>4, <2>1, <2>2, <2>4 DEF Life, Built, Connecting, WithVm, Connected, Wanted
  <2> QED
    BY <1>3, <2>3, <2>5, NotDeleted DEF Life
<1>7. CASE CreateNic(v)
  <2>1. UNCHANGED <<vms, pubIps, nsgs>> /\ pc[v] = "nic"
    BY <1>7 DEF CreateNic
  <2>2. /\ arg[v] # NONE
        /\ \A i \in NicIndex : nicAddr'[<<v, i>>] = nicAddr[<<v, i>>]
                               \/ (i = idx[v] /\ nicAddr'[<<v, i>>] = arg[v])
    BY <1>7, <2>1, ValuesAssumption DEF CreateNic, ArgInv
  <2>3. Requested(v)'
    BY <1>1, <1>4, <2>1, <2>2 DEF Life, Requested, Wanted
  <2>4. /\ pc'[v] \in {"rules", "checkout", "rbVm"}
        /\ pc'[v] = "rules" => nicAddr'[<<v, idx[v]>>] = arg[v]
    BY <1>1, <1>7 DEF CreateNic
  <2>5. Built(v)'
    BY <1>1, <1>4, <2>1, <2>2, <2>4 DEF Life, Built, Connecting, WithVm, Connected, Wanted
  <2> QED
    BY <1>3, <2>3, <2>5, NotDeleted DEF Life
<1>8. CASE CreateVm(v)
  <2>1. UNCHANGED <<nicAddr, pubIps, nsgs>> /\ pc[v] = "vm"
    BY <1>8 DEF CreateVm
  <2>2. Requested(v)' /\ (Complete(v)' <=> Complete(v))
    BY <1>1, <2>1 DEF Life, Requested, Wanted, Complete, Connected
  <2>3. pc'[v] \in {"vmWait", "vm", "rbVm"} /\ (pc'[v] = "vmWait" => v \in vms')
    BY <1>8 DEF CreateVm, VmAndDisk
  <2>4. Built(v)'
    BY <2>1, <2>2, <2>3 DEF Life, Built, Connecting, WithVm
  <2> QED
    BY <1>3, <2>2, <2>4, NotDeleted DEF Life
<1> QED
  BY <1>5, <1>6, <1>7, <1>8

LEMMA RulesLife ==
  ASSUME TypeOK, DeleteAfterDeploy, NEW v \in VM, Life(v), Deploy(v), AddInboundRules(v)
  PROVE  Life(v)'
<1> USE DEF TypeOK, ControlTyped, AzureTyped, Returns, Raises, Goto
<1>1. UNCHANGED <<vms, nicAddr, pubIps, nsgs, req>> /\ pc[v] = "rules"
  BY DEF AddInboundRules
<1>2. idx[v] \in Nat /\ NicIndex \subseteq Nat /\ req[v].nics \in Nat /\ idx[v] # 0 /\ idx[v] \in NicIndex
  BY RequestTyped, RequestsAssumption DEF NicIndex, CommandTyped
<1>3. Requested(v)' /\ \A i \in NicIndex : Connected(v, i)' <=> Connected(v, i)
  BY <1>1 DEF Life, Requested, Connected, Wanted
<1>4. \A i \in NicIndex : i <= idx[v] => Connected(v, i)
  BY <1>1, <1>2 DEF Life, Built, Connected
<1>5. CASE pc'[v] = "rbVm"
  BY <1>3, <1>5, NotDeleted DEF Life, Built, Unbuilt, Connecting, WithVm
<1>6. CASE NextNic(v, "publicIp", "credentials") /\ (req[v].inboundPorts => inbound'[v] = idx[v])
  <2>1. CASE idx'[v] = idx[v] + 1 /\ pc'[v] = "publicIp"
    <3>1. Built(v)'
      BY <1>1, <1>2, <1>3, <1>4, <2>1 DEF Life, Built, Connecting, WithVm
    <3> QED
      BY <1>3, <2>1, <3>1, NotDeleted DEF Life, Unbuilt
  <2>2. CASE idx[v] = req[v].nics /\ pc'[v] = "credentials"
    <3>1. Complete(v)'
      BY <1>1, <1>2, <1>3, <1>4, <1>6, <2>2 DEF Life, Built, Complete
    <3>2. Built(v)'
      BY <2>2, <3>1 DEF Built, Connecting, WithVm
    <3> QED
      BY <1>3, <2>2, <3>2, NotDeleted DEF Life, Unbuilt
  <2> QED
    BY <1>6, <2>1, <2>2 DEF NextNic, CommandTyped
<1>7. req[v].inboundPorts => [inbound EXCEPT ![v] = idx[v]][v] = idx[v]
  OBVIOUS
<1> QED
  BY <1>5, <1>6 DEF AddInboundRules

LEMMA UpTo ==
  ASSUME NEW S \in SUBSET Nat, NEW k \in Nat
  PROVE  \A i \in S : i <= k => i < k \/ i = k
OBVIOUS

LEMMA RollbackLife ==
  ASSUME TypeOK, DeleteAfterDeploy, NEW v \in VM, Life(v), Deploy(v),
         RollbackVm(v) \/ RollbackNic(v) \/ RollbackPublicIp(v) \/ RollbackNsg(v)
  PROVE  Life(v)'
<1> USE DEF TypeOK, ControlTyped, AzureTyped, CommandTyped, cloud, command, Returns, Raises, Goto,
            NicId, Nic
<1>1. idx[v] \in Nat /\ NicIndex \subseteq Nat /\ req[v].nics \in Nat /\ idx[v] \in NicIndex
      /\ \A i \in NicIndex : i >= 1
  BY RequestTyped, RequestsAssumption DEF NicIndex
<1>2. pc'[v] \in {"rbNic", "rbIp", "rbNsg", "rolledBack", "rollbackFailed"}
  BY DEF RollbackVm, RollbackNic, RollbackPublicIp, NextNic, RollbackNsg
<1>3. Built(v)'
  BY <1>2 DEF Built, Connecting, WithVm
<1>4. CASE pc'[v] = "rollbackFailed"
  <2>1. Requested(v)'
    BY DEF Life, Requested, Wanted, RollbackVm, RollbackNic, RollbackPublicIp, NextNic, RollbackNsg, MayRemove
  <2> QED
    BY <1>3, <1>4, <2>1, NotDeleted DEF Life, Unbuilt
<1>5. CASE RollbackVm(v) /\ pc'[v] = "rbNic"
  <2>1. UNCHANGED <<nicAddr, pubIps, req>> /\ v \notin vms' /\ idx'[v] = 1
    BY <1>5 DEF RollbackVm
  <2>2. Requested(v)' /\ Unbuilt(v)'
    BY <1>1, <1>5, <2>1 DEF Life, Requested, Wanted, Unbuilt
  <2> QED
    BY <1>3, <2>2, NotDeleted DEF Life
<1>6. CASE RollbackNic(v) /\ pc'[v] = "rbIp"
  <2>1. UNCHANGED <<vms, pubIps, req, idx>> /\ pc[v] = "rbNic"
    BY <1>6 DEF RollbackNic
  <2>2. /\ nicAddr'[<<v, idx[v]>>] = NONE
        /\ \A i \in NicIndex : nicAddr'[<<v, i>>] \in {nicAddr[<<v, i>>], NONE}
    BY <1>1, <1>6 DEF RollbackNic
  <2>3. Requested(v)' /\ Unbuilt(v)'
    BY <1>1, <1>6, <2>1, <2>2 DEF Life, Requested, Wanted, Unbuilt, Absent
  <2> QED
    BY <1>3, <2>3, NotDeleted DEF Life
<1>7. CASE RollbackPublicIp(v) /\ pc'[v] \in {"rbNic", "rbNsg"}
  <2>1. UNCHANGED <<vms, nicAddr, req>> /\ pc[v] = "rbIp" /\ pubIps' = pubIps \ {Nic(v)}
    BY <1>7 DEF RollbackPublicIp
  <2>2. Requested(v)'
    BY <2>1 DEF Life, Requested, Wanted
  <2>3. \A i \in NicIndex : i <= idx[v] => Absent(v, i)'
    <3>1. nicAddr'[<<v, idx[v]>>] = NONE /\ <<v, idx[v]>> \notin pubIps'
      BY <1>1, <2>1 DEF Life, Unbuilt, Absent
    <3>2. \A i \in NicIndex : i < idx[v] => Absent(v, i)'
      BY <2>1 DEF Life, Unbuilt, Absent
    <3>3. \A i \in NicIndex : i <= idx[v] => i < idx[v] \/ i = idx[v]
      BY <1>1, UpTo
    <3> QED
      BY <3>1, <3>2, <3>3 DEF Absent
  <2>4. \/ pc'[v] = "rbNic" /\ idx'[v] = idx[v] + 1
        \/ pc'[v] = "rbNsg" /\ idx[v] = req[v].nics
    BY <1>7 DEF RollbackPublicIp, NextNic
  <2>5. pc'[v] = "rbNsg" => \A i \in NicIndex : Absent(v, i)'
    BY <1>1, <2>1, <2>2, <2>3, <2>4 DEF Requested, Absent
  <2>6. Unbuilt(v)'
    BY <1>1, <2>1, <2>3, <2>4, <2>5 DEF Life, Unbuilt
  <2> QED
    BY <1>3, <2>2, <2>6, NotDeleted DEF Life
<1>8. CASE RollbackNsg(v) /\ pc'[v] = "rolledBack"
  <2>1. UNCHANGED <<vms, nicAddr, pubIps, req>> /\ pc[v] = "rbNsg" /\ v \notin nsgs' /\ inbound'[v] = 0
    BY <1>8 DEF RollbackNsg
  <2>2. Requested(v)' /\ Unbuilt(v)'
    BY <1>8, <2>1 DEF Life, Requested, Wanted, Unbuilt, Absent
  <2> QED
    BY <1>3, <2>2, NotDeleted DEF Life
<1> QED
  BY <1>2, <1>4, <1>5, <1>6, <1>7, <1>8 DEF RollbackVm, RollbackNic, RollbackPublicIp, NextNic, RollbackNsg
-----------------------------------------------------------------------------
(* The steps of a machine's own deletion.                                   *)

Places == PastVm \union NicsLeft \union {"failed", "notFound"}

(* Whatever the step, the command is not running and the deployment is over. *)
LEMMA DeleteFrame ==
  ASSUME TypeOK, DeleteAfterDeploy, NEW v \in VM, Delete(v)
  PROVE  /\ pc[v] = "deployed" /\ UNCHANGED <<pc, req, idx>> /\ del'[v].pc \in Places
         /\ vms' \subseteq vms /\ nsgs' \subseteq nsgs /\ disks' \subseteq disks /\ pubIps' \subseteq pubIps
         /\ inbound'[v] \in {inbound[v], 0}
<1> USE DEF TypeOK, AzureTyped, DeleteType, cloud, deployCommand, command, DeleteGoto, DeleteRaises, Places, PastVm,
            PastNics, PastPubs, PastDisk, PastNsg, NicsLeft
<1>1. pc[v] = "deployed"
  BY DeleteAfter
<1>2. CASE StartDelete(v)
  BY <1>1, <1>2 DEF StartDelete
<1>3. CASE DeleteVm(v) \/ DeleteNics(v)
  BY <1>1, <1>3 DEF DeleteVm, DeleteNics, MayRemove
<1>4. CASE DeletePublicIps(v) \/ DeleteDisk(v)
  BY <1>1, <1>4 DEF DeletePublicIps, DeleteDisk, MayRemove
<1>5. CASE DeleteNsgArtifacts(v) \/ ReleaseAddresses(v)
  BY <1>1, <1>5 DEF DeleteNsgArtifacts, ReleaseAddresses, MayRemove
<1> QED
  BY <1>2, <1>3, <1>4, <1>5 DEF Delete

LEMMA DeleteBuilt ==
  ASSUME TypeOK, DeleteAfterDeploy, NEW v \in VM, Life(v), Delete(v)
  PROVE  Requested(v)' /\ Built(v)' /\ Unbuilt(v)'
<1> USE DEF TypeOK, AzureTyped, DeleteType
<1>1. Unbuilt(v)'
  BY DeleteFrame DEF Unbuilt
<1>2. Requested(v)'
  BY DeleteFrame, DeleteAddress DEF Life, Requested, Wanted, NicId
<1>3. ASSUME v \in vms'
      PROVE  Complete(v)'
  <2>1. v \in vms /\ Complete(v) /\ del[v].pc \notin PastVm
    BY <1>3, DeleteFrame DEF Life, Built, Deleted
  <2>2. StartDelete(v) \/ DeleteVm(v)
    BY <2>1 DEF Delete, DeleteNics, DeletePublicIps, DeleteDisk, DeleteNsgArtifacts, ReleaseAddresses,
                PastVm, PastNics, PastPubs, PastDisk, PastNsg
  <2>3. UNCHANGED <<nicAddr, pubIps, nsgs, inbound, req>>
    BY <2>2, DeleteFrame DEF StartDelete, DeleteVm, cloud
  <2> QED
    BY <2>1, <2>3 DEF Complete, Connected, Wanted
<1>4. Built(v)'
  BY <1>3, DeleteFrame DEF Built, Places, PastVm, PastNics, PastPubs, PastDisk, PastNsg, NicsLeft,
                           Connecting, WithVm
<1> QED
  BY <1>1, <1>2, <1>4

LEMMA DeleteDeleted ==
  ASSUME TypeOK, DeleteAfterDeploy, NEW v \in VM, Life(v), Delete(v)
  PROVE  Deleted(v)'
<1> USE DEF TypeOK, AzureTyped, DeleteType, cloud, DeleteGoto, DeleteRaises, PastVm, PastNics, PastPubs,
            PastDisk, PastNsg, NicsLeft
<1>1. Deleted(v) /\ Requested(v)
  BY DEF Life
<1>2. CASE StartDelete(v)
  <2>1. UNCHANGED <<vms, disks, nicAddr, pubIps, nsgs, inbound>>
    BY <1>2 DEF StartDelete
  <2>2. CASE /\ v \in vms /\ del'[v].pc = "vm"
             /\ del'[v].nics = AttachedNics(v) /\ del'[v].pubs = AttachedNics(v) \intersect pubIps
    <3>1. Complete(v)
      BY <1>2, <2>2 DEF Life, Built, StartDelete
    <3>2. \A i \in NicIndex : nicAddr[<<v, i>>] # NONE => <<v, i>> \in AttachedNics(v)
      BY <1>1, RequestTyped, RequestsAssumption DEF Requested, AttachedNics, NicsOf, NicIndex
    <3>3. \A i \in NicIndex : <<v, i>> \in pubIps => nicAddr[<<v, i>>] # NONE
      BY <1>1, <3>1 DEF Complete, Connected, Requested
    <3>4. \A n \in AttachedNics(v) : n[1] = v
      BY DEF AttachedNics, NicsOf
    <3> QED
      BY <2>1, <2>2, <3>2, <3>3, <3>4 DEF Deleted
  <2>3. CASE /\ del'[v].pc \in {"failed", "notFound"}
             /\ del'[v].nics = del[v].nics /\ del'[v].pubs = del[v].pubs
    BY <1>1, <2>3 DEF Deleted
  <2> QED
    BY <1>2, <2>2, <2>3 DEF StartDelete
<1>3. CASE DeleteVm(v)
  BY <1>1, <1>3 DEF Deleted, DeleteVm
<1>4. CASE DeleteNics(v)
  <2>1. /\ UNCHANGED <<vms, disks, pubIps, nsgs, inbound>> /\ del[v].pc = "nics"
        /\ del'[v].nics = del[v].nics /\ del'[v].pubs = del[v].pubs /\ del'[v].pc \in {"pubs", "failed"}
    BY <1>4 DEF DeleteNics
  <2>2. \A i \in NicIndex : <<v, i>> \in NicId /\ (nicAddr[<<v, i>>] # NONE => <<v, i>> \in del[v].nics)
    BY <1>1, <2>1 DEF Deleted, NicId
  <2>3. del'[v].pc = "pubs" => nicAddr' = Without(del[v].nics)
    BY <1>4, <2>1 DEF DeleteNics
  <2>4. del'[v].pc = "pubs" => \A i \in NicIndex : nicAddr'[<<v, i>>] = NONE
    BY <2>2, <2>3 DEF Without
  <2> QED
    BY <1>1, <2>1, <2>4 DEF Deleted
<1>5. CASE DeletePublicIps(v)
  BY <1>1, <1>5 DEF Deleted, DeletePublicIps
<1>6. CASE DeleteDisk(v)
  BY <1>1, <1>6 DEF Deleted, DeleteDisk
<1>7. CASE DeleteNsgArtifacts(v)
  <2>1. /\ UNCHANGED <<vms, disks, nicAddr, pubIps>> /\ del[v].pc = "nsg"
        /\ del'[v].nics = del[v].nics /\ del'[v].pubs = del[v].pubs /\ del'[v].disk = del[v].disk
        /\ \/ del'[v].pc = "failed"
           \/ del'[v].pc = "release" /\ v \notin nsgs' /\ inbound'[v] = 0
    BY <1>7 DEF DeleteNsgArtifacts
  <2> QED
    BY <1>1, <2>1 DEF Deleted
<1>8. CASE ReleaseAddresses(v)
  BY <1>1, <1>8 DEF Deleted, ReleaseAddresses
<1> QED
  BY <1>2, <1>3, <1>4, <1>5, <1>6, <1>7, <1>8 DEF Delete
-----------------------------------------------------------------------------
LEMMA LifeInit == Init => LifeInv
<1> SUFFICES ASSUME Init, NEW v \in VM PROVE Life(v)
  BY DEF LifeInv
<1> QED
  BY DEF Init, Life, Requested, Built, Unbuilt, Deleted, NoDelete, NicId, Connecting, WithVm, NicsLeft,
         PastVm, PastNics, PastPubs, PastDisk, PastNsg

LEMMA LifeStep ==
  ASSUME IInv, LifeInv, [Next]_vars
  PROVE  LifeInv'
<1> USE DEF IInv, LifeInv
<1>1. ASSUME NEW u \in VM, Deploy(u)
      PROVE  LifeInv'
  <2>1. Life(u)'
    BY <1>1, QuietLife, BuildLife, RulesLife, RollbackLife DEF Deploy
  <2>2. \A v \in VM \ {u} : Life(v)'
    BY <1>1, DeployOthers, Frame
  <2> QED
    BY <2>1, <2>2
<1>2. ASSUME NEW u \in VM, Delete(u)
      PROVE  LifeInv'
  <2>1. Life(u)'
    BY <1>2, DeleteBuilt, DeleteDeleted DEF Life
  <2>2. \A v \in VM \ {u} : Life(v)'
    BY <1>2, DeleteOthers, Frame DEF Life
  <2> QED
    BY <2>1, <2>2
<1>3. CASE \A u \in VM : ~Deploy(u) /\ ~Delete(u)
  <2>1. UNCHANGED <<cloud, pc, req, idx, del>>
    BY <1>3 DEF Next, vars, command, deployCommand, Cancel, ScriptEnds, GetAvailablePrivateIp
  <2>2. \A v \in VM : Untouched(v)
    BY <2>1 DEF Untouched, cloud
  <2> QED
    BY <2>2, Frame
<1> QED
  BY <1>1, <1>2, <1>3

LEMMA LifeInvariance == Spec => [](IInv /\ LifeInv)
<1>1. IInv /\ LifeInv /\ [Next]_vars => LifeInv'
  BY LifeStep
<1> QED
  BY <1>1, LifeInit, Invariance, PTL DEF Spec

(* A NIC is named after its machine and its index.                          *)
LEMMA NicNamed ==
  ASSUME NEW n \in NicId
  PROVE  n[1] \in VM /\ n[2] \in NicIndex /\ n = <<n[1], n[2]>>
BY DEF NicId

(* A deployment that reported success has everything that was asked for,     *)
(* until its own deletion, whatever the others' rollbacks and deletions do.  *)
THEOREM Completes == Spec => []DeployedComplete
<1>1. IInv /\ LifeInv => DeployedComplete
  <2> SUFFICES ASSUME IInv, LifeInv, NEW v \in VM, pc[v] = "deployed", del[v].pc = "none"
               PROVE  /\ v \in vms /\ v \in nsgs
                      /\ \A n \in NicsOf(v) : /\ nicAddr[n] # NONE
                                              /\ (n \in pubIps) = (req[v].addPublicIp /\ n[2] \in req[v].public)
                      /\ req[v].inboundPorts => inbound[v] # 0
    BY DEF DeployedComplete
  <2>1. v \in vms /\ Complete(v) /\ Requested(v)
    BY DEF LifeInv, Life, Built
  <2>2. TypeOK /\ req[v].addPublicIp \in BOOLEAN
    BY RequestTyped DEF IInv
  <2>3. ASSUME NEW n \in NicsOf(v)
        PROVE  /\ nicAddr[n] # NONE
               /\ (n \in pubIps) = (req[v].addPublicIp /\ n[2] \in req[v].public)
    <3>1. n = <<v, n[2]>> /\ n[2] <= req[v].nics
      BY <2>2, <2>3, RequestTyped, RequestsAssumption DEF NicsOf, NicIndex
    <3>2. n[2] \in NicIndex
      BY <2>2, <3>1, NicTyped, NicNamed
    <3> QED
      BY <2>1, <2>2, <3>1, <3>2 DEF Complete, Connected, Requested, Wanted
  <2> QED
    BY <2>1, <2>3 DEF Complete
<1> QED
  BY <1>1, LifeInvariance, PTL

LEMMA NothingExists ==
  ASSUME NEW v \in VM, v \notin vms, v \notin nsgs, inbound[v] = 0,
         \A i \in NicIndex : Absent(v, i)
  PROVE  ~Exists(v)
BY NicNamed DEF Exists, Absent

(* A rollback none of whose calls raised has removed all that was made.      *)
THEOREM RollsBack == Spec => []RolledBackClean
<1>1. LifeInv => RolledBackClean
  BY NothingExists DEF LifeInv, Life, Unbuilt, RolledBackClean
<1> QED
  BY <1>1, LifeInvariance, PTL

(* A deletion that ran through its commands has removed all there was, after *)
(* whatever deletions failed before it.                                     *)
THEOREM Deletes == Spec => []DeletedClean
<1>1. LifeInv => DeletedClean
  <2> SUFFICES ASSUME LifeInv, NEW v \in VM, del[v].pc \in {"release", "done"}
               PROVE  ~Exists(v) /\ (del[v].disk => v \notin disks)
    BY DEF DeletedClean
  <2>1. Deleted(v)
    BY DEF LifeInv, Life
  <2>2. /\ v \notin vms /\ v \notin nsgs /\ inbound[v] = 0 /\ (del[v].disk => v \notin disks)
        /\ \A i \in NicIndex : Absent(v, i)
    BY <2>1 DEF Deleted, Absent, PastVm, PastNics, PastPubs, PastDisk, PastNsg
  <2> QED
    BY <2>2, NothingExists
<1> QED
  BY <1>1, LifeInvariance, PTL
-----------------------------------------------------------------------------
(* The order in which a machine's resources go.                             *)

InOrder(v) ==
  /\ \A i \in NicIndex :
       /\ nicAddr[<<v, i>>] # NONE /\ nicAddr'[<<v, i>>] = NONE => v \notin vms
       /\ <<v, i>> \in pubIps /\ <<v, i>> \notin pubIps' => nicAddr[<<v, i>>] = NONE
  /\ v \in nsgs /\ v \notin nsgs' => \A i \in NicIndex : nicAddr[<<v, i>>] = NONE

LEMMA DeployInOrder ==
  ASSUME TypeOK, ArgInv, NEW v \in VM, Life(v), Deploy(v)
  PROVE  InOrder(v)
<1> USE DEF TypeOK, AzureTyped, CommandTyped, cloud, NicId, Nic, InOrder
<1>1. CASE \/ Prepare(v) \/ CheckoutAddress(v) \/ PrepareCredentials(v) \/ WaitVm(v) \/ StartScript(v)
           \/ WaitScript(v) \/ ScriptResult(v) \/ ReadDetails(v)
  BY <1>1 DEF Prepare, CheckoutAddress, PrepareCredentials, WaitVm, StartScript, WaitScript,
              ScriptResult, ReadDetails
<1>2. CASE CreateVmNsg(v) \/ CreatePublicIp(v) \/ CreateVm(v) \/ AddInboundRules(v) \/ RollbackVm(v)
  BY <1>2 DEF CreateVmNsg, CreatePublicIp, CreateVm, AddInboundRules, RollbackVm, MayAdd
<1>3. CASE CreateNic(v)
  <2>1. arg[v] # NONE /\ UNCHANGED <<pubIps, nsgs>>
    BY <1>3, ValuesAssumption DEF CreateNic, ArgInv
  <2>2. \A i \in NicIndex : nicAddr'[<<v, i>>] \in {nicAddr[<<v, i>>], arg[v]}
    BY <1>3 DEF CreateNic
  <2> QED
    BY <2>1, <2>2
<1>4. CASE RollbackNic(v)
  BY <1>4 DEF RollbackNic, Life, Unbuilt
<1>5. CASE RollbackPublicIp(v)
  BY <1>5 DEF RollbackPublicIp, Life, Unbuilt, MayRemove
<1>6. CASE RollbackNsg(v)
  BY <1>6 DEF RollbackNsg, Life, Unbuilt, Absent, MayRemove
<1> QED
  BY <1>1, <1>2, <1>3, <1>4, <1>5, <1>6 DEF Deploy

LEMMA DeleteInOrder ==
  ASSUME TypeOK, NEW v \in VM, Life(v), Delete(v)
  PROVE  InOrder(v)
<1> USE DEF cloud, InOrder, Life, Deleted, PastVm, PastNics, PastPubs, PastDisk, PastNsg
<1>1. CASE StartDelete(v) \/ DeleteVm(v) \/ DeleteDisk(v) \/ ReleaseAddresses(v)
  BY <1>1 DEF StartDelete, DeleteVm, DeleteDisk, ReleaseAddresses
<1>2. CASE DeleteNics(v)
  BY <1>2 DEF DeleteNics
<1>3. CASE DeletePublicIps(v)
  BY <1>3 DEF DeletePublicIps
<1>4. CASE DeleteNsgArtifacts(v)
  BY <1>4 DEF DeleteNsgArtifacts
<1> QED
  BY <1>1, <1>2, <1>3, <1>4 DEF Delete

LEMMA OrderStep ==
  ASSUME IInv, LifeInv, [Next]_vars, NEW v \in VM
  PROVE  InOrder(v)
<1> USE DEF IInv, LifeInv
<1>1. CASE Untouched(v)
  BY <1>1 DEF Untouched, InOrder
<1>2. ASSUME NEW u \in VM, Deploy(u) \/ Delete(u)
      PROVE  InOrder(v)
  <2>1. CASE u = v
    BY <1>2, <2>1, DeployInOrder, DeleteInOrder
  <2>2. CASE u # v
    BY <1>1, <1>2, <2>2, DeployOthers, DeleteOthers DEF Life
  <2> QED
    BY <2>1, <2>2
<1>3. CASE \A u \in VM : ~Deploy(u) /\ ~Delete(u)
  <2>1. UNCHANGED <<cloud, pc, req, idx, del>>
    BY <1>3 DEF Next, vars, command, deployCommand, Cancel, ScriptEnds, GetAvailablePrivateIp
  <2> QED
    BY <1>1, <2>1 DEF Untouched, cloud
<1> QED
  BY <1>2, <1>3

(* An interface goes after its machine, a public address after its interface *)
(* and a security group after all interfaces, in rollbacks and deletions.    *)
THEOREM Ordered == Spec => DependencyOrder
<1>1. IInv /\ LifeInv /\ [Next]_vars =>
        [/\ \A n \in NicId :
              /\ nicAddr[n] # NONE /\ nicAddr'[n] = NONE => n[1] \notin vms
              /\ n \in pubIps /\ n \notin pubIps' => nicAddr[n] = NONE
         /\ \A v \in nsgs \ nsgs' : \A n \in NicId : n[1] = v => nicAddr[n] = NONE]_vars
  <2> SUFFICES ASSUME IInv, LifeInv, [Next]_vars, NEW n \in NicId
               PROVE  /\ nicAddr[n] # NONE /\ nicAddr'[n] = NONE => n[1] \notin vms
                      /\ n \in pubIps /\ n \notin pubIps' => nicAddr[n] = NONE
                      /\ n[1] \in nsgs /\ n[1] \notin nsgs' => nicAddr[n] = NONE
    OBVIOUS
  <2> QED
    BY OrderStep, NicNamed DEF InOrder
<1> QED
  BY <1>1, LifeInvariance, PTL DEF Spec, DependencyOrder
-----------------------------------------------------------------------------
(* A command whose cancellation came in time has no way to a deployed        *)
(* machine but the timeout of its script.                                   *)
Doomed(v) ==
  /\ cancelled[v] /\ pc[v] # "idle"
  /\ pc[v] \in {"details", "deployed"} => clock[v] > Timeout

LEMMA StaysDoomed ==
  ASSUME TypeOK, NEW v \in VM, Doomed(v), [Next]_vars
  PROVE  Doomed(v)'
<1> USE DEF Doomed, TypeOK, CommandTyped, ControlTyped, command, script, deployCommand,
            Returns, ReturnsUnlessCancelled,
            Raises, Goto, RetriesOrGivesUp, RetriesConnection, RetriesRetryable, GivesUp, bareCommand
<1>1. CASE UNCHANGED <<pc, cancelled, clock>>
  BY <1>1
<1>2. CASE \E u \in VM \ {v} : Deploy(u)
  <2>1. PICK u \in VM \ {v} : Deploy(u)
    BY <1>2
  <2>2. pc'[v] = pc[v]
    BY <2>1, DeployOthers DEF Untouched
  <2>3. clock'[v] = clock[v] /\ cancelled' = cancelled
    BY <2>1 DEF Deploy, Prepare, CreateVmNsg, CreatePublicIp, CheckoutAddress, CreateNic, AddInboundRules,
                PrepareCredentials, CreateVm, WaitVm, StartScript, WaitScript, ScriptResult, ReadDetails,
                RollbackVm, RollbackNic, RollbackPublicIp, RollbackNsg
  <2> QED
    BY <2>2, <2>3
<1>3. CASE \/ Prepare(v) \/ CreateVmNsg(v) \/ CreatePublicIp(v) \/ CheckoutAddress(v)
           \/ CreateNic(v) \/ AddInboundRules(v) \/ PrepareCredentials(v) \/ CreateVm(v)
  BY <1>3 DEF Prepare, CreateVmNsg, CreatePublicIp, CheckoutAddress, CreateNic, AddInboundRules,
              NextNic, PrepareCredentials, CreateVm
<1>4. CASE WaitVm(v) \/ StartScript(v) \/ WaitScript(v) \/ ScriptResult(v) \/ ReadDetails(v)
  BY <1>4 DEF WaitVm, StartScript, WaitScript, ScriptResult, ReadDetails
<1>5. CASE RollbackVm(v) \/ RollbackNic(v) \/ RollbackPublicIp(v) \/ RollbackNsg(v)
  BY <1>5 DEF RollbackVm, RollbackNic, RollbackPublicIp, RollbackNsg, NextNic
<1>6. CASE \E u \in VM : Cancel(u)
  BY <1>6 DEF Cancel
<1>7. CASE \A u \in VM : ~Deploy(u) /\ ~Cancel(u)
  <2>1. UNCHANGED <<pc, cancelled, clock>>
    BY <1>7 DEF Next, vars, Delete, StartDelete, DeleteVm, DeleteNics, DeletePublicIps, DeleteDisk,
                DeleteNsgArtifacts, ReleaseAddresses, ScriptEnds, GetAvailablePrivateIp
  <2> QED
    BY <1>1, <2>1
<1> QED
  BY <1>2, <1>3, <1>4, <1>5, <1>6, <1>7 DEF Deploy

(* A cancellation that reaches a deployment before its machine is created,   *)
(* or while its script runs, never ends in a deployed machine, unless the    *)
(* script outlived its timeout.                                              *)
THEOREM Honoured == Spec => CancelHonoured
<1>1. ASSUME NEW v \in VM
      PROVE  Spec => [](cancelled[v] /\ pc[v] \in Running \ {"details"}
                          => [](pc[v] = "deployed" => clock[v] > Timeout))
  <2>1. cancelled[v] /\ pc[v] \in Running \ {"details"} => Doomed(v)
    BY DEF Doomed, Running
  <2>2. Doomed(v) => (pc[v] = "deployed" => clock[v] > Timeout)
    BY DEF Doomed
  <2>3. TypeOK /\ Doomed(v) /\ [Next]_vars => Doomed(v)'
    BY StaysDoomed
  <2> QED
    BY <2>1, <2>2, <2>3, TypeCorrect, PTL DEF Spec
<1> QED
  BY <1>1 DEF CancelHonoured
-----------------------------------------------------------------------------
(* How far a deployment is from its end: a step of its own brings it nearer,  *)
(* a retry by the attempt it spends, and no step of anybody else takes it     *)
(* further away.  No bound on the calls that go wrong is used.               *)

Attempts == ConnectionAttempts * RetryableAttempts

(* The calls of a rollback of n interfaces, of one attempt at the script,     *)
(* and of all attempts at one interface, its public address included.        *)
Undo(n) == 2 * n + 2
PerScript == Timeout + 4
PerNic == 2 * Attempts + 2

(* The attempts a retried body has after the present one: as many as its      *)
(* decorators leave it, and create_script_extension has the outer one only.   *)
ConnectionsLeft(v) == ConnectionAttempts - attempt[v].connection
AttemptsLeft(v) ==
  ConnectionsLeft(v) * RetryableAttempts + (RetryableAttempts - attempt[v].retryable)
OnScript == {"script", "wait", "result"}
Left(v) == IF pc[v] \in OnScript THEN ConnectionsLeft(v) ELSE AttemptsLeft(v)

(* The calls that may still follow one, for n interfaces of which i is at     *)
(* hand, c waits for the script and r attempts left: for the script, for the  *)
(* machine, for the interfaces, and for a rollback, which starts anywhere.    *)
Calls(at, n, i, c, r) ==
  LET afterVm   == Undo(n) + ConnectionAttempts * PerScript
      afterNics == afterVm + 2 * Attempts + 1
      afterNic  == afterNics + (n - i) * PerNic
      afterTry  == Undo(n) + r * PerScript
  IN CASE at = "idle"        -> afterNics + n * PerNic + 2
       [] at = "nsg"         -> afterNics + n * PerNic + 1
       [] at = "publicIp"    -> afterNic + 2 * Attempts + 2
       [] at = "checkout"    -> afterNic + 2 * r + 3
       [] at = "nic"         -> afterNic + 2 * r + 2
       [] at = "rules"       -> afterNic + 1
       [] at = "credentials" -> afterNics
       [] at = "vm"          -> afterVm + 2 * r + 2
       [] at = "vmWait"      -> afterVm + 2 * r + 1
       [] at = "script"      -> afterTry + Timeout + 4
       [] at = "wait"        -> afterTry + 2 + (Timeout + 1 - c)
       [] at = "result"      -> afterTry + 1
       [] at = "details"     -> 1
       [] at = "rbVm"        -> Undo(n)
       [] at = "rbNic"       -> 2 * (n - i) + 3
       [] at = "rbIp"        -> 2 * (n - i) + 2
       [] at = "rbNsg"       -> 1
       [] OTHER              -> 0

Remaining(v) == Calls(pc[v], req[v].nics, idx[v], clock[v], Left(v))

LEMMA Times ==
  ASSUME NEW x \in Nat, NEW y \in Nat, NEW w \in Nat, x < y
  PROVE  x * w \in Nat /\ y * w \in Nat /\ x * w + w <= y * w
<1>1. PICK k \in Nat : y = x + k + 1
  <2>1. y - x - 1 \in Nat /\ y = x + (y - x - 1) + 1
    OBVIOUS
  <2> QED
    BY <2>1
<1>2. x * w \in Nat /\ k * w \in Nat
  OBVIOUS
<1>3. (x + k + 1) * w = x * w + k * w + w
  OBVIOUS
<1> QED
  BY <1>1, <1>2, <1>3

LEMMA AttemptNumbers ==
  /\ Attempts \in Nat /\ ConnectionAttempts \in Nat /\ ConnectionAttempts <= Attempts
  /\ PerNic \in Nat /\ PerNic = 2 * Attempts + 2
  /\ PerScript \in Nat /\ Timeout \in Nat /\ PerScript = Timeout + 4
  /\ ConnectionAttempts * PerScript \in Nat
<1>1. /\ ConnectionAttempts \in Nat \ {0} /\ RetryableAttempts \in Nat \ {0} /\ Timeout \in Nat
  BY AttemptsAssumption, ValuesAssumption
<1>2. 0 * ConnectionAttempts + ConnectionAttempts <= RetryableAttempts * ConnectionAttempts
  BY <1>1, Times
<1>3. Attempts \in Nat /\ ConnectionAttempts <= Attempts
  BY <1>1, <1>2 DEF Attempts
<1>4. /\ PerNic \in Nat /\ PerNic = 2 * Attempts + 2
      /\ PerScript \in Nat /\ PerScript = Timeout + 4
  BY <1>1, <1>3 DEF PerNic, PerScript
<1>5. ConnectionAttempts * PerScript \in Nat
  BY <1>1, <1>4
<1> QED
  BY <1>1, <1>3, <1>4, <1>5

(* r attempts may be left at a place.                                        *)
Allowed(at, r) == r \in Nat /\ r < Attempts /\ (at \in OnScript => r < ConnectionAttempts)

LEMMA LeftAllowed ==
  ASSUME TypeOK, NEW v \in VM
  PROVE  /\ Allowed(pc[v], Left(v)) /\ ConnectionsLeft(v) \in Nat /\ AttemptsLeft(v) \in Nat
         /\ attempt[v].connection \in 1..ConnectionAttempts
         /\ attempt[v].retryable \in 1..RetryableAttempts
         /\ ConnectionAttempts \in Nat /\ RetryableAttempts \in Nat
<1>1. /\ attempt[v].connection \in 1..ConnectionAttempts /\ attempt[v].retryable \in 1..RetryableAttempts
      /\ ConnectionAttempts \in Nat /\ RetryableAttempts \in Nat
  BY AttemptsAssumption DEF TypeOK, CommandTyped
<1>2. ConnectionsLeft(v) \in Nat /\ ConnectionsLeft(v) < ConnectionAttempts
  BY <1>1 DEF ConnectionsLeft
<1>3. /\ ConnectionsLeft(v) * RetryableAttempts \in Nat
      /\ ConnectionsLeft(v) * RetryableAttempts + RetryableAttempts <= Attempts
  BY <1>1, <1>2, Times DEF Attempts
<1>4. AttemptsLeft(v) \in Nat /\ AttemptsLeft(v) < Attempts
  BY <1>1, <1>3, AttemptNumbers DEF AttemptsLeft
<1> QED
  BY <1>1, <1>2, <1>4, AttemptNumbers DEF Left, Allowed

(* A retry spends an attempt.                                                *)
LEMMA RetrySpends ==
  ASSUME TypeOK, NEW v \in VM, NEW l
  PROVE  /\ RetriesConnection(v, l) =>
              ConnectionsLeft(v)' = ConnectionsLeft(v) - 1 /\ AttemptsLeft(v)' < AttemptsLeft(v)
         /\ RetriesRetryable(v, l) => AttemptsLeft(v)' < AttemptsLeft(v)
<1> DEFINE k == attempt[v].connection
           m == attempt[v].retryable
<1>1. /\ k \in 1..ConnectionAttempts /\ m \in 1..RetryableAttempts
      /\ ConnectionAttempts \in Nat /\ RetryableAttempts \in Nat
  BY LeftAllowed
<1>2. DOMAIN attempt = VM /\ \A u \in VM : attempt[u] \in [connection: 1..ConnectionAttempts, retryable: 1..RetryableAttempts]
  BY DEF TypeOK, CommandTyped
<1>3. CASE RetriesConnection(v, l)
  <2>1. attempt'[v].connection = k + 1 /\ attempt'[v].retryable = 1 /\ k < ConnectionAttempts
    BY <1>2, <1>3 DEF RetriesConnection, FirstAttempt, TypeOK, CommandTyped
  <2>2. ConnectionsLeft(v)' = ConnectionsLeft(v) - 1
    BY <1>1, <2>1 DEF ConnectionsLeft
  <2>3. ConnectionAttempts - (k + 1) \in Nat /\ ConnectionAttempts - k \in Nat
    BY <1>1, <2>1
  <2>4. /\ (ConnectionAttempts - (k + 1)) * RetryableAttempts \in Nat
        /\ (ConnectionAttempts - k) * RetryableAttempts \in Nat
        /\ (ConnectionAttempts - (k + 1)) * RetryableAttempts + RetryableAttempts
             <= (ConnectionAttempts - k) * RetryableAttempts
    BY <1>1, <2>3, Times
  <2>5. /\ AttemptsLeft(v)' = (ConnectionAttempts - (k + 1)) * RetryableAttempts + (RetryableAttempts - 1)
        /\ AttemptsLeft(v) = (ConnectionAttempts - k) * RetryableAttempts + (RetryableAttempts - m)
    BY <2>1 DEF AttemptsLeft, ConnectionsLeft
  <2> HIDE DEF k, m
  <2>6. AttemptsLeft(v)' < AttemptsLeft(v)
    BY <1>1, <2>4, <2>5
  <2> QED
    BY <1>3, <2>2, <2>6 DEF RetriesConnection, RetriesRetryable
<1>4. CASE RetriesRetryable(v, l)
  <2>1. attempt'[v].connection = k /\ attempt'[v].retryable = m + 1
    BY <1>2, <1>4 DEF RetriesRetryable, TypeOK, CommandTyped
  <2>2. /\ AttemptsLeft(v)' = (ConnectionAttempts - k) * RetryableAttempts + (RetryableAttempts - (m + 1))
        /\ AttemptsLeft(v) = (ConnectionAttempts - k) * RetryableAttempts + (RetryableAttempts - m)
    BY <2>1 DEF AttemptsLeft, ConnectionsLeft
  <2>3. (ConnectionAttempts - k) * RetryableAttempts \in Nat
    BY <1>1
  <2> QED
    BY <1>1, <1>3, <1>4, <2>2, <2>3
<1> QED
  BY <1>3, <1>4

LEMMA Counters ==
  ASSUME TypeOK, NEW v \in VM
  PROVE  /\ req[v].nics \in Nat /\ idx[v] \in 1..req[v].nics /\ clock[v] \in 0..(Timeout + 1)
         /\ req[v].nics <= MaxNics /\ MaxNics \in Nat /\ pc[v] \in DeployPc
         /\ Allowed(pc[v], Left(v))
BY RequestTyped, RequestsAssumption, LeftAllowed DEF TypeOK, CommandTyped, ControlTyped, NicIndex

(* The products in the calls, for whatever is left of each.                  *)
LEMMA Products ==
  ASSUME NEW n \in Nat, NEW i \in 1..n, NEW r \in Nat
  PROVE  /\ n * PerNic \in Nat /\ (n - i) * PerNic \in Nat
         /\ (n - i) * PerNic + PerNic <= n * PerNic
         /\ i < n => (n - (i + 1)) * PerNic + PerNic <= (n - i) * PerNic
         /\ r * PerScript \in Nat
         /\ r < ConnectionAttempts => r * PerScript + PerScript <= ConnectionAttempts * PerScript
         /\ r # 0 => (r - 1) * PerScript \in Nat /\ (r - 1) * PerScript + PerScript <= r * PerScript
<1>1. n - i \in Nat /\ n - i < n
  OBVIOUS
<1>2. (n - i) * PerNic \in Nat /\ n * PerNic \in Nat /\ (n - i) * PerNic + PerNic <= n * PerNic
  BY <1>1, Times, AttemptNumbers
<1>3. ASSUME i < n
      PROVE  (n - (i + 1)) * PerNic + PerNic <= (n - i) * PerNic
  <2>1. n - (i + 1) \in Nat /\ n - (i + 1) < n - i
    BY <1>3
  <2> QED
    BY <1>1, <2>1, Times, AttemptNumbers
<1>4. r * PerScript \in Nat
  BY AttemptNumbers
<1>5. ASSUME r < ConnectionAttempts
      PROVE  r * PerScript + PerScript <= ConnectionAttempts * PerScript
  BY <1>5, Times, AttemptNumbers
<1>6. ASSUME r # 0
      PROVE  (r - 1) * PerScript \in Nat /\ (r - 1) * PerScript + PerScript <= r * PerScript
  <2>1. r - 1 \in Nat /\ r - 1 < r
    BY <1>6
  <2> QED
    BY <2>1, Times, AttemptNumbers
<1> QED
  BY <1>2, <1>3, <1>4, <1>5, <1>6

(* The calls that follow are fewest where the command has ended, and most    *)
(* where it starts.                                                          *)
LEMMA CallBounds ==
  ASSUME NEW at \in DeployPc, NEW n \in Nat, NEW i \in 1..n, NEW c \in 0..(Timeout + 1),
         NEW r, Allowed(at, r)
  PROVE  /\ Calls(at, n, i, c, r) \in Nat
         /\ Calls(at, n, i, c, r) <=
              Undo(n) + ConnectionAttempts * PerScript + 2 * Attempts + n * PerNic + 3
         /\ Calls(at, n, i, c, r) = 0 <=> at \in Ended
<1> DEFINE N == n * PerNic
           M == (n - i) * PerNic
           S == ConnectionAttempts * PerScript
           K == r * PerScript
<1>1. /\ N \in Nat /\ M \in Nat /\ M + PerNic <= N /\ S \in Nat /\ K \in Nat
      /\ r < ConnectionAttempts => K + PerScript <= S
  BY Products, AttemptNumbers DEF Allowed
<1>2. /\ Attempts \in Nat /\ PerNic = 2 * Attempts + 2 /\ PerScript = Timeout + 4 /\ Timeout \in Nat
      /\ r \in Nat /\ r < Attempts /\ (at \in OnScript => r < ConnectionAttempts)
      /\ Undo(n) \in Nat /\ Undo(n) = 2 * n + 2
  BY AttemptNumbers DEF Allowed, Undo
<1>3. CASE at \in {"idle", "nsg", "publicIp", "checkout", "nic", "rules", "credentials"}
  <2> QED
    BY <1>1, <1>2, <1>3 DEF Calls, Ended
<1>4. CASE at \in {"vm", "vmWait", "details"}
  BY <1>1, <1>2, <1>4 DEF Calls, Ended
<1>5. CASE at \in OnScript
  BY <1>1, <1>2, <1>5 DEF Calls, Ended, OnScript
<1>6. CASE at \in RollingBack
  BY <1>1, <1>2, <1>6 DEF Calls, Ended, RollingBack
<1>7. CASE at \in Ended
  BY <1>1, <1>2, <1>7 DEF Calls, Ended
<1> QED
  BY <1>3, <1>4, <1>5, <1>6, <1>7 DEF DeployPc, Running, OnScript

(* A raise leads to the rollback, or out of the command.                     *)
LEMMA RaiseCalls ==
  ASSUME NEW at \in DeployPc \ Ended, NEW n \in Nat, NEW i \in 1..n, NEW j \in 1..n,
         NEW c \in 0..(Timeout + 1), NEW d \in 0..(Timeout + 1), NEW r, Allowed(at, r), NEW q
  PROVE  /\ at \in Running \ {"details"} => Calls("rbVm", n, j, d, q) < Calls(at, n, i, c, r)
         /\ \A l \in Ended : Calls(l, n, j, d, q) < Calls(at, n, i, c, r)
<1>1. at \in Running \ {"details"} => Calls("rbVm", n, j, d, q) < Calls(at, n, i, c, r)
  <2> DEFINE N == n * PerNic
             M == (n - i) * PerNic
             S == ConnectionAttempts * PerScript
             K == r * PerScript
  <2>1. N \in Nat /\ M \in Nat /\ S \in Nat /\ K \in Nat
    BY Products, AttemptNumbers DEF Allowed
  <2>2. /\ Attempts \in Nat /\ Timeout \in Nat /\ r \in Nat /\ Undo(n) \in Nat
    BY AttemptNumbers DEF Allowed, Undo
  <2>3. Calls("rbVm", n, j, d, q) = Undo(n)
    BY DEF Calls
  <2>4. CASE at \in {"nsg", "publicIp", "checkout", "nic", "rules", "credentials"}
    BY <2>1, <2>2, <2>3, <2>4 DEF Calls
  <2>5. CASE at \in {"vm", "vmWait"} \union OnScript
    BY <2>1, <2>2, <2>3, <2>5 DEF Calls, OnScript
  <2> QED
    BY <2>4, <2>5 DEF Running, OnScript
<1>2. ASSUME NEW l \in Ended
      PROVE  Calls(l, n, j, d, q) < Calls(at, n, i, c, r)
  <2>1. Calls(l, n, j, d, q) = 0
    BY DEF Calls, Ended
  <2>2. Calls(at, n, i, c, r) \in Nat /\ Calls(at, n, i, c, r) # 0
    BY CallBounds
  <2> QED
    BY <2>1, <2>2
<1> QED
  BY <1>1, <1>2

(* Going on, or back to the start of a retried body with fewer attempts,     *)
(* leaves fewer calls.                                                       *)
LEMMA NextCalls ==
  ASSUME NEW n \in Nat, NEW i \in 1..n, NEW j \in 1..n, NEW c \in 0..(Timeout + 1),
         NEW d \in 0..(Timeout + 1), NEW r \in Nat, NEW q \in Nat, r < Attempts, q < Attempts
  PROVE  /\ Calls("nsg", n, i, d, q) < Calls("idle", n, i, c, r)
         /\ i = 1 => Calls("publicIp", n, i, d, q) < Calls("nsg", n, i, c, r)
         /\ Calls("checkout", n, i, d, q) < Calls("publicIp", n, i, c, r)
         /\ q = r => Calls("nic", n, i, d, q) < Calls("checkout", n, i, c, r)
         /\ q < r => Calls("checkout", n, i, d, q) < Calls("nic", n, i, c, r)
         /\ Calls("rules", n, i, d, q) < Calls("nic", n, i, c, r)
         /\ i < n => Calls("publicIp", n, i + 1, d, q) < Calls("rules", n, i, c, r)
         /\ Calls("credentials", n, j, d, q) < Calls("rules", n, i, c, r)
         /\ Calls("vm", n, j, d, q) < Calls("credentials", n, i, c, r)
         /\ q = r => Calls("vmWait", n, j, d, q) < Calls("vm", n, i, c, r)
         /\ q < r => Calls("vm", n, j, d, q) < Calls("vm", n, i, c, r)
         /\ q < r => Calls("vm", n, j, d, q) < Calls("vmWait", n, i, c, r)
         /\ q < ConnectionAttempts => Calls("script", n, j, d, q) < Calls("vmWait", n, i, c, r)
         /\ Calls("details", n, j, d, q) < Calls("vmWait", n, i, c, r)
         /\ q = r => Calls("wait", n, j, d, q) < Calls("script", n, i, c, r)
         /\ q = r /\ d >= c + 1 => Calls("wait", n, j, d, q) < Calls("wait", n, i, c, r)
         /\ q = r => Calls("result", n, j, d, q) < Calls("wait", n, i, c, r)
         /\ \A l \in OnScript : /\ Calls("details", n, j, d, q) < Calls(l, n, i, c, r)
                                /\ q = r - 1 => Calls("script", n, j, d, q) < Calls(l, n, i, c, r)
         /\ Calls("rbNic", n, 1, d, q) < Calls("rbVm", n, i, c, r)
         /\ Calls("rbIp", n, i, d, q) < Calls("rbNic", n, i, c, r)
         /\ i < n => Calls("rbNic", n, i + 1, d, q) < Calls("rbIp", n, i, c, r)
         /\ Calls("rbNsg", n, j, d, q) < Calls("rbIp", n, i, c, r)
<1> DEFINE N == n * PerNic
           M == (n - i) * PerNic
           L == (n - (i + 1)) * PerNic
           S == ConnectionAttempts * PerScript
           K == r * PerScript
           Q == q * PerScript
<1>1. N \in Nat /\ M \in Nat /\ S \in Nat /\ K \in Nat /\ Q \in Nat /\ M + PerNic <= N
  BY Products, AttemptNumbers
<1>2. i < n => L + PerNic <= M
  BY Products
<1>3. i = 1 => M + PerNic <= N
  BY <1>1
<1>4. q < ConnectionAttempts => Q + PerScript <= S
  BY Products
<1>5. q = r => Q = K
  OBVIOUS
<1>6. q = r - 1 => Q + PerScript <= K
  <2>1. r # 0 => (r - 1) * PerScript + PerScript <= r * PerScript
    BY Products
  <2>2. q = r - 1 => r # 0
    OBVIOUS
  <2> QED
    BY <2>1, <2>2
<1>7. /\ Attempts \in Nat /\ PerNic = 2 * Attempts + 2 /\ PerScript = Timeout + 4 /\ Timeout \in Nat
      /\ Undo(n) \in Nat /\ Undo(n) = 2 * n + 2
  BY AttemptNumbers DEF Undo
<1>8. /\ Calls("nsg", n, i, d, q) < Calls("idle", n, i, c, r)
      /\ i = 1 => Calls("publicIp", n, i, d, q) < Calls("nsg", n, i, c, r)
      /\ Calls("checkout", n, i, d, q) < Calls("publicIp", n, i, c, r)
      /\ q = r => Calls("nic", n, i, d, q) < Calls("checkout", n, i, c, r)
      /\ q < r => Calls("checkout", n, i, d, q) < Calls("nic", n, i, c, r)
      /\ Calls("rules", n, i, d, q) < Calls("nic", n, i, c, r)
      /\ Calls("credentials", n, j, d, q) < Calls("rules", n, i, c, r)
  BY <1>1, <1>3, <1>7 DEF Calls
<1>9. i < n => Calls("publicIp", n, i + 1, d, q) < Calls("rules", n, i, c, r)
  BY <1>1, <1>2, <1>7 DEF Calls
<1>10. /\ Calls("vm", n, j, d, q) < Calls("credentials", n, i, c, r)
       /\ q = r => Calls("vmWait", n, j, d, q) < Calls("vm", n, i, c, r)
       /\ q < r => Calls("vm", n, j, d, q) < Calls("vm", n, i, c, r)
       /\ q < r => Calls("vm", n, j, d, q) < Calls("vmWait", n, i, c, r)
       /\ Calls("details", n, j, d, q) < Calls("vmWait", n, i, c, r)
  BY <1>1, <1>7 DEF Calls
<1>11. q < ConnectionAttempts => Calls("script", n, j, d, q) < Calls("vmWait", n, i, c, r)
  BY <1>1, <1>4, <1>7 DEF Calls
<1>12. /\ q = r => Calls("wait", n, j, d, q) < Calls("script", n, i, c, r)
       /\ q = r /\ d >= c + 1 => Calls("wait", n, j, d, q) < Calls("wait", n, i, c, r)
       /\ q = r => Calls("result", n, j, d, q) < Calls("wait", n, i, c, r)
  BY <1>1, <1>5, <1>7 DEF Calls
<1>13. ASSUME NEW l \in OnScript
       PROVE  /\ Calls("details", n, j, d, q) < Calls(l, n, i, c, r)
              /\ q = r - 1 => Calls("script", n, j, d, q) < Calls(l, n, i, c, r)
  BY <1>1, <1>6, <1>7, <1>13 DEF Calls, OnScript
<1>14. /\ Calls("rbNic", n, 1, d, q) < Calls("rbVm", n, i, c, r)
       /\ Calls("rbIp", n, i, d, q) < Calls("rbNic", n, i, c, r)
       /\ i < n => Calls("rbNic", n, i + 1, d, q) < Calls("rbIp", n, i, c, r)
       /\ Calls("rbNsg", n, j, d, q) < Calls("rbIp", n, i, c, r)
  BY <1>7 DEF Calls
<1> QED
  BY <1>8, <1>9, <1>10, <1>11, <1>12, <1>13, <1>14

LEMMA StepShrinks ==
  ASSUME TypeOK, TypeOK', NEW v \in VM, Built(v), Deploy(v)
  PROVE  Remaining(v)' < Remaining(v)
<1> DEFINE n == req[v].nics
           i == idx[v]
           j == idx'[v]
           c == clock[v]
           d == clock'[v]
           r == Left(v)
           q == Left(v)'
<1>1. req' = req
  BY DEF Deploy, Prepare, CreateVmNsg, CreatePublicIp, CheckoutAddress, CreateNic, AddInboundRules,
         PrepareCredentials, CreateVm, WaitVm, StartScript, WaitScript, ScriptResult, ReadDetails,
         RollbackVm, RollbackNic, RollbackPublicIp, RollbackNsg, command, bareCommand
<1>2. /\ n \in Nat /\ i \in 1..n /\ c \in 0..(Timeout + 1) /\ pc[v] \in DeployPc /\ Allowed(pc[v], r)
      /\ j \in 1..n /\ d \in 0..(Timeout + 1) /\ Allowed(pc'[v], q)
  <2>1. /\ n \in Nat /\ i \in 1..n /\ c \in 0..(Timeout + 1) /\ pc[v] \in DeployPc /\ Allowed(pc[v], r)
    BY Counters
  <2>2. /\ j \in 1..n /\ d \in 0..(Timeout + 1)
    BY <1>1, <2>1 DEF TypeOK, CommandTyped, NicIndex
  <2>3. Allowed(pc[v], Left(v))'
    BY LeftAllowed, PTL
  <2> QED
    BY <2>1, <2>2, <2>3 DEF Allowed
<1>3. /\ Remaining(v) = Calls(pc[v], n, i, c, r)
      /\ Remaining(v)' = Calls(pc'[v], n, j, d, q)
  BY <1>1 DEF Remaining
<1>4. /\ r \in Nat /\ q \in Nat /\ r < Attempts /\ q < Attempts
      /\ pc'[v] \in OnScript => q < ConnectionAttempts
  BY <1>2 DEF Allowed
<1>5. /\ pc[v] \in OnScript => r = ConnectionsLeft(v)
      /\ pc[v] \notin OnScript => r = AttemptsLeft(v)
      /\ pc'[v] \in OnScript => q = ConnectionsLeft(v)'
      /\ pc'[v] \notin OnScript => q = AttemptsLeft(v)'
  BY DEF Left
<1>6. attempt' = attempt => ConnectionsLeft(v)' = ConnectionsLeft(v) /\ AttemptsLeft(v)' = AttemptsLeft(v)
  BY DEF ConnectionsLeft, AttemptsLeft
<1> HIDE DEF n, i, j, c, d, r, q
<1>7. ASSUME pc[v] \in Running \ {"details"}, pc'[v] = "rbVm"
      PROVE  Remaining(v)' < Remaining(v)
  <2>1. pc[v] \in DeployPc \ Ended
    BY <1>7 DEF DeployPc, Running, Ended
  <2> QED
    BY <1>2, <1>3, <1>7, <2>1, RaiseCalls
<1>8. ASSUME pc[v] \notin Ended, pc'[v] \in Ended
      PROVE  Remaining(v)' < Remaining(v)
  BY <1>2, <1>3, <1>8, RaiseCalls
<1> USE DEF TypeOK, ControlTyped, Returns, ReturnsUnlessCancelled, Raises, Goto, command
<1>9. CASE Prepare(v) \/ CreateVmNsg(v)
  <2>1. /\ j = i
        /\ \/ pc[v] = "idle" /\ pc'[v] \in {"nsg", "rejected"}
           \/ pc[v] = "nsg" /\ i = 1 /\ pc'[v] \in {"publicIp", "rbVm"}
    BY <1>9 DEF Prepare, CreateVmNsg, Built, i, j
  <2> QED
    BY <1>2, <1>3, <1>4, <1>7, <1>8, <2>1, NextCalls, SMTT(30) DEF Ended, Running
<1>10. CASE CreatePublicIp(v)
  <2>1. j = i /\ pc[v] = "publicIp" /\ pc'[v] \in {"checkout", "rbVm"}
    BY <1>10 DEF CreatePublicIp, i, j
  <2> QED
    BY <1>2, <1>3, <1>4, <1>7, <2>1, NextCalls DEF Running
<1>11. CASE CheckoutAddress(v)
  <2>1. /\ j = i /\ pc[v] = "checkout"
        /\ pc'[v] = "rbVm" \/ (pc'[v] = "nic" /\ attempt' = attempt)
    BY <1>11 DEF CheckoutAddress, GivesUp, i, j
  <2>2. pc'[v] = "nic" => q = r
    BY <1>5, <1>6, <2>1 DEF OnScript
  <2> QED
    BY <1>2, <1>3, <1>4, <1>7, <2>1, <2>2, NextCalls DEF Running
<1>12. CASE CreateNic(v)
  <2>1. /\ j = i /\ pc[v] = "nic"
        /\ \/ pc'[v] \in {"rules", "rbVm"}
           \/ pc'[v] = "checkout" /\ RetriesConnection(v, "checkout")
           \/ pc'[v] = "checkout" /\ RetriesRetryable(v, "checkout")
    BY <1>12 DEF CreateNic, RetriesOrGivesUp, RetriesConnection, RetriesRetryable, GivesUp, i, j
  <2>2. pc'[v] = "checkout" => q < r
    BY <1>5, <2>1, RetrySpends DEF OnScript
  <2> QED
    BY <1>2, <1>3, <1>4, <1>7, <2>1, <2>2, NextCalls DEF Running
<1>13. CASE AddInboundRules(v)
  <2>1. /\ pc[v] = "rules"
        /\ \/ pc'[v] \in {"credentials", "rbVm"}
           \/ pc'[v] = "publicIp" /\ i < n /\ j = i + 1
    BY <1>13 DEF AddInboundRules, NextNic, CommandTyped, i, j, n
  <2> QED
    BY <1>2, <1>3, <1>4, <1>7, <2>1, NextCalls DEF Running
<1>14. CASE PrepareCredentials(v)
  <2>1. pc[v] = "credentials" /\ pc'[v] \in {"vm", "rbVm"}
    BY <1>14 DEF PrepareCredentials
  <2> QED
    BY <1>2, <1>3, <1>4, <1>7, <2>1, NextCalls DEF Running
<1>15. CASE CreateVm(v)
  <2>1. /\ pc[v] = "vm"
        /\ \/ pc'[v] = "rbVm"
           \/ pc'[v] = "vmWait" /\ attempt' = attempt
           \/ pc'[v] = "vm" /\ RetriesConnection(v, "vm")
           \/ pc'[v] = "vm" /\ RetriesRetryable(v, "vm")
    BY <1>15 DEF CreateVm, RetriesOrGivesUp, RetriesConnection, RetriesRetryable, GivesUp
  <2>2. /\ pc'[v] = "vmWait" => q = r
        /\ pc'[v] = "vm" => q < r
    BY <1>5, <1>6, <2>1, RetrySpends DEF OnScript
  <2> QED
    BY <1>2, <1>3, <1>4, <1>7, <2>1, <2>2, NextCalls DEF Running
<1>16. CASE WaitVm(v)
  <2>1. /\ pc[v] = "vmWait"
        /\ \/ pc'[v] \in {"script", "details", "rbVm"}
           \/ pc'[v] = "vm" /\ RetriesConnection(v, "vm")
           \/ pc'[v] = "vm" /\ RetriesRetryable(v, "vm")
    BY <1>16 DEF WaitVm, AfterVm, RetriesOrGivesUp, RetriesConnection, RetriesRetryable, GivesUp
  <2>2. /\ pc'[v] = "vm" => q < r
        /\ pc'[v] = "script" => q < ConnectionAttempts
    BY <1>4, <1>5, <2>1, RetrySpends DEF OnScript
  <2> QED
    BY <1>2, <1>3, <1>4, <1>7, <2>1, <2>2, NextCalls DEF Running
<1>17. CASE StartScript(v) \/ WaitScript(v) \/ ScriptResult(v)
  <2>1. /\ pc[v] \in OnScript
        /\ \/ pc'[v] \in {"details", "rbVm"}
           \/ pc'[v] = "script" /\ RetriesConnection(v, "script")
           \/ pc[v] = "script" /\ pc'[v] = "wait" /\ attempt' = attempt
           \/ pc[v] = "wait" /\ pc'[v] = "wait" /\ d >= c + 1 /\ attempt' = attempt
           \/ pc[v] = "wait" /\ pc'[v] = "result" /\ attempt' = attempt
    <3>1. CASE StartScript(v)
      BY <3>1 DEF StartScript, RetriesConnection, GivesUp, OnScript
    <3>2. CASE WaitScript(v)
      <4>1. ASSUME NEW now \in (clock[v] + 1)..(Timeout + 1), clock' = [clock EXCEPT ![v] = now]
            PROVE  d >= c + 1
        BY <4>1, <1>2 DEF CommandTyped, c, d
      <4> QED
        BY <3>2, <4>1 DEF WaitScript, RetriesConnection, GivesUp, OnScript
    <3>3. CASE ScriptResult(v)
      BY <3>3 DEF ScriptResult, RetriesConnection, GivesUp, OnScript
    <3> QED
      BY <1>17, <3>1, <3>2, <3>3
  <2>2. /\ RetriesConnection(v, "script") /\ pc'[v] = "script" => q = r - 1
        /\ pc'[v] \in OnScript /\ attempt' = attempt => q = r
    BY <1>5, <1>6, <2>1, RetrySpends DEF OnScript
  <2> QED
    BY <1>2, <1>3, <1>4, <1>7, <2>1, <2>2, NextCalls, SMTT(30) DEF Running, OnScript
<1>18. CASE ReadDetails(v) \/ RollbackNsg(v)
  <2>1. pc'[v] \in Ended /\ pc[v] \notin Ended
    BY <1>18 DEF ReadDetails, RollbackNsg, Ended
  <2> QED
    BY <1>8, <2>1
<1>19. CASE RollbackVm(v)
  <2>1. j = 1 /\ pc[v] = "rbVm" /\ (pc'[v] = "rbNic" \/ pc'[v] \in Ended)
    BY <1>19 DEF RollbackVm, CommandTyped, Ended, j
  <2> QED
    BY <1>2, <1>3, <1>4, <1>8, <2>1, NextCalls DEF Ended
<1>20. CASE RollbackNic(v)
  <2>1. j = i /\ pc[v] = "rbNic" /\ (pc'[v] = "rbIp" \/ pc'[v] \in Ended)
    BY <1>20 DEF RollbackNic, Ended, i, j
  <2> QED
    BY <1>2, <1>3, <1>4, <1>8, <2>1, NextCalls DEF Ended
<1>21. CASE RollbackPublicIp(v)
  <2>1. /\ pc[v] = "rbIp"
        /\ \/ pc'[v] = "rbNic" /\ i < n /\ j = i + 1
           \/ pc'[v] = "rbNsg"
           \/ pc'[v] \in Ended
    BY <1>21 DEF RollbackPublicIp, NextNic, CommandTyped, Ended, i, j, n
  <2> QED
    BY <1>2, <1>3, <1>4, <1>8, <2>1, NextCalls DEF Ended
<1> QED
  BY <1>9, <1>10, <1>11, <1>12, <1>13, <1>14, <1>15, <1>16, <1>17, <1>18, <1>19, <1>20, <1>21
  DEF Deploy

LEMMA OthersStay ==
  ASSUME TypeOK, NEW v \in VM, [Next]_vars, ~Deploy(v)
  PROVE  Remaining(v)' = Remaining(v)
<1>1. CASE UNCHANGED <<pc, req, idx, clock, attempt>>
  BY <1>1 DEF Remaining, Left, ConnectionsLeft, AttemptsLeft
<1>2. ASSUME NEW u \in VM \ {v}, Deploy(u)
      PROVE  Remaining(v)' = Remaining(v)
  <2>1. clock'[v] = clock[v]
    BY <1>2 DEF Deploy, Prepare, CreateVmNsg, CreatePublicIp, CheckoutAddress, CreateNic, AddInboundRules,
                PrepareCredentials, CreateVm, WaitVm, StartScript, WaitScript, ScriptResult,
                ReadDetails, RollbackVm, RollbackNic, RollbackPublicIp, RollbackNsg, script,
                TypeOK, CommandTyped
  <2>2. attempt'[v] = attempt[v]
    <3>1. UNCHANGED attempt \/ Leaves(u) \/ \E l : RetriesConnection(u, l) \/ RetriesRetryable(u, l)
      BY <1>2 DEF Deploy, Prepare, CreateVmNsg, CreatePublicIp, CheckoutAddress, CreateNic, AddInboundRules,
                PrepareCredentials, CreateVm, WaitVm, StartScript, WaitScript, ScriptResult,
                ReadDetails, RollbackVm, RollbackNic, RollbackPublicIp, RollbackNsg, command,
                RetriesOrGivesUp, GivesUp
    <3> QED
      BY <1>2, <3>1 DEF Leaves, RetriesConnection, RetriesRetryable, TypeOK, CommandTyped
  <2>3. pc'[v] = pc[v] /\ idx'[v] = idx[v] /\ req' = req
    BY <1>2, DeployOthers DEF Untouched
  <2> QED
    BY <2>1, <2>2, <2>3 DEF Remaining, Left, ConnectionsLeft, AttemptsLeft
<1>3. ASSUME NEW u \in VM, Delete(u)
      PROVE  UNCHANGED <<pc, req, idx, clock, attempt>>
  BY <1>3 DEF Delete, StartDelete, DeleteVm, DeleteNics, DeletePublicIps, DeleteDisk, DeleteNsgArtifacts,
              ReleaseAddresses, deployCommand, command, script
<1>4. CASE \A u \in VM : ~Deploy(u) /\ ~Delete(u)
  BY <1>1, <1>4 DEF Next, vars, Cancel, ScriptEnds, GetAvailablePrivateIp, deployCommand, command, script
<1> QED
  BY <1>1, <1>2, <1>3, <1>4

(* The calls a command still has before it, its retries and its rollback      *)
(* included, are bounded whatever goes wrong and how often: by the subnets,   *)
(* each with the attempts of create_nic; by the attempts of _create_vm; by    *)
(* the waits of the script's timeout, for each attempt of                    *)
(* create_script_extension anew; and none is left only where it has ended.    *)
DistanceBounded ==
  \A v \in VM :
    /\ Remaining(v) \in 0..((2 * Attempts + 4) * MaxNics + ConnectionAttempts * (Timeout + 4)
                             + 2 * Attempts + 5)
    /\ Remaining(v) = 0 => pc[v] \in Ended

THEOREM DeploysBounded == Spec => []DistanceBounded
<1>1. TypeOK => DistanceBounded
  <2> SUFFICES ASSUME TypeOK, NEW v \in VM
               PROVE  /\ Remaining(v) \in 0..((2 * Attempts + 4) * MaxNics
                                + ConnectionAttempts * (Timeout + 4) + 2 * Attempts + 5)
                      /\ Remaining(v) = 0 => pc[v] \in Ended
    BY DEF DistanceBounded
  <2> DEFINE n == req[v].nics
  <2>1. /\ Remaining(v) \in Nat
        /\ Remaining(v) <= Undo(n) + ConnectionAttempts * PerScript + 2 * Attempts + n * PerNic + 3
        /\ Remaining(v) = 0 => pc[v] \in Ended
    BY Counters, CallBounds DEF Remaining
  <2>2. n \in Nat /\ n <= MaxNics /\ MaxNics \in Nat
    BY Counters
  <2> HIDE DEF n
  <2>3. n * PerNic \in Nat /\ MaxNics * PerNic \in Nat /\ n * PerNic <= MaxNics * PerNic
    <3>1. n < MaxNics => n * PerNic + PerNic <= MaxNics * PerNic
      BY <2>2, Times, AttemptNumbers
    <3> QED
      BY <2>2, <3>1, AttemptNumbers
  <2>4. MaxNics * PerNic + 2 * MaxNics = (2 * Attempts + 4) * MaxNics
    BY <2>2, AttemptNumbers
  <2>5. ConnectionAttempts * PerScript = ConnectionAttempts * (Timeout + 4)
    BY DEF PerScript
  <2>6. (2 * Attempts + 4) * MaxNics \in Nat /\ ConnectionAttempts * (Timeout + 4) \in Nat
    BY <2>2, <2>5, AttemptNumbers
  <2> QED
    BY <2>1, <2>2, <2>3, <2>4, <2>5, <2>6, AttemptNumbers DEF Undo
<1> QED
  BY <1>1, TypeCorrect, PTL

LEMMA RemainingTyped == ASSUME TypeOK, NEW v \in VM PROVE Remaining(v) \in Nat
BY Counters, CallBounds DEF Remaining

(* Every step of a deployment leaves it fewer calls than before, also one    *)
(* that retries and starts a timeout anew, and no step of another command    *)
(* gives it more: with the bound above, a command that keeps running ends.   *)
DistanceShrinks ==
  \A v \in VM : /\ Remaining(v)' <= Remaining(v)
               /\ Deploy(v) => Remaining(v)' < Remaining(v)

THEOREM DeploysProgress == Spec => [][DistanceShrinks]_vars
<1>1. TypeOK /\ TypeOK' /\ LifeInv /\ [Next]_vars => [DistanceShrinks]_vars
  <2> SUFFICES ASSUME TypeOK, TypeOK', LifeInv, [Next]_vars, NEW v \in VM
               PROVE  /\ Remaining(v)' <= Remaining(v)
                      /\ Deploy(v) => Remaining(v)' < Remaining(v)
    BY DEF DistanceShrinks
  <2>1. Remaining(v) \in Nat /\ Remaining(v)' \in Nat
    <3>1. (Remaining(v) \in Nat)'
      BY RemainingTyped, PTL
    <3> QED
      BY <3>1, RemainingTyped
  <2>2. CASE Deploy(v)
    BY <2>1, <2>2, StepShrinks DEF LifeInv, Life
  <2>3. CASE ~Deploy(v)
    BY <2>1, <2>3, OthersStay
  <2> QED
    BY <2>2, <2>3
<1> QED
  BY <1>1, TypeCorrect, LifeInvariance, PTL DEF Spec
=============================================================================
