--------------------------- MODULE DeployVmProofs ---------------------------
(* The addresses of a sandbox's machines, for any machines, pool, requests   *)
(* and number of faults.                                                    *)
EXTENDS DeployVm, TLAPS

(* A command that is about to PUT an interface has an address.              *)
ArgInv == \A v \in VM : pc[v] = "nic" => arg[v] \in IP \union {DYNAMIC}

(* Between checkout and PUT a pool address is leased and on no interface.   *)
CheckedOutInv ==
  \A v \in VM : pc[v] = "nic" /\ arg[v] \in IP =>
    lessee[arg[v]] = v /\ \A n \in NicId : nicAddr[n] # arg[v]

(* Only a machine whose deployment succeeded is ever deleted.               *)
DeleteAfterDeploy == \A v \in VM : del[v].pc # "none" => pc[v] = "deployed"

NicsLeft == {"vm", "nics"}
NicsGone == {"pubs", "disk", "nsg", "release"}

(* What a deletion will release is still leased to its machine ...          *)
SnapshotLeased ==
  \A v \in VM : del[v].pc \in NicsLeft \union NicsGone =>
    \A a \in del[v].ips : lessee[a] = v

(* ... and on the interfaces it deletes first, then on none.                *)
SnapshotCovered ==
  \A v \in VM, n \in NicId : nicAddr[n] \in del[v].ips =>
    /\ del[v].pc \in NicsLeft => n \in del[v].nics
    /\ del[v].pc \notin NicsGone

IInv == /\ TypeOK /\ ArgInv /\ CheckedOutInv /\ AddressesExclusive
        /\ DeleteAfterDeploy /\ SnapshotLeased /\ SnapshotCovered
-----------------------------------------------------------------------------
(* Types.                                                                   *)
USE DEF NicId

LEMMA RequestTyped ==
  ASSUME TypeOK, NEW v \in VM
  PROVE  /\ req[v].nics \in NicIndex
         /\ req[v].public \subseteq NicIndex
         /\ req[v].addPublicIp \in BOOLEAN
BY RequestsAssumption DEF TypeOK, CommandTyped, RequestType, NicIndex

LEMMA NicTyped ==
  ASSUME TypeOK, NEW v \in VM
  PROVE  Nic(v) \in NicId /\ NicsOf(v) \subseteq NicId
<1>1. idx[v] \in NicIndex /\ req[v].nics \in NicIndex
  BY RequestTyped DEF TypeOK, CommandTyped
<1>2. MaxNics \in Nat
  BY RequestsAssumption
<1> QED
  BY <1>1, <1>2 DEF Nic, NicsOf, NicIndex

(* However a call ends, the command goes on at a known step.                *)
LEMMA ControlStep ==
  ASSUME ControlTyped, NEW v \in VM, NEW l \in DeployPc,
         \/ Returns(v, l) \/ Raises(v, l) \/ ReturnsUnlessCancelled(v, l)
         \/ RetriesOrGivesUp(v, l) \/ RetriesConnection(v, l) \/ GivesUp(v)
  PROVE  ControlTyped'
<1>1. "rbVm" \in DeployPc
  BY DEF DeployPc, RollingBack
<1>2. CASE Returns(v, l) \/ Raises(v, l)
  BY <1>2 DEF ControlTyped, Returns, Raises, Fault, Goto
<1>3. CASE Returns(v, "rbVm") \/ Raises(v, "rbVm")
  BY <1>1, <1>3 DEF ControlTyped, Returns, Raises, Fault, Goto
<1> QED
  BY <1>2, <1>3 DEF ReturnsUnlessCancelled, RetriesOrGivesUp, RetriesConnection, RetriesRetryable, GivesUp

AttemptType == [connection: 1..ConnectionAttempts, retryable: 1..RetryableAttempts]

(* A retried body never runs more often than its decorators allow.          *)
LEMMA AttemptStep ==
  ASSUME TypeOK, NEW v \in VM, NEW l,
         \/ UNCHANGED attempt \/ Leaves(v) \/ GivesUp(v)
         \/ RetriesOrGivesUp(v, l) \/ RetriesConnection(v, l)
  PROVE  attempt' \in [VM -> AttemptType]
<1>1. attempt \in [VM -> AttemptType] /\ FirstAttempt \in AttemptType
  BY AttemptsAssumption DEF TypeOK, CommandTyped, AttemptType, FirstAttempt
<1>2. CASE UNCHANGED attempt \/ Leaves(v) \/ GivesUp(v)
  BY <1>1, <1>2 DEF Leaves, GivesUp
<1>3. CASE RetriesConnection(v, l)
  <2>1. [FirstAttempt EXCEPT !.connection = attempt[v].connection + 1] \in AttemptType
    BY <1>1, <1>3, AttemptsAssumption DEF RetriesConnection, AttemptType
  <2> QED
    BY <1>1, <1>3, <2>1 DEF RetriesConnection
<1>4. CASE RetriesRetryable(v, l)
  <2>1. [attempt[v] EXCEPT !.retryable = @ + 1] \in AttemptType
    BY <1>1, <1>4, AttemptsAssumption DEF RetriesRetryable, AttemptType
  <2> QED
    BY <1>1, <1>4, <2>1 DEF RetriesRetryable
<1> QED
  BY <1>2, <1>3, <1>4 DEF RetriesOrGivesUp

(* A loop over the requested interfaces stays within them.                  *)
LEMMA NextNicTyped ==
  ASSUME TypeOK, NEW v \in VM, NEW again \in DeployPc, NEW done \in DeployPc,
         NextNic(v, again, done)
  PROVE  /\ ControlTyped'
         /\ idx' \in [VM -> NicIndex] /\ \A u \in VM : idx'[u] <= req[u].nics
<1>1. ControlTyped'
  BY ControlStep DEF TypeOK, NextNic
<1>2. CASE idx' = idx
  BY <1>1, <1>2 DEF TypeOK, CommandTyped
<1>3. CASE idx[v] < req[v].nics /\ idx' = [idx EXCEPT ![v] = @ + 1]
  <2>1. idx[v] \in Nat /\ req[v].nics \in 1..MaxNics /\ MaxNics \in Nat
    BY RequestTyped, RequestsAssumption DEF TypeOK, CommandTyped, NicIndex
  <2>2. idx[v] + 1 \in NicIndex /\ idx[v] + 1 <= req[v].nics
    BY <1>3, <2>1 DEF TypeOK, CommandTyped, NicIndex
  <2>3. idx' = [idx EXCEPT ![v] = idx[v] + 1]
    BY <1>3
  <2> QED
    BY <1>1, <2>2, <2>3 DEF TypeOK, CommandTyped
<1> QED
  BY <1>1, <1>2, <1>3 DEF NextNic

(* The wait for a script stops counting when its deadline has passed.       *)
LEMMA WaitClock ==
  ASSUME TypeOK, NEW v \in VM, WaitScript(v)
  PROVE  CommandTyped'
<1>1. UNCHANGED <<req, idx, arg, ips, cancelled, extension>>
  BY DEF WaitScript, bareCommand
<1>3. attempt' \in [VM -> AttemptType]
  BY AttemptStep DEF WaitScript
<1>2. clock' \in [VM -> 0..(Timeout + 1)]
  <2>1. clock \in [VM -> 0..(Timeout + 1)] /\ Timeout \in Nat
    BY ValuesAssumption DEF TypeOK, CommandTyped
  <2>2. CASE clock' = clock
    BY <2>1, <2>2
  <2>3. CASE \E now \in (clock[v] + 1)..(Timeout + 1) : clock' = [clock EXCEPT ![v] = now]
    <3>1. PICK now \in (clock[v] + 1)..(Timeout + 1) : clock' = [clock EXCEPT ![v] = now]
      BY <2>3
    <3>2. now \in 0..(Timeout + 1)
      BY <2>1, <3>1
    <3> QED
      BY <2>1, <3>1, <3>2
  <2> QED
    BY <2>2, <2>3 DEF WaitScript
<1> QED
  BY <1>1, <1>2, <1>3 DEF TypeOK, CommandTyped, AttemptType

LEMMA DeployTyped ==
  ASSUME TypeOK, ArgInv, NEW v \in VM, Deploy(v)
  PROVE  TypeOK'
<1> USE DEF TypeOK, script, CheckoutFromPool
<1>0. idx[v] \in 0..MaxNics /\ 0 \in 0..MaxNics
  BY RequestsAssumption DEF CommandTyped, NicIndex
<1>1. CASE Prepare(v)
  <2>1. ControlTyped'
    BY <1>1, ControlStep DEF Prepare, DeployPc, Running, RollingBack, Ended
  <2>2. AzureTyped'
    BY <1>1 DEF Prepare, AzureTyped, cloud
  <2>3. CommandTyped'
    BY <1>1 DEF Prepare, CommandTyped, command
  <2>4. lessee' \in [IP -> VM \union {NONE, USER}] /\ del' = del
    BY <1>1 DEF Prepare
  <2> QED
    BY <2>1, <2>2, <2>3, <2>4
<1>2. CASE CreateVmNsg(v)
  <2>1. ControlTyped'
    BY <1>2, ControlStep DEF CreateVmNsg, DeployPc, Running, RollingBack, Ended
  <2>2. AzureTyped'
    BY <1>2 DEF CreateVmNsg, AzureTyped, MayAdd
  <2>3. CommandTyped'
    BY <1>2 DEF CreateVmNsg, CommandTyped, command
  <2>4. lessee' \in [IP -> VM \union {NONE, USER}] /\ del' = del
    BY <1>2 DEF CreateVmNsg
  <2> QED
    BY <2>1, <2>2, <2>3, <2>4
<1>3. CASE CreatePublicIp(v)
  <2>1. ControlTyped'
    BY <1>3, ControlStep DEF CreatePublicIp, DeployPc, Running, RollingBack, Ended
  <2>2. AzureTyped'
    BY <1>3, NicTyped DEF CreatePublicIp, AzureTyped, MayAdd
  <2>3. CommandTyped'
    BY <1>3 DEF CreatePublicIp, CommandTyped, command
  <2>4. lessee' \in [IP -> VM \union {NONE, USER}] /\ del' = del
    BY <1>3 DEF CreatePublicIp
  <2> QED
    BY <2>1, <2>2, <2>3, <2>4
<1>4. CASE CheckoutAddress(v)
  <2>1. ControlTyped'
    BY <1>4, ControlStep DEF CheckoutAddress, DeployPc, Running, RollingBack
  <2>2. AzureTyped'
    BY <1>4 DEF CheckoutAddress, AzureTyped, cloud
  <2>3. CommandTyped'
    <3>1. attempt' \in [VM -> AttemptType]
      BY <1>4, AttemptStep DEF CheckoutAddress
    <3> QED
      BY <1>4, <3>1 DEF CheckoutAddress, CommandTyped, AttemptType
  <2>4. lessee' \in [IP -> VM \union {NONE, USER}] /\ del' = del
    BY <1>4 DEF CheckoutAddress
  <2> QED
    BY <2>1, <2>2, <2>3, <2>4
<1>5. CASE CreateNic(v)
  <2>1. ControlTyped'
    BY <1>5, ControlStep DEF CreateNic, DeployPc, Running, RollingBack, Ended
  <2>2. AzureTyped'
    BY <1>5, NicTyped DEF CreateNic, AzureTyped, ArgInv
  <2>3. CommandTyped'
    <3>1. attempt' \in [VM -> AttemptType]
      BY <1>5, AttemptStep DEF CreateNic
    <3>2. ips' \in [VM -> SUBSET (IP \union {DYNAMIC})]
      BY <1>5 DEF CreateNic, CommandTyped, ArgInv
    <3>3. UNCHANGED <<req, idx, arg, cancelled, extension, clock>>
      BY <1>5 DEF CreateNic
    <3> QED
      BY <3>1, <3>2, <3>3 DEF CommandTyped, AttemptType
  <2>4. lessee' \in [IP -> VM \union {NONE, USER}] /\ del' = del
    BY <1>5 DEF CreateNic
  <2> QED
    BY <2>1, <2>2, <2>3, <2>4
<1>6. CASE AddInboundRules(v)
  <2>1. ControlTyped'
    BY <1>6, ControlStep, NextNicTyped DEF AddInboundRules, DeployPc, Running, RollingBack, Ended
  <2>2. AzureTyped'
    BY <1>6, <1>0 DEF AddInboundRules, AzureTyped
  <2>3. CommandTyped'
    BY <1>6, NextNicTyped DEF AddInboundRules, CommandTyped, DeployPc, Running, RollingBack
  <2>4. lessee' \in [IP -> VM \union {NONE, USER}] /\ del' = del
    BY <1>6 DEF AddInboundRules
  <2> QED
    BY <2>1, <2>2, <2>3, <2>4
<1>7. CASE PrepareCredentials(v)
  <2>1. ControlTyped'
    BY <1>7, ControlStep DEF PrepareCredentials, DeployPc, Running, RollingBack, Ended
  <2>2. AzureTyped'
    BY <1>7 DEF PrepareCredentials, AzureTyped, cloud
  <2>3. CommandTyped'
    BY <1>7 DEF PrepareCredentials, CommandTyped, command
  <2>4. lessee' \in [IP -> VM \union {NONE, USER}] /\ del' = del
    BY <1>7 DEF PrepareCredentials
  <2> QED
    BY <2>1, <2>2, <2>3, <2>4
<1>8. CASE CreateVm(v)
  <2>1. ControlTyped'
    BY <1>8, ControlStep DEF CreateVm, DeployPc, Running, RollingBack, Ended
  <2>2. AzureTyped'
    BY <1>8 DEF CreateVm, VmAndDisk, AzureTyped
  <2>3. CommandTyped'
    <3>1. attempt' \in [VM -> AttemptType]
      BY <1>8, AttemptStep DEF CreateVm
    <3> QED
      BY <1>8, <3>1 DEF CreateVm, CommandTyped, AttemptType, bareCommand
  <2>4. lessee' \in [IP -> VM \union {NONE, USER}] /\ del' = del
    BY <1>8 DEF CreateVm
  <2> QED
    BY <2>1, <2>2, <2>3, <2>4
<1>8a. CASE WaitVm(v)
  <2>1. ControlTyped'
    BY <1>8a, ControlStep DEF WaitVm, AfterVm, DeployPc, Running, RollingBack, Ended
  <2>2. AzureTyped'
    BY <1>8a DEF WaitVm, AzureTyped, cloud
  <2>3. CommandTyped'
    <3>1. attempt' \in [VM -> AttemptType]
      BY <1>8a, AttemptStep DEF WaitVm
    <3> QED
      BY <1>8a, <3>1 DEF WaitVm, CommandTyped, AttemptType, bareCommand
  <2>4. lessee' \in [IP -> VM \union {NONE, USER}] /\ del' = del
    BY <1>8a DEF WaitVm
  <2> QED
    BY <2>1, <2>2, <2>3, <2>4
<1>9a. CASE StartScript(v)
  <2>1. ControlTyped'
    BY <1>9a, ControlStep DEF StartScript, DeployPc, Running, RollingBack, Ended
  <2>2. AzureTyped'
    BY <1>9a DEF StartScript, AzureTyped, cloud
  <2>3. CommandTyped'
    <3>1. attempt' \in [VM -> AttemptType]
      BY <1>9a, AttemptStep DEF StartScript
    <3>2. 0 \in 0..(Timeout + 1)
      BY ValuesAssumption
    <3>3. /\ extension' \in [VM -> {"none", "running", "ended"}]
          /\ clock' \in [VM -> 0..(Timeout + 1)]
      <4>1. CASE UNCHANGED script
        BY <4>1 DEF script, CommandTyped
      <4>2. CASE /\ extension' = [extension EXCEPT ![v] = "running"]
                 /\ clock' = [clock EXCEPT ![v] = 0]
        BY <3>2, <4>2 DEF CommandTyped
      <4> QED
        BY <1>9a, <4>1, <4>2 DEF StartScript
    <3>4. UNCHANGED <<req, idx, arg, ips, cancelled>>
      BY <1>9a DEF StartScript, bareCommand
    <3> QED
      BY <3>1, <3>3, <3>4 DEF CommandTyped, AttemptType
  <2>4. lessee' \in [IP -> VM \union {NONE, USER}] /\ del' = del
    BY <1>9a DEF StartScript
  <2> QED
    BY <2>1, <2>2, <2>3, <2>4
<1>9b. CASE WaitScript(v)
  <2>1. ControlTyped'
    BY <1>9b, ControlStep DEF WaitScript, DeployPc, Running, RollingBack, Ended
  <2>2. AzureTyped'
    BY <1>9b DEF WaitScript, AzureTyped, cloud
  <2>3. CommandTyped'
    BY <1>9b, WaitClock DEF CommandTyped
  <2>4. lessee' \in [IP -> VM \union {NONE, USER}] /\ del' = del
    BY <1>9b DEF WaitScript
  <2> QED
    BY <2>1, <2>2, <2>3, <2>4
<1>9c. CASE ScriptResult(v)
  <2>1. ControlTyped'
    BY <1>9c, ControlStep DEF ScriptResult, DeployPc, Running, RollingBack, Ended
  <2>2. AzureTyped'
    BY <1>9c DEF ScriptResult, AzureTyped, cloud
  <2>3. CommandTyped'
    <3>1. attempt' \in [VM -> AttemptType]
      BY <1>9c, AttemptStep DEF ScriptResult
    <3> QED
      BY <1>9c, <3>1 DEF ScriptResult, CommandTyped, AttemptType, bareCommand
  <2>4. lessee' \in [IP -> VM \union {NONE, USER}] /\ del' = del
    BY <1>9c DEF ScriptResult
  <2> QED
    BY <2>1, <2>2, <2>3, <2>4
<1>10. CASE ReadDetails(v)
  <2>1. ControlTyped'
    BY <1>10, ControlStep DEF ReadDetails, DeployPc, Running, RollingBack, Ended
  <2>2. AzureTyped'
    BY <1>10 DEF ReadDetails, AzureTyped, cloud
  <2>3. CommandTyped'
    BY <1>10 DEF ReadDetails, CommandTyped, command
  <2>4. lessee' \in [IP -> VM \union {NONE, USER}] /\ del' = del
    BY <1>10 DEF ReadDetails
  <2> QED
    BY <2>1, <2>2, <2>3, <2>4
<1>11. CASE RollbackVm(v)
  <2>1. ControlTyped'
    BY <1>11, ControlStep DEF RollbackVm, DeployPc, Running, RollingBack, Ended
  <2>2. AzureTyped'
    BY <1>11 DEF RollbackVm, AzureTyped, MayRemove
  <2>3. CommandTyped'
    BY <1>11, RequestTyped, RequestsAssumption DEF RollbackVm, CommandTyped, NicIndex
  <2>4. lessee' \in [IP -> VM \union {NONE, USER}] /\ del' = del
    BY <1>11 DEF RollbackVm
  <2> QED
    BY <2>1, <2>2, <2>3, <2>4
<1>12. CASE RollbackNic(v)
  <2>1. ControlTyped'
    BY <1>12, ControlStep DEF RollbackNic, DeployPc, Running, RollingBack, Ended
  <2>2. AzureTyped'
    BY <1>12, NicTyped DEF RollbackNic, AzureTyped
  <2>3. CommandTyped'
    BY <1>12 DEF RollbackNic, CommandTyped, command
  <2>4. lessee' \in [IP -> VM \union {NONE, USER}] /\ del' = del
    BY <1>12 DEF RollbackNic
  <2> QED
    BY <2>1, <2>2, <2>3, <2>4
<1>13. CASE RollbackPublicIp(v)
  <2>1. ControlTyped'
    BY <1>13, ControlStep, NextNicTyped DEF RollbackPublicIp, DeployPc, Running, RollingBack, Ended
  <2>2. AzureTyped'
    BY <1>13 DEF RollbackPublicIp, AzureTyped, MayRemove
  <2>3. CommandTyped'
    BY <1>13, NextNicTyped DEF RollbackPublicIp, CommandTyped, DeployPc, Running, RollingBack
  <2>4. lessee' \in [IP -> VM \union {NONE, USER}] /\ del' = del
    BY <1>13 DEF RollbackPublicIp
  <2> QED
    BY <2>1, <2>2, <2>3, <2>4
<1>14. CASE RollbackNsg(v)
  <2>1. ControlTyped'
    BY <1>14, ControlStep DEF RollbackNsg, DeployPc, Running, RollingBack, Ended
  <2>2. AzureTyped'
    BY <1>14, <1>0 DEF RollbackNsg, AzureTyped, MayRemove
  <2>3. CommandTyped'
    BY <1>14 DEF RollbackNsg, CommandTyped, command
  <2>4. lessee' \in [IP -> VM \union {NONE, USER}] /\ del' = del
    BY <1>14 DEF RollbackNsg, Release
  <2> QED
    BY <2>1, <2>2, <2>3, <2>4
<1> QED
  BY <1>1, <1>2, <1>3, <1>4, <1>5, <1>6, <1>7, <1>8, <1>8a, <1>9a, <1>9b, <1>9c, <1>10, <1>11, <1>12, <1>13, <1>14 DEF Deploy

(* However a call of a deletion ends, what it has read stays.               *)
LEMMA DeletionStep ==
  ASSUME TypeOK, NEW v \in VM, NEW l \in DeletePc,
         DeleteGoto(v, l) \/ DeleteRaises(v)
  PROVE  del' \in [VM -> DeleteType] /\ faults' \in Nat
BY DEF TypeOK, ControlTyped, DeleteGoto, DeleteRaises, DeleteType, DeletePc, Fault

LEMMA DeleteTyped ==
  ASSUME TypeOK, NEW v \in VM, Delete(v)
  PROVE  TypeOK'
<1> USE DEF TypeOK, script
<1>1. CASE StartDelete(v)
  <2>1. del' \in [VM -> DeleteType] /\ faults' \in Nat
    <3>1. ASSUME NEW disk \in BOOLEAN,
                 del' = [del EXCEPT ![v] = [pc |-> "vm", nics |-> AttachedNics(v),
                                            pubs |-> AttachedNics(v) \intersect pubIps,
                                            ips |-> {nicAddr[n] : n \in AttachedNics(v)} \intersect IP,
                                            disk |-> disk]]
          PROVE  del' \in [VM -> DeleteType]
      <4>1. AttachedNics(v) \subseteq NicId
        BY NicTyped DEF AttachedNics
      <4> QED
        BY <3>1, <4>1 DEF DeleteType, DeletePc
    <3>2. CASE DeleteGoto(v, "notFound") \/ DeleteRaises(v)
      BY <3>2, DeletionStep DEF DeletePc
    <3>3. CASE /\ faults' = faults \/ Fault
               /\ \E disk \in BOOLEAN :
                    del' = [del EXCEPT ![v] = [pc |-> "vm", nics |-> AttachedNics(v),
                                               pubs |-> AttachedNics(v) \intersect pubIps,
                                               ips |-> {nicAddr[n] : n \in AttachedNics(v)} \intersect IP,
                                               disk |-> disk]]
      BY <3>1, <3>3 DEF ControlTyped, Fault
    <3> QED
      BY <1>1, <3>2, <3>3 DEF StartDelete
  <2>2. ControlTyped' /\ CommandTyped'
    BY <1>1, <2>1 DEF StartDelete, ControlTyped, CommandTyped, deployCommand, command
  <2>3. AzureTyped'
    BY <1>1 DEF StartDelete, AzureTyped, cloud
  <2>4. lessee' \in [IP -> VM \union {NONE, USER}]
    BY <1>1 DEF StartDelete
  <2> QED
    BY <2>1, <2>2, <2>3, <2>4
<1>2. CASE DeleteVm(v)
  <2>1. del' \in [VM -> DeleteType] /\ faults' \in Nat
    BY <1>2, DeletionStep DEF DeleteVm, DeletePc
  <2>2. ControlTyped' /\ CommandTyped'
    BY <1>2, <2>1 DEF DeleteVm, ControlTyped, CommandTyped, deployCommand, command
  <2>3. AzureTyped'
    BY <1>2 DEF DeleteVm, AzureTyped, MayRemove
  <2>4. lessee' \in [IP -> VM \union {NONE, USER}]
    BY <1>2 DEF DeleteVm
  <2> QED
    BY <2>1, <2>2, <2>3, <2>4
<1>3. CASE DeleteNics(v)
  <2>1. del' \in [VM -> DeleteType] /\ faults' \in Nat
    BY <1>3, DeletionStep DEF DeleteNics, DeletePc
  <2>2. ControlTyped' /\ CommandTyped'
    BY <1>3, <2>1 DEF DeleteNics, ControlTyped, CommandTyped, deployCommand, command
  <2>3. AzureTyped'
    BY <1>3 DEF DeleteNics, AzureTyped, Without
  <2>4. lessee' \in [IP -> VM \union {NONE, USER}]
    BY <1>3 DEF DeleteNics
  <2> QED
    BY <2>1, <2>2, <2>3, <2>4
<1>4. CASE DeletePublicIps(v)
  <2>1. del' \in [VM -> DeleteType] /\ faults' \in Nat
    BY <1>4, DeletionStep DEF DeletePublicIps, DeletePc
  <2>2. ControlTyped' /\ CommandTyped'
    BY <1>4, <2>1 DEF DeletePublicIps, ControlTyped, CommandTyped, deployCommand, command
  <2>3. AzureTyped'
    BY <1>4 DEF DeletePublicIps, AzureTyped
  <2>4. lessee' \in [IP -> VM \union {NONE, USER}]
    BY <1>4 DEF DeletePublicIps
  <2> QED
    BY <2>1, <2>2, <2>3, <2>4
<1>5. CASE DeleteDisk(v)
  <2>1. del' \in [VM -> DeleteType] /\ faults' \in Nat
    BY <1>5, DeletionStep DEF DeleteDisk, DeletePc
  <2>2. ControlTyped' /\ CommandTyped'
    BY <1>5, <2>1 DEF DeleteDisk, ControlTyped, CommandTyped, deployCommand, command
  <2>3. AzureTyped'
    BY <1>5 DEF DeleteDisk, AzureTyped, MayRemove
  <2>4. lessee' \in [IP -> VM \union {NONE, USER}]
    BY <1>5 DEF DeleteDisk
  <2> QED
    BY <2>1, <2>2, <2>3, <2>4
<1>6. CASE DeleteNsgArtifacts(v)
  <2>1. del' \in [VM -> DeleteType] /\ faults' \in Nat
    BY <1>6, DeletionStep DEF DeleteNsgArtifacts, DeletePc
  <2>2. ControlTyped' /\ CommandTyped'
    BY <1>6, <2>1 DEF DeleteNsgArtifacts, ControlTyped, CommandTyped, deployCommand, command
  <2>3. AzureTyped'
    BY <1>6, RequestsAssumption DEF DeleteNsgArtifacts, AzureTyped, MayRemove
  <2>4. lessee' \in [IP -> VM \union {NONE, USER}]
    BY <1>6 DEF DeleteNsgArtifacts
  <2> QED
    BY <2>1, <2>2, <2>3, <2>4
<1>7. CASE ReleaseAddresses(v)
  <2>1. del' \in [VM -> DeleteType] /\ faults' \in Nat
    BY <1>7 DEF ReleaseAddresses, DeleteType, DeletePc, ControlTyped, Fault
  <2>2. ControlTyped' /\ CommandTyped'
    BY <1>7, <2>1 DEF ReleaseAddresses, ControlTyped, CommandTyped, deployCommand, command
  <2>3. AzureTyped'
    BY <1>7 DEF ReleaseAddresses, AzureTyped, cloud
  <2>4. lessee' \in [IP -> VM \union {NONE, USER}]
    BY <1>7 DEF ReleaseAddresses, Release
  <2> QED
    BY <2>1, <2>2, <2>3, <2>4
<1> QED
  BY <1>1, <1>2, <1>3, <1>4, <1>5, <1>6, <1>7 DEF Delete

LEMMA TypeStep ==
  ASSUME TypeOK, ArgInv, [Next]_vars
  PROVE  TypeOK'
<1> USE DEF TypeOK, AzureTyped, CommandTyped, ControlTyped, cloud, command, script
<1>1. ASSUME NEW v \in VM, Cancel(v)
      PROVE  TypeOK'
  BY <1>1 DEF Cancel
<1>2. CASE UNCHANGED vars
  BY <1>2 DEF vars
<1>3. ASSUME NEW v \in VM, ScriptEnds(v)
      PROVE  TypeOK'
  BY <1>3 DEF ScriptEnds
<1>4. CASE GetAvailablePrivateIp
  BY <1>4 DEF GetAvailablePrivateIp, CheckoutFromPool, deployCommand
<1> QED
  BY <1>1, <1>2, <1>3, <1>4, DeployTyped, DeleteTyped DEF Next
-----------------------------------------------------------------------------
(* What the steps do to addresses.                                          *)

LEMMA NeverStatic == ~IsStaticAllocation(Allocation)
BY AllocationAssumption DEF IsStaticAllocation

LEMMA DeployLocal ==
  ASSUME TypeOK, NEW u \in VM, Deploy(u)
  PROVE  /\ pc[u] # "deployed" /\ del' = del
         /\ \A v \in VM \ {u} : pc'[v] = pc[v] /\ arg'[v] = arg[v]
<1> USE DEF TypeOK, ControlTyped, CommandTyped, command, bareCommand, Returns, ReturnsUnlessCancelled,
            Raises, Goto, RetriesOrGivesUp, RetriesConnection, RetriesRetryable, GivesUp
<1>1. CASE \/ Prepare(u) \/ CreateVmNsg(u) \/ CreatePublicIp(u) \/ CheckoutAddress(u) \/ CreateNic(u)
  BY <1>1 DEF Prepare, CreateVmNsg, CreatePublicIp, CheckoutAddress, CreateNic
<1>2. CASE AddInboundRules(u) \/ PrepareCredentials(u) \/ CreateVm(u) \/ WaitVm(u)
  BY <1>2 DEF AddInboundRules, NextNic, PrepareCredentials, CreateVm, WaitVm
<1>3. CASE StartScript(u) \/ WaitScript(u) \/ ScriptResult(u) \/ ReadDetails(u)
  BY <1>3 DEF StartScript, WaitScript, ScriptResult, ReadDetails
<1>4. CASE RollbackVm(u) \/ RollbackNic(u) \/ RollbackPublicIp(u) \/ RollbackNsg(u)
  BY <1>4 DEF RollbackVm, RollbackNic, RollbackPublicIp, NextNic, RollbackNsg
<1> QED
  BY <1>1, <1>2, <1>3, <1>4 DEF Deploy

(* A step of a deployment either checks an address out, or leaves the pool   *)
(* alone and at most puts its own address on an interface or removes one.    *)
PutOrRemove(u) ==
  /\ pc'[u] # "nic" /\ lessee' = lessee
  /\ \A n \in NicId : \/ nicAddr'[n] \in {nicAddr[n], NONE}
                      \/ pc[u] = "nic" /\ n = Nic(u) /\ nicAddr'[n] = arg[u]

LEMMA DeployAddress ==
  ASSUME TypeOK, NEW u \in VM, Deploy(u)
  PROVE  CheckoutAddress(u) \/ PutOrRemove(u)
<1> USE DEF TypeOK, ControlTyped, cloud, command, bareCommand, Returns, ReturnsUnlessCancelled,
            Raises, Goto, RetriesOrGivesUp, RetriesConnection, RetriesRetryable, GivesUp, PutOrRemove
<1>1. CASE Prepare(u) \/ CreateVmNsg(u) \/ CreatePublicIp(u)
  BY <1>1 DEF Prepare, CreateVmNsg, CreatePublicIp
<1>2. CASE CreateNic(u)
  BY <1>2, NicTyped DEF CreateNic, AzureTyped
<1>3. CASE AddInboundRules(u) \/ PrepareCredentials(u) \/ CreateVm(u) \/ WaitVm(u)
  BY <1>3 DEF AddInboundRules, NextNic, PrepareCredentials, CreateVm, WaitVm, AfterVm
<1>7. CASE StartScript(u) \/ WaitScript(u) \/ ScriptResult(u) \/ ReadDetails(u)
  BY <1>7 DEF StartScript, WaitScript, ScriptResult, ReadDetails
<1>4. CASE RollbackVm(u) \/ RollbackPublicIp(u)
  BY <1>4 DEF RollbackVm, RollbackPublicIp, NextNic
<1>5. CASE RollbackNic(u)
  BY <1>5, NicTyped DEF RollbackNic, AzureTyped
<1>6. CASE RollbackNsg(u)
  BY <1>6, NeverStatic DEF RollbackNsg
<1> QED
  BY <1>1, <1>2, <1>3, <1>4, <1>5, <1>6, <1>7 DEF Deploy

(* A deletion removes interfaces, and releases addresses at its end only.    *)
LEMMA DeleteAddress ==
  ASSUME TypeOK, NEW u \in VM, Delete(u)
  PROVE  /\ \A n \in NicId : nicAddr'[n] \in {nicAddr[n], NONE}
         /\ \/ lessee' = lessee
            \/ del[u].pc = "release" /\ lessee' = Release(del[u].ips) /\ del'[u].pc = "done"
<1> USE DEF TypeOK, cloud
<1>1. CASE DeleteNics(u)
  BY <1>1 DEF DeleteNics, Without
<1>2. CASE ReleaseAddresses(u)
  BY <1>2 DEF ReleaseAddresses, DeleteType
<1>3. CASE \/ StartDelete(u) \/ DeleteVm(u) \/ DeletePublicIps(u) \/ DeleteDisk(u)
           \/ DeleteNsgArtifacts(u)
  BY <1>3 DEF StartDelete, DeleteVm, DeletePublicIps, DeleteDisk, DeleteNsgArtifacts
<1> QED
  BY <1>1, <1>2, <1>3 DEF Delete

(* How a deletion moves on, and what it does to its snapshot.                *)
LEMMA DeleteSnapshot ==
  ASSUME TypeOK, NEW u \in VM, Delete(u)
  PROVE  /\ \A v \in VM \ {u} : del'[v] = del[v]
         /\ \/ del'[u].pc \notin NicsLeft \union NicsGone
            \/ /\ del'[u].nics = AttachedNics(u) /\ del'[u].pc = "vm"
               /\ del'[u].ips = {nicAddr[n] : n \in AttachedNics(u)} \intersect IP
               /\ UNCHANGED <<nicAddr, lessee>>
            \/ /\ del'[u].nics = del[u].nics /\ del'[u].ips = del[u].ips
               /\ \/ del[u].pc \in NicsLeft /\ del'[u].pc \in NicsLeft
                  \/ del[u].pc \in NicsLeft /\ nicAddr' = Without(del[u].nics)
                  \/ del[u].pc \in NicsGone
<1> USE DEF TypeOK, DeleteType, NicsLeft, NicsGone, DeleteGoto, DeleteRaises
<1>1. CASE StartDelete(u)
  BY <1>1 DEF StartDelete, cloud
<1>2. CASE DeleteVm(u) \/ DeleteNics(u)
  BY <1>2 DEF DeleteVm, DeleteNics
<1>3. CASE DeletePublicIps(u) \/ DeleteDisk(u) \/ DeleteNsgArtifacts(u)
  BY <1>3 DEF DeletePublicIps, DeleteDisk, DeleteNsgArtifacts
<1>4. CASE ReleaseAddresses(u)
  BY <1>4 DEF ReleaseAddresses
<1> QED
  BY <1>1, <1>2, <1>3, <1>4 DEF Delete

LEMMA DeleteAfter ==
  ASSUME DeleteAfterDeploy, NEW u \in VM, Delete(u)
  PROVE  pc[u] = "deployed" /\ UNCHANGED <<pc, arg>>
BY DEF DeleteAfterDeploy, Delete, StartDelete, DeleteVm, DeleteNics, DeletePublicIps, DeleteDisk,
       DeleteNsgArtifacts, ReleaseAddresses, deployCommand, command

(* Every other step leaves this alone, and takes no address from its owner.  *)
LEMMA OtherSteps ==
  ASSUME TypeOK, [Next]_vars, \A u \in VM : ~Deploy(u) /\ ~Delete(u)
  PROVE  /\ UNCHANGED <<nicAddr, pc, arg, del>>
         /\ \A a \in IP : lessee[a] # NONE => lessee'[a] = lessee[a]
<1>1. CASE GetAvailablePrivateIp
  BY <1>1 DEF GetAvailablePrivateIp, CheckoutFromPool, cloud, command, deployCommand, TypeOK
<1> QED
  BY <1>1 DEF Next, vars, cloud, command, Cancel, ScriptEnds

-----------------------------------------------------------------------------
(* The steps of the invariant.                                              *)

LEMMA DeleteAfterDeployStep ==
  ASSUME TypeOK, DeleteAfterDeploy, [Next]_vars
  PROVE  DeleteAfterDeploy'
<1> USE DEF DeleteAfterDeploy
<1>1. ASSUME NEW u \in VM, Deploy(u)
      PROVE  DeleteAfterDeploy'
  BY <1>1, DeployLocal
<1>2. ASSUME NEW u \in VM, Delete(u)
      PROVE  DeleteAfterDeploy'
  BY <1>2, DeleteAfter, DeleteSnapshot
<1>3. CASE \A u \in VM : ~Deploy(u) /\ ~Delete(u)
  BY <1>3, OtherSteps
<1> QED
  BY <1>1, <1>2, <1>3

LEMMA ArgStep ==
  ASSUME IInv, [Next]_vars
  PROVE  ArgInv'
<1> USE DEF IInv, ArgInv
<1>1. ASSUME NEW u \in VM, Deploy(u)
      PROVE  ArgInv'
  <2>1. pc'[u] = "nic" => arg'[u] \in IP \union {DYNAMIC}
    <3>1. CASE CheckoutAddress(u)
      BY <3>1 DEF CheckoutAddress, TypeOK, CommandTyped, ControlTyped, Returns, Raises, Goto, GivesUp
    <3>2. CASE PutOrRemove(u)
      BY <3>2 DEF PutOrRemove
    <3> QED
      BY <1>1, <3>1, <3>2, DeployAddress
  <2> QED
    BY <1>1, <2>1, DeployLocal
<1>2. ASSUME NEW u \in VM, Delete(u)
      PROVE  ArgInv'
  BY <1>2, DeleteAfter
<1>3. CASE \A u \in VM : ~Deploy(u) /\ ~Delete(u)
  BY <1>3, OtherSteps
<1> QED
  BY <1>1, <1>2, <1>3

(* CheckoutFromPool takes a free address, which is on no interface.          *)
LEMMA CheckedOut ==
  ASSUME IInv, NEW u \in VM, CheckoutAddress(u)
  PROVE  /\ nicAddr' = nicAddr /\ del' = del
         /\ \A v \in VM \ {u} : pc'[v] = pc[v] /\ arg'[v] = arg[v]
         /\ \A a \in IP : lessee[a] # NONE => lessee'[a] = lessee[a]
         /\ pc'[u] = "nic" /\ arg'[u] \in IP =>
              lessee'[arg'[u]] = u /\ \A n \in NicId : nicAddr[n] # arg'[u]
<1>1. \A n \in NicId : nicAddr[n] \in IP => lessee[nicAddr[n]] # NONE
  BY ValuesAssumption DEF IInv, AddressesExclusive
<1> QED
  BY <1>1, ValuesAssumption
  DEF CheckoutAddress, CheckoutFromPool, IInv, TypeOK, CommandTyped, ControlTyped, Returns, Raises, Goto,
      GivesUp, cloud

LEMMA CheckedOutStep ==
  ASSUME IInv, [Next]_vars
  PROVE  CheckedOutInv'
<1> USE DEF IInv, CheckedOutInv
<1>1. ASSUME NEW u \in VM, CheckoutAddress(u)
      PROVE  CheckedOutInv'
  BY <1>1, CheckedOut, ValuesAssumption
<1>2. ASSUME NEW u \in VM, Deploy(u), PutOrRemove(u)
      PROVE  CheckedOutInv'
  BY <1>2, DeployLocal, ValuesAssumption DEF PutOrRemove
<1>3. ASSUME NEW u \in VM, Delete(u)
      PROVE  CheckedOutInv'
  <2>1. \A v \in VM : pc[v] = "nic" /\ arg[v] \in IP => lessee'[arg[v]] = lessee[arg[v]]
    <3> SUFFICES ASSUME NEW v \in VM, pc[v] = "nic", arg[v] \in IP,
                        del[u].pc = "release", lessee' = Release(del[u].ips)
                 PROVE  lessee'[arg[v]] = lessee[arg[v]]
      BY <1>3, DeleteAddress
    <3>1. arg[v] \notin del[u].ips
      BY <1>3, DeleteAfter DEF SnapshotLeased, NicsLeft, NicsGone
    <3> QED
      BY <3>1 DEF Release
  <2> QED
    BY <1>3, <2>1, DeleteAddress, DeleteAfter, ValuesAssumption
<1>4. CASE \A u \in VM : ~Deploy(u) /\ ~Delete(u)
  BY <1>4, OtherSteps, ValuesAssumption DEF TypeOK, DeleteType
<1> QED
  BY <1>1, <1>2, <1>3, <1>4, DeployAddress

LEMMA ExclusiveStep ==
  ASSUME IInv, [Next]_vars
  PROVE  AddressesExclusive'
<1> USE DEF IInv, AddressesExclusive
<1>1. ASSUME NEW u \in VM, CheckoutAddress(u)
      PROVE  AddressesExclusive'
  BY <1>1, CheckedOut, ValuesAssumption
<1>2. ASSUME NEW u \in VM, PutOrRemove(u)
      PROVE  AddressesExclusive'
  <2>1. CASE \A n \in NicId : nicAddr'[n] \in {nicAddr[n], NONE}
    BY <1>2, <2>1, ValuesAssumption DEF PutOrRemove
  <2>2. CASE pc[u] = "nic" /\ Nic(u) \in NicId /\ nicAddr'[Nic(u)] = arg[u]
    <3>1. /\ Nic(u)[1] = u
          /\ arg[u] \in IP => lessee[arg[u]] = u /\ \A n \in NicId : nicAddr[n] # arg[u]
      BY <2>2 DEF CheckedOutInv, Nic
    <3>2. \A n \in NicId \ {Nic(u)} : nicAddr'[n] \in {nicAddr[n], NONE}
      BY <1>2 DEF PutOrRemove
    <3> QED
      BY <1>2, <2>2, <3>1, <3>2, ValuesAssumption DEF PutOrRemove
  <2> QED
    BY <1>2, <2>1, <2>2, NicTyped DEF PutOrRemove
<1>3. ASSUME NEW u \in VM, Delete(u)
      PROVE  AddressesExclusive'
  <2>1. \A n \in NicId : nicAddr[n] \in IP => lessee'[nicAddr[n]] = lessee[nicAddr[n]]
    <3> SUFFICES ASSUME NEW n \in NicId, nicAddr[n] \in IP,
                        del[u].pc = "release", lessee' = Release(del[u].ips)
                 PROVE  lessee'[nicAddr[n]] = lessee[nicAddr[n]]
      BY <1>3, DeleteAddress
    <3>1. nicAddr[n] \notin del[u].ips
      BY DEF SnapshotCovered, NicsGone
    <3> QED
      BY <3>1 DEF Release
  <2> QED
    BY <1>3, <2>1, DeleteAddress, ValuesAssumption
<1>4. CASE \A u \in VM : ~Deploy(u) /\ ~Delete(u)
  BY <1>4, OtherSteps, ValuesAssumption DEF TypeOK, DeleteType
<1> QED
  BY <1>1, <1>2, <1>3, <1>4, DeployAddress

LEMMA SnapshotLeasedStep ==
  ASSUME IInv, [Next]_vars
  PROVE  SnapshotLeased'
<1> USE DEF IInv, SnapshotLeased
<1>1. \A v \in VM : del[v].ips \subseteq IP
  BY DEF TypeOK, DeleteType
<1>2. ASSUME NEW u \in VM, Deploy(u)
      PROVE  SnapshotLeased'
  <2>1. \A a \in IP : lessee[a] # NONE => lessee'[a] = lessee[a]
    BY <1>2, DeployAddress, CheckedOut DEF PutOrRemove
  <2> QED
    BY <1>1, <1>2, <2>1, DeployLocal, ValuesAssumption
<1>3. ASSUME NEW u \in VM, Delete(u)
      PROVE  SnapshotLeased'
  <2>1. ASSUME NEW v \in VM \ {u}, del[v].pc \in NicsLeft \union NicsGone, NEW a \in del[v].ips
        PROVE  lessee'[a] = v
    <3>1. CASE lessee' = lessee
      BY <2>1, <3>1
    <3>2. CASE del[u].pc = "release" /\ lessee' = Release(del[u].ips)
      <4>1. a \notin del[u].ips
        BY <2>1, <3>2 DEF NicsGone
      <4> QED
        BY <1>1, <2>1, <3>2, <4>1 DEF Release
    <3> QED
      BY <1>3, <3>1, <3>2, DeleteAddress
  <2>2. ASSUME del'[u].pc \in NicsLeft \union NicsGone, NEW a \in del'[u].ips
        PROVE  lessee'[a] = u
    <3>1. lessee' = lessee
      BY <1>3, <2>2, DeleteAddress DEF NicsLeft, NicsGone
    <3>2. CASE /\ del'[u].ips = {nicAddr[n] : n \in AttachedNics(u)} \intersect IP
      <4>1. PICK n \in NicId : n[1] = u /\ nicAddr[n] = a /\ a \in IP
        BY <2>2, <3>2, NicTyped DEF AttachedNics, NicsOf
      <4> QED
        BY <3>1, <4>1 DEF AddressesExclusive
    <3>3. CASE del'[u].ips = del[u].ips /\ del[u].pc \in NicsLeft \union NicsGone
      BY <2>2, <3>1, <3>3
    <3> QED
      BY <1>3, <2>2, <3>2, <3>3, DeleteSnapshot
  <2> QED
    BY <1>3, <2>1, <2>2, DeleteSnapshot
<1>4. CASE \A u \in VM : ~Deploy(u) /\ ~Delete(u)
  BY <1>4, OtherSteps, ValuesAssumption DEF TypeOK, DeleteType
<1> QED
  BY <1>2, <1>3, <1>4

LEMMA SnapshotCoveredStep ==
  ASSUME IInv, [Next]_vars
  PROVE  SnapshotCovered'
<1> USE DEF IInv, SnapshotCovered
<1>1. \A v \in VM : del[v].ips \subseteq IP
  BY DEF TypeOK, DeleteType
<1>2. ASSUME NEW u \in VM, Deploy(u)
      PROVE  SnapshotCovered'
  <2> SUFFICES ASSUME NEW v \in VM, NEW n \in NicId, nicAddr'[n] \in del[v].ips,
                      nicAddr'[n] # nicAddr[n], del[v].pc \in NicsLeft \union NicsGone
               PROVE  FALSE
    BY <1>2, DeployLocal
  <2>1. pc[u] = "nic" /\ nicAddr'[n] = arg[u] /\ arg[u] \in IP
    BY <1>1, <1>2, DeployAddress, CheckedOut, ValuesAssumption DEF PutOrRemove
  <2>2. lessee[arg[u]] = u /\ lessee[arg[u]] = v
    BY <2>1 DEF CheckedOutInv, SnapshotLeased
  <2>3. del[u].pc # "none" => pc[u] = "deployed"
    BY DEF DeleteAfterDeploy
  <2> QED
    BY <2>1, <2>2, <2>3 DEF NicsLeft, NicsGone
<1>3. ASSUME NEW u \in VM, Delete(u)
      PROVE  SnapshotCovered'
  <2> SUFFICES ASSUME NEW n \in NicId, nicAddr'[n] \in del'[u].ips,
                      del'[u].pc \in NicsLeft \union NicsGone
               PROVE  /\ del'[u].pc \in NicsLeft => n \in del'[u].nics
                      /\ del'[u].pc \notin NicsGone
    BY <1>1, <1>3, DeleteAddress, DeleteSnapshot, ValuesAssumption
  <2>1. CASE /\ del'[u].nics = AttachedNics(u) /\ del'[u].pc = "vm"
             /\ del'[u].ips = {nicAddr[m] : m \in AttachedNics(u)} \intersect IP
             /\ UNCHANGED <<nicAddr, lessee>>
    <3>1. PICK m \in AttachedNics(u) : nicAddr[m] = nicAddr[n] /\ nicAddr[n] \in IP
      BY <2>1
    <3>2. m = n
      BY <3>1, NicTyped DEF AddressesExclusive, AttachedNics
    <3> QED
      BY <2>1, <3>1, <3>2 DEF NicsGone
  <2>2. CASE /\ del'[u].nics = del[u].nics /\ del'[u].ips = del[u].ips
             /\ \/ del[u].pc \in NicsLeft /\ del'[u].pc \in NicsLeft
                \/ del[u].pc \in NicsLeft /\ nicAddr' = Without(del[u].nics)
                \/ del[u].pc \in NicsGone
    <3>1. nicAddr'[n] = nicAddr[n] /\ nicAddr[n] \in del[u].ips
      BY <1>1, <1>3, <2>2, DeleteAddress, ValuesAssumption
    <3>2. del[u].pc \in NicsLeft /\ n \in del[u].nics
      BY <2>2, <3>1
    <3>3. nicAddr' # Without(del[u].nics)
      BY <1>1, <3>1, <3>2, ValuesAssumption DEF Without
    <3> QED
      BY <2>2, <3>2, <3>3 DEF NicsLeft, NicsGone
  <2> QED
    BY <1>3, <2>1, <2>2, DeleteSnapshot
<1>4. CASE \A u \in VM : ~Deploy(u) /\ ~Delete(u)
  BY <1>4, OtherSteps, ValuesAssumption DEF TypeOK, DeleteType
<1> QED
  BY <1>2, <1>3, <1>4
-----------------------------------------------------------------------------
LEMMA InitInv == Init => IInv
<1> SUFFICES ASSUME Init PROVE IInv
  OBVIOUS
<1>1. MaxNics \in Nat \ {0} /\ \A r \in Requests : r.nics \in NicIndex
  BY RequestsAssumption DEF RequestType
<1>2. TypeOK
  BY <1>1, ValuesAssumption, AttemptsAssumption
  DEF Init, FirstAttempt, TypeOK, AzureTyped, CommandTyped, ControlTyped, DeployPc, DeleteType, DeletePc,
      NoDelete, NicIndex
<1> QED
  BY <1>2, ValuesAssumption
  DEF Init, IInv, ArgInv, CheckedOutInv, AddressesExclusive, DeleteAfterDeploy,
      SnapshotLeased, SnapshotCovered, NicsLeft, NicsGone, NoDelete

LEMMA Invariance == Spec => []IInv
<1>1. IInv /\ [Next]_vars => IInv'
  BY TypeStep, ArgStep, CheckedOutStep, ExclusiveStep, DeleteAfterDeployStep,
     SnapshotLeasedStep, SnapshotCoveredStep
  DEF IInv
<1> QED
  BY <1>1, InitInv, PTL DEF Spec

(* Every variable of every deployment and deletion keeps its type, and the   *)
(* loops over interfaces stay within those requested.                       *)
THEOREM TypeCorrect == Spec => []TypeOK
<1>1. IInv => TypeOK
  BY DEF IInv
<1> QED
  BY <1>1, Invariance, PTL

(* No pool address is ever on two interfaces, nor free while it is on one,   *)
(* for any machines, pool and pattern of failures and deletions.            *)
THEOREM Exclusive == Spec => []AddressesExclusive
<1>1. IInv => AddressesExclusive
  BY DEF IInv
<1> QED
  BY <1>1, Invariance, PTL
-----------------------------------------------------------------------------
(* The sandbox implements the exclusive pool.                               *)

LEMMA PoolInit == Init => Pool!Init
<1> SUFFICES ASSUME Init PROVE Pool!Init
  OBVIOUS
<1>1. \A o \in VM \union {USER} : Used[o] = {}
  BY ValuesAssumption DEF Init, Used
<1> QED
  BY <1>1 DEF Pool!Init, Init, Used

(* What is on the interfaces of a machine stays leased to it.               *)
LEMMA PoolUse ==
  ASSUME AddressesExclusive', lessee' = lessee
  PROVE  Pool!Use
<1>1. /\ Used' \in [VM \union {USER} -> SUBSET IP]
      /\ \A o \in VM \union {USER} : \A a \in Used'[o] : a \in IP /\ lessee'[a] = o
  BY DEF Used, AddressesExclusive
<1> QED
  BY <1>1 DEF Pool!Use, Pool!Leased

LEMMA PoolCheckOut ==
  ASSUME NEW a \in IP, NEW o \in VM \union {USER}, CheckoutFromPool(a, o), nicAddr' = nicAddr
  PROVE  Pool!CheckOut(o)
BY DEF CheckoutFromPool, Pool!CheckOut, Pool!Leased, Used

LEMMA PoolStep ==
  ASSUME IInv, IInv', [Next]_vars
  PROVE  [Pool!Next]_<<lessee, Used>>
<1>1. CASE lessee' = lessee
  BY <1>1, PoolUse DEF IInv, Pool!Next
<1>2. ASSUME NEW u \in VM, CheckoutAddress(u), lessee' # lessee
      PROVE  Pool!Next
  <2>1. PICK a \in IP : CheckoutFromPool(a, u)
    BY <1>2 DEF CheckoutAddress
  <2>2. nicAddr' = nicAddr
    BY <1>2 DEF CheckoutAddress, cloud
  <2> QED
    BY <2>1, <2>2, PoolCheckOut DEF Pool!Next
<1>3. ASSUME NEW u \in VM, ReleaseAddresses(u), lessee' # lessee
      PROVE  Pool!Next
  <2>1. /\ del[u].pc = "release" /\ nicAddr' = nicAddr
        /\ lessee' = Release(del[u].ips)
    BY <1>3 DEF ReleaseAddresses, cloud
  <2>2. del[u].ips \subseteq Pool!Leased(u)
    BY <2>1 DEF IInv, SnapshotLeased, NicsGone, Pool!Leased, TypeOK, DeleteType
  <2>3. \A n \in NicId : nicAddr[n] \notin del[u].ips
    BY <2>1 DEF IInv, SnapshotCovered, NicsGone
  <2>4. del[u].ips \intersect Used[u] = {}
    BY <2>3 DEF Used
  <2>5. Used' = Used
    BY <2>1 DEF Used
  <2> QED
    BY <2>1, <2>2, <2>4, <2>5 DEF Release, Pool!GiveBack, Pool!Next
<1>4. CASE GetAvailablePrivateIp
  <2>1. PICK a \in IP : CheckoutFromPool(a, USER)
    BY <1>4 DEF GetAvailablePrivateIp
  <2> QED
    BY <1>4, <2>1, PoolCheckOut DEF GetAvailablePrivateIp, cloud, Pool!Next
<1>5. ASSUME NEW u \in VM, Deploy(u)
      PROVE  CheckoutAddress(u) \/ lessee' = lessee
  BY <1>5, DeployAddress DEF IInv, PutOrRemove
<1>6. ASSUME NEW u \in VM, Delete(u)
      PROVE  ReleaseAddresses(u) \/ lessee' = lessee
  BY <1>6 DEF Delete, StartDelete, DeleteVm, DeleteNics, DeletePublicIps, DeleteDisk,
              DeleteNsgArtifacts
<1>7. ASSUME NEW u \in VM, Cancel(u) \/ ScriptEnds(u)
      PROVE  lessee' = lessee
  BY <1>7 DEF Cancel, ScriptEnds
<1> QED
  BY <1>1, <1>2, <1>3, <1>4, <1>5, <1>6, <1>7 DEF Next, vars

(* Whatever the machines, the pool and the faults, the deployments, the     *)
(* deletions and the users' requests of a sandbox keep the promise of an    *)
(* exclusive pool: every step is one of the pool, or none.                  *)
THEOREM PoolRefined == Spec => PoolKept
<1>1. IInv /\ IInv' /\ [Next]_vars => [Pool!Next]_<<lessee, Used>>
  BY PoolStep
<1> QED
  BY <1>1, PoolInit, Invariance, PTL DEF Spec, PoolKept, Pool!Spec
=============================================================================
