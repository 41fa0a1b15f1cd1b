# Azure-Shell, specified

Azure-Shell is a CloudShell cloud provider shell: a Python driver that, on
CloudShell's commands, builds the network of a *sandbox* (a reservation) in
Microsoft Azure, deploys virtual machines into it, controls them, deletes them
and takes the sandbox down. One process serves many sandboxes and runs commands
concurrently, one thread each; everything that lasts is in Azure or CloudShell,
except for a few locks and caches of the process. This directory specifies the
parts where that is hard: calls that fail half-way, commands that interleave,
and shared locks.

Paths below are relative to `src/package/cloudshell/cp/azure/`.

## Inventory

| Component | Source | State | Operations | Specified in |
|---|---|---|---|---|
| Deployment of a machine | `domain/vm_management/operations/deploy_operation.py`, `domain/services/network_service.py` | per command: `DeployDataModel` (requests, interfaces, addresses); Azure: machine, disk, NICs, public addresses, group, rules | prepare, group, NICs, rules, credentials, machine, script, details; rollback | `DeployVm` |
| Deletion of a machine | `.../delete_operation.py` (`delete`), `azure_shell.py` | a snapshot of the machine's profile | reads, commands in order, release | `DeployVm` |
| Private addresses | `domain/services/ip_service.py`, `ip_allocation_helper.py`, `ip_operation.py` | the sandbox's pool, in CloudShell | check out (by a machine, by a user), release | `DeployVm`, `AddressPool` |
| Cancellation, waiting | `command_cancellation.py`, `task_waiter.py` | CloudShell's flag; the poller; the time spent | check, wait, wait with a timeout | `DeployVm` |
| Security group rules | `domain/services/security_group.py` | the rules of a group, in Azure; a priority generator per batch | create a batch; delete custom rules; delete a machine's rules | `SecurityGroup`, `RulePriority` |
| App security groups | `set_app_security_groups.py` | what it listed of a machine's custom rules | list, delete, find the interface, create | `SecurityGroup` |
| Lock provider | `domain/services/lock_service.py` | a dictionary of locks, a lock of its own | get, remove | `LockProvider`, `WriteOnce` |
| Sandbox connectivity | `.../PrepareSandboxInfraOperation.py`, `delete_operation.py` (`cleanup_connectivity`), `add_route_operation.py` | resource group, storage account, key pair, sandbox NSG, subnets, route tables; `subnet_locker` | prepare (with a thread pool), clean up, route tables | `SandboxConnectivity`; the pool thread in `KeyPairs` |
| Storage, key pairs, access key | `storage_service.py`, `key_pair.py`, `access_key_operation.py` | the account and the two files of the pair, in Azure; caches of pairs, file services and account keys, one lock each | create the account, save and get the pair | `KeyPairs`, `WriteOnce` |
| Script extension, credentials | `vm_extension.py`, `vm_credentials_service.py`, `cryptography_service.py` | the extension, in Azure | create, await | `DeployVm`, `KeyPairs` (in part) |
| Power, details, ports, refresh, autoload | operations of these names | none | single calls, reads, validations | not modelled |
| Facade, clients, parsers, names, tags, images | `azure_shell.py`, `common/` and services of these names | the cached set of Azure clients | wiring, conversions | not modelled, or where they are used |

How they interact. `AzureShell` is called by the driver with one command per
thread and calls one operation. A deployment locks the sandbox's security group
(`GenericLockProvider`), checks addresses out of CloudShell's pool, creates
resources in Azure by name, and looks at the command's cancellation flag between
calls. It shares the pool, the sandbox's group and the provider's dictionary
with all other deployments and deletions of the sandbox; deletions and rollbacks
remove rules from the same group without its lock, and the preparation writes
that group's rules under `subnet_locker` instead. Preparation, clean-up and
route tables share the network's subnets under `subnet_locker`. A preparation
starts a pool thread that makes the storage account and the key pair, which
deployments and the access key command read back through the process's caches.
The clean-up of a sandbox removes keys from the lock provider.

What is hard, and what makes each part right:

* *Deployment and deletion.* Any call can raise, and one that raises may have
  had its effect. A deployment must report success only when everything is
  there; its rollback must find all it created from the requests alone; a
  deletion must remove what the machine had, in the order Azure demands; an
  address must be leased for as long as an interface has it, and belong to one.
  A cancellation must end in a rollback, a script that hangs must not hang the
  command. Every command must end.
* *Security group rules.* A batch lists, chooses priorities and PUTs rule by
  rule. Two batches must not choose one priority, retries must not lose rules,
  success must mean that the rules are there, failures must leave the lock.
  Custom rules are listed without the lock and deleted under it: a machine must
  end with those asked for last.
* *Sandbox connectivity.* All sandboxes of an account share one virtual network,
  whose subnets three operations write under one lock; subnets outlive failed
  clean-ups and are in the way of later sandboxes. A prepared sandbox must keep
  its secured subnets, a clean-up must not claim what it did not do and go in an
  order Azure accepts, leftovers must be reclaimed and never confused with
  subnets in use, and the lock must be free after every failure.
* *Key pairs.* Two threads make a sandbox; the one that saves the pair outlives
  a failure of the other. The key a preparation reports must open the machines:
  both files are of one pair, and all readers go on with one pair, though three
  caches are nested, checked without their locks and never invalidated.
* *Lock provider.* One lock per key though the dictionary is read without the
  provider's lock, no failing read, no deadlock, no leak.

`PROJECT.json` lists the hazards one by one, at the line where each bites, with
the properties that watch it, and says of those without one why there is none.

## Modules

`DeployVm` – the life of the machines of one sandbox. Azure's resources are sets
and functions over machines `VM` and interfaces `<<v, i>>` (the interface name
`<vm>-<i>`; the public address is `<interface>_PublicIP`), the pool is `lessee`
(for whom an address is checked out: a machine, or `USER` for
`get_available_private_ip`). `pc[v]` is the place of `v`'s deploy command in
`_deploy_vm_generic`, with one action per call that changes something; `idx[v]`
counts the loops over `nic_requests` of deployment and rollback; `arg[v]` is the
address `create_nic` was given; `ips[v]` is `all_private_ip_addresses`.
`extension[v]` is the script in Azure and `clock[v]` the waits of
`wait_for_task_with_timeout` since it was last PUT: `Timeout` of them are within
the bound, and both comparisons of that method are there (`WaitScript`,
`ScriptResult`). `attempt[v]` counts the attempts of the three methods whose
`@retry` runs several calls again: `create_nic` (from the check-out of an
address), `_create_vm` (from the PUT of the machine, also when the wait for it
raises) and `create_script_extension` (from the check of the URL, through
another PUT and a new deadline, also when the poll or the result of the wait
raises). `RetriesConnection` is the decorator for connection errors,
`RetriesRetryable` the one inside it for "retryable" ones, whose attempts begin
anew with each of the outer one's; the script extension has only the first. `del[v]` is the deletion: its place in
the list of commands and the snapshot it took. The helpers `Returns`, `Raises`, `ReturnsUnlessCancelled`
and `NextNic` are the control flow of the Python code: a call returns; raises
into the `except` with or without its effect; is followed by
`check_if_cancelled`; ends the body of the loop.

`AddressPool` – what an exclusive pool promises, whoever its owners are: an
address is checked out while it is free, used by its owner only, and given back
when it is no longer used. `DeployVm!PoolKept` says that a sandbox keeps this
promise, with the addresses on a machine's interfaces as those it uses.

`SecurityGroup` – one group and its writers: batches written by
`create_network_security_group_rules`, each under the lock its caller passes
(`job[t].lock`); `set_app_security_groups`, whose batch is preceded by the
listing and the deletion of the custom rules (`FindCustom` to `FindNic`), and
which has a batch for each of the machine's network configurations, with the
lock taken, the group listed and a generator begun for each (`job[t].ends` is
where one batch ends and the next begins, `first[t]` where the current one
began, `ForNic` the look for the interface, which may not be found); and
the unlocked deletion of a machine's rules. A rule is its name, its priority and
`by`, which stands for its ports and addresses. Each batch has its own generator
(`known`, the listed and yielded priorities). `sole` is a history variable: the
thread that listed custom rules last, if no other such command was under way.
`RulePriority` holds the generator: `NextPriority`, the declarative form the
model and the proofs use, and `Generated`, the loop of the code with its sorted
list and cursor (`Iteration`), which is proved to yield the same.

`LockProvider` – every read and write of the dictionary, and every `with`, as an
action of its own, because the point of the code is that some reads are outside
the lock. `dict` maps keys to lock objects, numbered in the order they are made.

`SandboxConnectivity` – the virtual network of the account: `subnets` (pairs of
a sandbox and an address range, as in the name `<reservation>_<cidr>`), which of
them refer to a security group (`secured`) or route table (`routed`), and the
resource groups these lie in. Each sandbox has three commands, `P(s)`
(`prepare_connectivity`), `R(s)` (`create_route_table`) and `C(s)`
(`cleanup_connectivity`), with their own `pc`, loop (`todo`, `at`) and, for what
is read long before it is used, `snap`. `Enter`, `Leave` and `Abort` are the two
ends of `with subnet_locker`; `PutRefused` and `Referred` are what Azure refuses.

`KeyPairs` – the preparations of one sandbox as two threads each: `main[r]` is
the main thread, `pc[r]` the pool thread that creates the account, generates the
pair `<<r, r>>` and saves it as two `files`. Getters, a deployment's credentials
and the access key command, read the pair back. `cached` and `ready` are the
three caches (pairs, file services, account keys), `holder` their locks, `in[t]`
the cache a thread looks into: a miss looks into the next one with the lock
still held. `CallFails` unwinds to the retry decorator that catches the error,
and every `with` on the way lets go of its lock.

`WriteOnce` – what a double-checked cache promises: an entry is filled once, and
whoever is answered holds what it was filled with. `LockProvider!LocksOnce`
(keys that no clean-up removes) and `KeyPairs!OneKeyPair` are its implementations.

`MCDeployVm`, `MCSecurityGroup`, `MCLockProvider`, `MCSandboxConnectivity`,
`MCKeyPairs` – the instances for TLC. The theorems are in `DeployVmProofs`,
`DeployVmLifeProofs`, `SecurityGroupProofs`, `LockProviderProofs`,
`SandboxConnectivityProofs`, `SandboxNetworkProofs`, `SandboxRefusalsProofs` and
`KeyPairsProofs`.

Operators named `...Bug`, beside the definition they differ from, are plausible
slips (an unawaited deletion, a missing re-check, an index that is not reset).
Putting one in the place of its neighbour makes the property that `PROJECT.json`
("mutants") pairs it with fail: this is how the properties are known to bite.

### Abstractions

* A single PUT or DELETE that is retried below the level of an operation is one
  step: both are idempotent by name. Where the retried body is more than that, the
  retry is modelled: `create_nic`, `_create_vm` and `create_script_extension`,
  each with its attempts; batches of rules, the deletion of custom rules, files
  and route tables, which read again what they depend on.
* A call's outcomes are: done; raised without effect; raised with effect. A
  deletion of several resources that raises has removed some of them.
  `MaxFaults` bounds the failing and retried calls of a behaviour, in `DeployVm`
  also not at all (`UNLIMITED`).
* Deleting what is absent succeeds, as Azure's DELETE does. The deletion of a
  machine also swallows a "Not Found" of each of its commands
  (`delete_operation.py:323-332`). Of `delete_nics` and `delete_ips`, which loop
  over names, that would leave the later names of the loop while the deletion
  goes on. Azure answers so only when the resource group is gone, with all that
  is in it, so the model has no such step.
* A machine's name ends in a unique string, so the tests by substring of
  `delete_nsg_artifacts_associated_with_vm` select by machine.
* The rules of the sandbox's group are, in `DeployVm`, the NIC they admit
  traffic to (`inbound`), and each batch is one step: locks and priorities are
  the subject of `SecurityGroup`.
* A default subnet that cannot be found, and subnets missing from the multiple
  subnet mode, are left out: requests have the interfaces that were found.
* Only the machine's OS disk is a disk; vhd and managed disks are not told apart.
* A script ends when Azure says so, or hangs. Time is counted in waits, and
  stops just past the timeout.
* CloudShell runs the commands of one sandbox one after the other, and gives a
  sandbox's addresses away only after its clean-up; several sandboxes run
  concurrently. The batches of rules of a preparation are one step that waits
  for `subnet_locker`; what they write is the subject of `SecurityGroup`.
* A route command names all subnets of its sandbox.
* A machine is deleted by CloudShell once its deployment reported it, also again
  after a deletion that raised.
* `set_app_security_groups` has one machine per command, with its network
  configurations: the operation treats the machines of a request one by one and
  collects their results.
* In `KeyPairs` a preparation never starts before the main thread of the last
  one has ended, but its pool thread may still be at work; `raced` remembers the
  preparations that began so. Nothing deletes the storage account: a reservation
  is not prepared again after its clean-up.

## Runs

| Run | Instance | Shows |
|---|---|---|
| `deploy_vm` | 2 machines, 3 addresses, up to 2 NICs, 2 faults, 2 and 2 attempts, timeout 1, CloudShell allocation, users who take addresses; machines and addresses symmetric; 956,629 states | `AddressesExclusive`, `DeployedComplete`, `RolledBackClean`, `DeletedClean`, `DependencyOrder`, `PoolKept`, `TypeOK` |
| `deploy_vm_live` | 1 machine, any number of faults, 3 attempts on connection errors and 2 on retryable ones, timeout 2, CloudShell allocation, with the refused request and the script alone too; 58,344 states | `CancelHonoured`, `EveryDeployEnds` |
| `security_group` | 2 callers, 6 commands of which 3 set custom rules (one of them for two network configurations) and 1 has `subnet_locker`, 2 initial groups, 2 faults, priorities up to 1116; 261,733 states | `NoPriorityClash`, `RulesInBand`, `NoRuleLost`, `BatchLanded`, `CustomRulesReplaced`, `EveryBatchEnds`, `TypeOK`; the generator against its loop |
| `connectivity_in_turn` | sandboxes of 2 and 1 subnets over one range and the leftovers of an earlier one, 3 faults; 305,385 states | `PreparedComplete`, `CleanupComplete`, `CleanupNeverRefused`, `StaleReclaimed`, `EveryCommandEnds`, `TypeOK` |
| `connectivity_apart` | 2 concurrent sandboxes over the leftovers of a third, 1 fault; 631,721 states | `SubnetCallsSerialised`, `PreparedComplete` |
| `key_pairs` | 2 preparations, a deployment and an access key command, 1 fault; 75,580 states | `ReportedKeyOpens`, `NoCircularWait`, `OneKeyPair`, `EveryCommandEnds`, `TypeOK` |
| `lock_provider` | 2 threads, 1 clean-up, 4 keys of which 2 are used and 2 removed, 3 lock objects | `MutualExclusion`, `NoKeyError`, `LocksIndependent`, `LocksOnce`, `RequestsServed`, `TypeOK`, no deadlock |

Four more runs of `DeployVm` and one of `LockProvider` check a sentence of the
repository each and find it violated; see "Disagreements".

Why the bounds are enough. Two machines are every relation between a machine and
its neighbour; with three addresses and two interfaces each, the pool can run
dry with a machine half-made. Two interfaces are a first, a last and a repeated
pass of each loop. Two faults are one that starts a rollback or stops a deletion
and one in the rollback, the retry or the second deletion. In the live run calls
go wrong as often as they like, and only the attempts of the retried bodies end
them: three on connection errors are a first, one that is neither first nor last,
and a last; two on retryable errors within each are a first and a last that
begin anew (the code has 5 and 20, which the theorems cover). A timeout of one or
two waits has a script end before, at and past the bound. In `SecurityGroup` the batches without `subnet_locker`
have one start band in common, with named and unnamed rules, and the one under
`subnet_locker` has a band of its own, as in the code; one initial group has a
rule off the grid of five, the other old custom rules; the custom commands are
two rules in one batch, the same two in a batch each, and one rule, so that a
longer command is followed by a shorter one and the reverse; `MaxPriority` is small
enough for Azure's refusal to happen. In `LockProvider` a third lock object is
the re-creation of a removed key. There one of the used keys is also removed by
the clean-up, as the provider's own unit test does
(`tests/.../test_generic_lock_provider.py:24-33`), so that its removal meets
users; the properties about locks speak of the keys that are kept.

In `SandboxConnectivity` two subnets are a first and a last pass of each loop;
of three faults one makes a clean-up fail, so that its interfaces stay in their
subnet, one its repetition, and one the next preparation. The second sandbox
meets what the first really left, the first what an earlier one may have left
(a subset of its subnets, some with a security group). In `KeyPairs` two
preparations are one that fails and leaves its pool thread at work, or saves a
pair, and one after it; two getters are one that fills a cache and one that
waits for it.

Deadlock is checked for `LockProvider`. The others may stop, when all commands
have ended and there is nothing left to ask for; their liveness properties say
that no command stops half-way.

Fairness. `DeployVm!FairSpec`: a command's thread keeps running (weak fairness of
each deploy command); users may cancel and delete or not; a script may hang,
except while its result is awaited without a limit, since Azure ends every
extension at last (`AwaitedScriptEnds`). `SecurityGroup` and `LockProvider`:
threads run on inside a batch or method (weak fairness), and one that waits for
a lock gets it if it is free again and again (strong fairness on the
acquisitions, what a Python `Lock` gives in practice without a queue); no thread
is obliged to ask for a lock in `LockProvider`. `SandboxConnectivity` and
`KeyPairs`: strong fairness on the steps of each command or thread, for the same
reason, and none on the start of a command. That retries stop is, in `DeployVm`,
the code's own count of attempts; in the other modules `MaxFaults` stands for it,
the code's decorators having a fixed number of attempts there too.

## Disagreements with the repository's text

Each is a run that TLC ends with a short counterexample.

* `deploy_vm_leases`: the rollback never releases the addresses it should. It
  compares "Cloudshell Allocation" with "static" (`deploy_operation.py:455`).
* `deploy_vm_unrolled`: "Remove all created resources ... on any Exception"
  leaves out the exceptions past the `try`, and the OS disk.
* `deploy_vm_delete_twice`: a second deletion reports success over what the
  first one left, since it reads what to delete from a machine that is gone.
* `deploy_vm_inbound`: inbound rules are logged for each interface and end on
  the last one only.
* `lock_provider_leak`: the clean-up releases locks under keys nobody uses, and
  keeps those that were made.

## Proofs

All are checked by TLAPS, for every value of the constants that satisfies the
modules' assumptions. Every safety invariant, action property and refinement
that a passing run checks is a theorem; so is what the liveness properties rest
on, but for the fairness itself (see "Termination" below).

* `DeployVmProofs`: `TypeCorrect`, `Exclusive` (`AddressesExclusive`) and
  `PoolRefined` (`PoolKept`). Exclusiveness is not inductive: that an address is
  leased for its interface holds after a PUT because the command checked it out
  before (`ArgInv`, `CheckedOutInv`), and after a deletion's release because
  every interface that has an address in the snapshot is among those removed
  (`SnapshotLeased`, `SnapshotCovered`) and no deployment of that machine is
  running (`DeleteAfterDeploy`). `IInv` joins them. The refinement maps each
  step that changes `lessee` or an interface to one of the pool.
* `DeployVmLifeProofs`: `Completes` (`DeployedComplete`), `RollsBack`
  (`RolledBackClean`), `Deletes` (`DeletedClean`), `Ordered`
  (`DependencyOrder`) and `Honoured` (`CancelHonoured`). `Life(v)` says what exists of a machine at each place of
  its deployment (`Built`), its rollback (`Unbuilt`) and its deletion
  (`Deleted`), and that nothing exists that was not asked for (`Requested`),
  which is why the rollback and the snapshot miss nothing; a step of one machine
  leaves the others untouched (`Untouched`). A command that
  was cancelled in time is `Doomed`: every way on to a deployed machine passes a
  check of the flag, but the timeout of the script.
* `SecurityGroupProofs`: `GeneratorYieldsNextPriorities` (the loop of the code
  yields what `NextPriorities` says, for every sorted list, with duplicates or
  without, every start and every number of values). The recursive functions on
  both sides are shown to exist, and what holds at each cursor to hold at the
  next, by a least counterexample (`LeastElement`), since the induction theorems
  cannot be instantiated. `Walked` is what makes the first gap the least free
  priority: up to the cursor, no element of the list is more than a step above
  the one before it. `Reached` adds that each value yielded lengthens the list,
  so the cursor is inside it until enough are found: the loop never runs into
  the infinity at the end of its list without a value. `NextPriorityFresh` (the
  generator finds a priority and it is unused), `NextPriorityBounded` (with
  at most k priorities in use up to k steps above the start, it yields none
  above them, by counting the steps) and `TypeCorrect`. Under `Banded` (callers
  that start at one priority pass one lock, as in the code: in a sandbox's group
  from 1000 under the group's lock and from 2000 up under `subnet_locker`; in a
  machine's group under one lock), and as long as each batch stays in the band
  of its lock: `PrioritiesFree`, `RulesKept` and `BatchesLand`.
  `LockInv` says that a caller in a batch is the holder; `KnownInv` that the
  holder knows every priority of its band in the group, which the unlocked
  deletions only help; `LandedInv` what the earlier batches of a command and the
  first rules of the current one have left.
  Whether a batch stays in its band is a matter of how many rules there are:
  `StaysInBand` (`RulesInBand`) says it does while `HasRoom`, that is, while
  fewer than a fifth of the band's priorities are in use. This is the one
  condition of these theorems that the code does not enforce, and a group of
  more than 200 rules breaks it. `OneLockSuffices` says that nothing is asked of
  the number of rules when all callers share a lock. Under `CustomNaming` (a job
  has custom names if and only if it sets custom rules, and deletions by machine
  spare them): `CustomReplaced`, whatever the locks. `NoLockLeftBehind`: the
  holder of a lock is inside a batch under it.
* `LockProviderProofs`: `TypeCorrect`, `Exclusion` (`MutualExclusion`),
  `LockAlwaysFound` (`NoKeyError`), `LocksDistinct` (`LocksIndependent`) and
  `CacheRefined` (`LocksOnce`). `EntryInv` says that a thread past its read has
  the dictionary's lock for a kept key, `OwnerInv` ties lock owners to places in
  the code, `KeysInv` and `GuardInv` say what the two checks have established.
  `NoLockLeftBehind`: who has the provider's own lock, or a lock object, is
  inside it, so no one waits for a lock that nobody gives back.
* `SandboxConnectivityProofs`: `Serialised` (`SubnetCallsSerialised`). `LockInv`
  says that whoever is inside a call that writes a subnet is the locker, and
  nobody else is; one lemma each for staying in, staying out, taking and freeing
  the lock.
* `SandboxNetworkProofs`: `TypeCorrect`, `StaysPrepared` (`PreparedComplete`) and
  `CleansUp` (`CleanupComplete`). `Local(s)` says what a preparation, a route
  command and a clean-up of `s` have made or removed so far; `Quiet` what the
  steps of other sandboxes may do to `s`, and `Frame` that this is harmless. The
  point where it could fail is the removal of a stale subnet: it is not in use,
  because sandboxes that want one range are not at work together (`Ranges`) and
  something is in the way of its remover (`InTheWay`). `LockerNeverLeftBehind`:
  whoever has `subnet_locker` is in the middle of a call on a subnet.
* `SandboxRefusalsProofs`: `NeverRefused` (`CleanupNeverRefused`) and `Reclaims`
  (`StaleReclaimed`). Where a sandbox is at work others write nothing (`Written`,
  `Apart`), so what it has read there is still true when it is used (`Seen`),
  and a clean-up has detached all that refers to its group (`Detaching`).
* `KeyPairsProofs`: `TypeCorrect`, `ReportedKeySaved` (`ReportedKeyOpens`) and
  `PairRefined` (`OneKeyPair`), `NoDeadlock` (`NoCircularWait`) and
  `SomeoneGoesOn` (while a thread waits for the lock of a cache, another inside
  the caches can go on: the deepest one waits for nobody). `CacheInv` says which locks a thread in the
  nested caches holds and what it has found; `Sequence` how preparations and
  their pool threads follow one another; `Saved` what a pool thread that runs
  alone has written; `Readers` what may have been read.

The inductive invariants `IInv` of these modules, and `NetInv`, were checked by
TLC on the instances above before they were proved; `LifeInv`, `LandedInv` and
`SoleInv` were proved without that step, from properties TLC had checked.

Termination. In `DeployVmLifeProofs`, `SecurityGroupProofs`,
`SandboxNetworkProofs` and `KeyPairsProofs`, `Remaining` is how far a command is
from its end: `Place`, the steps left from where it is (with the interfaces,
rules, address ranges or waits its loop still has), and what retries may run
again: for each fault that is left, or, in `DeployVmLifeProofs`, for each attempt
that the body at hand and the later ones still have, with a whole timeout for each
of the script extension's. So `DeploysBounded` holds for every number of faults,
also without a limit. The theorems `...Bounded` (`DistanceBounded`)
say that `Remaining` is a natural number below a bound in terms of the constants,
and zero only for a command that has ended; `...Progress` (`DistanceShrinks`)
that every step of a command under way makes it smaller, a retry by the fault or
the attempt it costs, and that no step of another command, a deletion or a user
makes it larger. Two of them ask for finitely many custom names, or address ranges. Together with
the theorems about locks (nobody waits for a lock whose holder is not at work)
this is the argument for the commands' end: a loop that does not advance, a
retry without a limit or an error path that keeps a lock would each break one of
them. The bounds hold for the whole of a behaviour, without fairness. That fair
behaviours reach the end is the step TLC checks.

Only model-checked: liveness under fairness (`EveryDeployEnds`, `EveryBatchEnds`,
`RequestsServed`, the two `EveryCommandEnds`; the prover cannot reason about
fairness and ENABLED).

## Not modelled

* *Power operations.* One call each. `PowerAzureVMOperation` refuses to power on
  a machine with `extension_time_out` (`power_operation.py:23-31`), but the
  deployment notes a timeout in a local variable only (`deploy_operation.py:215`).
* *Details, ports, address refresh, autoload.* Reads and validations, without
  state.
* *Facade, parsers, models, names, tags, images, passwords, encryption.* Wiring
  and conversions; unit tests reach them.
* *Azure clients.* A lock around one double check, the pattern of
  `LockProvider` and `KeyPairs` with nothing of its own.
* *Blob copies.* `StorageService.copy_blob` has no caller but its unit tests at
  this commit.
* *Isolated groups and `delete_security_rules`.* They have no caller.
* *Content of rules, routes and requests.* Ports, addresses, tags and sizes are
  passed through; no property is about them.
