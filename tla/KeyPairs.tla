------------------------------ MODULE KeyPairs ------------------------------
(***************************************************************************)
(* The SSH key pair of one sandbox.  prepare_connectivity makes it in a     *)
(* thread of its own, which creates the storage account and saves the pair  *)
(* as two files, beside the main thread that creates the network; then it   *)
(* reports the private key to CloudShell.  Deployments (the public key) and *)
(* the access key command (the private one) read the pair back through      *)
(* three caches that live as long as the process: pairs, file services,     *)
(* account keys.  Each is double-checked under its own lock, and filling    *)
(* one looks into the next with the lock still held.                        *)
(*                                                                          *)
(* CloudShell prepares a sandbox again when a preparation failed, or when   *)
(* its setup is run again, never twice at a time; but a preparation whose   *)
(* main thread raises does not wait for its pool thread.  Machines are      *)
(* deployed, and keys asked for, in a sandbox that has been prepared.       *)
(***************************************************************************)
EXTENDS Naturals

CONSTANTS
  MaxRuns,   \* bound on the preparations of the sandbox
  Getter,    \* commands that read the pair
  MaxFaults, \* bound on the calls that fail
  NONE

Run == 1 .. MaxRuns  \* a preparation, its pool thread, and the pair it generates
Thread == Getter \union Run
Cache == {"pairs", "services", "accounts"}
Part == {"public", "private"}
Pair == Run \X Run   \* whose public part, whose private part
NoFile == 0

ASSUME KeyPairsAssumption ==
  /\ MaxRuns \in Nat /\ MaxFaults \in Nat
  /\ Getter \intersect Nat = {} /\ NONE \notin Thread \union Pair

VARIABLES
  main,      \* where the main thread of each preparation is
  cancelled, \* preparations whose cancellation was asked for
  account,   \* whether the storage account exists
  files,     \* the pair each of the two files comes from, or NoFile
  ready,     \* which of file service and account key are cached
  cached,    \* the cached pair, or NONE
  holder,    \* the thread inside the lock of each cache, or NONE
  pc,
  in,        \* the cache a thread is looking into
  part,      \* the file a thread saves or reads
  half,      \* the public part a getter has read
  got,       \* the pair each getter has received, or NONE
  reported,  \* preparations whose result holds their private key
  raced,     \* preparations begun while an earlier pool thread was at work
  faults

storage == <<account, files>>
caches == <<ready, cached, holder>>
local == <<in, part, half>>
results == <<got, reported>>
vars == <<main, cancelled, storage, caches, pc, local, results, raced, faults>>

Init ==
  /\ main = [r \in Run |-> "idle"] /\ cancelled = {} /\ raced = {}
  /\ account = FALSE /\ files = [p \in Part |-> NoFile]
  /\ ready = {} /\ cached = NONE /\ holder = [c \in Cache |-> NONE]
  /\ pc = [t \in Thread |-> "idle"]
  /\ in = [t \in Thread |-> "pairs"]
  /\ part = [t \in Thread |-> "public"]
  /\ half = [t \in Thread |-> NoFile]
  /\ got = [g \in Getter |-> NONE] /\ reported = {}
  /\ faults = 0

Goto(t, from, to) == pc[t] = from /\ pc' = [pc EXCEPT ![t] = to]
Fault == faults < MaxFaults /\ faults' = faults + 1
Over(r) == main[r] \in {"done", "failed"}
AtWork(r) == pc[r] \notin {"idle", "done", "failed"}
Prepared == \E r \in Run : main[r] = "done"
-----------------------------------------------------------------------------
(* prepare_connectivity, the main thread                                   *)

MainTo(r, from, to) == main[r] = from /\ main' = [main EXCEPT ![r] = to]

StartPrepare(r) ==
  /\ MainTo(r, "idle", "group") /\ \A q \in Run : q < r => Over(q)
  /\ raced' = IF \E q \in Run : q < r /\ AtWork(q) THEN raced \union {r} ELSE raced
  /\ UNCHANGED <<cancelled, storage, caches, pc, local, results, faults>>

(* The resource group; then pool.apply_async.                              *)
StartPool(r) ==
  /\ r \notin cancelled /\ MainTo(r, "group", "network") /\ Goto(r, "idle", "create")
  /\ UNCHANGED <<cancelled, storage, caches, local, results, raced, faults>>

(* Virtual network, security group, rules and subnets.                     *)
BuildNetwork(r) ==
  /\ r \notin cancelled /\ MainTo(r, "network", "join")
  /\ UNCHANGED <<cancelled, storage, caches, pc, local, results, raced, faults>>

(* An exception or a cancellation: the pool thread is left alone.          *)
MainRaises(r) ==
  /\ MainTo(r, "group", "failed") \/ MainTo(r, "network", "failed")
  /\ \/ r \in cancelled /\ UNCHANGED faults
     \/ Fault
  /\ UNCHANGED <<cancelled, storage, caches, pc, local, results, raced>>

JoinSkippedBug(r) ==
  /\ MainTo(r, "join", "done")
  /\ UNCHANGED <<cancelled, storage, caches, pc, local, results, raced, faults>>

(* pool.join, without a limit, and the get that raises what the pool       *)
(* thread raised.                                                          *)
JoinPool(r) ==
  /\ \/ pc[r] = "done" /\ MainTo(r, "join", "done")
     \/ pc[r] = "failed" /\ MainTo(r, "join", "failed")
  /\ UNCHANGED <<cancelled, storage, caches, pc, local, results, raced, faults>>

Cancel(r) ==
  /\ main[r] \in {"group", "network", "join"}
  /\ cancelled' = cancelled \union {r}
  /\ UNCHANGED <<main, storage, caches, pc, local, results, raced, faults>>
-----------------------------------------------------------------------------
(* StorageService and KeyPairService: the caches.  Deviations (named        *)
(* ...Bug) are slips the properties below must reveal.                      *)

Filled(c) == IF c = "pairs" THEN cached # NONE ELSE c \in ready
Inside(t, c) == in' = [in EXCEPT ![t] = c]
Release(t, cs) == holder' = [c \in Cache |-> IF c \in cs /\ holder[c] = t THEN NONE ELSE holder[c]]

(* What a thread goes on with when it has found the entry it looked for.    *)
Found(t) ==
  CASE in[t] = "accounts" -> /\ pc' = [pc EXCEPT ![t] = "fill"] /\ Inside(t, "services")
    [] in[t] = "services" -> /\ pc' = [pc EXCEPT ![t] = "file"] /\ UNCHANGED in
    [] in[t] = "pairs"    -> /\ pc' = [pc EXCEPT ![t] = "return"] /\ UNCHANGED in

(* The first check, outside the lock.                                      *)
Check(t) ==
  /\ pc[t] = "check"
  /\ IF Filled(in[t]) THEN Found(t) ELSE pc' = [pc EXCEPT ![t] = "lock"] /\ UNCHANGED in
  /\ UNCHANGED <<main, cancelled, storage, caches, part, half, results, raced, faults>>

Lock(t) ==
  /\ Goto(t, "lock", "recheck")
  /\ holder[in[t]] = NONE /\ holder' = [holder EXCEPT ![in[t]] = t]
  /\ UNCHANGED <<main, cancelled, storage, ready, cached, local, results, raced, faults>>

(* A miss looks into the cache below; only the last has a call to make.     *)
Miss(t) ==
  /\ pc' = [pc EXCEPT ![t] = IF in[t] = "accounts" THEN "fill" ELSE "check"]
  /\ CASE in[t] = "pairs"    -> Inside(t, "services")
       [] in[t] = "services" -> Inside(t, "accounts")
       [] in[t] = "accounts" -> UNCHANGED in

NoRecheckBug(t) ==
  /\ pc[t] = "recheck" /\ Miss(t)
  /\ UNCHANGED <<main, cancelled, storage, caches, part, half, results, raced, faults>>

(* The second check, under the lock.                                       *)
Recheck(t) ==
  /\ pc[t] = "recheck"
  /\ \/ Filled(in[t]) /\ Found(t) /\ Release(t, {in[t]})
     \/ ~Filled(in[t]) /\ Miss(t) /\ UNCHANGED holder
  /\ UNCHANGED <<main, cancelled, storage, ready, cached, part, half, results, raced, faults>>

(* list_keys, or a new FileService over the key.                           *)
Fill(t) ==
  /\ pc[t] = "fill" /\ Found(t)
  /\ ready' = ready \union {in[t]} /\ Release(t, {in[t]})
  /\ UNCHANGED <<main, cancelled, storage, cached, part, half, results, raced, faults>>

RaisesInsideBug(t) == UNCHANGED holder /\ pc' = [pc EXCEPT ![t] = "failed"]
Raises(t) == Release(t, Cache) /\ pc' = [pc EXCEPT ![t] = "failed"]

(* A failed call unwinds to the retry of _get_storage_account_key, to that  *)
(* of get_file and create_file, or, when they are used up or the error is   *)
(* not theirs, out of the command; each "with" on the way ends.             *)
CallFails(t) ==
  /\ Fault
  /\ \/ pc[t] = "fill" /\ in[t] = "accounts" /\ UNCHANGED files
     \/ pc[t] = "file" /\ UNCHANGED files
     \/ pc[t] = "file" /\ t \in Run /\ files' = [files EXCEPT ![part[t]] = t]
  /\ \/ /\ pc[t] = "fill" /\ Release(t, {"accounts"})
        /\ pc' = [pc EXCEPT ![t] = "check"] /\ UNCHANGED in
     \/ /\ Release(t, {"accounts", "services"})
        /\ pc' = [pc EXCEPT ![t] = "check"] /\ Inside(t, "services")
     \/ Raises(t) /\ UNCHANGED in
  /\ UNCHANGED <<main, cancelled, account, ready, cached, part, half, results, raced>>
-----------------------------------------------------------------------------
(* _create_storage_and_keypairs, the pool thread                           *)

CreateAccount(r) ==
  /\ Goto(r, "create", "generate") /\ account' = TRUE
  /\ UNCHANGED <<main, cancelled, files, caches, local, results, raced, faults>>

CreateAccountFails(r) ==
  /\ Fault
  /\ Goto(r, "create", "create") \/ Goto(r, "create", "failed")
  /\ account' \in {account, TRUE}
  /\ UNCHANGED <<main, cancelled, files, caches, local, results, raced>>

(* generate_key_pair; save_key_pair begins with the public file.           *)
Generate(r) ==
  /\ r \notin cancelled /\ Goto(r, "generate", "check") /\ Inside(r, "services")
  /\ UNCHANGED <<main, cancelled, storage, caches, part, half, results, raced, faults>>

(* create_file: the share, unless it exists, and the file.                 *)
WriteFile(r) ==
  /\ pc[r] = "file" /\ files' = [files EXCEPT ![part[r]] = r]
  /\ IF part[r] = "public"
       THEN pc' = [pc EXCEPT ![r] = "check"] /\ part' = [part EXCEPT ![r] = "private"]
       ELSE pc' = [pc EXCEPT ![r] = "report"] /\ UNCHANGED part
  /\ UNCHANGED <<main, cancelled, account, caches, in, half, results, raced, faults>>

Report(r) ==
  /\ r \notin cancelled /\ Goto(r, "report", "done") /\ reported' = reported \union {r}
  /\ UNCHANGED <<main, cancelled, storage, caches, local, got, raced, faults>>

PoolCancelled(r) ==
  /\ r \in cancelled
  /\ Goto(r, "generate", "failed") \/ Goto(r, "report", "failed")
  /\ UNCHANGED <<main, cancelled, storage, caches, local, results, raced, faults>>
-----------------------------------------------------------------------------
(* get_key_pair, for a deployment or the access key command                *)

StartGet(g) ==
  /\ Prepared /\ Goto(g, "idle", "find")
  /\ UNCHANGED <<main, cancelled, storage, caches, local, results, raced, faults>>

(* get_sandbox_storage_account_name: the one account of the group.          *)
FindAccount(g) ==
  /\ \/ account /\ Goto(g, "find", "check") /\ UNCHANGED faults
     \/ Fault /\ Goto(g, "find", "failed")
  /\ UNCHANGED <<main, cancelled, storage, caches, local, results, raced>>

ReadFileCachesHalfBug(g) ==
  /\ pc[g] = "file" /\ cached' = <<files["public"], half[g]>> /\ Release(g, {"pairs"})
  /\ pc' = [pc EXCEPT ![g] = "return"] /\ Inside(g, "pairs")
  /\ UNCHANGED <<main, cancelled, storage, ready, half, part, results, raced, faults>>

(* A prepared sandbox has both files: nothing removes them.                *)
ReadFile(g) ==
  /\ pc[g] = "file" /\ files[part[g]] # NoFile
  /\ IF part[g] = "public"
       THEN /\ half' = [half EXCEPT ![g] = files["public"]]
            /\ part' = [part EXCEPT ![g] = "private"]
            /\ pc' = [pc EXCEPT ![g] = "check"] /\ UNCHANGED <<cached, holder, in>>
       ELSE /\ cached' = <<half[g], files["private"]>> /\ Release(g, {"pairs"})
            /\ pc' = [pc EXCEPT ![g] = "return"] /\ Inside(g, "pairs")
            /\ UNCHANGED <<half, part>>
  /\ UNCHANGED <<main, cancelled, storage, ready, results, raced, faults>>

ReturnPair(g) ==
  /\ Goto(g, "return", "done") /\ got' = [got EXCEPT ![g] = cached]
  /\ UNCHANGED <<main, cancelled, storage, caches, local, reported, raced, faults>>
-----------------------------------------------------------------------------
MainStep(r) == StartPool(r) \/ BuildNetwork(r) \/ MainRaises(r) \/ JoinPool(r)
PoolStep(r) == CreateAccount(r) \/ Generate(r) \/ WriteFile(r) \/ Report(r) \/ PoolCancelled(r)
GetStep(g) == FindAccount(g) \/ ReadFile(g) \/ ReturnPair(g)
CacheStep(t) == Check(t) \/ Lock(t) \/ Recheck(t) \/ Fill(t)

Next ==
  \/ \E r \in Run : StartPrepare(r) \/ MainStep(r) \/ Cancel(r) \/ PoolStep(r) \/ CreateAccountFails(r)
  \/ \E g \in Getter : StartGet(g) \/ GetStep(g)
  \/ \E t \in Thread : CacheStep(t) \/ CallFails(t)

Spec == Init /\ [][Next]_vars

(* Threads run, Azure answers, and a thread that keeps finding a lock free  *)
(* gets it.                                                                *)
FairSpec ==
  /\ Spec
  /\ \A r \in Run : WF_vars(MainStep(r)) /\ SF_vars(PoolStep(r) \/ CacheStep(r))
  /\ \A g \in Getter : SF_vars(GetStep(g) \/ CacheStep(g))
-----------------------------------------------------------------------------
(* The types of the state.                                                 *)
TypeOK ==
  /\ main \in [Run -> {"idle", "group", "network", "join", "done", "failed"}]
  /\ cancelled \subseteq Run /\ reported \subseteq Run /\ raced \subseteq Run
  /\ account \in BOOLEAN /\ files \in [Part -> Run \union {NoFile}]
  /\ ready \subseteq {"services", "accounts"}
  /\ cached \in Pair \union {NONE}
  /\ holder \in [Cache -> Thread \union {NONE}]
  /\ pc \in [Thread -> {"idle", "create", "generate", "find", "check", "lock", "recheck", "fill",
                        "file", "report", "return", "done", "failed"}]
  /\ in \in [Thread -> Cache] /\ part \in [Thread -> Part]
  /\ half \in [Thread -> Run \union {NoFile}]
  /\ got \in [Getter -> Pair \union {NONE}]
  /\ faults \in 0 .. MaxFaults

(* The latest preparation reported success and no pool thread of an earlier *)
(* one was still at work when it began.                                     *)
Settled(r) == main[r] = "done" /\ r \notin raced /\ \A q \in Run : q > r => main[q] = "idle"

(* "wait for all async operations": a preparation that reports success has  *)
(* saved both parts of the very key it reports, whatever was retried, and    *)
(* whatever the preparations before it left in the storage; and if no       *)
(* preparation had succeeded before, that is the pair all commands get.     *)
ReportedKeyOpens ==
  \A r \in Run : Settled(r) =>
    /\ r \in reported /\ \A p \in Part : files[p] = r
    /\ (\A q \in Run \ {r} : main[q] # "done") =>
         \A g \in Getter : got[g] \in {NONE, <<r, r>>}

(* The machines and the users of a sandbox all get one pair.               *)
Once == INSTANCE WriteOnce WITH
  Key <- {"pairs"}, Client <- Getter, Value <- Pair,
  cell <- [k \in {"pairs"} |-> cached],
  answer <- [g \in Getter |-> [k \in {"pairs"} |-> got[g]]]
OneKeyPair == Once!Spec

(* Filling a cache looks into the one below with the lock held: the lock a   *)
(* thread waits for is held by another that is at work, not by one that has   *)
(* left or waits for the first, whatever raised or was retried on the way.   *)
Depth == [pairs |-> 1, services |-> 2, accounts |-> 3]
NoCircularWait ==
  \A t \in Thread : \A u \in Thread : pc[t] = "lock" /\ holder[in[t]] = u =>
    /\ u # t /\ pc[u] \in {"check", "lock", "recheck", "fill", "file"}
    /\ pc[u] = "lock" => Depth[in[u]] > Depth[in[t]]

(* Nobody waits for ever for the pool thread or for the nested locks.       *)
EveryCommandEnds ==
  /\ \A r \in Run : main[r] = "group" ~> Over(r) /\ ~AtWork(r)
  /\ \A g \in Getter : pc[g] = "find" ~> pc[g] \in {"done", "failed"}
=============================================================================
