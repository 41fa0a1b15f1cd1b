--------------------------- MODULE KeyPairsProofs ---------------------------
(***************************************************************************)
(* The key pair of a sandbox, for any number of preparations, commands and   *)
(* failed calls: CacheInv says what a thread inside the nested caches has    *)
(* locked and found, Sequence how preparations and their pool threads follow *)
(* one another, Saved what the pool thread of a preparation that runs alone  *)
(* has written, Readers what the commands may have read of it.               *)
(***************************************************************************)
EXTENDS KeyPairs, TLAPS

Looking == {"check", "lock", "recheck", "fill", "file"}

CacheInv(t) ==
  /\ pc[t] = "file" => in[t] = "services"
  /\ pc[t] = "fill" => in[t] # "pairs"
  /\ t \in Run /\ pc[t] \in Looking => in[t] # "pairs"
  /\ t \in Getter =>
       /\ pc[t] \in Looking /\ in[t] # "pairs" => holder["pairs"] = t /\ cached = NONE
       /\ pc[t] = "recheck" => holder["pairs"] = t
       /\ pc[t] = "return" => cached # NONE
       /\ pc[t] \in {"idle", "find"} => in[t] = "pairs"
       /\ part[t] = "private" => half[t] \in Run

Sequence(r) ==
  /\ main[r] \in {"idle", "group"} => pc[r] = "idle"
  /\ main[r] = "done" => pc[r] = "done"
  /\ pc[r] = "done" => r \in reported
  /\ main[r] # "idle" => \A q \in Run : q < r => Over(q)
  /\ main[r] # "idle" /\ r \notin raced => \A q \in Run : q < r => ~AtWork(q)

(* No other preparation writes while the pool thread of this one runs.      *)
Alone(r) == main[r] # "idle" /\ r \notin raced /\ \A q \in Run : q > r => main[q] = "idle"

Saved(r) ==
  /\ pc[r] \in {"idle", "create", "generate"} => part[r] = "public"
  /\ Alone(r) =>
       /\ pc[r] \in Looking /\ part[r] = "private" => files["public"] = r
       /\ pc[r] \in {"report", "done"} => \A p \in Part : files[p] = r

Only(r) == Settled(r) /\ \A q \in Run \ {r} : main[q] # "done"

Readers ==
  /\ ~Prepared =>
       /\ cached = NONE
       /\ \A g \in Getter : pc[g] = "idle" /\ half[g] = NoFile /\ got[g] = NONE
  /\ \A r \in Run : Only(r) =>
       /\ cached \in {NONE, <<r, r>>}
       /\ \A g \in Getter : half[g] \in {NoFile, r} /\ got[g] \in {NONE, <<r, r>>}

IInv ==
  /\ TypeOK /\ Readers
  /\ \A t \in Thread : CacheInv(t)
  /\ \A r \in Run : Sequence(r) /\ Saved(r)
-----------------------------------------------------------------------------
LEMMA Kinds ==
  /\ Run \subseteq Thread /\ Getter \subseteq Thread /\ Run \intersect Getter = {}
  /\ Run \subseteq Nat /\ NoFile \notin Run /\ NONE \notin Thread /\ NONE \notin Pair
BY KeyPairsAssumption DEF Run, Thread, NoFile

LEMMA FaultsCounted ==
  ASSUME TypeOK, UNCHANGED faults \/ Fault
  PROVE  faults' \in 0 .. MaxFaults
BY KeyPairsAssumption DEF TypeOK, Fault

LEMMA ReleaseTyped ==
  ASSUME TypeOK, NEW t, NEW cs, Release(t, cs)
  PROVE  holder' \in [Cache -> Thread \union {NONE}]
BY DEF TypeOK, Release

LEMMA TypeMain ==
  ASSUME TypeOK, NEW r \in Run, StartPrepare(r) \/ MainStep(r) \/ Cancel(r)
  PROVE  TypeOK'
<1> USE Kinds DEF TypeOK, MainTo, Goto
<1>1. faults' \in 0 .. MaxFaults
  <2>1. UNCHANGED faults \/ Fault
    BY DEF StartPrepare, MainStep, StartPool, BuildNetwork, MainRaises, JoinPool, Cancel
  <2> QED BY <2>1, FaultsCounted
<1>2. CASE StartPrepare(r)
  <2>1. raced' = raced \/ raced' = raced \union {r}
    BY <1>2 DEF StartPrepare
  <2> QED
    BY <1>1, <1>2, <2>1 DEF StartPrepare, storage, caches, local, results
<1>6. CASE Cancel(r)
  BY <1>1, <1>6 DEF Cancel, storage, caches, local, results
<1>3. CASE StartPool(r)
  BY <1>1, <1>3 DEF StartPool, storage, caches, local, results
<1>4. CASE BuildNetwork(r)
  BY <1>1, <1>4 DEF BuildNetwork, storage, caches, local, results
<1>5. CASE MainRaises(r)
  BY <1>1, <1>5 DEF MainRaises, storage, caches, local, results
<1>7. CASE JoinPool(r)
  BY <1>1, <1>7 DEF JoinPool, storage, caches, local, results
<1> QED
  BY <1>2, <1>3, <1>4, <1>5, <1>6, <1>7 DEF MainStep

LEMMA TypePool ==
  ASSUME TypeOK, NEW r \in Run, PoolStep(r) \/ CreateAccountFails(r)
  PROVE  TypeOK'
<1> USE Kinds DEF TypeOK, Goto, Cache, Part
<1>1. faults' \in 0 .. MaxFaults
  <2>1. UNCHANGED faults \/ Fault
    BY DEF PoolStep, CreateAccount, Generate, WriteFile, Report, PoolCancelled, CreateAccountFails
  <2> QED BY <2>1, FaultsCounted
<1>2. CASE CreateAccount(r)
  BY <1>1, <1>2 DEF CreateAccount, caches, local, results
<1>3. CASE Generate(r)
  BY <1>1, <1>3 DEF Generate, Inside, storage, caches, results
<1>4. CASE WriteFile(r)
  BY <1>1, <1>4 DEF WriteFile, caches, results
<1>5. CASE Report(r)
  BY <1>1, <1>5 DEF Report, storage, caches, local, results
<1>6. CASE PoolCancelled(r)
  BY <1>1, <1>6 DEF PoolCancelled, storage, caches, local, results
<1>7. CASE CreateAccountFails(r)
  <2>1. account' \in BOOLEAN
    BY <1>7 DEF CreateAccountFails
  <2>2. pc' \in [Thread -> {"idle", "create", "generate", "find", "check", "lock", "recheck", "fill",
                           "file", "report", "return", "done", "failed"}]
    BY <1>7 DEF CreateAccountFails
  <2> QED
    BY <1>1, <1>7, <2>1, <2>2 DEF CreateAccountFails, caches, local, results
<1> QED
  BY <1>2, <1>3, <1>4, <1>5, <1>6, <1>7 DEF PoolStep

LEMMA TypeGet ==
  ASSUME TypeOK, NEW g \in Getter, CacheInv(g), StartGet(g) \/ GetStep(g)
  PROVE  TypeOK'
<1> USE Kinds DEF TypeOK, Goto, Cache, Part
<1>1. faults' \in 0 .. MaxFaults
  <2>1. UNCHANGED faults \/ Fault
    BY DEF StartGet, GetStep, FindAccount, ReadFile, ReturnPair
  <2> QED BY <2>1, FaultsCounted
<1>2. CASE StartGet(g) \/ FindAccount(g)
  BY <1>1, <1>2 DEF StartGet, FindAccount, storage, caches, local, results
<1>3. CASE ReadFile(g)
  <2>1. CASE part[g] = "public"
    BY <1>1, <1>3, <2>1 DEF ReadFile, storage, results
  <2>2. CASE part[g] # "public"
    <3>1. part[g] = "private"
      BY <2>2
    <3>2. <<half[g], files["private"]>> \in Pair
      BY <1>3, <3>1 DEF ReadFile, CacheInv, Pair
    <3>3. holder' \in [Cache -> Thread \union {NONE}]
      BY <1>3, <2>2, ReleaseTyped DEF ReadFile
    <3> QED
      BY <1>1, <1>3, <2>2, <3>2, <3>3 DEF ReadFile, Inside, storage, results
  <2> QED
    BY <2>1, <2>2
<1>4. CASE ReturnPair(g)
  BY <1>1, <1>4 DEF ReturnPair, storage, caches, local
<1> QED
  BY <1>2, <1>3, <1>4 DEF GetStep

(* A thread that has found an entry goes to one of these places.            *)
LEMMA FoundGoes ==
  ASSUME TypeOK, NEW t \in Thread, Found(t)
  PROVE  \/ in[t] = "accounts" /\ pc' = [pc EXCEPT ![t] = "fill"] /\ in' = [in EXCEPT ![t] = "services"]
         \/ in[t] = "services" /\ pc' = [pc EXCEPT ![t] = "file"] /\ in' = in
         \/ in[t] = "pairs" /\ pc' = [pc EXCEPT ![t] = "return"] /\ in' = in
<1>1. in[t] \in {"accounts", "services", "pairs"}
  BY DEF TypeOK, Cache
<1> QED
  BY <1>1 DEF Found, Inside

LEMMA MissGoes ==
  ASSUME TypeOK, NEW t \in Thread, Miss(t)
  PROVE  \/ in[t] = "pairs" /\ pc' = [pc EXCEPT ![t] = "check"] /\ in' = [in EXCEPT ![t] = "services"]
         \/ in[t] = "services" /\ pc' = [pc EXCEPT ![t] = "check"] /\ in' = [in EXCEPT ![t] = "accounts"]
         \/ in[t] = "accounts" /\ pc' = [pc EXCEPT ![t] = "fill"] /\ in' = in
<1>1. in[t] \in {"accounts", "services", "pairs"}
  BY DEF TypeOK, Cache
<1> QED
  BY <1>1 DEF Miss, Inside

LEMMA TypeCache ==
  ASSUME TypeOK, NEW t \in Thread, CacheInv(t), CacheStep(t) \/ CallFails(t)
  PROVE  TypeOK'
<1> USE Kinds DEF TypeOK, Goto, Cache, Part
<1>1. faults' \in 0 .. MaxFaults
  <2>1. UNCHANGED faults \/ Fault
    BY DEF CacheStep, Check, Lock, Recheck, Fill, CallFails
  <2> QED BY <2>1, FaultsCounted
<1>2. CASE Check(t)
  <2>1. Found(t) \/ (pc' = [pc EXCEPT ![t] = "lock"] /\ in' = in)
    BY <1>2 DEF Check
  <2> QED
    BY <1>1, <1>2, <2>1, FoundGoes DEF Check, storage, caches, results
<1>3. CASE Lock(t)
  BY <1>1, <1>3 DEF Lock, storage, local, results
<1>4. CASE Recheck(t)
  <2>1. holder' \in [Cache -> Thread \union {NONE}]
    BY <1>4, ReleaseTyped DEF Recheck
  <2>2. Found(t) \/ Miss(t)
    BY <1>4 DEF Recheck
  <2> QED
    BY <1>1, <1>4, <2>1, <2>2, FoundGoes, MissGoes DEF Recheck, storage, results
<1>5. CASE Fill(t)
  <2>1. holder' \in [Cache -> Thread \union {NONE}]
    BY <1>5, ReleaseTyped DEF Fill
  <2>2. in[t] \in {"services", "accounts"}
    BY <1>5 DEF Fill, CacheInv
  <2>3. ready' \subseteq {"services", "accounts"}
    BY <1>5, <2>2 DEF Fill
  <2>4. /\ pc' \in [Thread -> {"idle", "create", "generate", "find", "check", "lock", "recheck", "fill",
                              "file", "report", "return", "done", "failed"}]
        /\ in' \in [Thread -> Cache]
    BY <1>5, FoundGoes DEF Fill
  <2>5. UNCHANGED <<main, cancelled, storage, cached, part, half, results, raced>>
    BY <1>5 DEF Fill
  <2> QED
    BY <1>1, <2>1, <2>3, <2>4, <2>5 DEF storage, results
<1>6. CASE CallFails(t)
  <2>1. holder' \in [Cache -> Thread \union {NONE}]
    BY <1>6, ReleaseTyped DEF CallFails, Raises
  <2>2. files' \in [Part -> Run \union {NoFile}]
    BY <1>6 DEF CallFails
  <2>3. \/ \E l \in {"check", "failed"} : pc' = [pc EXCEPT ![t] = l] /\ in' = in
        \/ pc' = [pc EXCEPT ![t] = "check"] /\ in' = [in EXCEPT ![t] = "services"]
    BY <1>6 DEF CallFails, Raises, Inside
  <2> QED
    BY <1>1, <1>6, <2>1, <2>2, <2>3 DEF CallFails, results
<1> QED
  BY <1>2, <1>3, <1>4, <1>5, <1>6 DEF CacheStep
-----------------------------------------------------------------------------
(* What a step of another thread leaves of what a thread has locked.        *)
LEMMA Undisturbed ==
  ASSUME NEW t \in Thread, CacheInv(t),
         pc'[t] = pc[t], in'[t] = in[t], part'[t] = part[t], half'[t] = half[t],
         holder["pairs"] = t => holder'["pairs"] = t /\ cached' = cached,
         cached # NONE => cached' # NONE
  PROVE  CacheInv(t)'
BY DEF CacheInv

(* A thread gives back and takes locks of its own only.                     *)
LEMMA LocksOfOthers ==
  ASSUME TypeOK, NEW u \in Thread, NEW t \in Thread \ {u}, NEW cs,
         Release(u, cs), holder["pairs"] = t
  PROVE  holder'["pairs"] = t
BY DEF Release, Cache

LEMMA PairsKept ==
  ASSUME TypeOK, NEW u \in Thread, NEW cs, "pairs" \notin cs, Release(u, cs)
  PROVE  holder'["pairs"] = holder["pairs"]
BY DEF Release, Cache

LEMMA CacheByCache ==
  ASSUME TypeOK, \A t \in Thread : CacheInv(t), NEW u \in Thread, CacheStep(u) \/ CallFails(u)
  PROVE  \A t \in Thread : CacheInv(t)'
<1> USE Kinds
<1>1. /\ pc \in [Thread -> {"idle", "create", "generate", "find", "check", "lock", "recheck", "fill",
                            "file", "report", "return", "done", "failed"}]
      /\ in \in [Thread -> Cache] /\ holder \in [Cache -> Thread \union {NONE}]
  BY DEF TypeOK
<1>2. UNCHANGED <<cached, part, half>>
  BY DEF CacheStep, Check, Lock, Recheck, Fill, CallFails, caches, local
<1>3. ASSUME NEW t \in Thread \ {u} PROVE CacheInv(t)'
  <2>1. pc'[t] = pc[t] /\ in'[t] = in[t]
    <3>1. CASE Check(u)
      BY <1>1, <3>1, FoundGoes DEF Check
    <3>2. CASE Lock(u)
      BY <1>1, <3>2 DEF Lock, Goto, local
    <3>3. CASE Recheck(u)
      BY <1>1, <3>3, FoundGoes, MissGoes DEF Recheck
    <3>4. CASE Fill(u)
      BY <1>1, <3>4, FoundGoes DEF Fill
    <3>5. CASE CallFails(u)
      BY <1>1, <3>5 DEF CallFails, Raises, Inside
    <3> QED
      BY <3>1, <3>2, <3>3, <3>4, <3>5 DEF CacheStep
  <2>2. ASSUME holder["pairs"] = t PROVE holder'["pairs"] = t
    <3>1. CASE Lock(u)
      BY <1>1, <2>2, <3>1 DEF Lock
    <3>2. holder' = holder \/ Lock(u) \/ \E cs : Release(u, cs)
      BY DEF CacheStep, Check, Recheck, Fill, CallFails, Raises, caches
    <3> QED
      BY <2>2, <3>1, <3>2, LocksOfOthers
  <2> QED
    BY <1>2, <2>1, <2>2, Undisturbed
<1>4. CacheInv(u)'
  <2>1. CacheInv(u)
    OBVIOUS
  <2>2. CASE Check(u)
    <3>1. holder' = holder /\ pc[u] = "check"
      BY <2>2 DEF Check, caches
    <3>2. \/ pc' = [pc EXCEPT ![u] = "lock"] /\ in' = in
          \/ Filled(in[u]) /\ Found(u)
      BY <2>2 DEF Check
    <3>3. CASE pc' = [pc EXCEPT ![u] = "lock"] /\ in' = in
      BY <1>1, <1>2, <2>1, <3>1, <3>3 DEF CacheInv, Looking
    <3>4. CASE Filled(in[u]) /\ Found(u)
      <4>1. in[u] = "pairs" => cached # NONE
        BY <3>4 DEF Filled
      <4> QED
        BY <1>1, <1>2, <2>1, <3>1, <3>4, <4>1, FoundGoes DEF CacheInv, Looking
    <3> QED
      BY <3>2, <3>3, <3>4
  <2>3. CASE Lock(u)
    <3>1. /\ pc[u] = "lock" /\ pc' = [pc EXCEPT ![u] = "recheck"] /\ in' = in
          /\ holder[in[u]] = NONE /\ holder' = [holder EXCEPT ![in[u]] = u]
      BY <2>3 DEF Lock, Goto, local
    <3>2. in[u] = "pairs" => holder'["pairs"] = u
      BY <1>1, <3>1 DEF Cache
    <3>3. holder["pairs"] = u => in[u] # "pairs" /\ holder'["pairs"] = u
      BY <1>1, <3>1 DEF Cache
    <3> QED
      BY <1>1, <1>2, <2>1, <3>1, <3>2, <3>3 DEF CacheInv, Looking
  <2>4. CASE Recheck(u)
    <3>1. /\ pc[u] = "recheck"
          /\ \/ Filled(in[u]) /\ Found(u) /\ Release(u, {in[u]})
             \/ ~Filled(in[u]) /\ Miss(u) /\ holder' = holder
      BY <2>4 DEF Recheck
    <3>2. CASE Filled(in[u]) /\ Found(u) /\ Release(u, {in[u]})
      <4>1. in[u] = "pairs" => cached # NONE
        BY <3>2 DEF Filled
      <4>2. in[u] # "pairs" => holder'["pairs"] = holder["pairs"]
        BY <3>2, PairsKept
      <4> QED
        BY <1>1, <1>2, <2>1, <3>1, <3>2, <4>1, <4>2, FoundGoes DEF CacheInv, Looking
    <3>3. CASE ~Filled(in[u]) /\ Miss(u) /\ holder' = holder
      <4>1. in[u] = "pairs" => cached = NONE
        BY <3>3 DEF Filled
      <4> QED
        BY <1>1, <1>2, <2>1, <3>1, <3>3, <4>1, MissGoes DEF CacheInv, Looking
    <3> QED
      BY <3>1, <3>2, <3>3
  <2>5. CASE Fill(u)
    <3>1. pc[u] = "fill" /\ Found(u) /\ Release(u, {in[u]}) /\ in[u] # "pairs"
      BY <2>1, <2>5 DEF Fill, CacheInv
    <3>2. holder'["pairs"] = holder["pairs"]
      BY <3>1, PairsKept
    <3> QED
      BY <1>1, <1>2, <2>1, <3>1, <3>2, FoundGoes DEF CacheInv, Looking
  <2>6. CASE CallFails(u)
    <3>1. pc[u] \in {"fill", "file"} /\ in[u] # "pairs"
      BY <2>1, <2>6 DEF CallFails, CacheInv
    <3>2. CASE Raises(u)
      BY <1>1, <1>2, <2>1, <3>2 DEF Raises, CacheInv, Looking
    <3>3. CASE /\ Release(u, {"accounts"}) \/ Release(u, {"accounts", "services"})
               /\ pc' = [pc EXCEPT ![u] = "check"]
               /\ in' = in \/ in' = [in EXCEPT ![u] = "services"]
      <4>1. holder'["pairs"] = holder["pairs"]
        BY <3>3, PairsKept
      <4> QED
        BY <1>1, <1>2, <2>1, <3>1, <3>3, <4>1 DEF CacheInv, Looking
    <3> QED
      BY <2>6, <3>2, <3>3 DEF CallFails, Inside
  <2> QED
    BY <2>2, <2>3, <2>4, <2>5, <2>6 DEF CacheStep
<1> QED
  BY <1>3, <1>4

LEMMA CacheByOthers ==
  ASSUME TypeOK, \A t \in Thread : CacheInv(t), NEW u \in Thread,
         \/ u \in Run /\ (\/ StartPrepare(u) \/ MainStep(u) \/ Cancel(u) \/ PoolStep(u)
                         \/ CreateAccountFails(u))
         \/ u \in Getter /\ (StartGet(u) \/ GetStep(u))
  PROVE  \A t \in Thread : CacheInv(t)'
<1> USE Kinds
<1>1. /\ pc \in [Thread -> {"idle", "create", "generate", "find", "check", "lock", "recheck", "fill",
                            "file", "report", "return", "done", "failed"}]
      /\ in \in [Thread -> Cache] /\ part \in [Thread -> Part] /\ half \in [Thread -> Run \union {NoFile}]
      /\ holder \in [Cache -> Thread \union {NONE}] /\ files \in [Part -> Run \union {NoFile}]
      /\ cached \in Pair \union {NONE}
  BY DEF TypeOK
<1>2. CASE u \in Run
  <2>0. \/ StartPrepare(u) \/ MainStep(u) \/ Cancel(u) \/ PoolStep(u) \/ CreateAccountFails(u)
    BY <1>2
  <2>1. UNCHANGED <<holder, cached, half>>
    BY <2>0 DEF StartPrepare, MainStep, StartPool, BuildNetwork, MainRaises, JoinPool, Cancel, PoolStep,
       CreateAccount, Generate, WriteFile, Report, PoolCancelled, CreateAccountFails, caches, local
  <2>2. \A t \in Thread \ {u} : pc'[t] = pc[t] /\ in'[t] = in[t] /\ part'[t] = part[t]
    <3>1. pc' = pc \/ \E l : pc' = [pc EXCEPT ![u] = l]
      BY <2>0 DEF StartPrepare, MainStep, StartPool, BuildNetwork, MainRaises, JoinPool, Cancel, PoolStep,
         CreateAccount, Generate, WriteFile, Report, PoolCancelled, CreateAccountFails, Goto
    <3>2. in' = in \/ \E c : in' = [in EXCEPT ![u] = c]
      BY <2>0 DEF StartPrepare, MainStep, StartPool, BuildNetwork, MainRaises, JoinPool, Cancel, PoolStep,
         CreateAccount, Generate, WriteFile, Report, PoolCancelled, CreateAccountFails, local, Inside
    <3>3. part' = part \/ \E p : part' = [part EXCEPT ![u] = p]
      BY <2>0 DEF StartPrepare, MainStep, StartPool, BuildNetwork, MainRaises, JoinPool, Cancel, PoolStep,
         CreateAccount, Generate, WriteFile, Report, PoolCancelled, CreateAccountFails, local
    <3> QED
      BY <1>1, <3>1, <3>2, <3>3
  <2>3. \/ pc'[u] = pc[u] /\ in'[u] = in[u]
        \/ pc'[u] \notin Looking
        \/ pc'[u] = "check" /\ in'[u] = "services"
    <3>1. CASE WriteFile(u)
      BY <1>1, <3>1 DEF WriteFile, CacheInv, Looking
    <3>2. CASE Generate(u)
      BY <1>1, <3>2 DEF Generate, Goto, Inside
    <3> QED
      BY <1>1, <2>0, <3>1, <3>2 DEF StartPrepare, MainStep, StartPool, BuildNetwork, MainRaises, JoinPool,
         Cancel, PoolStep, CreateAccount, Report, PoolCancelled, CreateAccountFails, local, Goto, Looking
  <2>4. \A t \in Thread \ {u} : CacheInv(t)'
    BY <2>1, <2>2, Undisturbed
  <2>5. CacheInv(u)'
    BY <1>2, <2>3 DEF CacheInv, Looking
  <2> QED
    BY <2>4, <2>5
<1>3. CASE u \in Getter
  <2>1. CASE StartGet(u) \/ FindAccount(u) \/ ReturnPair(u)
    <3>1. UNCHANGED <<holder, cached, half, in, part>>
      BY <2>1 DEF StartGet, FindAccount, ReturnPair, caches, local
    <3>2. /\ \A t \in Thread \ {u} : pc'[t] = pc[t]
          /\ \/ pc[u] \in {"idle", "find"} /\ pc'[u] \in {"find", "check", "failed"}
             \/ pc'[u] = "done"
      BY <1>1, <2>1 DEF StartGet, FindAccount, ReturnPair, Goto
    <3>3. \A t \in Thread \ {u} : CacheInv(t)'
      BY <3>1, <3>2, Undisturbed
    <3>4. CacheInv(u)'
      BY <1>3, <3>1, <3>2 DEF CacheInv, Looking
    <3> QED
      BY <3>3, <3>4
  <2>2. CASE ReadFile(u)
    <3>0. pc[u] = "file" /\ in[u] = "services" /\ holder["pairs"] = u
      BY <1>3, <2>2 DEF ReadFile, CacheInv, Looking
    <3>1. CASE part[u] = "public"
      <4>1. /\ half' = [half EXCEPT ![u] = files["public"]] /\ files["public"] \in Run
            /\ part' = [part EXCEPT ![u] = "private"] /\ pc' = [pc EXCEPT ![u] = "check"]
            /\ UNCHANGED <<cached, holder, in>>
        BY <1>1, <2>2, <3>1 DEF ReadFile, Part
      <4>2. \A t \in Thread \ {u} : CacheInv(t)'
        BY <1>1, <4>1, Undisturbed
      <4>3. CacheInv(u)'
        BY <1>1, <1>3, <3>0, <4>1 DEF CacheInv, Looking
      <4> QED
        BY <4>2, <4>3
    <3>2. CASE part[u] # "public"
      <4>1. /\ cached' = <<half[u], files["private"]>> /\ Release(u, {"pairs"})
            /\ pc' = [pc EXCEPT ![u] = "return"] /\ in' = [in EXCEPT ![u] = "pairs"]
            /\ UNCHANGED <<half, part>>
        BY <2>2, <3>2 DEF ReadFile, Inside
      <4>2. cached' # NONE
        <5>1. part[u] = "private" /\ files["private"] \in Run
          BY <1>1, <2>2, <3>2 DEF ReadFile, Part
        <5>2. half[u] \in Run
          BY <1>3, <5>1 DEF CacheInv
        <5> QED
          BY <4>1, <5>1, <5>2 DEF Pair
      <4>3. \A t \in Thread \ {u} : CacheInv(t)'
        BY <1>1, <3>0, <4>1, <4>2, Undisturbed
      <4>4. CacheInv(u)'
        BY <1>1, <1>3, <4>1, <4>2 DEF CacheInv, Looking
      <4> QED
        BY <4>3, <4>4
    <3> QED
      BY <3>1, <3>2
  <2> QED
    BY <1>3, <2>1, <2>2 DEF GetStep
<1> QED
  BY <1>2, <1>3
-----------------------------------------------------------------------------
(* What looking into the caches changes outside them.                       *)
LEMMA CacheFrame ==
  ASSUME TypeOK, NEW u \in Thread, CacheInv(u), CacheStep(u) \/ CallFails(u)
  PROVE  /\ UNCHANGED <<main, cached, part, half, got, reported, raced>>
         /\ \A t \in Thread \ {u} : pc'[t] = pc[t]
         /\ pc[u] \in Looking
         /\ pc'[u] \in Looking \union {"failed"} \/ (pc'[u] = "return" /\ u \in Getter)
         /\ files' = files \/ (u \in Run /\ files' = [files EXCEPT ![part[u]] = u])
<1> USE Kinds
<1>1. pc \in [Thread -> {"idle", "create", "generate", "find", "check", "lock", "recheck", "fill",
                        "file", "report", "return", "done", "failed"}]
  BY DEF TypeOK
<1>2. UNCHANGED <<main, cached, part, half, got, reported, raced>>
  BY DEF CacheStep, Check, Lock, Recheck, Fill, CallFails, caches, local, results
<1>3. pc[u] \in Looking
  BY DEF CacheStep, Check, Lock, Recheck, Fill, CallFails, Goto, Looking
<1>4. files' = files \/ (u \in Run /\ files' = [files EXCEPT ![part[u]] = u])
  BY DEF CacheStep, Check, Lock, Recheck, Fill, CallFails, storage
<1>5. \/ Found(u)
      \/ \E l \in Looking \union {"failed"} : pc' = [pc EXCEPT ![u] = l]
  <2>1. CASE Check(u)
    BY <2>1 DEF Check, Looking
  <2>2. CASE Lock(u)
    BY <2>2 DEF Lock, Goto, Looking
  <2>3. CASE Recheck(u)
    BY <2>3 DEF Recheck, Miss, Looking
  <2>4. CASE Fill(u)
    BY <2>4 DEF Fill
  <2>5. CASE CallFails(u)
    BY <2>5 DEF CallFails, Raises, Looking
  <2> QED
    BY <2>1, <2>2, <2>3, <2>4, <2>5 DEF CacheStep
<1>6. Found(u) => \/ \E l \in Looking : pc' = [pc EXCEPT ![u] = l]
                  \/ pc' = [pc EXCEPT ![u] = "return"] /\ u \in Getter
  <2>1. in[u] = "pairs" => u \in Getter
    BY <1>3 DEF CacheInv, Thread
  <2> QED
    BY <2>1, FoundGoes DEF Looking
<1> QED
  BY <1>1, <1>2, <1>3, <1>4, <1>5, <1>6

(* What the commands that read the pair change.                             *)
LEMMA GetFrame ==
  ASSUME TypeOK, NEW g \in Getter, StartGet(g) \/ GetStep(g)
  PROVE  UNCHANGED <<main, files, reported, raced>> /\ \A t \in Thread \ {g} : pc'[t] = pc[t] /\ part'[t] = part[t]
BY Kinds DEF TypeOK, StartGet, GetStep, FindAccount, ReadFile, ReturnPair, Goto, storage, results, local

LEMMA SequenceByRuns ==
  ASSUME IInv, NEW u \in Run,
         StartPrepare(u) \/ MainStep(u) \/ Cancel(u) \/ PoolStep(u) \/ CreateAccountFails(u)
  PROVE  \A r \in Run : Sequence(r)'
<1> USE Kinds
<1>1. /\ pc \in [Thread -> {"idle", "create", "generate", "find", "check", "lock", "recheck", "fill",
                            "file", "report", "return", "done", "failed"}]
      /\ main \in [Run -> {"idle", "group", "network", "join", "done", "failed"}]
      /\ \A r \in Run : Sequence(r)
  BY DEF IInv, TypeOK
<1>2. CASE StartPrepare(u)
  <2>1. /\ main[u] = "idle" /\ main' = [main EXCEPT ![u] = "group"] /\ UNCHANGED <<pc, reported>>
        /\ \A q \in Run : q < u => Over(q)
        /\ raced \subseteq raced' /\ raced' \subseteq raced \union {u}
        /\ u \notin raced' => \A q \in Run : q < u => ~AtWork(q)
    BY <1>2 DEF StartPrepare, MainTo, results
  <2>2. ASSUME NEW r \in Run \ {u} PROVE Sequence(r)'
    <3>1. \A q \in Run : Over(q) => Over(q)'
      BY <1>1, <2>1 DEF Over
    <3> QED
      BY <1>1, <2>1, <3>1 DEF Sequence, AtWork
  <2>3. Sequence(u)'
    <3>1. \A q \in Run : q < u => Over(q)' /\ q # u
      BY <1>1, <2>1 DEF Over
    <3> QED
      BY <1>1, <2>1, <3>1 DEF Sequence, AtWork
  <2> QED
    BY <2>2, <2>3
<1>3. CASE MainStep(u) \/ Cancel(u)
  <2>1. /\ UNCHANGED <<reported, raced>>
        /\ \A t \in Thread \ {u} : pc'[t] = pc[t]
        /\ \A r \in Run \ {u} : main'[r] = main[r]
        /\ main[u] # "idle" /\ ~Over(u)
        /\ \/ main[u] = "group" /\ main'[u] = "network" /\ pc'[u] = "create"
           \/ pc'[u] = pc[u] /\ main'[u] \in {main[u], "join", "failed"}
           \/ pc'[u] = pc[u] /\ main'[u] = "done" /\ pc[u] = "done"
    BY <1>1, <1>3 DEF MainStep, StartPool, BuildNetwork, MainRaises, JoinPool, Cancel, MainTo, Goto, results, Over
  <2>2. \A r \in Run : r > u => main[r] = "idle"
    BY <1>1, <2>1 DEF Sequence
  <2>3. ASSUME NEW r \in Run PROVE Sequence(r)'
    <3>1. CASE r = u
      <4>1. \A q \in Run : q < u => Over(q) /\ q # u
        BY <1>1, <2>1 DEF Sequence
      <4> QED
        BY <1>1, <2>1, <3>1, <4>1 DEF Sequence, AtWork, Over
    <3>2. CASE r > u
      BY <1>1, <2>1, <2>2, <3>2 DEF Sequence
    <3>3. CASE r < u
      <4>1. \A q \in Run : q < r => q # u
        BY <3>3
      <4> QED
        BY <1>1, <2>1, <3>3, <4>1 DEF Sequence, AtWork, Over
    <3> QED
      BY <3>1, <3>2, <3>3
  <2> QED
    BY <2>3
<1>4. CASE PoolStep(u) \/ CreateAccountFails(u)
  <2>1. /\ UNCHANGED <<main, raced>> /\ reported \subseteq reported'
        /\ \A t \in Thread \ {u} : pc'[t] = pc[t]
        /\ AtWork(u)
        /\ pc'[u] = "done" => u \in reported'
    BY <1>1, <1>4 DEF PoolStep, CreateAccount, Generate, WriteFile, Report, PoolCancelled, CreateAccountFails,
       Goto, AtWork, results
  <2>2. main[u] \notin {"idle", "group", "done"}
    BY <1>1, <2>1 DEF Sequence, AtWork
  <2>3. ASSUME NEW r \in Run PROVE Sequence(r)'
    <3>1. \A q \in Run : ~AtWork(q) => ~AtWork(q)'
      BY <2>1 DEF AtWork
    <3> QED
      BY <1>1, <2>1, <2>2, <3>1 DEF Sequence, Over
  <2> QED
    BY <2>3
<1> QED
  BY <1>2, <1>3, <1>4

LEMMA SequenceByThreads ==
  ASSUME IInv, NEW u \in Thread,
         CacheStep(u) \/ CallFails(u) \/ (u \in Getter /\ (StartGet(u) \/ GetStep(u)))
  PROVE  \A r \in Run : Sequence(r)'
<1> USE Kinds
<1>1. TypeOK /\ CacheInv(u) /\ \A r \in Run : Sequence(r)
  BY DEF IInv
<1>2. /\ UNCHANGED <<main, reported, raced>>
      /\ \A t \in Thread \ {u} : pc'[t] = pc[t]
      /\ u \in Run => pc[u] \in Looking /\ pc'[u] \in Looking \union {"failed"}
  BY <1>1, CacheFrame, GetFrame
<1>3. u \in Run => AtWork(u) /\ main[u] \notin {"idle", "group", "done"} /\ pc'[u] # "done"
  BY <1>1, <1>2 DEF Sequence, AtWork, Looking
<1>4. \A q \in Run : ~AtWork(q) => ~AtWork(q)'
  BY <1>2, <1>3 DEF AtWork
<1>5. ASSUME NEW r \in Run PROVE Sequence(r)'
  BY <1>1, <1>2, <1>3, <1>4 DEF Sequence, Over
<1> QED
  BY <1>5
-----------------------------------------------------------------------------
(* What preparations change for the commands that read the pair.            *)
LEMMA RunFrame ==
  ASSUME TypeOK, NEW u \in Run,
         StartPrepare(u) \/ MainStep(u) \/ Cancel(u) \/ PoolStep(u) \/ CreateAccountFails(u)
  PROVE  /\ UNCHANGED <<cached, half, got>>
         /\ \A t \in Thread \ {u} : pc'[t] = pc[t] /\ part'[t] = part[t]
         /\ raced \subseteq raced'
         /\ \A q \in Run : /\ main[q] = "done" => main'[q] = "done"
                           /\ main'[q] = "idle" => main[q] = "idle"
<1> USE Kinds DEF TypeOK, MainTo, Goto
<1>1. CASE StartPrepare(u) \/ Cancel(u)
  BY <1>1 DEF StartPrepare, Cancel, caches, local, results
<1>2. CASE MainStep(u)
  BY <1>2 DEF MainStep, StartPool, BuildNetwork, MainRaises, JoinPool, caches, local, results
<1>3. CASE CreateAccount(u) \/ CreateAccountFails(u)
  BY <1>3 DEF CreateAccount, CreateAccountFails, caches, local, results
<1>4. CASE Generate(u) \/ WriteFile(u)
  BY <1>4 DEF Generate, WriteFile, caches, results
<1>5. CASE Report(u) \/ PoolCancelled(u)
  BY <1>5 DEF Report, PoolCancelled, storage, caches, local, results
<1> QED
  BY <1>1, <1>2, <1>3, <1>4, <1>5 DEF PoolStep

(* Nobody else is at work beside a preparation that runs alone.             *)
LEMMA OthersIdle ==
  ASSUME IInv, NEW r \in Run, Alone(r), NEW q \in Run \ {r}
  PROVE  ~AtWork(q)
<1>1. CASE q < r
  BY <1>1 DEF IInv, Sequence, Alone
<1>2. CASE q > r
  BY <1>2 DEF IInv, Sequence, Alone, AtWork
<1> QED
  BY <1>1, <1>2, Kinds

LEMMA SavedByRuns ==
  ASSUME IInv, NEW u \in Run, NEW r \in Run,
         StartPrepare(u) \/ MainStep(u) \/ Cancel(u) \/ PoolStep(u) \/ CreateAccountFails(u)
  PROVE  Saved(r)'
<1> USE Kinds
<1>1. /\ TypeOK /\ Saved(r) /\ Sequence(r)
      /\ pc \in [Thread -> {"idle", "create", "generate", "find", "check", "lock", "recheck", "fill",
                            "file", "report", "return", "done", "failed"}]
      /\ main \in [Run -> {"idle", "group", "network", "join", "done", "failed"}]
      /\ part \in [Thread -> Part] /\ files \in [Part -> Run \union {NoFile}]
  BY DEF IInv, TypeOK
<1>2. CASE StartPrepare(u)
  <2>1. UNCHANGED <<files, pc, part>> /\ main[u] = "idle"
    BY <1>2 DEF StartPrepare, MainTo, storage, local
  <2>2. CASE u = r
    <3>1. pc[r] = "idle"
      BY <1>1, <2>1, <2>2 DEF Sequence
    <3> QED
      BY <1>1, <2>1, <3>1 DEF Saved, Looking
  <2>3. CASE u # r
    <3>1. Alone(r)' => Alone(r)
      BY <1>1, <1>2, <2>3, RunFrame DEF Alone, StartPrepare, MainTo
    <3> QED
      BY <1>1, <2>1, <3>1 DEF Saved
  <2> QED
    BY <2>2, <2>3
<1>3. CASE MainStep(u) \/ Cancel(u)
  <2>1. /\ UNCHANGED <<files, part>>
        /\ pc'[r] = pc[r] \/ (pc[r] = "idle" /\ pc'[r] = "create")
        /\ main[r] = "idle" => main'[r] = "idle"
    BY <1>1, <1>3 DEF MainStep, StartPool, BuildNetwork, MainRaises, JoinPool, Cancel, MainTo, Goto, storage, local
  <2>2. Alone(r)' => Alone(r)
    BY <1>1, <1>3, <2>1, RunFrame DEF Alone
  <2> QED
    BY <1>1, <2>1, <2>2 DEF Saved, Looking
<1>4. CASE PoolStep(u) \/ CreateAccountFails(u)
  <2>1. UNCHANGED <<main, raced>>
    BY <1>4 DEF PoolStep, CreateAccount, Generate, WriteFile, Report, PoolCancelled, CreateAccountFails
  <2>2. Alone(r)' => Alone(r)
    BY <2>1 DEF Alone
  <2>3. CASE u # r
    <3>1. AtWork(u)
      BY <1>1, <1>4 DEF PoolStep, CreateAccount, Generate, WriteFile, Report, PoolCancelled,
                        CreateAccountFails, Goto, AtWork
    <3>2. ~Alone(r)
      BY <2>3, <3>1, OthersIdle
    <3> QED
      BY <1>1, <1>4, <2>2, <2>3, <3>2, RunFrame DEF Saved
  <2>4. CASE u = r
    <3>1. CASE CreateAccount(r) \/ CreateAccountFails(r)
      BY <1>1, <3>1 DEF Saved, Looking, CreateAccount, CreateAccountFails, Goto, local
    <3>2. CASE Generate(r) \/ Report(r) \/ PoolCancelled(r)
      <4>1. /\ UNCHANGED <<files, part>>
            /\ \/ pc[r] = "generate" /\ pc'[r] = "check"
               \/ pc[r] = "report" /\ pc'[r] = "done"
               \/ pc'[r] = "failed"
        BY <1>1, <3>2 DEF Generate, Report, PoolCancelled, Goto, storage, local
      <4> QED
        BY <1>1, <2>2, <4>1 DEF Saved, Looking
    <3>3. CASE WriteFile(r)
      <4>1. pc[r] = "file" /\ files' = [files EXCEPT ![part[r]] = r]
        BY <3>3 DEF WriteFile
      <4>2. CASE part[r] = "public"
        <5>1. pc'[r] = "check" /\ files'["public"] = r
          BY <1>1, <3>3, <4>1, <4>2 DEF WriteFile, Part
        <5> QED
          BY <5>1 DEF Saved
      <4>3. CASE part[r] # "public"
        <5>1. part[r] = "private" /\ pc'[r] = "report" /\ files' = [files EXCEPT !["private"] = r]
          BY <1>1, <3>3, <4>1, <4>3 DEF WriteFile, Part
        <5>2. Alone(r) => files["public"] = r
          BY <1>1, <4>1, <5>1 DEF Saved, Looking
        <5>3. Alone(r) => \A p \in Part : files'[p] = r
          BY <1>1, <5>1, <5>2 DEF Part
        <5> QED
          BY <2>2, <5>1, <5>3 DEF Saved, Looking
      <4> QED
        BY <4>2, <4>3
    <3> QED
      BY <1>4, <2>4, <3>1, <3>2, <3>3 DEF PoolStep
  <2> QED
    BY <2>3, <2>4
<1> QED
  BY <1>2, <1>3, <1>4

LEMMA SavedByThreads ==
  ASSUME IInv, NEW u \in Thread, NEW r \in Run,
         CacheStep(u) \/ CallFails(u) \/ (u \in Getter /\ (StartGet(u) \/ GetStep(u)))
  PROVE  Saved(r)'
<1> USE Kinds
<1>1. TypeOK /\ CacheInv(u) /\ Saved(r) /\ files \in [Part -> Run \union {NoFile}] /\ part \in [Thread -> Part]
  BY DEF IInv, TypeOK
<1>2. UNCHANGED <<main, raced>>
  BY <1>1, CacheFrame, GetFrame
<1>3. Alone(r)' <=> Alone(r)
  BY <1>2 DEF Alone
<1>4. CASE u = r
  <2>1. CacheStep(r) \/ CallFails(r)
    BY <1>4
  <2>2. /\ part' = part /\ pc[r] \in Looking /\ pc'[r] \in Looking \union {"failed"}
        /\ files' = files \/ files' = [files EXCEPT ![part[r]] = r]
    BY <1>1, <1>4, <2>1, CacheFrame
  <2>3. files["public"] = r => files'["public"] = r
    BY <1>1, <2>2 DEF Part
  <2> QED
    BY <1>1, <1>3, <2>2, <2>3 DEF Saved, Looking
<1>5. CASE u # r
  <2>1. pc'[r] = pc[r] /\ part'[r] = part[r] /\ (files' = files \/ u \in Run)
    BY <1>1, <1>5, CacheFrame, GetFrame
  <2>2. CASE u \in Run
    <3>1. AtWork(u)
      BY <1>1, <2>2, CacheFrame DEF AtWork, Looking
    <3>2. ~Alone(r)
      BY <1>5, <2>2, <3>1, OthersIdle
    <3> QED
      BY <1>1, <1>3, <2>1, <3>2 DEF Saved
  <2>3. CASE files' = files
    BY <1>1, <1>3, <2>1, <2>3 DEF Saved
  <2> QED
    BY <2>1, <2>2, <2>3
<1> QED
  BY <1>4, <1>5

LEMMA ReadersByRuns ==
  ASSUME IInv, NEW u \in Run,
         StartPrepare(u) \/ MainStep(u) \/ Cancel(u) \/ PoolStep(u) \/ CreateAccountFails(u)
  PROVE  Readers'
<1> USE Kinds
<1>1. TypeOK /\ Readers
  BY DEF IInv
<1>2. /\ UNCHANGED <<cached, half, got>> /\ \A g \in Getter : pc'[g] = pc[g]
      /\ raced \subseteq raced'
      /\ \A q \in Run : (main[q] = "done" => main'[q] = "done") /\ (main'[q] = "idle" => main[q] = "idle")
  BY <1>1, RunFrame
<1>3. ~Prepared' => ~Prepared
  BY <1>2 DEF Prepared
<1>4. ASSUME NEW r \in Run, Only(r)' PROVE Only(r) \/ ~Prepared
  BY <1>2, <1>4 DEF Only, Settled, Prepared
<1> QED
  BY <1>1, <1>2, <1>3, <1>4 DEF Readers

LEMMA ReadersByThreads ==
  ASSUME IInv, NEW u \in Thread,
         CacheStep(u) \/ CallFails(u) \/ (u \in Getter /\ (StartGet(u) \/ GetStep(u)))
  PROVE  Readers'
<1> USE Kinds
<1>1. TypeOK /\ Readers /\ CacheInv(u)
  BY DEF IInv
<1>2. UNCHANGED <<main, raced>> /\ \A t \in Thread \ {u} : pc'[t] = pc[t]
  BY <1>1, CacheFrame, GetFrame
<1>3. (Prepared' <=> Prepared) /\ \A r \in Run : Only(r)' <=> Only(r)
  BY <1>2 DEF Prepared, Only, Settled
<1>4. CASE CacheStep(u) \/ CallFails(u)
  <2>1. UNCHANGED <<cached, half, got>> /\ pc[u] \in Looking
    BY <1>1, <1>4, CacheFrame
  <2>2. ~Prepared => u \notin Getter
    BY <1>1, <2>1 DEF Readers, Looking
  <2> QED
    BY <1>1, <1>2, <1>3, <2>1, <2>2 DEF Readers
<1>5. CASE u \in Getter /\ (StartGet(u) \/ GetStep(u))
  <2>1. Prepared
    BY <1>1, <1>5 DEF StartGet, GetStep, FindAccount, ReadFile, ReturnPair, Goto, Readers
  <2>2. ASSUME NEW r \in Run, Only(r)
        PROVE  /\ cached' \in {NONE, <<r, r>>}
               /\ \A g \in Getter : half'[g] \in {NoFile, r} /\ got'[g] \in {NONE, <<r, r>>}
    <3>1. /\ cached \in {NONE, <<r, r>>}
          /\ \A g \in Getter : half[g] \in {NoFile, r} /\ got[g] \in {NONE, <<r, r>>}
          /\ half \in [Thread -> Run \union {NoFile}] /\ got \in [Getter -> Pair \union {NONE}]
      BY <1>1, <2>2 DEF Readers, TypeOK
    <3>2. CASE StartGet(u) \/ FindAccount(u)
      BY <3>1, <3>2 DEF StartGet, FindAccount, caches, local, results
    <3>3. CASE ReadFile(u)
      <4>1. \A p \in Part : files[p] = r
        BY <2>2 DEF IInv, Sequence, Saved, Alone, Only, Settled
      <4>2. CASE part[u] = "public"
        BY <1>5, <3>1, <3>3, <4>1, <4>2 DEF ReadFile, results, Part
      <4>3. CASE part[u] # "public"
        <5>1. part[u] = "private"
          BY <1>1, <4>3 DEF TypeOK, Part
        <5>2. half[u] = r
          BY <1>1, <1>5, <3>1, <5>1 DEF CacheInv
        <5> QED
          BY <1>5, <3>1, <3>3, <4>1, <4>3, <5>2 DEF ReadFile, results, Part
      <4> QED
        BY <4>2, <4>3
    <3>4. CASE ReturnPair(u)
      BY <1>5, <3>1, <3>4 DEF ReturnPair, caches, local
    <3> QED
      BY <1>5, <3>2, <3>3, <3>4 DEF GetStep
  <2> QED
    BY <1>3, <2>1, <2>2 DEF Readers
<1> QED
  BY <1>4, <1>5
-----------------------------------------------------------------------------
LEMMA Initially == Init => IInv
<1> SUFFICES ASSUME Init PROVE IInv
  OBVIOUS
<1> USE Kinds DEF Init
<1>1. TypeOK
  <2>1. /\ main \in [Run -> {"idle", "group", "network", "join", "done", "failed"}]
        /\ cancelled \subseteq Run /\ reported \subseteq Run /\ raced \subseteq Run
        /\ account \in BOOLEAN /\ files \in [Part -> Run \union {NoFile}]
        /\ ready \subseteq {"services", "accounts"} /\ cached \in Pair \union {NONE}
    OBVIOUS
  <2>2. /\ holder \in [Cache -> Thread \union {NONE}]
        /\ pc \in [Thread -> {"idle", "create", "generate", "find", "check", "lock", "recheck", "fill",
                              "file", "report", "return", "done", "failed"}]
        /\ in \in [Thread -> Cache] /\ part \in [Thread -> Part]
        /\ half \in [Thread -> Run \union {NoFile}] /\ got \in [Getter -> Pair \union {NONE}]
    BY DEF Cache, Part
  <2>3. faults \in 0 .. MaxFaults
    BY KeyPairsAssumption
  <2> QED
    BY <2>1, <2>2, <2>3 DEF TypeOK
<1>2. \A t \in Thread : CacheInv(t)
  BY DEF CacheInv, Looking, Cache, Part
<1>3. \A r \in Run : Sequence(r) /\ Saved(r)
  BY DEF Sequence, Saved, Alone
<1>4. Readers
  BY DEF Readers, Only, Settled
<1> QED
  BY <1>1, <1>2, <1>3, <1>4 DEF IInv

LEMMA Inductive == IInv /\ [Next]_vars => IInv'
<1> SUFFICES ASSUME IInv, [Next]_vars PROVE IInv'
  OBVIOUS
<1> USE Kinds
<1>1. TypeOK /\ \A t \in Thread : CacheInv(t)
  BY DEF IInv
<1>2. ASSUME NEW r \in Run,
             StartPrepare(r) \/ MainStep(r) \/ Cancel(r) \/ PoolStep(r) \/ CreateAccountFails(r)
      PROVE  IInv'
  <2>1. TypeOK'
    BY <1>1, <1>2, TypeMain, TypePool
  <2>2. \A t \in Thread : CacheInv(t)'
    BY <1>1, <1>2, CacheByOthers
  <2>3. \A q \in Run : Sequence(q)' /\ Saved(q)'
    BY <1>2, SequenceByRuns, SavedByRuns
  <2>4. Readers'
    BY <1>2, ReadersByRuns
  <2> QED
    BY <2>1, <2>2, <2>3, <2>4 DEF IInv
<1>3. ASSUME NEW g \in Getter, StartGet(g) \/ GetStep(g)
      PROVE  IInv'
  <2>1. TypeOK'
    BY <1>1, <1>3, TypeGet
  <2>2. \A t \in Thread : CacheInv(t)'
    BY <1>1, <1>3, CacheByOthers
  <2>3. \A q \in Run : Sequence(q)' /\ Saved(q)'
    BY <1>3, SequenceByThreads, SavedByThreads
  <2>4. Readers'
    BY <1>3, ReadersByThreads
  <2> QED
    BY <2>1, <2>2, <2>3, <2>4 DEF IInv
<1>4. ASSUME NEW t \in Thread, CacheStep(t) \/ CallFails(t)
      PROVE  IInv'
  <2>1. TypeOK'
    BY <1>1, <1>4, TypeCache
  <2>2. \A u \in Thread : CacheInv(u)'
    BY <1>1, <1>4, CacheByCache
  <2>3. \A q \in Run : Sequence(q)' /\ Saved(q)'
    BY <1>4, SequenceByThreads, SavedByThreads
  <2>4. Readers'
    BY <1>4, ReadersByThreads
  <2> QED
    BY <2>1, <2>2, <2>3, <2>4 DEF IInv
<1>5. CASE UNCHANGED vars
  BY <1>5 DEF IInv, TypeOK, CacheInv, Sequence, Saved, Alone, AtWork, Over, Readers, Only, Settled, Prepared,
              vars, storage, caches, local, results
<1> QED
  BY <1>2, <1>3, <1>4, <1>5 DEF Next

(* Every variable keeps its type, for any preparations, commands and faults. *)
THEOREM TypeCorrect == Spec => []TypeOK
<1>1. IInv => TypeOK
  BY DEF IInv
<1> QED
  BY <1>1, Initially, Inductive, PTL DEF Spec

(* For any number of preparations, retries and cancellations, the private    *)
(* key a preparation reports is the one whose public part machines get.     *)
THEOREM ReportedKeySaved == Spec => []ReportedKeyOpens
<1>1. IInv => ReportedKeyOpens
  <2> SUFFICES ASSUME IInv, NEW r \in Run, Settled(r)
               PROVE  /\ r \in reported /\ \A p \in Part : files[p] = r
                      /\ (\A q \in Run \ {r} : main[q] # "done") =>
                           \A g \in Getter : got[g] \in {NONE, <<r, r>>}
    BY DEF ReportedKeyOpens
  <2>1. r \in reported /\ \A p \in Part : files[p] = r
    BY DEF IInv, Sequence, Saved, Alone, Settled
  <2>2. ASSUME \A q \in Run \ {r} : main[q] # "done"
        PROVE  \A g \in Getter : got[g] \in {NONE, <<r, r>>}
    BY <2>2 DEF IInv, Readers, Only
  <2> QED
    BY <2>1, <2>2
<1> QED
  BY <1>1, Initially, Inductive, PTL DEF Spec
-----------------------------------------------------------------------------
(* The locks a thread holds: that of the cache it is filling, and those of    *)
(* the caches above, from which it came.                                     *)
Holds(t, c) ==
  /\ \/ in[t] = c /\ pc[t] \in {"recheck", "fill"}
     \/ Depth[in[t]] > Depth[c] /\ pc[t] \in Looking
  /\ t \in Run => c # "pairs"

HeldInv == \A t \in Thread : \A c \in Cache : holder[c] = t => Holds(t, c)

LEMMA Depths ==
  Depth["pairs"] < Depth["services"] /\ Depth["services"] < Depth["accounts"]
  /\ Depth["pairs"] < Depth["accounts"] /\ \A c \in Cache : Depth[c] \in Nat
BY DEF Depth, Cache

(* No step of another thread takes or gives back a lock of this one, or moves *)
(* it.                                                                       *)
LEMMA HeldByOthers ==
  ASSUME HeldInv, NEW t \in Thread, pc'[t] = pc[t], in'[t] = in[t],
         \A c \in Cache : holder'[c] = t => holder[c] = t
  PROVE  \A c \in Cache : holder'[c] = t => Holds(t, c)'
BY DEF HeldInv, Holds

LEMMA HeldByCache ==
  ASSUME IInv, HeldInv, NEW u \in Thread, CacheStep(u) \/ CallFails(u)
  PROVE  HeldInv'
<1> USE Kinds
<1>1. /\ TypeOK /\ CacheInv(u)
      /\ pc \in [Thread -> {"idle", "create", "generate", "find", "check", "lock", "recheck", "fill",
                            "file", "report", "return", "done", "failed"}]
      /\ in \in [Thread -> Cache] /\ holder \in [Cache -> Thread \union {NONE}]
  BY DEF IInv, TypeOK
<1>2. /\ u \in Run => in[u] # "pairs"
      /\ pc[u] = "file" => in[u] = "services"
      /\ pc[u] = "fill" => in[u] # "pairs"
  <2>1. pc[u] \in Looking
    BY DEF CacheStep, Check, Lock, Recheck, Fill, CallFails, Goto, Looking
  <2> QED
    BY <1>1, <2>1 DEF CacheInv
<1>3. \A c \in Cache : holder[c] = u => Holds(u, c)
  BY DEF HeldInv
<1>4. CASE Check(u)
  <2>1. pc[u] = "check" /\ holder' = holder
    BY <1>4 DEF Check, caches
  <2>2. Found(u) \/ (pc' = [pc EXCEPT ![u] = "lock"] /\ in' = in)
    BY <1>4 DEF Check
  <2>3. \A c \in Cache : holder[c] = u => Depth[in[u]] > Depth[c] /\ (u \in Run => c # "pairs")
    BY <1>3, <2>1 DEF Holds
  <2>4. \A c \in Cache : holder[c] = u => in[u] # "pairs"
    BY <2>3, Depths DEF Cache
  <2>5. \A t \in Thread \ {u} : pc'[t] = pc[t] /\ in'[t] = in[t]
    BY <1>1, <2>2, FoundGoes
  <2>6. ASSUME NEW c \in Cache, holder'[c] = u PROVE Holds(u, c)'
    <3>1. holder[c] = u /\ Depth[in[u]] > Depth[c] /\ in[u] # "pairs" /\ (u \in Run => c # "pairs")
      BY <2>1, <2>3, <2>4, <2>6
    <3>2. CASE pc' = [pc EXCEPT ![u] = "lock"] /\ in' = in
      BY <1>1, <3>1, <3>2 DEF Holds, Looking
    <3>3. CASE in[u] = "accounts" /\ pc' = [pc EXCEPT ![u] = "fill"] /\ in' = [in EXCEPT ![u] = "services"]
      BY <1>1, <3>1, <3>3, Depths DEF Holds, Looking, Cache
    <3>4. CASE in[u] = "services" /\ pc' = [pc EXCEPT ![u] = "file"] /\ in' = in
      BY <1>1, <3>1, <3>4 DEF Holds, Looking
    <3> QED
      BY <1>1, <2>2, <3>1, <3>2, <3>3, <3>4, FoundGoes
  <2> QED
    BY <2>1, <2>5, <2>6, HeldByOthers DEF HeldInv
<1>5. CASE Lock(u)
  <2>1. /\ pc[u] = "lock" /\ pc' = [pc EXCEPT ![u] = "recheck"] /\ in' = in
        /\ holder' = [holder EXCEPT ![in[u]] = u]
    BY <1>5 DEF Lock, Goto, local
  <2>2. ASSUME NEW c \in Cache, holder'[c] = u PROVE Holds(u, c)'
    <3>1. c = in[u] \/ holder[c] = u
      BY <1>1, <2>1, <2>2
    <3> QED
      BY <1>1, <1>2, <1>3, <2>1, <3>1 DEF Holds, Looking
  <2>3. ASSUME NEW t \in Thread \ {u} PROVE \A c \in Cache : holder'[c] = t => Holds(t, c)'
    BY <1>1, <2>1, HeldByOthers
  <2> QED
    BY <2>2, <2>3 DEF HeldInv
<1>6. CASE Recheck(u)
  <2>1. /\ pc[u] = "recheck"
        /\ \/ Found(u) /\ Release(u, {in[u]})
           \/ Miss(u) /\ holder' = holder
    BY <1>6 DEF Recheck
  <2>2. \A t \in Thread \ {u} : pc'[t] = pc[t] /\ in'[t] = in[t]
    BY <1>1, <2>1, FoundGoes, MissGoes
  <2>3. \A c \in Cache : \A t \in Thread : holder'[c] = t => holder[c] = t
    BY <2>1 DEF Release
  <2>4. ASSUME NEW c \in Cache, holder'[c] = u PROVE Holds(u, c)'
    <3>1. holder[c] = u /\ (in[u] = c \/ Depth[in[u]] > Depth[c]) /\ (u \in Run => c # "pairs")
      BY <1>3, <2>3, <2>4 DEF Holds
    <3>2. CASE Found(u) /\ Release(u, {in[u]})
      <4>1. c # in[u]
        BY <2>4, <3>2 DEF Release
      <4>2. Depth[in[u]] > Depth[c] /\ in[u] # "pairs"
        BY <3>1, <4>1, Depths DEF Cache
      <4> QED
        BY <1>1, <3>1, <3>2, <4>2, FoundGoes, Depths DEF Holds, Looking, Cache
    <3>3. CASE Miss(u)
      <4>1. CASE in[u] = "pairs"
        BY <1>1, <3>1, <3>3, <4>1, MissGoes, Depths DEF Holds, Looking, Cache
      <4>2. CASE in[u] = "services"
        BY <1>1, <3>1, <3>3, <4>2, MissGoes, Depths DEF Holds, Looking, Cache
      <4>3. CASE in[u] = "accounts"
        BY <1>1, <3>1, <3>3, <4>3, MissGoes DEF Holds, Looking
      <4> QED
        BY <1>1, <4>1, <4>2, <4>3 DEF Cache
    <3> QED
      BY <2>1, <3>2, <3>3
  <2> QED
    BY <2>2, <2>3, <2>4, HeldByOthers DEF HeldInv
<1>7. CASE Fill(u)
  <2>1. pc[u] = "fill" /\ Found(u) /\ Release(u, {in[u]})
    BY <1>7 DEF Fill
  <2>2. \A t \in Thread \ {u} : pc'[t] = pc[t] /\ in'[t] = in[t]
    BY <1>1, <2>1, FoundGoes
  <2>3. ASSUME NEW c \in Cache, holder'[c] = u PROVE Holds(u, c)'
    <3>1. holder[c] = u /\ c # in[u]
      BY <2>1, <2>3 DEF Release
    <3>2. Depth[in[u]] > Depth[c] /\ in[u] # "pairs" /\ (u \in Run => c # "pairs")
      BY <1>2, <1>3, <2>1, <3>1 DEF Holds
    <3> QED
      BY <1>1, <2>1, <3>2, FoundGoes, Depths DEF Holds, Looking, Cache
  <2>4. \A c \in Cache : \A t \in Thread : holder'[c] = t => holder[c] = t
    BY <2>1 DEF Release
  <2> QED
    BY <2>2, <2>3, <2>4, HeldByOthers DEF HeldInv
<1>8. CASE CallFails(u)
  <2>1. \/ pc[u] = "fill" /\ in[u] = "accounts"
        \/ pc[u] = "file" /\ in[u] = "services"
    BY <1>2, <1>8 DEF CallFails
  <2>2. \/ Release(u, {"accounts"}) /\ pc[u] = "fill" /\ pc' = [pc EXCEPT ![u] = "check"] /\ in' = in
        \/ /\ Release(u, {"accounts", "services"})
           /\ pc' = [pc EXCEPT ![u] = "check"] /\ in' = [in EXCEPT ![u] = "services"]
        \/ Release(u, Cache) /\ pc' = [pc EXCEPT ![u] = "failed"] /\ in' = in
    BY <1>8 DEF CallFails, Raises, Inside
  <2>3. \A t \in Thread \ {u} : pc'[t] = pc[t] /\ in'[t] = in[t]
    BY <1>1, <2>2
  <2>4. \A c \in Cache : \A t \in Thread : holder'[c] = t => holder[c] = t
    BY <2>2 DEF Release
  <2>5. ASSUME NEW c \in Cache, holder'[c] = u PROVE Holds(u, c)'
    <3>1. holder[c] = u /\ (u \in Run => c # "pairs")
      BY <1>3, <2>4, <2>5 DEF Holds
    <3>2. CASE Release(u, {"accounts"}) /\ pc[u] = "fill" /\ pc' = [pc EXCEPT ![u] = "check"] /\ in' = in
      <4>1. c # "accounts" /\ in[u] = "accounts"
        BY <2>1, <2>5, <3>2 DEF Release
      <4> QED
        BY <1>1, <3>1, <3>2, <4>1, Depths DEF Holds, Looking, Cache
    <3>3. CASE /\ Release(u, {"accounts", "services"})
               /\ pc' = [pc EXCEPT ![u] = "check"] /\ in' = [in EXCEPT ![u] = "services"]
      <4>1. c = "pairs"
        BY <2>5, <3>3 DEF Cache, Release
      <4> QED
        BY <1>1, <3>1, <3>3, <4>1, Depths DEF Holds, Looking, Cache
    <3>4. CASE Release(u, Cache)
      BY <2>5, <3>4 DEF Release
    <3> QED
      BY <2>2, <3>2, <3>3, <3>4
  <2> QED
    BY <2>3, <2>4, <2>5, HeldByOthers DEF HeldInv
<1> QED
  BY <1>4, <1>5, <1>6, <1>7, <1>8 DEF CacheStep

(* Outside the caches nobody holds a lock, and reading the files of a pair    *)
(* gives back the one held.                                                  *)
LEMMA HeldByFiles ==
  ASSUME IInv, HeldInv, NEW u \in Thread,
         \/ u \in Run /\ (\/ StartPrepare(u) \/ MainStep(u) \/ Cancel(u) \/ PoolStep(u)
                         \/ CreateAccountFails(u))
         \/ u \in Getter /\ (StartGet(u) \/ GetStep(u))
  PROVE  HeldInv'
<1> USE Kinds
<1>1. /\ TypeOK /\ CacheInv(u)
      /\ pc \in [Thread -> {"idle", "create", "generate", "find", "check", "lock", "recheck", "fill",
                            "file", "report", "return", "done", "failed"}]
      /\ in \in [Thread -> Cache] /\ holder \in [Cache -> Thread \union {NONE}]
  BY DEF IInv, TypeOK
<1>2. \A c \in Cache : holder[c] = u => Holds(u, c)
  BY DEF HeldInv
<1>3. \A t \in Thread \ {u} : pc'[t] = pc[t] /\ in'[t] = in[t]
  <2>1. CASE u \in Run
    <3>1. \/ StartPrepare(u) \/ MainStep(u) \/ Cancel(u) \/ PoolStep(u) \/ CreateAccountFails(u)
      BY <2>1
    <3>2. pc' = pc \/ \E l : pc' = [pc EXCEPT ![u] = l]
      BY <3>1 DEF StartPrepare, MainStep, StartPool, BuildNetwork, MainRaises, JoinPool, Cancel, PoolStep,
         CreateAccount, Generate, WriteFile, Report, PoolCancelled, CreateAccountFails, Goto
    <3>3. in' = in \/ \E c : in' = [in EXCEPT ![u] = c]
      BY <3>1 DEF StartPrepare, MainStep, StartPool, BuildNetwork, MainRaises, JoinPool, Cancel, PoolStep,
         CreateAccount, Generate, WriteFile, Report, PoolCancelled, CreateAccountFails, local, Inside
    <3> QED
      BY <1>1, <3>2, <3>3
  <2>2. CASE u \in Getter
    BY <1>1, <2>2 DEF StartGet, GetStep, FindAccount, ReadFile, ReturnPair, Goto, local, Inside
  <2> QED
    BY <2>1, <2>2
<1>4. CASE WriteFile(u) /\ u \in Run
  <2>1. pc[u] = "file" /\ in[u] = "services" /\ holder' = holder
    BY <1>1, <1>4 DEF WriteFile, caches, CacheInv
  <2>2. \A c \in Cache : holder[c] # u
    BY <1>2, <1>4, <2>1, Depths DEF Holds, Cache
  <2> QED
    BY <1>3, <2>1, <2>2, HeldByOthers DEF HeldInv
<1>5. CASE ReadFile(u) /\ u \in Getter
  <2>1. pc[u] = "file" /\ in[u] = "services"
    BY <1>1, <1>5 DEF ReadFile, CacheInv
  <2>2. \A c \in Cache : holder[c] = u => c = "pairs"
    BY <1>2, <2>1, Depths DEF Holds, Cache
  <2>3. \/ holder' = holder /\ in' = in /\ pc' = [pc EXCEPT ![u] = "check"]
        \/ Release(u, {"pairs"})
    BY <1>5 DEF ReadFile
  <2>4. \A c \in Cache : \A t \in Thread : holder'[c] = t => holder[c] = t
    BY <2>3 DEF Release
  <2>5. CASE holder' = holder /\ in' = in /\ pc' = [pc EXCEPT ![u] = "check"]
    <3>1. Holds(u, "pairs")'
      BY <1>1, <1>5, <2>1, <2>5, Depths DEF Holds, Looking
    <3> QED
      BY <1>3, <2>2, <2>4, <3>1, HeldByOthers DEF HeldInv
  <2>6. CASE Release(u, {"pairs"})
    <3>1. \A c \in Cache : holder'[c] # u
      BY <2>2, <2>6 DEF Release
    <3> QED
      BY <1>3, <2>4, <3>1, HeldByOthers DEF HeldInv
  <2> QED
    BY <2>3, <2>5, <2>6
<1>6. CASE \/ StartPrepare(u) \/ MainStep(u) \/ Cancel(u) \/ CreateAccount(u) \/ Generate(u) \/ Report(u)
           \/ PoolCancelled(u) \/ CreateAccountFails(u)
           \/ StartGet(u) \/ FindAccount(u) \/ ReturnPair(u)
  <2>1. holder' = holder
    BY <1>6 DEF StartPrepare, MainStep, StartPool, BuildNetwork, MainRaises, JoinPool, Cancel,
       CreateAccount, Generate, Report, PoolCancelled, CreateAccountFails, StartGet, FindAccount, ReturnPair, caches
  <2>2. pc[u] \notin Looking \/ (pc'[u] = pc[u] /\ in'[u] = in[u])
    BY <1>1, <1>6 DEF StartPrepare, MainStep, StartPool, BuildNetwork, MainRaises, JoinPool, Cancel,
       CreateAccount, Generate, Report, PoolCancelled, CreateAccountFails, StartGet, FindAccount, ReturnPair, Goto, Looking, local
  <2>3. CASE pc[u] \notin Looking
    <3>1. \A c \in Cache : holder[c] # u
      BY <1>2, <2>3 DEF Holds, Looking
    <3> QED
      BY <1>3, <2>1, <3>1, HeldByOthers DEF HeldInv
  <2>4. CASE pc'[u] = pc[u] /\ in'[u] = in[u]
    BY <1>3, <2>1, <2>4, HeldByOthers DEF HeldInv
  <2> QED
    BY <2>2, <2>3, <2>4
<1> QED
  BY <1>4, <1>5, <1>6 DEF PoolStep, GetStep

(* Threads never wait for one another in a circle: whoever holds the lock of  *)
(* a cache is on its way through the deeper ones, and the deepest does not    *)
(* wait, for any preparations, commands and failed calls.                    *)
THEOREM NoDeadlock == Spec => []NoCircularWait
<1>1. Init => HeldInv
  BY Kinds DEF Init, HeldInv
<1>2. IInv /\ HeldInv /\ [Next]_vars => HeldInv'
  <2> SUFFICES ASSUME IInv, HeldInv, [Next]_vars PROVE HeldInv'
    OBVIOUS
  <2>1. CASE UNCHANGED vars
    BY <2>1 DEF HeldInv, Holds, vars, caches, local
  <2> QED
    BY <2>1, HeldByCache, HeldByFiles, Kinds DEF Next
<1>3. IInv /\ HeldInv => NoCircularWait
  <2> SUFFICES ASSUME IInv, HeldInv, NEW t \in Thread, NEW u \in Thread, pc[t] = "lock", holder[in[t]] = u
               PROVE  /\ u # t /\ pc[u] \in Looking
                      /\ pc[u] = "lock" => Depth[in[u]] > Depth[in[t]]
    BY DEF NoCircularWait, Looking
  <2>1. in[t] \in Cache
    BY DEF IInv, TypeOK
  <2>2. Holds(u, in[t])
    BY <2>1 DEF HeldInv
  <2> QED
    BY <2>1, <2>2, Depths DEF Holds, Looking
<1> QED
  BY <1>1, <1>2, <1>3, Initially, Inductive, PTL DEF Spec

(* Looking into a cache without waiting for a lock that is taken.            *)
Unblocked(u) == pc[u] \in Looking /\ (pc[u] = "lock" => holder[in[u]] = NONE)
SomeoneUnblocked == \A t \in Thread : pc[t] = "lock" => \E u \in Thread : Unblocked(u)

(* While a thread waits for the lock of a cache, some thread in the caches    *)
(* has its way free: they are never all stuck.                               *)
THEOREM SomeoneGoesOn == Spec => []SomeoneUnblocked
<1>1. ASSUME TypeOK, NoCircularWait, NEW t \in Thread, pc[t] = "lock"
      PROVE  \E u \in Thread : Unblocked(u)
  <2> SUFFICES ASSUME \A u \in Thread : ~Unblocked(u) PROVE FALSE
    OBVIOUS
  <2>1. ASSUME NEW u \in Thread, pc[u] = "lock"
        PROVE  \E v \in Thread : pc[v] = "lock" /\ Depth[in[v]] > Depth[in[u]]
    <3>1. holder[in[u]] \in Thread
      BY <1>1, <2>1 DEF Unblocked, Looking, TypeOK
    <3>2. /\ pc[holder[in[u]]] \in Looking
          /\ pc[holder[in[u]]] = "lock" => Depth[in[holder[in[u]]]] > Depth[in[u]]
      BY <1>1, <2>1, <3>1 DEF NoCircularWait, Looking
    <3> QED
      BY <3>1, <3>2 DEF Unblocked
  <2>2. PICK u \in Thread : pc[u] = "lock" /\ Depth[in[u]] > Depth[in[t]]
    BY <1>1, <2>1
  <2>3. PICK v \in Thread : pc[v] = "lock" /\ Depth[in[v]] > Depth[in[u]]
    BY <2>1, <2>2
  <2>4. PICK w \in Thread : pc[w] = "lock" /\ Depth[in[w]] > Depth[in[v]]
    BY <2>1, <2>3
  <2>5. \A x \in Thread : Depth[in[x]] \in 1..3
    BY <1>1 DEF TypeOK, Cache, Depth
  <2> QED
    BY <2>2, <2>3, <2>4, <2>5
<1>2. TypeOK /\ NoCircularWait => SomeoneUnblocked
  BY <1>1 DEF SomeoneUnblocked
<1> QED
  BY <1>2, TypeCorrect, NoDeadlock, PTL
-----------------------------------------------------------------------------
(* How far a preparation or a command is from its end: a step of its own      *)
(* brings it nearer, a retry by the fault it spends, and no step of another   *)
(* thread takes it further away.                                              *)

(* The steps through the caches that are left until a file is at hand.        *)
Deeper(at, c) ==
  CASE at = "file"    -> 1
    [] at = "fill"    -> IF c = "services" THEN 2 ELSE 3
    [] at = "recheck" -> 3 * (4 - Depth[c]) + 1
    [] at = "lock"    -> 3 * (4 - Depth[c]) + 2
    [] at = "check"   -> 3 * (4 - Depth[c]) + 3

Steps(at, c, p) ==
  CASE at = "idle"                 -> 25
    [] at = "create"               -> 24
    [] at = "find"                 -> 23
    [] at = "generate"             -> 20
    [] at \in Looking              -> Deeper(at, c) + IF p = "public" THEN 10 ELSE 1
    [] at \in {"report", "return"} -> 1
    [] at \in {"done", "failed"}   -> 0

(* The main thread of a preparation, beside its pool thread.                  *)
MainSteps(m) ==
  CASE m = "idle" -> 4 [] m = "group" -> 3 [] m = "network" -> 2 [] m = "join" -> 1
    [] m \in {"done", "failed"} -> 0

Place(t) == Steps(pc[t], in[t], part[t]) + IF t \in Run THEN MainSteps(main[t]) ELSE 0
Remaining(t) == Place(t) + 9 * (MaxFaults - faults)

(* The steps of a thread; of a preparation, those of both its threads.        *)
Own(t) ==
  \/ t \in Run /\ (StartPrepare(t) \/ MainStep(t) \/ PoolStep(t) \/ CreateAccountFails(t))
  \/ t \in Getter /\ (StartGet(t) \/ GetStep(t))
  \/ CacheStep(t) \/ CallFails(t)

LEMMA StepBounds ==
  ASSUME NEW c \in Cache, NEW p \in Part,
         NEW at \in {"idle", "create", "generate", "find", "check", "lock", "recheck", "fill",
                     "file", "report", "return", "done", "failed"}
  PROVE  Steps(at, c, p) \in 0..25 /\ (Steps(at, c, p) = 0 <=> at \in {"done", "failed"})
<1>1. Depth[c] \in 1..3
  BY DEF Depth, Cache
<1>2. CASE at \in Looking
  <2>1. Deeper(at, c) \in 1..12
    BY <1>1, <1>2 DEF Deeper, Looking
  <2> QED
    BY <1>2, <2>1 DEF Steps, Looking
<1>3. CASE at \notin Looking
  BY <1>3 DEF Steps, Looking
<1> QED
  BY <1>2, <1>3

LEMMA PlaceBounds ==
  ASSUME TypeOK, NEW t \in Thread
  PROVE  /\ Place(t) \in 0..29
         /\ Place(t) = 0 => pc[t] \in {"done", "failed"} /\ (t \in Run => Over(t))
<1>1. /\ Steps(pc[t], in[t], part[t]) \in 0..25
      /\ Steps(pc[t], in[t], part[t]) = 0 => pc[t] \in {"done", "failed"}
  <2>1. /\ in[t] \in Cache /\ part[t] \in Part
        /\ pc[t] \in {"idle", "create", "generate", "find", "check", "lock", "recheck", "fill",
                     "file", "report", "return", "done", "failed"}
    BY DEF TypeOK
  <2> QED
    BY <2>1, StepBounds
<1>2. t \in Run => MainSteps(main[t]) \in 0..4 /\ (MainSteps(main[t]) = 0 => Over(t))
  BY DEF TypeOK, MainSteps, Over
<1> QED
  BY <1>1, <1>2 DEF Place

(* What a step of a thread does to its place, and what it costs.              *)
Nearer(t) ==
  /\ Place(t)' \in Nat
  /\ \/ faults' = faults /\ Place(t)' < Place(t)
     \/ faults < MaxFaults /\ faults' = faults + 1 /\ Place(t)' <= Place(t) + 8

(* The caches, from check to lock to recheck, and from each to the next.      *)
LEMMA Descent ==
  ASSUME NEW p \in Part
  PROVE  /\ \A c \in Cache : /\ Steps("lock", c, p) < Steps("check", c, p)
                             /\ Steps("recheck", c, p) < Steps("lock", c, p)
         /\ \A at \in {"check", "recheck", "fill"} :
              /\ Steps("fill", "services", p) < Steps(at, "accounts", p)
              /\ Steps("file", "services", p) < Steps(at, "services", p)
         /\ Steps("return", "pairs", p) < Steps("check", "pairs", p)
         /\ Steps("return", "pairs", p) < Steps("recheck", "pairs", p)
         /\ Steps("check", "services", p) < Steps("recheck", "pairs", p)
         /\ Steps("check", "accounts", p) < Steps("recheck", "services", p)
         /\ Steps("fill", "accounts", p) < Steps("recheck", "accounts", p)
         /\ Steps("check", "accounts", p) <= Steps("fill", "accounts", p) + 8
         /\ Steps("check", "services", p) <= Steps("fill", "accounts", p) + 8
         /\ Steps("check", "services", p) <= Steps("file", "services", p) + 8
         /\ \A at \in Looking : \A c \in Cache : Steps("failed", c, p) < Steps(at, c, p)
BY DEF Steps, Deeper, Depth, Looking, Cache

LEMMA CacheNearer ==
  ASSUME IInv, NEW t \in Thread, CacheStep(t) \/ CallFails(t)
  PROVE  Nearer(t)
<1>1. /\ TypeOK /\ CacheInv(t)
      /\ pc \in [Thread -> {"idle", "create", "generate", "find", "check", "lock", "recheck", "fill",
                            "file", "report", "return", "done", "failed"}]
      /\ in \in [Thread -> Cache] /\ part[t] \in Part
  BY DEF IInv, TypeOK
<1>2. UNCHANGED <<main, part>>
  BY <1>1, CacheFrame
<1> DEFINE before == Steps(pc[t], in[t], part[t])
           after == Steps(pc'[t], in'[t], part[t])
<1>3. /\ Place(t) = before + IF t \in Run THEN MainSteps(main[t]) ELSE 0
      /\ Place(t)' = after + IF t \in Run THEN MainSteps(main[t]) ELSE 0
      /\ before \in Nat /\ after \in Nat /\ (t \in Run => MainSteps(main[t]) \in Nat)
  <2>1. pc'[t] \in Looking \union {"failed", "return"} /\ in'[t] \in Cache
    <3>1. TypeOK'
      BY <1>1, TypeCache
    <3> QED
      BY <1>1, <3>1, CacheFrame DEF TypeOK
  <2>2. before \in Nat /\ after \in Nat
    BY <1>1, <2>1, StepBounds DEF Looking
  <2>3. t \in Run => MainSteps(main[t]) \in Nat
    BY <1>1 DEF TypeOK, MainSteps
  <2> QED
    BY <1>2, <2>2, <2>3 DEF Place
<1>4. ASSUME Found(t), pc[t] \in {"check", "recheck", "fill"}
      PROVE  after < before
  <2>1. pc[t] = "fill" => in[t] # "pairs"
    BY <1>1 DEF CacheInv
  <2> QED
    BY <1>1, <1>4, <2>1, FoundGoes, Descent
<1>5. CASE CacheStep(t)
  <2>1. faults' = faults
    BY <1>5 DEF CacheStep, Check, Lock, Recheck, Fill
  <2>2. after < before
    <3>1. CASE Check(t)
      <4>1. Found(t) \/ (pc'[t] = "lock" /\ in'[t] = in[t])
        BY <1>1, <3>1 DEF Check
      <4> QED
        BY <1>1, <1>4, <3>1, <4>1, Descent DEF Check
    <3>2. CASE Lock(t)
      BY <1>1, <3>2, Descent DEF Lock, Goto, local
    <3>3. CASE Recheck(t)
      <4>1. CASE Found(t)
        BY <1>4, <3>3, <4>1 DEF Recheck
      <4>2. CASE Miss(t)
        BY <1>1, <3>3, <4>2, MissGoes, Descent DEF Recheck
      <4> QED
        BY <3>3, <4>1, <4>2 DEF Recheck
    <3>4. CASE Fill(t)
      BY <1>4, <3>4 DEF Fill
    <3> QED
      BY <1>5, <3>1, <3>2, <3>3, <3>4 DEF CacheStep
  <2> QED
    BY <1>3, <2>1, <2>2 DEF Nearer
<1>6. CASE CallFails(t)
  <2>1. faults < MaxFaults /\ faults' = faults + 1
    BY <1>6 DEF CallFails, Fault
  <2>2. after <= before + 8
    <3>1. \/ pc[t] = "fill" /\ in[t] = "accounts"
          \/ pc[t] = "file" /\ in[t] = "services"
      BY <1>1, <1>6 DEF CallFails, CacheInv
    <3>2. \/ pc[t] = "fill" /\ pc'[t] = "check" /\ in'[t] = in[t]
          \/ pc'[t] = "check" /\ in'[t] = "services"
          \/ pc'[t] = "failed" /\ in'[t] = in[t]
      BY <1>1, <1>6 DEF CallFails, Raises, Inside
    <3>3. \/ after = Steps("check", "accounts", part[t]) /\ pc[t] = "fill" /\ in[t] = "accounts"
          \/ after = Steps("check", "services", part[t])
          \/ after < before
      BY <1>1, <3>1, <3>2, Descent DEF Looking
    <3> QED
      BY <1>1, <1>3, <3>1, <3>3, Descent
  <2> QED
    BY <1>3, <2>1, <2>2 DEF Nearer
<1> QED
  BY <1>5, <1>6

LEMMA RunNearer ==
  ASSUME IInv, NEW r \in Run, StartPrepare(r) \/ MainStep(r) \/ PoolStep(r) \/ CreateAccountFails(r)
  PROVE  Nearer(r)
<1> USE Kinds
<1>1. /\ TypeOK /\ CacheInv(r) /\ Sequence(r)
      /\ pc \in [Thread -> {"idle", "create", "generate", "find", "check", "lock", "recheck", "fill",
                            "file", "report", "return", "done", "failed"}]
      /\ main \in [Run -> {"idle", "group", "network", "join", "done", "failed"}]
      /\ in \in [Thread -> Cache] /\ part \in [Thread -> Part] /\ r \in Thread
  BY DEF IInv, TypeOK
<1> DEFINE before == Steps(pc[r], in[r], part[r])
           after == Steps(pc'[r], in'[r], part'[r])
<1>2. /\ Place(r) = before + MainSteps(main[r])
      /\ Place(r)' = after + MainSteps(main'[r])
      /\ before \in Nat /\ after \in Nat
      /\ MainSteps(main[r]) \in Nat /\ MainSteps(main'[r]) \in Nat
  <2>1. TypeOK'
    BY <1>1, TypeMain, TypePool
  <2>2. /\ pc' \in [Thread -> {"idle", "create", "generate", "find", "check", "lock", "recheck", "fill",
                               "file", "report", "return", "done", "failed"}]
        /\ main' \in [Run -> {"idle", "group", "network", "join", "done", "failed"}]
        /\ in' \in [Thread -> Cache] /\ part' \in [Thread -> Part]
    BY <2>1 DEF TypeOK
  <2>3. before \in Nat /\ after \in Nat
    BY <1>1, <2>2, StepBounds
  <2>4. MainSteps(main[r]) \in Nat /\ MainSteps(main'[r]) \in Nat
    BY <1>1, <2>2 DEF MainSteps
  <2> QED
    BY <2>3, <2>4 DEF Place
<1>3. CASE StartPrepare(r) \/ BuildNetwork(r) \/ MainRaises(r) \/ JoinPool(r)
  <2>1. after = before /\ (faults' = faults \/ (faults < MaxFaults /\ faults' = faults + 1))
    BY <1>3 DEF StartPrepare, BuildNetwork, MainRaises, JoinPool, Fault, local
  <2>2. MainSteps(main'[r]) < MainSteps(main[r])
    BY <1>1, <1>3 DEF StartPrepare, BuildNetwork, MainRaises, JoinPool, MainTo, MainSteps
  <2> QED
    BY <1>2, <2>1, <2>2 DEF Nearer
<1>4. CASE StartPool(r)
  <2>1. /\ faults' = faults /\ pc[r] = "idle" /\ pc'[r] = "create"
        /\ main[r] = "group" /\ main'[r] = "network"
    BY <1>1, <1>4 DEF StartPool, Goto, MainTo
  <2>2. after < before /\ MainSteps(main'[r]) < MainSteps(main[r])
    BY <2>1 DEF Steps, MainSteps, Looking
  <2> QED
    BY <1>2, <2>1, <2>2 DEF Nearer
<1>5. CASE PoolStep(r) \/ CreateAccountFails(r)
  <2>1. main' = main
    BY <1>5 DEF PoolStep, CreateAccount, Generate, WriteFile, Report, PoolCancelled, CreateAccountFails
  <2>2. CASE CreateAccountFails(r)
    <3>1. faults < MaxFaults /\ faults' = faults + 1 /\ pc[r] = "create" /\ pc'[r] \in {"create", "failed"}
      BY <1>1, <2>2 DEF CreateAccountFails, Fault, Goto
    <3>2. after <= before
      BY <3>1 DEF Steps, Looking
    <3> QED
      BY <1>2, <2>1, <3>1, <3>2 DEF Nearer
  <2>3. CASE PoolStep(r)
    <3>1. faults' = faults
      BY <2>3 DEF PoolStep, CreateAccount, Generate, WriteFile, Report, PoolCancelled
    <3>2. after < before
      <4>1. CASE CreateAccount(r) \/ Report(r) \/ PoolCancelled(r)
        <5>1. \/ pc[r] = "create" /\ pc'[r] = "generate"
              \/ pc[r] = "report" /\ pc'[r] \in {"done", "failed"}
              \/ pc[r] = "generate" /\ pc'[r] = "failed"
          BY <1>1, <4>1 DEF CreateAccount, Report, PoolCancelled, Goto
        <5> QED
          BY <5>1 DEF Steps, Looking
      <4>2. CASE Generate(r)
        <5>1. pc[r] = "generate" /\ pc'[r] = "check" /\ in'[r] = "services"
          BY <1>1, <4>2 DEF Generate, Goto, Inside
        <5> QED
          BY <5>1 DEF Steps, Looking, Deeper, Depth
      <4>3. CASE WriteFile(r)
        <5>1. /\ pc[r] = "file" /\ in[r] = "services" /\ in'[r] = in[r]
              /\ \/ part[r] = "public" /\ pc'[r] = "check" /\ part'[r] = "private"
                 \/ part[r] # "public" /\ pc'[r] = "report"
          BY <1>1, <4>3 DEF WriteFile, CacheInv
        <5> QED
          BY <5>1 DEF Steps, Looking, Deeper, Depth
      <4> QED
        BY <2>3, <4>1, <4>2, <4>3 DEF PoolStep
    <3> QED
      BY <1>2, <2>1, <3>1, <3>2 DEF Nearer
  <2> QED
    BY <1>5, <2>2, <2>3
<1> QED
  BY <1>3, <1>4, <1>5 DEF MainStep

LEMMA GetNearer ==
  ASSUME IInv, NEW g \in Getter, StartGet(g) \/ GetStep(g)
  PROVE  Nearer(g)
<1> USE Kinds
<1>1. /\ TypeOK /\ CacheInv(g)
      /\ pc \in [Thread -> {"idle", "create", "generate", "find", "check", "lock", "recheck", "fill",
                            "file", "report", "return", "done", "failed"}]
      /\ in \in [Thread -> Cache] /\ part \in [Thread -> Part] /\ g \in Thread /\ g \notin Run
  BY DEF IInv, TypeOK
<1>2. /\ Place(g) = Steps(pc[g], in[g], part[g]) /\ Place(g) \in Nat
      /\ Place(g)' = Steps(pc'[g], in'[g], part'[g]) /\ Place(g)' \in Nat
  <2>1. /\ Steps(pc[g], in[g], part[g]) \in Nat
        /\ Steps(pc'[g], in'[g], part'[g]) \in Nat
    <3>1. TypeOK'
      BY <1>1, TypeGet
    <3>2. /\ pc' \in [Thread -> {"idle", "create", "generate", "find", "check", "lock", "recheck", "fill",
                                 "file", "report", "return", "done", "failed"}]
          /\ in' \in [Thread -> Cache] /\ part' \in [Thread -> Part]
      BY <3>1 DEF TypeOK
    <3> QED
      BY <1>1, <3>2, StepBounds
  <2> QED
    BY <1>1, <2>1 DEF Place
<1>3. CASE StartGet(g) \/ ReturnPair(g)
  <2>1. /\ faults' = faults
        /\ \/ pc[g] = "idle" /\ pc'[g] = "find"
           \/ pc[g] = "return" /\ pc'[g] = "done"
    BY <1>1, <1>3 DEF StartGet, ReturnPair, Goto
  <2>2. Steps(pc'[g], in'[g], part'[g]) < Steps(pc[g], in[g], part[g])
    BY <2>1 DEF Steps, Looking
  <2> QED
    BY <1>2, <2>1, <2>2 DEF Nearer
<1>4. CASE FindAccount(g)
  <2>1. /\ faults' = faults \/ (faults < MaxFaults /\ faults' = faults + 1)
        /\ pc[g] = "find" /\ pc'[g] \in {"check", "failed"} /\ in'[g] = in[g] /\ part'[g] = part[g]
    BY <1>1, <1>4 DEF FindAccount, Goto, Fault, local
  <2>2. in[g] = "pairs"
    BY <1>1, <2>1 DEF CacheInv
  <2>3. Steps(pc'[g], in'[g], part'[g]) < Steps(pc[g], in[g], part[g])
    BY <2>1, <2>2 DEF Steps, Looking, Deeper, Depth
  <2> QED
    BY <1>2, <2>1, <2>3 DEF Nearer
<1>5. CASE ReadFile(g)
  <2>1. /\ faults' = faults /\ pc[g] = "file" /\ in[g] = "services"
        /\ \/ part[g] = "public" /\ pc'[g] = "check" /\ in'[g] = in[g] /\ part'[g] = "private"
           \/ part[g] # "public" /\ pc'[g] = "return"
    BY <1>1, <1>5 DEF ReadFile, CacheInv
  <2>2. Steps(pc'[g], in'[g], part'[g]) < Steps(pc[g], in[g], part[g])
    BY <2>1 DEF Steps, Looking, Deeper, Depth
  <2> QED
    BY <1>2, <2>1, <2>2 DEF Nearer
<1> QED
  BY <1>3, <1>4, <1>5 DEF GetStep

(* A step moves one thread, and spends at most one fault.                     *)
LEMMA OthersStay ==
  ASSUME IInv, NEW u \in Thread, Own(u), NEW t \in Thread \ {u}
  PROVE  Place(t)' = Place(t)
<1> USE Kinds
<1>1. /\ TypeOK /\ CacheInv(u)
      /\ pc \in [Thread -> {"idle", "create", "generate", "find", "check", "lock", "recheck", "fill",
                            "file", "report", "return", "done", "failed"}]
      /\ main \in [Run -> {"idle", "group", "network", "join", "done", "failed"}]
      /\ in \in [Thread -> Cache] /\ part \in [Thread -> Part]
  BY DEF IInv, TypeOK
<1>2. pc'[t] = pc[t] /\ part'[t] = part[t]
  BY <1>1, RunFrame, GetFrame, CacheFrame DEF Own
<1>3. in'[t] = in[t]
  <2>1. in' = in \/ \E c : in' = [in EXCEPT ![u] = c]
    <3>1. CASE CacheStep(u) \/ CallFails(u)
      <4>1. in' = in \/ Found(u) \/ Miss(u) \/ \E c : in' = [in EXCEPT ![u] = c]
        BY <3>1 DEF CacheStep, Check, Lock, Recheck, Fill, CallFails, Inside, local
      <4> QED
        BY <1>1, <4>1, FoundGoes, MissGoes
    <3>2. CASE ~(CacheStep(u) \/ CallFails(u))
      BY <3>2 DEF Own, StartPrepare, MainStep, StartPool, BuildNetwork, MainRaises, JoinPool, PoolStep,
         CreateAccount, Generate, WriteFile, Report, PoolCancelled, CreateAccountFails, StartGet, GetStep,
         FindAccount, ReadFile, ReturnPair, local, Inside
    <3> QED
      BY <3>1, <3>2
  <2> QED
    BY <1>1, <2>1
<1>4. t \in Run => main'[t] = main[t]
  <2>1. main' = main \/ \E m : main' = [main EXCEPT ![u] = m]
    BY <1>1, GetFrame, CacheFrame
    DEF Own, StartPrepare, MainStep, StartPool, BuildNetwork, MainRaises, JoinPool, PoolStep,
        CreateAccount, Generate, WriteFile, Report, PoolCancelled, CreateAccountFails, MainTo
  <2> QED
    BY <1>1, <2>1
<1> QED
  BY <1>2, <1>3, <1>4 DEF Place

LEMMA OwnNearer ==
  ASSUME IInv, NEW t \in Thread, Own(t)
  PROVE  Nearer(t)
BY RunNearer, GetNearer, CacheNearer DEF Own

(* Without a step of its own a thread stays where it is.                      *)
LEMMA NobodyMoves ==
  ASSUME IInv, [Next]_vars, \A u \in Thread : ~Own(u)
  PROVE  \A t \in Thread : Place(t)' = Place(t) /\ faults' = faults
<1>1. UNCHANGED <<main, pc, in, part, faults>>
  BY Kinds DEF Next, vars, Own, Cancel, local
<1> QED
  BY <1>1 DEF Place

(* The calls and looks into a cache a preparation or a command still has      *)
(* before it are at most 29, and 9 for each call that fails and is retried;   *)
(* none is left only where its threads have ended.                           *)
DistanceBounded ==
  \A t \in Thread : /\ Remaining(t) \in 0 .. (29 + 9 * MaxFaults)
                   /\ Remaining(t) = 0 => pc[t] \in {"done", "failed"} /\ (t \in Run => Over(t))

THEOREM CommandsBounded == Spec => []DistanceBounded
<1>1. TypeOK => DistanceBounded
  <2> SUFFICES ASSUME TypeOK, NEW t \in Thread
               PROVE  /\ Remaining(t) \in 0 .. (29 + 9 * MaxFaults)
                      /\ Remaining(t) = 0 => pc[t] \in {"done", "failed"} /\ (t \in Run => Over(t))
    BY DEF DistanceBounded
  <2>1. faults \in 0 .. MaxFaults /\ MaxFaults \in Nat
    BY KeyPairsAssumption DEF TypeOK
  <2> QED
    BY <2>1, PlaceBounds DEF Remaining
<1> QED
  BY <1>1, TypeCorrect, PTL

(* Every step of a preparation or a command leaves it fewer than before, and  *)
(* no step of another gives it more: with the bound, and with someone always  *)
(* free to go on, nobody looks into the nested caches for ever.              *)
DistanceShrinks ==
  \A t \in Thread : Remaining(t)' <= Remaining(t) /\ (Own(t) => Remaining(t)' < Remaining(t))

THEOREM CommandsProgress == Spec => [][DistanceShrinks]_vars
<1>1. ASSUME IInv, [Next]_vars
      PROVE  DistanceShrinks
  <2>1. /\ faults \in 0 .. MaxFaults /\ MaxFaults \in Nat
        /\ \A t \in Thread : Place(t) \in Nat
    BY <1>1, PlaceBounds, KeyPairsAssumption DEF IInv, TypeOK
  <2>2. ASSUME NEW t \in Thread, Own(t)
        PROVE  Remaining(t)' < Remaining(t)
    BY <1>1, <2>1, <2>2, OwnNearer DEF Nearer, Remaining
  <2>3. ASSUME NEW t \in Thread, ~Own(t)
        PROVE  Remaining(t)' <= Remaining(t)
    <3>1. CASE \E u \in Thread : Own(u)
      <4>1. PICK u \in Thread \ {t} : Own(u)
        BY <2>3, <3>1
      <4>2. Place(t)' = Place(t) /\ Nearer(u)
        BY <1>1, <4>1, OthersStay, OwnNearer
      <4> QED
        BY <2>1, <4>2 DEF Nearer, Remaining
    <3>2. CASE \A u \in Thread : ~Own(u)
      BY <1>1, <2>1, <3>2, NobodyMoves DEF Remaining
    <3> QED
      BY <3>1, <3>2
  <2>4. \A t \in Thread : Own(t) => Remaining(t)' <= Remaining(t)
    BY <1>1, <2>1, OwnNearer DEF Nearer, Remaining
  <2> QED
    BY <2>2, <2>3, <2>4 DEF DistanceShrinks
<1>2. IInv /\ [Next]_vars => [DistanceShrinks]_vars
  BY <1>1
<1> QED
  BY <1>2, Initially, Inductive, PTL DEF Spec
-----------------------------------------------------------------------------
(* The cache of pairs implements a write-once cache.                        *)
Cell == [k \in {"pairs"} |-> cached]
Answer == [g \in Getter |-> [k \in {"pairs"} |-> got[g]]]

LEMMA OnceStep ==
  ASSUME IInv, [Next]_vars
  PROVE  [Once!Next]_<<Cell, Answer>>
<1> USE Kinds
<1>1. TypeOK /\ \A t \in Thread : CacheInv(t)
  BY DEF IInv
<1>2. CASE UNCHANGED <<cached, got>>
  BY <1>2 DEF Cell, Answer
<1>3. ASSUME NEW g \in Getter, ReadFile(g)
      PROVE  [Once!Next]_<<Cell, Answer>>
  <2>1. CASE part[g] = "public"
    BY <1>2, <1>3, <2>1 DEF ReadFile, results
  <2>2. CASE part[g] # "public"
    <3>1. cached' = <<half[g], files["private"]>> /\ got' = got /\ cached = NONE
      BY <1>1, <1>3, <2>2 DEF ReadFile, results, CacheInv, Looking
    <3>2. cached' \in Pair
      <4>1. part[g] = "private" /\ files["private"] \in Run
        BY <1>1, <1>3, <2>2 DEF ReadFile, TypeOK, Part
      <4>2. half[g] \in Run
        BY <1>1, <4>1 DEF CacheInv
      <4> QED
        BY <3>1, <4>1, <4>2 DEF Pair
    <3>3. Cell["pairs"] = NONE /\ Cell' = [Cell EXCEPT !["pairs"] = cached'] /\ Answer' = Answer
      BY <3>1 DEF Cell, Answer
    <3> QED
      BY <3>2, <3>3 DEF Once!Next, Once!Fill, Cell, Answer
  <2> QED
    BY <2>1, <2>2
<1>4. ASSUME NEW g \in Getter, ReturnPair(g)
      PROVE  [Once!Next]_<<Cell, Answer>>
  <2>1. got' = [got EXCEPT ![g] = cached] /\ cached' = cached /\ cached # NONE
    BY <1>1, <1>4 DEF ReturnPair, caches, Goto, CacheInv
  <2>2. Answer' = [Answer EXCEPT ![g] = [Once!NoAnswer EXCEPT !["pairs"] = Cell["pairs"]]]
    BY <1>1, <2>1 DEF Answer, Cell, Once!NoAnswer, TypeOK
  <2>3. Cell' = Cell /\ Cell["pairs"] # NONE
    BY <2>1 DEF Cell
  <2> QED
    BY <2>2, <2>3 DEF Once!Next, Once!Answer, Cell, Answer
<1>5. ASSUME NEW g \in Getter, StartGet(g) \/ FindAccount(g)
      PROVE  UNCHANGED <<cached, got>>
  BY <1>5 DEF StartGet, FindAccount, caches, results
<1>6. ASSUME NEW r \in Run,
             StartPrepare(r) \/ MainStep(r) \/ Cancel(r) \/ PoolStep(r) \/ CreateAccountFails(r)
      PROVE  UNCHANGED <<cached, got>>
  BY <1>1, <1>6, RunFrame
<1>7. ASSUME NEW t \in Thread, CacheStep(t) \/ CallFails(t)
      PROVE  UNCHANGED <<cached, got>>
  BY <1>1, <1>7, CacheFrame
<1>8. CASE UNCHANGED vars
  BY <1>2, <1>8 DEF vars, caches, results
<1> QED
  BY <1>2, <1>3, <1>4, <1>5, <1>6, <1>7, <1>8 DEF Next, GetStep

(* Whatever preparations run beside them, all commands of a process that     *)
(* read the pair get one pair: get_key_pair fills its cache once.            *)
THEOREM PairRefined == Spec => OneKeyPair
<1>1. Init => Once!Init
  BY DEF Init, Once!Init, Once!NoAnswer
<1>2. IInv /\ [Next]_vars => [Once!Next]_<<Cell, Answer>>
  BY OnceStep
<1> QED
  BY <1>1, <1>2, Initially, Inductive, PTL DEF Spec, OneKeyPair, Once!Spec, Once!vars, Cell, Answer
=============================================================================
