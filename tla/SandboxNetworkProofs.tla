------------------------ MODULE SandboxNetworkProofs ------------------------
(***************************************************************************)
(* What a prepared sandbox keeps, and what a clean-up that succeeded has     *)
(* removed, for any sandboxes, address ranges and faults.  A sandbox's       *)
(* subnets are written by its own commands, and as stale ones by the         *)
(* preparations of others: Local joins what holds of one sandbox, and Frame  *)
(* says what the steps of the others may do to it.                           *)
(***************************************************************************)
EXTENDS SandboxConnectivityProofs, FiniteSetTheorems

(* The commands of a sandbox follow one another.                            *)
Phases(s) ==
  /\ pc[C(s)] # "idle" => pc[P(s)] \in {"done", "failed"}
  /\ ~Over(R(s)) => pc[P(s)] = "done" /\ pc[C(s)] = "idle"
  /\ s \in released => s \in Past \/ pc[C(s)] \in {"done", "failed"}
  /\ s \in Past => pc[P(s)] = "idle"

AtSubnet == {"create", "stale", "unstale", "recreate"}
WithNsg == {"rules", "lock", "join", "done"} \union AtSubnet
WithGroup == {"vnet", "nsg"} \union WithNsg

Secured(s, c) == <<s, c>> \in secured

(* A preparation has made what it has passed.                               *)
Preparing(s) ==
  /\ pc[P(s)] \in {"lock"} \union AtSubnet => todo[P(s)] \subseteq CidrsOf[s]
  /\ pc[P(s)] \in AtSubnet => at[P(s)] \in CidrsOf[s]
  /\ pc[C(s)] = "idle" =>
       /\ pc[P(s)] \in WithGroup => s \in groups
       /\ pc[P(s)] \in WithNsg => s \in nsgs
       /\ \A c \in CidrsOf[s] :
            /\ pc[P(s)] = "lock" => c \in todo[P(s)] \/ Secured(s, c)
            /\ pc[P(s)] \in AtSubnet => c \in todo[P(s)] \/ c = at[P(s)] \/ Secured(s, c)
            /\ pc[P(s)] \in {"join", "done"} => Secured(s, c)

(* A route command has read the security group of what it is about to PUT.  *)
Routing(s) ==
  /\ pc[R(s)] \in {"lock", "get", "put"} => todo[R(s)] \subseteq CidrsOf[s]
  /\ pc[R(s)] \in {"get", "put"} => at[R(s)] \in CidrsOf[s]
  /\ pc[R(s)] = "put" => read[s]

AfterGroup == {"reread", "deleteLock", "delete", "end"}
NoGroup(s) == s \notin groups \union nsgs \union tables /\ \A x \in nics : x[1] # s
NoSubnet(s) == \A x \in subnets : x[1] # s

(* A clean-up without errors has removed what it has passed.                *)
CleaningUp(s) ==
  /\ pc[C(s)] \in {"detach", "delete"} => at[C(s)] \in Cidr
  /\ pc[C(s)] \in AfterGroup /\ ~errors[s] =>
       /\ NoGroup(s)
       /\ pc[C(s)] = "end" => NoSubnet(s)
       /\ \A x \in subnets : x[1] = s =>
            /\ pc[C(s)] = "deleteLock" => x[2] \in todo[C(s)]
            /\ pc[C(s)] = "delete" => x[2] \in todo[C(s)] \/ x[2] = at[C(s)]
  /\ pc[C(s)] = "done" => NoGroup(s) /\ NoSubnet(s)

Local(s) == Phases(s) /\ Preparing(s) /\ Routing(s) /\ CleaningUp(s)

(* Two sandboxes that want one range are not both at work.                  *)
Ranges ==
  \A s, t \in Sandbox \ released :
    s # t /\ CidrsOf[s] \intersect CidrsOf[t] # {} => pc[P(s)] = "idle" \/ pc[P(t)] = "idle"

(* Something is in the way of a preparation that looks for a stale subnet.  *)
InTheWay == \A s \in Sandbox : pc[P(s)] = "stale" => Overlapped(<<s, at[P(s)]>>)

IInv == TypeOK /\ LockInv /\ Ranges /\ InTheWay /\ \A s \in Sandbox : Local(s)
-----------------------------------------------------------------------------
LEMMA Distinct ==
  ASSUME NEW s \in Sandbox, NEW t \in Sandbox
  PROVE  /\ P(s) # R(t) /\ P(s) # C(t) /\ R(s) # C(t)
         /\ s # t => P(s) # P(t) /\ R(s) # R(t) /\ C(s) # C(t)
BY DEF P, R, C

LEMMA Cidrs ==
  ASSUME NEW s \in Sandbox
  PROVE  CidrsOf[s] \subseteq Cidr /\ NONE \notin Cidr
BY SandboxesAssumption

LEMMA PrepareControl ==
  ASSUME TypeOK, NEW u \in Sandbox, StartPrepare(u) \/ PrepareStep(u)
  PROVE  /\ \A j \in Command \ {P(u)} : pc'[j] = pc[j] /\ todo'[j] = todo[j] /\ at'[j] = at[j]
         /\ \A s \in Sandbox \ {u} : snap'[s] = snap[s]
         /\ UNCHANGED <<read, errors, released, tables, nics>>
         /\ groups \subseteq groups' /\ groups' \subseteq groups \union {u}
         /\ nsgs \subseteq nsgs' /\ nsgs' \subseteq nsgs \union {u}
<1> USE Commands DEF TypeOK, Returns, Raises, Goto, Enter, Leave, Abort, Unwinds, azure, vnet, loop
<1>1. CASE StartPrepare(u)
  BY <1>1 DEF StartPrepare
<1>2. CASE CreateGroup(u) \/ ReadVnet(u)
  BY <1>2 DEF CreateGroup, ReadVnet
<1>3. CASE CreateNsg(u) \/ CreateSubnetNsgRules(u) \/ JoinPool(u)
  BY <1>3 DEF CreateNsg, CreateSubnetNsgRules, JoinPool
<1>4. CASE EnterCreate(u)
  BY <1>4 DEF EnterCreate
<1>5. CASE CreateSubnet(u)
  BY <1>5 DEF CreateSubnet
<1>6. CASE DetachStale(u)
  BY <1>6 DEF DetachStale
<1>7. CASE DeleteStale(u)
  BY <1>7 DEF DeleteStale
<1> QED
  BY <1>1, <1>2, <1>3, <1>4, <1>5, <1>6, <1>7 DEF PrepareStep

LEMMA RouteControl ==
  ASSUME TypeOK, NEW u \in Sandbox, StartRoute(u) \/ RouteStep(u)
  PROVE  /\ \A j \in Command \ {R(u)} : pc'[j] = pc[j] /\ todo'[j] = todo[j] /\ at'[j] = at[j]
         /\ \A s \in Sandbox \ {u} : read'[s] = read[s]
         /\ UNCHANGED <<snap, errors, released, groups, nsgs, nics>>
         /\ tables \subseteq tables' /\ tables' \subseteq tables \union {u}
<1> USE Commands DEF TypeOK, Returns, Raises, Goto, Enter, Leave, Abort, Unwinds, Retries, azure, vnet, loop
<1>1. CASE StartRoute(u)
  BY <1>1 DEF StartRoute
<1>2. CASE CreateTable(u)
  BY <1>2 DEF CreateTable
<1>3. CASE EnterRoute(u)
  BY <1>3 DEF EnterRoute
<1>4. CASE GetSubnet(u)
  BY <1>4 DEF GetSubnet
<1>5. CASE PutRoute(u)
  BY <1>5 DEF PutRoute
<1> QED
  BY <1>1, <1>2, <1>3, <1>4, <1>5 DEF RouteStep

LEMMA CleanupControl ==
  ASSUME TypeOK, NEW u \in Sandbox, StartCleanup(u) \/ CleanupStep(u)
  PROVE  /\ \A j \in Command \ {C(u)} : pc'[j] = pc[j] /\ todo'[j] = todo[j] /\ at'[j] = at[j]
         /\ \A s \in Sandbox \ {u} : snap'[s] = snap[s] /\ errors'[s] = errors[s]
         /\ UNCHANGED <<read, released>>
         /\ groups' \subseteq groups /\ nsgs' \subseteq nsgs /\ tables' \subseteq tables /\ nics' \subseteq nics
         /\ groups \subseteq groups' \union {u} /\ nsgs \subseteq nsgs' \union {u}
         /\ tables \subseteq tables' \union {u} /\ Elsewhere(u) \subseteq nics'
<1> USE Commands DEF TypeOK, Returns, Raises, Goto, Enter, Leave, Abort, Unwinds, Collect, azure, vnet, loop,
                     Elsewhere
<1>1. CASE StartCleanup(u)
  BY <1>1 DEF StartCleanup
<1>2. CASE ReadSubnets(u)
  BY <1>2 DEF ReadSubnets, FindSubnets
<1>3. CASE EnterDetach(u) \/ EnterDelete(u)
  BY <1>3 DEF EnterDetach, EnterDelete
<1>4. CASE DetachSubnet(u)
  BY <1>4 DEF DetachSubnet
<1>5. CASE DeleteGroup(u)
  BY <1>5 DEF DeleteGroup, RemoveGroup
<1>6. CASE RereadSubnets(u)
  BY <1>6 DEF RereadSubnets, FindSubnets
<1>7. CASE DeleteSubnet(u)
  BY <1>7 DEF DeleteSubnet
<1>8. CASE EndCleanup(u)
  BY <1>8 DEF EndCleanup
<1> QED
  BY <1>1, <1>2, <1>3, <1>4, <1>5, <1>6, <1>7, <1>8 DEF CleanupStep
-----------------------------------------------------------------------------
(* Which subnets a step writes.  A preparation writes the subnet it is to   *)
(* make, and the one it takes for stale.                                    *)
LEMMA PrepareWrites ==
  ASSUME TypeOK, InTheWay, NEW u \in Sandbox, StartPrepare(u) \/ PrepareStep(u)
  PROVE  /\ UNCHANGED vnet \/ pc[P(u)] \in SubnetCall
         /\ subnets' \subseteq subnets \union {<<u, at[P(u)]>>}
         /\ nics \subseteq subnets'
         /\ \A x \in secured \ secured' : pc[P(u)] \in {"stale", "unstale"} /\ x[2] = at[P(u)]
<1> DEFINE Goal == /\ UNCHANGED vnet \/ pc[P(u)] \in SubnetCall
                   /\ subnets' \subseteq subnets \union {<<u, at[P(u)]>>}
                   /\ nics \subseteq subnets'
                   /\ \A x \in secured \ secured' : pc[P(u)] \in {"stale", "unstale"} /\ x[2] = at[P(u)]
<1>1. UNCHANGED vnet => Goal
  BY DEF vnet, TypeOK
<1>2. CASE StartPrepare(u) \/ CreateGroup(u) \/ ReadVnet(u) \/ CreateNsg(u)
             \/ CreateSubnetNsgRules(u) \/ EnterCreate(u) \/ JoinPool(u)
  BY <1>1, <1>2 DEF StartPrepare, CreateGroup, ReadVnet, CreateNsg, CreateSubnetNsgRules, EnterCreate,
                    JoinPool, azure
<1>3. CASE CreateSubnet(u)
  <2>1. /\ UNCHANGED vnet \/ PutSubnet(<<u, at[P(u)]>>, TRUE, FALSE)
        /\ pc[P(u)] \in SubnetCall
    BY <1>3 DEF CreateSubnet, SubnetCall
  <2> QED
    BY <2>1, <1>1 DEF PutSubnet, With, TypeOK
<1>4. CASE DetachStale(u)
  <2>1. UNCHANGED vnet \/
        \E x \in Stale(u) : pc[P(u)] = "stale" /\ ~Overlapped(x) /\ PutSubnet(x, FALSE, x \in snap[u].routed)
    BY <1>4 DEF DetachStale, PutRefused
  <2>2. ASSUME NEW x \in Stale(u), pc[P(u)] = "stale", ~Overlapped(x),
               PutSubnet(x, FALSE, x \in snap[u].routed)
        PROVE  Goal
    <3>1. x[2] = at[P(u)]
      BY DEF Stale
    <3>2. PICK y \in subnets : y[2] = at[P(u)]
      BY <2>2 DEF InTheWay, Overlapped
    <3>3. x \in subnets
      BY <2>2, <3>1, <3>2 DEF Overlapped
    <3> QED
      BY <2>2, <3>1, <3>3 DEF PutSubnet, With, TypeOK, SubnetCall
  <2> QED
    BY <2>1, <2>2, <1>1
<1>5. CASE DeleteStale(u)
  <2>1. UNCHANGED vnet \/
        \E x \in Stale(u) : pc[P(u)] = "unstale" /\ x \notin nics /\ RemoveSubnet(x)
    BY <1>5 DEF DeleteStale
  <2>2. ASSUME NEW x \in Stale(u), pc[P(u)] = "unstale", x \notin nics, RemoveSubnet(x)
        PROVE  Goal
    BY <2>2 DEF Stale, RemoveSubnet, TypeOK, SubnetCall
  <2> QED
    BY <2>1, <2>2, <1>1
<1> QED
  BY <1>2, <1>3, <1>4, <1>5 DEF PrepareStep

(* A route command writes the subnet it has read.                           *)
LEMMA RouteWrites ==
  ASSUME TypeOK, NEW u \in Sandbox, StartRoute(u) \/ RouteStep(u)
  PROVE  UNCHANGED vnet \/ (pc[R(u)] = "put" /\ PutRead(u))
<1>1. CASE StartRoute(u) \/ CreateTable(u) \/ EnterRoute(u) \/ GetSubnet(u)
  BY <1>1 DEF StartRoute, CreateTable, EnterRoute, GetSubnet, azure
<1>2. CASE PutRoute(u)
  BY <1>2 DEF PutRoute
<1> QED
  BY <1>1, <1>2 DEF RouteStep

(* A clean-up detaches and deletes the subnet it is at.                     *)
LEMMA CleanupWrites ==
  ASSUME TypeOK, NEW u \in Sandbox, StartCleanup(u) \/ CleanupStep(u)
  PROVE  \/ UNCHANGED vnet
         \/ pc[C(u)] = "detach" /\ PutSubnet(<<u, at[C(u)]>>, FALSE, FALSE)
         \/ pc[C(u)] = "delete" /\ <<u, at[C(u)]>> \notin nics /\ RemoveSubnet(<<u, at[C(u)]>>)
<1>1. CASE StartCleanup(u) \/ ReadSubnets(u) \/ EnterDetach(u) \/ DeleteGroup(u) \/ RereadSubnets(u)
             \/ EnterDelete(u) \/ EndCleanup(u)
  BY <1>1 DEF StartCleanup, ReadSubnets, FindSubnets, EnterDetach, DeleteGroup, RereadSubnets,
              EnterDelete, EndCleanup, azure
<1>2. CASE DetachSubnet(u)
  BY <1>2 DEF DetachSubnet
<1>3. CASE DeleteSubnet(u)
  BY <1>3 DEF DeleteSubnet
<1> QED
  BY <1>1, <1>2, <1>3 DEF CleanupStep
-----------------------------------------------------------------------------
(* What the steps of the others do to a sandbox.                            *)
Quiet(s) ==
  /\ \A k \in {P(s), R(s), C(s)} : pc'[k] = pc[k] /\ todo'[k] = todo[k] /\ at'[k] = at[k]
  /\ read'[s] = read[s] /\ errors'[s] = errors[s]
  /\ s \in groups' <=> s \in groups
  /\ s \in nsgs' <=> s \in nsgs
  /\ s \in tables' <=> s \in tables
  /\ s \in released' <=> s \in released
  /\ \A x \in nics' : x[1] = s => x \in nics
  /\ \A x \in subnets' : x[1] = s => x \in subnets
  /\ \A c \in CidrsOf[s] :
       pc[P(s)] # "idle" /\ pc[C(s)] = "idle" /\ <<s, c>> \in secured => <<s, c>> \in secured'

LEMMA Frame ==
  ASSUME NEW s \in Sandbox, Local(s), Quiet(s)
  PROVE  Local(s)'
<1>1. Phases(s)'
  BY DEF Local, Phases, Quiet, Over, P, R, C
<1>2. Preparing(s)'
  <2>1. /\ pc'[P(s)] = pc[P(s)] /\ pc'[C(s)] = pc[C(s)] /\ todo'[P(s)] = todo[P(s)] /\ at'[P(s)] = at[P(s)]
        /\ s \in groups' <=> s \in groups
        /\ s \in nsgs' <=> s \in nsgs
    BY DEF Quiet
  <2>2. ASSUME NEW c \in CidrsOf[s], pc[P(s)] # "idle", pc[C(s)] = "idle", Secured(s, c)
        PROVE  Secured(s, c)'
    BY <2>2 DEF Quiet, Secured
  <2>3. (P(s))' = P(s) /\ (C(s))' = C(s)
    BY DEF P, C
  <2> QED
    BY <2>1, <2>2, <2>3 DEF Local, Preparing, WithGroup, WithNsg, AtSubnet
<1>3. Routing(s)'
  BY DEF Local, Routing, Quiet, R
<1>4. CleaningUp(s)'
  <2>1. /\ pc'[C(s)] = pc[C(s)] /\ todo'[C(s)] = todo[C(s)] /\ at'[C(s)] = at[C(s)] /\ errors'[s] = errors[s]
        /\ NoGroup(s) => NoGroup(s)'
        /\ NoSubnet(s) => NoSubnet(s)'
        /\ \A x \in subnets' : x[1] = s => x \in subnets
    BY DEF Quiet, NoGroup, NoSubnet
  <2>2. (C(s))' = C(s)
    BY DEF C
  <2> QED
    BY <2>1, <2>2 DEF Local, CleaningUp, AfterGroup
<1> QED
  BY <1>1, <1>2, <1>3, <1>4 DEF Local

(* The stale subnet a preparation writes is not one a sandbox at work has   *)
(* prepared: the two would want the same range.                             *)
LEMMA Quiet1 ==
  ASSUME IInv, NEW s \in Sandbox, NEW u \in Sandbox \ {s}, StartPrepare(u) \/ PrepareStep(u)
  PROVE  Quiet(s)
<1> USE Commands, Distinct
<1>1. TypeOK /\ InTheWay
  BY DEF IInv
<1>2. P(s) # P(u) /\ R(s) # P(u) /\ C(s) # P(u)
  OBVIOUS
<1>3. ASSUME NEW c \in CidrsOf[s], pc[P(s)] # "idle", pc[C(s)] = "idle", <<s, c>> \in secured
      PROVE  <<s, c>> \in secured'
  <2> SUFFICES ASSUME <<s, c>> \notin secured' PROVE FALSE
    OBVIOUS
  <2>1. pc[P(u)] \in {"stale", "unstale"} /\ c = at[P(u)]
    BY <1>1, <1>3, PrepareWrites
  <2>2. c \in CidrsOf[u]
    BY <2>1 DEF IInv, Local, Preparing, AtSubnet
  <2>3. u \notin released
    BY <2>1 DEF IInv, Local, Phases
  <2>4. s \notin released
    BY <1>3 DEF IInv, Local, Phases
  <2> QED
    BY <1>3, <2>1, <2>2, <2>3, <2>4 DEF IInv, Ranges
<1>4. \A x \in subnets' : x[1] = s => x \in subnets
  BY <1>1, PrepareWrites
<1> QED
  BY <1>1, <1>2, <1>3, <1>4, PrepareControl DEF Quiet

LEMMA Quiet2 ==
  ASSUME IInv, NEW s \in Sandbox, NEW u \in Sandbox \ {s}, StartRoute(u) \/ RouteStep(u)
  PROVE  Quiet(s)
<1> USE Commands, Distinct
<1>1. TypeOK
  BY DEF IInv
<1>2. P(s) # R(u) /\ R(s) # R(u) /\ C(s) # R(u)
  OBVIOUS
<1>3. \A x \in subnets' : x[1] = s => x \in subnets
  <2>1. subnets' = subnets \/ subnets' = subnets \union {<<u, at[R(u)]>>}
    BY <1>1, RouteWrites DEF PutRead, PutSubnet, vnet
  <2> QED BY <2>1
<1>4. \A c : <<s, c>> \in secured => <<s, c>> \in secured'
  BY <1>1, RouteWrites DEF PutRead, PutSubnet, With, vnet
<1> QED
  BY <1>1, <1>2, <1>3, <1>4, RouteControl DEF Quiet

LEMMA Quiet3 ==
  ASSUME IInv, NEW s \in Sandbox, NEW u \in Sandbox \ {s}, StartCleanup(u) \/ CleanupStep(u)
  PROVE  Quiet(s)
<1> USE Commands, Distinct
<1>1. TypeOK
  BY DEF IInv
<1>2. P(s) # C(u) /\ R(s) # C(u) /\ C(s) # C(u)
  OBVIOUS
<1>3. \A x \in subnets' : x[1] = s => x \in subnets
  <2>1. \/ subnets' = subnets \/ subnets' = subnets \union {<<u, at[C(u)]>>}
        \/ subnets' = subnets \ {<<u, at[C(u)]>>}
    BY <1>1, CleanupWrites DEF PutSubnet, RemoveSubnet, vnet
  <2> QED BY <2>1
<1>4. \A c : <<s, c>> \in secured => <<s, c>> \in secured'
  BY <1>1, CleanupWrites DEF PutSubnet, RemoveSubnet, With, vnet
<1> QED
  BY <1>1, <1>2, <1>3, <1>4, CleanupControl DEF Quiet

LEMMA Quiet4 ==
  ASSUME IInv, NEW s \in Sandbox, NEW u \in Sandbox \ {s}, Deploy(u) \/ Release(u)
  PROVE  Quiet(s)
BY DEF Quiet, Deploy, Release, vnet, azure, loop
-----------------------------------------------------------------------------
(* A sandbox's own steps.  A preparation runs while no other command of the *)
(* sandbox does.                                                            *)
LEMMA OwnPrepare ==
  ASSUME IInv, NEW s \in Sandbox, StartPrepare(s) \/ PrepareStep(s)
  PROVE  Local(s)'
<1> USE Commands, Distinct
<1>1. TypeOK /\ InTheWay /\ LockInv /\ LockInv' /\ Local(s)
  BY PrepareKeepsLock DEF IInv
<1>2. pc[C(s)] = "idle" /\ Over(R(s)) /\ s \notin Past
  BY <1>1 DEF StartPrepare, PrepareStep, CreateGroup, ReadVnet, CreateNsg, CreateSubnetNsgRules,
              EnterCreate, Enter, CreateSubnet, DetachStale, DeleteStale, JoinPool, Local, Phases, Over
<1>3. pc'[C(s)] = "idle" /\ pc'[R(s)] = pc[R(s)] /\ (C(s))' = C(s) /\ (R(s))' = R(s) /\ (P(s))' = P(s)
      /\ todo'[R(s)] = todo[R(s)] /\ at'[R(s)] = at[R(s)] /\ read' = read /\ released' = released
  <2>1. C(s) # P(s) /\ R(s) # P(s)
    OBVIOUS
  <2> QED
    BY <1>1, <1>2, <2>1, PrepareControl DEF C, R, P
<1>4. Phases(s)' /\ Routing(s)' /\ CleaningUp(s)'
  <2>1. Phases(s)'
    BY <1>1, <1>2, <1>3 DEF Local, Phases, Over
  <2>2. Routing(s)'
    BY <1>1, <1>3 DEF Local, Routing
  <2>3. CleaningUp(s)'
    BY <1>3 DEF CleaningUp, AfterGroup
  <2> QED
    BY <2>1, <2>2, <2>3
<1>5. Preparing(s)'
  <2>1. /\ pc \in [Command -> Labels] /\ todo \in [Command -> SUBSET Cidr]
        /\ at \in [Command -> Cidr \union {NONE}]
        /\ groups \subseteq groups' /\ nsgs \subseteq nsgs' /\ P(s) \in Command
    BY <1>1, PrepareControl DEF TypeOK
  <2>2. Preparing(s) /\ pc[C(s)] = "idle" /\ (P(s))' = P(s) /\ (C(s))' = C(s)
    BY <1>1, <1>2, <1>3 DEF Local
  <2>3. \A c \in CidrsOf[s] : Secured(s, c) =>
          Secured(s, c)' \/ (pc[P(s)] \in {"stale", "unstale"} /\ c = at[P(s)])
    <3> SUFFICES ASSUME NEW c \in CidrsOf[s], <<s, c>> \in secured \ secured'
                 PROVE  pc[P(s)] \in {"stale", "unstale"} /\ c = at[P(s)]
      BY DEF Secured
    <3> QED
      BY <1>1, PrepareWrites
  <2>4. pc'[P(s)] \in {"failed", "group"} => Preparing(s)'
    BY <2>2 DEF Preparing, WithGroup, WithNsg, AtSubnet
  <2>5. CASE StartPrepare(s)
    BY <2>1, <2>4, <2>5 DEF StartPrepare, Returns, Goto
  <2>6. CASE CreateGroup(s)
    <3>1. \/ pc' = [pc EXCEPT ![P(s)] = "failed"]
          \/ pc' = [pc EXCEPT ![P(s)] = "vnet"] /\ s \in groups'
      BY <2>6 DEF CreateGroup, Returns, Raises, Goto
    <3> QED
      BY <2>1, <2>2, <2>4, <3>1 DEF Preparing, WithGroup, WithNsg, AtSubnet
  <2>7. CASE ReadVnet(s)
    <3>1. pc[P(s)] = "vnet" /\ pc'[P(s)] \in {"failed", "nsg"}
      BY <2>1, <2>7 DEF ReadVnet, Returns, Raises, Goto
    <3> QED
      BY <2>1, <2>2, <2>4, <3>1 DEF Preparing, WithGroup, WithNsg, AtSubnet
  <2>8. CASE CreateNsg(s)
    <3>1. /\ pc[P(s)] = "nsg"
          /\ \/ pc' = [pc EXCEPT ![P(s)] = "failed"]
             \/ pc' = [pc EXCEPT ![P(s)] = "rules"] /\ s \in nsgs'
      BY <2>8 DEF CreateNsg, Returns, Raises, Goto
    <3> QED
      BY <2>1, <2>2, <2>4, <3>1 DEF Preparing, WithGroup, WithNsg, AtSubnet
  <2>9. CASE CreateSubnetNsgRules(s)
    <3>1. /\ pc[P(s)] = "rules"
          /\ \/ pc' = [pc EXCEPT ![P(s)] = "failed"]
             \/ pc' = [pc EXCEPT ![P(s)] = "lock"] /\ todo'[P(s)] = CidrsOf[s]
      BY <2>1, <2>9 DEF CreateSubnetNsgRules, Returns, Raises, Goto
    <3> QED
      BY <2>1, <2>2, <2>4, <3>1 DEF Preparing, WithGroup, WithNsg, AtSubnet
  <2>10. CASE EnterCreate(s)
    <3>1. /\ pc[P(s)] = "lock" /\ pc'[P(s)] = "create"
          /\ at'[P(s)] \in todo[P(s)] /\ todo'[P(s)] = todo[P(s)] \ {at'[P(s)]}
      BY <2>1, <2>10 DEF EnterCreate, Enter, Returns, Goto
    <3> QED
      BY <2>1, <2>2, <2>3, <3>1 DEF Preparing, WithGroup, WithNsg, AtSubnet
  <2>11. CASE CreateSubnet(s)
    <3>1. /\ pc[P(s)] \in {"create", "recreate"}
          /\ \/ pc'[P(s)] = "failed"
             \/ pc'[P(s)] = "stale" /\ at'[P(s)] = at[P(s)] /\ todo'[P(s)] = todo[P(s)]
             \/ /\ pc'[P(s)] = IF todo[P(s)] = {} THEN "join" ELSE "lock"
                /\ todo'[P(s)] = todo[P(s)] /\ <<s, at[P(s)]>> \in secured'
      BY <2>1, <2>11 DEF CreateSubnet, Leave, Abort, Unwinds, Returns, Raises, Goto, PutSubnet, With, loop
    <3> QED
      BY <2>1, <2>2, <2>3, <2>4, <3>1 DEF Preparing, WithGroup, WithNsg, AtSubnet, Secured
  <2>12. CASE DetachStale(s) \/ DeleteStale(s)
    <3>1. /\ pc[P(s)] \in {"stale", "unstale"}
          /\ \/ pc'[P(s)] = "failed"
             \/ /\ pc'[P(s)] \in {"unstale", "recreate"}
                /\ at'[P(s)] = at[P(s)] /\ todo'[P(s)] = todo[P(s)]
      BY <2>1, <2>12 DEF DetachStale, DeleteStale, Abort, Unwinds, Returns, Raises, Goto, loop
    <3> QED
      BY <2>1, <2>2, <2>3, <2>4, <3>1 DEF Preparing, WithGroup, WithNsg, AtSubnet
  <2>13. CASE JoinPool(s)
    <3>1. pc[P(s)] = "join" /\ pc'[P(s)] \in {"failed", "done"}
      BY <2>1, <2>13 DEF JoinPool, Returns, Raises, Goto
    <3> QED
      BY <2>1, <2>2, <2>3, <2>4, <3>1 DEF Preparing, WithGroup, WithNsg, AtSubnet
  <2> QED
    BY <2>5, <2>6, <2>7, <2>8, <2>9, <2>10, <2>11, <2>12, <2>13 DEF PrepareStep
<1> QED
  BY <1>4, <1>5 DEF Local

(* A route command runs on a prepared sandbox, and puts back what it read.  *)
LEMMA OwnRoute ==
  ASSUME IInv, NEW s \in Sandbox, StartRoute(s) \/ RouteStep(s)
  PROVE  Local(s)'
<1> USE Commands, Distinct
<1>1. TypeOK /\ Local(s)
  BY DEF IInv
<1>2. pc[P(s)] = "done" /\ pc[C(s)] = "idle"
  BY <1>1 DEF StartRoute, RouteStep, CreateTable, EnterRoute, Enter, GetSubnet, PutRoute, Local, Phases, Over
<1>3. /\ pc'[P(s)] = "done" /\ pc'[C(s)] = "idle" /\ (C(s))' = C(s) /\ (P(s))' = P(s) /\ (R(s))' = R(s)
      /\ UNCHANGED <<groups, nsgs, released>>
  <2>1. C(s) # R(s) /\ P(s) # R(s)
    OBVIOUS
  <2> QED
    BY <1>1, <1>2, <2>1, RouteControl DEF C, P, R
<1>4. Phases(s)' /\ CleaningUp(s)'
  BY <1>1, <1>2, <1>3 DEF Local, Phases, Over, CleaningUp, AfterGroup
<1>5. \A c \in CidrsOf[s] : <<s, c>> \in secured
  BY <1>1, <1>2 DEF Local, Preparing, Secured
<1>6. Preparing(s)'
  <2>1. secured \subseteq secured'
    <3>1. CASE UNCHANGED vnet
      BY <3>1 DEF vnet
    <3>2. CASE pc[R(s)] = "put" /\ PutRead(s)
      <4>1. read[s]
        BY <1>1, <3>2 DEF Local, Routing
      <4> QED
        BY <3>2, <4>1 DEF PutRead, PutSubnet, With
    <3> QED
      BY <1>1, <3>1, <3>2, RouteWrites
  <2>2. s \in groups /\ s \in nsgs
    BY <1>1, <1>2 DEF Local, Preparing, WithGroup, WithNsg
  <2>3. \A c \in CidrsOf[s] : Secured(s, c)'
    BY <1>5, <2>1 DEF Secured
  <2> QED
    BY <1>3, <2>2, <2>3 DEF Preparing, WithGroup, WithNsg, AtSubnet
<1>7. Routing(s)'
  <2>1. /\ pc \in [Command -> Labels] /\ todo \in [Command -> SUBSET Cidr]
        /\ at \in [Command -> Cidr \union {NONE}] /\ read \in [Sandbox -> BOOLEAN]
        /\ R(s) \in Command
    BY <1>1 DEF TypeOK
  <2>2. Routing(s) /\ (R(s))' = R(s)
    BY <1>1, <1>3 DEF Local
  <2>3. pc'[R(s)] \in {"failed", "table"} => Routing(s)'
    BY <2>2 DEF Routing
  <2>4. CASE StartRoute(s)
    BY <2>1, <2>3, <2>4 DEF StartRoute, Returns, Goto
  <2>5. CASE CreateTable(s)
    <3>1. \/ pc' = [pc EXCEPT ![R(s)] = "lock"] /\ todo' = [todo EXCEPT ![R(s)] = CidrsOf[s]]
          \/ pc' = [pc EXCEPT ![R(s)] = "table"]
          \/ pc' = [pc EXCEPT ![R(s)] = "failed"]
      BY <2>5 DEF CreateTable, Returns, Raises, Goto
    <3> QED
      BY <2>1, <2>2, <2>3, <3>1 DEF Routing
  <2>6. CASE EnterRoute(s)
    <3>1. /\ pc[R(s)] = "lock" /\ pc'[R(s)] = "get"
          /\ at'[R(s)] \in todo[R(s)] /\ todo'[R(s)] = todo[R(s)] \ {at'[R(s)]}
      BY <2>1, <2>6 DEF EnterRoute, Enter, Returns, Goto
    <3> QED
      BY <2>2, <3>1 DEF Routing
  <2>7. CASE GetSubnet(s)
    <3>1. /\ pc[R(s)] = "get"
          /\ \/ pc'[R(s)] \in {"failed", "table"}
             \/ /\ pc'[R(s)] = "put" /\ at' = at /\ todo' = todo
                /\ read'[s] = (<<s, at[R(s)]>> \in secured)
      BY <2>1, <2>7 DEF GetSubnet, Retries, Abort, Unwinds, Returns, Goto, loop
    <3>2. <<s, at[R(s)]>> \in secured
      BY <1>5, <2>2, <3>1 DEF Routing
    <3> QED
      BY <2>2, <2>3, <3>1, <3>2 DEF Routing
  <2>8. CASE PutRoute(s)
    <3>1. /\ pc[R(s)] = "put"
          /\ \/ pc'[R(s)] \in {"failed", "table", "done"}
             \/ /\ pc'[R(s)] = "get" /\ at'[R(s)] \in todo[R(s)]
                /\ todo'[R(s)] = todo[R(s)] \ {at'[R(s)]}
      BY <2>1, <2>8 DEF PutRoute, Retries, Leave, Abort, Unwinds, Returns, Goto
    <3> QED
      BY <2>2, <2>3, <3>1 DEF Routing
  <2> QED
    BY <2>4, <2>5, <2>6, <2>7, <2>8 DEF RouteStep
<1> QED
  BY <1>4, <1>6, <1>7 DEF Local

(* A clean-up runs after the sandbox's other commands.                      *)
LEMMA OwnCleanup ==
  ASSUME IInv, NEW s \in Sandbox, StartCleanup(s) \/ CleanupStep(s)
  PROVE  Local(s)'
<1> USE Commands, Distinct
<1>1. TypeOK /\ Local(s)
  BY DEF IInv
<1>2. /\ pc \in [Command -> Labels] /\ todo \in [Command -> SUBSET Cidr]
      /\ at \in [Command -> Cidr \union {NONE}] /\ errors \in [Sandbox -> BOOLEAN]
      /\ subnets \subseteq Subnet /\ C(s) \in Command
  BY <1>1 DEF TypeOK
<1>3. /\ pc[P(s)] \in {"done", "failed"} /\ Over(R(s))
      /\ s \notin released \/ s \in Past
  BY <1>1 DEF StartCleanup, CleanupStep, ReadSubnets, RereadSubnets, FindSubnets, EnterDetach, EnterDelete,
              Enter, DetachSubnet, DeleteGroup, DeleteSubnet, EndCleanup, Local, Phases, Over
<1>4. /\ pc'[P(s)] = pc[P(s)] /\ pc'[R(s)] = pc[R(s)]
      /\ todo'[P(s)] = todo[P(s)] /\ todo'[R(s)] = todo[R(s)]
      /\ at'[P(s)] = at[P(s)] /\ at'[R(s)] = at[R(s)]
      /\ UNCHANGED <<read, released>>
      /\ (C(s))' = C(s) /\ (P(s))' = P(s) /\ (R(s))' = R(s)
  <2>1. P(s) # C(s) /\ R(s) # C(s)
    OBVIOUS
  <2> QED
    BY <1>1, <2>1, CleanupControl DEF C, P, R
<1>5. pc'[C(s)] # "idle"
  BY <1>2 DEF StartCleanup, CleanupStep, ReadSubnets, RereadSubnets, FindSubnets, EnterDetach, EnterDelete,
              Enter, DetachSubnet, DeleteGroup, DeleteSubnet, EndCleanup, Leave, Abort, Unwinds, Returns,
              Raises, Goto
<1>6. Phases(s)' /\ Preparing(s)' /\ Routing(s)'
  <2>1. Phases(s)'
    BY <1>1, <1>3, <1>4, <1>5 DEF Local, Phases, Over
  <2>2. Preparing(s)'
    BY <1>1, <1>4, <1>5 DEF Local, Preparing
  <2>3. Routing(s)'
    BY <1>1, <1>4 DEF Local, Routing
  <2> QED
    BY <2>1, <2>2, <2>3
<1>7. CleaningUp(s)'
  <2>1. CleaningUp(s) /\ (C(s))' = C(s)
    BY <1>1, <1>4 DEF Local
  <2>2. pc'[C(s)] \in {"read", "detachLock", "deleteGroup", "failed"} => CleaningUp(s)'
    BY <2>1 DEF CleaningUp, AfterGroup
  <2>3. pc'[C(s)] \in {"reread", "end"} /\ errors'[s] => CleaningUp(s)'
    BY <2>1 DEF CleaningUp, AfterGroup
  <2>4. CASE StartCleanup(s)
    BY <1>2, <2>2, <2>4 DEF StartCleanup, Returns, Goto
  <2>5. CASE ReadSubnets(s)
    <3>1. pc'[C(s)] \in {"detachLock", "deleteGroup"}
      BY <1>2, <2>5 DEF ReadSubnets, FindSubnets, Returns, Raises, Goto
    <3> QED
      BY <2>2, <3>1
  <2>6. CASE EnterDetach(s)
    <3>1. pc'[C(s)] = "detach" /\ at'[C(s)] \in Cidr
      BY <1>2, <2>6 DEF EnterDetach, Enter, Returns, Goto
    <3> QED
      BY <2>1, <3>1 DEF CleaningUp, AfterGroup
  <2>7. CASE DetachSubnet(s)
    <3>1. pc'[C(s)] \in {"detachLock", "deleteGroup"}
      BY <1>2, <2>7 DEF DetachSubnet, Leave, Abort, Unwinds, Returns, Goto
    <3> QED
      BY <2>2, <3>1
  <2>8. CASE DeleteGroup(s)
    <3>1. /\ pc'[C(s)] = "reread"
          /\ errors'[s] \/ RemoveGroup(s)
      BY <1>2, <2>8 DEF DeleteGroup, Collect, Returns, Raises, Goto
    <3>2. ASSUME RemoveGroup(s) PROVE NoGroup(s)'
      BY <3>2 DEF RemoveGroup, NoGroup, Elsewhere
    <3> QED
      BY <2>1, <2>3, <3>1, <3>2 DEF CleaningUp, AfterGroup
  <2>9. CASE RereadSubnets(s)
    <3>1. /\ pc[C(s)] = "reread" /\ UNCHANGED <<groups, nsgs, tables, subnets, nics>>
          /\ \/ pc'[C(s)] = "end" /\ errors'[s]
             \/ /\ todo'[C(s)] = CidrsFound(s) /\ errors' = errors
                /\ pc'[C(s)] = IF CidrsFound(s) = {} THEN "end" ELSE "deleteLock"
      BY <1>2, <2>9 DEF RereadSubnets, FindSubnets, Collect, Returns, Raises, Goto, azure, vnet
    <3>2. \A x \in subnets : x[1] = s => x[2] \in CidrsFound(s)
      BY <1>2 DEF CidrsFound, Subnet
    <3>3. NoGroup(s) => NoGroup(s)'
      BY <3>1 DEF NoGroup
    <3>4. CidrsFound(s) = {} => NoSubnet(s)'
      BY <3>1, <3>2 DEF NoSubnet
    <3> QED
      BY <2>1, <2>3, <3>1, <3>2, <3>3, <3>4 DEF CleaningUp, AfterGroup
  <2>10. CASE EnterDelete(s)
    <3>1. /\ pc[C(s)] = "deleteLock" /\ pc'[C(s)] = "delete"
          /\ UNCHANGED <<groups, nsgs, tables, subnets, nics, errors>>
          /\ at'[C(s)] \in todo[C(s)] /\ todo'[C(s)] = todo[C(s)] \ {at'[C(s)]}
      BY <1>2, <2>10 DEF EnterDelete, Enter, Returns, Goto, azure, vnet
    <3>2. NoGroup(s) => NoGroup(s)'
      BY <3>1 DEF NoGroup
    <3>3. at'[C(s)] \in Cidr
      BY <1>2, <3>1
    <3> QED
      BY <2>1, <3>1, <3>2, <3>3 DEF CleaningUp, AfterGroup
  <2>11. CASE DeleteSubnet(s)
    <3>1. /\ pc[C(s)] = "delete" /\ UNCHANGED <<groups, nsgs, tables, nics>>
          /\ \/ pc'[C(s)] = "end" /\ errors'[s]
             \/ /\ subnets' = subnets \ {<<s, at[C(s)]>>} /\ UNCHANGED <<todo, errors>>
                /\ pc'[C(s)] = IF todo[C(s)] = {} THEN "end" ELSE "deleteLock"
      BY <1>2, <2>11 DEF DeleteSubnet, RemoveSubnet, Collect, Leave, Abort, Unwinds, Returns, Goto
    <3>2. NoGroup(s) => NoGroup(s)'
      BY <3>1 DEF NoGroup
    <3>3. ASSUME subnets' = subnets \ {<<s, at[C(s)]>>}, pc[C(s)] = "delete", ~errors[s]
          PROVE  /\ \A x \in subnets' : x[1] = s => x[2] \in todo[C(s)]
                 /\ todo[C(s)] = {} => NoSubnet(s)'
      <4>1. \A x \in subnets' : x[1] = s => x[2] \in todo[C(s)]
        BY <1>2, <2>1, <3>3 DEF CleaningUp, AfterGroup, Subnet
      <4> QED
        BY <4>1 DEF NoSubnet
    <3> QED
      BY <2>1, <2>3, <3>1, <3>2, <3>3 DEF CleaningUp, AfterGroup
  <2>12. CASE EndCleanup(s)
    <3>1. /\ pc[C(s)] = "end" /\ UNCHANGED <<groups, nsgs, tables, subnets, nics>>
          /\ pc'[C(s)] = IF errors[s] THEN "failed" ELSE "done"
      BY <1>2, <2>12 DEF EndCleanup, Returns, Goto, azure, vnet
    <3>2. (NoGroup(s) => NoGroup(s)') /\ (NoSubnet(s) => NoSubnet(s)')
      BY <3>1 DEF NoGroup, NoSubnet
    <3> QED
      BY <2>1, <2>2, <3>1, <3>2 DEF CleaningUp, AfterGroup
  <2> QED
    BY <2>4, <2>5, <2>6, <2>7, <2>8, <2>9, <2>10, <2>11, <2>12 DEF CleanupStep
<1> QED
  BY <1>6, <1>7 DEF Local

LEMMA OwnOthers ==
  ASSUME IInv, NEW s \in Sandbox, Deploy(s) \/ Release(s)
  PROVE  Local(s)'
<1>1. Local(s) /\ UNCHANGED <<groups, nsgs, tables, vnet, pc, loop, read, errors>>
  BY DEF IInv, Deploy, Release, azure
<1>2. Preparing(s)' /\ Routing(s)'
  BY <1>1 DEF Local, Preparing, Routing, Secured, vnet, loop, P, C, R
<1>3. Phases(s)'
  BY <1>1 DEF Local, Phases, Over, Deploy, Release, P, C, R
<1>4. CleaningUp(s)'
  <2>1. CASE Deploy(s)
    BY <1>1, <2>1 DEF CleaningUp, AfterGroup, Deploy, C
  <2>2. CASE Release(s)
    BY <1>1, <2>2 DEF Local, CleaningUp, NoGroup, NoSubnet, Release, azure, vnet, loop, C
  <2> QED BY <2>1, <2>2
<1> QED
  BY <1>2, <1>3, <1>4 DEF Local
-----------------------------------------------------------------------------
(* The ranges in use change hands when a preparation starts.                *)
LEMMA RangesKept ==
  ASSUME IInv, NEW u \in Sandbox,
         \/ StartPrepare(u) \/ PrepareStep(u) \/ Deploy(u) \/ StartRoute(u) \/ RouteStep(u)
         \/ StartCleanup(u) \/ CleanupStep(u) \/ Release(u)
  PROVE  Ranges'
<1> USE Commands, Distinct
<1>1. TypeOK
  BY DEF IInv
<1>2. released \subseteq released' /\ \A s \in Sandbox : (P(s))' = P(s)
  <2>1. CASE Deploy(u) \/ Release(u)
    BY <2>1 DEF Deploy, Release, P
  <2> QED
    BY <1>1, <2>1, PrepareControl, RouteControl, CleanupControl DEF P
<1>3. CASE \A s \in Sandbox : pc[P(s)] = "idle" => pc'[P(s)] = "idle"
  BY <1>2, <1>3 DEF IInv, Ranges
<1>4. CASE StartPrepare(u)
  <2>1. CidrsFree(u) /\ released' = released
    BY <1>4 DEF StartPrepare
  <2>2. \A s \in Sandbox \ {u} : pc'[P(s)] = pc[P(s)]
    BY <1>1, <1>4, PrepareControl
  <2>3. ASSUME NEW t \in Sandbox \ released, t # u, CidrsOf[u] \intersect CidrsOf[t] # {}
        PROVE  pc'[P(t)] = "idle"
    BY <2>1, <2>2, <2>3 DEF CidrsFree
  <2> QED
    BY <1>2, <2>1, <2>2, <2>3 DEF IInv, Ranges
<1>5. CASE PrepareStep(u)
  <2>1. pc[P(u)] # "idle"
    BY <1>5 DEF PrepareStep, CreateGroup, ReadVnet, CreateNsg, CreateSubnetNsgRules, EnterCreate, Enter,
                CreateSubnet, DetachStale, DeleteStale, JoinPool
  <2> QED
    BY <1>1, <1>3, <1>5, <2>1, PrepareControl
<1>6. CASE StartRoute(u) \/ RouteStep(u)
  BY <1>1, <1>3, <1>6, RouteControl
<1>7. CASE StartCleanup(u) \/ CleanupStep(u)
  BY <1>1, <1>3, <1>7, CleanupControl
<1>8. CASE Deploy(u) \/ Release(u)
  BY <1>3, <1>8 DEF Deploy, Release
<1> QED
  BY <1>4, <1>5, <1>6, <1>7, <1>8

(* What is in the way of a preparation stays there while the preparation    *)
(* has subnet_locker.                                                       *)
LEMMA InTheWayKept ==
  ASSUME IInv, NEW u \in Sandbox,
         \/ StartPrepare(u) \/ PrepareStep(u) \/ Deploy(u) \/ StartRoute(u) \/ RouteStep(u)
         \/ StartCleanup(u) \/ CleanupStep(u) \/ Release(u)
  PROVE  InTheWay'
<1> USE Commands, Distinct
<1>1. TypeOK /\ LockInv /\ InTheWay
  BY DEF IInv
<1>2. ASSUME NEW s \in Sandbox, subnets' = subnets, at'[P(s)] = at[P(s)],
             pc'[P(s)] = pc[P(s)] \/ Overlapped(<<s, at[P(s)]>>), pc'[P(s)] = "stale"
      PROVE  Overlapped(<<s, at[P(s)]>>)'
  <2>1. Overlapped(<<s, at[P(s)]>>) /\ (P(s))' = P(s)
    BY <1>1, <1>2 DEF InTheWay, P
  <2> QED
    BY <1>2, <2>1 DEF Overlapped
<1>3. ASSUME NEW s \in Sandbox, NEW k \in Command \ {P(s)}, UNCHANGED vnet \/ pc[k] \in SubnetCall,
             pc'[P(s)] = pc[P(s)], at'[P(s)] = at[P(s)], pc'[P(s)] = "stale"
      PROVE  Overlapped(<<s, at[P(s)]>>)'
  <2>1. pc[k] \notin SubnetCall
    BY <1>1, <1>3 DEF LockInv, SubnetCall
  <2> QED
    BY <1>2, <1>3, <2>1 DEF vnet
<1>4. \A s \in Sandbox : (P(s))' = P(s)
  BY DEF P
<1>5. CASE StartPrepare(u) \/ PrepareStep(u)
  <2>1. UNCHANGED vnet \/ pc[P(u)] \in SubnetCall
    BY <1>1, <1>5, PrepareWrites
  <2>2. ASSUME NEW s \in Sandbox \ {u}, pc'[P(s)] = "stale"
        PROVE  Overlapped(<<s, at[P(s)]>>)'
    BY <1>1, <1>3, <1>5, <2>1, <2>2, PrepareControl
  <2>3. ASSUME pc'[P(u)] = "stale" PROVE Overlapped(<<u, at[P(u)]>>)'
    <3>1. CreateSubnet(u)
      BY <1>1, <1>5, <2>3 DEF StartPrepare, PrepareStep, CreateGroup, ReadVnet, CreateNsg,
           CreateSubnetNsgRules, EnterCreate, Enter, DetachStale, DeleteStale, JoinPool, Abort, Unwinds,
           Returns, Raises, Goto, TypeOK
    <3>2. Overlapped(<<u, at[P(u)]>>) /\ UNCHANGED <<vnet, loop>>
      BY <1>1, <2>3, <3>1 DEF CreateSubnet, Leave, Abort, Unwinds, Returns, Goto, TypeOK
    <3> QED
      BY <1>2, <2>3, <3>2 DEF vnet, loop
  <2> QED
    BY <1>4, <2>2, <2>3 DEF InTheWay
<1>6. CASE StartRoute(u) \/ RouteStep(u)
  <2>1. UNCHANGED vnet \/ pc[R(u)] \in SubnetCall
    BY <1>1, <1>6, RouteWrites DEF SubnetCall
  <2>2. ASSUME NEW s \in Sandbox, pc'[P(s)] = "stale"
        PROVE  Overlapped(<<s, at[P(s)]>>)'
    BY <1>1, <1>3, <1>6, <2>1, <2>2, RouteControl
  <2> QED
    BY <1>4, <2>2 DEF InTheWay
<1>7. CASE StartCleanup(u) \/ CleanupStep(u)
  <2>1. UNCHANGED vnet \/ pc[C(u)] \in SubnetCall
    BY <1>1, <1>7, CleanupWrites DEF SubnetCall
  <2>2. ASSUME NEW s \in Sandbox, pc'[P(s)] = "stale"
        PROVE  Overlapped(<<s, at[P(s)]>>)'
    BY <1>1, <1>3, <1>7, <2>1, <2>2, CleanupControl
  <2> QED
    BY <1>4, <2>2 DEF InTheWay
<1>8. CASE Deploy(u) \/ Release(u)
  <2>1. UNCHANGED <<subnets, pc, at>>
    BY <1>8 DEF Deploy, Release, azure, vnet, loop
  <2>2. ASSUME NEW s \in Sandbox, pc'[P(s)] = "stale"
        PROVE  Overlapped(<<s, at[P(s)]>>)'
    BY <1>2, <2>1, <2>2
  <2> QED
    BY <1>4, <2>2 DEF InTheWay
<1> QED
  BY <1>5, <1>6, <1>7, <1>8
-----------------------------------------------------------------------------
(* The types, by the state they are of: the shell's, and Azure's.           *)
ShellOK ==
  /\ locker \in Command \union {NONE}
  /\ pc \in [Command -> Labels]
  /\ todo \in [Command -> SUBSET Cidr]
  /\ at \in [Command -> Cidr \union {NONE}]
  /\ snap \in [Sandbox -> [subnets: SUBSET Subnet, secured: SUBSET Subnet, routed: SUBSET Subnet]]
  /\ read \in [Sandbox -> BOOLEAN] /\ errors \in [Sandbox -> BOOLEAN]
  /\ released \subseteq Sandbox
  /\ faults \in 0 .. MaxFaults

AzureOK ==
  /\ groups \subseteq Sandbox /\ nsgs \subseteq groups /\ tables \subseteq groups
  /\ subnets \subseteq Subnet /\ secured \subseteq subnets /\ routed \subseteq subnets
  /\ nics \subseteq subnets

LEMMA Types == TypeOK <=> ShellOK /\ AzureOK
BY DEF TypeOK, ShellOK, AzureOK

LEMMA FaultsCounted ==
  ASSUME faults \in 0 .. MaxFaults, UNCHANGED faults \/ Fault
  PROVE  faults' \in 0 .. MaxFaults
BY SandboxesAssumption DEF Fault

(* How a loop goes on: it is entered, left or abandoned.                    *)
LoopMoves(k) ==
  \/ \E from, to : Enter(k, from, to)
  \/ \E again, done : Leave(k, again, done)
  \/ \E l : Abort(k, l)

LEMMA LoopTypes ==
  ASSUME ShellOK, NEW k \in Command, UNCHANGED loop \/ LoopMoves(k)
  PROVE  todo' \in [Command -> SUBSET Cidr] /\ at' \in [Command -> Cidr \union {NONE}]
<1>1. todo \in [Command -> SUBSET Cidr] /\ at \in [Command -> Cidr \union {NONE}]
  BY DEF ShellOK
<1>2. CASE UNCHANGED loop
  BY <1>1, <1>2 DEF loop
<1>3. CASE \E from, to : Enter(k, from, to)
  <2>1. \E c \in todo[k] : at' = [at EXCEPT ![k] = c] /\ todo' = [todo EXCEPT ![k] = @ \ {c}]
    BY <1>3 DEF Enter
  <2> QED BY <1>1, <2>1
<1>4. CASE \E again, done : Leave(k, again, done)
  <2>1. at' = [at EXCEPT ![k] = NONE] /\ todo' = todo
    BY <1>4 DEF Leave
  <2> QED BY <1>1, <2>1
<1>5. CASE \E l : Abort(k, l)
  <2>1. at' = [at EXCEPT ![k] = NONE] /\ todo' = [todo EXCEPT ![k] = {}]
    BY <1>5 DEF Abort, Unwinds
  <2> QED BY <1>1, <2>1
<1> QED
  BY <1>2, <1>3, <1>4, <1>5 DEF LoopMoves

LEMMA PrepareTypes ==
  ASSUME IInv, NEW s \in Sandbox, StartPrepare(s) \/ PrepareStep(s)
  PROVE  TypeOK'
<1> USE Commands
<1>1. ShellOK /\ AzureOK /\ LockInv' /\ Local(s) /\ InTheWay
  BY Types, PrepareKeepsLock DEF IInv
<1>2. ShellOK'
  <2>1. UNCHANGED <<read, errors, released>>
    BY Types, PrepareControl DEF IInv
  <2>2. pc' \in [Command -> Labels]
    BY <1>1 DEF LockInv
  <2>3. faults' \in 0 .. MaxFaults
    <3>1. UNCHANGED faults \/ Fault
      BY DEF StartPrepare, PrepareStep, CreateGroup, ReadVnet, CreateNsg, CreateSubnetNsgRules, EnterCreate,
             Enter, CreateSubnet, DetachStale, DeleteStale, JoinPool, Leave, Abort, Unwinds, Returns, Raises
    <3> QED
      BY <1>1, <3>1, FaultsCounted DEF ShellOK
  <2>4. locker' \in Command \union {NONE}
    BY <1>1 DEF ShellOK, StartPrepare, PrepareStep, CreateGroup, ReadVnet, CreateNsg, CreateSubnetNsgRules,
       EnterCreate, Enter, CreateSubnet, DetachStale, DeleteStale, JoinPool, Leave, Abort, Unwinds
  <2>5. todo' \in [Command -> SUBSET Cidr] /\ at' \in [Command -> Cidr \union {NONE}]
    <3>1. CASE CreateSubnetNsgRules(s)
      BY <1>1, <3>1, Cidrs DEF ShellOK, CreateSubnetNsgRules
    <3>2. CASE UNCHANGED loop \/ LoopMoves(P(s))
      BY <1>1, <3>2, LoopTypes
    <3> QED
      BY <3>1, <3>2 DEF StartPrepare, PrepareStep, CreateGroup, ReadVnet, CreateNsg, EnterCreate,
         CreateSubnet, DetachStale, DeleteStale, JoinPool, LoopMoves
  <2>6. snap' \in [Sandbox -> [subnets: SUBSET Subnet, secured: SUBSET Subnet, routed: SUBSET Subnet]]
    <3>1. \/ snap' = snap
          \/ snap' = [snap EXCEPT ![s] = [subnets |-> subnets, secured |-> secured, routed |-> routed]]
          \/ snap' = [snap EXCEPT ![s] = NothingRead]
      BY DEF StartPrepare, PrepareStep, CreateGroup, ReadVnet, CreateNsg, CreateSubnetNsgRules, EnterCreate,
             CreateSubnet, DetachStale, DeleteStale, JoinPool
    <3>2. ASSUME NEW r \in [subnets: SUBSET Subnet, secured: SUBSET Subnet, routed: SUBSET Subnet]
          PROVE  [snap EXCEPT ![s] = r]
                   \in [Sandbox -> [subnets: SUBSET Subnet, secured: SUBSET Subnet, routed: SUBSET Subnet]]
      BY <1>1, <3>2 DEF ShellOK
    <3>3. subnets \subseteq Subnet /\ secured \subseteq Subnet /\ routed \subseteq Subnet
      BY <1>1 DEF AzureOK
    <3>4. CASE snap' = snap
      BY <1>1, <3>4 DEF ShellOK
    <3>5. CASE snap' = [snap EXCEPT ![s] = [subnets |-> subnets, secured |-> secured, routed |-> routed]]
      BY <3>2, <3>3, <3>5
    <3>6. CASE snap' = [snap EXCEPT ![s] = NothingRead]
      BY <3>2, <3>6 DEF NothingRead
    <3> QED
      BY <3>1, <3>4, <3>5, <3>6
  <2> QED
    BY <1>1, <2>1, <2>2, <2>3, <2>4, <2>5, <2>6 DEF ShellOK
<1>3. AzureOK'
  <2>1. nics' = nics /\ nics \subseteq subnets' /\ tables' = tables
    BY Types, PrepareControl, PrepareWrites DEF IInv
  <2>2. groups' \subseteq Sandbox /\ nsgs' \subseteq groups' /\ tables \subseteq groups'
    <3>1. groups \subseteq groups' /\ groups' \subseteq groups \union {s}
      BY Types, PrepareControl DEF IInv
    <3>2. nsgs' = nsgs \/ (nsgs' \subseteq nsgs \union {s} /\ s \in groups)
      <4>1. nsgs' = nsgs \/ (nsgs' \subseteq nsgs \union {s} /\ pc[P(s)] = "nsg")
        BY DEF StartPrepare, PrepareStep, CreateGroup, ReadVnet, CreateNsg, CreateSubnetNsgRules, EnterCreate,
               CreateSubnet, DetachStale, DeleteStale, JoinPool, azure
      <4>2. pc[P(s)] = "nsg" => s \in groups
        BY <1>1 DEF Local, Phases, Preparing, WithGroup
      <4> QED
        BY <4>1, <4>2
    <3> QED
      BY <1>1, <3>1, <3>2 DEF AzureOK
  <2>3. subnets' \subseteq Subnet /\ secured' \subseteq subnets' /\ routed' \subseteq subnets'
    <3>1. \/ UNCHANGED vnet
          \/ pc[P(s)] \in AtSubnet /\ PutSubnet(<<s, at[P(s)]>>, TRUE, FALSE)
          \/ \E x \in Stale(s) : PutSubnet(x, FALSE, x \in snap[s].routed)
          \/ \E x \in Stale(s) : RemoveSubnet(x)
      <4>1. CASE CreateSubnet(s)
        BY <4>1 DEF CreateSubnet, AtSubnet
      <4>2. CASE DetachStale(s)
        BY <4>2 DEF DetachStale
      <4>3. CASE DeleteStale(s)
        BY <4>3 DEF DeleteStale
      <4> QED
        BY <4>1, <4>2, <4>3 DEF StartPrepare, PrepareStep, CreateGroup, ReadVnet, CreateNsg,
           CreateSubnetNsgRules, EnterCreate, JoinPool, azure
    <3>2. pc[P(s)] \in AtSubnet => <<s, at[P(s)]>> \in Subnet
      BY <1>1, Cidrs DEF Local, Preparing, Subnet
    <3>3. Stale(s) \subseteq Subnet
      BY <1>1 DEF ShellOK, Stale
    <3> QED
      BY <1>1, <3>1, <3>2, <3>3 DEF AzureOK, PutSubnet, RemoveSubnet, With, vnet
  <2> QED
    BY <2>1, <2>2, <2>3 DEF AzureOK
<1> QED
  BY <1>2, <1>3, Types DEF TypeOK, ShellOK, AzureOK

LEMMA RouteTypes ==
  ASSUME IInv, NEW s \in Sandbox, StartRoute(s) \/ RouteStep(s)
  PROVE  TypeOK'
<1> USE Commands
<1>1. ShellOK /\ AzureOK /\ LockInv' /\ Local(s)
  BY Types, RouteKeepsLock DEF IInv
<1>2. ShellOK'
  <2>1. UNCHANGED <<snap, errors, released>>
    BY Types, RouteControl DEF IInv
  <2>2. pc' \in [Command -> Labels]
    BY <1>1 DEF LockInv
  <2>3. faults' \in 0 .. MaxFaults
    <3>1. UNCHANGED faults \/ Fault
      BY DEF StartRoute, RouteStep, CreateTable, EnterRoute, Enter, GetSubnet, PutRoute, Retries, Leave,
             Returns, Raises
    <3> QED
      BY <1>1, <3>1, FaultsCounted DEF ShellOK
  <2>4. locker' \in Command \union {NONE}
    BY <1>1 DEF ShellOK, StartRoute, RouteStep, CreateTable, EnterRoute, Enter, GetSubnet, PutRoute,
                Retries, Leave, Abort
  <2>5. todo' \in [Command -> SUBSET Cidr] /\ at' \in [Command -> Cidr \union {NONE}]
    <3>1. CASE CreateTable(s)
      BY <1>1, <3>1, Cidrs DEF ShellOK, CreateTable
    <3>2. CASE UNCHANGED loop \/ LoopMoves(R(s))
      BY <1>1, <3>2, LoopTypes
    <3>3. CASE PutRoute(s)
      <4>1. \/ LoopMoves(R(s))
            \/ \E c \in todo[R(s)] :
                 at' = [at EXCEPT ![R(s)] = c] /\ todo' = [todo EXCEPT ![R(s)] = @ \ {c}]
        BY <3>3 DEF PutRoute, Retries, LoopMoves
      <4> QED
        BY <1>1, <3>2, <4>1 DEF ShellOK
    <3> QED
      BY <3>1, <3>2, <3>3 DEF StartRoute, RouteStep, EnterRoute, GetSubnet, Retries, LoopMoves
  <2>6. read' \in [Sandbox -> BOOLEAN]
    <3>1. \/ read' = read
          \/ read' = [read EXCEPT ![s] = <<s, at[R(s)]>> \in secured]
          \/ read' = [read EXCEPT ![s] = FALSE]
      BY DEF StartRoute, RouteStep, CreateTable, EnterRoute, GetSubnet, PutRoute
    <3>2. read \in [Sandbox -> BOOLEAN] /\ (<<s, at[R(s)]>> \in secured) \in BOOLEAN
      BY <1>1 DEF ShellOK
    <3> QED
      BY <3>1, <3>2
  <2> QED
    BY <2>1, <2>2, <2>3, <2>4, <2>5, <2>6, <1>1 DEF ShellOK
<1>3. AzureOK'
  <2>1. UNCHANGED <<groups, nsgs, nics>> /\ tables' \subseteq tables \union {s}
    BY Types, RouteControl DEF IInv
  <2>2. s \in groups
    BY <1>1 DEF Local, Phases, Preparing, WithGroup, WithNsg, StartRoute, RouteStep, CreateTable, EnterRoute,
       Enter, GetSubnet, PutRoute, Over
  <2>3. CASE UNCHANGED vnet
    BY <1>1, <2>1, <2>2, <2>3 DEF AzureOK, vnet
  <2>4. CASE pc[R(s)] = "put" /\ PutRead(s)
    <3>1. <<s, at[R(s)]>> \in Subnet
      BY <1>1, <2>4, Cidrs DEF Local, Routing, Subnet
    <3> QED
      BY <1>1, <2>1, <2>2, <2>4, <3>1 DEF AzureOK, PutRead, PutSubnet, With
  <2> QED
    BY <2>3, <2>4, Types, RouteWrites DEF IInv
<1> QED
  BY <1>2, <1>3, Types DEF TypeOK, ShellOK, AzureOK

LEMMA CleanupTypes ==
  ASSUME IInv, NEW s \in Sandbox, StartCleanup(s) \/ CleanupStep(s)
  PROVE  TypeOK'
<1> USE Commands
<1>1. ShellOK /\ AzureOK /\ LockInv' /\ Local(s)
  BY Types, CleanupKeepsLock DEF IInv
<1>2. ShellOK'
  <2>1. UNCHANGED <<read, released>>
    BY Types, CleanupControl DEF IInv
  <2>2. pc' \in [Command -> Labels]
    BY <1>1 DEF LockInv
  <2>3. faults' \in 0 .. MaxFaults
    <3>1. UNCHANGED faults \/ Fault
      BY DEF StartCleanup, CleanupStep, ReadSubnets, RereadSubnets, FindSubnets, EnterDetach, EnterDelete,
             Enter, DetachSubnet, DeleteGroup, DeleteSubnet, EndCleanup, Leave, Returns, Raises
    <3> QED
      BY <1>1, <3>1, FaultsCounted DEF ShellOK
  <2>4. locker' \in Command \union {NONE}
    BY <1>1 DEF ShellOK, StartCleanup, CleanupStep, ReadSubnets, RereadSubnets, FindSubnets, EnterDetach,
       EnterDelete, Enter, DetachSubnet, DeleteGroup, DeleteSubnet, EndCleanup, Leave, Abort
  <2>5. todo' \in [Command -> SUBSET Cidr] /\ at' \in [Command -> Cidr \union {NONE}]
    <3>1. CASE ReadSubnets(s) \/ RereadSubnets(s)
      <4>1. CidrsFound(s) \subseteq Cidr
        BY DEF CidrsFound
      <4>2. at' = at /\ (todo' = todo \/ todo' = [todo EXCEPT ![C(s)] = CidrsFound(s)])
        BY <3>1 DEF ReadSubnets, RereadSubnets, FindSubnets
      <4> QED
        BY <1>1, <4>1, <4>2 DEF ShellOK
    <3>2. CASE UNCHANGED loop \/ LoopMoves(C(s))
      BY <1>1, <3>2, LoopTypes
    <3> QED
      BY <3>1, <3>2 DEF StartCleanup, CleanupStep, EnterDetach, EnterDelete, DetachSubnet, DeleteGroup,
         DeleteSubnet, EndCleanup, LoopMoves
  <2>6. errors' \in [Sandbox -> BOOLEAN]
    BY <1>1 DEF ShellOK, StartCleanup, CleanupStep, ReadSubnets, RereadSubnets, FindSubnets, EnterDetach,
       EnterDelete, DetachSubnet, DeleteGroup, DeleteSubnet, EndCleanup, Collect
  <2>7. snap' = snap \/ snap' = [snap EXCEPT ![s] = NothingRead]
    BY DEF StartCleanup, CleanupStep, ReadSubnets, RereadSubnets, FindSubnets, EnterDetach, EnterDelete,
           DetachSubnet, DeleteGroup, DeleteSubnet, EndCleanup
  <2>8. snap' \in [Sandbox -> [subnets: SUBSET Subnet, secured: SUBSET Subnet, routed: SUBSET Subnet]]
    BY <1>1, <2>7 DEF ShellOK, NothingRead
  <2> QED
    BY <2>1, <2>2, <2>3, <2>4, <2>5, <2>6, <2>8, <1>1 DEF ShellOK
<1>3. AzureOK'
  <2>1. /\ nics' \subseteq nics
        /\ UNCHANGED <<groups, nsgs, tables>> \/ RemoveGroup(s)
    BY Types, CleanupControl DEF IInv, StartCleanup, CleanupStep, ReadSubnets, RereadSubnets, FindSubnets,
       EnterDetach, EnterDelete, DetachSubnet, DeleteGroup, DeleteSubnet, EndCleanup, azure
  <2>2. groups' \subseteq Sandbox /\ nsgs' \subseteq groups' /\ tables' \subseteq groups'
    BY <1>1, <2>1 DEF AzureOK, RemoveGroup
  <2>3. subnets' \subseteq Subnet /\ secured' \subseteq subnets' /\ routed' \subseteq subnets'
        /\ nics \subseteq subnets'
    <3>1. CASE UNCHANGED vnet
      BY <1>1, <3>1 DEF AzureOK, vnet
    <3>2. CASE pc[C(s)] = "detach" /\ PutSubnet(<<s, at[C(s)]>>, FALSE, FALSE)
      <4>1. <<s, at[C(s)]>> \in Subnet
        BY <1>1, <3>2 DEF Local, CleaningUp, Subnet
      <4> QED
        BY <1>1, <3>2, <4>1 DEF AzureOK, PutSubnet, With
    <3>3. CASE <<s, at[C(s)]>> \notin nics /\ RemoveSubnet(<<s, at[C(s)]>>)
      BY <1>1, <3>3 DEF AzureOK, RemoveSubnet
    <3> QED
      BY <3>1, <3>2, <3>3, CleanupWrites DEF IInv
  <2> QED
    BY <2>1, <2>2, <2>3 DEF AzureOK
<1> QED
  BY <1>2, <1>3, Types DEF TypeOK, ShellOK, AzureOK

LEMMA OtherTypes ==
  ASSUME IInv, NEW s \in Sandbox, Deploy(s) \/ Release(s)
  PROVE  TypeOK'
<1>1. ShellOK /\ AzureOK /\ Local(s)
  BY Types DEF IInv
<1>2. ShellOK'
  BY <1>1 DEF ShellOK, Deploy, Release, loop
<1>3. AzureOK'
  <2>1. CASE Deploy(s)
    <3>1. PICK c \in CidrsOf[s] : nics' = nics \union {<<s, c>>}
      BY <2>1 DEF Deploy
    <3>2. <<s, c>> \in secured
      BY <1>1, <2>1 DEF Deploy, Local, Preparing, Secured
    <3> QED
      BY <1>1, <2>1, <3>1, <3>2 DEF AzureOK, Deploy, vnet
  <2>2. CASE Release(s)
    BY <1>1, <2>2 DEF AzureOK, Release, azure, vnet
  <2> QED BY <2>1, <2>2
<1> QED
  BY <1>2, <1>3, Types DEF TypeOK, ShellOK, AzureOK
-----------------------------------------------------------------------------
LEMMA Initially == Init => IInv
<1> SUFFICES ASSUME Init PROVE IInv
  OBVIOUS
<1>1. PICK l \in Leftovers : subnets = l
  BY DEF Init
<1>2. ShellOK
  BY SandboxesAssumption DEF Init, ShellOK, Labels, NothingRead
<1>3. AzureOK
  <2>1. subnets \subseteq Subnet /\ \A x \in subnets : x[1] \in Sandbox
    BY <1>1, SandboxesAssumption DEF Leftovers, Subnet
  <2> QED
    BY <2>1 DEF Init, AzureOK
<1>4. LockInv
  BY LockInitially
<1>5. Ranges /\ InTheWay
  BY Commands DEF Init, Ranges, InTheWay
<1>6. ASSUME NEW s \in Sandbox PROVE Local(s)
  BY Commands DEF Init, Local, Phases, Over, Preparing, Routing, CleaningUp, WithGroup, WithNsg, AtSubnet,
                  AfterGroup
<1> QED
  BY <1>2, <1>3, <1>4, <1>5, <1>6, Types DEF IInv

LEMMA Inductive == IInv /\ [Next]_vars => IInv'
<1> SUFFICES ASSUME IInv, [Next]_vars PROVE IInv'
  OBVIOUS
<1>1. CASE UNCHANGED vars
  <2>1. UNCHANGED <<groups, nsgs, tables, subnets, secured, routed, nics, locker, pc, todo, at, snap, read,
                    errors, released, faults>>
    BY <1>1 DEF vars, azure, vnet, loop
  <2>2. TypeOK' /\ LockInv'
    BY <2>1 DEF IInv, TypeOK, LockInv
  <2>3. Ranges' /\ InTheWay'
    BY <2>1 DEF IInv, Ranges, InTheWay, Overlapped, P
  <2>4. ASSUME NEW s \in Sandbox PROVE Local(s)'
    <3>1. Quiet(s)
      BY <2>1 DEF Quiet
    <3> QED
      BY <3>1, Frame DEF IInv
  <2> QED
    BY <2>2, <2>3, <2>4 DEF IInv
<1>2. CASE Next
  <2> PICK u \in Sandbox :
        \/ StartPrepare(u) \/ PrepareStep(u) \/ Deploy(u) \/ StartRoute(u) \/ RouteStep(u)
        \/ StartCleanup(u) \/ CleanupStep(u) \/ Release(u)
    BY <1>2 DEF Next
  <2>1. TypeOK'
    BY PrepareTypes, RouteTypes, CleanupTypes, OtherTypes
  <2>2. LockInv'
    <3>1. CASE Deploy(u) \/ Release(u)
      BY <3>1 DEF IInv, LockInv, Deploy, Release
    <3> QED
      BY <3>1, PrepareKeepsLock, RouteKeepsLock, CleanupKeepsLock DEF IInv
  <2>3. Ranges' /\ InTheWay'
    BY RangesKept, InTheWayKept
  <2>4. ASSUME NEW s \in Sandbox PROVE Local(s)'
    <3>1. CASE s = u
      BY <3>1, OwnPrepare, OwnRoute, OwnCleanup, OwnOthers
    <3>2. CASE s # u
      <4>1. Quiet(s)
        BY <3>2, Quiet1, Quiet2, Quiet3, Quiet4
      <4> QED
        BY <4>1, Frame DEF IInv
    <3> QED BY <3>1, <3>2
  <2> QED
    BY <2>1, <2>2, <2>3, <2>4 DEF IInv
<1> QED
  BY <1>1, <1>2

(* The state of every behaviour has the types stated, for any constants.    *)
THEOREM TypeCorrect == Spec => []TypeOK
<1>1. IInv => TypeOK
  BY DEF IInv
<1> QED
  BY <1>1, Initially, Inductive, PTL DEF Spec

(* For any number of sandboxes that share ranges in turn, a prepared        *)
(* sandbox keeps its group and all its subnets, with the security group,    *)
(* until its own clean-up.                                                  *)
THEOREM StaysPrepared == Spec => []PreparedComplete
<1>1. IInv => PreparedComplete
  BY DEF IInv, Local, Preparing, Secured, WithGroup, WithNsg, PreparedComplete
<1> QED
  BY <1>1, Initially, Inductive, PTL DEF Spec

(* A clean-up that reports success has left nothing of its sandbox, for     *)
(* any faults of the commands before it.                                    *)
THEOREM CleansUp == Spec => []CleanupComplete
<1>1. IInv => CleanupComplete
  BY DEF IInv, Local, CleaningUp, NoGroup, NoSubnet, CleanupComplete
<1> QED
  BY <1>1, Initially, Inductive, PTL DEF Spec

(* subnet_locker is never left behind: whoever has it is at work on a        *)
(* subnet, whatever was refused or failed before.                           *)
LockerAtWork == locker # NONE => locker \in InSubnetCall

THEOREM LockerNeverLeftBehind == Spec => []LockerAtWork
<1>1. IInv => LockerAtWork
  BY DEF IInv, TypeOK, LockInv, LockerAtWork, InSubnetCall
<1> QED
  BY <1>1, Initially, Inductive, PTL DEF Spec
-----------------------------------------------------------------------------
(* How far a command is from its end: a step of its own brings it nearer, the *)
(* retry of create_route_table by the call that failed, and no step of        *)
(* another command takes it further away.                                     *)

(* The steps from a place on, with m address ranges left in the loop, of      *)
(* which a command finds as many as there are at most.                        *)
Steps(l, m) ==
  LET all == Cardinality(Cidr)
  IN CASE l = "group"       -> 5 * all + 5
       [] l = "vnet"        -> 5 * all + 4
       [] l = "nsg"         -> 5 * all + 3
       [] l = "rules"       -> 5 * all + 2
       [] l = "table"       -> 5 * all + 2
       [] l = "lock"        -> 5 * m + 1
       [] l = "create"      -> 5 * m + 5
       [] l = "stale"       -> 5 * m + 4
       [] l = "unstale"     -> 5 * m + 3
       [] l = "recreate"    -> 5 * m + 2
       [] l = "join"        -> 1
       [] l = "get"         -> 2 * m + 2
       [] l = "put"         -> 2 * m + 1
       [] l = "read"        -> 4 * all + 4
       [] l = "detachLock"  -> 2 * all + 2 * m + 3
       [] l = "detach"      -> 2 * all + 2 * m + 4
       [] l = "deleteGroup" -> 2 * all + 3
       [] l = "reread"      -> 2 * all + 2
       [] l = "deleteLock"  -> 2 * m + 1
       [] l = "delete"      -> 2 * m + 2
       [] l = "end"         -> 1
       [] OTHER             -> 0

Place(k) == Steps(pc[k], Cardinality(todo[k]))
(* What a retry may run again.                                                *)
Again == 5 * Cardinality(Cidr) + 5
Remaining(k) == Place(k) + Again * (MaxFaults - faults)

CommandStep(k) ==
  \E s \in Sandbox : \/ k = P(s) /\ PrepareStep(s)
                     \/ k = R(s) /\ RouteStep(s)
                     \/ k = C(s) /\ CleanupStep(s)

LEMMA StepsBounded ==
  ASSUME IsFiniteSet(Cidr), NEW l \in Labels, NEW m \in 0..Cardinality(Cidr)
  PROVE  /\ Again \in Nat /\ Steps(l, m) \in 0..Again
         /\ Steps(l, m) = 0 <=> l \in {"idle", "done", "failed"}
<1> DEFINE all == Cardinality(Cidr)
<1>1. all \in Nat /\ m \in 0..all /\ Again = 5 * all + 5 /\ all = Cardinality(Cidr)
  BY FS_CardinalityType DEF Again
<1> HIDE DEF all
<1>2. Again \in Nat
  BY <1>1
<1>3. CASE l \in {"idle", "done", "failed"}
  <2>1. Steps(l, m) = 0
    BY <1>3 DEF Steps
  <2> QED
    BY <1>2, <1>3, <2>1
<1>4. CASE l \notin {"idle", "done", "failed"}
  <2> DEFINE v == Steps(l, m)
  <2>1. ASSUME l \in {"group", "vnet", "nsg", "rules", "table", "join", "end", "read", "deleteGroup", "reread"}
        PROVE  v \in 1..(5 * all + 5)
    <3>1. v \in {1, 5 * all + 5, 5 * all + 4, 5 * all + 3, 5 * all + 2, 4 * all + 4, 2 * all + 3, 2 * all + 2}
      BY <1>1, <2>1 DEF Steps
    <3> HIDE DEF v
    <3> QED
      BY <1>1, <3>1
  <2>2. ASSUME l \in {"lock", "create", "stale", "unstale", "recreate", "get", "put", "detachLock", "detach",
                     "deleteLock", "delete"}
        PROVE  v \in 1..(5 * all + 5)
    <3>1. v \in {5 * m + 1, 5 * m + 5, 5 * m + 4, 5 * m + 3, 5 * m + 2, 2 * m + 2, 2 * m + 1,
                 2 * all + 2 * m + 3, 2 * all + 2 * m + 4}
      BY <1>1, <2>2 DEF Steps
    <3> HIDE DEF v
    <3> QED
      BY <1>1, <3>1
  <2>3. v \in 1..(5 * all + 5)
    BY <1>4, <2>1, <2>2 DEF Labels
  <2> QED
    BY <1>1, <1>4, <2>3
<1> QED
  BY <1>2, <1>3, <1>4

LEMMA LoopSize ==
  ASSUME IsFiniteSet(Cidr), TypeOK, NEW k \in Command
  PROVE  /\ IsFiniteSet(todo[k]) /\ Cardinality(todo[k]) \in 0..Cardinality(Cidr)
         /\ Cardinality(Cidr) \in Nat
BY FS_Subset, FS_CardinalityType DEF TypeOK

LEMMA PlaceBounded ==
  ASSUME IsFiniteSet(Cidr), TypeOK, NEW k \in Command
  PROVE  /\ Again \in Nat /\ Place(k) \in 0..Again
         /\ Place(k) = 0 <=> Over(k)
<1>1. pc[k] \in Labels
  BY DEF TypeOK
<1> QED
  BY <1>1, LoopSize, StepsBounded DEF Place, Over

(* A loop that is entered has one range less, one that is left none more.     *)
LEMMA Entered ==
  ASSUME IsFiniteSet(Cidr), TypeOK, NEW k \in Command, NEW from, NEW to, Enter(k, from, to)
  PROVE  /\ pc[k] = from /\ pc'[k] = to /\ faults' = faults
         /\ Cardinality(todo'[k]) = Cardinality(todo[k]) - 1
<1>1. PICK c \in todo[k] : todo' = [todo EXCEPT ![k] = @ \ {c}]
  BY DEF Enter
<1>2. todo'[k] = todo[k] \ {c}
  BY <1>1 DEF TypeOK
<1>3. Cardinality(todo[k] \ {c}) = Cardinality(todo[k]) - 1
  BY LoopSize, FS_RemoveElement
<1>4. pc[k] = from /\ pc'[k] = to /\ faults' = faults
  BY DEF Enter, Returns, Goto, TypeOK
<1> QED
  BY <1>2, <1>3, <1>4

LEMMA Left ==
  ASSUME TypeOK, NEW k \in Command, NEW again, NEW done, Leave(k, again, done)
  PROVE  pc'[k] \in {again, done} /\ faults' = faults /\ todo'[k] = todo[k]
BY DEF Leave, Returns, Goto, TypeOK

LEMMA Aborted ==
  ASSUME TypeOK, NEW k \in Command, NEW l, Abort(k, l)
  PROVE  pc'[k] = l /\ Cardinality(todo'[k]) = 0
BY FS_EmptySet DEF Abort, Unwinds, Goto, TypeOK

(* Most steps go forward, whether their call fails or not.                    *)
Forward(k) == Place(k)' < Place(k) /\ (faults' = faults \/ Fault)

LEMMA PrepareForward ==
  ASSUME IsFiniteSet(Cidr), IInv, NEW s \in Sandbox, PrepareStep(s)
  PROVE  Forward(P(s))
<1> DEFINE k == P(s)
           m == Cardinality(todo[k])
           n == Cardinality(todo'[k])
           all == Cardinality(Cidr)
<1> USE DEF Returns, Raises, Goto
<1>1. k \in Command /\ TypeOK /\ TypeOK'
  BY Commands, PrepareTypes DEF IInv
<1>2. m \in 0..all /\ n \in 0..all /\ all \in Nat /\ all = Cardinality(Cidr)
  <2>1. todo'[k] \subseteq Cidr
    BY <1>1 DEF TypeOK
  <2> QED
    BY <1>1, <2>1, LoopSize, FS_Subset, FS_CardinalityType
<1>3. Place(k) = Steps(pc[k], m) /\ Place(k)' = Steps(pc'[k], n)
  BY DEF Place
<1>4. ASSUME pc[k] # "idle", pc[k] # "done", pc[k] # "failed", pc'[k] = "failed"
      PROVE  Place(k)' < Place(k)
  <2>1. Place(k) \in Nat /\ Place(k) # 0
    BY <1>1, <1>4, PlaceBounded DEF Over
  <2>2. Place(k)' = 0
    BY <1>3, <1>4 DEF Steps
  <2> QED
    BY <2>1, <2>2
<1> HIDE DEF m, n, all
<1>5. CASE CreateGroup(s) \/ ReadVnet(s) \/ CreateNsg(s) \/ JoinPool(s)
  <2>1. /\ faults' = faults \/ Fault
        /\ \/ pc[k] = "group" /\ pc'[k] = "vnet"
           \/ pc[k] = "vnet" /\ pc'[k] = "nsg"
           \/ pc[k] = "nsg" /\ pc'[k] = "rules"
           \/ pc[k] = "join" /\ pc'[k] = "done"
           \/ pc[k] \in {"group", "vnet", "nsg", "join"} /\ pc'[k] = "failed"
    BY <1>1, <1>5 DEF CreateGroup, ReadVnet, CreateNsg, JoinPool, TypeOK
  <2> QED
    BY <1>2, <1>3, <1>4, <2>1 DEF Forward, Steps
<1>6. CASE CreateSubnetNsgRules(s)
  <2>1. /\ faults' = faults \/ Fault
        /\ pc[k] = "rules" /\ pc'[k] \in {"lock", "failed"}
    BY <1>1, <1>6 DEF CreateSubnetNsgRules, TypeOK
  <2> QED
    BY <1>2, <1>3, <1>4, <2>1 DEF Forward, Steps
<1>7. CASE EnterCreate(s)
  <2>1. pc[k] = "lock" /\ pc'[k] = "create" /\ faults' = faults /\ n = m - 1
    BY <1>1, <1>7, Entered DEF EnterCreate, m, n
  <2> QED
    BY <1>2, <1>3, <2>1 DEF Forward, Steps
<1>8. CASE CreateSubnet(s)
  <2>1. pc[k] \in {"create", "recreate"}
    BY <1>8 DEF CreateSubnet
  <2>2. CASE Leave(k, "lock", "join")
    <3>1. pc'[k] \in {"lock", "join"} /\ faults' = faults /\ n = m
      BY <1>1, <2>2, Left DEF m, n
    <3> QED
      BY <1>2, <1>3, <2>1, <3>1 DEF Forward, Steps
  <2>3. CASE pc[k] = "create" /\ Returns(k, "stale") /\ UNCHANGED loop
    <3>1. pc'[k] = "stale" /\ faults' = faults /\ n = m
      BY <1>1, <2>3 DEF TypeOK, loop, m, n
    <3> QED
      BY <1>2, <1>3, <2>3, <3>1 DEF Forward, Steps
  <2>4. CASE (faults' = faults \/ Fault) /\ Abort(k, "failed")
    BY <1>1, <1>4, <2>1, <2>4, Aborted DEF Forward
  <2> QED
    BY <1>8, <2>2, <2>3, <2>4 DEF CreateSubnet
<1>9. CASE DetachStale(s)
  <2>1. pc[k] = "stale"
    BY <1>9 DEF DetachStale
  <2>2. CASE (Returns(k, "recreate") \/ Returns(k, "unstale")) /\ UNCHANGED loop
    <3>1. pc'[k] \in {"recreate", "unstale"} /\ faults' = faults /\ n = m
      BY <1>1, <2>2 DEF TypeOK, loop, m, n
    <3> QED
      BY <1>2, <1>3, <2>1, <3>1 DEF Forward, Steps
  <2>3. CASE (faults' = faults \/ Fault) /\ Abort(k, "failed")
    BY <1>1, <1>4, <2>1, <2>3, Aborted DEF Forward
  <2> QED
    BY <1>9, <2>2, <2>3 DEF DetachStale
<1>10. CASE DeleteStale(s)
  <2>1. pc[k] = "unstale"
    BY <1>10 DEF DeleteStale
  <2>2. CASE Returns(k, "recreate") /\ UNCHANGED loop
    <3>1. pc'[k] = "recreate" /\ faults' = faults /\ n = m
      BY <1>1, <2>2 DEF TypeOK, loop, m, n
    <3> QED
      BY <1>2, <1>3, <2>1, <3>1 DEF Forward, Steps
  <2>3. CASE (faults' = faults \/ Fault) /\ Abort(k, "failed")
    BY <1>1, <1>4, <2>1, <2>3, Aborted DEF Forward
  <2> QED
    BY <1>10, <2>2, <2>3 DEF DeleteStale
<1> QED
  BY <1>5, <1>6, <1>7, <1>8, <1>9, <1>10 DEF PrepareStep

LEMMA CleanupForward ==
  ASSUME IsFiniteSet(Cidr), IInv, NEW s \in Sandbox, CleanupStep(s)
  PROVE  Forward(C(s))
<1> DEFINE k == C(s)
           m == Cardinality(todo[k])
           n == Cardinality(todo'[k])
           all == Cardinality(Cidr)
<1> USE DEF Returns, Raises, Goto
<1>1. k \in Command /\ TypeOK /\ TypeOK'
  BY Commands, CleanupTypes DEF IInv
<1>2. m \in 0..all /\ n \in 0..all /\ all \in Nat /\ all = Cardinality(Cidr)
  <2>1. todo'[k] \subseteq Cidr
    BY <1>1 DEF TypeOK
  <2> QED
    BY <1>1, <2>1, LoopSize, FS_Subset, FS_CardinalityType
<1>3. Place(k) = Steps(pc[k], m) /\ Place(k)' = Steps(pc'[k], n)
  BY DEF Place
<1> HIDE DEF m, n, all
<1>4. CASE ReadSubnets(s) \/ RereadSubnets(s)
  <2>1. /\ faults' = faults \/ Fault
        /\ \/ pc[k] = "read" /\ pc'[k] \in {"detachLock", "deleteGroup"}
           \/ pc[k] = "reread" /\ pc'[k] \in {"deleteLock", "end"}
    BY <1>1, <1>4 DEF ReadSubnets, RereadSubnets, FindSubnets, TypeOK
  <2> QED
    BY <1>2, <1>3, <2>1 DEF Forward, Steps
<1>5. CASE EnterDetach(s) \/ EnterDelete(s)
  <2>1. /\ faults' = faults /\ n = m - 1
        /\ \/ pc[k] = "detachLock" /\ pc'[k] = "detach"
           \/ pc[k] = "deleteLock" /\ pc'[k] = "delete"
    BY <1>1, <1>5, Entered DEF EnterDetach, EnterDelete, m, n
  <2> QED
    BY <1>2, <1>3, <2>1 DEF Forward, Steps
<1>6. CASE DetachSubnet(s)
  <2>1. pc[k] = "detach"
    BY <1>6 DEF DetachSubnet
  <2>2. CASE Leave(k, "detachLock", "deleteGroup")
    <3>1. pc'[k] \in {"detachLock", "deleteGroup"} /\ faults' = faults /\ n = m
      BY <1>1, <2>2, Left DEF m, n
    <3> QED
      BY <1>2, <1>3, <2>1, <3>1 DEF Forward, Steps
  <2>3. CASE (faults' = faults \/ Fault) /\ Abort(k, "deleteGroup")
    <3>1. pc'[k] = "deleteGroup"
      BY <1>1, <2>3, Aborted
    <3> QED
      BY <1>2, <1>3, <2>1, <2>3, <3>1 DEF Forward, Steps
  <2> QED
    BY <1>6, <2>2, <2>3 DEF DetachSubnet
<1>7. CASE DeleteGroup(s)
  <2>1. pc[k] = "deleteGroup" /\ pc'[k] = "reread" /\ (faults' = faults \/ Fault)
    BY <1>1, <1>7 DEF DeleteGroup, TypeOK
  <2> QED
    BY <1>2, <1>3, <2>1 DEF Forward, Steps
<1>8. CASE DeleteSubnet(s)
  <2>1. pc[k] = "delete"
    BY <1>8 DEF DeleteSubnet
  <2>2. CASE Leave(k, "deleteLock", "end")
    <3>1. pc'[k] \in {"deleteLock", "end"} /\ faults' = faults /\ n = m
      BY <1>1, <2>2, Left DEF m, n
    <3> QED
      BY <1>2, <1>3, <2>1, <3>1 DEF Forward, Steps
  <2>3. CASE (faults' = faults \/ Fault) /\ Abort(k, "end")
    <3>1. pc'[k] = "end"
      BY <1>1, <2>3, Aborted
    <3> QED
      BY <1>2, <1>3, <2>1, <2>3, <3>1 DEF Forward, Steps
  <2> QED
    BY <1>8, <2>2, <2>3 DEF DeleteSubnet
<1>9. CASE EndCleanup(s)
  <2>1. pc[k] = "end" /\ pc'[k] \in {"done", "failed"} /\ faults' = faults
    BY <1>1, <1>9 DEF EndCleanup, TypeOK
  <2> QED
    BY <1>2, <1>3, <2>1 DEF Forward, Steps
<1> QED
  BY <1>4, <1>5, <1>6, <1>7, <1>8, <1>9 DEF CleanupStep

(* create_route_table goes forward too, or runs again at the cost of a fault. *)
LEMMA RouteForward ==
  ASSUME IsFiniteSet(Cidr), IInv, NEW s \in Sandbox, RouteStep(s)
  PROVE  Forward(R(s)) \/ (Fault /\ pc'[R(s)] = "table" /\ ~Over(R(s)))
<1> DEFINE k == R(s)
           m == Cardinality(todo[k])
           n == Cardinality(todo'[k])
           all == Cardinality(Cidr)
<1> USE DEF Returns, Raises, Goto
<1>1. k \in Command /\ TypeOK /\ TypeOK'
  BY Commands, RouteTypes DEF IInv
<1>2. m \in 0..all /\ n \in 0..all /\ all \in Nat /\ all = Cardinality(Cidr)
  <2>1. todo'[k] \subseteq Cidr
    BY <1>1 DEF TypeOK
  <2> QED
    BY <1>1, <2>1, LoopSize, FS_Subset, FS_CardinalityType
<1>3. Place(k) = Steps(pc[k], m) /\ Place(k)' = Steps(pc'[k], n)
  BY DEF Place
<1>4. ASSUME pc[k] \in {"table", "get", "put"}, pc'[k] \in {"done", "failed"}
      PROVE  Place(k)' < Place(k)
  <2>1. Place(k) \in Nat /\ Place(k) # 0
    BY <1>1, <1>4, PlaceBounded DEF Over
  <2>2. Place(k)' = 0
    BY <1>3, <1>4 DEF Steps
  <2> QED
    BY <2>1, <2>2
<1>5. ASSUME pc[k] \in {"get", "put"}, Retries(k)
      PROVE  Forward(k) \/ (Fault /\ pc'[k] = "table" /\ ~Over(k))
  BY <1>1, <1>4, <1>5, Aborted DEF Forward, Retries, Over
<1> HIDE DEF m, n, all
<1>6. CASE CreateTable(s)
  <2>1. /\ pc[k] = "table"
        /\ \/ pc'[k] = "lock" /\ faults' = faults
           \/ pc'[k] \in {"table", "failed"} /\ Fault
    BY <1>1, <1>6 DEF CreateTable, TypeOK
  <2> QED
    BY <1>2, <1>3, <1>4, <2>1 DEF Forward, Steps, Over
<1>7. CASE EnterRoute(s)
  <2>1. pc[k] = "lock" /\ pc'[k] = "get" /\ faults' = faults /\ n = m - 1
    BY <1>1, <1>7, Entered DEF EnterRoute, m, n
  <2> QED
    BY <1>2, <1>3, <2>1 DEF Forward, Steps
<1>8. CASE GetSubnet(s)
  <2>1. pc[k] = "get"
    BY <1>8 DEF GetSubnet
  <2>2. CASE Returns(k, "put") /\ UNCHANGED loop
    <3>1. pc'[k] = "put" /\ faults' = faults /\ n = m
      BY <1>1, <2>2 DEF TypeOK, loop, m, n
    <3> QED
      BY <1>2, <1>3, <2>1, <3>1 DEF Forward, Steps
  <2> QED
    BY <1>5, <1>8, <2>1, <2>2 DEF GetSubnet
<1>9. CASE PutRoute(s)
  <2>1. pc[k] = "put"
    BY <1>9 DEF PutRoute
  <2>2. CASE todo[k] = {} /\ Leave(k, "lock", "done")
    <3>1. pc'[k] = "done" /\ faults' = faults
      BY <1>1, <2>2 DEF Leave, TypeOK
    <3> QED
      BY <1>4, <2>1, <3>1 DEF Forward
  <2>3. ASSUME NEW c \in todo[k], todo' = [todo EXCEPT ![k] = @ \ {c}], Returns(k, "get")
        PROVE  Forward(k)
    <3>1. pc'[k] = "get" /\ faults' = faults /\ todo'[k] = todo[k] \ {c}
      BY <1>1, <2>3 DEF TypeOK
    <3>2. n = m - 1
      BY <1>1, <2>3, <3>1, LoopSize, FS_RemoveElement DEF m, n
    <3> QED
      BY <1>2, <1>3, <2>1, <3>1, <3>2 DEF Forward, Steps
  <2> QED
    BY <1>5, <1>9, <2>1, <2>2, <2>3 DEF PutRoute
<1> QED
  BY <1>6, <1>7, <1>8, <1>9 DEF RouteStep

(* What a step of a command does to its place, and what it costs.             *)
Nearer(k) ==
  /\ Place(k)' \in Nat
  /\ \/ faults' = faults /\ Place(k)' < Place(k)
     \/ Fault /\ Place(k)' < Place(k) + Again

LEMMA StepsNearer ==
  ASSUME IsFiniteSet(Cidr), IInv, IInv', NEW k \in Command, CommandStep(k)
  PROVE  Nearer(k)
<1>1. Place(k) \in 0..Again /\ Again \in Nat /\ (Place(k) = 0 <=> Over(k))
  BY PlaceBounded DEF IInv
<1>2. Place(k)' \in 0..Again
  <2>1. /\ pc'[k] \in Labels /\ todo'[k] \subseteq Cidr
    BY DEF IInv, TypeOK
  <2>2. Cardinality(todo'[k]) \in 0..Cardinality(Cidr)
    BY <2>1, FS_Subset, FS_CardinalityType
  <2> QED
    BY <2>1, <2>2, StepsBounded DEF Place
<1>3. Forward(k) \/ (Fault /\ ~Over(k))
  BY PrepareForward, RouteForward, CleanupForward DEF CommandStep
<1> QED
  BY <1>1, <1>2, <1>3 DEF Nearer, Forward

(* The steps of others, and what starts a command that is not under way.      *)
LEMMA OthersStay ==
  ASSUME IInv, [Next]_vars, NEW k \in Command, ~CommandStep(k), ~Over(k)
  PROVE  Place(k)' = Place(k) /\ (faults' = faults \/ Fault)
<1>1. CASE UNCHANGED vars
  BY <1>1 DEF vars, loop, Place
<1>2. CASE Next
  <2> PICK u \in Sandbox :
        \/ StartPrepare(u) \/ PrepareStep(u) \/ Deploy(u) \/ StartRoute(u) \/ RouteStep(u)
        \/ StartCleanup(u) \/ CleanupStep(u) \/ Release(u)
    BY <1>2 DEF Next
  <2>1. CASE StartPrepare(u)
    <3>1. Over(P(u)) /\ faults' = faults
      BY <2>1 DEF StartPrepare, Returns
    <3> QED
      BY <2>1, <3>1, PrepareControl DEF IInv, Place
  <2>2. CASE StartRoute(u)
    <3>1. Over(R(u)) /\ faults' = faults
      BY <2>2 DEF StartRoute, Returns
    <3> QED
      BY <2>2, <3>1, RouteControl DEF IInv, Place
  <2>3. CASE StartCleanup(u)
    <3>1. Over(C(u)) /\ faults' = faults
      BY <2>3 DEF StartCleanup, Returns, Over
    <3> QED
      BY <2>3, <3>1, CleanupControl DEF IInv, Place
  <2>4. CASE PrepareStep(u)
    <3>1. k # P(u) /\ (faults' = faults \/ Fault)
      BY <2>4 DEF CommandStep, PrepareStep, CreateGroup, ReadVnet, CreateNsg, CreateSubnetNsgRules, EnterCreate,
             Enter, CreateSubnet, DetachStale, DeleteStale, JoinPool, Leave, Abort, Unwinds, Returns, Raises
    <3> QED
      BY <2>4, <3>1, PrepareControl DEF IInv, Place
  <2>5. CASE RouteStep(u)
    <3>1. k # R(u) /\ (faults' = faults \/ Fault)
      BY <2>5 DEF CommandStep, RouteStep, CreateTable, EnterRoute, Enter, GetSubnet, PutRoute, Retries,
             Leave, Abort, Unwinds, Returns, Raises
    <3> QED
      BY <2>5, <3>1, RouteControl DEF IInv, Place
  <2>6. CASE CleanupStep(u)
    <3>1. k # C(u) /\ (faults' = faults \/ Fault)
      BY <2>6 DEF CommandStep, CleanupStep, ReadSubnets, RereadSubnets, FindSubnets, EnterDetach, EnterDelete,
             Enter, DetachSubnet, DeleteGroup, DeleteSubnet, EndCleanup, Leave, Abort, Unwinds, Returns, Raises
    <3> QED
      BY <2>6, <3>1, CleanupControl DEF IInv, Place
  <2>7. CASE Deploy(u) \/ Release(u)
    BY <2>7 DEF Deploy, Release, loop, Place
  <2> QED
    BY <2>1, <2>2, <2>3, <2>4, <2>5, <2>6, <2>7
<1> QED
  BY <1>1, <1>2

(* The rounds of retries that are left.                                       *)
LEMMA Rounds ==
  ASSUME NEW w \in Nat, NEW m \in Nat, NEW f \in 0..m
  PROVE  /\ w * (m - f) \in Nat
         /\ w * (m - f) <= w * m
         /\ w * (m - f) = w * (m - (f + 1)) + w
<1>1. \A x \in Nat : w * x \in Nat
  OBVIOUS
<1>2. w * m = w * (m - f) + w * f
  OBVIOUS
<1>3. w * (m - f) = w * (m - (f + 1)) + w
  OBVIOUS
<1>4. m - f \in Nat /\ f \in Nat
  OBVIOUS
<1> QED
  BY <1>1, <1>2, <1>3, <1>4

(* The steps a preparation, a route command or a clean-up still has before it *)
(* are at most those of one round over all address ranges, and of another for *)
(* each call that fails; none is left only where it is over.                  *)
DistanceBounded ==
  \A k \in Command : /\ Remaining(k) \in 0..(Again + Again * MaxFaults)
                     /\ Remaining(k) = 0 => Over(k)

THEOREM CommandsBounded == IsFiniteSet(Cidr) => (Spec => []DistanceBounded)
<1> SUFFICES ASSUME IsFiniteSet(Cidr) PROVE Spec => []DistanceBounded
  OBVIOUS
<1>1. ASSUME IInv, NEW k \in Command
      PROVE  Remaining(k) \in 0..(Again + Again * MaxFaults) /\ (Remaining(k) = 0 => Over(k))
  <2>1. Again \in Nat /\ Place(k) \in 0..Again /\ (Place(k) = 0 => Over(k))
    BY <1>1, PlaceBounded DEF IInv
  <2>2. MaxFaults \in Nat /\ faults \in 0..MaxFaults
    BY <1>1, SandboxesAssumption DEF IInv, TypeOK
  <2>3. /\ Again * (MaxFaults - faults) \in Nat /\ Again * MaxFaults \in Nat
        /\ Again * (MaxFaults - faults) <= Again * MaxFaults
    BY <2>1, <2>2, Rounds
  <2> QED
    BY <2>1, <2>3 DEF Remaining
<1>2. IInv => DistanceBounded
  BY <1>1 DEF DistanceBounded
<1> QED
  BY <1>2, Initially, Inductive, PTL DEF Spec

(* Every step of a command under way leaves it fewer, and no step of another  *)
(* command, of a deployment or of CloudShell gives it more: with the bound    *)
(* above, preparations, route commands with their retries, and clean-ups end. *)
DistanceShrinks ==
  \A k \in Command : ~Over(k) => /\ Remaining(k)' <= Remaining(k)
                                 /\ CommandStep(k) => Remaining(k)' < Remaining(k)

THEOREM CommandsProgress == IsFiniteSet(Cidr) => (Spec => [][DistanceShrinks]_vars)
<1> SUFFICES ASSUME IsFiniteSet(Cidr) PROVE Spec => [][DistanceShrinks]_vars
  OBVIOUS
<1>1. ASSUME IInv, IInv', [Next]_vars, NEW k \in Command, ~Over(k)
      PROVE  /\ Remaining(k)' <= Remaining(k)
             /\ CommandStep(k) => Remaining(k)' < Remaining(k)
  <2>1. /\ Again \in Nat /\ Place(k) \in Nat
        /\ MaxFaults \in Nat /\ faults \in 0..MaxFaults
    BY <1>1, PlaceBounded, SandboxesAssumption DEF IInv, TypeOK
  <2> DEFINE left == Again * (MaxFaults - faults)
             then == Again * (MaxFaults - (faults + 1))
  <2>2. left \in Nat /\ left = then + Again /\ then \in Int
    BY <2>1, Rounds
  <2>3. /\ Remaining(k) = Place(k) + left
        /\ faults' = faults => Remaining(k)' = Place(k)' + left
        /\ Fault => Remaining(k)' = Place(k)' + then
    BY DEF Remaining, Fault, Again
  <2> HIDE DEF left, then
  <2>4. CASE CommandStep(k)
    BY <1>1, <2>1, <2>2, <2>3, <2>4, StepsNearer DEF Nearer
  <2>5. CASE ~CommandStep(k)
    BY <1>1, <2>1, <2>2, <2>3, <2>5, OthersStay
  <2> QED
    BY <2>4, <2>5
<1>2. IInv /\ [Next]_vars => [DistanceShrinks]_vars
  BY <1>1, Inductive DEF DistanceShrinks
<1> QED
  BY <1>2, Initially, Inductive, PTL DEF Spec
=============================================================================
