----------------------- MODULE SandboxRefusalsProofs -----------------------
(***************************************************************************)
(* What Azure refuses: nothing a clean-up asks for, when every call is      *)
(* answered, and of a preparation only the removal of a stale subnet with   *)
(* interfaces, for any sandboxes and address ranges.  A sandbox at work has *)
(* its ranges for itself (Ranges), so that what it has read of the network  *)
(* there stays true until it writes it.                                     *)
(***************************************************************************)
EXTENDS SandboxNetworkProofs

NoOverlap == \A x, y \in subnets : x[2] = y[2] => x = y
OwnRange == \A x \in subnets : x[2] \in CidrsOf[x[1]]
TablesExist == \A x \in routed : x[1] \in tables

(* The loops of a sandbox are over its own ranges, and a route table is     *)
(* there before the first subnet that is to refer to it.                    *)
Loops(s) ==
  /\ pc[R(s)] \in {"lock", "get", "put"} => s \in tables
  /\ pc[C(s)] \in {"detachLock", "detach", "deleteLock", "delete"} => todo[C(s)] \subseteq CidrsOf[s]
  /\ pc[C(s)] \in {"detach", "delete"} => at[C(s)] \in CidrsOf[s]

(* What a preparation read of its ranges is what is there.                  *)
HasRead == {"nsg", "rules", "lock"} \union AtSubnet
Seen(s) ==
  /\ pc[P(s)] \in HasRead =>
       /\ \A x, y \in snap[s].subnets : x[2] = y[2] => x = y
       /\ \A x \in subnets : x[1] # s /\ x[2] \in CidrsOf[s] =>
            x \in snap[s].subnets /\ (x \in snap[s].routed => x \in routed)
  /\ pc[P(s)] = "unstale" =>
       /\ \A x \in Stale(s) : x[1] # s
       /\ \A x \in subnets : x[2] = at[P(s)] => x \in Stale(s)
  /\ pc[P(s)] = "recreate" => \A x \in subnets : x[2] # at[P(s)]

(* While every call is answered, a clean-up finds the group, and detaches   *)
(* each subnet that refers to something in it.                              *)
Detaching(s) ==
  faults = 0 =>
    /\ ~errors[s] /\ pc[C(s)] # "failed"
    /\ \/ pc[C(s)] = "idle" /\ pc[P(s)] \notin {"idle", "group"}
       \/ pc[C(s)] \in {"read", "detachLock", "detach", "deleteGroup"}
       => s \in groups
    /\ pc[C(s)] \in {"detachLock", "detach"} => \A c \in todo[C(s)] : <<s, c>> \in subnets
    /\ pc[C(s)] = "detach" => <<s, at[C(s)]>> \in subnets
    /\ \A x \in secured \union routed : x[1] = s =>
         /\ pc[C(s)] = "detachLock" => x[2] \in todo[C(s)]
         /\ pc[C(s)] = "detach" => x[2] \in todo[C(s)] \/ x[2] = at[C(s)]
         /\ pc[C(s)] # "deleteGroup"

NetInv == NoOverlap /\ OwnRange /\ TablesExist /\ \A s \in Sandbox : Loops(s) /\ Seen(s) /\ Detaching(s)
-----------------------------------------------------------------------------
StepOf(u) ==
  \/ StartPrepare(u) \/ PrepareStep(u) \/ Deploy(u) \/ StartRoute(u) \/ RouteStep(u)
  \/ StartCleanup(u) \/ CleanupStep(u) \/ Release(u)

(* A subnet that is written is of the writer's ranges, where it is at work: *)
(* its own, or a stale one that is still there.                             *)
Writes(u, x) ==
  /\ pc[P(u)] # "idle" /\ u \notin released /\ x[2] \in CidrsOf[u] /\ UNCHANGED tables
  /\ \/ RemoveSubnet(x)
     \/ \E nsg, table \in BOOLEAN :
          /\ PutSubnet(x, nsg, table) /\ ~Overlapped(x)
          /\ x \in subnets \/ x[1] = u
          /\ table => x[1] \in tables

LEMMA Written ==
  ASSUME IInv, NoOverlap, NEW u \in Sandbox, Loops(u), StepOf(u)
  PROVE  UNCHANGED vnet \/ \E x \in Subnet : Writes(u, x)
<1> USE Commands
<1>1. TypeOK /\ InTheWay /\ Local(u) /\ CidrsOf[u] \subseteq Cidr
  BY Cidrs DEF IInv
<1>2. \A c \in CidrsOf[u] : <<u, c>> \in Subnet /\ <<u, c>>[1] = u /\ <<u, c>>[2] = c
  BY <1>1 DEF Subnet
<1>3. CASE StartPrepare(u) \/ CreateGroup(u) \/ ReadVnet(u) \/ CreateNsg(u)
             \/ CreateSubnetNsgRules(u) \/ EnterCreate(u) \/ JoinPool(u) \/ Deploy(u) \/ Release(u)
  BY <1>3 DEF StartPrepare, CreateGroup, ReadVnet, CreateNsg, CreateSubnetNsgRules, EnterCreate,
              JoinPool, Deploy, Release, azure
<1>4. ASSUME pc[P(u)] \in AtSubnet
      PROVE  pc[P(u)] # "idle" /\ u \notin released /\ at[P(u)] \in CidrsOf[u]
  BY <1>1, <1>4 DEF AtSubnet, Local, Phases, Preparing
<1>5. CASE CreateSubnet(u)
  <2>1. /\ pc[P(u)] \in AtSubnet /\ UNCHANGED tables
        /\ UNCHANGED vnet \/ (~Overlapped(<<u, at[P(u)]>>) /\ PutSubnet(<<u, at[P(u)]>>, TRUE, FALSE))
    BY <1>5 DEF CreateSubnet, AtSubnet, PutRefused
  <2> QED
    BY <1>2, <1>4, <2>1 DEF Writes
<1>6. ASSUME NEW x \in Stale(u), pc[P(u)] \in AtSubnet
      PROVE  x \in Subnet /\ x[2] \in CidrsOf[u]
  BY <1>1, <1>4, <1>6 DEF Stale, TypeOK
<1>7. CASE DetachStale(u)
  <2>1. /\ pc[P(u)] = "stale" /\ UNCHANGED tables
        /\ \/ UNCHANGED vnet
           \/ \E x \in Stale(u) : /\ ~PutRefused(x, FALSE, x \in snap[u].routed)
                                  /\ PutSubnet(x, FALSE, x \in snap[u].routed)
    BY <1>7 DEF DetachStale
  <2>2. ASSUME NEW x \in Stale(u), ~PutRefused(x, FALSE, x \in snap[u].routed),
               PutSubnet(x, FALSE, x \in snap[u].routed)
        PROVE  Writes(u, x)
    <3>1. PICK y \in subnets : y[2] = at[P(u)]
      BY <1>1, <2>1 DEF InTheWay, Overlapped
    <3>2. x \in subnets /\ ~Overlapped(x) /\ (x \in snap[u].routed => x[1] \in tables)
      BY <2>2, <3>1 DEF PutRefused, Overlapped, Stale
    <3>3. \E nsg, table \in BOOLEAN : PutSubnet(x, nsg, table) /\ (table => x[1] \in tables)
      <4>1. CASE x \in snap[u].routed
        <5>1. PutSubnet(x, FALSE, TRUE)
          BY <2>2, <4>1 DEF PutSubnet, With
        <5> QED
          BY <3>2, <4>1, <5>1
      <4>2. CASE x \notin snap[u].routed
        <5>1. PutSubnet(x, FALSE, FALSE)
          BY <2>2, <4>2 DEF PutSubnet, With
        <5> QED
          BY <5>1
      <4> QED
        BY <4>1, <4>2
    <3> QED
      BY <1>4, <1>6, <2>1, <3>2, <3>3 DEF Writes, AtSubnet
  <2> QED
    BY <1>6, <2>1, <2>2 DEF AtSubnet
<1>8. CASE DeleteStale(u)
  <2>1. /\ pc[P(u)] = "unstale" /\ UNCHANGED tables
        /\ UNCHANGED vnet \/ \E x \in Stale(u) : RemoveSubnet(x)
    BY <1>8 DEF DeleteStale
  <2> QED
    BY <1>4, <1>6, <2>1 DEF Writes, AtSubnet
<1>9. CASE StartRoute(u) \/ RouteStep(u)
  <2>1. UNCHANGED vnet \/ (pc[R(u)] = "put" /\ PutRead(u))
    BY <1>1, <1>9, RouteWrites
  <2>2. ASSUME pc[R(u)] = "put", PutRead(u)
        PROVE  Writes(u, <<u, at[R(u)]>>)
    <3>1. pc[P(u)] = "done" /\ pc[C(u)] = "idle" /\ at[R(u)] \in CidrsOf[u] /\ u \in tables
      BY <1>1, <2>2 DEF Local, Phases, Over, Routing, Loops
    <3>2. u \notin released
      BY <1>1, <3>1 DEF Local, Phases
    <3>3. <<u, at[R(u)]>> \in subnets
      BY <1>1, <3>1 DEF Local, Preparing, Secured, TypeOK
    <3>4. ~Overlapped(<<u, at[R(u)]>>)
      BY <3>3 DEF NoOverlap, Overlapped
    <3>5. UNCHANGED tables
      <4>1. PutRoute(u)
        BY <1>9, <2>2 DEF StartRoute, RouteStep, Over, CreateTable, EnterRoute, Enter, GetSubnet
      <4> QED
        BY <4>1 DEF PutRoute
    <3>6. read[u] \in BOOLEAN
      BY <1>1 DEF TypeOK
    <3> QED
      BY <1>2, <2>2, <3>1, <3>2, <3>3, <3>4, <3>5, <3>6 DEF Writes, PutRead
  <2>3. pc[R(u)] = "put" => <<u, at[R(u)]>> \in Subnet
    BY <1>1, <1>2 DEF Local, Routing
  <2> QED
    BY <2>1, <2>2, <2>3
<1>10. CASE StartCleanup(u) \/ CleanupStep(u)
  <2>1. \/ UNCHANGED vnet
        \/ /\ pc[C(u)] \in {"detach", "delete"} /\ UNCHANGED tables
           /\ \/ PutSubnet(<<u, at[C(u)]>>, FALSE, FALSE) /\ ~Overlapped(<<u, at[C(u)]>>)
              \/ RemoveSubnet(<<u, at[C(u)]>>)
    BY <1>10 DEF StartCleanup, CleanupStep, ReadSubnets, FindSubnets, EnterDetach, DeleteGroup, RereadSubnets,
              EnterDelete, EndCleanup, azure, DetachSubnet, DeleteSubnet, PutRefused
  <2>2. pc[C(u)] \in {"detach", "delete"} => pc[P(u)] # "idle" /\ u \notin released /\ at[C(u)] \in CidrsOf[u]
    BY <1>1 DEF Local, Phases, Loops
  <2> QED
    BY <1>2, <2>1, <2>2 DEF Writes
<1> QED
  BY <1>3, <1>5, <1>7, <1>8, <1>9, <1>10 DEF StepOf, PrepareStep

(* The others leave the ranges of a sandbox at work alone.                  *)
LEMMA Apart ==
  ASSUME IInv, NoOverlap, NEW s \in Sandbox, NEW u \in Sandbox \ {s}, Loops(u), StepOf(u),
         pc[P(s)] # "idle", s \notin released,
         NEW y \in Subnet, y[2] \in CidrsOf[s]
  PROVE  (y \in subnets' <=> y \in subnets) /\ (y \in secured' <=> y \in secured)
         /\ (y \in routed' <=> y \in routed)
<1>1. CASE UNCHANGED vnet
  BY <1>1 DEF vnet
<1>2. ASSUME NEW x \in Subnet, Writes(u, x)
      PROVE  (y \in subnets' <=> y \in subnets) /\ (y \in secured' <=> y \in secured)
             /\ (y \in routed' <=> y \in routed)
  <2>1. pc[P(u)] # "idle" /\ u \notin released /\ x[2] \in CidrsOf[u]
    BY <1>2 DEF Writes
  <2>2. x # y
    BY <2>1 DEF IInv, Ranges
  <2> QED
    BY <1>2, <2>2 DEF Writes, RemoveSubnet, PutSubnet, With
<1> QED
  BY <1>1, <1>2, Written
-----------------------------------------------------------------------------
LEMMA NetworkKept ==
  ASSUME IInv, NoOverlap, OwnRange, TablesExist, NEW u \in Sandbox, Loops(u), StepOf(u)
  PROVE  NoOverlap' /\ OwnRange' /\ TablesExist'
<1>1. TypeOK
  BY DEF IInv
<1>2. CASE UNCHANGED vnet
  <2>1. NoOverlap' /\ OwnRange'
    BY <1>2 DEF NoOverlap, OwnRange, vnet
  <2>2. tables \subseteq tables' \/ (tables' = tables \ {u} /\ ~Referred(u))
    <3>1. CASE StartPrepare(u) \/ PrepareStep(u) \/ StartRoute(u) \/ RouteStep(u)
      BY <1>1, <3>1, PrepareControl, RouteControl
    <3>2. CASE Deploy(u) \/ Release(u)
      BY <3>2 DEF Deploy, Release, azure
    <3>3. CASE StartCleanup(u) \/ CleanupStep(u)
      BY <3>3 DEF StartCleanup, CleanupStep, ReadSubnets, FindSubnets, EnterDetach, DetachSubnet, DeleteGroup,
                  RemoveGroup, RereadSubnets, EnterDelete, DeleteSubnet, EndCleanup, azure
    <3> QED
      BY <3>1, <3>2, <3>3 DEF StepOf
  <2>3. TablesExist'
    BY <1>2, <2>2 DEF TablesExist, Referred, vnet
  <2> QED
    BY <2>1, <2>3
<1>3. ASSUME NEW x \in Subnet, Writes(u, x), RemoveSubnet(x)
      PROVE  NoOverlap' /\ OwnRange' /\ TablesExist'
  BY <1>3 DEF Writes, RemoveSubnet, NoOverlap, OwnRange, TablesExist
<1>4. ASSUME NEW x \in Subnet, Writes(u, x), NEW nsg \in BOOLEAN, NEW table \in BOOLEAN,
             PutSubnet(x, nsg, table), ~Overlapped(x), x \in subnets \/ x[1] = u, table => x[1] \in tables
      PROVE  NoOverlap' /\ OwnRange' /\ TablesExist'
  <2>1. x[2] \in CidrsOf[u] /\ tables' = tables /\ subnets' = subnets \union {x}
    BY <1>4 DEF Writes, PutSubnet
  <2>2. NoOverlap'
    BY <1>4, <2>1 DEF NoOverlap, Overlapped
  <2>3. OwnRange'
    BY <1>4, <2>1 DEF OwnRange
  <2>4. TablesExist'
    BY <1>4, <2>1 DEF TablesExist, PutSubnet, With
  <2> QED
    BY <2>2, <2>3, <2>4
<1> QED
  BY <1>2, <1>3, <1>4, Written DEF Writes

(* What others' steps leave of a sandbox's commands.                        *)
LEMMA Others ==
  ASSUME IInv, NEW s \in Sandbox, NEW u \in Sandbox \ {s}, StepOf(u)
  PROVE  Quiet(s) /\ snap'[s] = snap[s]
<1>1. TypeOK
  BY DEF IInv
<1>2. Quiet(s)
  BY Quiet1, Quiet2, Quiet3, Quiet4 DEF StepOf
<1>3. CASE Deploy(u) \/ Release(u)
  BY <1>3, <1>2 DEF Deploy, Release
<1> QED
  BY <1>1, <1>2, <1>3, PrepareControl, RouteControl, CleanupControl DEF StepOf

LEMMA LoopsKept ==
  ASSUME IInv, OwnRange, NEW s \in Sandbox, NEW u \in Sandbox, Loops(s), StepOf(u)
  PROVE  Loops(s)'
<1> USE Commands, Distinct
<1>1. TypeOK /\ Local(s)
  BY DEF IInv
<1>2. /\ pc \in [Command -> Labels] /\ todo \in [Command -> SUBSET Cidr]
      /\ at \in [Command -> Cidr \union {NONE}] /\ R(s) \in Command /\ C(s) \in Command
  BY <1>1 DEF TypeOK
<1>3. (R(s))' = R(s) /\ (C(s))' = C(s) /\ R(s) # P(s) /\ C(s) # P(s) /\ R(s) # C(s)
  BY DEF R, C
<1>4. CASE u # s
  <2>1. Quiet(s)
    BY <1>4, Others
  <2> QED
    BY <1>3, <2>1 DEF Loops, Quiet
<1>5. CASE u = s /\ (StartPrepare(s) \/ PrepareStep(s))
  <2>1. /\ \A k \in {R(s), C(s)} : pc'[k] = pc[k] /\ todo'[k] = todo[k] /\ at'[k] = at[k]
        /\ tables' = tables
    BY <1>1, <1>3, <1>5, PrepareControl
  <2> QED
    BY <1>3, <2>1 DEF Loops
<1>6. CASE u = s /\ (Deploy(s) \/ Release(s))
  <2>1. UNCHANGED <<tables, pc, todo, at>>
    BY <1>6 DEF Deploy, Release, azure, loop
  <2> QED
    BY <1>3, <2>1 DEF Loops
<1>7. CASE u = s /\ (StartRoute(s) \/ RouteStep(s))
  <2>1. pc'[C(s)] = pc[C(s)] /\ todo'[C(s)] = todo[C(s)] /\ at'[C(s)] = at[C(s)] /\ tables \subseteq tables'
    BY <1>1, <1>3, <1>7, RouteControl
  <2>2. pc'[R(s)] \in {"lock", "get", "put"} => s \in tables'
    BY <1>2, <1>7, <2>1 DEF Loops, StartRoute, RouteStep, CreateTable, EnterRoute, Enter, GetSubnet, PutRoute,
       Retries, Abort, Unwinds, Leave, Returns, Raises, Goto
  <2> QED
    BY <1>3, <2>1, <2>2 DEF Loops
<1>8. CASE u = s /\ (StartCleanup(s) \/ CleanupStep(s))
  <2>1. pc'[R(s)] = pc[R(s)]
    BY <1>1, <1>3, <1>8, CleanupControl
  <2>2. Over(R(s))
    BY <1>1, <1>8 DEF Local, Phases, Over, StartCleanup, CleanupStep, ReadSubnets, FindSubnets, EnterDetach,
       Enter, DetachSubnet, DeleteGroup, RereadSubnets, EnterDelete, DeleteSubnet, EndCleanup
  <2>3. CidrsFound(s) \subseteq CidrsOf[s]
    BY DEF CidrsFound, OwnRange
  <2>4. /\ pc'[C(s)] \in {"detachLock", "detach", "deleteLock", "delete"} => todo'[C(s)] \subseteq CidrsOf[s]
        /\ pc'[C(s)] \in {"detach", "delete"} => at'[C(s)] \in CidrsOf[s]
    <3>1. CASE StartCleanup(s) \/ ReadSubnets(s) \/ RereadSubnets(s) \/ DeleteGroup(s) \/ EndCleanup(s)
      <4>1. pc'[C(s)] \notin {"detach", "delete"}
        BY <1>2, <3>1 DEF StartCleanup, ReadSubnets, RereadSubnets, FindSubnets, DeleteGroup, EndCleanup,
           Returns, Raises, Goto
      <4>2. pc'[C(s)] \in {"detachLock", "deleteLock"} => todo'[C(s)] = CidrsFound(s)
        BY <1>2, <3>1 DEF StartCleanup, ReadSubnets, RereadSubnets, FindSubnets, DeleteGroup, EndCleanup,
           Returns, Raises, Goto
      <4> QED
        BY <2>3, <4>1, <4>2
    <3>2. CASE EnterDetach(s) \/ EnterDelete(s)
      <4>1. /\ pc[C(s)] \in {"detachLock", "deleteLock"}
            /\ at'[C(s)] \in todo[C(s)] /\ todo'[C(s)] \subseteq todo[C(s)]
        BY <1>2, <3>2 DEF EnterDetach, EnterDelete, Enter
      <4> QED
        BY <4>1 DEF Loops
    <3>3. CASE DetachSubnet(s) \/ DeleteSubnet(s)
      <4>1. /\ pc[C(s)] \in {"detach", "delete"} /\ todo'[C(s)] \subseteq todo[C(s)]
            /\ pc'[C(s)] \notin {"detach", "delete"}
        BY <1>2, <3>3 DEF DetachSubnet, DeleteSubnet, Leave, Abort, Unwinds, Returns, Goto
      <4> QED
        BY <4>1 DEF Loops
    <3> QED
      BY <1>8, <3>1, <3>2, <3>3 DEF CleanupStep
  <2> QED
    BY <1>3, <2>1, <2>2, <2>4 DEF Loops, Over
<1> QED
  BY <1>4, <1>5, <1>6, <1>7, <1>8 DEF StepOf
-----------------------------------------------------------------------------
(* At most one subnet is stale: the one in the way.                         *)
LEMMA TheStaleOne ==
  ASSUME IInv, NoOverlap, NEW s \in Sandbox, Seen(s), pc[P(s)] = "stale"
  PROVE  \E y \in subnets : /\ y[1] # s /\ y[2] = at[P(s)] /\ Stale(s) = {y}
                            /\ \A x \in subnets : x[2] = at[P(s)] => x = y
                            /\ y \in snap[s].routed => y \in routed
<1>1. TypeOK /\ InTheWay /\ at[P(s)] \in CidrsOf[s]
  BY DEF IInv, Local, Preparing, AtSubnet
<1>2. PICK y \in subnets : y # <<s, at[P(s)]>> /\ y[2] = at[P(s)]
  BY <1>1 DEF InTheWay, Overlapped
<1>3. y[1] # s
  BY <1>1, <1>2 DEF TypeOK, Subnet
<1>4. y \in snap[s].subnets /\ (y \in snap[s].routed => y \in routed)
  BY <1>1, <1>2, <1>3 DEF Seen, HasRead, AtSubnet
<1>5. Stale(s) = {y}
  BY <1>2, <1>4 DEF Stale, Seen, HasRead, AtSubnet
<1> QED
  BY <1>2, <1>3, <1>4, <1>5 DEF NoOverlap

LEMMA SeenKept ==
  ASSUME IInv, NoOverlap, NEW s \in Sandbox, NEW u \in Sandbox, Loops(u), Seen(s), StepOf(u)
  PROVE  Seen(s)'
<1> USE Commands, Distinct
<1>1. TypeOK /\ Local(s) /\ P(s) \in Command /\ (P(s))' = P(s)
  BY DEF IInv, P
<1>2. ASSUME pc'[P(s)] \notin HasRead
      PROVE  Seen(s)'
  BY <1>1, <1>2 DEF Seen, HasRead, AtSubnet
<1>3. ASSUME pc[P(s)] \in HasRead
      PROVE  s \notin released /\ pc[P(s)] # "idle"
  BY <1>1, <1>3 DEF Local, Phases, HasRead, AtSubnet
<1>4. pc[P(s)] \in AtSubnet => at[P(s)] \in CidrsOf[s]
  BY <1>1 DEF Local, Preparing
<1>5. subnets \subseteq Subnet /\ subnets' \subseteq Subnet
  <2>1. TypeOK'
    BY PrepareTypes, RouteTypes, CleanupTypes, OtherTypes DEF StepOf
  <2> QED
    BY <1>1, <2>1 DEF TypeOK
<1>6. CASE u # s
  <2>1. /\ pc'[P(s)] = pc[P(s)] /\ at'[P(s)] = at[P(s)] /\ snap'[s] = snap[s]
    BY <1>6, Others DEF Quiet
  <2>2. CASE pc[P(s)] \in HasRead
    <3>1. \A y \in Subnet : y[2] \in CidrsOf[s] =>
            (y \in subnets' <=> y \in subnets) /\ (y \in routed' <=> y \in routed)
      BY <1>3, <1>6, <2>2, Apart
    <3>2. Stale(s)' = Stale(s)
      BY <1>1, <2>1 DEF Stale
    <3>3. \A x \in subnets' : x[1] # s /\ x[2] \in CidrsOf[s] =>
            x \in snap'[s].subnets /\ (x \in snap'[s].routed => x \in routed')
      BY <1>5, <2>1, <2>2, <3>1 DEF Seen
    <3>4. /\ pc'[P(s)] = "unstale" =>
               /\ \A x \in Stale(s)' : x[1] # s
               /\ \A x \in subnets' : x[2] = at'[P(s)] => x \in Stale(s)'
          /\ pc'[P(s)] = "recreate" => \A x \in subnets' : x[2] # at'[P(s)]
      BY <1>4, <1>5, <2>1, <3>1, <3>2 DEF Seen, AtSubnet
    <3> QED
      BY <1>1, <2>1, <2>2, <3>3, <3>4 DEF Seen
  <2> QED
    BY <1>2, <2>1, <2>2
<1>7. CASE u = s /\ (StartRoute(s) \/ RouteStep(s) \/ StartCleanup(s) \/ CleanupStep(s))
  <2>1. pc'[P(s)] = pc[P(s)]
    BY <1>1, <1>7, RouteControl, CleanupControl
  <2>2. pc[P(s)] \in {"done", "failed"}
    BY <1>1, <1>7 DEF Local, Phases, Over, StartRoute, RouteStep, CreateTable, EnterRoute, Enter, GetSubnet,
       PutRoute, StartCleanup, CleanupStep, ReadSubnets, FindSubnets, EnterDetach, DetachSubnet, DeleteGroup,
       RereadSubnets, EnterDelete, DeleteSubnet, EndCleanup
  <2> QED
    BY <1>2, <2>1, <2>2 DEF HasRead, AtSubnet
<1>8. CASE u = s /\ (Deploy(s) \/ Release(s))
  <2>1. UNCHANGED <<pc, at, snap, subnets, routed>>
    BY <1>8 DEF Deploy, Release, azure, vnet, loop
  <2>2. Stale(s)' = Stale(s)
    BY <1>1, <2>1 DEF Stale
  <2> QED
    BY <1>1, <2>1, <2>2 DEF Seen
<1>9. CASE u = s /\ (StartPrepare(s) \/ CreateGroup(s) \/ JoinPool(s))
  <2>1. pc'[P(s)] \in {"group", "vnet", "done", "failed"}
    BY <1>1, <1>9 DEF TypeOK, StartPrepare, CreateGroup, JoinPool, Returns, Raises, Goto
  <2> QED
    BY <1>2, <2>1 DEF HasRead, AtSubnet
<1>10. CASE u = s /\ ReadVnet(s)
  <2>1. /\ pc'[P(s)] \in {"nsg", "failed"} /\ UNCHANGED <<subnets, routed>>
        /\ snap'[s].subnets = subnets /\ snap'[s].routed = routed
    BY <1>1, <1>10 DEF TypeOK, ReadVnet, Returns, Raises, Goto, azure, vnet
  <2> QED
    BY <1>1, <1>2, <2>1 DEF Seen, NoOverlap
<1>11. CASE u = s /\ (CreateNsg(s) \/ CreateSubnetNsgRules(s) \/ EnterCreate(s))
  <2>1. /\ pc[P(s)] \in HasRead /\ pc'[P(s)] \in {"rules", "lock", "create", "failed"}
        /\ UNCHANGED <<subnets, routed, snap>>
    BY <1>1, <1>11 DEF TypeOK, CreateNsg, CreateSubnetNsgRules, EnterCreate, Enter, HasRead, Returns, Raises,
       Goto, azure, vnet
  <2> QED
    BY <1>1, <2>1 DEF Seen
<1>12. CASE u = s /\ CreateSubnet(s)
  <2>1. /\ pc[P(s)] \in HasRead /\ pc'[P(s)] \in {"lock", "join", "stale", "failed"} /\ snap' = snap
        /\ UNCHANGED vnet \/ PutSubnet(<<s, at[P(s)]>>, TRUE, FALSE)
    BY <1>1, <1>12 DEF TypeOK, CreateSubnet, Leave, Abort, Unwinds, HasRead, AtSubnet, Returns, Goto
  <2>2. \A x : x[1] # s => (x \in subnets' <=> x \in subnets) /\ (x \in routed' <=> x \in routed)
    BY <2>1 DEF vnet, PutSubnet, With
  <2> QED
    BY <1>1, <2>1, <2>2 DEF Seen
<1>13. CASE u = s /\ DetachStale(s)
  <2>1. pc[P(s)] = "stale" /\ snap' = snap
    BY <1>13 DEF DetachStale
  <2>2. PICK y \in subnets : /\ y[1] # s /\ y[2] = at[P(s)] /\ Stale(s) = {y}
                             /\ \A x \in subnets : x[2] = at[P(s)] => x = y
                             /\ y \in snap[s].routed => y \in routed
    BY <2>1, TheStaleOne
  <2>3. \/ pc'[P(s)] = "failed"
        \/ /\ pc'[P(s)] = "unstale" /\ at'[P(s)] = at[P(s)]
           /\ UNCHANGED vnet \/ PutSubnet(y, FALSE, y \in snap[s].routed)
    BY <1>1, <1>13, <2>2 DEF TypeOK, DetachStale, Abort, Unwinds, Returns, Raises, Goto, loop
  <2>4. CASE pc'[P(s)] = "unstale" /\ at'[P(s)] = at[P(s)]
             /\ (UNCHANGED vnet \/ PutSubnet(y, FALSE, y \in snap[s].routed))
    <3>1. subnets' = subnets /\ \A x \in subnets : x \in snap[s].routed /\ x \in routed => x \in routed'
      BY <2>2, <2>4 DEF vnet, PutSubnet, With
    <3>2. Stale(s)' = Stale(s)
      BY <1>1, <2>1, <2>4 DEF Stale
    <3>3. /\ \A x, z \in snap[s].subnets : x[2] = z[2] => x = z
          /\ \A x \in subnets : x[1] # s /\ x[2] \in CidrsOf[s] =>
               x \in snap[s].subnets /\ (x \in snap[s].routed => x \in routed)
      BY <2>1 DEF Seen, HasRead, AtSubnet
    <3>4. /\ \A x \in Stale(s) : x[1] # s
          /\ \A x \in subnets : x[2] = at[P(s)] => x \in Stale(s)
      BY <2>2
    <3> QED
      BY <1>1, <2>1, <2>4, <3>1, <3>2, <3>3, <3>4 DEF Seen
  <2>5. CASE pc'[P(s)] = "failed"
    BY <1>2, <2>5 DEF HasRead, AtSubnet
  <2> QED
    BY <2>3, <2>4, <2>5
<1>14. CASE u = s /\ DeleteStale(s)
  <2>1. pc[P(s)] = "unstale" /\ snap' = snap
    BY <1>14 DEF DeleteStale
  <2>2. \/ pc'[P(s)] = "failed"
        \/ /\ pc'[P(s)] = "recreate" /\ at'[P(s)] = at[P(s)]
           /\ \E x \in Stale(s) : RemoveSubnet(x)
    BY <1>1, <1>14 DEF TypeOK, DeleteStale, Abort, Unwinds, Returns, Raises, Goto, loop
  <2>3. ASSUME pc'[P(s)] = "recreate", at'[P(s)] = at[P(s)], NEW x \in Stale(s), RemoveSubnet(x)
        PROVE  Seen(s)'
    <3>1. /\ \A y, z \in snap[s].subnets : y[2] = z[2] => y = z
          /\ \A y \in subnets : y[1] # s /\ y[2] \in CidrsOf[s] =>
               y \in snap[s].subnets /\ (y \in snap[s].routed => y \in routed)
          /\ \A y \in subnets : y[2] = at[P(s)] => y \in Stale(s)
      BY <2>1 DEF Seen, HasRead, AtSubnet
    <3>2. subnets' = subnets \ {x} /\ routed' = routed \ {x}
      BY <2>3 DEF RemoveSubnet
    <3>3. \A y \in Stale(s) : y = x
      BY <3>1 DEF Stale
    <3>4. \A y \in subnets' : y[2] # at[P(s)]
      BY <3>1, <3>2, <3>3
    <3>5. \A y \in subnets' : y[1] # s /\ y[2] \in CidrsOf[s] =>
            y \in snap[s].subnets /\ (y \in snap[s].routed => y \in routed')
      BY <3>1, <3>2
    <3> QED
      BY <1>1, <2>1, <2>3, <3>1, <3>4, <3>5 DEF Seen
  <2>4. CASE pc'[P(s)] = "failed"
    BY <1>2, <2>4 DEF HasRead, AtSubnet
  <2> QED
    BY <2>2, <2>3, <2>4
<1> QED
  BY <1>6, <1>7, <1>8, <1>9, <1>10, <1>11, <1>12, <1>13, <1>14 DEF StepOf, PrepareStep
-----------------------------------------------------------------------------
(* Faults are only counted up.                                              *)
LEMMA FaultsGrow ==
  ASSUME TypeOK, NEW u \in Sandbox, StepOf(u)
  PROVE  faults \in Nat /\ (faults' = faults \/ Fault) /\ (faults' = 0 => faults = 0)
<1>1. faults \in Nat
  BY DEF TypeOK
<1>2. faults' = faults \/ Fault
  <2> USE DEF Returns, Raises
  <2>1. CASE StartPrepare(u) \/ CreateGroup(u) \/ ReadVnet(u) \/ CreateNsg(u) \/ CreateSubnetNsgRules(u)
             \/ EnterCreate(u) \/ JoinPool(u) \/ Deploy(u) \/ StartRoute(u) \/ Release(u)
    BY <2>1 DEF StartPrepare, CreateGroup, ReadVnet, CreateNsg, CreateSubnetNsgRules, EnterCreate, Enter,
       JoinPool, Deploy, StartRoute, Release
  <2>2. CASE CreateSubnet(u)
    BY <2>2 DEF CreateSubnet, Leave
  <2>3. CASE DetachStale(u) \/ DeleteStale(u)
    BY <2>3 DEF DetachStale, DeleteStale
  <2>4. CASE RouteStep(u)
    BY <2>4 DEF RouteStep, CreateTable, EnterRoute, Enter, GetSubnet, PutRoute, Retries, Leave
  <2>5. CASE StartCleanup(u) \/ ReadSubnets(u) \/ RereadSubnets(u) \/ EnterDetach(u) \/ EnterDelete(u)
             \/ DeleteGroup(u) \/ EndCleanup(u)
    BY <2>5 DEF StartCleanup, ReadSubnets, RereadSubnets, FindSubnets, EnterDetach, EnterDelete, Enter,
       DeleteGroup, EndCleanup
  <2>6. CASE DetachSubnet(u) \/ DeleteSubnet(u)
    BY <2>6 DEF DetachSubnet, DeleteSubnet, Leave
  <2> QED
    BY <2>1, <2>2, <2>3, <2>4, <2>5, <2>6 DEF StepOf, PrepareStep, CleanupStep
<1> QED
  BY <1>1, <1>2 DEF Fault

LEMMA DetachingOwn ==
  ASSUME IInv, NoOverlap, OwnRange, NEW s \in Sandbox, Detaching(s), StartCleanup(s) \/ CleanupStep(s)
  PROVE  Detaching(s)'
<1> USE Commands
<1>1. TypeOK /\ Local(s) /\ C(s) \in Command /\ (C(s))' = C(s) /\ (P(s))' = P(s) /\ C(s) # P(s)
  BY Distinct DEF IInv, P, C
<1>2. /\ pc \in [Command -> Labels] /\ todo \in [Command -> SUBSET Cidr]
      /\ at \in [Command -> Cidr \union {NONE}] /\ errors \in [Sandbox -> BOOLEAN] /\ faults \in Nat
      /\ secured \subseteq subnets /\ routed \subseteq subnets /\ subnets \subseteq Subnet
  BY <1>1 DEF TypeOK
<1>3. faults' = 0 => faults = 0
  BY <1>1, FaultsGrow DEF StepOf
<1> SUFFICES ASSUME faults' = 0
             PROVE  Detaching(s)'
  BY DEF Detaching
<1>4. /\ faults = 0 /\ ~Fault /\ ~errors[s] /\ pc[C(s)] # "failed"
      /\ pc[C(s)] \in {"read", "detachLock", "detach", "deleteGroup"} => s \in groups
  BY <1>2, <1>3 DEF Detaching, Fault
<1>5. CASE StartCleanup(s)
  <2>1. pc[C(s)] = "idle" /\ pc[P(s)] \in {"done", "failed"} /\ pc'[C(s)] = "read"
        /\ UNCHANGED <<groups, errors>>
    BY <1>2, <1>4, <1>5 DEF StartCleanup, Returns, Goto, azure
  <2>2. s \in groups
    BY <1>4, <2>1 DEF Detaching
  <2> QED
    BY <1>1, <1>4, <2>1, <2>2 DEF Detaching
<1>6. CASE ReadSubnets(s)
  <2>1. /\ pc[C(s)] = "read" /\ todo'[C(s)] = CidrsFound(s)
        /\ pc'[C(s)] = IF CidrsFound(s) = {} THEN "deleteGroup" ELSE "detachLock"
        /\ UNCHANGED <<groups, errors, subnets, secured, routed>>
    BY <1>2, <1>4, <1>6 DEF ReadSubnets, FindSubnets, Returns, Raises, Goto, azure, vnet
  <2>2. \A c \in CidrsFound(s) : <<s, c>> \in subnets
    BY DEF CidrsFound
  <2>3. \A x \in secured \union routed : x[1] = s => x[2] \in CidrsFound(s)
    <3>1. \A x \in subnets : x = <<x[1], x[2]>> /\ x[2] \in Cidr
      BY <1>2 DEF Subnet
    <3> QED
      BY <1>2, <3>1 DEF CidrsFound
  <2> QED
    BY <1>1, <1>4, <2>1, <2>2, <2>3 DEF Detaching
<1>7. CASE EnterDetach(s)
  <2>1. /\ pc[C(s)] = "detachLock" /\ pc'[C(s)] = "detach" /\ at'[C(s)] \in todo[C(s)]
        /\ todo'[C(s)] = todo[C(s)] \ {at'[C(s)]}
        /\ UNCHANGED <<groups, errors, subnets, secured, routed>>
    BY <1>2, <1>7 DEF EnterDetach, Enter, Returns, Goto, azure, vnet
  <2> QED
    BY <1>1, <1>4, <2>1 DEF Detaching
<1>8. CASE DetachSubnet(s)
  <2> DEFINE x == <<s, at[C(s)]>>
  <2>1. pc[C(s)] = "detach" /\ x \in subnets /\ ~Overlapped(x)
    BY <1>4, <1>8 DEF DetachSubnet, Detaching, NoOverlap, Overlapped
  <2>2. /\ PutSubnet(x, FALSE, FALSE) /\ UNCHANGED <<groups, errors>>
        /\ todo' = todo /\ pc'[C(s)] = IF todo[C(s)] = {} THEN "deleteGroup" ELSE "detachLock"
    BY <1>2, <1>4, <1>8, <2>1 DEF DetachSubnet, PutRefused, Leave, Returns, Goto
  <2>3. /\ subnets' = subnets /\ secured' = secured \ {x} /\ routed' = routed \ {x}
    BY <2>1, <2>2 DEF PutSubnet, With
  <2>4. \A y \in secured' \union routed' : y[1] = s => y[2] \in todo[C(s)]
    <3>1. \A y \in subnets : y[1] = s /\ y[2] = at[C(s)] => y = x
      BY <1>2 DEF Subnet
    <3>2. \A y \in secured \union routed : y[1] = s => y[2] \in todo[C(s)] \/ y[2] = at[C(s)]
      BY <1>4, <2>1 DEF Detaching
    <3> QED
      BY <1>2, <2>3, <3>1, <3>2
  <2>5. \A c \in todo[C(s)] : <<s, c>> \in subnets
    BY <1>4, <2>1 DEF Detaching
  <2> HIDE DEF x
  <2> QED
    BY <1>1, <1>4, <2>1, <2>2, <2>3, <2>4, <2>5 DEF Detaching
<1>9. CASE DeleteGroup(s)
  <2>1. pc[C(s)] = "deleteGroup" /\ s \in groups /\ ~Referred(s)
    BY <1>4, <1>9 DEF DeleteGroup, Detaching, Referred
  <2>2. pc'[C(s)] = "reread" /\ UNCHANGED errors
    BY <1>2, <1>4, <1>9, <2>1 DEF DeleteGroup, Returns, Raises, Goto
  <2> QED
    BY <1>1, <1>4, <2>2 DEF Detaching
<1>10. CASE RereadSubnets(s) \/ EnterDelete(s)
  <2>1. pc'[C(s)] \in {"deleteLock", "end", "delete"} /\ UNCHANGED errors
    BY <1>2, <1>4, <1>10 DEF RereadSubnets, FindSubnets, EnterDelete, Enter, Returns, Raises, Goto
  <2> QED
    BY <1>1, <1>4, <2>1 DEF Detaching
<1>11. CASE DeleteSubnet(s)
  <2>1. <<s, at[C(s)]>> \notin nics
    BY <1>1, <1>4, <1>11 DEF DeleteSubnet, Local, CleaningUp, AfterGroup, NoGroup
  <2>2. pc'[C(s)] \in {"deleteLock", "end"} /\ UNCHANGED errors
    BY <1>2, <1>4, <1>11, <2>1 DEF DeleteSubnet, Leave, Returns, Goto
  <2> QED
    BY <1>1, <1>4, <2>2 DEF Detaching
<1>12. CASE EndCleanup(s)
  <2>1. pc'[C(s)] = "done" /\ ~errors'[s]
    BY <1>2, <1>4, <1>12 DEF EndCleanup, Returns, Goto
  <2> QED
    BY <1>1, <2>1 DEF Detaching
<1> QED
  BY <1>5, <1>6, <1>7, <1>8, <1>9, <1>10, <1>11, <1>12 DEF CleanupStep

(* Before the clean-up, calls that are answered leave the group in place.   *)
LEMMA DetachingBefore ==
  ASSUME IInv, NEW s \in Sandbox, Detaching(s),
         StartPrepare(s) \/ PrepareStep(s) \/ StartRoute(s) \/ RouteStep(s)
  PROVE  Detaching(s)'
<1> USE Commands
<1>1. /\ TypeOK /\ Local(s) /\ P(s) \in Command /\ C(s) # P(s) /\ C(s) # R(s) /\ P(s) # R(s)
      /\ (C(s))' = C(s) /\ (P(s))' = P(s) /\ faults \in Nat /\ pc \in [Command -> Labels]
  <2>1. TypeOK /\ Local(s)
    BY DEF IInv
  <2>2. (C(s))' = C(s) /\ (P(s))' = P(s)
    BY DEF P, C
  <2> QED
    BY <2>1, <2>2, Distinct DEF TypeOK
<1>2. /\ pc[C(s)] = "idle" /\ pc'[C(s)] = "idle" /\ errors' = errors /\ groups \subseteq groups'
  <2>1. pc[C(s)] = "idle"
    BY <1>1 DEF StartPrepare, PrepareStep, CreateGroup, ReadVnet, CreateNsg, CreateSubnetNsgRules,
       EnterCreate, Enter, CreateSubnet, DetachStale, DeleteStale, JoinPool, StartRoute, RouteStep, CreateTable,
       EnterRoute, GetSubnet, PutRoute, Local, Phases, Over
  <2> QED
    BY <1>1, <2>1, PrepareControl, RouteControl
<1>3. ASSUME faults' = 0, pc'[P(s)] \notin {"idle", "group"}
      PROVE  faults = 0 /\ s \in groups'
  <2>1. CASE StartRoute(s) \/ RouteStep(s)
    <3>1. pc'[P(s)] = pc[P(s)] /\ (faults' = faults \/ faults' = faults + 1)
      BY <1>1, <2>1, RouteControl DEF StartRoute, RouteStep, CreateTable, EnterRoute, Enter, GetSubnet, PutRoute,
         Leave, Retries, Returns, Raises, Fault
    <3> QED
      BY <1>1, <1>2, <1>3, <3>1 DEF Detaching
  <2>2. CASE StartPrepare(s)
    BY <1>1, <1>3, <2>2 DEF StartPrepare, Returns, Goto
  <2>3. CASE CreateGroup(s)
    BY <1>1, <1>3, <2>3 DEF CreateGroup, Returns, Raises, Fault
  <2>4. CASE ReadVnet(s) \/ CreateNsg(s) \/ CreateSubnetNsgRules(s) \/ EnterCreate(s) \/ CreateSubnet(s)
             \/ DetachStale(s) \/ DeleteStale(s) \/ JoinPool(s)
    <3>1. pc[P(s)] \notin {"idle", "group"} /\ (faults' = faults \/ faults' = faults + 1)
      BY <2>4 DEF ReadVnet, CreateNsg, CreateSubnetNsgRules, EnterCreate, Enter, CreateSubnet, Leave,
         DetachStale, DeleteStale, JoinPool, Returns, Raises, Fault
    <3> QED
      BY <1>1, <1>2, <1>3, <3>1 DEF Detaching
  <2> QED
    BY <2>1, <2>2, <2>3, <2>4 DEF PrepareStep
<1>4. faults' = 0 => faults = 0
  BY <1>1, FaultsGrow DEF StepOf
<1> QED
  BY <1>1, <1>2, <1>3, <1>4 DEF Detaching

LEMMA DetachingKept ==
  ASSUME IInv, NoOverlap, OwnRange, OwnRange', NEW s \in Sandbox, NEW u \in Sandbox, Loops(u), Detaching(s), StepOf(u)
  PROVE  Detaching(s)'
<1> USE Commands
<1>1. TypeOK /\ Local(s) /\ (C(s))' = C(s) /\ (P(s))' = P(s)
  BY DEF IInv, P, C
<1>2. CASE u = s /\ (Deploy(s) \/ Release(s))
  <2>1. UNCHANGED <<groups, subnets, secured, routed, pc, todo, at, errors, faults>>
    BY <1>2 DEF Deploy, Release, azure, vnet, loop
  <2> QED
    BY <1>1, <2>1 DEF Detaching
<1>3. CASE u # s
  <2>1. /\ pc'[P(s)] = pc[P(s)] /\ pc'[C(s)] = pc[C(s)] /\ todo'[C(s)] = todo[C(s)] /\ at'[C(s)] = at[C(s)]
        /\ errors'[s] = errors[s] /\ (s \in groups' <=> s \in groups)
    BY <1>3, Others DEF Quiet
  <2>2. faults' = 0 => faults = 0
    BY <1>1, FaultsGrow
  <2>3. CASE pc[C(s)] \in {"detachLock", "detach", "deleteGroup"}
    <3>1. s \notin released /\ pc[P(s)] # "idle"
      BY <1>1, <2>3 DEF Local, Phases
    <3>2. \A y \in Subnet : y[2] \in CidrsOf[s] =>
            /\ y \in subnets' <=> y \in subnets
            /\ y \in secured' <=> y \in secured
            /\ y \in routed' <=> y \in routed
      BY <1>3, <3>1, Apart
    <3>3. TypeOK'
      BY PrepareTypes, RouteTypes, CleanupTypes, OtherTypes DEF StepOf
    <3>4. \A x \in secured' \union routed' : x[1] = s => x \in secured \union routed
      <4>1. \A x \in secured' \union routed' : x \in Subnet /\ x[2] \in CidrsOf[x[1]]
        BY <3>3 DEF TypeOK, OwnRange
      <4> QED
        BY <3>2, <4>1
    <3>5. \A c : <<s, c>> \in subnets => <<s, c>> \in subnets'
      <4>1. ASSUME NEW c, <<s, c>> \in subnets
            PROVE  <<s, c>> \in Subnet /\ <<s, c>>[2] \in CidrsOf[s]
        BY <1>1, <4>1 DEF TypeOK, OwnRange
      <4> QED
        BY <3>2, <4>1
    <3> QED
      BY <1>1, <2>1, <2>2, <3>4, <3>5 DEF Detaching
  <2>4. CASE pc[C(s)] \notin {"detachLock", "detach", "deleteGroup"}
    BY <1>1, <2>1, <2>2, <2>4 DEF Detaching
  <2> QED
    BY <2>3, <2>4
<1> QED
  BY <1>2, <1>3, DetachingOwn, DetachingBefore DEF StepOf

LEMMA NetInitially == Init => NetInv
<1> SUFFICES ASSUME Init PROVE NetInv
  OBVIOUS
<1> USE Commands
<1>1. PICK l \in Leftovers : subnets = l /\ \A x \in l : x[2] \in CidrsOf[x[1]]
  BY DEF Init
<1>2. NoOverlap /\ OwnRange /\ TablesExist
  BY <1>1 DEF Init, Leftovers, NoOverlap, OwnRange, TablesExist
<1>3. ASSUME NEW s \in Sandbox
      PROVE  Loops(s) /\ Seen(s) /\ Detaching(s)
  BY DEF Init, Loops, Seen, HasRead, AtSubnet, Detaching
<1> QED
  BY <1>2, <1>3 DEF NetInv

LEMMA NetInductive == IInv /\ NetInv /\ [Next]_vars => NetInv'
<1> SUFFICES ASSUME IInv, NetInv, [Next]_vars PROVE NetInv'
  OBVIOUS
<1>1. CASE UNCHANGED vars
  <2>1. UNCHANGED <<groups, tables, subnets, secured, routed, pc, todo, at, snap, errors, faults>>
    BY <1>1 DEF vars, azure, vnet, loop
  <2>2. NoOverlap' /\ OwnRange' /\ TablesExist'
    BY <2>1 DEF NetInv, NoOverlap, OwnRange, TablesExist
  <2>3. ASSUME NEW s \in Sandbox
        PROVE  Loops(s)' /\ Seen(s)' /\ Detaching(s)'
    <3>1. (P(s))' = P(s) /\ (R(s))' = R(s) /\ (C(s))' = C(s)
      BY DEF P, R, C
    <3>2. Stale(s)' = Stale(s)
      BY <2>1, <3>1 DEF Stale
    <3>3. Loops(s)'
      BY <2>1, <3>1 DEF NetInv, Loops
    <3>4. Seen(s)'
      BY <2>1, <3>1, <3>2 DEF NetInv, Seen
    <3>5. Detaching(s)'
      BY <2>1, <3>1 DEF NetInv, Detaching
    <3> QED
      BY <3>3, <3>4, <3>5
  <2> QED
    BY <2>2, <2>3 DEF NetInv
<1>2. ASSUME NEW u \in Sandbox, StepOf(u)
      PROVE  NetInv'
  <2>1. NoOverlap' /\ OwnRange' /\ TablesExist'
    BY <1>2, NetworkKept DEF NetInv
  <2>2. ASSUME NEW s \in Sandbox
        PROVE  Loops(s)' /\ Seen(s)' /\ Detaching(s)'
    BY <1>2, <2>1, LoopsKept, SeenKept, DetachingKept DEF NetInv
  <2> QED
    BY <2>1, <2>2 DEF NetInv
<1> QED
  BY <1>1, <1>2 DEF Next, StepOf

LEMMA NetInvariance == Spec => []IInv /\ []NetInv
BY Initially, Inductive, NetInitially, NetInductive, PTL DEF Spec

(* For any sandboxes that share ranges in turn, if every call is answered,  *)
(* Azure refuses nothing that a clean-up asks for: what must go first is    *)
(* gone, and what refers to the sandbox's group has been detached from it.  *)
THEOREM NeverRefused == Spec => []CleanupNeverRefused
<1>1. NetInv => CleanupNeverRefused
  BY DEF NetInv, Detaching, CleanupNeverRefused
<1> QED
  BY <1>1, NetInvariance, PTL

(* What earlier sandboxes left makes no preparation fail, but for a stale   *)
(* subnet that still has interfaces.                                        *)
THEOREM Reclaims == Spec => StaleReclaimed
<1>1. ASSUME IInv, NetInv, [Next]_vars
      PROVE  [\A s \in Sandbox : pc[P(s)] # "failed" /\ pc'[P(s)] = "failed" /\ faults' = faults =>
                \E x \in nics : x[1] # s /\ x[2] = at[P(s)]]_vars
  <2> SUFFICES ASSUME NEW s \in Sandbox, pc[P(s)] # "failed", pc'[P(s)] = "failed", faults' = faults
               PROVE  \E x \in nics : x[1] # s /\ x[2] = at[P(s)]
    OBVIOUS
  <2> USE Commands, Distinct
  <2>1. /\ TypeOK /\ Local(s) /\ faults \in Nat /\ pc \in [Command -> Labels]
        /\ NoOverlap /\ TablesExist /\ Seen(s)
    BY <1>1 DEF IInv, NetInv, TypeOK
  <2>2. PICK u \in Sandbox : StepOf(u)
    BY <1>1 DEF vars, Next, StepOf
  <2>3. u = s /\ (StartPrepare(s) \/ PrepareStep(s))
    <3>1. u = s
      BY <1>1, <2>2, Others DEF Quiet
    <3>2. ~(StartRoute(s) \/ RouteStep(s) \/ StartCleanup(s) \/ CleanupStep(s))
      BY <2>1, RouteControl, CleanupControl
    <3> QED
      BY <2>2, <3>1, <3>2 DEF StepOf, Deploy, Release
  <2>4. ~Fault
    BY <2>1 DEF Fault
  <2>5. pc[P(s)] \in AtSubnet => s \in nsgs /\ pc[C(s)] = "idle"
    BY <2>1 DEF Local, Phases, Preparing, WithNsg, AtSubnet
  <2>6. CASE CreateSubnet(s)
    <3>1. pc[P(s)] \in {"create", "recreate"} /\ PutRefused(<<s, at[P(s)]>>, TRUE, FALSE)
          /\ ~(Overlapped(<<s, at[P(s)]>>) /\ pc[P(s)] = "create")
      BY <2>1, <2>4, <2>6 DEF CreateSubnet, Leave, Returns, Goto
    <3>2. Overlapped(<<s, at[P(s)]>>) /\ pc[P(s)] = "recreate"
      BY <2>5, <3>1 DEF PutRefused, AtSubnet
    <3> QED
      BY <2>1, <3>2 DEF Seen, Overlapped
  <2>7. CASE DetachStale(s)
    <3>1. pc[P(s)] = "stale"
          /\ \E x \in Stale(s) : PutRefused(x, FALSE, x \in snap[s].routed)
      BY <2>1, <2>4, <2>7 DEF DetachStale, Returns, Goto
    <3>2. PICK y \in subnets : Stale(s) = {y} /\ (y \in snap[s].routed => y \in routed)
      BY <1>1, <2>1, <3>1, TheStaleOne
    <3>3. Overlapped(y) \/ (y \in snap[s].routed /\ y[1] \notin tables)
      BY <3>1, <3>2 DEF PutRefused
    <3> QED
      BY <2>1, <3>2, <3>3 DEF NoOverlap, Overlapped, TablesExist
  <2>8. CASE DeleteStale(s)
    <3>1. pc[P(s)] = "unstale" /\ \E x \in Stale(s) : x \in nics
      BY <2>1, <2>4, <2>8 DEF DeleteStale, Returns, Goto
    <3> QED
      BY <2>1, <3>1 DEF Seen, Stale
  <2>9. CASE StartPrepare(s) \/ CreateGroup(s) \/ ReadVnet(s) \/ CreateNsg(s) \/ CreateSubnetNsgRules(s)
             \/ EnterCreate(s) \/ JoinPool(s)
    BY <2>1, <2>4, <2>9 DEF StartPrepare, CreateGroup, ReadVnet, CreateNsg, CreateSubnetNsgRules, EnterCreate,
       Enter, JoinPool, Returns, Raises, Goto
  <2> QED
    BY <2>3, <2>6, <2>7, <2>8, <2>9 DEF PrepareStep
<1> QED
  BY <1>1, NetInvariance, PTL DEF Spec, StaleReclaimed
============================================================================
