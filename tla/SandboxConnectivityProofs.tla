-------------------- MODULE SandboxConnectivityProofs --------------------
(***************************************************************************)
(* Calls that write subnets are serialised by subnet_locker, for any        *)
(* sandboxes, address ranges and faults.                                    *)
(***************************************************************************)
EXTENDS SandboxConnectivity, TLAPS

(* Whoever is inside a call that writes a subnet is the locker, and nobody  *)
(* else is.                                                                *)
LockInv ==
  /\ pc \in [Command -> Labels]
  /\ \A k \in Command : pc[k] \in SubnetCall <=> locker = k

(* The ids of commands.                                                    *)
LEMMA Commands ==
  ASSUME NEW s \in Sandbox
  PROVE  P(s) \in Command /\ R(s) \in Command /\ C(s) \in Command
BY DEF P, R, C, Command

(* A step of a command outside the lock that stays outside.                *)
LEMMA StaysOut ==
  ASSUME LockInv, NEW k \in Command, NEW l \in Labels \ SubnetCall,
         pc[k] \notin SubnetCall, Goto(k, l), locker' = locker
  PROVE  LockInv'
BY DEF LockInv, Goto

(* A step of the locker inside the lock.                                   *)
LEMMA StaysIn ==
  ASSUME LockInv, NEW k \in Command, NEW l \in SubnetCall,
         pc[k] \in SubnetCall, Goto(k, l), locker' = locker
  PROVE  LockInv'
BY DEF LockInv, Goto, SubnetCall, Labels

(* The lock is taken: it was free, so nobody was inside.                   *)
LEMMA Enters ==
  ASSUME LockInv, NEW k \in Command, NEW from, NEW l \in SubnetCall, Enter(k, from, l)
  PROVE  LockInv'
<1>1. \A j \in Command : pc[j] \notin SubnetCall
  BY SandboxesAssumption DEF LockInv, Enter
<1> QED
  BY <1>1 DEF LockInv, Enter, Returns, Goto, SubnetCall, Labels

(* The lock is given back by the command that has it.                      *)
LEMMA Frees ==
  ASSUME LockInv, NEW k \in Command, NEW l \in Labels \ SubnetCall,
         pc[k] \in SubnetCall, Goto(k, l), locker' = NONE
  PROVE  LockInv'
BY SandboxesAssumption DEF LockInv, Goto

(* Both ends of the with statement give it back.                           *)
LEMMA Leaves ==
  ASSUME LockInv, NEW k \in Command,
         NEW l \in Labels \ SubnetCall, NEW m \in Labels \ SubnetCall,
         pc[k] \in SubnetCall, Leave(k, l, m) \/ Abort(k, l)
  PROVE  LockInv'
<1>1. CASE Leave(k, l, m)
  <2>1. CASE todo[k] = {}
    BY <1>1, <2>1, Frees DEF Leave, Returns
  <2>2. CASE todo[k] # {}
    BY <1>1, <2>2, Frees DEF Leave, Returns
  <2> QED BY <2>1, <2>2
<1>2. CASE Abort(k, l)
  BY <1>2, Frees DEF Abort, Unwinds
<1> QED BY <1>1, <1>2

(* prepare_connectivity.                                                   *)
LEMMA PrepareKeepsLock ==
  ASSUME LockInv, NEW s \in Sandbox, StartPrepare(s) \/ PrepareStep(s)
  PROVE  LockInv'
<1> USE Commands
<1>1. CASE StartPrepare(s)
  BY <1>1, StaysOut DEF StartPrepare, Over, Returns, Labels, SubnetCall
<1>2. CASE CreateGroup(s)
  BY <1>2, StaysOut DEF CreateGroup, Returns, Raises, Labels, SubnetCall
<1>3. CASE ReadVnet(s)
  BY <1>3, StaysOut DEF ReadVnet, Returns, Raises, Labels, SubnetCall
<1>4. CASE CreateNsg(s)
  BY <1>4, StaysOut DEF CreateNsg, Returns, Raises, Labels, SubnetCall
<1>5. CASE CreateSubnetNsgRules(s)
  BY <1>5, StaysOut DEF CreateSubnetNsgRules, Returns, Raises, Labels, SubnetCall
<1>6. CASE EnterCreate(s)
  BY <1>6, Enters DEF EnterCreate, SubnetCall
<1>7. CASE CreateSubnet(s)
  <2>1. pc[P(s)] \in SubnetCall
    BY <1>7 DEF CreateSubnet, SubnetCall
  <2>2. \/ Leave(P(s), "lock", "join")
        \/ Returns(P(s), "stale") /\ locker' = locker
        \/ Abort(P(s), "failed")
    BY <1>7 DEF CreateSubnet
  <2> QED
    BY <2>1, <2>2, Leaves, StaysIn DEF Returns, Labels, SubnetCall
<1>8. CASE DetachStale(s)
  <2>1. pc[P(s)] \in SubnetCall
    BY <1>8 DEF DetachStale, SubnetCall
  <2>2. \/ Returns(P(s), "recreate") /\ locker' = locker
        \/ Returns(P(s), "unstale") /\ locker' = locker
        \/ Abort(P(s), "failed")
    BY <1>8 DEF DetachStale
  <2> QED
    BY <2>1, <2>2, Leaves, StaysIn DEF Returns, Labels, SubnetCall
<1>9. CASE DeleteStale(s)
  <2>1. pc[P(s)] \in SubnetCall
    BY <1>9 DEF DeleteStale, SubnetCall
  <2>2. \/ Returns(P(s), "recreate") /\ locker' = locker
        \/ Abort(P(s), "failed")
    BY <1>9 DEF DeleteStale
  <2> QED
    BY <2>1, <2>2, Leaves, StaysIn DEF Returns, Labels, SubnetCall
<1>10. CASE JoinPool(s)
  BY <1>10, StaysOut DEF JoinPool, Returns, Raises, Labels, SubnetCall
<1> QED
  BY <1>1, <1>2, <1>3, <1>4, <1>5, <1>6, <1>7, <1>8, <1>9, <1>10 DEF PrepareStep

(* create_route_table.                                                     *)
LEMMA RouteKeepsLock ==
  ASSUME LockInv, NEW s \in Sandbox, StartRoute(s) \/ RouteStep(s)
  PROVE  LockInv'
<1> USE Commands
<1>1. CASE StartRoute(s)
  BY <1>1, StaysOut DEF StartRoute, Over, Returns, Labels, SubnetCall
<1>2. CASE CreateTable(s)
  BY <1>2, StaysOut DEF CreateTable, Returns, Raises, Labels, SubnetCall
<1>3. CASE EnterRoute(s)
  BY <1>3, Enters DEF EnterRoute, SubnetCall
<1>4. CASE GetSubnet(s)
  <2>1. pc[R(s)] \in SubnetCall
    BY <1>4 DEF GetSubnet, SubnetCall
  <2>2. \/ Returns(R(s), "put") /\ locker' = locker
        \/ Abort(R(s), "table") \/ Abort(R(s), "failed")
    BY <1>4 DEF GetSubnet, Retries
  <2> QED
    BY <2>1, <2>2, Leaves, StaysIn DEF Returns, Labels, SubnetCall
<1>5. CASE PutRoute(s)
  <2>1. pc[R(s)] \in SubnetCall
    BY <1>5 DEF PutRoute, SubnetCall
  <2>2. \/ Leave(R(s), "lock", "done")
        \/ Returns(R(s), "get") /\ locker' = locker
        \/ Abort(R(s), "table") \/ Abort(R(s), "failed")
    BY <1>5 DEF PutRoute, Retries
  <2> QED
    BY <2>1, <2>2, Leaves, StaysIn DEF Returns, Labels, SubnetCall
<1> QED
  BY <1>1, <1>2, <1>3, <1>4, <1>5 DEF RouteStep

(* cleanup_connectivity.                                                   *)
LEMMA CleanupKeepsLock ==
  ASSUME LockInv, NEW s \in Sandbox, StartCleanup(s) \/ CleanupStep(s)
  PROVE  LockInv'
<1> USE Commands
<1>1. CASE StartCleanup(s)
  BY <1>1, StaysOut DEF StartCleanup, Returns, Labels, SubnetCall
<1>2. CASE ReadSubnets(s)
  <2>1. pc[C(s)] = "read" /\ locker' = locker
        /\ (Goto(C(s), "detachLock") \/ Goto(C(s), "deleteGroup"))
    BY <1>2 DEF ReadSubnets, FindSubnets, Returns, Raises
  <2> QED
    BY <2>1, StaysOut DEF Labels, SubnetCall
<1>3. CASE EnterDetach(s)
  BY <1>3, Enters DEF EnterDetach, SubnetCall
<1>4. CASE DetachSubnet(s)
  <2>1. pc[C(s)] \in SubnetCall
    BY <1>4 DEF DetachSubnet, SubnetCall
  <2>2. Leave(C(s), "detachLock", "deleteGroup") \/ Abort(C(s), "deleteGroup")
    BY <1>4 DEF DetachSubnet
  <2> QED
    BY <2>1, <2>2, Leaves DEF Labels, SubnetCall
<1>5. CASE DeleteGroup(s)
  BY <1>5, StaysOut DEF DeleteGroup, Returns, Raises, Labels, SubnetCall
<1>6. CASE RereadSubnets(s)
  <2>1. pc[C(s)] = "reread" /\ locker' = locker
        /\ (Goto(C(s), "deleteLock") \/ Goto(C(s), "end"))
    BY <1>6 DEF RereadSubnets, FindSubnets, Returns, Raises
  <2> QED
    BY <2>1, StaysOut DEF Labels, SubnetCall
<1>7. CASE EnterDelete(s)
  BY <1>7, Enters DEF EnterDelete, SubnetCall
<1>8. CASE DeleteSubnet(s)
  <2>1. pc[C(s)] \in SubnetCall
    BY <1>8 DEF DeleteSubnet, SubnetCall
  <2>2. Leave(C(s), "deleteLock", "end") \/ Abort(C(s), "end")
    BY <1>8 DEF DeleteSubnet
  <2> QED
    BY <2>1, <2>2, Leaves DEF Labels, SubnetCall
<1>9. CASE EndCleanup(s)
  <2>1. pc[C(s)] = "end" /\ locker' = locker
        /\ (Goto(C(s), "failed") \/ Goto(C(s), "done"))
    BY <1>9 DEF EndCleanup, Returns
  <2> QED
    BY <2>1, StaysOut DEF Labels, SubnetCall
<1> QED
  BY <1>1, <1>2, <1>3, <1>4, <1>5, <1>6, <1>7, <1>8, <1>9 DEF CleanupStep

LEMMA LockInitially == Init => LockInv
BY SandboxesAssumption DEF Init, LockInv, Labels, SubnetCall

LEMMA LockKept == LockInv /\ [Next]_vars => LockInv'
<1> SUFFICES ASSUME LockInv, [Next]_vars PROVE LockInv'
  OBVIOUS
<1>1. CASE UNCHANGED vars
  BY <1>1 DEF LockInv, vars
<1>2. CASE Next
  <2> PICK s \in Sandbox :
        \/ StartPrepare(s) \/ PrepareStep(s) \/ Deploy(s) \/ StartRoute(s) \/ RouteStep(s)
        \/ StartCleanup(s) \/ CleanupStep(s) \/ Release(s)
    BY <1>2 DEF Next
  <2>1. CASE StartPrepare(s) \/ PrepareStep(s)
    BY <2>1, PrepareKeepsLock
  <2>2. CASE StartRoute(s) \/ RouteStep(s)
    BY <2>2, RouteKeepsLock
  <2>3. CASE StartCleanup(s) \/ CleanupStep(s)
    BY <2>3, CleanupKeepsLock
  <2>4. CASE Deploy(s) \/ Release(s)
    BY <2>4 DEF LockInv, Deploy, Release
  <2> QED
    BY <2>1, <2>2, <2>3, <2>4
<1> QED BY <1>1, <1>2

(* For any number of sandboxes, preparations, route commands and clean-ups  *)
(* write the subnets of the virtual network one call at a time.             *)
THEOREM Serialised == Spec => []SubnetCallsSerialised
<1>1. LockInv => SubnetCallsSerialised
  BY DEF LockInv, SubnetCallsSerialised, InSubnetCall
<1> QED
  BY <1>1, LockInitially, LockKept, PTL DEF Spec
==========================================================================
