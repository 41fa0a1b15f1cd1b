-------------------------- MODULE MCSecurityGroup --------------------------
(* Instances of SecurityGroup for TLC, and the priority generator against   *)
(* its loop.                                                                *)
EXTENDS SecurityGroup

CONSTANTS group_lock, subnet_locker, app, custom_0, custom_1, mgmt, subnet

MCJob(start, names) ==
  [start |-> start, names |-> names, ends |-> {}, lock |-> group_lock, custom |-> FALSE]
MCCustom(names, ends) == [MCJob(1000, names) EXCEPT !.ends = ends, !.custom = TRUE]

(* The inbound rules of a deployment in the sandbox's group, and in the       *)
(* machine's own, where they have no names; the custom rules of a machine,    *)
(* two for one network configuration, one for each of two, and a single one;   *)
(* and the rules of the subnets, for which the preparation passes             *)
(* subnet_locker, in a band of their own.                                    *)
MCJobs ==
  {MCJob(1000, <<app>>), MCJob(1000, <<NONE, NONE>>),
   MCCustom(<<custom_0, custom_1>>, {}), MCCustom(<<custom_0, custom_1>>, {1}),
   MCCustom(<<custom_0>>, {}),
   [MCJob(1110, <<subnet, mgmt>>) EXCEPT !.lock = subnet_locker]}

MCRule(n, p) == [name |-> n, priority |-> p, by |-> NONE]
MCInitialRules ==
  {{MCRule(app, 1000), MCRule(mgmt, 1002), MCRule(NONE, 1010)},
   {MCRule(custom_0, 1000), MCRule(custom_1, 1005)}}

Sorted(S) ==
  [i \in 1..Cardinality(S) |-> CHOOSE x \in S : Cardinality({y \in S : y < x}) = i - 1]

(* Three calls of the generator yield what NextPriority says, whatever the  *)
(* priorities in use around the start, on the grid of five or off it.       *)
ASSUME GeneratorAssumption ==
  \A taken \in SUBSET (994..1003) : \A start \in {1000, 1003} :
    Generated(Sorted(Relevant(start, taken)), 3) = NextPriorities(start, taken, 3)
=============================================================================
