----------------------------- MODULE MCDeployVm -----------------------------
(* Instances of DeployVm for TLC: the deployment models a run may start.    *)
EXTENDS DeployVm, TLC

(* Two subnets, the first public, with every option of the model used.      *)
TwoNics == [nics |-> 2, public |-> {1}, addPublicIp |-> TRUE, script |-> TRUE,
            inboundPorts |-> TRUE]
(* The default subnet, without options.                                     *)
OneNic == [nics |-> 1, public |-> {1}, addPublicIp |-> FALSE, script |-> FALSE,
           inboundPorts |-> FALSE]
(* With a script, and no public address to be read after it.               *)
Scripted == [OneNic EXCEPT !.script = TRUE]
(* Refused: a public address is asked for on a private subnet.              *)
PrivateOnly == [OneNic EXCEPT !.public = {}, !.addPublicIp = TRUE]

MCRequests == {TwoNics, OneNic, Scripted, PrivateOnly}
MCTwoNics == {TwoNics}
MCValid == {TwoNics, OneNic}

(* Machines and addresses are interchangeable; safety runs only.            *)
Symmetry == Permutations(VM) \union Permutations(IP)
=============================================================================
