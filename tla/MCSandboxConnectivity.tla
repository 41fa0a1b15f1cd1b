---------------------- MODULE MCSandboxConnectivity ----------------------
(***************************************************************************)
(* InTurn: sandbox A, with two subnets, and B, with one, over the same      *)
(* range, and an ended sandbox that may have left subnets there.  Apart: A  *)
(* and B have a range each and may overlap in time, in the place of the     *)
(* ended sandbox's two subnets.                                             *)
(***************************************************************************)
EXTENDS SandboxConnectivity

CONSTANTS A, B, old, c1, c2

InTurn == [s \in Sandbox |-> IF s = A THEN {c1, c2} ELSE {c1}]
Apart ==
  [s \in Sandbox |-> CASE s = A -> {c1} [] s = B -> {c2} [] s = old -> {c1, c2}]
==========================================================================
