----------------------------- MODULE MCKeyPairs -----------------------------
(* Two preparations of a sandbox, one after the other, a deployment and an   *)
(* access key command.                                                      *)
EXTENDS KeyPairs
=============================================================================
