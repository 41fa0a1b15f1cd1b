--------------------------- MODULE MCLockProvider ---------------------------
(* The keys of one reservation.  A cleanup removes the resource group's key *)
(* and the address pool's.  The commands lock security groups only          *)
(* (MCUsed); a client of the provider may also lock a key that a cleanup    *)
(* removes (MCUsedAndRemoved).                                              *)
EXTENDS LockProvider

CONSTANTS NSG_sandbox, NSG_vm, group, available_private_ip

MCUsed == {NSG_sandbox, NSG_vm}
MCUsedAndRemoved == {NSG_sandbox, group}
MCRemoved == {group, available_private_ip}
MCKey == MCUsed \union MCRemoved
=============================================================================
