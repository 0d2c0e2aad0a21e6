----------------------------- MODULE MCSmokeRun ------------------------------
(* A small instance of SmokeRun for TLC: a lab of one SONiC VM. *)
EXTENDS SmokeRun, TLC

CONSTANTS tA, leafA

SmokeHome == leafA :> tA
SmokeKind == leafA :> "sonic-vm"
=============================================================================
