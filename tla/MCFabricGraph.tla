---------------------------- MODULE MCFabricGraph -----------------------------
(* A small instance of FabricGraph for TLC: a lab of two SONiC VMs, one of   *)
(* which an edit replaces by a host.                                         *)
EXTENDS FabricGraph, TLC

CONSTANTS tA, leafA, spineA, hostA, ghost, xA

FabricHome == [n \in {leafA, spineA, hostA} |-> tA]
FabricKind == (leafA :> "sonic-vm") @@ (spineA :> "sonic-vm") @@ (hostA :> "linux")
FabricPrefix == (leafA :> "leaf") @@ (spineA :> "other") @@ (hostA :> "host")
FabricTopo == xA :> tA

\* The first edit adds a link to a node that is not declared, so that the file
\* cannot be deployed; the second replaces a node and its links, and leaves a
\* link with one end.
FabricDeclares ==
    tA :> (0 :> {leafA, spineA} @@ 1 :> {leafA, spineA} @@ 2 :> {leafA, hostA})
FabricLinks ==
    tA :> (0 :> {<<leafA, spineA>>} @@
           1 :> {<<leafA, spineA>>, <<spineA, ghost>>} @@
           2 :> {<<leafA, hostA>>, <<leafA>>})
FabricEndpoints == Nodes \cup {ghost}

\* Addresses are interchangeable.
Interchangeable == Permutations(Addrs)
=============================================================================
