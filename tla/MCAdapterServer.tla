--------------------------- MODULE MCAdapterServer ---------------------------
(* Small instances of AdapterServer for TLC. *)
EXTENDS AdapterServer, TLC

CONSTANTS tA, tB, leafA, hostA, swB, xA, xB, xC

\* Two labs on one management network: a SONiC VM and a host, and one VM.
PairHome == (leafA :> tA) @@ (hostA :> tA) @@ (swB :> tB)
PairKind == (leafA :> "sonic-vm") @@ (hostA :> "linux") @@ (swB :> "sonic-vm")
PairPrefix == (leafA :> "leaf") @@ (hostA :> "host") @@ (swB :> "other")

\* One lab of one host.
HostHome == hostA :> tA
HostKind == hostA :> "linux"
HostPrefix == hostA :> "host"

\* Two labs of one container each, for one server offered both, and three
\* scenarios of which two share a topology.
BindHome == (hostA :> tA) @@ (swB :> tB)
BindKind == (hostA :> "linux") @@ (swB :> "sonic-vm")
BindPrefix == (hostA :> "host") @@ (swB :> "other")
BindTopo == (xA :> tA) @@ (xB :> tB) @@ (xC :> tA)

\* One scenario per topology.
FabricTopo == xA :> tA
PairTopo == (xA :> tA) @@ (xB :> tB)

\* Servers and addresses are interchangeable.
Interchangeable == Permutations(Servers) \cup Permutations(Addrs)
=============================================================================
