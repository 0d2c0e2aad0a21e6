--------------------------- MODULE MCHostCounters ----------------------------
(* Small instances of HostCounters for TLC. *)
EXTENDS HostCounters

\* A veth's drops and bytes on two receive queues, a transmit queue's drops,
\* and the aggregate that some kernels have.
VethKeys == {Key("rx", 0, "drops"), Key("rx", 1, "drops"), Key("rx", 0, "xdp_bytes"),
             Key("tx", 0, "drops"), Key("rx", None, "dropped")}

\* The same without the transmit queue, small enough for two hosts.
ReceiveKeys == {k \in VethKeys : k.dir = "rx"}
=============================================================================
