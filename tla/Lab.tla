--------------------------------- MODULE Lab ---------------------------------
(***************************************************************************)
(* The substrate the adapter drives: containerlab labs made of docker      *)
(* containers.  It is external code, modelled from how driver/client.py    *)
(* and driver/scenarios.py call it: `deploy` refuses a topology whose lab  *)
(* already exists, every deploy hands out management addresses afresh, all *)
(* labs share one management network, and a container that exits stays     *)
(* listed without an address until its lab is destroyed.  A deploy may     *)
(* create some of a lab's containers only, or none.                        *)
(***************************************************************************)
EXTENDS Naturals

CONSTANTS
    Topologies,  \* topology files, one lab each
    Nodes,       \* containers, clab-<lab>-<node>
    Home,        \* the topology a container belongs to
    Kind,        \* the containerlab kind of a container
    Addrs,       \* management addresses
    NoAddr,      \* "no address"
    MaxEpoch     \* bound: how often one lab is deployed

Kinds == {"linux", "sonic-vs", "sonic-vm"}

ASSUME LabAssumption ==
    /\ Home \in [Nodes -> Topologies]
    /\ Kind \in [Nodes -> Kinds]
    /\ NoAddr \notin Addrs
    /\ MaxEpoch \in Nat

VARIABLES
    epoch,   \* epoch[t]: how many times lab t has been created
    status,  \* status[n]: what inspect would report of container n
    addr,    \* addr[n]: its management address
    cameUp   \* cameUp[t]: the containers that ran when lab t last came up

labVars == <<epoch, status, addr, cameUp>>

Statuses == {"absent", "running", "exited"}

LabTypeOK ==
    /\ epoch \in [Topologies -> 0 .. MaxEpoch]
    /\ status \in [Nodes -> Statuses]
    /\ addr \in [Nodes -> Addrs \cup {NoAddr}]
    /\ cameUp \in [Topologies -> SUBSET Nodes]

NodesOf(t) == {n \in Nodes : Home[n] = t}

Exists(t) == \E n \in NodesOf(t) : status[n] # "absent"

LabInit ==
    /\ epoch = [t \in Topologies |-> 0]
    /\ status = [n \in Nodes |-> "absent"]
    /\ addr = [n \in Nodes |-> NoAddr]
    /\ cameUp = [t \in Topologies |-> {}]

\* Addresses docker may hand to the containers in up, which become running:
\* each gets one that no running container of any lab holds.
Leases(up) ==
    {a \in [up -> Addrs] :
        /\ \A m, n \in up : a[m] = a[n] => m = n
        /\ \A m \in up, n \in Nodes : a[m] # addr[n]}

\* What `containerlab deploy` does to a lab that does not exist: it creates
\* the containers in made, of which those in up are running.  Nothing in the
\* driver depends on its having made all that the topology file declares.
CreateLab(t, made) ==
    /\ ~ Exists(t)
    /\ epoch[t] < MaxEpoch
    /\ \E up \in SUBSET made : \E a \in Leases(up) :
        /\ epoch' = [epoch EXCEPT ![t] = @ + 1]
        /\ status' = [n \in Nodes |-> IF n \in up THEN "running"
                                      ELSE IF n \in made THEN "exited"
                                      ELSE status[n]]
        /\ addr' = [n \in Nodes |-> IF n \in up THEN a[n] ELSE addr[n]]
        /\ cameUp' = [cameUp EXCEPT ![t] = up]

\* `containerlab destroy --cleanup`.
Destroy(t) ==
    /\ Exists(t)
    /\ status' = [n \in Nodes |-> IF Home[n] = t THEN "absent" ELSE status[n]]
    /\ addr' = [n \in Nodes |-> IF Home[n] = t THEN NoAddr ELSE addr[n]]
    /\ UNCHANGED <<epoch, cameUp>>

\* A container exits; docker takes its address back.
Exit(n) ==
    /\ status[n] = "running"
    /\ status' = [status EXCEPT ![n] = "exited"]
    /\ addr' = [addr EXCEPT ![n] = NoAddr]
    /\ UNCHANGED <<epoch, cameUp>>
=============================================================================
