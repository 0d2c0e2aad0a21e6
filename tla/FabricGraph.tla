----------------------------- MODULE FabricGraph ------------------------------
(***************************************************************************)
(* get_topology (driver/topology.py, and translate_topology of             *)
(* adapter/schema_v1.py) composed with AdapterServer: the nodes of its     *)
(* answer are those inspect reports of the lab, the links those that the   *)
(* topology file declares when it is read afterwards.  The lab was made    *)
(* and cabled from the same file at an earlier time, and the file may be   *)
(* edited at any time by whoever works on the scenario: each version has   *)
(* nodes and links of its own, and may be one that cannot be deployed.     *)
(***************************************************************************)
EXTENDS AdapterServer, Sequences

CONSTANTS
    MaxEdits,   \* bound: how often a topology file is edited
    Endpoints,  \* the names a link may be to, those of containers and others
    Declares,   \* Declares[t][v]: the nodes that version v of file t declares
    Links       \* Links[t][v]: the endpoints of each link in it

Versions == 0 .. MaxEdits

ASSUME GraphAssumption ==
    /\ MaxEdits \in Nat
    /\ Declares \in [Topologies -> [Versions -> SUBSET Nodes]]
    /\ Links \in [Topologies -> [Versions -> SUBSET Seq(Endpoints)]]

VARIABLES
    file,   \* file[t]: the version of topology file t
    cabled, \* cabled[t]: the version lab t was last made from
    wiring, \* wiring[s]: the version the lab that s inspected was made from
    read    \* read[s]: the version s read

graphVars == <<vars, file, cabled, wiring, read>>

GraphTypeOK ==
    /\ file \in [Topologies -> Versions]
    /\ cabled \in [Topologies -> Versions]
    /\ wiring \in [Servers -> Versions]
    /\ read \in [Servers -> Versions]

GraphInit ==
    /\ Init
    /\ file = [t \in Topologies |-> 0]
    /\ cabled = [t \in Topologies |-> 0]
    /\ wiring = [s \in Servers |-> 0]
    /\ read = [s \in Servers |-> 0]

EditFile(t) ==
    /\ file[t] < MaxEdits
    /\ file' = [file EXCEPT ![t] = @ + 1]
    /\ UNCHANGED <<vars, cabled, wiring, read>>

InspectGraph(s) ==
    /\ InspectReturns(s)
    /\ wiring' = [wiring EXCEPT ![s] = cabled[client[s]]]
    /\ UNCHANGED <<file, cabled, read>>

\* Fault: the links are those of a copy of the file parsed before the inspect.
FaultParsedBefore(s) ==
    /\ YamlRead(s)
    /\ \E v \in 0 .. file[client[s]] : read' = [read EXCEPT ![s] = v]
    /\ UNCHANGED <<file, cabled, wiring>>

ReadLinks(s) ==
    /\ YamlRead(s)
    /\ read' = [read EXCEPT ![s] = file[client[s]]]
    /\ UNCHANGED <<file, cabled, wiring>>

\* containerlab refuses a file with a link to a node that it does not declare.
WellFormed(t, v) ==
    \A l \in Links[t][v] : \A i \in DOMAIN l : l[i] \in Declares[t][v]

\* A deploy, whoever runs it, takes the file as it is: it creates nodes that this
\* declares, all or some, and cables them by it.
MadeFromFile(t) ==
    /\ WellFormed(t, file[t])
    /\ \A n \in NodesOf(t) : status'[n] # "absent" => n \in Declares[t][file[t]]

Cabled == [t \in Topologies |-> IF epoch'[t] # epoch[t] THEN file[t] ELSE cabled[t]]

\* Every other step.

OtherStep ==
    /\ \/ \E s \in Servers : \/ Invoke(s) \/ Restart(s)
                             \/ RunStep(s) \/ CountersStep(s) \/ ReadFailure(s)
       \/ Outside
    /\ \A t \in Topologies : epoch'[t] # epoch[t] => MadeFromFile(t)
    /\ cabled' = Cabled
    /\ UNCHANGED <<file, wiring, read>>

GraphNext ==
    \/ \E s \in Servers : InspectGraph(s) \/ ReadLinks(s)
    \/ \E t \in Topologies : EditFile(t)
    \/ OtherStep

GraphSpec == GraphInit /\ [][GraphNext]_graphVars

-----------------------------------------------------------------------------
(* The answer. *)

\* A role the schema has no literal for becomes unknown.
CoerceRole(role) == IF role = "switch" THEN "unknown" ELSE role

\* Fault: only the containers that are up are nodes.
FaultRunningNodes(report) ==
    {[name |-> n, role |-> CoerceRole(Role(n)), mgmt_ip |-> report.addr[n]] :
        n \in {k \in Nodes : report.status[k] = "running"}}

TopologyNodes(report) ==
    {[name |-> n, role |-> CoerceRole(Role(n)), mgmt_ip |-> report.addr[n]] :
        n \in Listed(report)}

\* A link without two endpoints is dropped.
TopologyLinks(declared) == {l \in declared : Len(l) = 2}

TopologyAnswer(s) ==
    [nodes |-> TopologyNodes(seen[s]),
     links |-> TopologyLinks(Links[client[s]][read[s]])]

Answered(s) == stage[s] = "ok" /\ req[s].tool = "topology"

(* Safety: in the graph of a deployment that some server announced ready, a  *)
(* link end that is none of the graph's nodes has one of two reasons: the    *)
(* file was edited after the lab was made from it, or the end is a node of   *)
(* the lab that was not counted when it was announced.  That a container has *)
(* exited, or that nodes and links are read at two times, is no reason; and  *)
(* neither source is compared with the other, so both reasons do occur.      *)
LooseEndsExplained ==
    \A s \in Servers, c \in claims :
        Answered(s) /\ About(s, c) =>
            \A l \in TopologyAnswer(s).links : \A i \in {1, 2} :
                \/ \E n \in TopologyAnswer(s).nodes : n.name = l[i]
                \/ read[s] > wiring[s]
                \/ l[i] \in Declares[client[s]][wiring[s]] \ c.nodes

(* Safety: the links of an answer are never older than the lab its nodes are *)
(* of: the file is read after the inspect, so whatever deploys and edits     *)
(* come between, it is the version the lab was made from or a later one.     *)
LinksNotOlder ==
    \A s \in Servers : Answered(s) => read[s] >= wiring[s]
=============================================================================
