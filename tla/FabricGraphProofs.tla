-------------------------- MODULE FabricGraphProofs ---------------------------
(***************************************************************************)
(* Theorems about FabricGraph, for any servers, labs and topology files.   *)
(***************************************************************************)
EXTENDS FabricGraph, AdapterServerProofs

(* Lemma: each step of the composition is one of the servers, the labs or    *)
(* the outside world, or leaves them alone.                                  *)
LEMMA GraphSteps == [GraphNext]_graphVars => [Next]_vars
<1>1. ASSUME NEW s \in Servers, InspectGraph(s) \/ ReadLinks(s)
      PROVE  Next
  BY <1>1 DEF InspectGraph, ReadLinks, Next, Progress
<1>2. CASE OtherStep
  BY <1>2 DEF OtherStep, Next, Progress
<1>3. CASE (\E t \in Topologies : EditFile(t)) \/ UNCHANGED graphVars
  BY <1>3 DEF EditFile, graphVars
<1> QED  BY <1>1, <1>2, <1>3 DEF GraphNext

(* Theorem: the composition only adds to AdapterServer.                      *)
THEOREM GraphRefinesServer == GraphSpec => Spec
<1>1. GraphInit => Init
  BY DEF GraphInit
<1> QED  BY <1>1, GraphSteps, PTL DEF GraphSpec, Spec

\* The files are never older than what was made from them.
Ages ==
    /\ \A t \in Topologies : cabled[t] <= file[t]
    /\ \A s \in Servers : stage[s] = "yaml" => wiring[s] <= file[client[s]]

GraphInv == GraphTypeOK /\ Ages /\ LinksNotOlder

(* Lemma: only an inspect leads to the reading of a file, and only that to a *)
(* topology answer.                                                          *)
LEMMA OtherStages ==
  ASSUME SessionInv, OtherStep, NEW s \in Servers
  PROVE  /\ stage'[s] = "yaml" => stage[s] = "yaml" /\ client'[s] = client[s]
         /\ Answered(s)' => Answered(s) /\ client'[s] = client[s]
<1> USE DEF Holds
<1>1. CASE Outside
  BY <1>1 DEF Outside, OutsideDeploy, OutsideDestroy, ContainerExit, Answered
<1>2. ASSUME NEW r \in Servers,
             \/ Invoke(r) \/ Restart(r) \/ DeployFails(r) \/ RunNotRunning(r)
             \/ RunInvalid(r) \/ ReadFailure(r) \/ ExecFails(r)
      PROVE  /\ stage'[s] = "yaml" => stage[s] = "yaml" /\ client'[s] = client[s]
             /\ Answered(s)' => Answered(s) /\ client'[s] = client[s]
  <2>1. /\ UNCHANGED client \/ \E t : client' = [client EXCEPT ![r] = t]
        /\ \E st \in Errors \cup {"deploy", "inspect", "idle"} : \E q : Blank(r, st, q)
    BY <1>2
       DEF Invoke, Restart, RunUnknown, RunNoFile, RunRefused, RunAccepted, ReadUnbound,
           ReadStarted, DeployFails, RunNotRunning, RunInvalid, ReadFailure,
           InspectFails, InspectEmpty, YamlFails, ReadInvalid, ExecFails, Raise, Errors
  <2> QED  BY <2>1 DEF Blank, Errors, Answered, SessionInv, TypeOK
<1>3. ASSUME NEW r \in Servers, DeployReturns(r) \/ RunCompleted(r)
      PROVE  /\ stage'[s] = "yaml" => stage[s] = "yaml" /\ client'[s] = client[s]
             /\ Answered(s)' => Answered(s) /\ client'[s] = client[s]
  BY <1>3 DEF DeployReturns, RunCompleted, Answered, SessionInv, TypeOK, CallShape
<1>4. ASSUME NEW r \in Servers,
             ExecFinished(r) \/ \E n, m \in Nodes : ExecReturns(r, n, m)
      PROVE  /\ stage'[s] = "yaml" => stage[s] = "yaml" /\ client'[s] = client[s]
             /\ Answered(s)' => Answered(s) /\ client'[s] = client[s]
  BY <1>4 DEF ExecFinished, ExecReturns, Answered, SessionInv, TypeOK, CallShape
<1> QED  BY <1>1, <1>2, <1>3, <1>4 DEF OtherStep, RunStep, CountersStep

(* Lemma: every step keeps the invariant of the files. *)
LEMMA GraphStep ==
  ASSUME SessionInv, GraphInv, [GraphNext]_graphVars
  PROVE  GraphInv'
<1> USE DEF Holds
<1>1. /\ file \in [Topologies -> Versions] /\ cabled \in [Topologies -> Versions]
      /\ wiring \in [Servers -> Versions] /\ read \in [Servers -> Versions]
      /\ \A v \in Versions : v \in Nat
      /\ stage \in [Servers -> Returned \cup InFlight]
  BY GraphAssumption DEF GraphInv, GraphTypeOK, Versions, SessionInv, TypeOK
<1>a. /\ \A t \in Topologies : file[t] \in Nat /\ cabled[t] \in Nat
      /\ \A s \in Servers : wiring[s] \in Nat /\ read[s] \in Nat
  BY <1>1
<1>2. CASE UNCHANGED graphVars
  BY <1>2 DEF graphVars, vars, GraphInv, GraphTypeOK, Ages, LinksNotOlder, Answered
<1>3. ASSUME NEW t \in Topologies, EditFile(t)
      PROVE  GraphInv'
  <2>1. file[t] + 1 \in Versions
    BY <1>1, <1>3, GraphAssumption DEF EditFile, Versions
  <2>2. file' = [file EXCEPT ![t] = @ + 1] /\ UNCHANGED <<vars, cabled, wiring, read>>
    BY <1>3 DEF EditFile
  <2>3. \A u \in Topologies : file[u] \in Nat /\ file[u] <= file'[u]
    BY <1>1, <2>2
  <2>4. GraphTypeOK'
    BY <1>1, <2>1, <2>2 DEF GraphTypeOK
  <2>5. ASSUME NEW u \in Topologies PROVE cabled[u] <= file'[u]
    <3>1. file'[u] \in Nat /\ cabled[u] <= file[u]
      BY <1>1, <2>2, <2>4 DEF GraphInv, Ages, GraphTypeOK
    <3> QED  BY <1>a, <2>3, <3>1
  <2>6. ASSUME NEW s \in Servers, stage[s] = "yaml"
        PROVE  wiring[s] <= file'[client[s]]
    <3>1. client[s] \in Topologies
      BY <2>6 DEF SessionInv, CallShape
    <3>2. file'[client[s]] \in Nat /\ wiring[s] <= file[client[s]]
      BY <1>1, <2>4, <2>6, <3>1 DEF GraphInv, Ages, GraphTypeOK
    <3> QED  BY <1>a, <2>3, <3>1, <3>2
  <2> QED
    BY <2>2, <2>4, <2>5, <2>6 DEF vars, GraphInv, Ages, LinksNotOlder, Answered
<1>4. ASSUME NEW s \in Servers, InspectGraph(s)
      PROVE  GraphInv'
  <2>1. /\ client[s] \in Topologies
        /\ UNCHANGED <<client, req, file, cabled, read>>
        /\ wiring' = [wiring EXCEPT ![s] = cabled[client[s]]]
        /\ \A r \in Servers : r # s => stage'[r] = stage[r]
        /\ stage'[s] = "ok" => req[s].tool # "topology"
    BY <1>1, <1>4 DEF InspectGraph, InspectReturns, After, SessionInv, CallShape
  <2>2. GraphTypeOK'
    BY <1>1, <2>1 DEF GraphTypeOK
  <2>w. /\ wiring'[s] = cabled[client[s]]
        /\ \A r \in Servers \ {s} : wiring'[r] = wiring[r]
    BY <1>1, <2>1
  <2>3. Ages'
    <3>1. client' = client /\ file' = file /\ cabled' = cabled
      BY <2>1
    <3>2. ASSUME NEW r \in Servers, stage'[r] = "yaml"
          PROVE  wiring'[r] <= file[client[r]]
      BY <2>1, <2>w, <3>2 DEF GraphInv, Ages
    <3> QED  BY <3>1, <3>2 DEF GraphInv, Ages
  <2>4. ASSUME NEW r \in Servers, Answered(r)'
        PROVE  r # s /\ Answered(r) /\ wiring'[r] = wiring[r]
    <3>1. req' = req /\ stage'[r] = "ok" /\ req[r].tool = "topology"
      BY <2>1, <2>4 DEF Answered
    <3>2. r # s
      BY <2>1, <3>1
    <3> QED  BY <2>1, <2>w, <3>1, <3>2 DEF Answered
  <2>5. LinksNotOlder'
    BY <2>1, <2>4 DEF GraphInv, LinksNotOlder
  <2> QED  BY <2>2, <2>3, <2>5 DEF GraphInv
<1>5. ASSUME NEW s \in Servers, ReadLinks(s)
      PROVE  GraphInv'
  <2>1. /\ client[s] \in Topologies
        /\ UNCHANGED <<client, req, file, cabled, wiring>>
        /\ stage[s] = "yaml" /\ stage' = [stage EXCEPT ![s] = "ok"]
        /\ read' = [read EXCEPT ![s] = file[client[s]]]
    BY <1>5 DEF ReadLinks, YamlRead, SessionInv, CallShape
  <2>2. GraphTypeOK'
    BY <1>1, <2>1 DEF GraphTypeOK
  <2>3. Ages'
    BY <1>1, <2>1 DEF GraphInv, Ages
  <2>4. LinksNotOlder'
    BY <1>1, <2>1 DEF GraphInv, Ages, LinksNotOlder, Answered
  <2> QED  BY <2>2, <2>3, <2>4 DEF GraphInv
<1>6. CASE OtherStep
  <2>1. cabled' = Cabled /\ UNCHANGED <<file, wiring, read>>
    BY <1>6 DEF OtherStep
  <2>2. GraphTypeOK' /\ \A t \in Topologies : cabled'[t] <= file'[t]
    BY <1>1, <2>1 DEF GraphInv, GraphTypeOK, Ages, Cabled
  <2>3. \A s \in Servers : (stage[s] = "yaml" => wiring[s] <= file[client[s]])'
    BY <1>6, <2>1, OtherStages DEF GraphInv, Ages
  <2>4. LinksNotOlder'
    BY <1>6, <2>1, OtherStages DEF GraphInv, LinksNotOlder
  <2> QED  BY <2>2, <2>3, <2>4 DEF GraphInv, Ages
<1> QED  BY <1>2, <1>3, <1>4, <1>5, <1>6 DEF GraphNext

(* Theorem: the inductive invariant of the topology files. *)
THEOREM GraphInvariant == GraphSpec => []GraphInv
<1>1. GraphInit => GraphInv
  BY GraphAssumption
     DEF GraphInit, Init, GraphInv, GraphTypeOK, Ages, LinksNotOlder, Answered, Versions
<1>2. SessionInv /\ GraphInv /\ [GraphNext]_graphVars => GraphInv'
  BY GraphStep
<1> QED
  BY <1>1, <1>2, GraphRefinesServer, SessionInvariant, PTL DEF GraphSpec

(* Theorem: the links of a topology answer are never of a file older than    *)
(* the one the lab of its nodes was deployed from.                           *)
THEOREM LinksNeverOlder == GraphSpec => []LinksNotOlder
<1>1. GraphInv => LinksNotOlder
  BY DEF GraphInv
<1> QED  BY <1>1, GraphInvariant, PTL

\* What a lab was made from could be deployed, and so was that of the lab whose
\* nodes are to be answered.
FormedInv ==
    /\ \A t \in Topologies : Exists(t) => WellFormed(t, cabled[t])
    /\ \A s \in Servers :
         stage[s] = "yaml" \/ Answered(s) => WellFormed(client[s], wiring[s])

(* Lemma: every step keeps that. *)
LEMMA FormedStep ==
  ASSUME SessionInv, GraphInv, FormedInv, [GraphNext]_graphVars
  PROVE  FormedInv'
<1> USE DEF Holds
<1>1. /\ cabled \in [Topologies -> Versions] /\ wiring \in [Servers -> Versions]
      /\ stage \in [Servers -> Returned \cup InFlight]
  BY DEF GraphInv, GraphTypeOK, SessionInv, TypeOK
<1>2. CASE (\E t \in Topologies : EditFile(t)) \/ UNCHANGED graphVars
  <2>1. UNCHANGED <<vars, cabled, wiring>>
    BY <1>2 DEF EditFile, graphVars
  <2> QED  BY <2>1 DEF vars, FormedInv, Exists, NodesOf, WellFormed, Answered
<1>3. ASSUME NEW s \in Servers, InspectGraph(s)
      PROVE  FormedInv'
  <2>1. /\ client[s] \in Topologies /\ UNCHANGED <<client, req, cabled, status>>
        /\ wiring' = [wiring EXCEPT ![s] = cabled[client[s]]]
        /\ \A r \in Servers : r # s => stage'[r] = stage[r]
        /\ stage'[s] = "ok" => req[s].tool # "topology"
        /\ stage'[s] = "yaml" => Exists(client[s])
    BY <1>1, <1>3
       DEF InspectGraph, InspectReturns, After, SessionInv, CallShape, labVars
  <2>2. \A t \in Topologies : Exists(t)' => Exists(t) /\ cabled'[t] = cabled[t]
    BY <2>1 DEF Exists, NodesOf
  <2>3. \A t \in Topologies : Exists(t)' => WellFormed(t, cabled'[t])
    BY <2>2 DEF FormedInv
  <2>4. ASSUME NEW r \in Servers, stage'[r] = "yaml" \/ Answered(r)'
        PROVE  WellFormed(client'[r], wiring'[r])
    <3>1. CASE r = s
      BY <1>1, <2>1, <2>4, <3>1 DEF FormedInv, Answered
    <3>2. CASE r # s
      BY <1>1, <2>1, <2>4, <3>2 DEF FormedInv, Answered
    <3> QED  BY <3>1, <3>2
  <2> QED  BY <2>3, <2>4 DEF FormedInv, WellFormed
<1>4. ASSUME NEW s \in Servers, ReadLinks(s)
      PROVE  FormedInv'
  <2>1. /\ UNCHANGED <<client, req, cabled, wiring, status>> /\ stage[s] = "yaml"
        /\ \A r \in Servers : r # s => stage'[r] = stage[r]
    BY <1>1, <1>4 DEF ReadLinks, YamlRead, labVars
  <2> QED  BY <2>1 DEF FormedInv, Exists, NodesOf, WellFormed, Answered
<1>5. CASE OtherStep
  <2>1. cabled' = Cabled /\ wiring' = wiring
    BY <1>5 DEF OtherStep
  <2>2. ASSUME NEW t \in Topologies, Exists(t)'
        PROVE  WellFormed(t, cabled'[t])
    <3>1. CASE epoch'[t] = epoch[t]
      <4>1. Exists(t)
        BY <2>2, <3>1, GraphSteps, StepThere DEF Kept
      <4> QED  BY <2>1, <3>1, <4>1 DEF FormedInv, Cabled
    <3>2. CASE epoch'[t] # epoch[t]
      BY <1>5, <2>1, <3>2 DEF OtherStep, MadeFromFile, Cabled
    <3> QED  BY <3>1, <3>2
  <2>3. ASSUME NEW s \in Servers, stage'[s] = "yaml" \/ Answered(s)'
        PROVE  WellFormed(client'[s], wiring'[s])
    BY <1>5, <2>1, <2>3, OtherStages DEF FormedInv
  <2> QED  BY <2>2, <2>3 DEF FormedInv, WellFormed
<1> QED  BY <1>2, <1>3, <1>4, <1>5 DEF GraphNext

(* Theorem: a link end that is no node of the graph of an announced          *)
(* deployment is of a file edited since, or a node that the announcement did *)
(* not count; for any files, deployable or not, and any partial deploys.     *)
THEOREM LooseEndsAlwaysExplained == GraphSpec => []LooseEndsExplained
<1>1. SessionInv /\ CountedStaysListed /\ GraphInv /\ FormedInv => LooseEndsExplained
  <2> SUFFICES ASSUME SessionInv, CountedStaysListed, GraphInv, FormedInv,
                      NEW s \in Servers, NEW c \in claims, Answered(s), About(s, c),
                      NEW l \in TopologyAnswer(s).links, NEW i \in {1, 2},
                      ~ read[s] > wiring[s]
               PROVE  \/ \E n \in TopologyAnswer(s).nodes : n.name = l[i]
                      \/ l[i] \in Declares[client[s]][wiring[s]] \ c.nodes
    BY DEF LooseEndsExplained
  <2>1. /\ client[s] \in Topologies /\ read[s] \in Versions
        /\ read[s] \in Nat /\ wiring[s] \in Nat
    BY GraphAssumption
       DEF SessionInv, TypeOK, Claims, About, GraphInv, GraphTypeOK, Versions
  <2>2. read[s] = wiring[s]
    BY <2>1 DEF GraphInv, LinksNotOlder
  <2>3. l \in Links[client[s]][read[s]] /\ Len(l) = 2
    BY DEF TopologyAnswer, TopologyLinks
  <2>4. l \in Seq(Endpoints) /\ i \in DOMAIN l
    BY <2>1, <2>3, GraphAssumption
  <2>5. l[i] \in Declares[client[s]][wiring[s]]
    BY <2>2, <2>3, <2>4 DEF FormedInv, WellFormed
  <2>6. ASSUME l[i] \in c.nodes
        PROVE  \E n \in TopologyAnswer(s).nodes : n.name = l[i]
    <3>1. l[i] \in Listed(seen[s])
      BY <2>6 DEF CountedStaysListed
    <3> DEFINE node == [name |-> l[i], role |-> CoerceRole(Role(l[i])),
                        mgmt_ip |-> seen[s].addr[l[i]]]
    <3>2. node \in TopologyAnswer(s).nodes /\ node.name = l[i]
      BY <3>1 DEF TopologyAnswer, TopologyNodes
    <3> QED  BY <3>2
  <2> QED  BY <2>5, <2>6
<1>2. GraphInit => FormedInv
  BY DEF GraphInit, Init, LabInit, FormedInv, Exists, NodesOf, Answered
<1>3. SessionInv /\ GraphInv /\ FormedInv /\ [GraphNext]_graphVars => FormedInv'
  BY FormedStep
<1>4. GraphSpec => []FormedInv
  BY <1>2, <1>3, GraphRefinesServer, SessionInvariant, GraphInvariant, PTL DEF GraphSpec
<1> QED
  BY <1>1, <1>4, GraphRefinesServer, SessionInvariant, CountedListed, GraphInvariant, PTL
=============================================================================
