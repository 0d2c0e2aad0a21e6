---------------------------- MODULE AdapterServer ----------------------------
(***************************************************************************)
(* The MCP server of adapter/server.py together with the driver calls its  *)
(* tools make (driver/scenarios.py, driver/topology.py, driver/counters.py *)
(* and the transport of driver/client.py), against labs that other         *)
(* servers and operators also deploy, destroy and lose containers of.      *)
(*                                                                         *)
(* FastMCP runs a synchronous tool inline, so a server handles one call at *)
(* a time; a call is a sequence of steps, one per subprocess it waits for. *)
(* The server's memory (session["client"] and run_id_to_scenario_name) is  *)
(* client and runName; the local variables of the call in progress, and    *)
(* after it returns the answer it gave, are stage, req, seen and got.      *)
(*                                                                         *)
(* An operator Fault... is not part of the model: it is a definition as a  *)
(* plausible bug would have it, for checking that the properties notice.   *)
(***************************************************************************)
EXTENDS Lab

CONSTANTS
    Servers,    \* server processes
    Names,      \* scenario names a caller may pass
    Registry,   \* the names scenarios.REGISTRY knows
    TopoOf,     \* REGISTRY[name].topology_path()
    Missing,    \* topologies whose packaged YAML is not on disk
    CallerIds,  \* run ids a caller may pass
    AutoIds,    \* run ids uuid4 may produce
    Prefix,     \* the role prefix of a container's short name, or "other"
    None        \* Python's None

RunIds == CallerIds \cup AutoIds

ASSUME ServerAssumption ==
    /\ Registry \subseteq Names
    /\ TopoOf \in [Registry -> Topologies]
    /\ Missing \subseteq Topologies
    /\ Prefix \in [Nodes -> {"leaf", "spine", "host", "other"}]
    /\ None \notin Topologies \cup Names \cup RunIds
    /\ None \notin Topologies \X Nat

VARIABLES
    client,   \* client[s]: the topology session["client"] is bound to
    runName,  \* runName[s]: run_id_to_scenario_name
    stage,    \* stage[s]: where the call in progress is, or how the last ended
    req,      \* req[s]: the call's arguments
    seen,     \* seen[s]: what deploy or inspect reported to it
    got,      \* got[s]: the reads its exec loop has made
    claims    \* every successful run_scenario answer ever given

vars == <<epoch, status, addr, cameUp,
          client, runName, stage, req, seen, got, claims>>

Errors == {"ValueError", "FileNotFoundError", "NoActiveDeploymentError",
           "ContainerlabError", "YAMLError", "ValidationError"}
Returned == {"idle", "ok"} \cup Errors
InFlight == {"deploy", "check", "inspect", "yaml", "exec"}
ReadTools == {"topology", "fabric", "host", "flow"}

NoReq == [tool |-> "none", name |-> None, id |-> None]
Requests == [tool : ReadTools \cup {"run", "none"},
             name : Registry \cup {None},
             id : RunIds \cup {None}]

\* classify_role: the name's prefix decides, else the kind.
Role(n) == IF Prefix[n] # "other" THEN Prefix[n]
           ELSE IF Kind[n] = "linux" THEN "host" ELSE "switch"

SwitchRoles == {"leaf", "spine", "switch"}

\* Fault: exited containers are left out, as docker ps does without -a.
FaultUpOnly(shown, e, st, ad) ==
    [epoch  |-> e,
     status |-> [n \in Nodes |-> IF n \in shown /\ st[n] = "running"
                                   THEN "running" ELSE "absent"],
     addr   |-> [n \in Nodes |-> IF n \in shown THEN ad[n] ELSE NoAddr]]

\* An inspect-shaped report on the containers in shown.  The epochs e are not in
\* the report: they are what it was true of, kept for the properties.
Report(shown, e, st, ad) ==
    [epoch  |-> e,
     status |-> [n \in Nodes |-> IF n \in shown THEN st[n] ELSE "absent"],
     addr   |-> [n \in Nodes |-> IF n \in shown THEN ad[n] ELSE NoAddr]]

Nothing == [epoch  |-> [t \in Topologies |-> 0],
            status |-> [n \in Nodes |-> "absent"],
            addr   |-> [n \in Nodes |-> NoAddr]]

Reports == [epoch  : [Topologies -> 0 .. MaxEpoch],
            status : [Nodes -> Statuses],
            addr   : [Nodes -> Addrs \cup {NoAddr}]]

Listed(report) == {n \in Nodes : report.status[n] # "absent"}

\* The containers a counters tool reads: every listed switch, or every host.
Targets(tool, report) ==
    CASE tool = "fabric" -> {n \in Listed(report) : Role(n) \in SwitchRoles}
      [] tool = "host"   -> {n \in Listed(report) : Role(n) = "host"}
      [] OTHER           -> {}

\* What one exec of a counters loop read: under which container it is filed, from
\* which container and deployment it came, and whether records came of it.  A
\* claim's nodes are those that deploy reported and the driver's node_count counts.
Reads == [node : Nodes, from : Nodes, epoch : 0 .. MaxEpoch, rows : BOOLEAN]
Claims == [server : Servers, id : RunIds, topo : Topologies, epoch : 0 .. MaxEpoch,
           nodes : SUBSET Nodes]

Done(s) == {r.node : r \in got[s]}
Pending(s) == Targets(req[s].tool, seen[s]) \ Done(s)

\* The containers that a counters answer has records of.
Shown(s) == {r.node : r \in {x \in got[s] : x.rows}}

Init ==
    /\ LabInit
    /\ client \in [Servers -> (Topologies \ Missing) \cup {None}]
    /\ runName = [s \in Servers |-> [i \in RunIds |-> None]]
    /\ stage = [s \in Servers |-> "idle"]
    /\ req = [s \in Servers |-> NoReq]
    /\ seen = [s \in Servers |-> Nothing]
    /\ got = [s \in Servers |-> {}]
    /\ claims = {}

-----------------------------------------------------------------------------
(* A call begins at, or ends with, stage st and holds no data. *)
Blank(s, st, r) ==
    /\ stage' = [stage EXCEPT ![s] = st]
    /\ req' = [req EXCEPT ![s] = r]
    /\ seen' = [seen EXCEPT ![s] = Nothing]
    /\ got' = [got EXCEPT ![s] = {}]

Free(s) == stage[s] \in Returned
Raise(s, error) == Blank(s, error, NoReq)
Holds(s, st) == stage[s] = st

(* run_scenario, up to the driver call. *)

\* The name is not in the registry.
RunUnknown(s) ==
    /\ Free(s)
    /\ Names \ Registry # {}
    /\ Raise(s, "ValueError")
    /\ UNCHANGED <<labVars, client, runName, claims>>

\* Fault: session["client"] is assigned before the file is looked for.
FaultBindsFirst(s, name) ==
    /\ Free(s)
    /\ client[s] = None
    /\ TopoOf[name] \in Missing
    /\ client' = [client EXCEPT ![s] = TopoOf[name]]
    /\ Raise(s, "FileNotFoundError")
    /\ UNCHANGED <<labVars, runName, claims>>

\* No client yet, and constructing one fails: nothing is bound.
RunNoFile(s, name) ==
    /\ Free(s)
    /\ client[s] = None
    /\ TopoOf[name] \in Missing
    /\ Raise(s, "FileNotFoundError")
    /\ UNCHANGED <<labVars, client, runName, claims>>

\* The server is bound to another topology.
RunRefused(s, name) ==
    /\ Free(s)
    /\ client[s] \notin {None, TopoOf[name]}
    /\ Raise(s, "ValueError")
    /\ UNCHANGED <<labVars, client, runName, claims>>

\* run_id is the caller's, or a fresh uuid when the caller gave none.
FreshIds == {i \in AutoIds : \A c \in claims : c.id # i}

\* Fault: a bound server takes any scenario and follows it.
FaultRebinds(s, name, id) ==
    /\ Free(s)
    /\ TopoOf[name] \notin Missing
    /\ id \in CallerIds \cup FreshIds
    /\ client' = [client EXCEPT ![s] = TopoOf[name]]
    /\ Blank(s, "deploy", [tool |-> "run", name |-> name, id |-> id])
    /\ UNCHANGED <<labVars, runName, claims>>

RunAccepted(s, name, id) ==
    /\ Free(s)
    /\ \/ client[s] = None /\ TopoOf[name] \notin Missing
       \/ client[s] = TopoOf[name]
    /\ id \in CallerIds \cup FreshIds
    /\ client' = [client EXCEPT ![s] = TopoOf[name]]
    /\ Blank(s, "deploy", [tool |-> "run", name |-> name, id |-> id])
    /\ UNCHANGED <<labVars, runName, claims>>

(* The driver's run_scenario. *)

\* Fault: a failed deploy is followed by a destroy.
FaultCleansUp(s) ==
    /\ Holds(s, "deploy")
    /\ Destroy(client[s])
    /\ Raise(s, "ContainerlabError")
    /\ UNCHANGED <<client, runName, claims>>

\* deploy raises: the binary is missing, the lab exists, a node could not be
\* created, the output is not JSON.  What was created stays.
DeployFails(s) ==
    /\ Holds(s, "deploy")
    /\ \/ UNCHANGED labVars
       \/ \E made \in SUBSET NodesOf(client[s]) : CreateLab(client[s], made)
    /\ Raise(s, "ContainerlabError")
    /\ UNCHANGED <<client, runName, claims>>

\* Fault: "already deployed" is taken for success.
FaultAdopts(s) ==
    /\ Holds(s, "deploy")
    /\ IF Exists(client[s])
         THEN UNCHANGED labVars
         ELSE CreateLab(client[s], NodesOf(client[s]))
    /\ stage' = [stage EXCEPT ![s] = "check"]
    /\ seen' = [seen EXCEPT ![s] = Report(NodesOf(client[s]), epoch', status', addr')]
    /\ UNCHANGED <<client, runName, req, got, claims>>

\* deploy exits 0 and returns an inspect-shaped report.  Neither what it created
\* nor what it reports is compared with the topology: either may be some of the
\* containers only, or none.
DeployReturns(s) ==
    /\ Holds(s, "deploy")
    /\ \E made \in SUBSET NodesOf(client[s]) :
         /\ CreateLab(client[s], made)
         /\ \E shown \in SUBSET made :
              seen' = [seen EXCEPT ![s] = Report(shown, epoch', status', addr')]
    /\ stage' = [stage EXCEPT ![s] = "check"]
    /\ UNCHANGED <<client, runName, req, got, claims>>

\* Fault: only the first record is looked at.
FaultFirstOnly(s) ==
    LET first == CHOOSE n \in Listed(seen[s]) : TRUE
    IN  {n \in Listed(seen[s]) : n = first /\ seen[s].status[n] # "running"}

NotRunning(s) == {n \in Listed(seen[s]) : seen[s].status[n] # "running"}

RunNotRunning(s) ==
    /\ Holds(s, "check")
    /\ NotRunning(s) # {}
    /\ Raise(s, "ContainerlabError")
    /\ UNCHANGED <<labVars, client, runName, claims>>

\* Register the run, and then find that the answer is not valid.
RunInvalid(s) ==
    /\ Holds(s, "check")
    /\ NotRunning(s) = {}
    /\ runName' = [runName EXCEPT ![s][req[s].id] = req[s].name]
    /\ Raise(s, "ValidationError")
    /\ UNCHANGED <<labVars, client, claims>>

\* Register the run and answer ready.
RunCompleted(s) ==
    /\ Holds(s, "check")
    /\ NotRunning(s) = {}
    /\ stage' = [stage EXCEPT ![s] = "ok"]
    /\ runName' = [runName EXCEPT ![s][req[s].id] = req[s].name]
    /\ claims' = claims \cup
         {[server |-> s, id |-> req[s].id, topo |-> client[s],
           epoch |-> seen[s].epoch[client[s]], nodes |-> Listed(seen[s])]}
    /\ UNCHANGED <<labVars, client, req, seen, got>>

(* The get_* tools. *)

\* _require_client.
ReadUnbound(s) ==
    /\ Free(s)
    /\ client[s] = None
    /\ Raise(s, "NoActiveDeploymentError")
    /\ UNCHANGED <<labVars, client, runName, claims>>

\* The scenario_name and run_id arguments are resolved and then dropped, so a
\* read's request is its tool.
ReadStarted(s, tool) ==
    /\ Free(s)
    /\ client[s] # None
    /\ Blank(s, "inspect", [NoReq EXCEPT !.tool = tool])
    /\ UNCHANGED <<labVars, client, runName, claims>>

\* What follows the inspect: counters are read by exec, the topology's links
\* from its file, and get_flow_records answers at once.
After(tool) == CASE tool \in {"fabric", "host"} -> "exec"
                 [] tool = "topology"           -> "yaml"
                 [] OTHER                       -> "ok"

InspectFails(s) ==
    /\ Holds(s, "inspect")
    /\ Raise(s, "ContainerlabError")
    /\ UNCHANGED <<labVars, client, runName, claims>>

\* Three of the tools refuse an inspect that lists no lab.
InspectEmpty(s) ==
    /\ Holds(s, "inspect")
    /\ ~ Exists(client[s])
    /\ req[s].tool # "flow"
    /\ Raise(s, "ContainerlabError")
    /\ UNCHANGED <<labVars, client, runName, claims>>

\* Fault: what a run of this scenario reported once is taken for inspect's.
FaultRemembers(s) ==
    /\ Holds(s, "inspect")
    /\ Exists(client[s]) \/ req[s].tool = "flow"
    /\ \E e \in {epoch} \cup {[epoch EXCEPT ![client[s]] = c.epoch] : c \in claims} :
        seen' = [seen EXCEPT ![s] = Report(NodesOf(client[s]), e, status, addr)]
    /\ stage' = [stage EXCEPT ![s] = After(req[s].tool)]
    /\ UNCHANGED <<labVars, client, runName, req, got, claims>>

InspectReturns(s) ==
    /\ Holds(s, "inspect")
    /\ Exists(client[s]) \/ req[s].tool = "flow"
    /\ seen' = [seen EXCEPT ![s] = Report(NodesOf(client[s]), epoch, status, addr)]
    /\ stage' = [stage EXCEPT ![s] = After(req[s].tool)]
    /\ UNCHANGED <<labVars, client, runName, req, got, claims>>

\* get_topology reads the topology file after the inspect: it answers, or the
\* file is gone or is no YAML.
YamlRead(s) ==
    /\ Holds(s, "yaml")
    /\ stage' = [stage EXCEPT ![s] = "ok"]
    /\ UNCHANGED <<labVars, client, runName, req, seen, got, claims>>

YamlFails(s) ==
    /\ Holds(s, "yaml")
    /\ \E error \in {"FileNotFoundError", "YAMLError"} : Raise(s, error)
    /\ UNCHANGED <<labVars, client, runName, claims>>

\* Fault: every kind is reached by address.
FaultAllByAddress(n, a, m) ==
    /\ status[m] = "running"
    /\ a # NoAddr /\ addr[m] = a

\* exec_on_node: sonic-vm is reached by ssh to the address inspect gave, so by
\* whichever SONiC VM holds it now; other kinds by container name.
Reaches(n, a, m) ==
    /\ status[m] = "running"
    /\ IF Kind[n] = "sonic-vm"
         THEN a # NoAddr /\ addr[m] = a /\ Kind[m] = "sonic-vm"
         ELSE m = n

\* A switch contributes a record for each port in its dump's name map, and none
\* if that is empty; a host contributes one.
ExecReturns(s, n, m) ==
    /\ Holds(s, "exec")
    /\ n \in Pending(s)
    /\ Reaches(n, seen[s].addr[n], m)
    /\ \E rows \in (IF req[s].tool = "fabric" THEN BOOLEAN ELSE {TRUE}) :
         got' = [got EXCEPT ![s] = @ \cup
                   {[node |-> n, from |-> m, epoch |-> epoch[Home[m]], rows |-> rows]}]
    /\ UNCHANGED <<labVars, client, runName, stage, req, seen, claims>>

\* Fault: an exec that fails ends the loop with the records so far.
FaultAnswersPartly(s) ==
    /\ Holds(s, "exec")
    /\ Pending(s) # {}
    /\ stage' = [stage EXCEPT ![s] = "ok"]
    /\ UNCHANGED <<labVars, client, runName, req, seen, got, claims>>

\* Fault: an exec that fails is tried again.
FaultRetries(s) ==
    /\ Holds(s, "exec")
    /\ Pending(s) # {}
    /\ UNCHANGED vars

\* Fault: an exec that fails asks inspect for the address again.
FaultInspectsAgain(s) ==
    /\ Holds(s, "exec")
    /\ Pending(s) # {}
    /\ stage' = [stage EXCEPT ![s] = "inspect"]
    /\ UNCHANGED <<labVars, client, runName, req, seen, got, claims>>

\* One exec that fails fails the call: no address, nobody listening, a
\* container that is gone, a missing binary.
ExecFails(s) ==
    /\ Holds(s, "exec")
    /\ Pending(s) # {}
    /\ Raise(s, "ContainerlabError")
    /\ UNCHANGED <<labVars, client, runName, claims>>

ExecFinished(s) ==
    /\ Holds(s, "exec")
    /\ Pending(s) = {}
    /\ stage' = [stage EXCEPT ![s] = "ok"]
    /\ UNCHANGED <<labVars, client, runName, req, seen, got, claims>>

\* The answer of a read is complete but not valid.
ReadInvalid(s) ==
    /\ \/ Holds(s, "inspect") /\ req[s].tool = "flow"
       \/ Holds(s, "yaml")
       \/ Holds(s, "exec") /\ Pending(s) = {}
    /\ Raise(s, "ValidationError")
    /\ UNCHANGED <<labVars, client, runName, claims>>

(* The world outside the calls. *)

\* The server process dies and a new one is built: its memory is gone, the
\* labs are not.
Restart(s) ==
    /\ client' = [client EXCEPT ![s] = None]
    /\ runName' = [runName EXCEPT ![s] = [i \in RunIds |-> None]]
    /\ Blank(s, "idle", NoReq)
    /\ UNCHANGED <<labVars, claims>>

\* Another operator, or a smoke script, deploys, wholly or in part.
OutsideDeploy(t) ==
    /\ \E made \in SUBSET NodesOf(t) : CreateLab(t, made)
    /\ UNCHANGED <<client, runName, stage, req, seen, got, claims>>

OutsideDestroy(t) ==
    /\ Destroy(t)
    /\ UNCHANGED <<client, runName, stage, req, seen, got, claims>>

ContainerExit(n) ==
    /\ Exit(n)
    /\ UNCHANGED <<client, runName, stage, req, seen, got, claims>>

-----------------------------------------------------------------------------
\* The steps of a call in progress, once its subprocess has ended.
RunStep(s) ==
    \/ DeployFails(s) \/ DeployReturns(s)
    \/ RunNotRunning(s) \/ RunInvalid(s) \/ RunCompleted(s)

CountersStep(s) ==
    \/ \E n, m \in Nodes : ExecReturns(s, n, m)
    \/ ExecFails(s) \/ ExecFinished(s)

ReadFailure(s) ==
    InspectFails(s) \/ InspectEmpty(s) \/ YamlFails(s) \/ ReadInvalid(s)

Progress(s) ==
    \/ RunStep(s) \/ InspectReturns(s) \/ YamlRead(s) \/ CountersStep(s)
    \/ ReadFailure(s)

Invoke(s) ==
    \/ RunUnknown(s) \/ ReadUnbound(s)
    \/ \E name \in Registry :
         \/ RunNoFile(s, name) \/ RunRefused(s, name)
         \/ \E id \in RunIds : RunAccepted(s, name, id)
    \/ \E tool \in ReadTools : ReadStarted(s, tool)

Outside ==
    \/ \E t \in Topologies : OutsideDeploy(t) \/ OutsideDestroy(t)
    \/ \E n \in Nodes : ContainerExit(n)

Next ==
    \/ \E s \in Servers : Invoke(s) \/ Progress(s) \/ Restart(s)
    \/ Outside

Spec == Init /\ [][Next]_vars

\* Every subprocess a call waits for ends, and the server is scheduled.
FairSpec == Spec /\ \A s \in Servers : WF_vars(Progress(s))
-----------------------------------------------------------------------------
(* Type invariant: the values the server's memory and a call's locals take;  *)
(* the bound client always has its topology file (ContainerlabClient's       *)
(* constructor runs before session["client"] is assigned).                   *)
TypeOK ==
    /\ LabTypeOK
    /\ client \in [Servers -> (Topologies \ Missing) \cup {None}]
    /\ runName \in [Servers -> [RunIds -> Registry \cup {None}]]
    /\ stage \in [Servers -> Returned \cup InFlight]
    /\ req \in [Servers -> Requests]
    /\ seen \in [Servers -> Reports]
    /\ got \in [Servers -> SUBSET Reads]
    /\ claims \in SUBSET Claims

(* Safety: every run id a server remembers names a scenario of the topology  *)
(* its client is bound to, whatever the order of runs, refusals, failures    *)
(* and restarts ("the v0.1 server runs one lab per session").                *)
RunsMatchBinding ==
    \A s \in Servers, i \in RunIds :
        runName[s][i] # None =>
            client[s] # None /\ TopoOf[runName[s][i]] = client[s]

(* Safety: one deployment of a lab is announced by at most one run_scenario  *)
(* answer, over all servers, restarts and reused run ids.                    *)
EpochClaimedOnce ==
    \A c, d \in claims : c.topo = d.topo /\ c.epoch = d.epoch => c = d

(* Safety: if run_scenario answered ready for the deployment that is still   *)
(* the lab's latest, all containers that its deploy reported had come up in  *)
(* it, whatever exited or was redeployed between the deploy, the not_running *)
(* check and the answer.  A container that deploy did not report is neither  *)
(* counted nor checked: ready does not mean the whole topology.              *)
ReadyMeansUp ==
    \A c \in claims : c.epoch = epoch[c.topo] => c.nodes \subseteq cameUp[c.topo]

(* Safety: what came from another container than the one it is filed under   *)
(* was read over ssh, from a lab that was deployed while the call was        *)
(* running (exec_on_node is given the address inspect reported, "the mgmt IP *)
(* rotates per deploy").                                                     *)
Attribution ==
    \A s \in Servers : \A r \in got[s] :
        r.from # r.node =>
            /\ Kind[r.node] = "sonic-vm"
            /\ r.epoch > seen[s].epoch[Home[r.from]]

(* Safety: a counters answer has records of switches, or hosts, that inspect *)
(* listed and of no others, and one that it lacks was not skipped: it is a   *)
(* switch, and an exec read its dump and found no port in it.  One that      *)
(* cannot be read fails the call, no host is ever left out, and an           *)
(* undeployed lab is an error instead of an empty, healthy-looking answer.   *)
AllOrNothing ==
    \A s \in Servers :
        stage[s] = "ok" /\ req[s].tool \in {"topology", "fabric", "host"} =>
            /\ Listed(seen[s]) # {}
            /\ Shown(s) \subseteq Targets(req[s].tool, seen[s])
            /\ \A n \in Targets(req[s].tool, seen[s]) \ Shown(s) :
                 Role(n) \in SwitchRoles /\ \E r \in got[s] : r.node = n

(* Safety: a read answers about a deployment no older than any this server   *)
(* has announced for the lab: its run_id argument is resolved and dropped,   *)
(* so a read made for one run may get a later run's lab, never an earlier.   *)
ReadsNotStale ==
    \A s \in Servers, c \in claims :
        /\ stage[s] \in {"yaml", "exec", "ok"} /\ req[s].tool \in ReadTools
        /\ c.server = s /\ c.topo = client[s]
        => c.epoch <= seen[s].epoch[client[s]]

\* The answer of s is about the deployment that c announced.
About(s, c) ==
    /\ stage[s] = "ok" /\ req[s].tool \in {"topology", "fabric", "host"}
    /\ c.topo = client[s] /\ c.epoch = seen[s].epoch[client[s]]

(* Safety: an answer about a deployment that some server announced ready is  *)
(* made from all the containers that were counted when it was announced,     *)
(* exited ones included, whoever reads it and whenever: it never looks       *)
(* smaller than it was then.                                                 *)
CountedStaysListed ==
    \A s \in Servers, c \in claims : About(s, c) => c.nodes \subseteq Listed(seen[s])

(* Action property: no step of a call destroys, replaces or otherwise        *)
(* touches a lab that is up: the server has no destroy, and its deploy does  *)
(* not reconfigure.                                                          *)
CallsSpareLabs ==
    [][<<client, stage, got>>' # <<client, stage, got>> =>
         \A t \in Topologies : Exists(t) =>
            /\ epoch'[t] = epoch[t]
            /\ \A n \in NodesOf(t) :
                 status'[n] = status[n] /\ addr'[n] = addr[n]]_vars

\* The steps a call at this stage has at most before it, the loop's apart.
Remaining(st) == IF st \in {"deploy", "inspect"} THEN 2
                 ELSE IF st \in {"check", "yaml", "exec"} THEN 1 ELSE 0

(* Action property: a call in progress only moves ahead.  Whatever changes   *)
(* its locals leaves it fewer stages to go or, in the exec loop, fewer       *)
(* containers to read of those it began with: no failure sends it back to    *)
(* inspect or to an exec it has done, and no other server or operator can.   *)
CallsAdvance ==
    [][\A s \in Servers :
         /\ stage[s] \in InFlight
         /\ <<stage[s], req[s], seen[s], got[s]>>' # <<stage[s], req[s], seen[s], got[s]>>
         => \/ Remaining(stage[s])' < Remaining(stage[s])
            \/ /\ UNCHANGED <<stage[s], req[s], seen[s]>>
               /\ Pending(s)' \subseteq Pending(s) /\ Pending(s)' # Pending(s)]_vars

(* Liveness: every call returns, with an answer or an error, or its server   *)
(* is restarted, if the subprocesses it waits for end: no stage waits for    *)
(* another server, for the lab to come up or for a container to come back.   *)
CallsReturn ==
    \A s \in Servers : stage[s] \in InFlight ~> Free(s)

-----------------------------------------------------------------------------
(* Refinement. *)

\* The deployment a run has made and is about to answer for.
InHand(s) == IF Holds(s, "check") THEN <<client[s], seen[s].epoch[client[s]]>>
             ELSE None

Held == [s \in Servers |-> InHand(s)]
Announced == {<<c.server, <<c.topo, c.epoch>>>> : c \in claims}

Ledger == INSTANCE DeploymentLedger WITH
    made <- epoch, held <- Held, announced <- Announced

(* Refinement: the servers keep the ledger of deployments.  A ready answer   *)
(* is about a deployment its own call made; one whose check failed, whose    *)
(* answer was invalid or whose server died is never announced by a later     *)
(* run, which containerlab refuses while the lab is up.                      *)
ImplementsLedger == Ledger!Spec

-----------------------------------------------------------------------------
(* What the repository says and the code does not do. *)

(* server.py, get_flow_records: "Raises NoActiveDeploymentError if no        *)
(* scenario is running."                                                     *)
FlowNeedsDeployment ==
    \A s \in Servers :
        stage[s] = "ok" /\ req[s].tool = "flow" => Listed(seen[s]) # {}
=============================================================================
