------------------------- MODULE AdapterServerProofs -------------------------
(***************************************************************************)
(* Theorems about AdapterServer, for any servers, labs and containers.     *)
(***************************************************************************)
EXTENDS AdapterServer, LabProofs

-----------------------------------------------------------------------------
(* Sessions. *)

(* What a call in progress may rely on: a run is of a registered scenario    *)
(* and the server is bound to its topology; a read is by a bound server, and *)
(* its loop is over a lab inspect listed; nothing is collected before it.    *)
CallShape ==
    \A s \in Servers :
        /\ stage[s] \in {"deploy", "check"} =>
             /\ req[s].tool = "run"
             /\ req[s].name \in Registry
             /\ req[s].id \in RunIds
             /\ client[s] = TopoOf[req[s].name]
        /\ stage[s] \in {"inspect", "yaml", "exec"} =>
             client[s] \in Topologies /\ req[s].tool \in ReadTools
        /\ stage[s] = "exec" =>
             req[s].tool \in {"fabric", "host"} /\ Listed(seen[s]) # {}
        /\ stage[s] = "yaml" => req[s].tool = "topology" /\ Listed(seen[s]) # {}
        /\ stage[s] \in {"deploy", "check", "inspect", "yaml"} => got[s] = {}

SessionInv == TypeOK /\ CallShape /\ RunsMatchBinding

sessionVars == <<client, runName, stage, req, seen, got, claims>>

(* Lemma: the values a report takes. *)
LEMMA ReportType ==
  ASSUME NEW shown, NEW e \in [Topologies -> 0 .. MaxEpoch],
         NEW st \in [Nodes -> Statuses], NEW ad \in [Nodes -> Addrs \cup {NoAddr}]
  PROVE  Report(shown, e, st, ad) \in Reports
BY DEF Report, Reports, Statuses

(* Lemma: a deploy that returns has deployed the lab, if only in part, and   *)
(* its report lists some of the lab's containers, as they are.               *)
LEMMA DeployReturned ==
  ASSUME LabTypeOK, NEW s \in Servers, seen \in [Servers -> Reports],
         client[s] \in Topologies, DeployReturns(s)
  PROVE  /\ LabTypeOK' /\ Deployed(client[s])
         /\ seen'[s] \in Reports /\ seen' = [seen EXCEPT ![s] = seen'[s]]
         /\ \E shown \in SUBSET NodesOf(client[s]) :
              seen'[s] = Report(shown, epoch', status', addr')
<1>1. PICK made \in SUBSET NodesOf(client[s]) :
        /\ CreateLab(client[s], made)
        /\ \E shown \in SUBSET made :
             seen' = [seen EXCEPT ![s] = Report(shown, epoch', status', addr')]
  BY DEF DeployReturns
<1>2. PICK shown \in SUBSET made :
        seen' = [seen EXCEPT ![s] = Report(shown, epoch', status', addr')]
  BY <1>1
<1>3. LabTypeOK' /\ Deployed(client[s])
  BY <1>1, DeployStep
<1>4. Report(shown, epoch', status', addr') \in Reports
  BY <1>3, ReportType DEF LabTypeOK
<1> QED  BY <1>2, <1>3, <1>4

(* Lemma: an empty report and an empty request have their types. *)
LEMMA NothingType == Nothing \in Reports /\ NoReq \in Requests
BY LabAssumption DEF Nothing, Reports, NoReq, Requests, Statuses

(* Lemma: a step that blanks a server's call, and changes neither its memory *)
(* nor the claims, keeps the session invariant if it keeps the labs' type.   *)
LEMMA BlankStep ==
  ASSUME SessionInv, LabTypeOK', NEW s \in Servers, NEW st \in Returned,
         Blank(s, st, NoReq), UNCHANGED <<client, runName, claims>>
  PROVE  SessionInv'
<1>1. TypeOK'
  BY NothingType DEF SessionInv, TypeOK, Blank, Returned
<1>2. CallShape'
  BY DEF SessionInv, TypeOK, CallShape, Blank, Returned, Errors, Listed
<1>3. RunsMatchBinding'
  BY DEF SessionInv, RunsMatchBinding
<1> QED  BY <1>1, <1>2, <1>3 DEF SessionInv

(* Lemma: the session invariant holds when no server has been called. *)
LEMMA SessionInit == Init => SessionInv
<1> SUFFICES ASSUME Init PROVE SessionInv
  OBVIOUS
<1>1. LabTypeOK
  BY LabAssumption DEF Init, LabInit, LabTypeOK, Statuses
<1>2. TypeOK
  BY <1>1, NothingType DEF Init, TypeOK, Returned
<1>3. CallShape
  BY DEF Init, CallShape
<1>4. RunsMatchBinding
  BY DEF Init, RunsMatchBinding
<1> QED  BY <1>2, <1>3, <1>4 DEF SessionInv

(* Lemma: a step of the world outside keeps the session invariant.           *)
LEMMA OutsideKeepsSession == SessionInv /\ Outside => SessionInv'
<1> SUFFICES ASSUME SessionInv, Outside PROVE SessionInv'
  OBVIOUS
<1>1. LabTypeOK
  BY DEF SessionInv, TypeOK
<1>2. LabTypeOK' /\ UNCHANGED sessionVars
  <2>1. CASE \E t \in Topologies : OutsideDeploy(t)
    BY <1>1, <2>1, DeployStep DEF OutsideDeploy, sessionVars
  <2>2. CASE \E t \in Topologies : OutsideDestroy(t)
    BY <1>1, <2>2, DestroyStep DEF OutsideDestroy, sessionVars
  <2>3. CASE \E n \in Nodes : ContainerExit(n)
    BY <1>1, <2>3, ExitStep DEF ContainerExit, sessionVars
  <2> QED  BY <2>1, <2>2, <2>3 DEF Outside
<1> QED
  BY <1>2 DEF SessionInv, TypeOK, CallShape, RunsMatchBinding, sessionVars

(* Lemma: so does the beginning of a call.                                   *)
LEMMA InvokeKeepsSession ==
  ASSUME SessionInv, NEW s \in Servers, Invoke(s)
  PROVE  SessionInv'
<1>1. LabTypeOK' /\ UNCHANGED labVars
  BY DEF SessionInv, TypeOK, LabTypeOK, labVars, Invoke, RunUnknown, RunNoFile,
         RunRefused, RunAccepted, ReadUnbound, ReadStarted
<1>2. CASE \/ RunUnknown(s) \/ ReadUnbound(s)
           \/ \E name \in Registry : RunNoFile(s, name) \/ RunRefused(s, name)
  BY <1>1, <1>2, BlankStep
     DEF RunUnknown, ReadUnbound, RunNoFile, RunRefused, Raise, Returned, Errors
<1>3. ASSUME NEW name \in Registry, NEW id \in RunIds, RunAccepted(s, name, id)
      PROVE  SessionInv'
  <2> DEFINE r == [tool |-> "run", name |-> name, id |-> id]
  <2>1. r \in Requests
    BY DEF Requests
  <2>2. TopoOf[name] \in Topologies /\ TopoOf[name] # None
    BY ServerAssumption
  <2>3. /\ client' = [client EXCEPT ![s] = TopoOf[name]]
        /\ Blank(s, "deploy", r)
        /\ UNCHANGED <<runName, claims>>
        /\ client[s] = None \/ client[s] = TopoOf[name]
        /\ client[s] = None => TopoOf[name] \notin Missing
    BY <1>3, <2>2 DEF RunAccepted
  <2>4. TypeOK'
    BY <1>1, <2>1, <2>2, <2>3, NothingType DEF SessionInv, TypeOK, Blank, InFlight
  <2>5. CallShape'
    BY <2>3 DEF SessionInv, TypeOK, CallShape, Blank, Listed
  <2>6. RunsMatchBinding'
    BY <2>2, <2>3 DEF SessionInv, TypeOK, RunsMatchBinding
  <2> QED  BY <2>4, <2>5, <2>6 DEF SessionInv
<1>4. ASSUME NEW tool \in ReadTools, ReadStarted(s, tool)
      PROVE  SessionInv'
  <2> DEFINE r == [NoReq EXCEPT !.tool = tool]
  <2>1. r \in Requests /\ r.tool = tool
    BY DEF Requests, NoReq
  <2>2. Blank(s, "inspect", r) /\ UNCHANGED <<client, runName, claims>>
        /\ client[s] # None
    BY <1>4 DEF ReadStarted
  <2>3. TypeOK'
    BY <1>1, <2>1, <2>2, NothingType DEF SessionInv, TypeOK, Blank, InFlight
  <2>4. CallShape'
    BY <2>1, <2>2 DEF SessionInv, TypeOK, CallShape, Blank, Listed
  <2>5. RunsMatchBinding'
    BY <2>2 DEF SessionInv, RunsMatchBinding
  <2> QED  BY <2>3, <2>4, <2>5 DEF SessionInv
<1> QED  BY <1>2, <1>3, <1>4 DEF Invoke

(* Lemma: and each step of a call in progress.                               *)
LEMMA ProgressKeepsSession ==
  ASSUME SessionInv, NEW s \in Servers, Progress(s)
  PROVE  SessionInv'
<1> USE DEF Holds
<1>1. LabTypeOK
  BY DEF SessionInv, TypeOK
<1>2. CASE DeployFails(s)
  <2>1. client[s] \in Topologies
    BY <1>2, ServerAssumption DEF DeployFails, SessionInv, CallShape
  <2>2. LabTypeOK'
    BY <1>1, <1>2, <2>1, DeployStep DEF DeployFails, LabTypeOK, labVars
  <2> QED  BY <1>2, <2>2, BlankStep DEF DeployFails, Raise, Returned, Errors
<1>3. CASE DeployReturns(s)
  <2>1. client[s] \in Topologies /\ client[s] = TopoOf[req[s].name]
    BY <1>3, ServerAssumption DEF DeployReturns, SessionInv, CallShape
  <2>2. LabTypeOK'
    BY <1>1, <1>3, <2>1, DeployReturned DEF SessionInv, TypeOK
  <2>3. seen' \in [Servers -> Reports]
    BY <1>1, <1>3, <2>1, DeployReturned DEF SessionInv, TypeOK
  <2>4. TypeOK'
    BY <1>3, <2>2, <2>3 DEF DeployReturns, SessionInv, TypeOK, InFlight
  <2>5. CallShape'
    BY <1>3 DEF DeployReturns, SessionInv, TypeOK, CallShape
  <2>6. RunsMatchBinding'
    BY <1>3 DEF DeployReturns, SessionInv, RunsMatchBinding
  <2> QED  BY <2>4, <2>5, <2>6 DEF SessionInv
<1>4. CASE RunCompleted(s)
  <2>1. /\ req[s].name \in Registry /\ req[s].id \in RunIds
        /\ client[s] = TopoOf[req[s].name] /\ client[s] \in Topologies
        /\ client[s] # None
    BY <1>4, ServerAssumption DEF RunCompleted, SessionInv, CallShape
  <2>2. LabTypeOK'
    BY <1>1, <1>4 DEF RunCompleted, LabTypeOK, labVars
  <2>3. [server |-> s, id |-> req[s].id, topo |-> client[s],
         epoch |-> seen[s].epoch[client[s]], nodes |-> Listed(seen[s])] \in Claims
    BY <2>1 DEF SessionInv, TypeOK, Reports, Claims, Listed
  <2>4. runName' \in [Servers -> [RunIds -> Registry \cup {None}]]
    BY <1>4, <2>1 DEF RunCompleted, SessionInv, TypeOK
  <2>5. TypeOK'
    BY <1>4, <2>2, <2>3, <2>4 DEF RunCompleted, SessionInv, TypeOK, Returned
  <2>6. CallShape'
    BY <1>4 DEF RunCompleted, SessionInv, TypeOK, CallShape
  <2>7. RunsMatchBinding'
    BY <1>4, <2>1 DEF RunCompleted, SessionInv, TypeOK, RunsMatchBinding
  <2> QED  BY <2>5, <2>6, <2>7 DEF SessionInv
<1>5. CASE RunNotRunning(s) \/ ReadFailure(s) \/ ExecFails(s)
  <2>1. LabTypeOK' /\ UNCHANGED <<client, runName, claims>>
    BY <1>1, <1>5 DEF RunNotRunning, ReadFailure, InspectFails, InspectEmpty,
                      YamlFails, ReadInvalid, ExecFails, LabTypeOK, labVars
  <2>2. PICK error \in Errors : Blank(s, error, NoReq)
    BY <1>5 DEF RunNotRunning, ReadFailure, InspectFails, InspectEmpty, YamlFails,
                ReadInvalid, ExecFails, Raise, Errors
  <2> QED
    BY <2>1, <2>2, BlankStep DEF Returned
<1>6. CASE InspectReturns(s)
  <2> DEFINE report == Report(NodesOf(client[s]), epoch, status, addr)
  <2>1. report \in Reports
    BY <1>1, ReportType DEF LabTypeOK
  <2>2. LabTypeOK'
    BY <1>1, <1>6 DEF InspectReturns, LabTypeOK, labVars
  <2>3. Exists(client[s]) => Listed(report) # {}
    BY DEF Exists, Listed, Report, NodesOf
  <2>4. seen' = [seen EXCEPT ![s] = report]
    BY <1>6 DEF InspectReturns
  <2> HIDE DEF report
  <2>5. TypeOK'
    BY <1>6, <2>1, <2>2, <2>4
       DEF InspectReturns, After, SessionInv, TypeOK, Returned, InFlight
  <2>6. CallShape'
    BY <1>6, <2>3, <2>4
       DEF InspectReturns, After, SessionInv, TypeOK, CallShape, Listed
  <2>7. RunsMatchBinding'
    BY <1>6 DEF InspectReturns, SessionInv, RunsMatchBinding
  <2> QED  BY <2>5, <2>6, <2>7 DEF SessionInv
<1>7. ASSUME NEW n \in Nodes, NEW m \in Nodes, ExecReturns(s, n, m)
      PROVE  SessionInv'
  <2>1. LabTypeOK'
    BY <1>1, <1>7 DEF ExecReturns, LabTypeOK, labVars
  <2>2. \A rows \in BOOLEAN :
          [node |-> n, from |-> m, epoch |-> epoch[Home[m]], rows |-> rows] \in Reads
    BY <1>1, LabAssumption DEF LabTypeOK, Reads
  <2>3. TypeOK'
    <3>1. PICK rows \in BOOLEAN :
            got' = [got EXCEPT ![s] = @ \cup
                      {[node |-> n, from |-> m, epoch |-> epoch[Home[m]], rows |-> rows]}]
      BY <1>7 DEF ExecReturns
    <3>2. got' \in [Servers -> SUBSET Reads]
      BY <2>2, <3>1 DEF SessionInv, TypeOK
    <3> QED  BY <1>7, <2>1, <3>2 DEF ExecReturns, SessionInv, TypeOK
  <2>4. CallShape'
    BY <1>7 DEF ExecReturns, SessionInv, TypeOK, CallShape
  <2>5. RunsMatchBinding'
    BY <1>7 DEF ExecReturns, SessionInv, RunsMatchBinding
  <2> QED  BY <2>3, <2>4, <2>5 DEF SessionInv
<1>8. CASE ExecFinished(s) \/ YamlRead(s)
  <2>1. LabTypeOK'
    BY <1>1, <1>8 DEF ExecFinished, YamlRead, LabTypeOK, labVars
  <2>2. TypeOK'
    BY <1>8, <2>1 DEF ExecFinished, YamlRead, SessionInv, TypeOK, Returned
  <2>3. CallShape'
    BY <1>8 DEF ExecFinished, YamlRead, SessionInv, TypeOK, CallShape
  <2>4. RunsMatchBinding'
    BY <1>8 DEF ExecFinished, YamlRead, SessionInv, RunsMatchBinding
  <2> QED  BY <2>2, <2>3, <2>4 DEF SessionInv
<1>9. CASE RunInvalid(s)
  <2>1. /\ req[s].name \in Registry /\ req[s].id \in RunIds
        /\ client[s] = TopoOf[req[s].name] /\ client[s] # None
    BY <1>9, ServerAssumption DEF RunInvalid, SessionInv, CallShape
  <2>2. LabTypeOK' /\ UNCHANGED <<client, claims>>
        /\ Blank(s, "ValidationError", NoReq)
        /\ runName' = [runName EXCEPT ![s][req[s].id] = req[s].name]
    BY <1>1, <1>9 DEF RunInvalid, Raise, LabTypeOK, labVars
  <2>3. runName' \in [Servers -> [RunIds -> Registry \cup {None}]]
    BY <2>1, <2>2 DEF SessionInv, TypeOK
  <2>4. TypeOK'
    BY <2>2, <2>3, NothingType DEF SessionInv, TypeOK, Blank, Returned, Errors
  <2>5. CallShape'
    BY <2>2 DEF SessionInv, TypeOK, CallShape, Blank, Listed
  <2>6. RunsMatchBinding'
    BY <2>1, <2>2 DEF SessionInv, TypeOK, RunsMatchBinding
  <2> QED  BY <2>4, <2>5, <2>6 DEF SessionInv
<1> QED
  BY <1>2, <1>3, <1>4, <1>5, <1>6, <1>7, <1>8, <1>9
     DEF Progress, RunStep, CountersStep

(* Lemma: so does a restart, which forgets the binding with the run ids. *)
LEMMA RestartKeepsSession ==
  ASSUME SessionInv, NEW s \in Servers, Restart(s)
  PROVE  SessionInv'
<1>1. TypeOK'
  BY NothingType
     DEF SessionInv, TypeOK, LabTypeOK, labVars, Restart, Blank, Returned
<1>2. CallShape'
  BY DEF SessionInv, TypeOK, CallShape, Restart, Blank, Listed
<1>3. RunsMatchBinding'
  BY DEF SessionInv, TypeOK, RunsMatchBinding, Restart
<1> QED  BY <1>1, <1>2, <1>3 DEF SessionInv

(* Theorem: the session invariant holds throughout every behaviour.          *)
THEOREM SessionInvariant == Spec => []SessionInv
<1>1. Init => SessionInv
  BY SessionInit
<1>2. SessionInv /\ [Next]_vars => SessionInv'
  <2> SUFFICES ASSUME SessionInv, [Next]_vars PROVE SessionInv'
    OBVIOUS
  <2>1. ASSUME NEW s \in Servers, Invoke(s) \/ Progress(s) \/ Restart(s)
        PROVE  SessionInv'
    BY <2>1, InvokeKeepsSession, ProgressKeepsSession, RestartKeepsSession
  <2>2. CASE Outside
    BY <2>2, OutsideKeepsSession
  <2>3. CASE UNCHANGED vars
    BY <2>3 DEF vars, SessionInv, TypeOK, LabTypeOK, CallShape, RunsMatchBinding
  <2> QED  BY <2>1, <2>2, <2>3 DEF Next
<1> QED  BY <1>1, <1>2, PTL DEF Spec

(* Theorem: every state of every behaviour is well typed; a server is never  *)
(* bound to a topology whose file was missing.                               *)
THEOREM TypeCorrect == Spec => []TypeOK
<1>1. SessionInv => TypeOK
  BY DEF SessionInv
<1> QED  BY <1>1, SessionInvariant, PTL

(* Theorem: a server remembers only runs of the topology it is bound to.     *)
THEOREM RunsStayInSession == Spec => []RunsMatchBinding
<1>1. SessionInv => RunsMatchBinding
  BY DEF SessionInv
<1> QED  BY <1>1, SessionInvariant, PTL

-----------------------------------------------------------------------------
(* What a step may do to the labs and to a call, whoever takes it. *)

(* Epochs grow, and with them alone changes which of a lab's containers came *)
(* up, and a container gets an address it did not have, one that nobody      *)
(* holds.                                                                    *)
LabsMove ==
    /\ \A t \in Topologies : epoch'[t] >= epoch[t]
    /\ \A t \in Topologies : cameUp'[t] = cameUp[t] \/ epoch'[t] > epoch[t]
    /\ \A n \in Nodes :
         \/ addr'[n] \in {addr[n], NoAddr}
         \/ /\ epoch'[Home[n]] > epoch[Home[n]]
            /\ \A m \in Nodes : addr'[n] # addr[m] /\ (m # n => addr'[n] # addr'[m])

CallKept(s) == stage'[s] = stage[s] /\ seen'[s] = seen[s] /\ got'[s] = got[s]
CallBlanked(s) == stage'[s] # "exec" /\ stage'[s] # "check"
                  /\ seen'[s] = Nothing /\ got'[s] = {}
CallDeployed(s) ==
    /\ stage[s] = "deploy" /\ stage'[s] = "check" /\ got'[s] = {}
    /\ \E shown \in SUBSET NodesOf(client[s]) :
         seen'[s] = Report(shown, epoch', status', addr')
CallInspected(s) ==
    /\ stage[s] = "inspect" /\ stage'[s] # "check" /\ got'[s] = {}
    /\ UNCHANGED labVars /\ client[s] \in Topologies
    /\ seen'[s] = Report(NodesOf(client[s]), epoch, status, addr)
CallRead(s) ==
    /\ stage[s] = "exec" /\ stage'[s] = "exec" /\ seen'[s] = seen[s]
    /\ UNCHANGED labVars
    /\ \E n, m \in Nodes, rows \in BOOLEAN :
         /\ Reaches(n, seen[s].addr[n], m)
         /\ got'[s] = got[s] \cup
              {[node |-> n, from |-> m, epoch |-> epoch[Home[m]], rows |-> rows]}
CallEnded(s) == stage'[s] = "ok" /\ seen'[s] = seen[s] /\ got'[s] = got[s]

CallMoves(s) ==
    \/ CallKept(s) \/ CallBlanked(s) \/ CallDeployed(s)
    \/ CallInspected(s) \/ CallRead(s) \/ CallEnded(s)

(* Lemma: a deploy, and a step that leaves the labs alone, move them so.     *)
LEMMA DeployMoves ==
  ASSUME LabTypeOK, NEW t \in Topologies, Deployed(t)
  PROVE  LabsMove
<1>1. \A u \in Topologies : epoch[u] \in Nat
  BY LabAssumption DEF LabTypeOK
<1>2. epoch'[t] > epoch[t] /\ \A u \in Topologies : u # t => epoch'[u] = epoch[u]
  BY <1>1 DEF Deployed, LabTypeOK
<1>3. \A n \in Nodes : addr'[n] = addr[n] \/ Home[n] = t
  BY DEF Deployed
<1> QED  BY <1>1, <1>2, <1>3 DEF Deployed, LabsMove

(* Lemma: labs that nothing happens to move no addresses. *)
LEMMA QuietMoves == ASSUME LabTypeOK, UNCHANGED labVars PROVE LabsMove
<1>1. \A u \in Topologies : epoch[u] \in Nat
  BY LabAssumption DEF LabTypeOK
<1> QED  BY <1>1 DEF LabsMove, labVars

(* Lemma: every step moves the labs and every call in one of these ways.     *)
LEMMA StepMoves ==
  ASSUME SessionInv, [Next]_vars
  PROVE  LabsMove /\ \A s \in Servers : CallMoves(s)
<1> USE DEF Holds
<1>1. LabTypeOK
  BY DEF SessionInv, TypeOK
<1>2. CASE UNCHANGED vars
  BY <1>1, <1>2, QuietMoves DEF vars, labVars, CallMoves, CallKept
<1>3. CASE Outside
  <2>1. UNCHANGED sessionVars
    BY <1>3 DEF Outside, OutsideDeploy, OutsideDestroy, ContainerExit, sessionVars
  <2>2. ASSUME NEW t \in Topologies, OutsideDeploy(t) PROVE LabsMove
    BY <1>1, <2>2, DeployStep, DeployMoves DEF OutsideDeploy
  <2>3. ASSUME NEW t \in Topologies, OutsideDestroy(t) PROVE LabsMove
    BY <1>1, <2>3, DestroyStep, LabAssumption DEF OutsideDestroy, LabsMove, LabTypeOK
  <2>4. ASSUME NEW n \in Nodes, ContainerExit(n) PROVE LabsMove
    BY <1>1, <2>4, ExitStep, LabAssumption DEF ContainerExit, LabsMove, LabTypeOK
  <2> QED
    BY <1>3, <2>1, <2>2, <2>3, <2>4 DEF Outside, sessionVars, CallMoves, CallKept
<1>4. ASSUME NEW s \in Servers, Invoke(s) \/ Progress(s) \/ Restart(s)
      PROVE  LabsMove /\ \A r \in Servers : CallMoves(r)
  <2>1. CASE Restart(s)
    BY <1>1, <2>1, QuietMoves
       DEF Restart, Blank, SessionInv, TypeOK, CallMoves, CallKept, CallBlanked
  <2>2. CASE Invoke(s)
    BY <1>1, <2>2, QuietMoves
       DEF Invoke, RunUnknown, RunNoFile, RunRefused, RunAccepted, ReadUnbound,
           ReadStarted, Raise, Blank, SessionInv, TypeOK,
           CallMoves, CallKept, CallBlanked
  <2>3. CASE DeployFails(s)
    <3>1. client[s] \in Topologies
      BY <2>3, ServerAssumption DEF DeployFails, SessionInv, CallShape
    <3>2. LabsMove
      BY <1>1, <2>3, <3>1, DeployStep, DeployMoves, QuietMoves DEF DeployFails
    <3> QED
      BY <2>3, <3>2 DEF DeployFails, Raise, Blank, SessionInv, TypeOK,
                        CallMoves, CallKept, CallBlanked
  <2>4. CASE DeployReturns(s)
    <3>1. client[s] \in Topologies /\ got[s] = {}
      BY <2>4, ServerAssumption DEF DeployReturns, SessionInv, CallShape
    <3>2. LabsMove
      BY <1>1, <2>4, <3>1, DeployReturned, DeployMoves DEF SessionInv, TypeOK
    <3>3. /\ seen' = [seen EXCEPT ![s] = seen'[s]]
          /\ \E shown \in SUBSET NodesOf(client[s]) :
               seen'[s] = Report(shown, epoch', status', addr')
      BY <1>1, <2>4, <3>1, DeployReturned DEF SessionInv, TypeOK
    <3>4. stage' = [stage EXCEPT ![s] = "check"] /\ stage[s] = "deploy" /\ got' = got
      BY <2>4 DEF DeployReturns
    <3>5. CallDeployed(s)
      BY <3>1, <3>3, <3>4 DEF CallDeployed, SessionInv, TypeOK
    <3>6. \A r \in Servers : r # s => CallKept(r)
      BY <3>3, <3>4 DEF CallKept, SessionInv, TypeOK
    <3> QED  BY <3>2, <3>5, <3>6 DEF CallMoves
  <2>5. CASE RunNotRunning(s) \/ RunInvalid(s) \/ ReadFailure(s) \/ ExecFails(s)
    <3>1. LabsMove /\ \E error \in Errors : Blank(s, error, NoReq)
      BY <1>1, <2>5, QuietMoves
         DEF RunNotRunning, RunInvalid, ReadFailure, InspectFails, InspectEmpty,
             YamlFails, ReadInvalid, ExecFails, Raise, Errors
    <3> QED
      BY <3>1 DEF Blank, Errors, SessionInv, TypeOK, CallMoves, CallKept, CallBlanked
  <2>6. CASE RunCompleted(s) \/ ExecFinished(s) \/ YamlRead(s)
    BY <1>1, <2>6, QuietMoves
       DEF RunCompleted, ExecFinished, YamlRead, SessionInv, TypeOK, CallMoves, CallKept,
           CallEnded
  <2>7. CASE InspectReturns(s)
    <3>1. client[s] \in Topologies /\ got[s] = {}
      BY <2>7 DEF InspectReturns, SessionInv, CallShape
    <3> QED
      BY <1>1, <2>7, <3>1, QuietMoves
         DEF InspectReturns, After, SessionInv, TypeOK, CallMoves, CallKept,
             CallInspected
  <2>8. ASSUME NEW n \in Nodes, NEW m \in Nodes, ExecReturns(s, n, m)
        PROVE  LabsMove /\ \A r \in Servers : CallMoves(r)
    <3>1. LabsMove
      BY <1>1, <2>8, QuietMoves DEF ExecReturns
    <3>2. PICK rows \in BOOLEAN :
            got' = [got EXCEPT ![s] = @ \cup
                      {[node |-> n, from |-> m, epoch |-> epoch[Home[m]], rows |-> rows]}]
      BY <2>8 DEF ExecReturns
    <3> QED
      BY <2>8, <3>1, <3>2 DEF ExecReturns, SessionInv, TypeOK, CallMoves, CallKept, CallRead
  <2> QED
    BY <1>4, <2>1, <2>2, <2>3, <2>4, <2>5, <2>6, <2>7, <2>8
       DEF Progress, RunStep, CountersStep
<1> QED  BY <1>2, <1>3, <1>4 DEF Next

-----------------------------------------------------------------------------
(* Attribution. *)

\* No two containers hold one address.
AddrsUnique ==
    \A m, n \in Nodes : addr[m] = addr[n] /\ addr[m] # NoAddr => m = n

\* Reports are of the past.
SeenPast ==
    \A s \in Servers, t \in Topologies : seen[s].epoch[t] <= epoch[t]

\* Whoever holds an address the report gave to another container got it in a
\* deployment made since the report.
AddrsStaleOnlyByDeploy ==
    \A s \in Servers : stage[s] = "exec" =>
        \A m, n \in Nodes :
            addr[m] = seen[s].addr[n] /\ addr[m] # NoAddr /\ m # n =>
                epoch[Home[m]] > seen[s].epoch[Home[m]]

AttributionInv == AddrsUnique /\ SeenPast /\ AddrsStaleOnlyByDeploy /\ Attribution

(* Lemma: the attribution invariant holds before any record is collected. *)
LEMMA AttributionInit == Init => AttributionInv
BY LabAssumption
   DEF Init, LabInit, AttributionInv, AddrsUnique, SeenPast,
       AddrsStaleOnlyByDeploy, Attribution, Nothing

(* Lemma: every step keeps it. *)
LEMMA AttributionStep ==
  ASSUME SessionInv, SessionInv', AttributionInv, [Next]_vars
  PROVE  AttributionInv'
<1>1. LabsMove /\ \A s \in Servers : CallMoves(s)
  BY StepMoves
<1>2. /\ \A t \in Topologies : epoch[t] \in Nat /\ epoch'[t] \in Nat
      /\ \A s \in Servers, t \in Topologies :
           seen[s].epoch[t] \in Nat /\ seen'[s].epoch[t] \in Nat
      /\ \A n \in Nodes : Home[n] \in Topologies
  BY LabAssumption DEF SessionInv, TypeOK, LabTypeOK, Reports
<1>3. AddrsUnique'
  BY <1>1 DEF AttributionInv, AddrsUnique, LabsMove
<1>4. ASSUME NEW s \in Servers
      PROVE  /\ \A t \in Topologies : seen'[s].epoch[t] <= epoch'[t]
             /\ stage'[s] = "exec" =>
                  \A m, n \in Nodes :
                    addr'[m] = seen'[s].addr[n] /\ addr'[m] # NoAddr /\ m # n =>
                      epoch'[Home[m]] > seen'[s].epoch[Home[m]]
             /\ \A r \in got'[s] :
                  r.from # r.node =>
                    /\ Kind[r.node] = "sonic-vm"
                    /\ r.epoch > seen'[s].epoch[Home[r.from]]
  <2>0. \A t \in Topologies : seen[s].epoch[t] <= epoch[t] /\ epoch[t] <= epoch'[t]
    BY <1>1, <1>2 DEF AttributionInv, SeenPast, LabsMove
  <2>1. CASE CallKept(s) \/ CallEnded(s)
    <3>1. seen'[s] = seen[s] /\ got'[s] = got[s]
      BY <2>1 DEF CallKept, CallEnded
    <3>2. stage'[s] = "exec" => stage[s] = "exec"
      BY <2>1 DEF CallKept, CallEnded
    <3>3. ASSUME stage[s] = "exec", NEW m \in Nodes, NEW n \in Nodes,
                 addr'[m] = seen[s].addr[n], addr'[m] # NoAddr, m # n
          PROVE  epoch'[Home[m]] > seen[s].epoch[Home[m]]
      <4>1. CASE addr'[m] = addr[m]
        <5>1. Home[m] \in Topologies
          BY <1>2
        <5>2. epoch[Home[m]] > seen[s].epoch[Home[m]]
          BY <3>3, <4>1 DEF AttributionInv, AddrsStaleOnlyByDeploy
        <5>3. epoch[Home[m]] <= epoch'[Home[m]]
          BY <2>0, <5>1
        <5> QED  BY <1>2, <5>1, <5>2, <5>3
      <4>2. CASE epoch'[Home[m]] > epoch[Home[m]]
        <5>1. Home[m] \in Topologies
          BY <1>2
        <5>2. seen[s].epoch[Home[m]] <= epoch[Home[m]]
          BY <2>0, <5>1
        <5> QED  BY <1>2, <4>2, <5>1, <5>2
      <4> QED  BY <1>1, <3>3, <4>1, <4>2 DEF LabsMove
    <3> QED
      BY <1>2, <2>0, <3>1, <3>2, <3>3 DEF AttributionInv, Attribution
  <2>2. CASE CallBlanked(s)
    BY <1>2, <2>2 DEF CallBlanked, Nothing
  <2>3. CASE CallDeployed(s)
    BY <1>2, <2>3 DEF CallDeployed, Report
  <2>4. CASE CallInspected(s)
    BY <1>2, <2>4 DEF CallInspected, Report, labVars, AttributionInv, AddrsUnique
  <2>5. CASE CallRead(s)
    <3>1. PICK n \in Nodes, m \in Nodes, rows \in BOOLEAN :
            /\ Reaches(n, seen[s].addr[n], m)
            /\ got'[s] = got[s] \cup
                 {[node |-> n, from |-> m, epoch |-> epoch[Home[m]], rows |-> rows]}
      BY <2>5 DEF CallRead
    <3>2. m # n => Kind[n] = "sonic-vm" /\ epoch[Home[m]] > seen[s].epoch[Home[m]]
      BY <2>5, <3>1 DEF CallRead, Reaches, AttributionInv, AddrsStaleOnlyByDeploy
    <3> QED
      BY <2>0, <2>5, <3>1, <3>2
         DEF CallRead, labVars, AttributionInv, Attribution, AddrsStaleOnlyByDeploy
  <2> QED  BY <1>1, <2>1, <2>2, <2>3, <2>4, <2>5 DEF CallMoves
<1> QED
  BY <1>3, <1>4 DEF AttributionInv, SeenPast, AddrsStaleOnlyByDeploy, Attribution

(* Theorem: the inductive invariant behind Attribution, of every behaviour. *)
THEOREM AttributionInvariant == Spec => []AttributionInv
<1>1. SessionInv /\ SessionInv' /\ AttributionInv /\ [Next]_vars => AttributionInv'
  BY AttributionStep
<1> QED  BY <1>1, AttributionInit, SessionInvariant, PTL DEF Spec

(* Theorem: a counters record is misfiled only when a lab was deployed while *)
(* the call was running, and then only for a node read over ssh.             *)
THEOREM RecordsAttributed == Spec => []Attribution
<1>1. AttributionInv => Attribution
  BY DEF AttributionInv
<1> QED  BY <1>1, AttributionInvariant, PTL

-----------------------------------------------------------------------------
(* Claims. *)

\* Claims are of the past.
ClaimsPast == \A c \in claims : c.epoch <= epoch[c.topo]

\* The deployment a server is about to announce is unannounced, and its own.
Announceable(s) == seen[s].epoch[client[s]]
CheckUnclaimed ==
    \A s \in Servers : stage[s] = "check" =>
        /\ \A c \in claims : c.topo = client[s] => c.epoch # Announceable(s)
        /\ \A r \in Servers :
             r # s /\ stage[r] = "check" /\ client[r] = client[s] =>
                Announceable(r) # Announceable(s)

ClaimsInv == ClaimsPast /\ CheckUnclaimed /\ EpochClaimedOnce

(* Lemma: the three ways a step treats the claims and the servers that are   *)
(* about to make one.                                                        *)
LEMMA StepClaims ==
  ASSUME SessionInv, [Next]_vars
  PROVE  \/ /\ claims' = claims
            /\ \A s \in Servers : stage'[s] = "check" =>
                 stage[s] = "check" /\ seen'[s] = seen[s] /\ client'[s] = client[s]
         \/ \E s \in Servers :
              /\ DeployReturns(s)
              /\ claims' = claims /\ client' = client /\ client[s] \in Topologies
              /\ epoch' = [epoch EXCEPT ![client[s]] = @ + 1]
              /\ \E shown \in SUBSET NodesOf(client[s]) :
                   seen'[s] = Report(shown, epoch', status', addr')
              /\ Deployed(client[s])
              /\ \A r \in Servers : r # s =>
                   stage'[r] = stage[r] /\ seen'[r] = seen[r]
         \/ \E s \in Servers :
              /\ RunCompleted(s)
              /\ stage[s] = "check" /\ stage'[s] = "ok" /\ client[s] \in Topologies
              /\ UNCHANGED <<labVars, client, seen>>
              /\ \A r \in Servers : r # s => stage'[r] = stage[r]
              /\ \E id \in RunIds : claims' = claims \cup
                   {[server |-> s, id |-> id, topo |-> client[s],
                     epoch |-> Announceable(s), nodes |-> Listed(seen[s])]}
<1> USE DEF Holds
<1> DEFINE Quiet == /\ claims' = claims
                    /\ \A s \in Servers : stage'[s] = "check" =>
                         /\ stage[s] = "check" /\ seen'[s] = seen[s]
                         /\ client'[s] = client[s]
<1>1. CASE UNCHANGED vars \/ Outside
  <2>1. Quiet
    BY <1>1 DEF vars, Outside, OutsideDeploy, OutsideDestroy, ContainerExit
  <2> QED  BY <2>1
<1>2. ASSUME NEW s \in Servers, Restart(s) \/ Invoke(s)
      PROVE  Quiet
  <2>1. CASE Restart(s)
    BY <2>1 DEF Restart, Blank, SessionInv, TypeOK
  <2>2. CASE Invoke(s)
    BY <2>2 DEF Invoke, RunUnknown, RunNoFile, RunRefused, RunAccepted, ReadUnbound,
                ReadStarted, Raise, Blank, SessionInv, TypeOK
  <2> QED  BY <1>2, <2>1, <2>2
<1>3. ASSUME NEW s \in Servers, Progress(s), ~ DeployReturns(s), ~ RunCompleted(s)
      PROVE  Quiet
  <2>1. CASE \/ DeployFails(s) \/ RunNotRunning(s) \/ RunInvalid(s)
             \/ ReadFailure(s) \/ ExecFails(s)
    <3>1. claims' = claims /\ client' = client
          /\ \E error \in Errors : Blank(s, error, NoReq)
      BY <2>1
         DEF DeployFails, RunNotRunning, RunInvalid, ReadFailure, InspectFails,
             InspectEmpty, YamlFails, ReadInvalid, ExecFails, Raise, Errors
    <3> QED  BY <3>1 DEF Blank, Errors, SessionInv, TypeOK
  <2>2. CASE InspectReturns(s) \/ ExecFinished(s) \/ YamlRead(s)
    BY <2>2 DEF InspectReturns, After, ExecFinished, YamlRead, SessionInv, TypeOK
  <2>3. CASE \E n, m \in Nodes : ExecReturns(s, n, m)
    BY <2>3 DEF ExecReturns
  <2> QED  BY <1>3, <2>1, <2>2, <2>3 DEF Progress, RunStep, CountersStep
<1>4. ASSUME NEW s \in Servers, DeployReturns(s)
      PROVE  /\ claims' = claims /\ client' = client /\ client[s] \in Topologies
             /\ epoch' = [epoch EXCEPT ![client[s]] = @ + 1]
             /\ \E shown \in SUBSET NodesOf(client[s]) :
                  seen'[s] = Report(shown, epoch', status', addr')
             /\ Deployed(client[s])
             /\ \A r \in Servers : r # s => stage'[r] = stage[r] /\ seen'[r] = seen[r]
  <2>1. client[s] \in Topologies
    BY <1>4, ServerAssumption DEF DeployReturns, SessionInv, CallShape
  <2>2. /\ Deployed(client[s]) /\ seen' = [seen EXCEPT ![s] = seen'[s]]
        /\ \E shown \in SUBSET NodesOf(client[s]) :
             seen'[s] = Report(shown, epoch', status', addr')
    BY <1>4, <2>1, DeployReturned DEF SessionInv, TypeOK
  <2>3. epoch' = [epoch EXCEPT ![client[s]] = @ + 1]
    BY <2>2 DEF Deployed
  <2>4. /\ claims' = claims /\ client' = client
        /\ \A r \in Servers : r # s => stage'[r] = stage[r] /\ seen'[r] = seen[r]
    BY <1>4, <2>2 DEF DeployReturns, SessionInv, TypeOK
  <2> QED  BY <2>1, <2>2, <2>3, <2>4
<1>5. ASSUME NEW s \in Servers, RunCompleted(s)
      PROVE  /\ stage[s] = "check" /\ stage'[s] = "ok" /\ client[s] \in Topologies
             /\ UNCHANGED <<labVars, client, seen>>
             /\ \A r \in Servers : r # s => stage'[r] = stage[r]
             /\ \E id \in RunIds : claims' = claims \cup
                  {[server |-> s, id |-> id, topo |-> client[s],
                    epoch |-> Announceable(s), nodes |-> Listed(seen[s])]}
  <2>1. client[s] \in Topologies /\ req[s].id \in RunIds
    BY <1>5, ServerAssumption DEF RunCompleted, SessionInv, CallShape
  <2>2. stage \in [Servers -> Returned \cup InFlight]
    BY DEF SessionInv, TypeOK
  <2> QED  BY <1>5, <2>1, <2>2 DEF RunCompleted, Announceable
<1> QED  BY <1>1, <1>2, <1>3, <1>4, <1>5 DEF Next

(* Lemma: the types and the order of the epochs a step compares.             *)
LEMMA EpochOrder ==
  ASSUME SessionInv, SessionInv', AttributionInv, [Next]_vars
  PROVE  /\ \A t \in Topologies : epoch[t] \in Nat /\ epoch'[t] \in Nat
         /\ \A t \in Topologies : epoch'[t] >= epoch[t]
         /\ \A t \in Topologies : cameUp'[t] = cameUp[t] \/ epoch'[t] > epoch[t]
         /\ \A c \in claims : c.epoch \in Nat /\ c.topo \in Topologies
         /\ \A s \in Servers, t \in Topologies :
              seen[s].epoch[t] \in Nat /\ seen[s].epoch[t] <= epoch[t]
         /\ \A s \in Servers : stage[s] = "check" => client[s] \in Topologies
<1>1. \A t \in Topologies : epoch[t] \in Nat /\ epoch'[t] \in Nat
  BY LabAssumption DEF SessionInv, TypeOK, LabTypeOK
<1>2. \A t \in Topologies :
        epoch'[t] >= epoch[t] /\ (cameUp'[t] = cameUp[t] \/ epoch'[t] > epoch[t])
  BY StepMoves DEF LabsMove
<1>3. \A c \in claims : c.epoch \in Nat /\ c.topo \in Topologies
  BY LabAssumption DEF SessionInv, TypeOK, Claims
<1>4. \A s \in Servers, t \in Topologies : seen[s].epoch[t] \in Nat
  BY LabAssumption DEF SessionInv, TypeOK, Reports
<1>5. \A s \in Servers, t \in Topologies : seen[s].epoch[t] <= epoch[t]
  BY DEF AttributionInv, SeenPast
<1>6. \A s \in Servers : stage[s] = "check" => client[s] \in Topologies
  BY ServerAssumption DEF SessionInv, CallShape
<1> QED  BY <1>1, <1>2, <1>3, <1>4, <1>5, <1>6

(* Lemma: the claims invariant holds before any run. *)
LEMMA ClaimsInit == Init => ClaimsInv
BY DEF Init, ClaimsInv, ClaimsPast, CheckUnclaimed, EpochClaimedOnce

(* Lemma: every step keeps it. *)
LEMMA ClaimsStep ==
  ASSUME SessionInv, SessionInv', AttributionInv, ClaimsInv, [Next]_vars
  PROVE  ClaimsInv'
<1>1. /\ \A t \in Topologies : epoch[t] \in Nat /\ epoch'[t] \in Nat
      /\ \A t \in Topologies : epoch'[t] >= epoch[t]
      /\ \A c \in claims : c.epoch \in Nat /\ c.topo \in Topologies
      /\ \A s \in Servers, t \in Topologies :
           seen[s].epoch[t] \in Nat /\ seen[s].epoch[t] <= epoch[t]
      /\ \A s \in Servers : stage[s] = "check" => client[s] \in Topologies
  BY EpochOrder
<1>2. CASE /\ claims' = claims
           /\ \A s \in Servers : stage'[s] = "check" =>
                stage[s] = "check" /\ seen'[s] = seen[s] /\ client'[s] = client[s]
  <2>1. ClaimsPast'
    BY <1>1, <1>2 DEF ClaimsInv, ClaimsPast
  <2>2. CheckUnclaimed'
    BY <1>2 DEF ClaimsInv, CheckUnclaimed, Announceable
  <2>3. EpochClaimedOnce'
    BY <1>2 DEF ClaimsInv, EpochClaimedOnce
  <2> QED  BY <2>1, <2>2, <2>3 DEF ClaimsInv
<1>3. ASSUME NEW s \in Servers,
             claims' = claims, client' = client, client[s] \in Topologies,
             epoch' = [epoch EXCEPT ![client[s]] = @ + 1],
             seen'[s].epoch = epoch',
             \A r \in Servers : r # s => stage'[r] = stage[r] /\ seen'[r] = seen[r]
      PROVE  ClaimsInv'
  <2>1. epoch'[client[s]] > epoch[client[s]]
    BY <1>1, <1>3 DEF SessionInv, TypeOK, LabTypeOK
  <2>2. ClaimsPast'
    BY <1>1, <1>3 DEF ClaimsInv, ClaimsPast
  <2>3. ASSUME NEW c \in claims, c.topo = client[s]
        PROVE  c.epoch # Announceable(s)'
    BY <1>1, <1>3, <2>1, <2>3 DEF ClaimsInv, ClaimsPast, Announceable
  <2>4. ASSUME NEW r \in Servers, r # s, client[r] = client[s]
        PROVE  Announceable(r)' # Announceable(s)'
    <3>1. Announceable(r)' = seen[r].epoch[client[s]] /\ Announceable(s)' = epoch'[client[s]]
      BY <1>3, <2>4 DEF Announceable
    <3>2. seen[r].epoch[client[s]] <= epoch[client[s]] /\ seen[r].epoch[client[s]] \in Nat
      BY <1>1, <1>3
    <3> QED  BY <1>1, <1>3, <2>1, <3>1, <3>2
  <2>5. \A r \in Servers : r # s => Announceable(r)' = Announceable(r)
    BY <1>3 DEF Announceable
  <2>6. CheckUnclaimed'
    BY <1>3, <2>3, <2>4, <2>5 DEF ClaimsInv, CheckUnclaimed
  <2>7. EpochClaimedOnce'
    BY <1>3 DEF ClaimsInv, EpochClaimedOnce
  <2> QED  BY <2>2, <2>6, <2>7 DEF ClaimsInv
<1>4. ASSUME NEW s \in Servers, NEW id \in RunIds,
             stage[s] = "check", stage'[s] = "ok", client[s] \in Topologies,
             UNCHANGED <<labVars, client, seen>>,
             \A r \in Servers : r # s => stage'[r] = stage[r],
             claims' = claims \cup
               {[server |-> s, id |-> id, topo |-> client[s],
                 epoch |-> Announceable(s), nodes |-> Listed(seen[s])]}
      PROVE  ClaimsInv'
  <2> DEFINE new == [server |-> s, id |-> id, topo |-> client[s],
                     epoch |-> Announceable(s), nodes |-> Listed(seen[s])]
  <2>1. /\ claims' = claims \cup {new}
        /\ new.topo = client[s] /\ new.epoch = Announceable(s)
        /\ epoch' = epoch
    BY <1>4 DEF labVars
  <2>2. \A c \in claims : c.topo = client[s] => c.epoch # Announceable(s)
    BY <1>4 DEF ClaimsInv, CheckUnclaimed
  <2> HIDE DEF new
  <2>3. ClaimsPast'
    BY <1>1, <1>4, <2>1 DEF ClaimsInv, ClaimsPast, Announceable
  <2>4. EpochClaimedOnce'
    BY <2>1, <2>2 DEF ClaimsInv, EpochClaimedOnce
  <2>5. \A r \in Servers : stage'[r] = "check" => r # s /\ stage[r] = "check"
    BY <1>4
  <2>6. \A r \in Servers : Announceable(r)' = Announceable(r)
    BY <1>4 DEF Announceable
  <2>7. CheckUnclaimed'
    BY <1>4, <2>1, <2>5, <2>6 DEF ClaimsInv, CheckUnclaimed
  <2> QED  BY <2>3, <2>4, <2>7 DEF ClaimsInv
<1>5. \A s \in Servers : \A shown :
        seen'[s] = Report(shown, epoch', status', addr') => seen'[s].epoch = epoch'
  BY DEF Report
<1> QED  BY <1>2, <1>3, <1>4, <1>5, StepClaims

(* Theorem: the inductive invariant behind EpochClaimedOnce. *)
THEOREM ClaimsInvariant == Spec => []ClaimsInv
<1>1. SessionInv /\ SessionInv' /\ AttributionInv /\ ClaimsInv /\ [Next]_vars
        => ClaimsInv'
  BY ClaimsStep
<1> QED  BY <1>1, ClaimsInit, SessionInvariant, AttributionInvariant, PTL DEF Spec

(* Theorem: no two ready answers are about one deployment of a lab.          *)
THEOREM DeploymentsClaimedOnce == Spec => []EpochClaimedOnce
<1>1. ClaimsInv => EpochClaimedOnce
  BY DEF ClaimsInv
<1> QED  BY <1>1, ClaimsInvariant, PTL

-----------------------------------------------------------------------------
(* Readiness. *)

\* A server about to answer ready for the latest deployment is right to.
CheckUp ==
    \A s \in Servers :
        /\ stage[s] = "check"
        /\ NotRunning(s) = {}
        /\ Announceable(s) = epoch[client[s]]
        => Listed(seen[s]) \subseteq cameUp[client[s]]

ReadyInv == CheckUp /\ ReadyMeansUp

(* Lemma: the readiness invariant holds before any run. *)
LEMMA ReadyInit == Init => ReadyInv
BY DEF Init, ReadyInv, CheckUp, ReadyMeansUp

(* Lemma: every step keeps it. *)
LEMMA ReadyStep ==
  ASSUME SessionInv, SessionInv', AttributionInv, ClaimsInv, ReadyInv, [Next]_vars
  PROVE  ReadyInv'
<1>1. /\ \A t \in Topologies : epoch[t] \in Nat /\ epoch'[t] \in Nat
      /\ \A t \in Topologies : epoch'[t] >= epoch[t]
      /\ \A t \in Topologies : cameUp'[t] = cameUp[t] \/ epoch'[t] > epoch[t]
      /\ \A c \in claims : /\ c.epoch \in Nat /\ c.topo \in Topologies
                           /\ c.epoch <= epoch[c.topo]
      /\ \A s \in Servers, t \in Topologies :
           seen[s].epoch[t] \in Nat /\ seen[s].epoch[t] <= epoch[t]
      /\ \A s \in Servers : stage[s] = "check" => client[s] \in Topologies
  BY EpochOrder DEF ClaimsInv, ClaimsPast
<1>2. ASSUME NEW t \in Topologies, NEW e \in Nat,
             e <= epoch[t], e = epoch'[t]
      PROVE  e = epoch[t] /\ cameUp'[t] = cameUp[t]
  BY <1>1, <1>2
<1>3. \A c \in claims : c.epoch = epoch'[c.topo] => c.nodes \subseteq cameUp'[c.topo]
  BY <1>1, <1>2 DEF ReadyInv, ReadyMeansUp
<1>4. ASSUME NEW s \in Servers, stage[s] = "check", seen'[s] = seen[s],
             client'[s] = client[s], NotRunning(s)' = {},
             Announceable(s)' = epoch'[client'[s]]
      PROVE  Listed(seen'[s]) \subseteq cameUp'[client'[s]]
  <2>1. client[s] \in Topologies /\ Announceable(s) \in Nat
        /\ Announceable(s) <= epoch[client[s]] /\ Announceable(s) = epoch'[client[s]]
    BY <1>1, <1>4 DEF Announceable
  <2>2. NotRunning(s) = {}
    BY <1>4 DEF NotRunning, Listed
  <2>3. Announceable(s) = epoch[client[s]] /\ cameUp'[client[s]] = cameUp[client[s]]
    BY <1>2, <2>1
  <2>4. Listed(seen[s]) \subseteq cameUp[client[s]]
    BY <1>4, <2>2, <2>3 DEF ReadyInv, CheckUp
  <2> QED  BY <1>4, <2>3, <2>4
<1>5. CASE /\ claims' = claims
           /\ \A s \in Servers : stage'[s] = "check" =>
                stage[s] = "check" /\ seen'[s] = seen[s] /\ client'[s] = client[s]
  <2>1. CheckUp'
    BY <1>4, <1>5 DEF CheckUp, Listed
  <2> QED  BY <1>3, <1>5, <2>1 DEF ReadyInv, ReadyMeansUp
<1>6. ASSUME NEW s \in Servers, Deployed(client[s]),
             NEW shown \in SUBSET NodesOf(client[s]),
             seen'[s] = Report(shown, epoch', status', addr'),
             claims' = claims, client' = client, client[s] \in Topologies,
             \A r \in Servers : r # s => stage'[r] = stage[r] /\ seen'[r] = seen[r]
      PROVE  ReadyInv'
  <2>1. ASSUME NotRunning(s)' = {}, NEW n \in Listed(seen'[s])
        PROVE  n \in cameUp'[client[s]]
    <3>1. n \in Nodes /\ seen'[s].status[n] # "absent"
      BY <2>1 DEF Listed
    <3>2. seen'[s].status[n] = "running"
      BY <2>1, <3>1 DEF NotRunning, Listed
    <3>3. n \in shown /\ status'[n] = "running"
      BY <1>6, <3>1, <3>2 DEF Report
    <3> QED  BY <1>6, <3>3 DEF Deployed
  <2>2. CheckUp'
    <3> SUFFICES ASSUME NEW r \in Servers, stage'[r] = "check", NotRunning(r)' = {},
                        Announceable(r)' = epoch'[client'[r]]
                 PROVE  Listed(seen'[r]) \subseteq cameUp'[client'[r]]
      BY DEF CheckUp, Listed
    <3>1. CASE r = s
      BY <1>6, <2>1, <3>1
    <3>2. CASE r # s
      BY <1>4, <1>6, <3>2
    <3> QED  BY <3>1, <3>2
  <2> QED  BY <1>3, <1>6, <2>2 DEF ReadyInv, ReadyMeansUp
<1>7. ASSUME NEW s \in Servers, NEW id \in RunIds, RunCompleted(s),
             stage[s] = "check", stage'[s] = "ok", client[s] \in Topologies,
             UNCHANGED <<labVars, client, seen>>,
             \A r \in Servers : r # s => stage'[r] = stage[r],
             claims' = claims \cup
               {[server |-> s, id |-> id, topo |-> client[s],
                 epoch |-> Announceable(s), nodes |-> Listed(seen[s])]}
      PROVE  ReadyInv'
  <2> DEFINE new == [server |-> s, id |-> id, topo |-> client[s],
                     epoch |-> Announceable(s), nodes |-> Listed(seen[s])]
  <2>1. NotRunning(s) = {}
    BY <1>7 DEF RunCompleted
  <2>2. Announceable(s) = epoch[client[s]] => Listed(seen[s]) \subseteq cameUp[client[s]]
    BY <1>7, <2>1 DEF ReadyInv, CheckUp
  <2>3. /\ new.topo = client[s] /\ new.epoch = Announceable(s)
        /\ new.nodes = Listed(seen[s]) /\ claims' = claims \cup {new}
        /\ epoch' = epoch /\ cameUp' = cameUp
    BY <1>7 DEF labVars
  <2> HIDE DEF new
  <2>4. ReadyMeansUp'
    BY <1>3, <2>2, <2>3 DEF ReadyMeansUp
  <2>5. CheckUp'
    <3> SUFFICES ASSUME NEW r \in Servers, stage'[r] = "check", NotRunning(r)' = {},
                        Announceable(r)' = epoch'[client'[r]]
                 PROVE  Listed(seen'[r]) \subseteq cameUp'[client'[r]]
      BY DEF CheckUp, Listed
    <3>1. r # s
      BY <1>7
    <3> QED  BY <1>4, <1>7, <3>1
  <2> QED  BY <2>4, <2>5 DEF ReadyInv
<1> QED  BY <1>5, <1>6, <1>7, StepClaims

(* Theorem: a ready answer about the lab's latest deployment means that all  *)
(* the containers it counted came up, whichever deploy reported.             *)
THEOREM ReadyIsUp == Spec => []ReadyMeansUp
<1>1. /\ SessionInv /\ SessionInv' /\ AttributionInv /\ ClaimsInv /\ ReadyInv
      /\ [Next]_vars
      => ReadyInv'
  BY ReadyStep
<1>2. Spec => []ReadyInv
  BY <1>1, ReadyInit, SessionInvariant, AttributionInvariant, ClaimsInvariant, PTL
     DEF Spec
<1>3. ReadyInv => ReadyMeansUp
  BY DEF ReadyInv
<1> QED  BY <1>2, <1>3, PTL

-----------------------------------------------------------------------------
(* Reads. *)

\* Server s is making or has made an answer from an inspect.
Reading(s) == stage[s] \in {"yaml", "exec", "ok"} /\ req[s].tool \in ReadTools

\* The deployments of t that a deploy returned and somebody answers for, or did,
\* with the containers counted.
Vouched(t) ==
    {[epoch |-> c.epoch, nodes |-> c.nodes] : c \in {d \in claims : d.topo = t}} \cup
    {[epoch |-> Announceable(r), nodes |-> Listed(seen[r])] :
        r \in {q \in Servers : stage[q] = "check" /\ client[q] = t}}

AllThere(nodes) == \A n \in nodes : status[n] # "absent"

\* The containers that a deploy reported were created, and none goes by itself.
VouchedThere ==
    \A t \in Topologies : \A v \in Vouched(t) :
        /\ v.nodes \subseteq NodesOf(t)
        /\ v.epoch = epoch[t] /\ Exists(t) => AllThere(v.nodes)

VouchedSeen ==
    \A s \in Servers, t \in Topologies :
        Reading(s) /\ req[s].tool # "flow" /\ client[s] = t =>
            \A v \in Vouched(t) :
                v.epoch = seen[s].epoch[t] => v.nodes \subseteq Listed(seen[s])

ReadsInv == ReadsNotStale /\ VouchedThere /\ VouchedSeen

(* Lemma: what a step does to a server that is reading, or begins to be.     *)
LEMMA StepReads ==
  ASSUME SessionInv, [Next]_vars, NEW s \in Servers, Reading(s)'
  PROVE  \/ /\ Reading(s)
            /\ UNCHANGED <<client[s], req[s], seen[s]>>
            /\ \A c \in claims' \ claims : c.server # s
         \/ /\ UNCHANGED <<labVars, client, claims>> /\ req'[s] = req[s]
            /\ client[s] \in Topologies
            /\ req[s].tool # "flow" => Exists(client[s])
            /\ seen'[s] = Report(NodesOf(client[s]), epoch, status, addr)
<1> USE DEF Holds
<1>1. CASE UNCHANGED vars \/ Outside
  <2>1. UNCHANGED <<client, stage, req, seen, claims>>
    BY <1>1 DEF vars, Outside, OutsideDeploy, OutsideDestroy, ContainerExit
  <2> QED  BY <2>1 DEF Reading
<1>2. ASSUME NEW r \in Servers,
             UNCHANGED client \/ \E t : client' = [client EXCEPT ![r] = t],
             claims' = claims,
             \E st \in Errors \cup {"deploy", "inspect", "idle"} : \E q : Blank(r, st, q)
      PROVE  /\ Reading(s)
             /\ UNCHANGED <<client[s], req[s], seen[s]>>
             /\ \A c \in claims' \ claims : c.server # s
  BY <1>2 DEF Blank, Reading, Errors, SessionInv, TypeOK
<1>3. ASSUME NEW r \in Servers, Invoke(r) \/ Restart(r)
      PROVE  /\ UNCHANGED client \/ \E t : client' = [client EXCEPT ![r] = t]
             /\ claims' = claims
             /\ \E st \in Errors \cup {"deploy", "inspect", "idle"} : \E q : Blank(r, st, q)
  BY <1>3
     DEF Invoke, Restart, RunUnknown, RunNoFile, RunRefused, RunAccepted,
         ReadUnbound, ReadStarted, Raise, Errors
<1>4. ASSUME NEW r \in Servers,
             \/ DeployFails(r) \/ RunNotRunning(r) \/ RunInvalid(r) \/ ReadFailure(r)
             \/ ExecFails(r)
      PROVE  /\ UNCHANGED client /\ claims' = claims
             /\ \E st \in Errors \cup {"deploy", "inspect", "idle"} : \E q : Blank(r, st, q)
  BY <1>4
     DEF DeployFails, RunNotRunning, RunInvalid, ReadFailure, InspectFails, InspectEmpty,
         YamlFails, ReadInvalid, ExecFails, Raise, Errors
<1>5. ASSUME NEW r \in Servers, DeployReturns(r) \/ RunCompleted(r)
      PROVE  /\ Reading(s)
             /\ UNCHANGED <<client[s], req[s], seen[s]>>
             /\ \A c \in claims' \ claims : c.server # s
  <2>1. s # r
    BY <1>5 DEF DeployReturns, RunCompleted, Reading, ReadTools, SessionInv, TypeOK, CallShape
  <2>2. UNCHANGED <<client, req, stage[s], seen[s]>>
    BY <1>5, <2>1 DEF DeployReturns, RunCompleted, SessionInv, TypeOK
  <2>3. \A c \in claims' \ claims : c.server # s
    BY <1>5, <2>1 DEF DeployReturns, RunCompleted
  <2> QED  BY <2>2, <2>3 DEF Reading
<1>6. ASSUME NEW r \in Servers,
             YamlRead(r) \/ ExecFinished(r) \/ \E n, m \in Nodes : ExecReturns(r, n, m)
      PROVE  /\ Reading(s)
             /\ UNCHANGED <<client[s], req[s], seen[s]>>
             /\ \A c \in claims' \ claims : c.server # s
  <2>1. UNCHANGED <<client, req, seen, claims>>
    BY <1>6 DEF YamlRead, ExecFinished, ExecReturns
  <2>2. stage'[s] = stage[s] \/ stage[s] \in {"yaml", "exec"}
    BY <1>6 DEF YamlRead, ExecFinished, ExecReturns, SessionInv, TypeOK
  <2> QED  BY <2>1, <2>2 DEF Reading
<1>7. ASSUME NEW r \in Servers, InspectReturns(r), r # s
      PROVE  /\ Reading(s)
             /\ UNCHANGED <<client[s], req[s], seen[s]>>
             /\ \A c \in claims' \ claims : c.server # s
  BY <1>7 DEF InspectReturns, Reading, SessionInv, TypeOK
<1>8. CASE InspectReturns(s)
  BY <1>8 DEF InspectReturns, SessionInv, TypeOK, CallShape
<1> QED
  BY <1>1, <1>2, <1>3, <1>4, <1>5, <1>6, <1>7, <1>8 DEF Next, Progress, RunStep, CountersStep

Kept(t) == Exists(t)' =>
    Exists(t) /\ \A n \in NodesOf(t) : status[n] # "absent" => status'[n] # "absent"

(* Lemma: a lab keeps the containers it has until it is destroyed, and only  *)
(* a new deployment brings one up.                                           *)
LEMMA StepThere ==
  ASSUME SessionInv, [Next]_vars, NEW t \in Topologies, epoch'[t] = epoch[t]
  PROVE  Kept(t)
<1>1. LabTypeOK /\ epoch[t] \in Nat
  BY LabAssumption DEF SessionInv, TypeOK, LabTypeOK
<1>2. CASE UNCHANGED labVars
  BY <1>2 DEF labVars, Exists, Kept
<1>3. ASSUME NEW u \in Topologies, Deployed(u)
      PROVE  Kept(t)
  <2>1. u # t
    BY <1>1, <1>3 DEF Deployed, LabTypeOK
  <2>2. \A n \in NodesOf(t) : status'[n] = status[n]
    BY <1>3, <2>1 DEF Deployed, NodesOf
  <2> QED  BY <2>2 DEF Exists, Kept, NodesOf
<1>4. ASSUME NEW u \in Topologies, Destroy(u)
      PROVE  Kept(t)
  BY <1>1, <1>4 DEF Destroy, Exists, Kept, NodesOf, LabTypeOK
<1>5. ASSUME NEW n \in Nodes, Exit(n)
      PROVE  Kept(t)
  BY <1>1, <1>5 DEF Exit, Exists, Kept, NodesOf, LabTypeOK
<1>6. CASE Outside
  BY <1>1, <1>3, <1>4, <1>5, <1>6, DeployStep
     DEF Outside, OutsideDeploy, OutsideDestroy, ContainerExit
<1>7. ASSUME NEW s \in Servers, DeployFails(s) \/ DeployReturns(s)
      PROVE  Kept(t)
  <2>1. client[s] \in Topologies
    BY <1>7, ServerAssumption DEF DeployFails, DeployReturns, Holds, SessionInv, CallShape
  <2> QED
    BY <1>1, <1>2, <1>3, <1>7, <2>1, DeployStep DEF DeployFails, DeployReturns
<1>8. ASSUME NEW s \in Servers, Invoke(s) \/ Progress(s) \/ Restart(s),
             ~ DeployFails(s), ~ DeployReturns(s)
      PROVE  UNCHANGED labVars
  BY <1>8
     DEF Invoke, Progress, RunStep, CountersStep, ReadFailure, Restart, RunUnknown,
         RunNoFile, RunRefused, RunAccepted, ReadUnbound, ReadStarted, RunNotRunning,
         RunInvalid, RunCompleted, InspectFails, InspectEmpty, InspectReturns,
         YamlRead, YamlFails, ReadInvalid, ExecReturns, ExecFails, ExecFinished
<1> QED
  BY <1>2, <1>6, <1>7, <1>8 DEF Next, Progress, RunStep, vars, labVars

\* What a deploy has just returned is the lab's newest deployment, with the
\* containers that were reported.
JustDeployed(t, v) ==
    /\ epoch'[t] = epoch[t] + 1 /\ v.epoch = epoch'[t]
    /\ v.nodes \subseteq NodesOf(t)
    /\ \A n \in v.nodes : status'[n] # "absent"

(* Lemma: a step vouches for no deployment that was not vouched for, but for *)
(* the one a deploy has just returned; all of these are of the past.         *)
LEMMA StepVouched ==
  ASSUME SessionInv, SessionInv', AttributionInv, ClaimsInv, [Next]_vars,
         NEW t \in Topologies
  PROVE  /\ \A v \in Vouched(t) : v.epoch \in Nat /\ v.epoch <= epoch[t]
         /\ \A v \in Vouched(t)' : v \in Vouched(t) \/ JustDeployed(t, v)
<1> DEFINE Mine(c) == [epoch |-> c.epoch, nodes |-> c.nodes]
           Hand(r) == [epoch |-> Announceable(r), nodes |-> Listed(seen[r])]
<1>0. /\ Vouched(t) = {Mine(c) : c \in {d \in claims : d.topo = t}} \cup
                      {Hand(r) : r \in {q \in Servers : stage[q] = "check" /\ client[q] = t}}
      /\ Vouched(t)' = {Mine(c) : c \in {d \in claims' : d.topo = t}} \cup
                       {Hand(r)' : r \in {q \in Servers : stage'[q] = "check" /\ client'[q] = t}}
      /\ \A c : Mine(c).epoch = c.epoch /\ Mine(c).nodes = c.nodes
      /\ \A r : Hand(r).epoch = Announceable(r) /\ Hand(r).nodes = Listed(seen[r])
      /\ \A r : Hand(r)'.epoch = Announceable(r)' /\ Hand(r)'.nodes = Listed(seen'[r])
      /\ \A r : seen'[r] = seen[r] /\ client'[r] = client[r] => Hand(r)' = Hand(r)
  BY DEF Vouched, Announceable, Listed
<1> HIDE DEF Mine, Hand
<1>1. /\ \A u \in Topologies : epoch[u] \in Nat
      /\ \A c \in claims : c.epoch \in Nat /\ c.epoch <= epoch[c.topo]
      /\ \A s \in Servers, u \in Topologies :
           seen[s].epoch[u] \in Nat /\ seen[s].epoch[u] <= epoch[u]
  BY EpochOrder DEF ClaimsInv, ClaimsPast
<1>2. \A v \in Vouched(t) : v.epoch \in Nat /\ v.epoch <= epoch[t]
  BY <1>0, <1>1 DEF Announceable
<1>3. CASE /\ claims' = claims
           /\ \A s \in Servers : stage'[s] = "check" =>
                stage[s] = "check" /\ seen'[s] = seen[s] /\ client'[s] = client[s]
  BY <1>0, <1>2, <1>3
<1>4. ASSUME NEW s \in Servers, Deployed(client[s]),
             NEW shown \in SUBSET NodesOf(client[s]),
             seen'[s] = Report(shown, epoch', status', addr'),
             claims' = claims, client' = client, client[s] \in Topologies,
             epoch' = [epoch EXCEPT ![client[s]] = @ + 1],
             \A r \in Servers : r # s => stage'[r] = stage[r] /\ seen'[r] = seen[r],
             NEW v \in Vouched(t)', v \notin Vouched(t)
      PROVE  JustDeployed(t, v)
  <2>1. client[s] = t /\ v = Hand(s)'
    BY <1>0, <1>4
  <2>2. v.epoch = epoch'[t] /\ v.nodes = Listed(seen'[s])
    <3>1. Announceable(s)' = epoch'[t]
      BY <1>4, <2>1 DEF Announceable, Report
    <3>2. v.epoch = Announceable(s)' /\ v.nodes = Listed(seen'[s])
      BY <2>1 DEF Hand, Listed, Announceable
    <3> QED  BY <3>1, <3>2
  <2>3. Listed(seen'[s]) \subseteq shown /\ \A n \in Listed(seen'[s]) : status'[n] # "absent"
    BY <1>4 DEF Listed, Report
  <2>4. epoch'[t] = epoch[t] + 1
    BY <1>4, <2>1 DEF SessionInv, TypeOK, LabTypeOK
  <2> QED  BY <1>4, <2>1, <2>2, <2>3, <2>4 DEF JustDeployed
<1>5. ASSUME NEW s \in Servers, NEW id \in RunIds,
             stage[s] = "check", stage'[s] = "ok",
             UNCHANGED <<labVars, client, seen>>,
             \A r \in Servers : r # s => stage'[r] = stage[r],
             claims' = claims \cup
               {[server |-> s, id |-> id, topo |-> client[s],
                 epoch |-> Announceable(s), nodes |-> Listed(seen[s])]}
      PROVE  \A v \in Vouched(t)' : v \in Vouched(t)
  <2> DEFINE new == [server |-> s, id |-> id, topo |-> client[s],
                     epoch |-> Announceable(s), nodes |-> Listed(seen[s])]
  <2>1. Mine(new) = Hand(s) /\ new.topo = client[s]
    BY DEF Mine, Hand
  <2>2. claims' = claims \cup {new}
    BY <1>5
  <2> HIDE DEF new
  <2>3. \A c \in claims' : c.topo = t => Mine(c) \in Vouched(t)
    BY <1>0, <1>5, <2>1, <2>2
  <2>4. \A r \in Servers : stage'[r] = "check" /\ client'[r] = t => Hand(r)' \in Vouched(t)
    BY <1>0, <1>5
  <2> QED  BY <1>0, <2>3, <2>4
<1> QED  BY <1>2, <1>3, <1>4, <1>5, StepClaims

(* Lemma: every step keeps the invariant of the reads. *)
LEMMA ReadsStep ==
  ASSUME SessionInv, SessionInv', AttributionInv, ClaimsInv, ReadsInv, [Next]_vars
  PROVE  ReadsInv'
<1>1. /\ \A t \in Topologies : epoch[t] \in Nat /\ epoch'[t] \in Nat
      /\ \A t \in Topologies : epoch'[t] >= epoch[t]
      /\ \A c \in claims : c.epoch \in Nat /\ c.topo \in Topologies
      /\ \A c \in claims : c.epoch <= epoch[c.topo]
      /\ \A s \in Servers, t \in Topologies :
           seen[s].epoch[t] \in Nat /\ seen[s].epoch[t] <= epoch[t]
  BY EpochOrder DEF ClaimsInv, ClaimsPast
<1>2. ReadsNotStale'
  <2> SUFFICES ASSUME NEW s \in Servers, Reading(s)', NEW c \in claims',
                      c.server = s, c.topo = client'[s]
               PROVE  c.epoch <= seen'[s].epoch[client'[s]]
    BY DEF ReadsNotStale, Reading
  <2>1. CASE /\ Reading(s)
             /\ UNCHANGED <<client[s], req[s], seen[s]>>
             /\ \A d \in claims' \ claims : d.server # s
    BY <2>1 DEF ReadsInv, ReadsNotStale, Reading
  <2>2. CASE /\ UNCHANGED <<client, claims>>
             /\ seen'[s] = Report(NodesOf(client[s]), epoch, status, addr)
    BY <1>1, <2>2 DEF Report
  <2> QED  BY <2>1, <2>2, StepReads
<1>3. VouchedThere'
  <2> SUFFICES ASSUME NEW t \in Topologies, NEW v \in Vouched(t)'
               PROVE  /\ v.nodes \subseteq NodesOf(t)
                      /\ v.epoch = epoch'[t] /\ Exists(t)' => AllThere(v.nodes)'
    BY DEF VouchedThere, NodesOf
  <2>1. CASE JustDeployed(t, v)
    BY <2>1 DEF JustDeployed, AllThere
  <2>2. CASE v \in Vouched(t)
    <3>1. /\ v.nodes \subseteq NodesOf(t)
          /\ v.epoch = epoch[t] /\ Exists(t) => AllThere(v.nodes)
          /\ v.epoch \in Nat /\ v.epoch <= epoch[t]
      BY <2>2, StepVouched DEF ReadsInv, VouchedThere
    <3>2. ASSUME v.epoch = epoch'[t], Exists(t)' PROVE AllThere(v.nodes)'
      <4>1. epoch'[t] = epoch[t]
        BY <1>1, <3>1, <3>2
      <4> QED  BY <3>1, <3>2, <4>1, StepThere DEF AllThere, Kept
    <3> QED  BY <3>1, <3>2
  <2> QED  BY <2>1, <2>2, StepVouched
<1>4. VouchedSeen'
  <2> SUFFICES ASSUME NEW s \in Servers, NEW t \in Topologies, Reading(s)',
                      req'[s].tool # "flow", client'[s] = t,
                      NEW v \in Vouched(t)', v.epoch = seen'[s].epoch[t]
               PROVE  v.nodes \subseteq Listed(seen'[s])
    BY DEF VouchedSeen, Listed
  <2>1. CASE Reading(s) /\ UNCHANGED <<client[s], req[s], seen[s]>>
    <3>1. seen[s].epoch[t] \in Nat /\ seen[s].epoch[t] <= epoch[t] /\ epoch[t] \in Nat
      BY <1>1
    <3>2. v \in Vouched(t)
      BY <2>1, <3>1, StepVouched DEF JustDeployed
    <3>3. v.nodes \subseteq Listed(seen[s])
      BY <2>1, <3>2 DEF ReadsInv, VouchedSeen
    <3> QED  BY <2>1, <3>3
  <2>2. CASE /\ UNCHANGED <<labVars, client>> /\ Exists(client[s])
             /\ seen'[s] = Report(NodesOf(client[s]), epoch, status, addr)
    <3>1. client[s] = t /\ epoch' = epoch /\ Exists(t)
          /\ seen'[s] = Report(NodesOf(t), epoch, status, addr)
      BY <2>2 DEF labVars
    <3>2. seen'[s].epoch[t] = epoch[t]
      BY <3>1 DEF Report
    <3>3. v \in Vouched(t)
      BY <1>1, <3>1, StepVouched DEF JustDeployed
    <3>4. v.nodes \subseteq NodesOf(t) /\ AllThere(v.nodes)
      BY <3>1, <3>2, <3>3 DEF ReadsInv, VouchedThere
    <3> QED  BY <3>1, <3>4 DEF Listed, Report, AllThere, NodesOf
  <2> QED  BY <2>1, <2>2, StepReads
<1> QED  BY <1>2, <1>3, <1>4 DEF ReadsInv

(* Lemma: the invariant of the reads holds before any call. *)
LEMMA ReadsInit == Init => ReadsInv
BY DEF Init, LabInit, ReadsInv, ReadsNotStale, VouchedThere, VouchedSeen, Vouched,
       Reading, Exists, NodesOf

(* The inductive invariant of the reads. *)
THEOREM ReadsInvariant == Spec => []ReadsInv
<1>1. /\ SessionInv /\ SessionInv' /\ AttributionInv /\ ClaimsInv /\ ReadsInv
      /\ [Next]_vars
      => ReadsInv'
  BY ReadsStep
<1> QED
  BY <1>1, ReadsInit, SessionInvariant, AttributionInvariant, ClaimsInvariant, PTL
     DEF Spec

(* Theorem: no read answers about a deployment older than one its server has *)
(* announced for the lab.                                                    *)
THEOREM NoReadStale == Spec => []ReadsNotStale
<1>1. ReadsInv => ReadsNotStale
  BY DEF ReadsInv
<1> QED  BY <1>1, ReadsInvariant, PTL

(* Theorem: an answer about an announced deployment is made from all the     *)
(* containers that the announcement counted.                                 *)
THEOREM CountedListed == Spec => []CountedStaysListed
<1>1. SessionInv /\ ReadsInv => CountedStaysListed
  <2> SUFFICES ASSUME SessionInv, ReadsInv, NEW s \in Servers, NEW c \in claims,
                      About(s, c)
               PROVE  c.nodes \subseteq Listed(seen[s])
    BY DEF CountedStaysListed
  <2>1. c.topo \in Topologies
    BY DEF SessionInv, TypeOK, Claims
  <2>2. [epoch |-> c.epoch, nodes |-> c.nodes] \in Vouched(client[s])
    BY DEF Vouched, About
  <2>3. Reading(s) /\ req[s].tool # "flow"
    BY DEF Reading, ReadTools, About
  <2> QED  BY <2>1, <2>2, <2>3 DEF ReadsInv, VouchedSeen, About
<1> QED  BY <1>1, SessionInvariant, ReadsInvariant, PTL

-----------------------------------------------------------------------------
(* Answers. *)

\* A loop in progress has read only its targets, and a host's read gave a record.
LoopInBounds ==
    \A s \in Servers : stage[s] \in {"exec", "yaml"} =>
        /\ Done(s) \subseteq Targets(req[s].tool, seen[s])
        /\ \A r \in got[s] : r.rows \/ req[s].tool = "fabric"

AnswersInv == LoopInBounds /\ AllOrNothing

\* What AllOrNothing says of an answer.
NothingSkipped(s) ==
    /\ Listed(seen[s]) # {}
    /\ Shown(s) \subseteq Targets(req[s].tool, seen[s])
    /\ \A n \in Targets(req[s].tool, seen[s]) \ Shown(s) :
         Role(n) \in SwitchRoles /\ \E r \in got[s] : r.node = n

\* The part of AnswersInv about one server.
AnswerOK(s) ==
    /\ stage[s] \in {"exec", "yaml"} =>
         /\ Done(s) \subseteq Targets(req[s].tool, seen[s])
         /\ \A r \in got[s] : r.rows \/ req[s].tool = "fabric"
    /\ stage[s] = "ok" /\ req[s].tool \in {"topology", "fabric", "host"} =>
         NothingSkipped(s)

(* Lemma: a loop that has nothing left to read has skipped nothing. *)
LEMMA LoopEnds ==
  ASSUME NEW s \in Servers, AnswerOK(s), stage[s] \in {"exec", "yaml"},
         Pending(s) = {}, Listed(seen[s]) # {}
  PROVE  NothingSkipped(s)
<1>1. Shown(s) \subseteq Done(s) /\ Done(s) = Targets(req[s].tool, seen[s])
  BY DEF AnswerOK, Pending, Shown, Done
<1>2. ASSUME NEW n \in Targets(req[s].tool, seen[s]) \ Shown(s)
      PROVE  Role(n) \in SwitchRoles /\ \E r \in got[s] : r.node = n
  <2>1. PICK r \in got[s] : r.node = n
    BY <1>1 DEF Done
  <2>2. ~ r.rows
    BY <1>2, <2>1 DEF Shown
  <2>3. req[s].tool = "fabric"
    BY <2>2 DEF AnswerOK
  <2>4. Role(n) \in SwitchRoles
    BY <2>3 DEF Targets
  <2> QED  BY <2>1, <2>4
<1> QED  BY <1>1, <1>2 DEF NothingSkipped

(* Lemma: every step keeps what AllOrNothing rests on. *)
LEMMA AnswersStep ==
  ASSUME SessionInv, AnswersInv, [Next]_vars
  PROVE  AnswersInv'
<1> USE DEF Holds
<1>1. \A s \in Servers : AnswerOK(s)
  BY DEF AnswersInv, LoopInBounds, AllOrNothing, AnswerOK, NothingSkipped
<1>2. ASSUME NEW s \in Servers,
             UNCHANGED <<stage[s], req[s], seen[s], got[s]>>
      PROVE  AnswerOK(s)'
  BY <1>1, <1>2 DEF AnswerOK, NothingSkipped, Shown, Done, Listed, Targets
<1>3. ASSUME NEW s \in Servers, NEW st, NEW r, Blank(s, st, r), st \notin {"exec", "yaml", "ok"}
      PROVE  \A q \in Servers : AnswerOK(q)'
  <2>1. stage'[s] = st
    BY <1>3 DEF Blank, SessionInv, TypeOK
  <2>2. AnswerOK(s)'
    BY <1>3, <2>1 DEF AnswerOK
  <2>3. \A q \in Servers : q # s => UNCHANGED <<stage[q], req[q], seen[q], got[q]>>
    BY <1>3 DEF Blank, SessionInv, TypeOK
  <2> QED  BY <1>2, <2>2, <2>3
<1>4. ASSUME NEW s \in Servers, Invoke(s) \/ Restart(s)
      PROVE  \A q \in Servers : AnswerOK(q)'
  <2>1. \E st \in Errors \cup {"deploy", "inspect", "idle"} : \E r : Blank(s, st, r)
    BY <1>4
       DEF Invoke, Restart, RunUnknown, RunNoFile, RunRefused, RunAccepted,
           ReadUnbound, ReadStarted, Raise, Errors
  <2>2. \A st \in Errors \cup {"deploy", "inspect", "idle"} :
          st \notin {"exec", "yaml", "ok"}
    BY DEF Errors
  <2> QED  BY <1>3, <2>1, <2>2
<1>5. ASSUME NEW s \in Servers, Progress(s)
      PROVE  \A q \in Servers : AnswerOK(q)'
  <2>1. CASE \/ DeployFails(s) \/ RunNotRunning(s) \/ RunInvalid(s)
             \/ ReadFailure(s) \/ ExecFails(s)
    <3>1. PICK error \in Errors : Blank(s, error, NoReq)
      BY <2>1
         DEF DeployFails, RunNotRunning, RunInvalid, ReadFailure, InspectFails,
             InspectEmpty, YamlFails, ReadInvalid, ExecFails, Raise, Errors
    <3> QED  BY <1>3, <3>1 DEF Errors
  <2>2. CASE DeployReturns(s) \/ RunCompleted(s)
    <3>1. stage'[s] \notin {"exec", "yaml"} /\ (stage'[s] = "ok" => req'[s].tool = "run")
      BY <2>2 DEF DeployReturns, RunCompleted, SessionInv, TypeOK, CallShape
    <3>2. AnswerOK(s)'
      BY <3>1 DEF AnswerOK
    <3>3. \A q \in Servers : q # s => UNCHANGED <<stage[q], req[q], seen[q], got[q]>>
      <4>1. CASE RunCompleted(s)
        BY <4>1 DEF RunCompleted, SessionInv, TypeOK
      <4>2. CASE DeployReturns(s)
        <5>1. \A q \in Servers : q # s => seen'[q] = seen[q]
          BY <4>2 DEF DeployReturns, SessionInv, TypeOK
        <5> QED  BY <4>2, <5>1 DEF DeployReturns, SessionInv, TypeOK
      <4> QED  BY <2>2, <4>1, <4>2
    <3> QED  BY <1>2, <3>2, <3>3
  <2>3. CASE InspectReturns(s)
    <3>1. /\ got'[s] = {} /\ req'[s] = req[s] /\ req[s].tool \in ReadTools
          /\ seen'[s] = Report(NodesOf(client[s]), epoch, status, addr)
          /\ req[s].tool \in {"fabric", "host"} => stage'[s] = "exec"
          /\ req[s].tool = "topology" => stage'[s] = "yaml"
          /\ req[s].tool = "flow" => stage'[s] = "ok"
          /\ (Exists(client[s]) \/ req[s].tool = "flow")
      <4>1. got[s] = {} /\ req[s].tool \in ReadTools
        BY <2>3 DEF InspectReturns, SessionInv, CallShape
      <4>2. stage \in [Servers -> Returned \cup InFlight] /\ seen \in [Servers -> Reports]
        BY DEF SessionInv, TypeOK
      <4>3. seen'[s] = Report(NodesOf(client[s]), epoch, status, addr)
        BY <2>3, <4>2 DEF InspectReturns
      <4>4. /\ req[s].tool \in {"fabric", "host"} => stage'[s] = "exec"
            /\ req[s].tool = "topology" => stage'[s] = "yaml"
            /\ req[s].tool = "flow" => stage'[s] = "ok"
        BY <2>3, <4>2 DEF InspectReturns, After
      <4>5. req' = req /\ got' = got /\ (Exists(client[s]) \/ req[s].tool = "flow")
        BY <2>3 DEF InspectReturns
      <4> QED  BY <4>1, <4>3, <4>4, <4>5
    <3>2. Done(s)' = {}
      BY <3>1 DEF Done
    <3>5. AnswerOK(s)'
      <4>1. CASE req[s].tool \in {"fabric", "host"}
        <5>1. stage'[s] = "exec"
          BY <3>1, <4>1
        <5> QED  BY <3>1, <3>2, <5>1 DEF AnswerOK
      <4>2. CASE req[s].tool = "topology"
        <5>1. stage'[s] = "yaml"
          BY <3>1, <4>2
        <5> QED  BY <3>1, <3>2, <5>1 DEF AnswerOK
      <4>3. CASE req[s].tool = "flow"
        <5>1. stage'[s] = "ok" /\ req'[s].tool = "flow"
          BY <3>1, <4>3
        <5> QED  BY <5>1 DEF AnswerOK
      <4> QED  BY <3>1, <4>1, <4>2, <4>3 DEF ReadTools
    <3>6. \A q \in Servers : q # s => UNCHANGED <<stage[q], req[q], seen[q], got[q]>>
      BY <2>3 DEF InspectReturns, SessionInv, TypeOK
    <3> QED  BY <1>2, <3>5, <3>6
  <2>4. ASSUME NEW n \in Nodes, NEW m \in Nodes, ExecReturns(s, n, m)
        PROVE  \A q \in Servers : AnswerOK(q)'
    <3>0. PICK rows \in (IF req[s].tool = "fabric" THEN BOOLEAN ELSE {TRUE}) :
            got' = [got EXCEPT ![s] = @ \cup
                      {[node |-> n, from |-> m, epoch |-> epoch[Home[m]], rows |-> rows]}]
      BY <2>4 DEF ExecReturns
    <3> DEFINE new == [node |-> n, from |-> m, epoch |-> epoch[Home[m]], rows |-> rows]
    <3>1. /\ Done(s)' = Done(s) \cup {n}
          /\ \A r \in got'[s] : r \in got[s] \/ r.rows \/ req[s].tool = "fabric"
      <4>1. got'[s] = got[s] \cup {new}
        BY <3>0 DEF SessionInv, TypeOK
      <4>2. new.node = n /\ (new.rows \/ req[s].tool = "fabric")
        OBVIOUS
      <4> HIDE DEF new
      <4> QED  BY <4>1, <4>2 DEF Done
    <3>2. n \in Targets(req[s].tool, seen[s]) /\ stage[s] = "exec"
          /\ UNCHANGED <<stage, req, seen>>
      BY <2>4 DEF ExecReturns, Pending
    <3>3. AnswerOK(s)'
      BY <1>1, <3>1, <3>2 DEF AnswerOK, Targets, Listed
    <3>4. \A q \in Servers : q # s => UNCHANGED <<stage[q], req[q], seen[q], got[q]>>
      BY <2>4, <3>0 DEF ExecReturns, SessionInv, TypeOK
    <3> QED  BY <1>2, <3>3, <3>4
  <2>5. CASE ExecFinished(s)
    <3>1. UNCHANGED <<req, seen, got>> /\ Pending(s) = {} /\ stage[s] = "exec"
          /\ stage' = [stage EXCEPT ![s] = "ok"] /\ stage'[s] = "ok"
      BY <2>5 DEF ExecFinished, SessionInv, TypeOK
    <3>2. NothingSkipped(s)
      BY <1>1, <3>1, LoopEnds DEF SessionInv, CallShape
    <3>3. AnswerOK(s)'
      BY <3>1, <3>2 DEF AnswerOK, NothingSkipped, Targets, Listed, Shown
    <3>4. \A q \in Servers : q # s => UNCHANGED <<stage[q], req[q], seen[q], got[q]>>
      BY <3>1 DEF SessionInv, TypeOK
    <3> QED  BY <1>2, <3>3, <3>4
  <2>6. CASE YamlRead(s)
    <3>1. UNCHANGED <<req, seen, got>> /\ stage' = [stage EXCEPT ![s] = "ok"]
          /\ stage'[s] = "ok" /\ stage[s] = "yaml"
      BY <2>6 DEF YamlRead, SessionInv, TypeOK
    <3>2. NothingSkipped(s)
      <4>1. Listed(seen[s]) # {} /\ req[s].tool = "topology"
        BY <3>1 DEF SessionInv, CallShape
      <4>2. Pending(s) = {}
        BY <4>1 DEF Pending, Targets
      <4> QED  BY <1>1, <3>1, <4>1, <4>2, LoopEnds
    <3>3. AnswerOK(s)'
      BY <3>1, <3>2 DEF AnswerOK, NothingSkipped, Targets, Listed, Shown
    <3>4. \A q \in Servers : q # s => UNCHANGED <<stage[q], req[q], seen[q], got[q]>>
      BY <3>1 DEF SessionInv, TypeOK
    <3> QED  BY <1>2, <3>3, <3>4
  <2> QED
    BY <1>5, <2>1, <2>2, <2>3, <2>4, <2>5, <2>6 DEF Progress, RunStep, CountersStep
<1>6. CASE Outside \/ UNCHANGED vars
  <2>1. UNCHANGED <<stage, req, seen, got>>
    BY <1>6 DEF vars, Outside, OutsideDeploy, OutsideDestroy, ContainerExit
  <2> QED  BY <1>2, <2>1 DEF AnswersInv, LoopInBounds, AllOrNothing, AnswerOK, NothingSkipped
<1> QED
  BY <1>4, <1>5, <1>6 DEF Next, AnswersInv, LoopInBounds, AllOrNothing, AnswerOK, NothingSkipped

(* Theorem: a counters or topology answer is about a lab inspect listed; a   *)
(* counters answer has every host of it, and lacks a switch only if the dump *)
(* of that switch was read and had no port.                                  *)
THEOREM AnswersComplete == Spec => []AllOrNothing
<1>1. Init => AnswersInv
  BY DEF Init, AnswersInv, LoopInBounds, AllOrNothing
<1>2. SessionInv /\ AnswersInv /\ [Next]_vars => AnswersInv'
  BY AnswersStep
<1>3. AnswersInv => AllOrNothing
  BY DEF AnswersInv
<1> QED  BY <1>1, <1>2, <1>3, SessionInvariant, PTL DEF Spec

(* Theorem: no step of a call touches a lab that is up.                      *)
THEOREM LabsSpared == Spec => CallsSpareLabs
<1> DEFINE Spared == <<client, stage, got>>' # <<client, stage, got>> =>
                       \A t \in Topologies : Exists(t) =>
                         /\ epoch'[t] = epoch[t]
                         /\ \A n \in NodesOf(t) :
                              status'[n] = status[n] /\ addr'[n] = addr[n]
<1>1. SessionInv /\ [Next]_vars => [Spared]_vars
  <2> SUFFICES ASSUME SessionInv, Next PROVE Spared
    OBVIOUS
  <2>1. CASE UNCHANGED labVars
    BY <2>1 DEF labVars
  <2>2. CASE Outside
    BY <2>2 DEF Outside, OutsideDeploy, OutsideDestroy, ContainerExit
  <2>3. ASSUME NEW s \in Servers, DeployFails(s) \/ DeployReturns(s)
        PROVE  Spared
    <3>1. client[s] \in Topologies
      BY <2>3, ServerAssumption DEF DeployFails, DeployReturns, Holds, SessionInv, CallShape
    <3>2. CASE \E made \in SUBSET NodesOf(client[s]) : CreateLab(client[s], made)
      <4>1. Deployed(client[s])
        BY <3>1, <3>2, DeployStep DEF SessionInv, TypeOK
      <4> QED
        BY <3>1, <4>1 DEF Deployed, NodesOf, SessionInv, TypeOK, LabTypeOK
    <3> QED  BY <2>1, <2>3, <3>2 DEF DeployFails, DeployReturns
  <2>4. ASSUME NEW s \in Servers, Invoke(s) \/ Progress(s) \/ Restart(s),
               ~ DeployFails(s), ~ DeployReturns(s)
        PROVE  UNCHANGED labVars
    BY <2>4
       DEF Invoke, Progress, RunStep, CountersStep, ReadFailure, Restart, RunUnknown,
           RunNoFile, RunRefused, RunAccepted, ReadUnbound, ReadStarted, RunNotRunning,
           RunInvalid, RunCompleted, InspectFails, InspectEmpty, InspectReturns,
           YamlRead, YamlFails, ReadInvalid, ExecReturns, ExecFails, ExecFinished
  <2> QED  BY <2>1, <2>2, <2>3, <2>4 DEF Next, Progress, RunStep
<1> QED  BY <1>1, SessionInvariant, PTL DEF Spec, CallsSpareLabs

-----------------------------------------------------------------------------
(* Calls only move ahead. *)

Locals(s) == <<stage[s], req[s], seen[s], got[s]>>

\* The call is a stage, or a turn of its loop, nearer to its end.
Nearer(s) ==
    \/ Remaining(stage[s])' < Remaining(stage[s])
    \/ /\ UNCHANGED <<stage[s], req[s], seen[s]>>
       /\ Pending(s)' \subseteq Pending(s) /\ Pending(s)' # Pending(s)

(* Lemma: a call whose stage becomes one that a call ends with is nearer.    *)
LEMMA EndIsNearer ==
  ASSUME NEW s \in Servers, stage[s] \in InFlight, stage'[s] \in Returned
  PROVE  Nearer(s)
BY DEF Nearer, Remaining, InFlight, Returned, Errors

(* Lemma: every step of its own gets a call in progress nearer to its end.   *)
LEMMA ProgressIsNearer ==
  ASSUME TypeOK, NEW s \in Servers, Progress(s)
  PROVE  Nearer(s)
<1> USE DEF Holds
<1>1. \A st, r : Blank(s, st, r) => stage'[s] = st
  BY DEF TypeOK, Blank
<1>2. CASE DeployFails(s) \/ RunNotRunning(s) \/ RunInvalid(s) \/ ExecFails(s)
           \/ ReadFailure(s)
  <2>1. stage[s] \in InFlight
    BY <1>2 DEF DeployFails, RunNotRunning, RunInvalid, ExecFails, ReadFailure,
                InspectFails, InspectEmpty, YamlFails, ReadInvalid, InFlight
  <2>2. stage'[s] \in Errors
    BY <1>1, <1>2 DEF DeployFails, RunNotRunning, RunInvalid, ExecFails, ReadFailure,
                InspectFails, InspectEmpty, YamlFails, ReadInvalid, Raise, Errors
  <2> QED  BY <2>1, <2>2, EndIsNearer DEF Returned
<1>3. CASE RunCompleted(s) \/ YamlRead(s) \/ ExecFinished(s)
  <2>1. stage[s] \in InFlight /\ stage'[s] = "ok"
    BY <1>3 DEF RunCompleted, YamlRead, ExecFinished, TypeOK, InFlight
  <2> QED  BY <2>1, EndIsNearer DEF Returned
<1>4. CASE DeployReturns(s)
  <2>1. stage[s] = "deploy" /\ stage'[s] = "check"
    BY <1>4 DEF DeployReturns, TypeOK
  <2> QED  BY <2>1 DEF Nearer, Remaining
<1>5. CASE InspectReturns(s)
  <2>1. stage[s] = "inspect" /\ stage'[s] = After(req[s].tool)
    BY <1>5 DEF InspectReturns, TypeOK
  <2>2. After(req[s].tool) \in {"exec", "yaml", "ok"}
    BY DEF After
  <2> QED  BY <2>1, <2>2 DEF Nearer, Remaining
<1>6. ASSUME NEW n \in Nodes, NEW m \in Nodes, ExecReturns(s, n, m)
      PROVE  Nearer(s)
  <2>0. PICK rows \in BOOLEAN :
          got' = [got EXCEPT ![s] = @ \cup
                    {[node |-> n, from |-> m, epoch |-> epoch[Home[m]], rows |-> rows]}]
    BY <1>6 DEF ExecReturns
  <2> DEFINE record == [node |-> n, from |-> m, epoch |-> epoch[Home[m]], rows |-> rows]
  <2>1. /\ UNCHANGED <<stage, req, seen>> /\ n \in Pending(s)
        /\ got'[s] = got[s] \cup {record} /\ record.node = n
    BY <1>6, <2>0 DEF ExecReturns, TypeOK
  <2> HIDE DEF record
  <2>2. Done(s)' = Done(s) \cup {n}
    <3>1. Done(s)' = {r.node : r \in got'[s]}
      BY DEF Done
    <3> QED  BY <2>1, <3>1 DEF Done
  <2>3. Pending(s)' = Pending(s) \ {n}
    BY <2>1, <2>2 DEF Pending, Targets, Listed
  <2> QED  BY <2>1, <2>3 DEF Nearer
<1> QED  BY <1>2, <1>3, <1>4, <1>5, <1>6 DEF Progress, RunStep, CountersStep

(* Lemma: nobody else's step touches a call's locals. *)
LEMMA OthersStandStill ==
  ASSUME TypeOK, NEW s \in Servers, NEW r \in Servers, r # s,
         Invoke(r) \/ Progress(r) \/ Restart(r)
  PROVE  UNCHANGED Locals(s)
<1>1. /\ \A st, q : Blank(r, st, q) => UNCHANGED Locals(s)
      /\ \A st : stage' = [stage EXCEPT ![r] = st] => stage'[s] = stage[s]
  BY DEF TypeOK, Blank, Locals
<1>2. CASE Invoke(r) \/ Restart(r)
  BY <1>1, <1>2 DEF Invoke, RunUnknown, RunNoFile, RunRefused, RunAccepted, ReadUnbound,
                    ReadStarted, Restart, Raise
<1>3. CASE RunStep(r)
  BY <1>1, <1>3 DEF RunStep, DeployFails, DeployReturns, RunNotRunning, RunInvalid,
                    RunCompleted, Raise, Locals, TypeOK
<1>4. CASE CountersStep(r)
  BY <1>1, <1>4 DEF CountersStep, ExecReturns, ExecFails, ExecFinished, Raise, Locals, TypeOK
<1>5. CASE InspectReturns(r) \/ YamlRead(r) \/ ReadFailure(r)
  BY <1>1, <1>5 DEF InspectReturns, YamlRead, ReadFailure, InspectFails, InspectEmpty,
                    YamlFails, ReadInvalid, Raise, Locals, TypeOK
<1> QED  BY <1>2, <1>3, <1>4, <1>5 DEF Progress

(* Theorem: whatever changes a call in progress brings it nearer to its end. *)
THEOREM CallsMoveAhead == Spec => CallsAdvance
<1> DEFINE Ahead == \A s \in Servers :
                      stage[s] \in InFlight /\ Locals(s)' # Locals(s) => Nearer(s)
<1>1. TypeOK /\ [Next]_vars => [Ahead]_vars
  <2> SUFFICES ASSUME TypeOK, Next, NEW s \in Servers,
                      stage[s] \in InFlight, Locals(s)' # Locals(s)
               PROVE  Nearer(s)
    OBVIOUS
  <2>1. CASE Outside
    BY <2>1 DEF Outside, OutsideDeploy, OutsideDestroy, ContainerExit, Locals
  <2>2. ASSUME NEW r \in Servers, Invoke(r) \/ Progress(r) \/ Restart(r)
        PROVE  Nearer(s)
    <3>1. r = s
      BY <2>2, OthersStandStill
    <3>2. ~ Invoke(s)
      BY DEF Invoke, RunUnknown, RunNoFile, RunRefused, RunAccepted, ReadUnbound,
             ReadStarted, Free, InFlight, Returned, Errors
    <3>3. CASE Restart(s)
      <4>1. stage'[s] = "idle"
        BY <3>3 DEF Restart, Blank, TypeOK
      <4> QED  BY <4>1, EndIsNearer DEF Returned
    <3> QED  BY <2>2, <3>1, <3>2, <3>3, ProgressIsNearer
  <2> QED  BY <2>1, <2>2 DEF Next
<1>2. [Ahead]_vars <=>
        [\A s \in Servers :
           /\ stage[s] \in InFlight
           /\ <<stage[s], req[s], seen[s], got[s]>>' # <<stage[s], req[s], seen[s], got[s]>>
           => \/ Remaining(stage[s])' < Remaining(stage[s])
              \/ /\ UNCHANGED <<stage[s], req[s], seen[s]>>
                 /\ Pending(s)' \subseteq Pending(s) /\ Pending(s)' # Pending(s)]_vars
  BY DEF Locals, Nearer
<1> HIDE DEF Ahead
<1> QED  BY <1>1, <1>2, TypeCorrect, PTL DEF Spec, CallsAdvance
=============================================================================
