------------------------ MODULE DeploymentLedgerProofs ------------------------
(***************************************************************************)
(* AdapterServer implements DeploymentLedger, for any servers and labs.    *)
(***************************************************************************)
EXTENDS AdapterServerProofs

(* Lemma: a server holds a deployment exactly between deploy and check.      *)
LEMMA HeldOrNone ==
  ASSUME SessionInv, NEW s \in Servers
  PROVE  /\ Held[s] = InHand(s)
         /\ stage[s] = "check" => /\ InHand(s) = <<client[s], Announceable(s)>>
                                  /\ InHand(s) # None
         /\ stage[s] # "check" => InHand(s) = None
<1>1. Held[s] = InHand(s)
  BY DEF Held
<1>2. ASSUME stage[s] = "check"
      PROVE  client[s] \in Topologies /\ Announceable(s) \in Nat
  <2>1. client[s] \in Topologies
    BY <1>2, ServerAssumption DEF SessionInv, CallShape
  <2>2. seen[s].epoch \in [Topologies -> 0 .. MaxEpoch] /\ MaxEpoch \in Nat
    BY LabAssumption DEF SessionInv, TypeOK, Reports
  <2> QED  BY <2>1, <2>2 DEF Announceable
<1>3. stage[s] = "check" => <<client[s], Announceable(s)>> # None
  BY <1>2, ServerAssumption
<1> QED  BY <1>1, <1>3 DEF InHand, Holds, Announceable

(* Lemma: a step of one server's call changes what that server holds only.   *)
LEMMA HeldByOne ==
  ASSUME NEW s \in Servers,
         \A r \in Servers : r # s =>
            stage'[r] = stage[r] /\ client'[r] = client[r] /\ seen'[r] = seen[r]
  PROVE  Held' = [Held EXCEPT ![s] = InHand(s)']
<1>1. \A r \in Servers : r # s => InHand(r)' = InHand(r)
  BY DEF InHand, Holds
<1>2. Held' = [r \in Servers |-> InHand(r)']
  BY DEF Held
<1>3. Held = [r \in Servers |-> InHand(r)]
  BY DEF Held
<1> QED  BY <1>1, <1>2, <1>3

(* Lemma: nor does a step change anything if that server goes on holding     *)
(* nothing; and it forgets, if it held something and does not any more.      *)
LEMMA QuietLedger ==
  ASSUME SessionInv, SessionInv', NEW s \in Servers, UNCHANGED <<epoch, claims>>,
         \A r \in Servers : r # s =>
            stage'[r] = stage[r] /\ client'[r] = client[r] /\ seen'[r] = seen[r],
         stage'[s] # "check"
  PROVE  Ledger!Forget(s) \/ UNCHANGED <<epoch, Held, Announced>>
<1>1. Held' = [Held EXCEPT ![s] = None]
  <2>1. InHand(s)' = None
    BY DEF InHand, Holds
  <2> QED  BY <2>1, HeldByOne
<1>2. Announced' = Announced
  BY DEF Announced
<1>3. CASE Held[s] = None
  <2>1. Held' = Held
    BY <1>1, <1>3 DEF Held
  <2> QED  BY <1>2, <2>1
<1>4. CASE Held[s] # None
  BY <1>1, <1>2, <1>4 DEF Ledger!Forget
<1> QED  BY <1>3, <1>4

(* Lemma: a deployment by somebody who does not answer for it. *)
LEMMA UnheldLedger ==
  ASSUME NEW t \in Topologies, Deployed(t), UNCHANGED <<Held, Announced>>
  PROVE  Ledger!MakeUnheld(t)
BY DEF Deployed, Ledger!MakeUnheld, Ledger!Make

(* Lemma: the others' part of a step of one server. *)
LEMMA OthersKept ==
  ASSUME SessionInv, NEW s \in Servers, Invoke(s) \/ Progress(s) \/ Restart(s)
  PROVE  \A r \in Servers : r # s =>
            stage'[r] = stage[r] /\ client'[r] = client[r] /\ seen'[r] = seen[r]
<1>1. CASE Restart(s)
  BY <1>1 DEF Restart, Blank, SessionInv, TypeOK
<1>2. CASE Invoke(s)
  BY <1>2 DEF Invoke, RunUnknown, RunNoFile, RunRefused, RunAccepted, ReadUnbound,
              ReadStarted, Raise, Blank, SessionInv, TypeOK
<1>3. CASE \/ DeployFails(s) \/ RunNotRunning(s) \/ RunInvalid(s) \/ ReadFailure(s)
           \/ ExecFails(s)
  <2>1. client' = client /\ \E error \in Errors : Blank(s, error, NoReq)
    BY <1>3
       DEF DeployFails, RunNotRunning, RunInvalid, ReadFailure, InspectFails,
           InspectEmpty, YamlFails, ReadInvalid, ExecFails, Raise, Errors
  <2> QED  BY <2>1 DEF Blank, SessionInv, TypeOK
<1>4. CASE RunCompleted(s) \/ InspectReturns(s) \/ YamlRead(s)
           \/ ExecFinished(s) \/ \E n, m \in Nodes : ExecReturns(s, n, m)
  BY <1>4 DEF RunCompleted, InspectReturns, YamlRead, ExecFinished,
              ExecReturns, SessionInv, TypeOK
<1>5. CASE DeployReturns(s)
  <2>1. client[s] \in Topologies
    BY <1>5, ServerAssumption DEF DeployReturns, Holds, SessionInv, CallShape
  <2>2. seen' = [seen EXCEPT ![s] = seen'[s]]
    BY <1>5, <2>1, DeployReturned DEF SessionInv, TypeOK
  <2> QED  BY <1>5, <2>2 DEF DeployReturns, SessionInv, TypeOK
<1> QED  BY <1>1, <1>2, <1>3, <1>4, <1>5 DEF Progress, RunStep, CountersStep

(* Lemma: a server's steps are steps of the ledger. *)
LEMMA ServerLedger ==
  ASSUME SessionInv, SessionInv', NEW s \in Servers,
         Invoke(s) \/ Progress(s) \/ Restart(s)
  PROVE  Ledger!Next \/ UNCHANGED <<epoch, Held, Announced>>
<1> USE DEF Holds
<1>1. \A r \in Servers : r # s =>
         stage'[r] = stage[r] /\ client'[r] = client[r] /\ seen'[r] = seen[r]
  BY OthersKept
<1>2. stage \in [Servers -> Returned \cup InFlight]
  BY DEF SessionInv, TypeOK
<1>3. CASE DeployReturns(s)
  <2>1. /\ client[s] \in Topologies /\ stage[s] = "deploy" /\ stage'[s] = "check"
        /\ UNCHANGED <<client, claims>>
    BY <1>3, ServerAssumption DEF DeployReturns, SessionInv, CallShape, TypeOK
  <2>0. /\ Deployed(client[s])
        /\ \E shown : seen'[s] = Report(shown, epoch', status', addr')
    BY <1>3, <2>1, DeployReturned DEF SessionInv, TypeOK
  <2>2. epoch' = [epoch EXCEPT ![client[s]] = @ + 1] /\ epoch'[client[s]] = epoch[client[s]] + 1
    BY <2>0, <2>1 DEF Deployed, SessionInv, TypeOK, LabTypeOK
  <2>3. InHand(s)' = <<client[s], epoch[client[s]] + 1>>
    BY <2>0, <2>1, <2>2 DEF InHand, Report
  <2>4. Held' = [Held EXCEPT ![s] = <<client[s], epoch[client[s]] + 1>>]
    BY <1>1, <2>3, HeldByOne
  <2>5. Held[s] = None
    BY <2>1, HeldOrNone
  <2>6. Announced' = Announced
    BY <2>1 DEF Announced
  <2>7. Ledger!MakeHeld(s, client[s])
    BY <2>2, <2>4, <2>5, <2>6 DEF Ledger!MakeHeld, Ledger!Make
  <2> QED  BY <2>1, <2>7 DEF Ledger!Next
<1>4. CASE RunCompleted(s)
  <2> DEFINE new == [server |-> s, id |-> req[s].id, topo |-> client[s],
                     epoch |-> seen[s].epoch[client[s]], nodes |-> Listed(seen[s])]
  <2>1. /\ stage[s] = "check" /\ stage'[s] = "ok" /\ epoch' = epoch
        /\ claims' = claims \cup {new}
    BY <1>2, <1>4 DEF RunCompleted, labVars
  <2>2. Held[s] = <<client[s], seen[s].epoch[client[s]]>> /\ Held[s] # None
    BY <2>1, HeldOrNone DEF Announceable
  <2>3. <<new.server, <<new.topo, new.epoch>>>> = <<s, Held[s]>>
    BY <2>2
  <2> HIDE DEF new
  <2>4. Announced' = Announced \cup {<<s, Held[s]>>}
    BY <2>1, <2>3 DEF Announced
  <2>5. Held' = [Held EXCEPT ![s] = None]
    <3>1. InHand(s)' = None
      BY <2>1 DEF InHand
    <3> QED  BY <1>1, <3>1, HeldByOne
  <2> QED  BY <2>1, <2>2, <2>4, <2>5 DEF Ledger!Announce, Ledger!Next
<1>5. CASE DeployFails(s)
  <2>1. /\ stage'[s] # "check" /\ stage[s] = "deploy" /\ claims' = claims
        /\ client[s] \in Topologies
    BY <1>2, <1>5, ServerAssumption
       DEF DeployFails, Raise, Blank, SessionInv, CallShape
  <2>2. CASE UNCHANGED labVars
    BY <1>1, <2>1, <2>2, QuietLedger DEF labVars, Ledger!Next
  <2>3. CASE \E made \in SUBSET NodesOf(client[s]) : CreateLab(client[s], made)
    <3>1. Deployed(client[s])
      BY <2>1, <2>3, DeployStep DEF SessionInv, TypeOK
    <3>2. Held' = Held
      <4>1. InHand(s)' = None /\ Held[s] = None
        BY <2>1, HeldOrNone DEF InHand
      <4> QED  BY <1>1, <4>1, HeldByOne DEF Held
    <3>3. Announced' = Announced
      BY <2>1 DEF Announced
    <3> QED  BY <2>1, <3>1, <3>2, <3>3, UnheldLedger DEF Ledger!Next
  <2> QED  BY <1>5, <2>2, <2>3 DEF DeployFails
<1>6. ASSUME ~ DeployReturns(s), ~ RunCompleted(s), ~ DeployFails(s)
      PROVE  UNCHANGED <<epoch, claims>> /\ stage'[s] # "check"
  <2>1. CASE Restart(s) \/ Invoke(s)
    BY <1>2, <2>1
       DEF Restart, Invoke, RunUnknown, RunNoFile, RunRefused, RunAccepted,
           ReadUnbound, ReadStarted, Raise, Blank, labVars
  <2>2. CASE RunNotRunning(s) \/ RunInvalid(s) \/ ReadFailure(s) \/ ExecFails(s)
    <3>1. UNCHANGED <<epoch, claims>> /\ \E error \in Errors : Blank(s, error, NoReq)
      BY <2>2
         DEF RunNotRunning, RunInvalid, ReadFailure, InspectFails, InspectEmpty,
             YamlFails, ReadInvalid, ExecFails, Raise, Errors, labVars
    <3> QED  BY <1>2, <3>1 DEF Blank, Errors
  <2>3. CASE InspectReturns(s) \/ YamlRead(s) \/ ExecFinished(s)
             \/ \E n, m \in Nodes : ExecReturns(s, n, m)
    BY <1>2, <2>3 DEF InspectReturns, After, YamlRead, ExecFinished, ExecReturns, labVars
  <2> QED
    BY <1>6, <2>1, <2>2, <2>3 DEF Progress, RunStep, CountersStep
<1>7. CASE ~ DeployReturns(s) /\ ~ RunCompleted(s) /\ ~ DeployFails(s)
  BY <1>1, <1>6, <1>7, QuietLedger DEF Ledger!Next
<1> QED  BY <1>3, <1>4, <1>5, <1>7

(* Theorem: the servers keep the ledger of deployments: a ready answer is    *)
(* about a deployment its own call made, and one that failed its check, whose*)
(* answer was invalid or whose server died is never announced.               *)
THEOREM ServersKeepLedger == Spec => ImplementsLedger
<1>1. Init => Ledger!Init
  <2> SUFFICES ASSUME Init PROVE Ledger!Init
    OBVIOUS
  <2>1. Held = [s \in Servers |-> None]
    BY DEF Init, Held, InHand, Holds
  <2>2. Announced = {}
    BY DEF Init, Announced
  <2> QED  BY <2>1, <2>2 DEF Init, LabInit, Ledger!Init
<1>2. SessionInv /\ SessionInv' /\ [Next]_vars => [Ledger!Next]_(Ledger!vars)
  <2> SUFFICES ASSUME SessionInv, SessionInv', [Next]_vars
               PROVE  Ledger!Next \/ UNCHANGED <<epoch, Held, Announced>>
    BY DEF Ledger!vars
  <2>1. ASSUME NEW s \in Servers, Invoke(s) \/ Progress(s) \/ Restart(s)
        PROVE  Ledger!Next \/ UNCHANGED <<epoch, Held, Announced>>
    BY <2>1, ServerLedger
  <2>2. CASE Outside \/ UNCHANGED vars
    <3>1. UNCHANGED <<Held, Announced>>
      <4>1. UNCHANGED <<client, stage, seen, claims>>
        BY <2>2 DEF vars, Outside, OutsideDeploy, OutsideDestroy, ContainerExit
      <4> QED  BY <4>1 DEF Held, InHand, Holds, Announced
    <3>2. ASSUME NEW t \in Topologies, OutsideDeploy(t) PROVE Deployed(t)
      BY <3>2, DeployStep DEF OutsideDeploy, SessionInv, TypeOK
    <3>3. CASE \E t \in Topologies : OutsideDeploy(t)
      BY <3>1, <3>2, <3>3, UnheldLedger DEF Ledger!Next
    <3>4. CASE UNCHANGED epoch
      BY <3>1, <3>4
    <3> QED
      BY <2>2, <3>3, <3>4 DEF vars, Outside, OutsideDestroy, ContainerExit, Destroy, Exit
  <2> QED  BY <2>1, <2>2 DEF Next
<1> QED
  BY <1>1, <1>2, SessionInvariant, PTL DEF Spec, ImplementsLedger, Ledger!Spec
=============================================================================
