--------------------------- MODULE SmokeRunProofs ----------------------------
(***************************************************************************)
(* Theorems about SmokeRun, for any numbers of runs and any lab.           *)
(***************************************************************************)
EXTENDS SmokeRun, LabProofs

(* Epochs: the lab that is up was deployed, by one of the runs, since every  *)
(* clean slate; a run that has not deployed yet has no epoch of its own.     *)
Epochs ==
    /\ Exists(Topo) => epoch[Topo] > 0
    /\ epoch[Topo] > 0 => \E q \in Runs : mine[q] = epoch[Topo]
    /\ \A r \in Runs :
         /\ mine[r] <= epoch[Topo]
         /\ pc[r] \in {"clean", "deploy"} => mine[r] = 0
         /\ base[r] <= MaxEpoch => base[r] <= epoch[Topo]
         /\ base[r] <= MaxEpoch /\ Exists(Topo) => base[r] < epoch[Topo]

(* How a run that has exited ended, and whose step capture is. *)
Ended ==
    \A r \in Runs :
        /\ pc[r] = "capture" => r \in CaptureRuns
        /\ ending[r] = "aborted" => r \in CaptureRuns
        /\ pc[r] = "exited" => ending[r] # "none"
        /\ r \in Step3Runs => ending[r] \notin {"deploy refused", "deploy failed"}
        /\ ending[r] = "deploy refused" => mine[r] = 0
        /\ ending[r] # "none" => pc[r] = "exited"

SmokeInv == TypeOK /\ Epochs /\ Ended /\ NothingLeftBehind

-----------------------------------------------------------------------------
(* Lemma: what the lab operations do to whether the lab is up. *)
LEMMA Ups ==
  ASSUME LabTypeOK
  PROVE  /\ Destroy(Topo) => ~ Exists(Topo)'
         /\ \A n \in Nodes : Exit(n) /\ Exists(Topo)' => Exists(Topo)
<1>1. Destroy(Topo) => ~ Exists(Topo)'
  BY DEF Destroy, Exists, NodesOf, LabTypeOK
<1>2. ASSUME NEW n \in Nodes, Exit(n), Exists(Topo)'
      PROVE  Exists(Topo)
  BY <1>2 DEF Exit, Exists, NodesOf, LabTypeOK
<1> QED  BY <1>1, <1>2

(* Lemma: the invariant holds when no run has started. *)
LEMMA SmokeInit == Init => SmokeInv
<1> SUFFICES ASSUME Init PROVE SmokeInv
  OBVIOUS
<1> USE LabAssumption, SmokeAssumption
<1>1. LabTypeOK
  BY DEF Init, LabInit, LabTypeOK, Statuses
<1>2. TypeOK
  BY <1>1 DEF Init, TypeOK, Steps, Reading, Endings
<1>3. epoch[Topo] = 0 /\ ~ Exists(Topo)
  BY DEF Init, LabInit, Exists, NodesOf
<1>4. \A r \in Runs : mine[r] = 0 /\ ~ (base[r] <= MaxEpoch)
  BY DEF Init
<1>5. \A r \in Runs : ending[r] = "none" /\ pc[r] \notin {"exited", "capture"}
  BY DEF Init
<1>6. Epochs
  <2>1. ~ (epoch[Topo] > 0) /\ \A r \in Runs : mine[r] <= epoch[Topo]
    BY <1>3, <1>4
  <2> QED  BY <2>1, <1>3, <1>4 DEF Epochs
<1>7. Ended
  BY <1>5 DEF Ended
<1>8. NothingLeftBehind
  BY <1>5 DEF NothingLeftBehind
<1> QED  BY <1>2, <1>6, <1>7, <1>8 DEF SmokeInv

(* Lemma: a run's deploy, whole or partial, keeps the epochs in order. *)
LEMMA DeployEpochs ==
  ASSUME SmokeInv, NEW r \in Runs, NEW made \in SUBSET NodesOf(Topo),
         pc[r] = "deploy", CreateLab(Topo, made),
         mine' = [mine EXCEPT ![r] = epoch'[Topo]], UNCHANGED base,
         NEW to \in Steps \ {"clean", "deploy"}, pc' = [pc EXCEPT ![r] = to]
  PROVE  /\ LabTypeOK' /\ mine' \in [Runs -> 0 .. MaxEpoch] /\ Epochs'
         /\ epoch'[Topo] = epoch[Topo] + 1
<1>1. LabTypeOK' /\ Deployed(Topo)
  BY DeployStep, SmokeAssumption DEF SmokeInv, TypeOK
<1>2. epoch'[Topo] = epoch[Topo] + 1 /\ epoch[Topo] \in Nat /\ MaxEpoch \in Nat
  BY <1>1, LabAssumption, SmokeAssumption DEF Deployed, SmokeInv, TypeOK, LabTypeOK
<1>3. epoch'[Topo] \in 0 .. MaxEpoch
  BY <1>1, SmokeAssumption DEF LabTypeOK
<1>4. mine' \in [Runs -> 0 .. MaxEpoch] /\ mine'[r] = epoch'[Topo]
  BY <1>3 DEF SmokeInv, TypeOK
<1>5. \A q \in Runs : q # r => mine'[q] = mine[q] /\ pc'[q] = pc[q]
  BY DEF SmokeInv, TypeOK
<1>6. pc'[r] \notin {"clean", "deploy"}
  BY DEF SmokeInv, TypeOK
<1>7. \A q \in Runs : mine[q] \in Nat /\ base[q] \in Nat
  BY LabAssumption DEF SmokeInv, TypeOK
<1>8. ASSUME NEW q \in Runs
      PROVE  /\ mine'[q] <= epoch'[Topo]
             /\ pc'[q] \in {"clean", "deploy"} => mine'[q] = 0
             /\ base'[q] <= MaxEpoch => base'[q] < epoch'[Topo]
  BY <1>2, <1>4, <1>5, <1>6, <1>7 DEF SmokeInv, Epochs
<1>9. Epochs'
  BY <1>2, <1>4, <1>7, <1>8 DEF Epochs
<1> QED  BY <1>1, <1>2, <1>4, <1>9

(* Lemma: the other runs' epochs are older than the one a deploy creates.    *)
LEMMA OlderEpochs ==
  ASSUME SmokeInv, NEW r \in Runs, epoch'[Topo] = epoch[Topo] + 1,
         mine' = [mine EXCEPT ![r] = epoch'[Topo]], NEW q \in Runs, q # r
  PROVE  mine'[q] < epoch'[Topo]
<1>1. mine'[q] = mine[q] /\ mine[q] \in Nat /\ epoch[Topo] \in Nat
  BY LabAssumption, SmokeAssumption DEF SmokeInv, TypeOK, LabTypeOK
<1> QED  BY <1>1 DEF SmokeInv, Epochs

(* Lemma: a step that leaves the labs and the runs' epochs alone keeps the   *)
(* epochs in order.                                                          *)
LEMMA QuietEpochs ==
  ASSUME SmokeInv, UNCHANGED <<labVars, mine, base>>,
         \A r \in Runs : pc'[r] \in {"clean", "deploy"} => pc[r] \in {"clean", "deploy"}
  PROVE  LabTypeOK' /\ Epochs'
BY DEF SmokeInv, TypeOK, LabTypeOK, labVars, Epochs, Exists

(* Lemma: so does a destroy that finds a lab or none. *)
LEMMA DestroyEpochs ==
  ASSUME SmokeInv, Destroyed, UNCHANGED mine,
         \A r \in Runs : base'[r] = base[r] \/ base'[r] = epoch[Topo],
         \A r \in Runs : pc'[r] \in {"clean", "deploy"} => pc[r] \in {"clean", "deploy"}
  PROVE  LabTypeOK' /\ Epochs' /\ ~ Exists(Topo)' /\ epoch' = epoch
<1>1. LabTypeOK' /\ epoch' = epoch
  BY DestroyStep, SmokeAssumption DEF SmokeInv, TypeOK, Destroyed, labVars, LabTypeOK
<1>2. ~ Exists(Topo)'
  BY Ups DEF SmokeInv, TypeOK, Destroyed, labVars, Exists
<1>3. epoch[Topo] \in Nat
  BY LabAssumption, SmokeAssumption DEF SmokeInv, TypeOK, LabTypeOK
<1> QED  BY <1>1, <1>2, <1>3 DEF SmokeInv, Epochs

-----------------------------------------------------------------------------
(* Lemma: a step of a run keeps the invariant. *)
LEMMA RunStep ==
  ASSUME SmokeInv, NEW r \in Runs,
         \/ Clean(r) \/ DeployRefused(r) \/ DeployFails(r) \/ DeployReturns(r)
         \/ ReadLab(r) \/ Inspected(r) \/ Captured(r) \/ FabricRead(r) \/ HostsRead(r)
         \/ Teardown(r) \/ Kill(r)
  PROVE  SmokeInv'
<1> USE DEF Goto, Ends
<1>t. /\ pc \in [Runs -> Steps] /\ ending \in [Runs -> Endings]
      /\ mine \in [Runs -> 0 .. MaxEpoch] /\ base \in [Runs -> 0 .. MaxEpoch + 1]
      /\ saw \in [Runs -> SUBSET (0 .. MaxEpoch)]
      /\ epoch[Topo] \in 0 .. MaxEpoch /\ MaxEpoch \in Nat
  BY LabAssumption, SmokeAssumption DEF SmokeInv, TypeOK, LabTypeOK
<1>1. CASE Clean(r)
  <2>1. CASE Destroyed /\ base' = [base EXCEPT ![r] = epoch[Topo]]
    <3>1. LabTypeOK' /\ Epochs' /\ ~ Exists(Topo)' /\ epoch' = epoch
      BY <1>1, <2>1, <1>t, DestroyEpochs DEF Clean
    <3>2. TypeOK'
      BY <1>1, <2>1, <3>1, <1>t DEF Clean, TypeOK, Steps, Reading
    <3>3. Ended' /\ NothingLeftBehind'
      BY <1>1, <3>1, <1>t DEF Clean, SmokeInv, Ended, NothingLeftBehind
    <3> QED  BY <3>1, <3>2, <3>3 DEF SmokeInv
  <2>2. CASE UNCHANGED <<labVars, base>>
    <3>1. LabTypeOK' /\ Epochs'
      BY <1>1, <2>2, <1>t, QuietEpochs DEF Clean
    <3>2. TypeOK'
      BY <1>1, <2>2, <3>1, <1>t DEF Clean, TypeOK, Steps, Reading
    <3>3. Ended' /\ NothingLeftBehind'
      BY <1>1, <2>2, <1>t DEF Clean, SmokeInv, Ended, NothingLeftBehind, Exists, labVars
    <3> QED  BY <3>1, <3>2, <3>3 DEF SmokeInv
  <2> QED  BY <1>1, <2>1, <2>2 DEF Clean
<1>2. CASE DeployRefused(r)
  <2>1. LabTypeOK' /\ Epochs'
    BY <1>2, <1>t, QuietEpochs DEF DeployRefused, DeployLost
  <2>2. TypeOK'
    BY <1>2, <2>1, <1>t DEF DeployRefused, DeployLost, TypeOK, Steps, Reading, Endings
  <2>3. mine[r] = 0
    BY <1>2 DEF DeployRefused, DeployLost, SmokeInv, Epochs
  <2>4. Ended'
    BY <1>2, <2>3, <1>t, SmokeAssumption DEF DeployRefused, DeployLost, SmokeInv, Ended
  <2>5. epoch[Topo] > 0 /\ UNCHANGED <<epoch, mine>> /\ Exists(Topo)
    BY <1>2 DEF DeployRefused, SmokeInv, Epochs, labVars
  <2>6. \A q \in Runs : q # r => pc'[q] = pc[q] /\ ending'[q] = ending[q]
    BY <1>2, <1>t DEF DeployRefused, DeployLost
  <2>7. ASSUME NEW q \in Runs, (pc[q] = "exited" /\ Exists(Topo) /\ mine[q] = epoch[Topo])'
        PROVE  (\/ ending[q] \in {"killed", "destroy failed"}
                \/ q \notin Step3Runs /\ ending[q] = "deploy failed"
                \/ q \in CaptureRuns /\ ending[q] = "aborted")'
    <3>1. q # r
      BY <2>3, <2>5, <2>7, <1>t
    <3> QED  BY <3>1, <2>5, <2>6, <2>7 DEF SmokeInv, NothingLeftBehind
  <2> QED  BY <2>1, <2>2, <2>4, <2>7 DEF SmokeInv, NothingLeftBehind
<1>3. CASE DeployFails(r)
  <2>1. PICK made \in SUBSET NodesOf(Topo) : CreateLab(Topo, made)
    BY <1>3 DEF DeployFails
  <2>2. PICK to \in Steps \ {"clean", "deploy"} : pc' = [pc EXCEPT ![r] = to]
    BY <1>3 DEF DeployFails, DeployLost, Steps, Reading
  <2>3. /\ LabTypeOK' /\ mine' \in [Runs -> 0 .. MaxEpoch] /\ Epochs'
        /\ epoch'[Topo] = epoch[Topo] + 1
    BY <1>3, <2>1, <2>2, DeployEpochs DEF DeployFails, DeployLost
  <2>4. TypeOK'
    BY <1>3, <2>2, <2>3, <1>t DEF DeployFails, DeployLost, TypeOK, Endings
  <2>5. Ended'
    BY <1>3, <1>t, SmokeAssumption DEF DeployFails, DeployLost, SmokeInv, Ended
  <2>6. \A q \in Runs : q # r => mine'[q] < epoch'[Topo]
    BY <1>3, <2>3, <1>t, OlderEpochs DEF DeployFails
  <2>7. pc'[r] = "exited" => r \notin Step3Runs /\ ending'[r] = "deploy failed"
    BY <1>3, <1>t DEF DeployFails, DeployLost, Runs
  <2>8. ASSUME NEW q \in Runs, (pc[q] = "exited" /\ mine[q] = epoch[Topo])'
        PROVE  (q \notin Step3Runs /\ ending[q] = "deploy failed")'
    <3>1. q = r
      BY <2>3, <2>6, <2>8, <1>t
    <3> QED  BY <3>1, <2>7, <2>8
  <2> QED  BY <2>3, <2>4, <2>5, <2>8 DEF SmokeInv, NothingLeftBehind
<1>4. CASE DeployReturns(r)
  <2>1. PICK made \in SUBSET NodesOf(Topo) : CreateLab(Topo, made)
    BY <1>4 DEF DeployReturns
  <2>2. PICK to \in Steps \ {"clean", "deploy", "exited"} :
          /\ pc' = [pc EXCEPT ![r] = to]
          /\ to = "capture" => r \in CaptureRuns
    <3>1. PICK to \in CASE r \in TopologyRuns -> {"inspect"}
                        [] r \in CaptureRuns  -> {"capture"}
                        [] OTHER -> {"fabric"} \cup (IF AllUp' THEN {} ELSE {"teardown"}) :
            Goto(r, "deploy", to)
      BY <1>4 DEF DeployReturns
    <3>2. \/ r \in TopologyRuns /\ to = "inspect"
          \/ r \in CaptureRuns /\ to = "capture"
          \/ to \in {"fabric", "teardown"}
      BY <3>1, SmokeAssumption
    <3>3. /\ to \in Steps \ {"clean", "deploy", "exited"}
          /\ to = "capture" => r \in CaptureRuns
      BY <3>2 DEF Steps, Reading
    <3> QED  BY <3>1, <3>3 DEF Goto
  <2>3. /\ LabTypeOK' /\ mine' \in [Runs -> 0 .. MaxEpoch] /\ Epochs'
        /\ epoch'[Topo] = epoch[Topo] + 1
    BY <1>4, <2>1, <2>2, DeployEpochs DEF DeployReturns
  <2>4. TypeOK'
    BY <1>4, <2>2, <2>3, <1>t DEF DeployReturns, TypeOK
  <2>5. Ended'
    BY <1>4, <2>2, <1>t DEF DeployReturns, SmokeInv, Ended
  <2>6. \A q \in Runs : q # r => mine'[q] < epoch'[Topo]
    BY <1>4, <2>3, <1>t, OlderEpochs DEF DeployReturns
  <2>7. ASSUME NEW q \in Runs, (pc[q] = "exited" /\ mine[q] = epoch[Topo])'
        PROVE  FALSE
    <3>1. q = r
      BY <2>3, <2>6, <2>7, <1>t
    <3> QED  BY <3>1, <2>2, <2>7, <1>t
  <2> QED  BY <2>3, <2>4, <2>5, <2>7 DEF SmokeInv, NothingLeftBehind
<1>5. CASE \/ Inspected(r) \/ FabricRead(r) \/ HostsRead(r)
           \/ Captured(r) /\ UNCHANGED ending
  <2>1. PICK to \in Steps \ {"clean", "deploy", "exited", "capture"} :
          /\ pc' = [pc EXCEPT ![r] = to] /\ pc[r] # "exited"
          /\ UNCHANGED <<labVars, mine, base, saw, ending>>
    BY <1>5, <1>t
       DEF Inspected, Captured, FabricRead, HostsRead, Steps, Reading, SmokeInv, Ended
  <2>2. LabTypeOK' /\ Epochs'
    BY <2>1, <1>t, QuietEpochs
  <2>3. TypeOK'
    BY <2>1, <2>2, <1>t DEF TypeOK
  <2>4. Ended' /\ NothingLeftBehind'
    BY <2>1, <1>t DEF SmokeInv, Ended, NothingLeftBehind, Exists, labVars
  <2> QED  BY <2>2, <2>3, <2>4 DEF SmokeInv
<1>6. CASE Teardown(r)
  <2>1. CASE Destroyed /\ Ends(r, "destroyed")
    <3>1. LabTypeOK' /\ Epochs' /\ ~ Exists(Topo)' /\ epoch' = epoch
      BY <1>6, <2>1, <1>t, DestroyEpochs DEF Teardown
    <3>2. TypeOK'
      BY <1>6, <2>1, <3>1, <1>t DEF Teardown, TypeOK, Steps, Reading, Endings
    <3>3. Ended' /\ NothingLeftBehind'
      BY <1>6, <2>1, <3>1, <1>t DEF Teardown, SmokeInv, Ended, NothingLeftBehind
    <3> QED  BY <3>1, <3>2, <3>3 DEF SmokeInv
  <2>2. CASE UNCHANGED labVars /\ Ends(r, "destroy failed")
    <3>1. LabTypeOK' /\ Epochs'
      BY <1>6, <2>2, <1>t, QuietEpochs DEF Teardown
    <3>2. TypeOK'
      BY <1>6, <2>2, <3>1, <1>t DEF Teardown, TypeOK, Steps, Reading, Endings
    <3>3. Ended' /\ NothingLeftBehind'
      BY <1>6, <2>2, <1>t DEF Teardown, SmokeInv, Ended, NothingLeftBehind, Exists, labVars
    <3> QED  BY <3>1, <3>2, <3>3 DEF SmokeInv
  <2> QED  BY <1>6, <2>1, <2>2 DEF Teardown
<1>7. CASE Kill(r)
  <2>1. pc'[r] = "exited" /\ ending'[r] = "killed"
    BY <1>7, <1>t DEF Kill
  <2>2. Ended'
    BY <1>7, <1>t DEF Kill, SmokeInv, Ended
  <2>3. CASE UNCHANGED <<labVars, mine>>
    <3>1. LabTypeOK' /\ Epochs'
      BY <1>7, <2>3, <1>t, QuietEpochs DEF Kill
    <3>2. TypeOK'
      BY <1>7, <2>3, <3>1, <1>t DEF Kill, TypeOK, Steps, Reading, Endings
    <3>3. NothingLeftBehind'
      BY <1>7, <2>3, <1>t DEF Kill, SmokeInv, NothingLeftBehind, Exists, labVars
    <3> QED  BY <2>2, <3>1, <3>2, <3>3 DEF SmokeInv
  <2>4. ASSUME pc[r] = "deploy", NEW made \in SUBSET NodesOf(Topo),
               CreateLab(Topo, made), mine' = [mine EXCEPT ![r] = epoch'[Topo]]
        PROVE  SmokeInv'
    <3>1. PICK to \in Steps \ {"clean", "deploy"} : pc' = [pc EXCEPT ![r] = to]
      BY <1>7 DEF Kill, Steps, Reading
    <3>2. /\ LabTypeOK' /\ mine' \in [Runs -> 0 .. MaxEpoch] /\ Epochs'
          /\ epoch'[Topo] = epoch[Topo] + 1
      BY <1>7, <2>4, <3>1, DeployEpochs DEF Kill
    <3>3. TypeOK'
      BY <1>7, <3>1, <3>2, <1>t DEF Kill, TypeOK, Endings
    <3>4. \A q \in Runs : q # r => mine'[q] < epoch'[Topo]
      BY <2>4, <3>2, <1>t, OlderEpochs
    <3>5. NothingLeftBehind'
      <4> SUFFICES ASSUME NEW q \in Runs, (pc[q] = "exited" /\ mine[q] = epoch[Topo])'
                   PROVE  ending'[q] = "killed"
        BY DEF NothingLeftBehind
      <4>1. q = r
        BY <3>2, <3>4, <1>t
      <4> QED  BY <4>1, <2>1
    <3> QED  BY <2>2, <3>2, <3>3, <3>5 DEF SmokeInv
  <2>5. CASE Destroyed /\ UNCHANGED mine
    <3>1. LabTypeOK' /\ Epochs' /\ ~ Exists(Topo)' /\ epoch' = epoch
      BY <1>7, <2>5, <1>t, DestroyEpochs DEF Kill
    <3>2. TypeOK'
      BY <1>7, <2>5, <3>1, <1>t DEF Kill, TypeOK, Steps, Reading, Endings
    <3>3. NothingLeftBehind'
      BY <3>1 DEF NothingLeftBehind
    <3> QED  BY <2>2, <3>1, <3>2, <3>3 DEF SmokeInv
  <2> QED  BY <1>7, <2>3, <2>4, <2>5 DEF Kill
<1>8. CASE ReadLab(r)
  <2>1. UNCHANGED <<labVars, pc, mine, base, ending>>
    BY <1>8 DEF ReadLab
  <2>2. LabTypeOK' /\ Epochs'
    BY <2>1, QuietEpochs
  <2>3. TypeOK'
    BY <1>8, <2>1, <2>2, <1>t DEF ReadLab, TypeOK
  <2>4. Ended' /\ NothingLeftBehind'
    BY <2>1 DEF SmokeInv, Ended, NothingLeftBehind, Exists, labVars
  <2> QED  BY <2>2, <2>3, <2>4 DEF SmokeInv
<1>9. CASE Captured(r) /\ ending' = [ending EXCEPT ![r] = "aborted"]
  <2>1. /\ r \in CaptureRuns /\ UNCHANGED <<labVars, mine, base, saw>>
        /\ pc[r] = "capture" /\ pc'[r] \in {"teardown", "exited"}
        /\ pc' = [pc EXCEPT ![r] = pc'[r]]
    BY <1>9, <1>t DEF Captured, SmokeInv, Ended
  <2>2. ending[r] = "none" /\ pc'[r] = "exited"
    BY <1>9, <2>1, <1>t DEF Captured, SmokeInv, Ended
  <2>3. LabTypeOK' /\ Epochs'
    BY <2>1, <1>t, QuietEpochs
  <2>4. TypeOK'
    BY <1>9, <2>1, <2>3, <1>t DEF TypeOK, Steps, Endings
  <2>5. Ended' /\ NothingLeftBehind'
    BY <1>9, <2>1, <2>2, <1>t, SmokeAssumption
       DEF SmokeInv, Ended, NothingLeftBehind, Exists, labVars
  <2> QED  BY <2>3, <2>4, <2>5 DEF SmokeInv
<1>10. Captured(r) => UNCHANGED ending \/ ending' = [ending EXCEPT ![r] = "aborted"]
  BY DEF Captured
<1> QED  BY <1>1, <1>2, <1>3, <1>4, <1>5, <1>6, <1>7, <1>8, <1>9, <1>10

(* Lemma: so does a container's exit. *)
LEMMA ExitKeeps ==
  ASSUME SmokeInv, NEW n \in Nodes, ContainerExit(n)
  PROVE  SmokeInv'
<1>1. LabTypeOK' /\ epoch' = epoch
  BY ExitStep DEF ContainerExit, SmokeInv, TypeOK
<1>2. Exists(Topo)' => Exists(Topo)
  BY Ups DEF ContainerExit, SmokeInv, TypeOK
<1> QED
  BY <1>1, <1>2 DEF ContainerExit, SmokeInv, TypeOK, Epochs, Ended, NothingLeftBehind

(* The inductive invariant of the smoke scripts. *)
THEOREM SmokeInvariant == Spec => []SmokeInv
<1>1. SmokeInv /\ [Next]_vars => SmokeInv'
  <2> SUFFICES ASSUME SmokeInv, [Next]_vars PROVE SmokeInv'
    OBVIOUS
  <2>1. CASE UNCHANGED vars
    BY <2>1 DEF vars, SmokeInv, TypeOK, LabTypeOK, Epochs, Ended, NothingLeftBehind, Exists
  <2>2. CASE Next
    BY <2>2, RunStep, ExitKeeps DEF Next
  <2> QED  BY <2>1, <2>2
<1> QED  BY SmokeInit, <1>1, PTL DEF Spec

(* Theorem: a smoke run that has ended leaves the lab it created up only if  *)
(* it was killed, its last destroy failed, or smoke_topology's deploy did.   *)
THEOREM SmokeTearsDown == Spec => []NothingLeftBehind
BY SmokeInvariant, PTL DEF SmokeInv

(* Theorem: after the first destroy of a run has succeeded, its deploy       *)
(* meets a lab only if another run has deployed since.                       *)
THEOREM SmokeStartsFresh == Spec => []FreshStart
<1>1. SmokeInv => FreshStart
  <2> SUFFICES ASSUME SmokeInv, NEW r \in Runs,
                      pc[r] = "deploy", base[r] <= MaxEpoch, Exists(Topo)
               PROVE  \E q \in Runs \ {r} : mine[q] > base[r]
    BY DEF FreshStart
  <2>1. base[r] \in Nat /\ epoch[Topo] \in Nat
    BY LabAssumption, SmokeAssumption DEF SmokeInv, TypeOK, LabTypeOK
  <2>2. base[r] < epoch[Topo] /\ mine[r] = 0 /\ epoch[Topo] > 0
    BY <2>1 DEF SmokeInv, Epochs
  <2>3. PICK q \in Runs : mine[q] = epoch[Topo]
    BY <2>2 DEF SmokeInv, Epochs
  <2> QED  BY <2>1, <2>2, <2>3
<1> QED  BY SmokeInvariant, <1>1, PTL

-----------------------------------------------------------------------------
(* Reads: a run that reads has deployed, and what it has read is of its own  *)
(* lab or of a later one, which another run deployed.                        *)
Reads ==
    \A r \in Runs :
        /\ pc[r] \in Reading => mine[r] > 0
        /\ \A e \in saw[r] :
             /\ mine[r] > 0 /\ mine[r] <= e
             /\ \E q \in Runs : mine[q] = e

(* Lemma: a run deploys once, and its epoch is never 0. *)
LEMMA DeploysOnce ==
  ASSUME SmokeInv, Next
  PROVE  /\ \A q \in Runs : mine[q] > 0 => mine'[q] = mine[q]
         /\ \A q \in Runs : pc'[q] \in Reading => pc[q] \in Reading \/ mine'[q] > 0
<1> USE DEF Goto, Ends, Reading
<1>t. /\ pc \in [Runs -> Steps] /\ mine \in [Runs -> 0 .. MaxEpoch]
      /\ \A q \in Runs : mine[q] \in Nat
      /\ epoch \in [Topologies -> 0 .. MaxEpoch] /\ epoch[Topo] \in Nat /\ Topo \in Topologies
  BY LabAssumption, SmokeAssumption DEF SmokeInv, TypeOK, LabTypeOK
<1>1. ASSUME NEW r \in Runs, NEW made \in SUBSET NodesOf(Topo), CreateLab(Topo, made),
             pc[r] = "deploy", mine' = [mine EXCEPT ![r] = epoch'[Topo]]
      PROVE  mine[r] = 0 /\ mine'[r] > 0 /\ \A q \in Runs \ {r} : mine'[q] = mine[q]
  <2>1. epoch'[Topo] = epoch[Topo] + 1
    BY <1>1, <1>t DEF CreateLab
  <2> QED  BY <1>1, <1>t, <2>1 DEF SmokeInv, Epochs
<1>2. ASSUME NEW r \in Runs, DeployFails(r) \/ DeployReturns(r)
      PROVE  /\ mine[r] = 0 /\ mine'[r] > 0
             /\ \A q \in Runs \ {r} : mine'[q] = mine[q] /\ pc'[q] = pc[q]
  <2>1. PICK made \in SUBSET NodesOf(Topo) : CreateLab(Topo, made)
    BY <1>2 DEF DeployFails, DeployReturns
  <2>2. pc[r] = "deploy" /\ \A q \in Runs \ {r} : pc'[q] = pc[q]
    BY <1>2, <1>t DEF DeployFails, DeployReturns, DeployLost
  <2> QED  BY <1>1, <1>2, <2>1, <2>2 DEF DeployFails, DeployReturns
<1>3. ASSUME NEW r \in Runs, Kill(r)
      PROVE  /\ \A q \in Runs : mine[q] > 0 => mine'[q] = mine[q]
             /\ \A q \in Runs : pc'[q] \in Reading => pc[q] \in Reading
  <2>1. \A q \in Runs : pc'[q] \in Reading => pc[q] \in Reading
    BY <1>3, <1>t DEF Kill
  <2>2. CASE UNCHANGED mine
    BY <2>1, <2>2
  <2>3. CASE mine' # mine
    <3>1. PICK made \in SUBSET NodesOf(Topo) : CreateLab(Topo, made)
      BY <1>3, <2>3 DEF Kill
    <3>2. pc[r] = "deploy" /\ mine' = [mine EXCEPT ![r] = epoch'[Topo]]
      BY <1>3, <2>3 DEF Kill
    <3>3. mine[r] = 0 /\ \A q \in Runs \ {r} : mine'[q] = mine[q]
      BY <1>1, <3>1, <3>2
    <3> QED  BY <2>1, <3>3
  <2> QED  BY <2>2, <2>3
<1>4. ASSUME NEW r \in Runs,
             \/ Clean(r) \/ DeployRefused(r) \/ ReadLab(r) \/ Inspected(r) \/ Captured(r)
             \/ FabricRead(r) \/ HostsRead(r) \/ Teardown(r)
      PROVE  /\ mine' = mine
             /\ \A q \in Runs : pc'[q] \in Reading => pc[q] \in Reading
  BY <1>4, <1>t
     DEF Clean, DeployRefused, DeployLost, ReadLab, Inspected, Captured, FabricRead,
         HostsRead, Teardown
<1>5. ASSUME NEW n \in Nodes, ContainerExit(n)
      PROVE  mine' = mine /\ pc' = pc
  BY <1>5 DEF ContainerExit
<1> QED  BY <1>t, <1>2, <1>3, <1>4, <1>5 DEF Next

(* Lemma: only a read of a lab that is up adds to what a run has read. *)
LEMMA SawSteps ==
  ASSUME SmokeInv, Next, NEW r \in Runs
  PROVE  \/ saw'[r] = saw[r]
         \/ ReadLab(r) /\ saw'[r] = saw[r] \cup {epoch[Topo]}
<1>1. ASSUME NEW q \in Runs, ReadLab(q)
      PROVE  \/ saw'[r] = saw[r]
             \/ ReadLab(r) /\ saw'[r] = saw[r] \cup {epoch[Topo]}
  BY <1>1 DEF ReadLab, SmokeInv, TypeOK
<1>2. ASSUME NEW q \in Runs,
             \/ Clean(q) \/ DeployRefused(q) \/ DeployFails(q) \/ DeployReturns(q)
             \/ Inspected(q) \/ Captured(q) \/ FabricRead(q) \/ HostsRead(q)
             \/ Teardown(q) \/ Kill(q)
      PROVE  saw' = saw
  BY <1>2
     DEF Clean, DeployRefused, DeployFails, DeployReturns, Inspected, Captured,
         FabricRead, HostsRead, Teardown, Kill
<1> QED  BY <1>1, <1>2 DEF Next, ContainerExit

(* Lemma: every step keeps what runs have read explained. *)
LEMMA ReadsStep ==
  ASSUME SmokeInv, Reads, [Next]_vars
  PROVE  Reads'
<1>1. CASE UNCHANGED vars
  BY <1>1 DEF vars, Reads
<1>2. CASE Next
  <2>1. /\ \A q \in Runs : mine[q] > 0 => mine'[q] = mine[q]
        /\ \A q \in Runs : pc'[q] \in Reading => pc[q] \in Reading \/ mine'[q] > 0
    BY <1>2, DeploysOnce
  <2> SUFFICES ASSUME NEW r \in Runs
               PROVE  /\ pc'[r] \in Reading => mine'[r] > 0
                      /\ \A e \in saw'[r] : /\ mine'[r] > 0 /\ mine'[r] <= e
                                           /\ \E q \in Runs : mine'[q] = e
    BY DEF Reads
  <2>2. pc'[r] \in Reading => mine'[r] > 0
    BY <2>1 DEF Reads
  <2>3. ASSUME NEW e \in saw'[r]
        PROVE  /\ mine[r] > 0 /\ mine[r] <= e /\ e > 0
               /\ \E q \in Runs : mine[q] = e
    <3>1. /\ mine[r] \in Nat /\ epoch[Topo] \in Nat
          /\ \A d \in saw[r] : d \in Nat
      BY LabAssumption, SmokeAssumption DEF SmokeInv, TypeOK, LabTypeOK
    <3>2. CASE e \in saw[r]
      BY <3>1, <3>2 DEF Reads
    <3>3. CASE ReadLab(r) /\ e = epoch[Topo]
      BY <3>1, <3>3 DEF ReadLab, Reads, SmokeInv, Epochs
    <3> QED  BY <1>2, <2>3, <3>2, <3>3, SawSteps
  <2> QED  BY <2>1, <2>2, <2>3
<1> QED  BY <1>1, <1>2

(* Theorem: what a run has read is of the lab it deployed, or of one that    *)
(* another run has put in its place since.                                   *)
THEOREM SmokeReadsExplained == Spec => []ReadsExplained
<1>1. Init => Reads
  BY DEF Init, Reads, Reading
<1>2. SmokeInv /\ Reads /\ [Next]_vars => Reads'
  BY ReadsStep
<1>3. SmokeInv /\ Reads => ReadsExplained
  <2> SUFFICES ASSUME SmokeInv, Reads, NEW r \in Runs, NEW e \in saw[r]
               PROVE  /\ mine[r] > 0
                      /\ e = mine[r] \/ (e > mine[r] /\ \E q \in Runs \ {r} : mine[q] = e)
    BY DEF ReadsExplained
  <2>1. mine[r] \in Nat /\ e \in Nat
    BY LabAssumption DEF SmokeInv, TypeOK
  <2>2. mine[r] > 0 /\ mine[r] <= e /\ \E q \in Runs : mine[q] = e
    BY DEF Reads
  <2> QED  BY <2>1, <2>2
<1> QED  BY <1>1, <1>2, <1>3, SmokeInvariant, PTL DEF Spec
=============================================================================
