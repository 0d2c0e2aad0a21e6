------------------------------- MODULE LabProofs -------------------------------
(***************************************************************************)
(* Lemmas about Lab, for any labs and containers.                          *)
(***************************************************************************)
EXTENDS Lab, TLAPS

(* What a deploy does to the labs, without its choices: the deployed lab's   *)
(* epoch grows, the other labs' containers are left alone, and an address a  *)
(* container did not hold before is held by no other and belongs to the lab; *)
(* the lab's containers that run are those that came up.                     *)
Deployed(t) ==
    /\ ~ Exists(t)
    /\ epoch' = [epoch EXCEPT ![t] = @ + 1]
    /\ \A n \in Nodes : Home[n] # t => status'[n] = status[n] /\ addr'[n] = addr[n]
    /\ \A n \in Nodes :
         addr'[n] = addr[n] \/ \A m \in Nodes : addr'[n] # addr[m]
                                               /\ (m # n => addr'[n] # addr'[m])
    /\ \A u \in Topologies : u # t => cameUp'[u] = cameUp[u]
    /\ \A n \in NodesOf(t) : status'[n] = "running" => n \in cameUp'[t]

(* Lemma: a deploy of some of a lab's containers is of the kind above and    *)
(* keeps the lab's type.                                                     *)
LEMMA DeployStep ==
  ASSUME LabTypeOK, NEW t \in Topologies, NEW made \in SUBSET NodesOf(t),
         CreateLab(t, made)
  PROVE  LabTypeOK' /\ Deployed(t)
<1>1. PICK up \in SUBSET made : \E a \in Leases(up) :
        /\ epoch' = [epoch EXCEPT ![t] = @ + 1]
        /\ status' = [n \in Nodes |-> IF n \in up THEN "running"
                                      ELSE IF n \in made THEN "exited"
                                      ELSE status[n]]
        /\ addr' = [n \in Nodes |-> IF n \in up THEN a[n] ELSE addr[n]]
        /\ cameUp' = [cameUp EXCEPT ![t] = up]
  BY DEF CreateLab
<1>2. PICK a \in Leases(up) :
        /\ epoch' = [epoch EXCEPT ![t] = @ + 1]
        /\ status' = [n \in Nodes |-> IF n \in up THEN "running"
                                      ELSE IF n \in made THEN "exited"
                                      ELSE status[n]]
        /\ addr' = [n \in Nodes |-> IF n \in up THEN a[n] ELSE addr[n]]
        /\ cameUp' = [cameUp EXCEPT ![t] = up]
  BY <1>1
<1>3. /\ a \in [up -> Addrs]
      /\ \A m, n \in up : a[m] = a[n] => m = n
      /\ \A m \in up, n \in Nodes : a[m] # addr[n]
  BY DEF Leases
<1>4. /\ \A n \in made : n \in Nodes /\ Home[n] = t
      /\ up \subseteq made
      /\ epoch[t] \in Nat /\ epoch[t] < MaxEpoch /\ MaxEpoch \in Nat
      /\ ~ Exists(t)
  BY LabAssumption DEF NodesOf, CreateLab, LabTypeOK
<1>5. epoch' \in [Topologies -> 0 .. MaxEpoch]
  BY <1>2, <1>4 DEF LabTypeOK
<1>6. status' \in [Nodes -> Statuses]
  BY <1>2 DEF LabTypeOK, Statuses
<1>7. addr' \in [Nodes -> Addrs \cup {NoAddr}]
  BY <1>2, <1>3 DEF LabTypeOK
<1>8. cameUp' \in [Topologies -> SUBSET Nodes]
  BY <1>2, <1>4 DEF LabTypeOK
<1>9. ASSUME NEW n \in Nodes
      PROVE  addr'[n] = addr[n] \/ \A m \in Nodes : addr'[n] # addr[m]
                                     /\ (m # n => addr'[n] # addr'[m])
  BY <1>2, <1>3, <1>4
<1>10. \A n \in Nodes : Home[n] # t => status'[n] = status[n] /\ addr'[n] = addr[n]
  BY <1>2, <1>4
<1>11. \A u \in Topologies : u # t => cameUp'[u] = cameUp[u]
  BY <1>2 DEF LabTypeOK
<1>12. ASSUME NEW n \in NodesOf(t), status'[n] = "running" PROVE n \in cameUp'[t]
  <2>1. status[n] = "absent" /\ n \in Nodes
    BY <1>4 DEF Exists, NodesOf
  <2> QED  BY <1>2, <1>12, <2>1 DEF LabTypeOK
<1> QED
  BY <1>2, <1>4, <1>5, <1>6, <1>7, <1>8, <1>9, <1>10, <1>11, <1>12 DEF LabTypeOK, Deployed

(* Lemma: destroying a lab, and a container's exit, keep the labs' type; no  *)
(* epoch changes and a container keeps its address or loses it.              *)
LEMMA DestroyStep ==
  ASSUME LabTypeOK, NEW t \in Topologies, Destroy(t)
  PROVE  /\ LabTypeOK'
         /\ epoch' = epoch /\ cameUp' = cameUp
         /\ \A n \in Nodes : addr'[n] \in {addr[n], NoAddr}
BY DEF LabTypeOK, Destroy, Statuses

(* Lemma: what a container's exit does to the labs. *)
LEMMA ExitStep ==
  ASSUME LabTypeOK, NEW n \in Nodes, Exit(n)
  PROVE  /\ LabTypeOK'
         /\ epoch' = epoch /\ cameUp' = cameUp
         /\ \A m \in Nodes : addr'[m] \in {addr[m], NoAddr}
BY DEF LabTypeOK, Exit, Statuses
================================================================================
