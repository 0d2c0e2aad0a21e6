------------------------------ MODULE SmokeRun -------------------------------
(***************************************************************************)
(* The live smoke scripts that deploy a lab and tear it down again:        *)
(* terraform/smoke_step3.py, scripts/smoke_topology.py and                 *)
(* terraform/run-smoke.sh, several of them on one topology, with           *)
(* containers that exit and runs that are killed.  They are among          *)
(* AdapterServer's outside world.                                          *)
(*                                                                         *)
(* Whether the checks on the counters pass decides the exit code and       *)
(* nothing else, so it is left out; an interrupt is one way a step of the  *)
(* try block fails.                                                        *)
(*                                                                         *)
(* An operator Fault... is not part of the model: it is a definition as a  *)
(* plausible bug would have it, for checking that the properties notice.   *)
(***************************************************************************)
EXTENDS Lab

CONSTANTS
    Step3Runs,     \* runs of smoke_step3.py
    TopologyRuns,  \* runs of smoke_topology.py
    CaptureRuns,   \* runs of run-smoke.sh
    Topo           \* hash_polarization's topology file, for all of them

Runs == Step3Runs \cup TopologyRuns \cup CaptureRuns

ASSUME SmokeAssumption ==
    /\ Step3Runs \cap TopologyRuns = {}
    /\ CaptureRuns \cap (Step3Runs \cup TopologyRuns) = {}
    /\ Topo \in Topologies

VARIABLES
    pc,     \* the step a run is at
    mine,   \* the epoch of the lab its deploy created, 0 for none
    base,   \* the epoch its first destroy cleared away, MaxEpoch + 1 for none
    saw,    \* the epochs of the lab it has read from
    ending  \* how it ended: "none" until it has

vars == <<epoch, status, addr, cameUp, pc, mine, base, saw, ending>>

Reading == {"inspect", "capture", "fabric", "hosts"}
Steps == Reading \cup {"clean", "deploy", "teardown", "exited"}
Endings == {"none", "destroyed", "destroy failed", "deploy refused",
            "deploy failed", "aborted", "killed"}

TypeOK ==
    /\ LabTypeOK
    /\ pc \in [Runs -> Steps]
    /\ mine \in [Runs -> 0 .. MaxEpoch]
    /\ base \in [Runs -> 0 .. MaxEpoch + 1]
    /\ saw \in [Runs -> SUBSET (0 .. MaxEpoch)]
    /\ ending \in [Runs -> Endings]

Init ==
    /\ LabInit
    /\ pc = [r \in Runs |-> IF r \in TopologyRuns THEN "deploy" ELSE "clean"]
    /\ mine = [r \in Runs |-> 0]
    /\ base = [r \in Runs |-> MaxEpoch + 1]
    /\ saw = [r \in Runs |-> {}]
    /\ ending = [r \in Runs |-> "none"]

-----------------------------------------------------------------------------
Goto(r, from, to) == pc[r] = from /\ pc' = [pc EXCEPT ![r] = to]
Ends(r, how) == ending' = [ending EXCEPT ![r] = how]

\* Fault: it destroys the lab of another topology file.
FaultWrongLab == UNCHANGED labVars

\* client.destroy(cleanup=True); it finds a lab or none.
Destroyed == Destroy(Topo) \/ (~ Exists(Topo) /\ UNCHANGED labVars)

\* "Clean slate", in smoke_step3 and run-smoke.sh: an error is taken for "no
\* prior lab".
Clean(r) ==
    /\ Goto(r, "clean", "deploy")
    /\ \/ Destroyed /\ base' = [base EXCEPT ![r] = epoch[Topo]]
       \/ UNCHANGED <<labVars, base>>
    /\ UNCHANGED <<mine, saw, ending>>

\* After a failed deploy: step3's finally clause, smoke_topology's return 3, or
\* run-smoke.sh's pipefail.
DeployLost(r, how) ==
    IF r \in Step3Runs
      THEN Goto(r, "deploy", "teardown") /\ UNCHANGED ending
      ELSE Goto(r, "deploy", "exited") /\ Ends(r, how)

\* Fault: a lab that exists already is as good as a new one.
FaultAdopts(r) ==
    /\ Exists(Topo)
    /\ Goto(r, "deploy", IF r \in Step3Runs THEN "fabric" ELSE "inspect")
    /\ UNCHANGED <<labVars, mine, base, saw, ending>>

\* The lab exists.
DeployRefused(r) ==
    /\ Exists(Topo)
    /\ DeployLost(r, "deploy refused")
    /\ UNCHANGED <<labVars, mine, base, saw>>

\* Fault: a deploy that fails is taken to have left nothing.
FaultReturnsAtOnce(r) ==
    /\ Goto(r, "deploy", "exited") /\ Ends(r, "destroyed")
    /\ \E made \in SUBSET NodesOf(Topo) : CreateLab(Topo, made)
    /\ mine' = [mine EXCEPT ![r] = epoch'[Topo]]
    /\ UNCHANGED <<base, saw>>

\* It fails half-way.
DeployFails(r) ==
    /\ DeployLost(r, "deploy failed")
    /\ \E made \in SUBSET NodesOf(Topo) : CreateLab(Topo, made)
    /\ mine' = [mine EXCEPT ![r] = epoch'[Topo]]
    /\ UNCHANGED <<base, saw>>

\* All containers of the lab are running.
AllUp == \A n \in NodesOf(Topo) : status[n] \in {"absent", "running"}

\* It exits 0, with all or some of the containers.  step3 goes through
\* run_scenario, whose not-running check is of those that deploy reports.
DeployReturns(r) ==
    /\ \E made \in SUBSET NodesOf(Topo) : CreateLab(Topo, made)
    /\ mine' = [mine EXCEPT ![r] = epoch'[Topo]]
    /\ \E next \in CASE r \in TopologyRuns -> {"inspect"}
                     [] r \in CaptureRuns  -> {"capture"}
                     [] OTHER -> {"fabric"} \cup (IF AllUp' THEN {} ELSE {"teardown"}) :
         Goto(r, "deploy", next)
    /\ UNCHANGED <<base, saw, ending>>

\* One inspect or exec of a step that reads the lab: it answers from whichever
\* lab is up at that moment.
ReadLab(r) ==
    /\ pc[r] \in Reading
    /\ Exists(Topo)
    /\ saw' = [saw EXCEPT ![r] = @ \cup {epoch[Topo]}]
    /\ UNCHANGED <<labVars, pc, mine, base, ending>>

\* The end of smoke_topology's inspect; both of its outcomes go on to destroy.
Inspected(r) ==
    /\ Goto(r, "inspect", "teardown")
    /\ UNCHANGED <<labVars, mine, base, saw, ending>>

\* run-smoke.sh's docker ps, inspect and docker exec commands: the output of an
\* exec that fails is kept, the others end the script (set -e).
Captured(r) ==
    /\ \/ Goto(r, "capture", "teardown") /\ UNCHANGED ending
       \/ Goto(r, "capture", "exited") /\ Ends(r, "aborted")
    /\ UNCHANGED <<labVars, mine, base, saw>>

\* step3's get_fabric_counters fails, or goes on to get_host_counters.
FabricRead(r) ==
    /\ \/ saw[r] # {} /\ Goto(r, "fabric", "hosts")
       \/ Goto(r, "fabric", "teardown")
    /\ UNCHANGED <<labVars, mine, base, saw, ending>>

HostsRead(r) ==
    /\ Goto(r, "hosts", "teardown")
    /\ UNCHANGED <<labVars, mine, base, saw, ending>>

\* The scripts' last destroy; its failure is reported, not retried.
Teardown(r) ==
    /\ Goto(r, "teardown", "exited")
    /\ \/ Destroyed /\ Ends(r, "destroyed")
       \/ UNCHANGED labVars /\ Ends(r, "destroy failed")
    /\ UNCHANGED <<mine, base, saw>>

\* The process is killed, or ends on an exception that nobody handles.  The
\* command it was waiting for may still run to its end.
Kill(r) ==
    /\ pc[r] # "exited"
    /\ pc' = [pc EXCEPT ![r] = "exited"]
    /\ Ends(r, "killed")
    /\ UNCHANGED <<base, saw>>
    /\ \/ UNCHANGED <<labVars, mine>>
       \/ /\ pc[r] = "deploy"
          /\ \E made \in SUBSET NodesOf(Topo) : CreateLab(Topo, made)
          /\ mine' = [mine EXCEPT ![r] = epoch'[Topo]]
       \/ pc[r] \in {"clean", "teardown"} /\ Destroyed /\ UNCHANGED mine

ContainerExit(n) == Exit(n) /\ UNCHANGED <<pc, mine, base, saw, ending>>

Next ==
    \/ \E r \in Runs :
         \/ Clean(r) \/ DeployRefused(r) \/ DeployFails(r) \/ DeployReturns(r)
         \/ ReadLab(r) \/ Inspected(r) \/ Captured(r) \/ FabricRead(r) \/ HostsRead(r)
         \/ Teardown(r) \/ Kill(r)
    \/ \E n \in Nodes : ContainerExit(n)

Spec == Init /\ [][Next]_vars

-----------------------------------------------------------------------------
(* Safety: a run that has ended leaves the lab it created up only if it was  *)
(* killed, its last destroy failed or, but for smoke_step3, its deploy or    *)
(* one of run-smoke.sh's commands failed, whichever of its steps failed and  *)
(* whatever other runs do to the lab meanwhile: smoke_step3 "always tears    *)
(* down on the way out".                                                     *)
NothingLeftBehind ==
    \A r \in Runs :
        pc[r] = "exited" /\ Exists(Topo) /\ mine[r] = epoch[Topo] =>
            \/ ending[r] \in {"killed", "destroy failed"}
            \/ r \notin Step3Runs /\ ending[r] = "deploy failed"
            \/ r \in CaptureRuns /\ ending[r] = "aborted"

(* Safety: after a run's first destroy has succeeded its deploy meets a lab  *)
(* only if another run has deployed since: what runs killed or failed before *)
(* have left is never in the way ("destroys any prior deployment before      *)
(* deploying fresh").                                                        *)
FreshStart ==
    \A r \in Runs :
        pc[r] = "deploy" /\ base[r] <= MaxEpoch /\ Exists(Topo) =>
            \E q \in Runs \ {r} : mine[q] > base[r]

(* Safety: whatever a run has read is of the lab it deployed itself, or of   *)
(* one that another run has put in its place since: never of a lab that was  *)
(* there before, although its deploy may be refused and other runs destroy   *)
(* and deploy between any two of its reads.                                  *)
ReadsExplained ==
    \A r \in Runs : \A e \in saw[r] :
        /\ mine[r] > 0
        /\ e = mine[r] \/ (e > mine[r] /\ \E q \in Runs \ {r} : mine[q] = e)
=============================================================================
