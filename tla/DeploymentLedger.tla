--------------------------- MODULE DeploymentLedger ---------------------------
(***************************************************************************)
(* What run_scenario promises about deployments, whatever the server does  *)
(* to keep it: a ready answer is about a deployment that this very call    *)
(* made.  A deployment whose call failed, or whose server died before the  *)
(* answer, is never announced, by that server or another, though its lab   *)
(* may stay up; neither is one that somebody else made.                    *)
(***************************************************************************)
EXTENDS Naturals

CONSTANTS Topologies, Servers, None

VARIABLES
    made,      \* made[t]: how many deployments of t there have been
    held,      \* held[s]: the deployment s made and has not answered for yet
    announced  \* who has announced which deployment

vars == <<made, held, announced>>

Init ==
    /\ made = [t \in Topologies |-> 0]
    /\ held = [s \in Servers |-> None]
    /\ announced = {}

Make(t) == made' = [made EXCEPT ![t] = @ + 1]

\* A deployment that no call will answer for.
MakeUnheld(t) == Make(t) /\ UNCHANGED <<held, announced>>

MakeHeld(s, t) ==
    /\ held[s] = None
    /\ Make(t)
    /\ held' = [held EXCEPT ![s] = <<t, made[t] + 1>>]
    /\ UNCHANGED announced

Announce(s) ==
    /\ held[s] # None
    /\ announced' = announced \cup {<<s, held[s]>>}
    /\ held' = [held EXCEPT ![s] = None]
    /\ UNCHANGED made

\* The call fails or its server dies: the deployment is nobody's for good.
Forget(s) ==
    /\ held[s] # None
    /\ held' = [held EXCEPT ![s] = None]
    /\ UNCHANGED <<made, announced>>

Next ==
    \/ \E t \in Topologies : MakeUnheld(t)
    \/ \E s \in Servers : Announce(s) \/ Forget(s)
    \/ \E s \in Servers, t \in Topologies : MakeHeld(s, t)

Spec == Init /\ [][Next]_vars
=============================================================================
