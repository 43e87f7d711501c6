------------------------------- MODULE JobOnce -------------------------------
(***************************************************************************)
(* What central and the agents together promise about a job, without the   *)
(* messages, the journal and the failures: it is handed to at most one     *)
(* agent, one of its node and tenant, and its action is run at most once,  *)
(* after it was handed over.  Neither is ever taken back.                  *)
(***************************************************************************)
EXTENDS Naturals

CONSTANTS Jobs, Agents, NoAgent,
          NodeOfAgent, TenantOfAgent, NodeOfJob, TenantOfJob

VARIABLES issued,   \* the jobs that were created
          holder,   \* the agent each job was handed to
          runs      \* how often the action of each job was run

vars == <<issued, holder, runs>>

Init ==
    /\ issued = {}
    /\ holder = [j \in Jobs |-> NoAgent]
    /\ runs = [j \in Jobs |-> 0]

Create(j) ==
    /\ j \in Jobs \ issued
    /\ issued' = issued \cup {j}
    /\ UNCHANGED <<holder, runs>>

MayHold(a, j) == /\ NodeOfAgent[a] = NodeOfJob[j]
                 /\ TenantOfAgent[a] = TenantOfJob[j]

Hand(a, js) ==
    /\ js \subseteq issued
    /\ \A j \in js : holder[j] = NoAgent /\ MayHold(a, j)
    /\ holder' = [j \in Jobs |-> IF j \in js THEN a ELSE holder[j]]
    /\ UNCHANGED <<issued, runs>>

Run(j) ==
    /\ holder[j] # NoAgent
    /\ runs[j] = 0
    /\ runs' = [runs EXCEPT ![j] = 1]
    /\ UNCHANGED <<issued, holder>>

Next ==
    \/ \E j \in Jobs : Create(j) \/ Run(j)
    \/ \E a \in Agents, js \in SUBSET Jobs : Hand(a, js)

Spec == Init /\ [][Next]_vars
=============================================================================
