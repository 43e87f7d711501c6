---------------------------- MODULE MCJobProtocol ----------------------------
(* Small instances of JobProtocol.  a1 and a2 are two identities enrolled on
   node n1, b1 one on node n2; j1 and j2 are jobs for n1, k1 one for n2. *)
EXTENDS JobProtocol, TLC

CONSTANTS a1, a2, b1, j1, j2, k1, n1, n2, t1

MCNodeOfAgent   == [a \in Agents |-> IF a = b1 THEN n2 ELSE n1]
MCTenantOfAgent == [a \in Agents |-> t1]
MCNodeOfJob     == [j \in Jobs |-> IF j = k1 THEN n2 ELSE n1]
MCTenantOfJob   == [j \in Jobs |-> t1]

(* Bounds of the run: two agents, restarts of central and longer lives for one
   job; for two jobs one agent, one crash, and lives of no length. *)
OneJobOrOneAgent ==
    \/ Cardinality(issued) =< 1
    \/ /\ \E a \in Agents : /\ Enrolled(a)
                          /\ \A b \in Agents \ {a} : ~ Enrolled(b) /\ pc[b] = "idle"
       /\ now =< 1 /\ \A j \in Jobs : expiresAt[j] =< 0
       /\ crashes =< 1 /\ restarts = 0

(* Agents of one node, and jobs of one node, are interchangeable. *)
Interchangeable == Permutations({a1, a2}) \cup Permutations({j1, j2})
=============================================================================
