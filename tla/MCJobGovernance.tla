--------------------------- MODULE MCJobGovernance ---------------------------
(* Small instances of JobGovernance: the jobs w1 and w2 change the node and
   need it exclusively, the job s1 shares it; all have the same target. *)
EXTENDS JobGovernance

CONSTANTS w1, w2, s1, r1, u1, u2, p1, p2

MCResourceOf == [j \in Jobs |-> r1]
MCLockTypeOf == [j \in Jobs |-> IF j = s1 THEN "shared" ELSE "exclusive"]
=============================================================================
