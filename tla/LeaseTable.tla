------------------------------ MODULE LeaseTable ------------------------------
(* What the lock table promises, without the records that wait to be removed:
   a lease is there from the moment it is granted to the moment its time is up
   or its own job gives it up, and at no time do two jobs share a resource that
   one of them has for itself.                                              *)
EXTENDS Integers

CONSTANTS Resources, Jobs,
          Lengths   \* how long a lease may be asked for

VARIABLES now,
          held    \* the leases in force: [resource, type, job, expiresAt]

leaseVars == <<now, held>>

Init == now = 0 /\ held = {}

InForce(leases, t) == {l \in leases : l.expiresAt > t}

Free(r, t, j) ==
    \A l \in held : l.resource = r /\ l.job # j => l.type = "shared" /\ t = "shared"

\* A lease of no length is over as it begins.
Grant(r, t, j, ttl) ==
    /\ Free(r, t, j)
    /\ held' = InForce(held \cup {[resource |-> r, type |-> t, job |-> j,
                                   expiresAt |-> now + ttl]}, now)
    /\ UNCHANGED now

GiveUp(j) == held' = {l \in held : l.job # j} /\ UNCHANGED now

TimePasses == now' = now + 1 /\ held' = InForce(held, now')

Next ==
    \/ \E j \in Jobs :
          \/ GiveUp(j)
          \/ \E r \in Resources, t \in {"shared", "exclusive"}, ttl \in Lengths :
                Grant(r, t, j, ttl)
    \/ TimePasses

Spec == Init /\ [][Next]_leaseVars

\* Where the table is in the memory of a process that may be started again.
Forget == held' = {} /\ UNCHANGED now

ForgetfulSpec == Init /\ [][Next \/ Forget]_leaseVars
==============================================================================
