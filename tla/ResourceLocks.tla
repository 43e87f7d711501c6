---------------------------- MODULE ResourceLocks ----------------------------
(***************************************************************************)
(* The lock table of apps/api/src/policy/resource_lock.service.ts.         *)
(*                                                                         *)
(* A lock is a lease: nothing renews it, and it stops blocking when its    *)
(* expiry is reached, whether or not its job still runs.  Every method of  *)
(* the service runs in one event-loop turn.  The random lock id is left    *)
(* out: two locks that agree in everything else behave as one, since locks *)
(* are only removed by job or by expiry.                                   *)
(***************************************************************************)
EXTENDS Integers, FiniteSets

CONSTANTS
    Resources,   \* resource keys, such as node:{id}
    Jobs,        \* job identifiers
    LockTTLs,    \* ttlSeconds the lock is asked for with
    MaxTime      \* bound: the clock stops here

ASSUME LockAssumption == LockTTLs \subseteq Nat /\ MaxTime \in Nat

VARIABLES now, locks

lockVars == <<now, locks>>

LockTypes == {"shared", "exclusive"}
Lock == [resource : Resources, type : LockTypes, job : Jobs, expiresAt : Nat]

LocksTypeOK == now \in Nat /\ locks \subseteq Lock
LocksInit   == now = 0 /\ locks = {}

(* A lock blocks others while expiresAt > now; it is an orphan once
   now > expiresAt.  At expiresAt itself it is neither. *)
LiveAtExpiry(l) == l.expiresAt >= now \* mutant: blocks at its expiry
Live(l)   == l.expiresAt > now
Orphan(l) == now > l.expiresAt

NotOrphans == {l \in locks : ~Orphan(l)}

Incompatible(s, t) == s = "exclusive" \/ t = "exclusive"

BlockingExclusive(r, t, j) == \* mutant: shared locks do not block a writer
    {l \in NotOrphans : /\ l.resource = r /\ Live(l)
                        /\ l.job # j
                        /\ l.type = "exclusive"}

(* acquireLock: the locks of other jobs that stand in the way. *)
Blocking(r, t, j) ==
    {l \in NotOrphans : /\ l.resource = r /\ Live(l)
                        /\ l.job # j
                        /\ Incompatible(l.type, t)}

LeaseEndInMilliseconds(ttl) == now + 1000 * (ttl + 1) \* mutant: units mixed up
LeaseEnd(ttl) == now + ttl

AcquireLock(r, t, j, ttl) ==
    /\ Blocking(r, t, j) = {}
    /\ locks' = NotOrphans \cup
         {[resource |-> r, type |-> t, job |-> j, expiresAt |-> LeaseEnd(ttl)]}

(* The conflict is thrown after the orphans were removed. *)
AcquireRefused(r, t, j) ==
    /\ Blocking(r, t, j) # {}
    /\ locks' = NotOrphans

ReleaseLock(j) == locks' = {l \in locks : l.job # j}

CleanOrphanedLocks == locks' = NotOrphans

Tick == now < MaxTime /\ now' = now + 1

LocksNext ==
    \/ /\ \E j \in Jobs :
            \/ \E r \in Resources, t \in LockTypes :
                  \/ \E ttl \in LockTTLs : AcquireLock(r, t, j, ttl)
                  \/ AcquireRefused(r, t, j)
            \/ ReleaseLock(j)
       /\ UNCHANGED now
    \/ CleanOrphanedLocks /\ UNCHANGED now
    \/ Tick /\ UNCHANGED locks

LocksSpec == LocksInit /\ [][LocksNext]_lockVars

(* Readers and writers: two live locks of different jobs on one resource are
   both shared, whatever was acquired, upgraded, released or cleaned before
   and whenever it expires. *)
LocksExclude ==
    \A l1, l2 \in locks :
        /\ l1.resource = l2.resource /\ l1.job # l2.job
        /\ Live(l1) /\ Live(l2)
        => l1.type = "shared" /\ l2.type = "shared"

(* Nothing but the release by its own job takes a lock away before its time:
   neither another job's request, refused or granted, nor a clean-up. *)
LeaseIsHonoured ==
    [][\A l \in locks \ locks' :
          Live(l) => locks' = {k \in locks : k.job # l.job}]_lockVars

(* To the jobs, the table of records that are removed late, by whoever comes
   next, is one whose leases end on time: see LeaseTable. *)
Leases == INSTANCE LeaseTable WITH held <- {l \in locks : Live(l)}, Lengths <- LockTTLs
ImplementsLeaseTable == Leases!Spec
=============================================================================
