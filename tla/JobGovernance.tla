---------------------------- MODULE JobGovernance ----------------------------
(***************************************************************************)
(* Approvals and locks around the execution of a job:                      *)
(* apps/api/src/policy/approval.service.ts over resource_lock.service.ts.  *)
(*                                                                         *)
(* A job asks for an approval, a user decides it once, and the caller that *)
(* dispatches the job first calls revalidateBeforeExecution, which checks  *)
(* the approval and takes the resource's lock for the job.  src/ has the   *)
(* services and their tests but not that caller: dispatching a job and     *)
(* releasing its lock when it ends are modelled from what the services     *)
(* offer.  Nothing marks an approval as used and nothing renews a lock, so *)
(* a job may outlive its lease, its executor may die without releasing,    *)
(* and an approval may be presented again.  Both services keep their state *)
(* in memory: a restart of central empties them while jobs go on running   *)
(* on their nodes.                                                         *)
(***************************************************************************)
EXTENDS ResourceLocks

CONSTANTS
    Approvals,     \* approval ids
    Users,         \* those who request and decide
    ResourceOf,    \* resource key of a job's target
    LockTypeOf,    \* lockStrategy of a job's action: shared or exclusive
    ApprovalTTL,   \* ttlMinutes of an approval
    LockTTL,       \* ttlSeconds of a lock (300)
    NoUser, NoJob,
    MaxDispatches, \* bound: dispatches of one job
    MaxEpochs,     \* bound: restarts of central
    MaxDeaths      \* bound: executors that die without releasing

ASSUME GovernanceAssumption ==
    /\ NoUser \notin Users /\ NoJob \notin Jobs
    /\ ResourceOf \in [Jobs -> Resources]
    /\ LockTypeOf \in [Jobs -> LockTypes]
    /\ ApprovalTTL \in Nat /\ LockTTL \in Nat
    /\ MaxDispatches \in Nat /\ MaxEpochs \in Nat /\ MaxDeaths \in Nat

VARIABLES
    approvals,   \* the ApprovalService's map: approval id -> record
    running,     \* the executions under way
    dispatches,  \* history: how often each job was dispatched
    epoch,       \* history: how often central was restarted
    deaths       \* how many executors have died

vars == <<now, locks, approvals, running, dispatches, epoch, deaths>>

Statuses == {"none", "pending", "approved", "rejected", "expired"}
Approval == [job : Jobs \cup {NoJob}, requester : Users \cup {NoUser},
             status : Statuses, expiresAt : Nat,
             decidedBy : Users \cup {NoUser}, decidedAt : Nat]
NoApproval == [job |-> NoJob, requester |-> NoUser, status |-> "none",
               expiresAt |-> 0, decidedBy |-> NoUser, decidedAt |-> 0]

Execution == [job : Jobs, nr : Nat, leaseEnd : Nat, epoch : Nat]

TypeOK ==
    /\ LocksTypeOK
    /\ approvals \in [Approvals -> Approval]
    /\ running \subseteq Execution
    /\ dispatches \in [Jobs -> Nat]
    /\ epoch \in Nat /\ deaths \in Nat

Init ==
    /\ LocksInit
    /\ approvals = [a \in Approvals |-> NoApproval]
    /\ running = {}
    /\ dispatches = [j \in Jobs |-> 0]
    /\ epoch = 0 /\ deaths = 0

CreateApproval(a, j, u) ==
    /\ approvals[a].status = "none"
    /\ approvals' = [approvals EXCEPT ![a] =
         [job |-> j, requester |-> u, status |-> "pending",
          expiresAt |-> now + ApprovalTTL, decidedBy |-> NoUser, decidedAt |-> 0]]
    /\ UNCHANGED <<now, locks, running, dispatches, epoch, deaths>>

DecideAgain(a, u, decision) == \* mutant: the status is not checked
    /\ approvals[a].status # "none"
    /\ approvals[a].requester # u
    /\ approvals' = [approvals EXCEPT ![a] =
         [@ EXCEPT !.status = decision, !.decidedBy = u, !.decidedAt = now]]
    /\ UNCHANGED <<now, locks, running, dispatches, epoch, deaths>>

DecideLate(a, u, decision) == \* mutant: the expiry is not checked
    /\ approvals[a].status = "pending"
    /\ approvals[a].requester # u
    /\ approvals' = [approvals EXCEPT ![a] =
         [@ EXCEPT !.status = decision, !.decidedBy = u, !.decidedAt = now]]
    /\ UNCHANGED <<now, locks, running, dispatches, epoch, deaths>>

(* decideApproval by user u: too late, it marks the request as expired;
   by the requester, it fails without a trace. *)
DecideApproval(a, u, decision) ==
    /\ approvals[a].status = "pending"
    /\ IF now > approvals[a].expiresAt
       THEN approvals' = [approvals EXCEPT ![a].status = "expired"]
       ELSE /\ approvals[a].requester # u
            /\ approvals' = [approvals EXCEPT ![a] =
                 [@ EXCEPT !.status = decision, !.decidedBy = u,
                           !.decidedAt = now]]
    /\ UNCHANGED <<now, locks, running, dispatches, epoch, deaths>>

DispatchUnlocked(a) == \* mutant: the lock is looked at but not taken
    LET j == approvals[a].job IN
    /\ approvals[a].status = "approved"
    /\ dispatches[j] < MaxDispatches
    /\ Blocking(ResourceOf[j], LockTypeOf[j], j) = {}
    /\ dispatches' = [dispatches EXCEPT ![j] = @ + 1]
    /\ running' = running \cup
         {[job |-> j, nr |-> dispatches[j], leaseEnd |-> LeaseEnd(LockTTL),
           epoch |-> epoch]}
    /\ UNCHANGED <<now, locks, approvals, epoch, deaths>>

(* revalidateBeforeExecution, and the execution it lets begin. *)
Dispatch(a) ==
    LET j == approvals[a].job IN
    /\ approvals[a].status = "approved"
    /\ dispatches[j] < MaxDispatches
    /\ AcquireLock(ResourceOf[j], LockTypeOf[j], j, LockTTL)
    /\ dispatches' = [dispatches EXCEPT ![j] = @ + 1]
    /\ running' = running \cup
         {[job |-> j, nr |-> dispatches[j], leaseEnd |-> LeaseEnd(LockTTL),
           epoch |-> epoch]}
    /\ UNCHANGED <<now, approvals, epoch, deaths>>

DispatchRefused(a) ==
    LET j == approvals[a].job IN
    /\ approvals[a].status = "approved"
    /\ AcquireRefused(ResourceOf[j], LockTypeOf[j], j)
    /\ UNCHANGED <<now, approvals, running, dispatches, epoch, deaths>>

Finish(x) ==
    /\ running' = running \ {x}
    /\ ReleaseLock(x.job)
    /\ UNCHANGED <<now, approvals, dispatches, epoch, deaths>>

(* The executor dies; its lock stays until it expires.  Bound: it still
   expires before the clock stops. *)
ExecutorDies(x) ==
    /\ deaths < MaxDeaths
    /\ now + LockTTL <= MaxTime
    /\ deaths' = deaths + 1
    /\ running' = running \ {x}
    /\ UNCHANGED <<now, locks, approvals, dispatches, epoch>>

CentralRestart ==
    /\ epoch < MaxEpochs
    /\ epoch' = epoch + 1
    /\ locks' = {}
    /\ approvals' = [a \in Approvals |-> NoApproval]
    /\ UNCHANGED <<now, running, dispatches, deaths>>

CleanUp == /\ CleanOrphanedLocks
           /\ UNCHANGED <<now, approvals, running, dispatches, epoch, deaths>>

TimePasses == /\ Tick
              /\ UNCHANGED <<locks, approvals, running, dispatches, epoch, deaths>>

Next ==
    \/ \E a \in Approvals :
          \/ \E j \in Jobs, u \in Users : CreateApproval(a, j, u)
          \/ \E u \in Users, d \in {"approved", "rejected"} :
                DecideApproval(a, u, d)
          \/ Dispatch(a) \/ DispatchRefused(a)
    \/ \E x \in running : Finish(x) \/ ExecutorDies(x)
    \/ CentralRestart \/ CleanUp \/ TimePasses

Spec == Init /\ [][Next]_vars

(* The clock runs, an execution ends, and the dispatcher retries an approved
   job until the lock is free.  Nothing makes a user decide. *)
Fairness ==
    /\ WF_vars(TimePasses)
    /\ WF_vars(\E x \in running : Finish(x))
    /\ \A a \in Approvals : SF_vars(Dispatch(a))

FairSpec == Spec /\ Fairness

(* To the executions, the locks are the leases of LeaseTable, all of one
   length, that only a restart of central makes it forget. *)
JobLeases == INSTANCE LeaseTable WITH held <- {l \in locks : Live(l)}, Lengths <- {LockTTL}
ImplementsForgetfulLeases == JobLeases!ForgetfulSpec

(* An execution central still knows of rests on an approval of its job that
   somebody other than the requester gave in time, and that still stands. *)
RunsAreApproved ==
    \A x \in running : x.epoch = epoch =>
        \E a \in Approvals :
            LET p == approvals[a] IN
            /\ p.job = x.job /\ p.status = "approved"
            /\ p.decidedBy \notin {p.requester, NoUser}
            /\ p.decidedAt <= p.expiresAt

(* Two users who decide the same request, or one who decides late: the first
   outcome stands as long as central keeps it. *)
DecisionStands ==
    [][\A a \in Approvals :
          /\ approvals[a].status \in {"approved", "rejected", "expired"}
          /\ epoch' = epoch
          => approvals'[a] = approvals[a]]_vars

Conflict(x, y) == /\ x.job # y.job
                  /\ ResourceOf[x.job] = ResourceOf[y.job]
                  /\ \/ LockTypeOf[x.job] = "exclusive"
                     \/ LockTypeOf[y.job] = "exclusive"

Lapsed(x) == now >= x.leaseEnd

(* Conflicting executions overlap only in one of three ways: one of them has
   outlived its lease, they began on two sides of a restart of central, or
   one of the jobs was dispatched again, so that the end of one execution
   released the lock the other relied on. *)
OverlapIsExplained ==
    \A x, y \in running : Conflict(x, y) =>
        \/ Lapsed(x) \/ Lapsed(y)
        \/ x.epoch # y.epoch
        \/ dispatches[x.job] > 1 \/ dispatches[y.job] > 1

(* An approved job is dispatched in the end, however long others hold the
   resource and even when the executor of one of them died with the lock. *)
ApprovedIsDispatched ==
    \A a \in Approvals, j \in Jobs :
        approvals[a].job = j /\ approvals[a].status = "approved"
            ~> dispatches[j] > 0 \/ approvals[a].status = "none"

(* Doc 09, "Dois jobs exclusivos nao rodam juntos no mesmo node". *)
ExclusiveJobsDoNotOverlap ==
    \A x, y \in running : ~(/\ Conflict(x, y)
                            /\ LockTypeOf[x.job] = "exclusive"
                            /\ LockTypeOf[y.job] = "exclusive")
=============================================================================
