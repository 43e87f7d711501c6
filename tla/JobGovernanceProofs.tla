------------------------- MODULE JobGovernanceProofs -------------------------
(***************************************************************************)
(* Proofs about JobGovernance for any jobs, users, approvals, resources,   *)
(* lifetimes of approvals and lengths of leases.                           *)
(***************************************************************************)
EXTENDS JobGovernance, ResourceLocksProofs

(* The lock an execution was given. *)
LockOf(x) == NewLock(ResourceOf[x.job], LockTypeOf[x.job], x.job, x.leaseEnd)

(* Executions of one job are numbered by its dispatches, and began before or
   after no later restart than the ones that happened. *)
RunsAreCounted ==
    /\ \A x \in running : x.nr < dispatches[x.job] /\ x.epoch <= epoch
    /\ \A x, y \in running : x.job = y.job /\ x.nr = y.nr => x = y

(* As long as nothing explains an overlap, an execution has its lock. *)
RunsHoldLocks ==
    \A x \in running :
        x.epoch = epoch /\ dispatches[x.job] = 1 /\ ~Lapsed(x) => LockOf(x) \in locks

(* A granted approval is one somebody else gave in time. *)
ApprovalsAreSound ==
    \A a \in Approvals : approvals[a].status = "approved" =>
        /\ approvals[a].decidedBy \notin {approvals[a].requester, NoUser}
        /\ approvals[a].decidedAt <= approvals[a].expiresAt

GovInv == /\ TypeOK /\ RunsAreCounted /\ RunsHoldLocks /\ OverlapIsExplained
          /\ ApprovalsAreSound /\ RunsAreApproved

(* An approved request names a job: requests are created for one. *)
ApprovedHasJob == \A a \in Approvals :
                     approvals[a].status # "none" => approvals[a].job \in Jobs

Inv == GovInv /\ ApprovedHasJob

(* Requests and decisions touch nothing but the approvals, and no approval
   that was given. *)
LEMMA ApprovalStep ==
    ASSUME Inv, NEW a \in Approvals,
           \/ \E j \in Jobs, u \in Users : CreateApproval(a, j, u)
           \/ \E u \in Users, d \in {"approved", "rejected"} :
                 DecideApproval(a, u, d)
    PROVE  Inv'
  <1> USE DEF Inv, GovInv
  <1>1. UNCHANGED <<now, locks, running, dispatches, epoch, deaths>>
    BY DEF CreateApproval, DecideApproval
  <1>2. now \in Nat /\ approvals \in [Approvals -> Approval]
    BY DEF TypeOK, LocksTypeOK
  <1> DEFINE Sound(p) ==
        /\ p \in Approval
        /\ p.status # "none" => p.job \in Jobs
        /\ p.status = "approved" => /\ p.decidedBy \notin {p.requester, NoUser}
                                    /\ p.decidedAt <= p.expiresAt
  <1>3. /\ \A b \in Approvals \ {a} : approvals'[b] = approvals[b]
        /\ approvals[a].status # "approved"
        /\ approvals' \in [Approvals -> Approval]
        /\ Sound(approvals'[a])
    <2>1. PICK p : approvals' = [approvals EXCEPT ![a] = p]
      BY DEF CreateApproval, DecideApproval
    <2>2. Sound(p) /\ approvals[a].status # "approved"
      <3>1. ASSUME NEW j \in Jobs, NEW u \in Users, CreateApproval(a, j, u)
            PROVE  Sound(p) /\ approvals[a].status # "approved"
        <4>1. p = [job |-> j, requester |-> u, status |-> "pending",
                   expiresAt |-> now + ApprovalTTL, decidedBy |-> NoUser,
                   decidedAt |-> 0]
          BY <1>2, <2>1, <3>1 DEF CreateApproval
        <4>2. now + ApprovalTTL \in Nat
          BY <1>2, GovernanceAssumption
        <4> QED BY <3>1, <4>1, <4>2 DEF CreateApproval, Approval, Statuses
      <3>2. ASSUME NEW u \in Users, NEW d \in {"approved", "rejected"},
                   DecideApproval(a, u, d)
            PROVE  Sound(p) /\ approvals[a].status # "approved"
        <4> DEFINE q == approvals[a]
        <4>1. q \in Approval /\ q.status = "pending" /\ q.job \in Jobs
          BY <1>2, <3>2 DEF DecideApproval, ApprovedHasJob
        <4>2. \/ p = [q EXCEPT !.status = "expired"]
              \/ /\ q.requester # u /\ ~(now > q.expiresAt)
                 /\ p = [q EXCEPT !.status = d, !.decidedBy = u, !.decidedAt = now]
          BY <1>2, <2>1, <3>2 DEF DecideApproval
        <4>3. q.expiresAt \in Nat /\ u # NoUser /\ d \in Statuses
                /\ "expired" \in Statuses
          BY <4>1, GovernanceAssumption DEF Approval, Statuses
        <4> HIDE DEF q
        <4>4. Sound(p)
          <5>1. CASE p = [q EXCEPT !.status = "expired"]
            <6>1. p \in Approval /\ p.status = "expired" /\ p.job = q.job
              BY <4>1, <4>3, <5>1 DEF Approval
            <6> QED BY <4>1, <6>1
          <5>2. CASE /\ q.requester # u /\ ~(now > q.expiresAt)
                     /\ p = [q EXCEPT !.status = d, !.decidedBy = u, !.decidedAt = now]
            <6>1. /\ p \in Approval /\ p.status = d /\ p.job = q.job
                  /\ p.decidedBy = u /\ p.decidedAt = now
                  /\ p.requester = q.requester /\ p.expiresAt = q.expiresAt
              BY <1>2, <4>1, <4>3, <5>2 DEF Approval
            <6> QED BY <1>2, <4>1, <4>3, <5>2, <6>1
          <5> QED BY <4>2, <5>1, <5>2
        <4> QED BY <4>1, <4>4 DEF q
      <3> QED BY <3>1, <3>2
    <2> QED BY <1>2, <2>1, <2>2
  <1>4. TypeOK'
    BY <1>1, <1>3 DEF TypeOK, LocksTypeOK
  <1>5. RunsAreCounted' /\ RunsHoldLocks' /\ OverlapIsExplained'
    BY <1>1 DEF RunsAreCounted, RunsHoldLocks, OverlapIsExplained, Lapsed,
                Conflict, LockOf
  <1>6. ApprovalsAreSound' /\ ApprovedHasJob'
    <2>1. ASSUME NEW b \in Approvals
          PROVE  /\ approvals'[b].status # "none" => approvals'[b].job \in Jobs
                 /\ approvals'[b].status = "approved" =>
                     /\ approvals'[b].decidedBy \notin {approvals'[b].requester, NoUser}
                     /\ approvals'[b].decidedAt <= approvals'[b].expiresAt
      BY <1>3 DEF ApprovalsAreSound, ApprovedHasJob
    <2> QED BY <2>1 DEF ApprovalsAreSound, ApprovedHasJob
  <1>7. RunsAreApproved'
    <2>1. ASSUME NEW b \in Approvals, approvals[b].status = "approved"
          PROVE  approvals'[b] = approvals[b]
      BY <1>3, <2>1
    <2> QED BY <1>1, <2>1 DEF RunsAreApproved
  <1> QED BY <1>4, <1>5, <1>6, <1>7

(* A dispatch: had another execution held the resource in a conflicting way,
   within its lease and for no reason the property excuses, its lock would
   have blocked this one. *)
LEMMA DispatchStep ==
    ASSUME Inv, NEW a \in Approvals, Dispatch(a)
    PROVE  Inv'
  <1> USE DEF Inv, GovInv
  <1> DEFINE j == approvals[a].job
             n == dispatches[j]
             e == LeaseEnd(LockTTL)
             new == [job |-> j, nr |-> n, leaseEnd |-> e, epoch |-> epoch]
  <1>1. /\ j \in Jobs /\ n \in Nat /\ now \in Nat /\ LockTTL \in Nat /\ epoch \in Nat
        /\ ResourceOf[j] \in Resources /\ LockTypeOf[j] \in LockTypes
        /\ dispatches \in [Jobs -> Nat]
    BY GovernanceAssumption DEF Dispatch, ApprovedHasJob, TypeOK, LocksTypeOK
  <1>2. /\ UNCHANGED <<now, approvals, epoch, deaths>>
        /\ running' = running \cup {new}
        /\ dispatches' = [dispatches EXCEPT ![j] = n + 1]
        /\ locks' = NotOrphans \cup {NewLock(ResourceOf[j], LockTypeOf[j], j, e)}
        /\ Blocking(ResourceOf[j], LockTypeOf[j], j) = {}
    BY DEF Dispatch, AcquireLock, NewLock
  <1>3. /\ e \in Nat
        /\ NewLock(ResourceOf[j], LockTypeOf[j], j, e) \in Lock
    BY <1>1, NewLockType DEF TypeOK
  <1>4. /\ new \in Execution /\ new.job = j /\ new.nr = n /\ new.leaseEnd = e
        /\ new.epoch = epoch
    BY <1>1, <1>3 DEF Execution
  <1>5. /\ \A k \in Jobs \ {j} : dispatches'[k] = dispatches[k]
        /\ dispatches'[j] = n + 1
        /\ \A x \in running : x.job \in Jobs /\ x.nr \in Nat
    BY <1>1, <1>2 DEF TypeOK, Execution
  <1>a. approvals[a].status = "approved"
    BY DEF Dispatch
  <1>b. LockOf(new) = NewLock(ResourceOf[j], LockTypeOf[j], j, e)
    BY <1>4 DEF LockOf
  <1> HIDE DEF new, e, n
  <1>6. TypeOK'
    BY <1>1, <1>2, <1>3, <1>4 DEF TypeOK, LocksTypeOK, NotOrphans
  <1>7. RunsAreCounted'
    <2>1. \A x \in running' : x.nr < dispatches'[x.job] /\ x.epoch <= epoch'
      <3>1. ASSUME NEW x \in running
            PROVE  x.nr < dispatches'[x.job] /\ x.epoch <= epoch'
        <4>1. x.nr < dispatches[x.job] /\ x.epoch <= epoch
          BY DEF RunsAreCounted
        <4>2. dispatches'[x.job] = dispatches[x.job]
                \/ dispatches'[x.job] = dispatches[x.job] + 1
          BY <1>5 DEF n
        <4>3. dispatches[x.job] \in Nat /\ x.nr \in Nat
          BY <1>1, <1>5
        <4> QED BY <1>2, <4>1, <4>2, <4>3
      <3>2. new.nr < dispatches'[new.job] /\ new.epoch <= epoch'
        BY <1>1, <1>2, <1>4, <1>5
      <3> QED BY <1>2, <3>1, <3>2
    <2>2. \A x \in running : x.job = j => x.nr # n
      BY <1>1, <1>5 DEF RunsAreCounted, n
    <2>3. \A x, y \in running' : x.job = y.job /\ x.nr = y.nr => x = y
      BY <1>2, <1>4, <2>2 DEF RunsAreCounted
    <2> QED BY <2>1, <2>3 DEF RunsAreCounted
  <1>8. RunsHoldLocks'
    <2>1. ASSUME NEW x \in running, x.epoch = epoch, dispatches'[x.job] = 1,
                 ~Lapsed(x)
          PROVE  LockOf(x) \in locks'
      <3>1. x.job # j /\ dispatches[x.job] = 1
        BY <1>1, <1>5, <2>1 DEF RunsAreCounted, n
      <3>2. LockOf(x) \in locks
        BY <2>1, <3>1 DEF RunsHoldLocks
      <3>3. LockOf(x).expiresAt = x.leaseEnd
        BY DEF LockOf, NewLock
      <3>4. x.leaseEnd \in Nat
        BY DEF TypeOK, Execution
      <3>5. ~Orphan(LockOf(x))
        BY <1>1, <2>1, <3>3, <3>4 DEF Lapsed, Orphan
      <3> QED BY <1>2, <3>2, <3>5 DEF NotOrphans
    <2>2. LockOf(new) \in locks'
      BY <1>2, <1>b
    <2>3. ASSUME NEW x \in running', x.epoch = epoch, dispatches'[x.job] = 1,
                 ~Lapsed(x)
          PROVE  LockOf(x) \in locks'
      BY <1>2, <2>1, <2>2, <2>3
    <2> QED BY <1>2, <2>3 DEF RunsHoldLocks, Lapsed, LockOf
  <1>9. OverlapIsExplained'
    <2>1. ASSUME NEW x \in running, Conflict(new, x) \/ Conflict(x, new),
                 ~Lapsed(x), x.epoch = epoch
          PROVE  dispatches'[x.job] > 1
      <3>1. x.job # j /\ x.job \in Jobs /\ ResourceOf[x.job] = ResourceOf[j]
            /\ Incompatible(LockTypeOf[x.job], LockTypeOf[j])
        BY <1>4, <1>5, <2>1 DEF Conflict, Incompatible
      <3>2. SUFFICES ASSUME dispatches[x.job] = 1
                     PROVE  FALSE
        <4>1. dispatches[x.job] \in Nat /\ dispatches[x.job] > x.nr /\ x.nr \in Nat
          BY <1>1, <1>5, <3>1 DEF RunsAreCounted
        <4> QED BY <1>5, <3>1, <4>1
      <3>3. LockOf(x) \in locks
        BY <2>1, <3>2 DEF RunsHoldLocks
      <3>4. /\ LockOf(x).resource = ResourceOf[j] /\ LockOf(x).job = x.job
            /\ LockOf(x).type = LockTypeOf[x.job]
            /\ LockOf(x).expiresAt = x.leaseEnd /\ x.leaseEnd \in Nat
        BY <3>1 DEF LockOf, NewLock, TypeOK, Execution
      <3>5. Live(LockOf(x)) /\ LockOf(x) \in NotOrphans
        BY <1>1, <2>1, <3>3, <3>4 DEF Live, Lapsed, NotOrphans, Orphan
      <3>6. LockOf(x) \in Blocking(ResourceOf[j], LockTypeOf[j], j)
        BY <3>1, <3>4, <3>5 DEF Blocking
      <3> QED BY <1>2, <3>6
    <2>2. ~Conflict(new, new)
      BY DEF Conflict
    <2>3. ASSUME NEW x \in running, NEW y \in running, Conflict(x, y)
          PROVE  \/ Lapsed(x) \/ Lapsed(y) \/ x.epoch # y.epoch
                 \/ dispatches'[x.job] > 1 \/ dispatches'[y.job] > 1
      <3>1. \A k \in Jobs : dispatches[k] > 1 => dispatches'[k] > 1
        BY <1>1, <1>5 DEF n
      <3>2. x.job \in Jobs /\ y.job \in Jobs
        BY <1>5
      <3> QED BY <2>3, <3>1, <3>2 DEF OverlapIsExplained
    <2>4. ASSUME NEW x \in running', NEW y \in running', Conflict(x, y)
          PROVE  \/ Lapsed(x) \/ Lapsed(y) \/ x.epoch # y.epoch
                 \/ dispatches'[x.job] > 1 \/ dispatches'[y.job] > 1
      BY <1>2, <1>4, <2>1, <2>2, <2>3, <2>4
    <2> QED BY <1>2, <2>4 DEF OverlapIsExplained, Lapsed, Conflict
  <1>10. ApprovalsAreSound' /\ ApprovedHasJob'
    BY <1>2 DEF ApprovalsAreSound, ApprovedHasJob
  <1>11. RunsAreApproved'
    BY <1>2, <1>4, <1>a DEF RunsAreApproved, ApprovalsAreSound
  <1> QED BY <1>6, <1>7, <1>8, <1>9, <1>10, <1>11

(* The end of an execution: it releases the locks of its job, which no other
   execution of a job dispatched once relies on. *)
LEMMA FinishStep ==
    ASSUME Inv, NEW x \in running, Finish(x)
    PROVE  Inv'
  <1> USE DEF Inv, GovInv
  <1>1. /\ running' = running \ {x}
        /\ locks' = {l \in locks : l.job # x.job}
        /\ UNCHANGED <<now, approvals, dispatches, epoch, deaths>>
    BY DEF Finish, ReleaseLock
  <1>2. TypeOK'
    BY <1>1 DEF TypeOK, LocksTypeOK
  <1>3. RunsAreCounted' /\ RunsAreApproved' /\ ApprovalsAreSound' /\ ApprovedHasJob'
    BY <1>1 DEF RunsAreCounted, RunsAreApproved, ApprovalsAreSound, ApprovedHasJob
  <1>4. OverlapIsExplained'
    BY <1>1 DEF OverlapIsExplained, Lapsed, Conflict
  <1>5. RunsHoldLocks'
    <2>1. ASSUME NEW y \in running', y.epoch = epoch, dispatches[y.job] = 1,
                 ~Lapsed(y)
          PROVE  LockOf(y) \in locks'
      <3>1. y \in running /\ y # x /\ LockOf(y) \in locks
        BY <1>1, <2>1 DEF RunsHoldLocks
      <3>2. \A z \in running : z.nr \in Nat
        BY DEF TypeOK, Execution
      <3>3. y.job # x.job
        BY <2>1, <3>1, <3>2 DEF RunsAreCounted
      <3>4. LockOf(y).job = y.job
        BY DEF LockOf, NewLock
      <3> QED BY <1>1, <3>1, <3>3, <3>4
    <2> QED BY <1>1, <2>1 DEF RunsHoldLocks, Lapsed, LockOf
  <1> QED BY <1>2, <1>3, <1>4, <1>5

(* Every other step: an executor dies, central restarts, orphans are removed,
   a dispatch is refused, time passes. *)
LEMMA OtherStep ==
    ASSUME Inv,
           \/ \E a \in Approvals : DispatchRefused(a)
           \/ \E x \in running : ExecutorDies(x)
           \/ CentralRestart \/ CleanUp \/ TimePasses \/ UNCHANGED vars
    PROVE  Inv'
  <1> USE DEF Inv, GovInv
  <1>1. CASE CentralRestart
    <2> USE <1>1 DEF CentralRestart
    <2>1. TypeOK'
      BY GovernanceAssumption DEF TypeOK, LocksTypeOK, NoApproval, Approval, Statuses
    <2>2. epoch \in Nat /\ \A x \in running : x.epoch \in Nat /\ x.epoch <= epoch
      BY DEF TypeOK, Execution, RunsAreCounted
    <2>3. \A x \in running : x.epoch # epoch' /\ x.epoch <= epoch'
      BY <2>2
    <2>4. RunsAreCounted'
      BY <2>3 DEF RunsAreCounted
    <2>5. RunsHoldLocks' /\ RunsAreApproved'
      BY <2>3 DEF RunsHoldLocks, RunsAreApproved
    <2>6. OverlapIsExplained'
      BY DEF OverlapIsExplained, Lapsed, Conflict
    <2>7. ApprovalsAreSound' /\ ApprovedHasJob'
      BY DEF ApprovalsAreSound, ApprovedHasJob, NoApproval
    <2> QED BY <2>1, <2>4, <2>5, <2>6, <2>7
  <1>2. ASSUME \/ \E a \in Approvals : DispatchRefused(a)
               \/ \E x \in running : ExecutorDies(x)
               \/ CleanUp \/ TimePasses \/ UNCHANGED vars
        PROVE  Inv'
    <2>1. /\ running' \subseteq running
          /\ locks' \in {locks, NotOrphans}
          /\ now' \in {now, now + 1}
          /\ deaths' \in {deaths, deaths + 1}
          /\ UNCHANGED <<approvals, dispatches, epoch>>
      BY <1>2 DEF DispatchRefused, AcquireRefused, ExecutorDies, CleanUp,
                  CleanOrphanedLocks, TimePasses, Tick, vars
    <2>2. now \in Nat /\ now' \in Nat /\ now <= now' /\ deaths' \in Nat
      BY <2>1 DEF TypeOK, LocksTypeOK
    <2>3. \A x \in running : x.leaseEnd \in Nat
      BY DEF TypeOK, Execution
    <2>4. \A x \in running : Lapsed(x) => Lapsed(x)'
      BY <2>2, <2>3 DEF Lapsed
    <2>5. TypeOK'
      BY <2>1, <2>2 DEF TypeOK, LocksTypeOK, NotOrphans
    <2>6. RunsAreCounted' /\ RunsAreApproved' /\ ApprovalsAreSound' /\ ApprovedHasJob'
      BY <2>1 DEF RunsAreCounted, RunsAreApproved, ApprovalsAreSound, ApprovedHasJob
    <2>7. OverlapIsExplained'
      BY <2>1, <2>4 DEF OverlapIsExplained, Conflict
    <2>8. RunsHoldLocks'
      <3>1. ASSUME NEW x \in running', x.epoch = epoch, dispatches[x.job] = 1,
                   ~Lapsed(x)'
            PROVE  LockOf(x) \in locks'
        <4>1. x \in running /\ ~Lapsed(x) /\ LockOf(x) \in locks
          BY <2>1, <2>4, <3>1 DEF RunsHoldLocks
        <4>2. LockOf(x).expiresAt = x.leaseEnd
          BY DEF LockOf, NewLock
        <4>3. ~Orphan(LockOf(x))
          BY <2>2, <2>3, <4>1, <4>2 DEF Lapsed, Orphan
        <4> QED BY <2>1, <4>1, <4>3 DEF NotOrphans
      <3> QED BY <2>1, <3>1 DEF RunsHoldLocks, LockOf
    <2> QED BY <2>5, <2>6, <2>7, <2>8
  <1> QED BY <1>1, <1>2

(* The properties of governance and what they rest on, by one induction. *)
THEOREM GovernanceInvariant == Spec => []Inv
  <1>1. Init => Inv
    BY GovernanceAssumption
       DEF Init, Inv, GovInv, TypeOK, LocksInit, LocksTypeOK, NoApproval, Approval,
           Statuses, RunsAreCounted, RunsHoldLocks, OverlapIsExplained,
           ApprovalsAreSound, RunsAreApproved, ApprovedHasJob
  <1>2. Inv /\ [Next]_vars => Inv'
    <2> SUFFICES ASSUME Inv, [Next]_vars PROVE Inv'
      OBVIOUS
    <2> QED BY ApprovalStep, DispatchStep, FinishStep, OtherStep DEF Next
  <1> QED BY <1>1, <1>2, PTL DEF Spec

(* Conflicting executions overlap only by an expired lease, a restart of
   central, or a second dispatch of the same job. *)
THEOREM OverlapExplained == Spec => []OverlapIsExplained
  <1>1. Inv => OverlapIsExplained
    BY DEF Inv, GovInv
  <1> QED BY <1>1, GovernanceInvariant, PTL

(* Nothing runs without an approval somebody else gave in time. *)
THEOREM FourEyes == Spec => []RunsAreApproved
  <1>1. Inv => RunsAreApproved
    BY DEF Inv, GovInv
  <1> QED BY <1>1, GovernanceInvariant, PTL

(* Two users may decide the same request, one of them late, while it is
   presented, locked and run: the first outcome stands until central restarts. *)
THEOREM FirstDecisionStands == Spec => DecisionStands
  <1>1. ASSUME TypeOK, [Next]_vars, NEW a \in Approvals, epoch' = epoch,
               approvals[a].status \in {"approved", "rejected", "expired"}
        PROVE  approvals'[a] = approvals[a]
    <2>1. approvals \in [Approvals -> Approval] /\ epoch \in Nat
      BY <1>1 DEF TypeOK
    <2>2. ASSUME NEW b \in Approvals, b # a \/ approvals[b].status \in {"none", "pending"},
                 NEW record, approvals' = [approvals EXCEPT ![b] = record]
          PROVE  approvals'[a] = approvals[a]
      BY <1>1, <2>1, <2>2
    <2>3. ASSUME NEW b \in Approvals, NEW j \in Jobs, NEW u \in Users, CreateApproval(b, j, u)
          PROVE  approvals'[a] = approvals[a]
      BY <2>2, <2>3 DEF CreateApproval
    <2>4. ASSUME NEW b \in Approvals, NEW u \in Users, NEW d \in {"approved", "rejected"},
                 DecideApproval(b, u, d)
          PROVE  approvals'[a] = approvals[a]
      <3>1. approvals[b].status = "pending"
        BY <2>4 DEF DecideApproval
      <3>2. \E record : approvals' = [approvals EXCEPT ![b] = record]
        <4>1. CASE now > approvals[b].expiresAt
          <5>1. approvals' = [approvals EXCEPT ![b] = [approvals[b] EXCEPT !.status = "expired"]]
            BY <2>4, <4>1 DEF DecideApproval
          <5> QED BY <5>1
        <4>2. CASE ~ (now > approvals[b].expiresAt)
          <5>1. approvals' = [approvals EXCEPT ![b] =
                   [approvals[b] EXCEPT !.status = d, !.decidedBy = u, !.decidedAt = now]]
            BY <2>4, <4>2 DEF DecideApproval
          <5> QED BY <5>1
        <4> QED BY <4>1, <4>2
      <3> QED BY <2>2, <3>1, <3>2
    <2>5. CASE CentralRestart
      BY <1>1, <2>1, <2>5 DEF CentralRestart
    <2>6. CASE UNCHANGED approvals
      BY <2>6
    <2>7. CASE \E b \in Approvals : Dispatch(b) \/ DispatchRefused(b)
      BY <2>6, <2>7 DEF Dispatch, DispatchRefused
    <2>8. CASE \E x \in running : Finish(x) \/ ExecutorDies(x)
      BY <2>6, <2>8 DEF Finish, ExecutorDies
    <2> QED BY <1>1, <2>3, <2>4, <2>5, <2>6, <2>7, <2>8
            DEF Next, CleanUp, TimePasses, vars
  <1> DEFINE A == \A a \in Approvals :
                     /\ approvals[a].status \in {"approved", "rejected", "expired"}
                     /\ epoch' = epoch
                     => approvals'[a] = approvals[a]
  <1>2. TypeOK /\ [Next]_vars => [A]_vars
    BY <1>1
  <1>3. [][A]_vars => DecisionStands
    BY DEF DecisionStands
  <1>4. Inv => TypeOK
    BY DEF Inv, GovInv
  <1> HIDE DEF A
  <1> QED BY <1>2, <1>3, <1>4, GovernanceInvariant, PTL DEF Spec
(* The lock an execution is given is a lease of the abstract table. *)
LEMMA DispatchGrants ==
    ASSUME Inv, NEW a \in Approvals, Dispatch(a)
    PROVE  JobLeases!Next
  <1> DEFINE j == approvals[a].job
  <1>1. /\ LocksTypeOK /\ j \in Jobs /\ LockTTL \in Nat
        /\ ResourceOf[j] \in Resources /\ LockTypeOf[j] \in LockTypes
        /\ UNCHANGED now /\ AcquireLock(ResourceOf[j], LockTypeOf[j], j, LockTTL)
    BY GovernanceAssumption DEF Inv, GovInv, ApprovedHasJob, TypeOK, Dispatch
  <1>2. Leases!Grant(ResourceOf[j], LockTypeOf[j], j, LockTTL)
    BY <1>1, AcquireGrants
  <1>3. JobLeases!Grant(ResourceOf[j], LockTypeOf[j], j, LockTTL)
    BY <1>2 DEF Leases!Grant, Leases!Free, Leases!InForce,
                JobLeases!Grant, JobLeases!Free, JobLeases!InForce
  <1> QED BY <1>1, <1>3 DEF JobLeases!Next, LockTypes

(* The approvals, the executions and the restarts of central add nothing to
   what the locks promise but that a restart forgets them: a dispatch is a
   grant, the end of an execution gives up what its job holds, and an executor
   that dies leaves its lease to run out. *)
THEOREM GovernanceIsLeases == Spec => ImplementsForgetfulLeases
  <1>1. Init => JobLeases!Init
    BY DEF Init, LocksInit, JobLeases!Init
  <1>2. ASSUME Inv, [Next]_vars
        PROVE  [JobLeases!Next \/ JobLeases!Forget]_<<now, LiveLocks>>
    <2>1. LocksTypeOK
      BY <1>2 DEF Inv, GovInv, TypeOK
    <2>2. CASE \E a \in Approvals : Dispatch(a)
      BY <1>2, <2>2, DispatchGrants
    <2>3. ASSUME locks' = NotOrphans, UNCHANGED now
          PROVE  UNCHANGED <<now, LiveLocks>>
      BY <2>1, <2>3, OrphansAreInvisible
    <2>4. ASSUME NEW a \in Approvals, DispatchRefused(a)
          PROVE  UNCHANGED <<now, LiveLocks>>
      BY <2>3, <2>4 DEF DispatchRefused, AcquireRefused
    <2>5. ASSUME NEW x \in running, Finish(x)
          PROVE  JobLeases!Next
      <3>1. x.job \in Jobs /\ UNCHANGED now /\ ReleaseLock(x.job)
        BY <1>2, <2>5 DEF Finish, Inv, GovInv, TypeOK, Execution
      <3>2. JobLeases!GiveUp(x.job)
        BY <3>1 DEF ReleaseLock, JobLeases!GiveUp, Live
      <3> QED BY <3>1, <3>2 DEF JobLeases!Next
    <2>6. CASE CentralRestart
      BY <2>6 DEF CentralRestart, JobLeases!Forget, Live
    <2>7. CASE CleanUp
      BY <2>3, <2>7 DEF CleanUp, CleanOrphanedLocks
    <2>8. CASE TimePasses
      <3>1. Leases!TimePasses
        BY <2>1, <2>8, TimeEndsLeases DEF TimePasses
      <3> QED BY <3>1 DEF Leases!TimePasses, Leases!InForce, JobLeases!TimePasses,
                          JobLeases!InForce, JobLeases!Next
    <2>9. ASSUME UNCHANGED <<now, locks>>
          PROVE  UNCHANGED <<now, LiveLocks>>
      BY <2>9 DEF LiveLocks, Live
    <2> QED BY <1>2, <2>2, <2>4, <2>5, <2>6, <2>7, <2>8, <2>9
            DEF Next, vars, CreateApproval, DecideApproval, ExecutorDies
  <1>3. Inv /\ [Next]_vars => [JobLeases!Next \/ JobLeases!Forget]_(JobLeases!leaseVars)
    BY <1>2 DEF JobLeases!leaseVars, LiveLocks
  <1> QED BY <1>1, <1>3, GovernanceInvariant, PTL
          DEF Spec, ImplementsForgetfulLeases, JobLeases!ForgetfulSpec
=============================================================================
