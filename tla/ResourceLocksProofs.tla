------------------------- MODULE ResourceLocksProofs -------------------------
(***************************************************************************)
(* Proofs about ResourceLocks for any resources, jobs and lease lengths,   *)
(* and the lemmas about its operations that JobGovernanceProofs uses.      *)
(***************************************************************************)
EXTENDS ResourceLocks, TLAPS

NewLock(r, t, j, e) == [resource |-> r, type |-> t, job |-> j, expiresAt |-> e]

(* A granted lock starts a lease at a time the clock can show. *)
LEMMA NewLockType ==
    ASSUME LocksTypeOK, NEW r \in Resources, NEW t \in LockTypes, NEW j \in Jobs,
           NEW ttl \in Nat
    PROVE  LeaseEnd(ttl) \in Nat /\ NewLock(r, t, j, LeaseEnd(ttl)) \in Lock
  BY DEF LocksTypeOK, LeaseEnd, NewLock, Lock

(* acquireLock keeps the exclusion: what it adds was blocked by nothing, and
   what it leaves was there. *)
LEMMA AcquireKeepsExclusion ==
    ASSUME LocksTypeOK, LocksExclude, UNCHANGED now,
           NEW r \in Resources, NEW t \in LockTypes, NEW j \in Jobs,
           NEW ttl \in Nat, AcquireLock(r, t, j, ttl)
    PROVE  LocksTypeOK' /\ LocksExclude'
  <1> DEFINE new == NewLock(r, t, j, LeaseEnd(ttl))
  <1>1. locks' = NotOrphans \cup {new}
    BY DEF AcquireLock, NewLock
  <1>2. new \in Lock /\ new.resource = r /\ new.job = j /\ new.type = t
    BY NewLockType DEF NewLock
  <1>3. LocksTypeOK'
    BY <1>1, <1>2 DEF LocksTypeOK, NotOrphans
  <1> HIDE DEF new
  <1>4. ASSUME NEW l \in NotOrphans, l.resource = r, l.job # j, Live(l)
        PROVE  l.type = "shared" /\ t = "shared"
    BY <1>4 DEF AcquireLock, Blocking, Incompatible, LocksTypeOK, NotOrphans,
                Lock, LockTypes
  <1>5. ASSUME NEW l1 \in locks', NEW l2 \in locks', l1.resource = l2.resource,
               l1.job # l2.job, Live(l1), Live(l2)
        PROVE  l1.type = "shared" /\ l2.type = "shared"
    <2>1. CASE l1 \in NotOrphans /\ l2 \in NotOrphans
      BY <1>5, <2>1 DEF LocksExclude, NotOrphans
    <2>2. CASE l1 = new /\ l2 \in NotOrphans
      BY <1>2, <1>4, <1>5, <2>2
    <2>3. CASE l1 \in NotOrphans /\ l2 = new
      BY <1>2, <1>4, <1>5, <2>3
    <2>4. CASE l1 = new /\ l2 = new
      BY <1>5, <2>4
    <2> QED BY <1>1, <2>1, <2>2, <2>3, <2>4
  <1>6. LocksExclude'
    BY <1>5 DEF LocksExclude, Live
  <1> QED BY <1>3, <1>6

(* Taking locks away, or letting time pass, keeps it too. *)
LEMMA FewerKeepExclusion ==
    ASSUME LocksTypeOK, LocksExclude, locks' \subseteq locks,
           now' \in Nat, now' >= now
    PROVE  LocksTypeOK' /\ LocksExclude'
  <1>1. LocksTypeOK'
    BY DEF LocksTypeOK
  <1>2. \A l \in locks' : Live(l)' => Live(l)
    BY DEF LocksTypeOK, Live, Lock
  <1>3. LocksExclude'
    BY <1>2 DEF LocksExclude
  <1> QED BY <1>1, <1>3

(* Type correctness and exclusion, together inductive. *)
THEOREM LocksInvariant == LocksSpec => [](LocksTypeOK /\ LocksExclude)
  <1>1. LocksInit => LocksTypeOK /\ LocksExclude
    BY DEF LocksInit, LocksTypeOK, LocksExclude
  <1>2. ASSUME LocksTypeOK, LocksExclude, [LocksNext]_lockVars
        PROVE  LocksTypeOK' /\ LocksExclude'
    <2>1. now \in Nat /\ LockTTLs \subseteq Nat
      BY <1>2, LockAssumption DEF LocksTypeOK
    <2>2. ASSUME NEW j \in Jobs, NEW r \in Resources, NEW t \in LockTypes,
                 NEW ttl \in LockTTLs, AcquireLock(r, t, j, ttl), UNCHANGED now
          PROVE  LocksTypeOK' /\ LocksExclude'
      BY <1>2, <2>1, <2>2, AcquireKeepsExclusion
    <2>3. ASSUME locks' \subseteq locks, UNCHANGED now
          PROVE  LocksTypeOK' /\ LocksExclude'
      BY <1>2, <2>1, <2>3, FewerKeepExclusion
    <2>4. ASSUME NEW j \in Jobs, NEW r \in Resources, NEW t \in LockTypes,
                 AcquireRefused(r, t, j)
          PROVE  locks' \subseteq locks
      BY <2>4 DEF AcquireRefused, NotOrphans
    <2>5. ASSUME NEW j \in Jobs, ReleaseLock(j)
          PROVE  locks' \subseteq locks
      BY <2>5 DEF ReleaseLock
    <2>6. CleanOrphanedLocks => locks' \subseteq locks
      BY DEF CleanOrphanedLocks, NotOrphans
    <2>7. CASE Tick /\ UNCHANGED locks
      BY <1>2, <2>1, <2>7, FewerKeepExclusion DEF Tick
    <2>8. CASE UNCHANGED lockVars
      BY <2>3, <2>8 DEF lockVars
    <2> QED BY <1>2, <2>2, <2>3, <2>4, <2>5, <2>6, <2>7, <2>8 DEF LocksNext
  <1> QED BY <1>1, <1>2, PTL DEF LocksSpec

(* Readers and writers, for any number of jobs and resources. *)
THEOREM Exclusion == LocksSpec => []LocksExclude
  BY LocksInvariant, PTL

(* A lease ends by its expiry or by the release of its own job, never by
   what another job does. *)
THEOREM LeaseHonoured == LocksSpec => LeaseIsHonoured
  <1> DEFINE A == \A l \in locks \ locks' :
                     Live(l) => locks' = {k \in locks : k.job # l.job}
  <1>1. ASSUME LocksTypeOK, [LocksNext]_lockVars
        PROVE  [A]_lockVars
    <2>1. ASSUME NEW l \in locks, Live(l)
          PROVE  l \in NotOrphans
      BY <1>1, <2>1 DEF Live, NotOrphans, Orphan, LocksTypeOK, Lock
    <2>2. NotOrphans \subseteq locks' => A
      BY <2>1
    <2>3. ASSUME NEW j \in Jobs, ReleaseLock(j)
          PROVE  A
      BY <2>3 DEF ReleaseLock
    <2>4. (Tick /\ UNCHANGED locks) \/ UNCHANGED lockVars => A
      BY DEF lockVars
    <2> QED BY <1>1, <2>2, <2>3, <2>4
            DEF LocksNext, AcquireLock, AcquireRefused, CleanOrphanedLocks
  <1>2. [][A]_lockVars => LeaseIsHonoured
    BY DEF LeaseIsHonoured
  <1>3. LocksTypeOK /\ [LocksNext]_lockVars => [A]_lockVars
    BY <1>1
  <1> HIDE DEF A
  <1> QED BY <1>2, <1>3, LocksInvariant, PTL DEF LocksSpec
(* The records that still block, seen from LeaseTable. *)
LiveLocks == {l \in locks : Live(l)}

(* A granted request is a lease of LeaseTable: nothing in force stands in its
   way, the records it removes on the way were not in force, and the record it
   adds is, unless the lease has no length. *)
LEMMA AcquireGrants ==
    ASSUME LocksTypeOK, UNCHANGED now,
           NEW r \in Resources, NEW t \in LockTypes, NEW j \in Jobs,
           NEW ttl \in Nat, AcquireLock(r, t, j, ttl)
    PROVE  Leases!Grant(r, t, j, ttl)
  <1> DEFINE new == NewLock(r, t, j, now + ttl)
  <1>1. locks' = NotOrphans \cup {new} /\ Blocking(r, t, j) = {}
    BY DEF AcquireLock, NewLock, LeaseEnd
  <1>2. \A l \in locks : Live(l) => l \in NotOrphans /\ l.type \in LockTypes
    BY DEF LocksTypeOK, NotOrphans, Live, Orphan, Lock
  <1>3. Leases!Free(r, t, j)
    <2>1. ASSUME NEW l \in locks, Live(l), l.resource = r, l.job # j
          PROVE  l.type = "shared" /\ t = "shared"
      BY <1>1, <1>2, <2>1 DEF Blocking, Incompatible, LockTypes
    <2> QED BY <2>1 DEF Leases!Free
  <1>4. \A l \in locks' : Live(l)' <=> l.expiresAt > now
    BY DEF Live
  <1>5. LiveLocks' = {l \in LiveLocks \cup {new} : l.expiresAt > now}
    BY <1>1, <1>2, <1>4 DEF LiveLocks, Live, NotOrphans
  <1> QED BY <1>3, <1>5 DEF Leases!Grant, Leases!InForce, LiveLocks, NewLock

(* What is removed as an orphan was not in force: a refused request and a
   clean-up change nothing that a job could tell. *)
LEMMA OrphansAreInvisible ==
    ASSUME LocksTypeOK, UNCHANGED now, locks' = NotOrphans
    PROVE  LiveLocks' = LiveLocks
  BY DEF LocksTypeOK, NotOrphans, LiveLocks, Live, Orphan, Lock

LEMMA ReleaseGivesUp ==
    ASSUME UNCHANGED now, NEW j, ReleaseLock(j)
    PROVE  Leases!GiveUp(j)
  BY DEF ReleaseLock, Leases!GiveUp, Live

(* As the clock runs a record stops to block at its expiry, still stored. *)
LEMMA TimeEndsLeases ==
    ASSUME LocksTypeOK, Tick, UNCHANGED locks
    PROVE  Leases!TimePasses
  BY DEF LocksTypeOK, Tick, Lock, Leases!TimePasses, Leases!InForce, Live

(* The lock service implements LeaseTable: whatever it stores longer than it
   has to, and whenever somebody removes it, the jobs see leases that begin
   with the grant, exclude each other and end on time. *)
THEOREM LocksAreLeases == LocksSpec => ImplementsLeaseTable
  <1>1. LocksInit => Leases!Init
    BY DEF LocksInit, Leases!Init
  <1>2. ASSUME LocksTypeOK, [LocksNext]_lockVars
        PROVE  [Leases!Next]_<<now, LiveLocks>>
    <2>1. LockTTLs \subseteq Nat
      BY LockAssumption
    <2>2. ASSUME NEW j \in Jobs, NEW r \in Resources, NEW t \in LockTypes,
                 NEW ttl \in LockTTLs, AcquireLock(r, t, j, ttl), UNCHANGED now
          PROVE  Leases!Next
      BY <1>2, <2>1, <2>2, AcquireGrants DEF Leases!Next, LockTypes
    <2>3. ASSUME locks' = NotOrphans, UNCHANGED now
          PROVE  UNCHANGED <<now, LiveLocks>>
      BY <1>2, <2>3, OrphansAreInvisible
    <2>4. ASSUME NEW j \in Jobs, ReleaseLock(j), UNCHANGED now
          PROVE  Leases!Next
      BY <2>4, ReleaseGivesUp DEF Leases!Next
    <2>5. CASE Tick /\ UNCHANGED locks
      BY <1>2, <2>5, TimeEndsLeases DEF Leases!Next
    <2>6. CASE UNCHANGED lockVars
      BY <2>6 DEF lockVars, LiveLocks, Live
    <2> QED BY <1>2, <2>2, <2>3, <2>4, <2>5, <2>6
            DEF LocksNext, AcquireRefused, CleanOrphanedLocks
  <1>3. LocksTypeOK /\ [LocksNext]_lockVars => [Leases!Next]_(Leases!leaseVars)
    BY <1>2 DEF Leases!leaseVars, LiveLocks
  <1> QED BY <1>1, <1>3, LocksInvariant, PTL
          DEF LocksSpec, ImplementsLeaseTable, Leases!Spec
=============================================================================
