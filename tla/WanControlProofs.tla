-------------------------- MODULE WanControlProofs --------------------------
(***************************************************************************)
(* Proofs about WanControl for any devices, links, policies and requests   *)
(* under way, any length of the list of snapshots and any limits.          *)
(*                                                                         *)
(* Everything that changes the primary links goes through executeAction,   *)
(* so the lemmas say first what one call of it leaves behind (Execute),    *)
(* and the theorems look at its callers.                                   *)
(***************************************************************************)
EXTENDS WanControl, FiniteSetTheorems, TLAPS

(* A set of numbers has a least element, and Earliest is it. *)
LEMMA EarliestIsLeast ==
    ASSUME NEW S \in SUBSET Nat, S # {}
    PROVE  /\ Earliest(S) \in S
           /\ \A x \in S : Earliest(S) <= x
  <1>1. PICK x \in S : \A y \in S : ~ (<<y, x>> \in OpToRel(<, Nat))
    BY NatLessThanWellFounded, WFMin
  <1>2. ASSUME NEW y \in S
        PROVE  x <= y
    <2>1. x \in Nat /\ y \in Nat
      OBVIOUS
    <2>2. ~ (y < x)
      BY <1>1, <2>1 DEF OpToRel
    <2> QED BY <2>1, <2>2
  <1> QED BY <1>1, <1>2 DEF Earliest

(* FirstOf, the find of the code, returns a link of the set if there is one. *)
LEMMA FirstIsIn ==
    ASSUME NEW S \in SUBSET Links
    PROVE  /\ FirstOf(S) \in Links \cup {NoLink}
           /\ FirstOf(S) # NoLink => FirstOf(S) \in S
           /\ FirstOf(S) = NoLink => S = {}
  <1>1. CASE S = {}
    BY <1>1 DEF FirstOf
  <1>2. CASE S # {}
    <2>1. S \in SUBSET Nat /\ NoLink \notin Links
      BY WanAssumption
    <2>2. Earliest(S) \in S
      BY <1>2, <2>1, EarliestIsLeast
    <2> QED BY <1>2, <2>1, <2>2 DEF FirstOf
  <1> QED BY <1>1, <1>2

-----------------------------------------------------------------------------
(* Types *)

(* What captureSnapshot returns. *)
LEMMA CapturedType ==
    ASSUME NEW d \in Devices \cup {NoDevice}, links \subseteq Links
    PROVE  CaptureSnapshot(d) \in Snapshot
  <1>1. LinksOf(d) \cap primary \in SUBSET Links
    BY DEF LinksOf
  <1> QED BY <1>1, FirstIsIn DEF CaptureSnapshot, Snapshot

(* The list of snapshots is cut to its length by every entry. *)
LEMMA StoredType ==
    ASSUME TypeOK, NEW before \in Snapshot
    PROVE  /\ Stored(before) \in Seq(Snapshot)
           /\ Len(Stored(before)) <= MaxSnapshots
  <1> DEFINE longer == <<before>> \o snapshots
             n == IF Len(snapshots) < MaxSnapshots THEN Len(snapshots) + 1 ELSE MaxSnapshots
  <1>1. snapshots \in Seq(Snapshot) /\ Len(snapshots) \in Nat
        /\ MaxSnapshots \in Nat \ {0}
    BY WanAssumption DEF TypeOK
  <1>2. longer \in Seq(Snapshot) /\ Len(longer) = Len(snapshots) + 1
    BY <1>1
  <1>3. n \in Nat /\ n <= Len(longer) /\ n <= MaxSnapshots /\ n >= 1
    BY <1>1, <1>2
  <1>4. SubSeq(longer, 1, n) \in Seq(Snapshot) /\ Len(SubSeq(longer, 1, n)) = n
    BY <1>2, <1>3
  <1>5. Stored(before) = SubSeq(longer, 1, n)
    BY DEF Stored
  <1> QED BY <1>3, <1>4, <1>5

LEMMA SnapshotForType ==
    ASSUME TypeOK, NEW a, NEW before \in Snapshot
    PROVE  SnapshotFor(a, before) \in Snapshot
  BY DEF TypeOK, SnapshotFor

(* A call whose control moves on is still a call. *)
LEMMA CallMoves ==
    ASSUME NEW call \in Call, NEW pc \in Pcs, NEW ok \in BOOLEAN,
           NEW wans \in SUBSET Links, NEW snap \in Snapshot
    PROVE  [call EXCEPT !.pc = pc, !.ok = ok, !.wans = wans, !.snap = snap] \in Call
  BY DEF Call

LEMMA AnsweredType ==
    ASSUME NEW call \in Call, NEW ok \in BOOLEAN
    PROVE  /\ Answered(call, ok) \in Call
           /\ Answered(call, ok).pc = "returned" /\ Answered(call, ok).ok = ok
           /\ Answered(call, ok).act = call.act
           /\ Answered(call, ok).policy = call.policy
           /\ Answered(call, ok).todo = call.todo
  <1>1. NoSnapshot \in Snapshot /\ "returned" \in Pcs /\ {} \in SUBSET Links
    BY DEF NoSnapshot, Snapshot, Pcs
  <1> QED BY <1>1, CallMoves DEF Answered, Call

LEMMA IdleType == Idle \in Call
  BY DEF Idle, Call, Pcs, NoAction, Action, Keys, NoSnapshot, Snapshot

(* The drivers keep the primary links among the links, and the statuses what
   they are; of the links they name, all are links of the device. *)
LEMMA DriveTypes ==
    ASSUME TypeOK, NEW a \in Action, NEW snap \in Snapshot,
           Possible(a, LinksOf(a.device)), Drive(a, LinksOf(a.device), snap)
    PROVE  /\ primary' \subseteq links
           /\ status' \in [Links -> Statuses]
  <1> DEFINE wans == LinksOf(a.device)
  <1>0. wans \subseteq links /\ primary \subseteq links /\ links \subseteq Links
        /\ status \in [Links -> Statuses] /\ Links \subseteq Nat
    BY WanAssumption DEF LinksOf, TypeOK
  <1>1. CASE a.key = "set_primary_wan"
    BY <1>0, <1>1 DEF Drive, Possible, SetPrimaryWan
  <1>2. CASE a.key = "set_wan_failover"
    BY <1>0, <1>2 DEF Drive, Possible, SetWanFailover
  <1>3. CASE a.key = "set_wan_balance"
    BY <1>0, <1>3 DEF Drive
  <1>4. CASE a.key = "enable_wan"
    BY <1>0, <1>4 DEF Drive, Possible, EnableWan, Statuses
  <1>5. CASE a.key = "disable_wan"
    <2> DEFINE next == {l \in wans \ {a.target} : status[l] # "disabled"}
    <2>1. next # {} => Earliest(next) \in links
      BY <1>0, EarliestIsLeast
    <2>2. /\ status' = [status EXCEPT ![a.target] = "disabled"]
          /\ \/ primary' = primary
             \/ next # {} /\ primary' = primary \cup {Earliest(next)}
      BY <1>5 DEF Drive, DisableWan
    <2> QED BY <1>0, <2>1, <2>2 DEF Statuses
  <1>6. CASE a.key = "rollback_wan_change"
    BY <1>0, <1>6 DEF Drive, RollbackWanChange
  <1> QED BY <1>1, <1>2, <1>3, <1>4, <1>5, <1>6 DEF Action, Keys

(* One call of executeAction up to its first await. *)
LEMMA ExecuteTypes ==
    ASSUME TypeOK, NEW c \in Requests, NEW call \in Call, Execute(c, call)
    PROVE  /\ primary' \subseteq links
           /\ status' \in [Links -> Statuses]
           /\ snapshots' \in Seq(Snapshot) /\ Len(snapshots') <= MaxSnapshots
           /\ lastRun' \in Outcomes
           /\ exec' \in [Requests -> Call]
  <1> DEFINE a == call.act
             wans == LinksOf(a.device)
             before == CaptureSnapshot(a.device)
  <1>0. a \in Action /\ a.device \in Devices \cup {NoDevice} /\ wans \in SUBSET Links
    BY DEF Call, Action, LinksOf, TypeOK
  <1>1. CASE /\ lastRun' = "failed"
             /\ exec' = [exec EXCEPT ![c] = Answered(call, FALSE)]
             /\ UNCHANGED <<primary, status, snapshots>>
    BY <1>1, AnsweredType DEF TypeOK, Outcomes
  <1>2. CASE /\ snapshots' = Stored(before)
             /\ IF Possible(a, wans) THEN Drive(a, wans, SnapshotFor(a, before))
                ELSE UNCHANGED <<primary, status>>
             /\ exec' = [exec EXCEPT ![c] =
                  [call EXCEPT !.pc = "driven", !.ok = Possible(a, wans),
                               !.wans = wans, !.snap = before]]
             /\ UNCHANGED lastRun
    <2>1. before \in Snapshot
      BY <1>0, CapturedType DEF TypeOK
    <2>2. primary' \subseteq links /\ status' \in [Links -> Statuses]
      <3>1. CASE Possible(a, wans)
        BY <1>0, <1>2, <2>1, <3>1, DriveTypes, SnapshotForType
      <3>2. CASE ~ Possible(a, wans)
        BY <1>2, <3>2 DEF TypeOK
      <3> QED BY <3>1, <3>2
    <2>3. Possible(a, wans) \in BOOLEAN
      BY DEF Possible
    <2>4. [call EXCEPT !.pc = "driven", !.ok = Possible(a, wans),
                       !.wans = wans, !.snap = before] \in Call
      BY <1>0, <2>1, <2>3, CallMoves DEF Pcs
    <2>5. exec' \in [Requests -> Call]
      BY <1>2, <2>4 DEF TypeOK
    <2>6. snapshots' \in Seq(Snapshot) /\ Len(snapshots') <= MaxSnapshots
      BY <1>2, <2>1, StoredType
    <2> QED BY <1>2, <2>2, <2>5, <2>6 DEF TypeOK
  <1> QED BY <1>1, <1>2 DEF Execute

(* The engine's loop over the policies left is one call of executeAction, or
   the end of the evaluation. *)
LEMMA EvaluateTypes ==
    ASSUME TypeOK, NEW c \in Requests, NEW d \in Devices \cup {NoDevice},
           NEW todo \in SUBSET Policies, NEW first \in Links \cup {NoLink},
           NEW backup \in Links \cup {NoLink},
           EvaluatePolicies(c, d, todo, first, backup)
    PROVE  /\ primary' \subseteq links
           /\ status' \in [Links -> Statuses]
           /\ snapshots' \in Seq(Snapshot) /\ Len(snapshots') <= MaxSnapshots
           /\ lastRun' \in Outcomes
           /\ exec' \in [Requests -> Call]
  <1> DEFINE due == {p \in todo : Due(p, first)}
             p == Earliest(due)
             act == [key |-> "set_primary_wan", device |-> d, target |-> backup,
                     second |-> NoLink, back |-> 0]
             call == [Idle EXCEPT !.act = act, !.policy = p, !.first = first,
                                  !.todo = {q \in todo : q > p}, !.backup = backup]
  <1>1. CASE /\ exec' = [exec EXCEPT ![c] = Idle]
             /\ UNCHANGED <<primary, status, snapshots, lastRun>>
    BY <1>1, IdleType DEF TypeOK
  <1>2. CASE due # {} /\ Execute(c, call)
    <2>1. p \in Policies
      BY <1>2, EarliestIsLeast, WanAssumption
    <2>2. act \in Action
      BY DEF Action, Keys
    <2>3. call \in Call
      BY <2>1, <2>2, IdleType DEF Call
    <2> QED BY <1>2, <2>3, ExecuteTypes
  <1> QED BY <1>1, <1>2 DEF EvaluatePolicies

(* The variables keep their types. *)
LEMMA TypeStep ==
    ASSUME TypeOK, [Next]_vars
    PROVE  TypeOK'
  <1>0. /\ links \subseteq Links /\ links \subseteq born /\ primary \subseteq links
        /\ \A d : LinksOf(d) \subseteq links
    BY DEF TypeOK, LinksOf
  <1>1. ASSUME NEW d \in Devices, CreateDevice(d) \/ UpdateDevice(d) \/ DeleteDevice(d)
        PROVE  TypeOK'
    <2>1. CASE CreateDevice(d)
      BY <2>1 DEF CreateDevice, TypeOK
    <2>2. CASE UpdateDevice(d)
      BY <2>2 DEF UpdateDevice, TypeOK
    <2>3. CASE DeleteDevice(d)
      BY <1>0, <2>3 DEF DeleteDevice, TypeOK
    <2> QED BY <1>1, <2>1, <2>2, <2>3
  <1>2. ASSUME NEW l \in Links, NEW r \in Reports, NEW isPrimary \in BOOLEAN,
               CreateWanLink(l, r, isPrimary) \/ UpdateWanLink(l, r, isPrimary)
        PROVE  TypeOK'
    <2>0. r[1] \in Statuses /\ r[2] \in Qualities
      BY WanAssumption DEF Statuses, Qualities
    <2>1. CASE CreateWanLink(l, r, isPrimary)
      BY <1>0, <2>0, <2>1 DEF CreateWanLink, TypeOK
    <2>2. CASE UpdateWanLink(l, r, isPrimary)
      BY <1>0, <2>0, <2>2 DEF UpdateWanLink, TypeOK
    <2> QED BY <1>2, <2>1, <2>2
  <1>3. ASSUME NEW l \in Links, DeleteWanLink(l)
        PROVE  TypeOK'
    BY <1>0, <1>3 DEF DeleteWanLink, TypeOK
  <1>4. ASSUME NEW c \in Operators, NEW a \in Asked, Request(c, a)
        PROVE  TypeOK'
    <2>1. a \in Action
      BY WanAssumption DEF Asked, Action
    <2>2. [Idle EXCEPT !.act = a] \in Call
      BY <2>1, IdleType DEF Call
    <2>3. Execute(c, [Idle EXCEPT !.act = a]) /\ c \in Requests
      BY <1>4 DEF Request, Requests
    <2>4. UNCHANGED <<devices, offline, links, born, quality, switches, wait>>
      BY <1>4 DEF Request
    <2> QED BY <2>2, <2>3, <2>4, ExecuteTypes DEF TypeOK
  <1>5. ASSUME NEW c \in Evaluators, NEW d \in Devices, EvaluateDeviceWanHealth(c, d)
        PROVE  TypeOK'
    <2>1. /\ EvaluatePolicies(c, d, {p \in Policies : PolicyDevice[p] = d},
                              PrimaryOf(d), BackupOf(d))
          /\ UNCHANGED <<devices, offline, links, born, quality, switches, wait>>
      BY <1>5 DEF EvaluateDeviceWanHealth
    <2>2. PrimaryOf(d) \in Links \cup {NoLink} /\ BackupOf(d) \in Links \cup {NoLink}
      <3>1. /\ LinksOf(d) \cap primary \in SUBSET Links
            /\ {l \in LinksOf(d) \ primary : status[l] = "up"} \in SUBSET Links
        BY <1>0
      <3> QED BY <3>1, FirstIsIn DEF PrimaryOf, BackupOf
    <2>3. c \in Requests
      BY DEF Requests
    <2> QED BY <2>1, <2>2, <2>3, EvaluateTypes DEF TypeOK
  <1>6. ASSUME NEW c \in Requests, Proceed(c)
        PROVE  TypeOK'
    <2>0. exec[c] \in Call /\ exec \in [Requests -> Call]
      BY DEF TypeOK
    <2>1. CASE AfterDriver(c)
      <3>1. exec' \in [Requests -> Call] /\ lastRun' \in Outcomes
        <4>1. CASE /\ lastRun' = "failed"
                   /\ exec' = [exec EXCEPT ![c] = Answered(@, FALSE)]
          BY <2>0, <4>1, AnsweredType DEF Outcomes
        <4>2. CASE exec' = [exec EXCEPT ![c].pc = "probed"] /\ UNCHANGED lastRun
          BY <2>0, <4>2 DEF Call, Pcs, TypeOK
        <4>3. CASE exec' = [exec EXCEPT ![c] = Idle] /\ UNCHANGED lastRun
          BY <2>0, <4>3, IdleType DEF TypeOK
        <4> QED BY <2>1, <4>1, <4>2, <4>3 DEF AfterDriver
      <3> QED BY <2>1, <3>1 DEF AfterDriver, store, TypeOK
    <2>2. CASE AfterRollback(c)
      BY <2>0, <2>2, AnsweredType DEF AfterRollback, store, TypeOK, Outcomes
    <2>3. ASSUME NEW passed \in PostcheckResults, AfterPostcheck(c, passed)
          PROVE  TypeOK'
      <3>1. /\ exec' \in [Requests -> Call] /\ lastRun' \in Outcomes
            /\ primary' \subseteq links
        <4>1. CASE passed
          BY <1>0, <2>0, <2>3, <4>1, AnsweredType DEF AfterPostcheck, Outcomes
        <4>2. CASE ~ passed
          <5>1. exec' \in [Requests -> Call] /\ lastRun' \in Outcomes
            <6> DEFINE undone == [exec[c] EXCEPT !.pc = "undone", !.ok = FALSE]
            <6>1. undone \in Call
              BY <2>0 DEF Call, Pcs
            <6>2. exec' = [exec EXCEPT ![c] = undone] /\ UNCHANGED lastRun
              BY <2>3, <4>2 DEF AfterPostcheck
            <6> QED BY <2>0, <6>1, <6>2 DEF TypeOK
          <5>2. primary' \subseteq links
            BY <1>0, <2>3, <4>2 DEF AfterPostcheck, RollbackWanChange
          <5> QED BY <5>1, <5>2
        <4> QED BY <4>1, <4>2
      <3> QED BY <2>3, <3>1 DEF AfterPostcheck, TypeOK
    <2>4. CASE Resume(c)
      <3>1. CASE exec[c].policy = NoPolicy
        BY <2>0, <2>4, <3>1, IdleType DEF Resume, TypeOK
      <3>2. CASE exec[c].policy # NoPolicy
        <4>1. /\ exec[c].policy \in Policies
              /\ exec[c].act.device \in Devices \cup {NoDevice}
              /\ exec[c].todo \in SUBSET Policies
              /\ exec[c].first \in Links \cup {NoLink}
              /\ exec[c].backup \in Links \cup {NoLink}
          BY <2>0, <3>2 DEF Call, Action
        <4>2. switches' \in [Policies -> Nat] /\ wait' \in [Policies -> 0..Cooldown]
          <5>1. CASE exec[c].ok
            <6>1. /\ switches' = [switches EXCEPT ![exec[c].policy] = @ + 1]
                  /\ wait' = [wait EXCEPT ![exec[c].policy] = Cooldown]
              BY <2>4, <3>2, <5>1 DEF Resume
            <6>2. /\ switches \in [Policies -> Nat] /\ wait \in [Policies -> 0..Cooldown]
                  /\ Cooldown \in Nat
              BY WanAssumption DEF TypeOK
            <6>3. Cooldown \in 0..Cooldown
              BY <6>2
            <6> QED BY <4>1, <6>1, <6>2, <6>3
          <5>2. CASE ~ exec[c].ok
            BY <2>4, <3>2, <5>2 DEF Resume, TypeOK
          <5> QED BY <5>1, <5>2
        <4>3. /\ EvaluatePolicies(c, exec[c].act.device, exec[c].todo,
                                  exec[c].first, exec[c].backup)
              /\ UNCHANGED <<devices, offline, links, born, quality>>
          BY <2>4, <3>2 DEF Resume
        <4> QED BY <4>1, <4>2, <4>3, EvaluateTypes DEF TypeOK
      <3> QED BY <3>1, <3>2
    <2> QED BY <1>6, <2>1, <2>2, <2>3, <2>4 DEF Proceed
  <1>7. CASE Tick
    BY <1>7, WanAssumption DEF Tick, store, TypeOK
  <1>8. CASE UNCHANGED vars
    BY <1>8 DEF vars, TypeOK
  <1> QED BY <1>1, <1>2, <1>3, <1>4, <1>5, <1>6, <1>7, <1>8 DEF Next, Manage

(* Type correctness of WanControl. *)
THEOREM WanTypeCorrect == Spec => []TypeOK
  <1>1. Init => TypeOK
    BY WanAssumption, IdleType DEF Init, TypeOK, Statuses, Qualities, Outcomes
  <1>2. TypeOK /\ [Next]_vars => TypeOK'
    BY TypeStep
  <1> QED BY <1>1, <1>2, PTL DEF Spec

-----------------------------------------------------------------------------
(* One primary link *)

(* Neither of the actions that may leave two primary links, and the postcheck
   of the drivers, which cannot fail: a rollback after a failed one would bring
   a primary back beside a link that was created since. *)
Governed ==
    /\ Actions \cap {"set_wan_failover", "disable_wan"} = {}
    /\ \A passed \in PostcheckResults : passed

(* Whatever the links of a device lose and gain, the others keep theirs. *)
LEMMA OneForDevice ==
    ASSUME TypeOK, OnePrimary, NEW d, NEW new \in SUBSET LinksOf(d),
           \A l \in new, m \in new : l = m,
           primary' \subseteq (primary \ LinksOf(d)) \cup new
    PROVE  OnePrimary'
  <1>1. \A l \in primary : DeviceOf[l] = d => l \in LinksOf(d)
    BY DEF LinksOf, TypeOK
  <1>2. \A l \in new : DeviceOf[l] = d
    BY DEF LinksOf
  <1> QED BY <1>1, <1>2 DEF OnePrimary

(* What one call of executeAction does to the primary links of its device. *)
LEMMA ExecuteOnePrimary ==
    ASSUME TypeOK, OnePrimary, NEW c \in Requests, NEW call \in Call,
           call.act.key \notin {"set_wan_failover", "disable_wan"},
           Execute(c, call)
    PROVE  OnePrimary'
  <1> DEFINE a == call.act
             wans == LinksOf(a.device)
             before == CaptureSnapshot(a.device)
  <1>1. CASE UNCHANGED primary
    BY <1>1 DEF OnePrimary
  <1>2. CASE Possible(a, wans) /\ Drive(a, wans, SnapshotFor(a, before))
    <2>1. CASE a.key = "set_primary_wan"
      <3>1. a.target \in wans /\ primary' = (primary \ wans) \cup {a.target}
        BY <1>2, <2>1 DEF Possible, Drive, SetPrimaryWan
      <3> DEFINE new == {a.target}
      <3>2. new \in SUBSET wans /\ \A l \in new, m \in new : l = m
        BY <3>1
      <3>3. primary' \subseteq (primary \ wans) \cup new
        BY <3>1
      <3> HIDE DEF new
      <3> QED BY <3>2, <3>3, OneForDevice
    <2>2. CASE a.key = "rollback_wan_change"
      <3> DEFINE snap == SnapshotFor(a, before)
      <3>1. RollbackWanChange(snap, wans)
        BY <1>2, <2>2 DEF Drive
      <3>2. CASE snap.primary = NoLink
        BY <1>1, <3>1, <3>2 DEF RollbackWanChange
      <3>3. CASE snap.primary # NoLink
        <4> DEFINE new == {snap.primary} \cap wans \cap links
        <4>1. primary' = (primary \ wans) \cup new
          BY <3>1, <3>3 DEF RollbackWanChange
        <4>2. new \in SUBSET wans /\ \A l \in new, m \in new : l = m
          OBVIOUS
        <4> QED BY <4>1, <4>2, OneForDevice
      <3> QED BY <3>2, <3>3
    <2>3. CASE a.key \in {"set_wan_balance", "enable_wan"}
      BY <1>1, <1>2, <2>3 DEF Drive, EnableWan
    <2> QED BY <1>2, <2>1, <2>2, <2>3 DEF Call, Action, Keys
  <1>3. UNCHANGED primary \/ (Possible(a, wans) /\ Drive(a, wans, SnapshotFor(a, before)))
    BY DEF Execute
  <1> QED BY <1>1, <1>2, <1>3

(* The engine only ever asks for set_primary_wan. *)
LEMMA EvaluateOnePrimary ==
    ASSUME TypeOK, OnePrimary, NEW c \in Requests, NEW d \in Devices \cup {NoDevice},
           NEW todo \in SUBSET Policies, NEW first \in Links \cup {NoLink},
           NEW backup \in Links \cup {NoLink},
           EvaluatePolicies(c, d, todo, first, backup)
    PROVE  OnePrimary'
  <1> DEFINE due == {p \in todo : Due(p, first)}
             p == Earliest(due)
             act == [key |-> "set_primary_wan", device |-> d, target |-> backup,
                     second |-> NoLink, back |-> 0]
             call == [Idle EXCEPT !.act = act, !.policy = p, !.first = first,
                                  !.todo = {q \in todo : q > p}, !.backup = backup]
  <1>1. CASE UNCHANGED primary
    BY <1>1 DEF OnePrimary
  <1>2. CASE due # {} /\ Execute(c, call)
    <2>1. p \in Policies
      BY <1>2, EarliestIsLeast, WanAssumption
    <2>2. act \in Action
      BY DEF Action, Keys
    <2>3. call \in Call /\ call.act.key = "set_primary_wan"
      BY <2>1, <2>2, IdleType DEF Call
    <2> QED BY <1>2, <2>3, ExecuteOnePrimary
  <1> QED BY <1>1, <1>2 DEF EvaluatePolicies

LEMMA OnePrimaryStep ==
    ASSUME Governed, TypeOK, OnePrimary, [Next]_vars
    PROVE  OnePrimary'
  <1>1. CASE primary' \subseteq primary
    BY <1>1 DEF OnePrimary
  <1>2. ASSUME NEW l \in Links, NEW r \in Reports, NEW isPrimary \in BOOLEAN,
               CreateWanLink(l, r, isPrimary)
        PROVE  OnePrimary'
    <2>1. CASE isPrimary
      <3>1. primary' = (primary \ LinksOf(DeviceOf[l])) \cup {l}
        BY <1>2, <2>1 DEF CreateWanLink
      <3>2. \A m \in primary : DeviceOf[m] = DeviceOf[l] => m \in LinksOf(DeviceOf[l])
        BY DEF LinksOf, TypeOK
      <3> QED BY <3>1, <3>2 DEF OnePrimary
    <2>2. CASE ~ isPrimary
      BY <1>1, <1>2, <2>2 DEF CreateWanLink
    <2> QED BY <2>1, <2>2
  <1>3. ASSUME NEW l \in Links, NEW r \in Reports, NEW isPrimary \in BOOLEAN,
               UpdateWanLink(l, r, isPrimary)
        PROVE  OnePrimary'
    <2>1. CASE primary' = (primary \ LinksOf(DeviceOf[l])) \cup {l}
      <3>1. {l} \in SUBSET LinksOf(DeviceOf[l])
        BY <1>3 DEF UpdateWanLink, LinksOf
      <3> QED BY <2>1, <3>1, OneForDevice
    <2>2. CASE primary' \subseteq primary
      BY <1>1, <2>2
    <2> QED BY <1>3, <2>1, <2>2 DEF UpdateWanLink
  <1>4. ASSUME NEW c \in Operators, NEW a \in Asked, Request(c, a)
        PROVE  OnePrimary'
    <2>1. a \in Action /\ a.key \in Actions
      BY WanAssumption DEF Asked, Action
    <2>2. /\ [Idle EXCEPT !.act = a] \in Call
          /\ [Idle EXCEPT !.act = a].act.key \notin {"set_wan_failover", "disable_wan"}
      BY <2>1, IdleType DEF Call, Governed
    <2>3. Execute(c, [Idle EXCEPT !.act = a]) /\ c \in Requests
      BY <1>4 DEF Request, Requests
    <2> QED BY <2>2, <2>3, ExecuteOnePrimary
  <1>5. ASSUME NEW c \in Evaluators, NEW d \in Devices, EvaluateDeviceWanHealth(c, d)
        PROVE  OnePrimary'
    <2>1. PrimaryOf(d) \in Links \cup {NoLink} /\ BackupOf(d) \in Links \cup {NoLink}
      <3>1. /\ LinksOf(d) \cap primary \in SUBSET Links
            /\ {l \in LinksOf(d) \ primary : status[l] = "up"} \in SUBSET Links
        BY DEF LinksOf, TypeOK
      <3> QED BY <3>1, FirstIsIn DEF PrimaryOf, BackupOf
    <2>2. EvaluatePolicies(c, d, {p \in Policies : PolicyDevice[p] = d},
                           PrimaryOf(d), BackupOf(d))
          /\ c \in Requests
      BY <1>5 DEF EvaluateDeviceWanHealth, Requests
    <2> QED BY <2>1, <2>2, EvaluateOnePrimary
  <1>6. ASSUME NEW c \in Requests, Proceed(c)
        PROVE  OnePrimary'
    <2>1. CASE AfterDriver(c) \/ AfterRollback(c)
      BY <1>1, <2>1 DEF AfterDriver, AfterRollback, store
    <2>2. ASSUME NEW passed \in PostcheckResults, AfterPostcheck(c, passed)
          PROVE  OnePrimary'
      BY <1>1, <2>2 DEF AfterPostcheck, Governed
    <2>3. CASE Resume(c)
      <3>1. CASE UNCHANGED primary
        BY <1>1, <3>1
      <3>2. CASE EvaluatePolicies(c, exec[c].act.device, exec[c].todo,
                                  exec[c].first, exec[c].backup)
        <4>1. /\ exec[c].act.device \in Devices \cup {NoDevice}
              /\ exec[c].todo \in SUBSET Policies
              /\ exec[c].first \in Links \cup {NoLink}
              /\ exec[c].backup \in Links \cup {NoLink}
          BY DEF TypeOK, Call, Action
        <4> QED BY <3>2, <4>1, EvaluateOnePrimary
      <3> QED BY <2>3, <3>1, <3>2 DEF Resume
    <2> QED BY <1>6, <2>1, <2>2, <2>3 DEF Proceed
  <1>7. CASE UNCHANGED primary
    BY <1>1, <1>7
  <1>8. ASSUME NEW d \in Devices, CreateDevice(d) \/ UpdateDevice(d) \/ DeleteDevice(d)
        PROVE  OnePrimary'
    BY <1>1, <1>8 DEF CreateDevice, UpdateDevice, DeleteDevice
  <1>9. ASSUME NEW l \in Links, DeleteWanLink(l)
        PROVE  OnePrimary'
    BY <1>1, <1>9 DEF DeleteWanLink
  <1> QED BY <1>2, <1>3, <1>4, <1>5, <1>6, <1>7, <1>8, <1>9
          DEF Next, Manage, Tick, store, vars

(* A device has one primary link at most, as long as neither failover nor
   disable_wan is used: through overlapping requests and evaluations, links
   that come and go at every await, and rollbacks to any snapshot. *)
THEOREM PrimaryIsUnique ==
    ASSUME Governed
    PROVE  Spec => []OnePrimary
  <1>1. Init => OnePrimary
    BY DEF Init, OnePrimary
  <1>2. TypeOK /\ OnePrimary /\ [Next]_vars => OnePrimary'
    BY OnePrimaryStep
  <1> QED BY <1>1, <1>2, WanTypeCorrect, PTL DEF Spec

-----------------------------------------------------------------------------
(* The breaker *)

(* The call a request is left with by executeAction: that of its caller, moved
   to the await of the driver, or answered. *)
Continues(new, call) ==
    /\ new.pc \in {"driven", "returned"}
    /\ new.act = call.act /\ new.policy = call.policy /\ new.todo = call.todo
    /\ new.pc = "driven" => Precheck(call.act)

LEMMA ExecuteCall ==
    ASSUME TypeOK, NEW c \in Requests, NEW call \in Call, Execute(c, call)
    PROVE  \E new \in Call : exec' = [exec EXCEPT ![c] = new] /\ Continues(new, call)
  <1> DEFINE a == call.act
             wans == LinksOf(a.device)
             before == CaptureSnapshot(a.device)
             driven == [call EXCEPT !.pc = "driven", !.ok = Possible(a, wans),
                                    !.wans = wans, !.snap = before]
  <1>1. CASE exec' = [exec EXCEPT ![c] = Answered(call, FALSE)]
    BY <1>1, AnsweredType DEF Continues
  <1>2. CASE Precheck(a) /\ exec' = [exec EXCEPT ![c] = driven]
    <2>1. a.device \in Devices \cup {NoDevice} /\ wans \in SUBSET Links
      BY DEF Call, Action, LinksOf, TypeOK
    <2>2. before \in Snapshot /\ Possible(a, wans) \in BOOLEAN
      BY <2>1, CapturedType DEF TypeOK, Possible
    <2>3. driven \in Call
      BY <2>1, <2>2, CallMoves DEF Pcs
    <2>4. Continues(driven, call)
      BY <1>2 DEF Continues, Call
    <2> QED BY <1>2, <2>3, <2>4
  <1> QED BY <1>1, <1>2 DEF Execute

(* An evaluation ends, or goes on with a policy that is due and was left. *)
TurnsTo(new, p, d, todo, first, backup) ==
    /\ new.pc \in {"driven", "returned"}
    /\ Due(p, first) /\ new.policy = p /\ new.todo = {q \in todo : q > p}
    /\ new.act = [key |-> "set_primary_wan", device |-> d, target |-> backup,
                  second |-> NoLink, back |-> 0]
    /\ new.pc = "driven" => Precheck(new.act)

LEMMA EvaluateCall ==
    ASSUME TypeOK, NEW c \in Requests, NEW d \in Devices \cup {NoDevice},
           NEW todo \in SUBSET Policies, NEW first \in Links \cup {NoLink},
           NEW backup \in Links \cup {NoLink},
           EvaluatePolicies(c, d, todo, first, backup)
    PROVE  \/ exec' = [exec EXCEPT ![c] = Idle] /\ UNCHANGED primary
           \/ \E new \in Call, p \in todo :
                /\ exec' = [exec EXCEPT ![c] = new]
                /\ TurnsTo(new, p, d, todo, first, backup)
                /\ Execute(c, [Idle EXCEPT !.act = new.act, !.policy = p, !.first = first,
                                           !.todo = new.todo, !.backup = backup])
  <1> DEFINE due == {p \in todo : Due(p, first)}
             p == Earliest(due)
             act == [key |-> "set_primary_wan", device |-> d, target |-> backup,
                     second |-> NoLink, back |-> 0]
             call == [Idle EXCEPT !.act = act, !.policy = p, !.first = first,
                                  !.todo = {q \in todo : q > p}, !.backup = backup]
  <1>1. CASE due # {} /\ Execute(c, call)
    <2>1. p \in due /\ p \in Policies
      BY <1>1, EarliestIsLeast, WanAssumption
    <2>2. act \in Action
      BY DEF Action, Keys
    <2>3. /\ call \in Call /\ call.act = act /\ call.policy = p
          /\ call.todo = {q \in todo : q > p}
      BY <2>1, <2>2, IdleType DEF Call
    <2>4. PICK new \in Call : exec' = [exec EXCEPT ![c] = new] /\ Continues(new, call)
      BY <1>1, <2>3, ExecuteCall
    <2>5. /\ TurnsTo(new, p, d, todo, first, backup)
          /\ call = [Idle EXCEPT !.act = new.act, !.policy = p, !.first = first,
                                 !.todo = new.todo, !.backup = backup]
      BY <2>1, <2>3, <2>4 DEF Continues, TurnsTo
    <2> HIDE DEF due, p, act, call
    <2> QED BY <1>1, <2>1, <2>4, <2>5 DEF due
  <1> QED BY <1>1 DEF EvaluatePolicies

(* What an evaluation counts when it comes back is not yet in the counter: the
   breaker looks at the counter alone, so the bound has to speak of both. *)
Counted(p) ==
    switches[p] + Cardinality(UnderWay(p)) <= MaxPerHour + Cardinality(Evaluators) - 1

(* An operator's request is no policy's; an evaluation does not come back to
   the policy it is at. *)
BreakerInv ==
    /\ \A c \in Operators : exec[c].policy = NoPolicy
    /\ \A c \in Requests : exec[c].policy \notin exec[c].todo
    /\ \A p \in Policies : Counted(p)

LEMMA UnderWayFinite ==
    ASSUME NEW S \in SUBSET Evaluators
    PROVE  IsFiniteSet(S) /\ Cardinality(S) \in Nat
           /\ Cardinality(S) <= Cardinality(Evaluators) /\ Cardinality(Evaluators) \in Nat
  BY FS_Subset, FS_CardinalityType, WanAssumption

(* The three ways a step can move the count of a policy: nothing begins for
   it; an evaluation that is counted ends; one begins that was let through. *)
LEMMA CountedStep ==
    ASSUME TypeOK, NEW p \in Policies, Counted(p),
           \/ UnderWay(p)' \subseteq UnderWay(p) /\ switches'[p] = switches[p]
           \/ \E c \in UnderWay(p) :
                UnderWay(p)' \subseteq UnderWay(p) \ {c} /\ switches'[p] = switches[p] + 1
           \/ switches'[p] = switches[p] /\ switches[p] < MaxPerHour
    PROVE  Counted(p)'
  <1>0. /\ switches[p] \in Nat /\ MaxPerHour \in Nat
        /\ UnderWay(p) \in SUBSET Evaluators /\ UnderWay(p)' \in SUBSET Evaluators
    BY WanAssumption DEF TypeOK, UnderWay
  <1>1. /\ IsFiniteSet(UnderWay(p)) /\ IsFiniteSet(UnderWay(p)')
        /\ Cardinality(UnderWay(p)) \in Nat /\ Cardinality(UnderWay(p)') \in Nat
        /\ Cardinality(UnderWay(p)') <= Cardinality(Evaluators)
        /\ Cardinality(Evaluators) \in Nat
    BY <1>0, UnderWayFinite
  <1>2. CASE UnderWay(p)' \subseteq UnderWay(p) /\ switches'[p] = switches[p]
    <2>1. Cardinality(UnderWay(p)') <= Cardinality(UnderWay(p))
      BY <1>1, <1>2, FS_Subset
    <2> QED BY <1>0, <1>1, <1>2, <2>1 DEF Counted
  <1>3. ASSUME NEW c \in UnderWay(p), UnderWay(p)' \subseteq UnderWay(p) \ {c},
               switches'[p] = switches[p] + 1
        PROVE  Counted(p)'
    <2>1. /\ IsFiniteSet(UnderWay(p) \ {c})
          /\ Cardinality(UnderWay(p) \ {c}) = Cardinality(UnderWay(p)) - 1
      BY <1>1, FS_RemoveElement
    <2>2. Cardinality(UnderWay(p)') <= Cardinality(UnderWay(p) \ {c})
      BY <1>3, <2>1, FS_Subset
    <2> QED BY <1>0, <1>1, <1>3, <2>1, <2>2 DEF Counted
  <1>4. CASE switches'[p] = switches[p] /\ switches[p] < MaxPerHour
    BY <1>0, <1>1, <1>4 DEF Counted
  <1> QED BY <1>2, <1>3, <1>4

(* One call moves on, ends, or begins: for no policy, or for one the breaker
   let through. *)
LEMMA BreakerCall ==
    ASSUME TypeOK, BreakerInv, NEW c \in Requests, NEW new \in Call,
           exec' = [exec EXCEPT ![c] = new],
           c \in Operators => new.policy = NoPolicy,
           new.policy \notin new.todo,
           \/ new.pc = "idle" \/ new.policy = NoPolicy
           \/ new.policy = exec[c].policy /\ exec[c].pc # "idle"
           \/ switches[new.policy] < MaxPerHour /\ switches'[new.policy] = switches[new.policy],
           \A p \in Policies :
              \/ switches'[p] = switches[p]
              \/ /\ c \in Evaluators /\ exec[c].pc # "idle" /\ exec[c].policy = p
                 /\ new.pc = "idle" \/ new.policy # p
                 /\ switches'[p] = switches[p] + 1
    PROVE  BreakerInv'
  <1>1. /\ exec'[c] = new /\ \A b \in Requests \ {c} : exec'[b] = exec[b]
        /\ Evaluators \subseteq Requests /\ Operators \subseteq Requests
    BY DEF TypeOK, Requests
  <1>2. ASSUME NEW p \in Policies
        PROVE  Counted(p)'
    <2>1. Counted(p) /\ p # NoPolicy
      BY WanAssumption DEF BreakerInv
    <2>2. UnderWay(p)' \subseteq UnderWay(p) \cup {c}
          /\ (new.pc = "idle" \/ new.policy # p => UnderWay(p)' \subseteq UnderWay(p) \ {c})
      BY <1>1 DEF UnderWay
    <2>3. CASE switches'[p] = switches[p] + 1 /\ c \in UnderWay(p)
               /\ (new.pc = "idle" \/ new.policy # p)
      BY <2>1, <2>2, <2>3, CountedStep
    <2>4. CASE switches'[p] = switches[p] /\ (new.pc = "idle" \/ new.policy # p)
      BY <2>1, <2>2, <2>4, CountedStep
    <2>5. CASE switches'[p] = switches[p] /\ new.policy = p /\ new.pc # "idle"
      <3>1. CASE exec[c].policy = p /\ exec[c].pc # "idle"
        <4>1. UnderWay(p)' \subseteq UnderWay(p)
          BY <1>1, <3>1 DEF UnderWay
        <4> QED BY <2>1, <2>5, <4>1, CountedStep
      <3>2. CASE switches[p] < MaxPerHour
        BY <2>1, <2>5, <3>2, CountedStep
      <3> QED BY <2>1, <2>5, <3>1, <3>2
    <2>6. \/ switches'[p] = switches[p]
          \/ /\ c \in UnderWay(p) /\ (new.pc = "idle" \/ new.policy # p)
             /\ switches'[p] = switches[p] + 1
      BY DEF UnderWay
    <2> QED BY <2>3, <2>4, <2>5, <2>6
  <1>3. \A b \in Operators : exec'[b].policy = NoPolicy
    BY <1>1 DEF BreakerInv
  <1>4. \A b \in Requests : exec'[b].policy \notin exec'[b].todo
    BY <1>1 DEF BreakerInv
  <1> QED BY <1>2, <1>3, <1>4 DEF BreakerInv

(* The policies left over: an evaluation that begins, or one that resumes. *)
LEMMA BreakerEvaluate ==
    ASSUME TypeOK, BreakerInv, NEW c \in Evaluators, NEW d \in Devices \cup {NoDevice},
           NEW todo \in SUBSET Policies, NEW first \in Links \cup {NoLink},
           NEW backup \in Links \cup {NoLink},
           EvaluatePolicies(c, d, todo, first, backup),
           \/ UNCHANGED switches
           \/ /\ exec[c].pc # "idle" /\ exec[c].policy \in Policies \ todo
              /\ switches' = [switches EXCEPT ![exec[c].policy] = @ + 1]
    PROVE  BreakerInv'
  <1>0. c \in Requests /\ c \notin Operators /\ switches \in [Policies -> Nat]
    BY WanAssumption DEF Requests, TypeOK
  <1>1. \A p \in Policies :
           \/ switches'[p] = switches[p]
           \/ /\ exec[c].pc # "idle" /\ exec[c].policy = p /\ p \notin todo
              /\ switches'[p] = switches[p] + 1
    BY <1>0
  <1>2. CASE exec' = [exec EXCEPT ![c] = Idle]
    <2>1. Idle.pc = "idle" /\ Idle.policy \notin Idle.todo
      BY DEF Idle
    <2> QED BY <1>0, <1>1, <1>2, <2>1, IdleType, BreakerCall
  <1>3. ASSUME NEW new \in Call, NEW p \in todo, exec' = [exec EXCEPT ![c] = new],
               TurnsTo(new, p, d, todo, first, backup)
        PROVE  BreakerInv'
    <2>1. /\ new.policy = p /\ new.policy \notin new.todo
          /\ switches[p] < MaxPerHour /\ switches'[p] = switches[p]
      BY <1>1, <1>3, WanAssumption DEF TurnsTo, Due
    <2>2. \A q \in Policies :
             \/ switches'[q] = switches[q]
             \/ /\ c \in Evaluators /\ exec[c].pc # "idle" /\ exec[c].policy = q
                /\ new.pc = "idle" \/ new.policy # q
                /\ switches'[q] = switches[q] + 1
      BY <1>1, <2>1
    <2> QED BY <1>0, <1>3, <2>1, <2>2, BreakerCall
  <1>4. \/ exec' = [exec EXCEPT ![c] = Idle]
        \/ \E new \in Call, p \in todo :
             exec' = [exec EXCEPT ![c] = new] /\ TurnsTo(new, p, d, todo, first, backup)
    BY <1>0, EvaluateCall
  <1> QED BY <1>2, <1>3, <1>4

LEMMA BreakerStep ==
    ASSUME TypeOK, BreakerInv, [Next]_vars
    PROVE  BreakerInv'
  <1>1. CASE UNCHANGED <<exec, switches>>
    BY <1>1 DEF BreakerInv, Counted, UnderWay
  <1>2. ASSUME NEW c \in Operators, NEW a \in Asked, Request(c, a)
        PROVE  BreakerInv'
    <2>1. a \in Action /\ c \in Requests
      BY WanAssumption DEF Asked, Action, Requests
    <2>2. /\ [Idle EXCEPT !.act = a] \in Call
          /\ [Idle EXCEPT !.act = a].policy = NoPolicy /\ [Idle EXCEPT !.act = a].todo = {}
      BY <2>1, IdleType DEF Call, Idle
    <2>3. Execute(c, [Idle EXCEPT !.act = a]) /\ UNCHANGED switches
      BY <1>2 DEF Request
    <2>4. PICK new \in Call : exec' = [exec EXCEPT ![c] = new]
                              /\ Continues(new, [Idle EXCEPT !.act = a])
      BY <2>1, <2>2, <2>3, ExecuteCall
    <2>5. new.policy = NoPolicy /\ new.todo = {}
      BY <2>2, <2>4 DEF Continues
    <2> QED BY <2>1, <2>3, <2>4, <2>5, BreakerCall
  <1>3. ASSUME NEW c \in Evaluators, NEW d \in Devices, EvaluateDeviceWanHealth(c, d)
        PROVE  BreakerInv'
    <2>1. PrimaryOf(d) \in Links \cup {NoLink} /\ BackupOf(d) \in Links \cup {NoLink}
      <3>1. /\ LinksOf(d) \cap primary \in SUBSET Links
            /\ {l \in LinksOf(d) \ primary : status[l] = "up"} \in SUBSET Links
        BY DEF LinksOf, TypeOK
      <3> QED BY <3>1, FirstIsIn DEF PrimaryOf, BackupOf
    <2>2. EvaluatePolicies(c, d, {p \in Policies : PolicyDevice[p] = d},
                           PrimaryOf(d), BackupOf(d))
          /\ UNCHANGED switches
      BY <1>3 DEF EvaluateDeviceWanHealth
    <2> QED BY <2>1, <2>2, BreakerEvaluate
  <1>4. ASSUME NEW c \in Requests, Proceed(c)
        PROVE  BreakerInv'
    <2> DEFINE e == exec[c]
    <2>0. /\ e \in Call /\ exec \in [Requests -> Call]
          /\ e.policy \notin e.todo /\ (c \in Operators => e.policy = NoPolicy)
      BY DEF TypeOK, BreakerInv
    <2>1. ASSUME NEW new \in Call, exec' = [exec EXCEPT ![c] = new], UNCHANGED switches,
                 new.policy = e.policy, new.todo = e.todo, e.pc # "idle"
          PROVE  BreakerInv'
      BY <2>0, <2>1, BreakerCall
    <2>2. ASSUME exec' = [exec EXCEPT ![c] = Idle], UNCHANGED switches
          PROVE  BreakerInv'
      <3>1. Idle.pc = "idle" /\ Idle.policy = NoPolicy /\ Idle.policy \notin Idle.todo
        BY DEF Idle
      <3> QED BY <2>2, <3>1, IdleType, BreakerCall
    <2>3. CASE AfterDriver(c)
      <3>1. e.pc # "idle" /\ UNCHANGED switches
        BY <2>3 DEF AfterDriver
      <3>2. CASE exec' = [exec EXCEPT ![c] = Answered(@, FALSE)]
        BY <2>0, <2>1, <3>1, <3>2, AnsweredType
      <3>3. CASE exec' = [exec EXCEPT ![c].pc = "probed"]
        <4> DEFINE new == [e EXCEPT !.pc = "probed"]
        <4>1. new \in Call /\ new.policy = e.policy /\ new.todo = e.todo
          BY <2>0 DEF Call, Pcs
        <4>2. exec' = [exec EXCEPT ![c] = new]
          BY <3>3
        <4> HIDE DEF new
        <4> QED BY <2>1, <3>1, <4>1, <4>2
      <3>4. CASE exec' = [exec EXCEPT ![c] = Idle]
        BY <2>2, <3>1, <3>4
      <3> QED BY <2>3, <3>2, <3>3, <3>4 DEF AfterDriver
    <2>4. CASE AfterRollback(c)
      <3>1. /\ e.pc # "idle" /\ UNCHANGED switches
            /\ exec' = [exec EXCEPT ![c] = Answered(@, FALSE)]
        BY <2>4 DEF AfterRollback
      <3> QED BY <2>0, <2>1, <3>1, AnsweredType
    <2>5. ASSUME NEW passed \in PostcheckResults, AfterPostcheck(c, passed)
          PROVE  BreakerInv'
      <3>1. e.pc # "idle" /\ UNCHANGED switches
        BY <2>5 DEF AfterPostcheck
      <3>2. CASE exec' = [exec EXCEPT ![c] = Answered(@, TRUE)]
        BY <2>0, <2>1, <3>1, <3>2, AnsweredType
      <3>3. CASE exec' = [exec EXCEPT ![c].pc = "undone", ![c].ok = FALSE]
        <4> DEFINE new == [e EXCEPT !.pc = "undone", !.ok = FALSE]
        <4>1. new \in Call /\ new.policy = e.policy /\ new.todo = e.todo
          BY <2>0 DEF Call, Pcs
        <4>2. exec' = [exec EXCEPT ![c] = new]
          BY <3>3
        <4> HIDE DEF new
        <4> QED BY <2>1, <3>1, <4>1, <4>2
      <3> QED BY <2>5, <3>2, <3>3 DEF AfterPostcheck
    <2>6. CASE Resume(c)
      <3>1. CASE e.policy = NoPolicy
        BY <2>2, <2>6, <3>1 DEF Resume
      <3>2. CASE e.policy # NoPolicy
        <4>1. /\ e.policy \in Policies /\ e.act.device \in Devices \cup {NoDevice}
              /\ e.todo \in SUBSET Policies /\ e.first \in Links \cup {NoLink}
              /\ e.backup \in Links \cup {NoLink} /\ c \in Evaluators
          BY <2>0, <3>2 DEF Call, Action, Requests
        <4>2. /\ EvaluatePolicies(c, e.act.device, e.todo, e.first, e.backup)
              /\ e.pc # "idle"
              /\ \/ UNCHANGED switches
                 \/ switches' = [switches EXCEPT ![e.policy] = @ + 1]
          BY <2>6, <3>2 DEF Resume
        <4> QED BY <2>0, <4>1, <4>2, BreakerEvaluate
      <3> QED BY <3>1, <3>2
    <2> QED BY <1>4, <2>3, <2>4, <2>5, <2>6 DEF Proceed
  <1>5. CASE Manage
    <2>1. UNCHANGED <<exec, switches>>
      BY <1>5 DEF Manage, CreateDevice, UpdateDevice, DeleteDevice, CreateWanLink,
                  UpdateWanLink, DeleteWanLink
    <2> QED BY <1>1, <2>1
  <1> QED BY <1>1, <1>2, <1>3, <1>4, <1>5 DEF Next, Tick, vars

(* A policy switches no more often than its limit, and once more for every
   evaluation beyond the first, however the evaluations overlap. *)
THEOREM BreakerBounds == Spec => []BreakerHolds
  <1>1. Init => BreakerInv
    <2> SUFFICES ASSUME Init PROVE BreakerInv
      OBVIOUS
    <2>1. \A c \in Requests : exec[c].policy = NoPolicy /\ exec[c].todo = {}
                              /\ exec[c].pc = "idle"
      BY DEF Init, Idle
    <2>2. ASSUME NEW p \in Policies
          PROVE  Counted(p)
      <3>1. UnderWay(p) = {} /\ switches[p] = 0
        BY <2>1 DEF UnderWay, Requests, Init
      <3>2. Cardinality(Evaluators) \in Nat /\ MaxPerHour \in Nat \ {0}
        BY WanAssumption, FS_CardinalityType
      <3> QED BY <3>1, <3>2, FS_EmptySet DEF Counted
    <2> QED BY <2>1, <2>2 DEF BreakerInv, Requests
  <1>2. TypeOK /\ BreakerInv /\ [Next]_vars => BreakerInv'
    BY BreakerStep
  <1>3. TypeOK /\ BreakerInv => BreakerHolds
    <2> SUFFICES ASSUME TypeOK, BreakerInv, NEW p \in Policies
                 PROVE  switches[p] <= MaxPerHour + Cardinality(Evaluators) - 1
      BY DEF BreakerHolds
    <2>1. UnderWay(p) \in SUBSET Evaluators /\ switches[p] \in Nat /\ MaxPerHour \in Nat
      BY WanAssumption DEF UnderWay, TypeOK
    <2>2. Cardinality(UnderWay(p)) \in Nat /\ Cardinality(Evaluators) \in Nat
      BY <2>1, UnderWayFinite
    <2> QED BY <2>1, <2>2 DEF BreakerInv, Counted
  <1> QED BY <1>1, <1>2, <1>3, WanTypeCorrect, PTL DEF Spec

-----------------------------------------------------------------------------
(* What the engine moves the traffic from and to *)

(* set_primary_wan past its precheck: what becomes primary can carry traffic,
   what ceases to be primary is a link of the same device. *)
LEMMA SwitchIsFit ==
    ASSUME TypeOK, NEW c \in Requests, NEW call \in Call, Execute(c, call),
           call.act.key = "set_primary_wan", Precheck(call.act)
    PROVE  /\ \A l \in primary' \ primary : Fit(l)
           /\ primary \ primary' \subseteq LinksOf(call.act.device)
  <1> DEFINE a == call.act
             wans == LinksOf(a.device)
  <1>1. CASE UNCHANGED primary
    BY <1>1
  <1>2. CASE Possible(a, wans) /\ primary' = (primary \ wans) \cup {a.target}
    <2>1. a.target \in wans /\ a.target # NoLink
      BY <1>2, WanAssumption DEF Possible, LinksOf, TypeOK
    <2>2. Fit(a.target)
      BY <2>1 DEF Precheck
    <2> QED BY <1>2, <2>2
  <1>3. UNCHANGED primary \/ (Possible(a, wans) /\ primary' = (primary \ wans) \cup {a.target})
    BY DEF Execute, Drive, SetPrimaryWan
  <1> QED BY <1>1, <1>2, <1>3

(* A turn of the engine that drives a router: the policies left were looked at
   against `first`, and the first that was due has it in hand. *)
LEMMA EngineSwitch ==
    ASSUME TypeOK, NEW c \in Requests, NEW d \in Devices \cup {NoDevice},
           NEW todo \in SUBSET Policies, NEW first \in Links \cup {NoLink},
           NEW backup \in Links \cup {NoLink},
           EvaluatePolicies(c, d, todo, first, backup),
           exec'[c].pc = "driven"
    PROVE  /\ \A l \in primary' \ primary : Fit(l)
           /\ primary \ primary' \subseteq LinksOf(d)
           /\ \E p \in todo : Due(p, first)
  <1>1. exec' # [exec EXCEPT ![c] = Idle]
    BY DEF TypeOK, Idle
  <1>2. PICK new \in Call, p \in todo :
          /\ exec' = [exec EXCEPT ![c] = new]
          /\ TurnsTo(new, p, d, todo, first, backup)
          /\ Execute(c, [Idle EXCEPT !.act = new.act, !.policy = p, !.first = first,
                                     !.todo = new.todo, !.backup = backup])
    BY <1>1, EvaluateCall
  <1> DEFINE call == [Idle EXCEPT !.act = new.act, !.policy = p, !.first = first,
                                  !.todo = new.todo, !.backup = backup]
  <1>3. new.pc = "driven"
    BY <1>2 DEF TypeOK
  <1>4. /\ Precheck(new.act) /\ new.act.key = "set_primary_wan"
        /\ new.act.device = d /\ Due(p, first)
    BY <1>2, <1>3 DEF TurnsTo
  <1>5. call \in Call /\ call.act = new.act
    BY IdleType DEF Call
  <1>6. Execute(c, call)
    BY <1>2
  <1> HIDE DEF call
  <1> QED BY <1>4, <1>5, <1>6, SwitchIsFit

(* The body of the property, of one evaluation. *)
Heals(c) ==
    exec[c].pc # "driven" /\ exec'[c].pc = "driven" =>
        /\ \A l \in primary' \ primary : Fit(l)
        /\ exec[c].pc = "idle" =>
             \A l \in primary \ primary' : status[l] = "down" \/ quality[l] # "good"

LEMMA HealsStep ==
    ASSUME TypeOK, OnePrimary, [Next]_vars, NEW c \in Evaluators
    PROVE  Heals(c)
  <1>0. c \in Requests /\ c \notin Operators
    BY WanAssumption DEF Requests
  <1>1. CASE exec'[c] = exec[c]
    BY <1>1 DEF Heals
  <1>2. ASSUME NEW d \in Devices, EvaluateDeviceWanHealth(c, d)
        PROVE  Heals(c)
    <2>1. SUFFICES ASSUME exec'[c].pc = "driven"
                   PROVE  /\ \A l \in primary' \ primary : Fit(l)
                          /\ \A l \in primary \ primary' : status[l] = "down" \/ quality[l] # "good"
      BY DEF Heals
    <2> DEFINE candidates == {l \in LinksOf(d) \ primary : status[l] = "up"}
               ofDevice == LinksOf(d) \cap primary
    <2>2. candidates \in SUBSET Links /\ ofDevice \in SUBSET Links
      BY DEF LinksOf, TypeOK
    <2>3. /\ PrimaryOf(d) \in Links \cup {NoLink} /\ BackupOf(d) \in Links \cup {NoLink}
          /\ PrimaryOf(d) # NoLink => PrimaryOf(d) \in ofDevice
      BY <2>2, FirstIsIn DEF PrimaryOf, BackupOf
    <2>4. PrimaryOf(d) \in ofDevice
          /\ EvaluatePolicies(c, d, {p \in Policies : PolicyDevice[p] = d},
                              PrimaryOf(d), BackupOf(d))
      BY <1>2, <2>3 DEF EvaluateDeviceWanHealth
    <2>5. /\ \A l \in primary' \ primary : Fit(l)
          /\ primary \ primary' \subseteq LinksOf(d)
          /\ \E p \in {p \in Policies : PolicyDevice[p] = d} : Due(p, PrimaryOf(d))
      BY <1>0, <2>1, <2>3, <2>4, EngineSwitch
    <2>6. status[PrimaryOf(d)] = "down" \/ quality[PrimaryOf(d)] # "good"
      BY <2>5 DEF Due
    <2>7. \A l \in primary \ primary' : l = PrimaryOf(d)
      BY <2>4, <2>5 DEF OnePrimary, LinksOf
    <2> QED BY <2>5, <2>6, <2>7
  <1>3. CASE Proceed(c)
    <2>1. CASE AfterDriver(c)
      BY <2>1 DEF AfterDriver, Heals
    <2>2. CASE AfterRollback(c)
      BY <1>0, <2>2, AnsweredType DEF AfterRollback, Heals, TypeOK
    <2>3. ASSUME NEW passed \in PostcheckResults, AfterPostcheck(c, passed)
          PROVE  Heals(c)
      <3>1. CASE exec' = [exec EXCEPT ![c] = Answered(@, TRUE)]
        BY <1>0, <3>1, AnsweredType DEF Heals, TypeOK
      <3>2. CASE exec' = [exec EXCEPT ![c].pc = "undone", ![c].ok = FALSE]
        <4>1. exec'[c].pc = "undone"
          BY <1>0, <3>2 DEF TypeOK, Call
        <4> QED BY <4>1 DEF Heals
      <3> QED BY <2>3, <3>1, <3>2 DEF AfterPostcheck
    <2>4. CASE Resume(c)
      <3>1. CASE exec' = [exec EXCEPT ![c] = Idle]
        BY <1>0, <3>1 DEF Heals, Idle, TypeOK
      <3>2. CASE EvaluatePolicies(c, exec[c].act.device, exec[c].todo,
                                  exec[c].first, exec[c].backup)
        <4>1. /\ exec[c].act.device \in Devices \cup {NoDevice}
              /\ exec[c].todo \in SUBSET Policies
              /\ exec[c].first \in Links \cup {NoLink}
              /\ exec[c].backup \in Links \cup {NoLink}
          BY <1>0 DEF TypeOK, Call, Action
        <4>2. exec[c].pc = "returned"
          BY <2>4 DEF Resume
        <4>3. exec'[c].pc = "driven" => \A l \in primary' \ primary : Fit(l)
          BY <1>0, <3>2, <4>1, EngineSwitch
        <4> QED BY <4>2, <4>3 DEF Heals
      <3> QED BY <2>4, <3>1, <3>2 DEF Resume
    <2> QED BY <1>3, <2>1, <2>2, <2>3, <2>4 DEF Proceed
  <1>4. ASSUME NEW b \in Requests \ {c}, NEW new, exec' = [exec EXCEPT ![b] = new]
        PROVE  Heals(c)
    BY <1>0, <1>1, <1>4 DEF TypeOK
  <1>5. ASSUME NEW b \in Operators, NEW a \in Asked, Request(b, a)
        PROVE  Heals(c)
    <2>1. b \in Requests \ {c} /\ Execute(b, [Idle EXCEPT !.act = a])
      BY <1>0, <1>5 DEF Request, Requests
    <2>2. \E new : exec' = [exec EXCEPT ![b] = new]
      BY <2>1 DEF Execute
    <2> QED BY <1>4, <2>1, <2>2
  <1>6. ASSUME NEW b \in Evaluators \ {c}, NEW d \in Devices, EvaluateDeviceWanHealth(b, d)
        PROVE  Heals(c)
    <2>1. b \in Requests \ {c}
          /\ EvaluatePolicies(b, d, {p \in Policies : PolicyDevice[p] = d},
                              PrimaryOf(d), BackupOf(d))
      BY <1>6 DEF EvaluateDeviceWanHealth, Requests
    <2>2. \E new : exec' = [exec EXCEPT ![b] = new]
      BY <2>1 DEF EvaluatePolicies, Execute
    <2> QED BY <1>4, <2>1, <2>2
  <1>7. ASSUME NEW b \in Requests \ {c}, Proceed(b)
        PROVE  Heals(c)
    <2>1. \E new : exec' = [exec EXCEPT ![b] = new]
      <3>1. CASE AfterDriver(b)
        BY <3>1 DEF AfterDriver
      <3>2. CASE AfterRollback(b)
        BY <3>2 DEF AfterRollback
      <3>3. ASSUME NEW passed \in PostcheckResults, AfterPostcheck(b, passed)
            PROVE  \E new : exec' = [exec EXCEPT ![b] = new]
        <4>1. \/ exec' = [exec EXCEPT ![b] = Answered(exec[b], TRUE)]
              \/ exec' = [exec EXCEPT ![b] = [exec[b] EXCEPT !.pc = "undone", !.ok = FALSE]]
          BY <3>3 DEF AfterPostcheck
        <4> QED BY <4>1
      <3>4. CASE Resume(b)
        BY <3>4 DEF Resume, EvaluatePolicies, Execute
      <3> QED BY <1>7, <3>1, <3>2, <3>3, <3>4 DEF Proceed
    <2> QED BY <1>4, <2>1
  <1>8. CASE Manage
    <2>1. UNCHANGED exec
      BY <1>8 DEF Manage, CreateDevice, UpdateDevice, DeleteDevice, CreateWanLink,
                  UpdateWanLink, DeleteWanLink
    <2> QED BY <1>1, <2>1
  <1>9. CASE UNCHANGED exec
    BY <1>1, <1>9
  <1> QED BY <1>2, <1>3, <1>5, <1>6, <1>7, <1>8, <1>9 DEF Next, Tick, vars

(* The engine gives the traffic to a link that can carry it, also when the
   backup was chosen some awaits ago, and as it begins it takes it from a link
   that needs it: this half rests on the primary being unique. *)
THEOREM EngineHeals ==
    ASSUME Governed
    PROVE  Spec => HealsOnlySick
  <1>1. TypeOK /\ OnePrimary /\ [Next]_vars => \A c \in Evaluators : Heals(c)
    BY HealsStep
  <1>2. TypeOK /\ OnePrimary /\ [Next]_vars =>
          [\A c \in Evaluators : exec[c].pc # "driven" /\ exec'[c].pc = "driven" =>
              /\ \A l \in primary' \ primary : Fit(l)
              /\ exec[c].pc = "idle" =>
                   \A l \in primary \ primary' : status[l] = "down" \/ quality[l] # "good"]_vars
    BY <1>1 DEF Heals
  <1> QED BY <1>2, WanTypeCorrect, PrimaryIsUnique, PTL DEF Spec, HealsOnlySick
=============================================================================
