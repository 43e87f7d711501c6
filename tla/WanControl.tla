----------------------------- MODULE WanControl -----------------------------
(***************************************************************************)
(* Governed changes of the WAN links of routers, and the engine that fails *)
(* over by itself: apps/api/src/network-devices/.                          *)
(*                                                                         *)
(* An action runs in one turn up to its first await: precheck, snapshot,   *)
(* and the driver, which changes the links before it returns a promise.    *)
(* The postcheck, the entry in the log and, for the engine, the counters   *)
(* of the policy follow in later turns.  The drivers of src/ have answered *)
(* when they return, so that other requests run in between only if they    *)
(* began in the same turn (pipelined on one connection); the interface of  *)
(* a driver allows it to take its time, and here any request may come at   *)
(* an await.  The two drivers change the links alike.                      *)
(*                                                                         *)
(* A link is good, slow (latency over a policy's limit), lossy (loss over  *)
(* a policy's limit, under the 25% of the precheck) or bad.  Status        *)
(* degraded is treated as up everywhere and is left out, and so is tier,   *)
(* which no decision reads.  Tenants are left out: ids are unique.  Of the *)
(* log only the outcome of the newest entry is kept.                       *)
(***************************************************************************)
EXTENDS Integers, Sequences, FiniteSets

CONSTANTS
    Devices,
    Links,             \* ids, numbered in the order of creation
    DeviceOf,          \* device of a link
    Policies,          \* failover policies, numbered in the order of the list
    PolicyDevice,      \* device of a policy
    Trigger,           \* triggerType of a policy
    Operators,         \* requests that may be under way, one action each
    Evaluators,        \* evaluations of policies that may be under way
    Actions,           \* action keys the operators use
    PostcheckResults,  \* what validatePostChange answers: {TRUE} in both drivers
    MaxSnapshots,      \* 50
    Cooldown,          \* cooldownMinutes, in ticks
    MaxPerHour,        \* circuitBreakerMaxPerHour
    Reports,           \* <<status, quality>> a link is created or updated with
    NoLink, NoPolicy, NoDevice

Keys == {"set_primary_wan", "set_wan_failover", "set_wan_balance", "enable_wan",
         "disable_wan", "rollback_wan_change"}

ASSUME WanAssumption ==
    /\ Links \subseteq Nat /\ NoLink \notin Links
    /\ DeviceOf \in [Links -> Devices]
    /\ Policies \subseteq Nat /\ NoPolicy \notin Policies
    /\ PolicyDevice \in [Policies -> Devices]
    /\ IsFiniteSet(Evaluators) /\ Operators \cap Evaluators = {}
    /\ MaxSnapshots \in Nat \ {0} /\ Cooldown \in Nat /\ MaxPerHour \in Nat \ {0}
    /\ Actions \subseteq Keys /\ PostcheckResults \subseteq BOOLEAN
    /\ Reports \subseteq {"up", "down", "disabled"} \X {"good", "slow", "lossy", "bad"}

VARIABLES
    devices,    \* devices of the store
    offline,    \* those whose status is offline or unreachable
    links,      \* links of the store
    born,       \* links and devices created so far: their ids are not reused
    primary,    \* links with isPrimary
    status, quality,
    snapshots,  \* networkSnapshots, newest first
    lastRun,    \* status of the newest entry of networkActionRuns
    switches,   \* switchesLastHour of a policy
    wait,       \* what is left of the cooldown of a policy
    exec        \* the requests under way

store == <<devices, offline, links, born, primary, status, quality, snapshots>>
vars == <<devices, offline, links, born, primary, status, quality, snapshots,
          lastRun, switches, wait, exec>>

Statuses  == {"up", "down", "disabled"}
Qualities == {"good", "slow", "lossy", "bad"}
Requests == Operators \cup Evaluators

(* back is the position of the snapshot a rollback names; 0 is one that is
   not stored. *)
Action == [key : Keys, device : Devices \cup {NoDevice}, target : Links \cup {NoLink},
           second : Links \cup {NoLink}, back : Nat]
NoAction == [key |-> "set_primary_wan", device |-> NoDevice, target |-> NoLink,
             second |-> NoLink, back |-> 0]
Snapshot == [device : Devices \cup {NoDevice}, primary : Links \cup {NoLink}]
NoSnapshot == [device |-> NoDevice, primary |-> NoLink]

(* What a request holds across its awaits: the action, the links and the
   snapshot of executeAction, whether it succeeded so far; and of the engine,
   the policy, those still to look at, the primary and the backup it chose. *)
Pcs == {"idle", "driven", "probed", "undone", "returned"}
Call == [pc : Pcs, act : Action, wans : SUBSET Links, snap : Snapshot, ok : BOOLEAN,
         policy : Policies \cup {NoPolicy}, todo : SUBSET Policies,
         first : Links \cup {NoLink}, backup : Links \cup {NoLink}]
Idle == [pc |-> "idle", act |-> NoAction, wans |-> {}, snap |-> NoSnapshot,
         ok |-> FALSE, policy |-> NoPolicy, todo |-> {}, first |-> NoLink,
         backup |-> NoLink]
Outcomes == {"none", "success", "failed", "rolled_back"}

TypeOK ==
    /\ devices \subseteq Devices /\ offline \subseteq Devices
    /\ links \subseteq Links /\ born \subseteq Devices \cup Links
    /\ links \subseteq born
    /\ primary \subseteq links
    /\ status \in [Links -> Statuses] /\ quality \in [Links -> Qualities]
    /\ snapshots \in Seq(Snapshot) /\ Len(snapshots) <= MaxSnapshots
    /\ lastRun \in Outcomes
    /\ switches \in [Policies -> Nat] /\ wait \in [Policies -> 0..Cooldown]
    /\ exec \in [Requests -> Call]

Init ==
    /\ devices = {} /\ offline = {} /\ links = {} /\ born = {} /\ primary = {}
    /\ status = [l \in Links |-> "up"] /\ quality = [l \in Links |-> "good"]
    /\ snapshots = <<>>
    /\ lastRun = "none"
    /\ switches = [p \in Policies |-> 0] /\ wait = [p \in Policies |-> 0]
    /\ exec = [c \in Requests |-> Idle]

LinksOf(d) == {l \in links : DeviceOf[l] = d}
Earliest(S) == CHOOSE x \in S : \A y \in S : x <= y
FirstOf(S) == IF S = {} THEN NoLink ELSE Earliest(S)
Fit(l) == status[l] = "up" /\ quality[l] # "bad"
-----------------------------------------------------------------------------
(* The store: devices and links. *)

CreateDevice(d) ==
    /\ d \notin born
    /\ born' = born \cup {d}
    /\ devices' = devices \cup {d}
    /\ UNCHANGED <<offline, links, primary, status, quality, snapshots, lastRun,
                   switches, wait, exec>>

(* updateDevice and the telemetry routes, as far as the status goes. *)
UpdateDevice(d) ==
    /\ d \in devices
    /\ offline' \in {offline \cup {d}, offline \ {d}}
    /\ UNCHANGED <<devices, links, born, primary, status, quality, snapshots, lastRun,
                   switches, wait, exec>>

(* The links go with the device; snapshots and policies stay. *)
DeleteDevice(d) ==
    /\ d \in devices
    /\ devices' = devices \ {d}
    /\ links' = links \ LinksOf(d)
    /\ primary' = primary \ LinksOf(d)
    /\ UNCHANGED <<offline, born, status, quality, snapshots, lastRun, switches, wait, exec>>

CreateWanLink(l, report, isPrimary) ==
    /\ l \notin born
    /\ \A m \in Links : DeviceOf[m] = DeviceOf[l] /\ m < l => m \in born
    /\ born' = born \cup {l} /\ links' = links \cup {l}
    /\ primary' = IF isPrimary THEN (primary \ LinksOf(DeviceOf[l])) \cup {l}
                  ELSE primary
    /\ status' = [status EXCEPT ![l] = report[1]]
    /\ quality' = [quality EXCEPT ![l] = report[2]]
    /\ UNCHANGED <<devices, offline, snapshots, lastRun, switches, wait, exec>>

(* A new primary sets the others back, unless it was primary already. *)
UpdateWanLink(l, report, isPrimary) ==
    /\ l \in links
    /\ primary' = IF ~isPrimary THEN primary \ {l}
                  ELSE IF l \in primary THEN primary
                  ELSE (primary \ LinksOf(DeviceOf[l])) \cup {l}
    /\ status' = [status EXCEPT ![l] = report[1]]
    /\ quality' = [quality EXCEPT ![l] = report[2]]
    /\ UNCHANGED <<devices, offline, links, born, snapshots, lastRun, switches, wait, exec>>

DeleteWanLink(l) ==
    /\ l \in links
    /\ links' = links \ {l} /\ primary' = primary \ {l}
    /\ UNCHANGED <<devices, offline, born, status, quality, snapshots, lastRun,
                   switches, wait, exec>>
-----------------------------------------------------------------------------
(* The drivers, on the links executeAction read in the same turn. *)

SetPrimaryWanOnly(a, wans) == \* mutant: the others are not set back
    /\ primary' = primary \cup {a.target}
    /\ UNCHANGED status

SetPrimaryWan(a, wans) ==
    /\ primary' = (primary \ wans) \cup {a.target}
    /\ UNCHANGED status

SetWanFailover(a) ==
    /\ primary' = (primary \cup {a.target}) \ {a.second}
    /\ UNCHANGED status

EnableWan(a) ==
    /\ status' = [status EXCEPT ![a.target] = "up"]
    /\ UNCHANGED primary

(* The link that takes over is the first one that is not disabled; the old
   one keeps its isPrimary. *)
DisableWan(a, wans) ==
    LET next == {l \in wans \ {a.target} : status[l] # "disabled"} IN
    /\ status' = [status EXCEPT ![a.target] = "disabled"]
    /\ primary' = IF a.target \in primary /\ next # {}
                  THEN primary \cup {Earliest(next)} ELSE primary

(* Only the primary is restored; links deleted since are not in the store. *)
RollbackWanChange(snap, wans) ==
    primary' = IF snap.primary = NoLink THEN primary
               ELSE (primary \ wans) \cup ({snap.primary} \cap wans \cap links)

(* The calls the drivers do not refuse. *)
Possible(a, wans) ==
    \/ /\ a.key = "set_primary_wan" /\ a.target \in wans
       /\ status[a.target] # "down"
    \/ a.key = "set_wan_failover" /\ {a.target, a.second} \subseteq wans
    \/ a.key \in {"enable_wan", "disable_wan"} /\ a.target \in wans
    \/ a.key \in {"set_wan_balance", "rollback_wan_change"}

Drive(a, wans, snap) ==
    \/ a.key = "set_primary_wan" /\ SetPrimaryWan(a, wans)
    \/ a.key = "set_wan_failover" /\ SetWanFailover(a)
    \/ a.key = "set_wan_balance" /\ UNCHANGED <<primary, status>>
    \/ a.key = "enable_wan" /\ EnableWan(a)
    \/ a.key = "disable_wan" /\ DisableWan(a, wans)
    \/ /\ a.key = "rollback_wan_change"
       /\ RollbackWanChange(snap, wans)
       /\ UNCHANGED status
-----------------------------------------------------------------------------
(* WanActionManager.executeAction *)

PrecheckReachable(a) == \* mutant: the target is not checked
    a.device \notin offline

Precheck(a) ==
    /\ a.device \notin offline
    /\ a.key = "set_primary_wan" /\ a.target # NoLink =>
         a.target \in LinksOf(a.device) /\ Fit(a.target)

CaptureSnapshot(d) ==
    [device |-> d, primary |-> FirstOf(LinksOf(d) \cap primary)]

StoredUncut(before) == <<before>> \o snapshots \* mutant: the list grows on

(* The list is cut to its length before the rollback looks its snapshot up;
   one that is not found is replaced by the one just captured. *)
Stored(before) ==
    SubSeq(<<before>> \o snapshots, 1,
           IF Len(snapshots) < MaxSnapshots THEN Len(snapshots) + 1 ELSE MaxSnapshots)
SnapshotFor(a, before) ==
    IF a.back \in 1..Len(snapshots) /\ a.back < MaxSnapshots
    THEN snapshots[a.back] ELSE before

(* What is left to the caller when executeAction answers. *)
Answered(call, ok) == [call EXCEPT !.pc = "returned", !.ok = ok, !.wans = {},
                                   !.snap = NoSnapshot]

(* The first turn. The call is a record that holds the action. *)
Execute(c, call) ==
    LET a == call.act
        wans == LinksOf(a.device)
        before == CaptureSnapshot(a.device)
    IN
    \/ /\ ~Precheck(a)
       /\ lastRun' = "failed"
       /\ exec' = [exec EXCEPT ![c] = Answered(call, FALSE)]
       /\ UNCHANGED <<primary, status, snapshots>>
    \/ /\ Precheck(a)
       /\ snapshots' = Stored(before)
       /\ IF Possible(a, wans) THEN Drive(a, wans, SnapshotFor(a, before))
          ELSE UNCHANGED <<primary, status>>
       /\ exec' = [exec EXCEPT ![c] =
            [call EXCEPT !.pc = "driven", !.ok = Possible(a, wans),
                         !.wans = wans, !.snap = before]]
       /\ UNCHANGED lastRun

(* After the await of the driver. On a device without links the postcheck has
   no link to look at, and the request ends with an exception. *)
AfterDriver(c) ==
    /\ exec[c].pc = "driven"
    /\ \/ /\ ~exec[c].ok
          /\ lastRun' = "failed"
          /\ exec' = [exec EXCEPT ![c] = Answered(@, FALSE)]
       \/ /\ exec[c].ok /\ exec[c].wans # {}
          /\ exec' = [exec EXCEPT ![c].pc = "probed"]
          /\ UNCHANGED lastRun
       \/ /\ exec[c].ok /\ exec[c].wans = {}
          /\ exec' = [exec EXCEPT ![c] = Idle]
          /\ UNCHANGED lastRun
    /\ UNCHANGED <<store, switches, wait>>

AfterPostcheck(c, passed) ==
    /\ exec[c].pc = "probed"
    /\ IF passed
       THEN /\ lastRun' = "success"
            /\ exec' = [exec EXCEPT ![c] = Answered(@, TRUE)]
            /\ UNCHANGED primary
       ELSE /\ RollbackWanChange(exec[c].snap, exec[c].wans)
            /\ exec' = [exec EXCEPT ![c].pc = "undone", ![c].ok = FALSE]
            /\ UNCHANGED lastRun
    /\ UNCHANGED <<devices, offline, links, born, status, quality, snapshots,
                   switches, wait>>

AfterRollback(c) ==
    /\ exec[c].pc = "undone"
    /\ lastRun' = "rolled_back"
    /\ exec' = [exec EXCEPT ![c] = Answered(@, FALSE)]
    /\ UNCHANGED <<store, switches, wait>>
-----------------------------------------------------------------------------
(* The callers. *)

Request(c, a) ==
    /\ exec[c].pc = "idle"
    /\ a.device \in devices
    /\ Execute(c, [Idle EXCEPT !.act = a])
    /\ UNCHANGED <<devices, offline, links, born, quality, switches, wait>>

(* The check of one policy against the primary chosen at the start: breaker,
   cooldown, and what triggers it. A combined policy never comes to compare
   the latency. *)
DueWithoutBreaker(p, l) == \* mutant: the count of switches is not looked at
    /\ wait[p] = 0
    /\ \/ status[l] = "down"
       \/ Trigger[p] \in {"loss", "combined"} /\ quality[l] \in {"lossy", "bad"}
       \/ Trigger[p] = "latency" /\ quality[l] = "slow"

DueByLoss(p, l) == \* mutant: a link that is down does not trigger by itself
    /\ switches[p] < MaxPerHour
    /\ wait[p] = 0
    /\ \/ Trigger[p] \in {"loss", "combined"} /\ quality[l] \in {"lossy", "bad"}
       \/ Trigger[p] = "latency" /\ quality[l] = "slow"

Due(p, l) ==
    /\ switches[p] < MaxPerHour
    /\ wait[p] = 0
    /\ \/ status[l] = "down"
       \/ Trigger[p] \in {"loss", "combined"} /\ quality[l] \in {"lossy", "bad"}
       \/ Trigger[p] = "latency" /\ quality[l] = "slow"

(* The policies left, up to the first that is due; nothing is awaited between
   them. The device may be gone by then: the evaluation ends with an error. *)
EvaluatePolicies(c, d, todo, first, backup) ==
    LET due == {p \in todo : Due(p, first)}
        p == Earliest(due)
        act == [key |-> "set_primary_wan", device |-> d, target |-> backup,
                second |-> NoLink, back |-> 0]
    IN
    IF due = {} \/ d \notin devices
    THEN /\ exec' = [exec EXCEPT ![c] = Idle]
         /\ UNCHANGED <<primary, status, snapshots, lastRun>>
    ELSE Execute(c, [Idle EXCEPT !.act = act, !.policy = p, !.first = first,
                                 !.todo = {q \in todo : q > p}, !.backup = backup])

(* The start of an evaluation that comes to act. *)
PrimaryOf(d) == FirstOf(LinksOf(d) \cap primary)
BackupOf(d)  == FirstOf({l \in LinksOf(d) \ primary : status[l] = "up"})

EvaluateDeviceWanHealth(c, d) ==
    /\ exec[c].pc = "idle" /\ d \in devices
    /\ PrimaryOf(d) # NoLink /\ BackupOf(d) # NoLink
    /\ \E p \in Policies : PolicyDevice[p] = d /\ Due(p, PrimaryOf(d))
    /\ EvaluatePolicies(c, d, {p \in Policies : PolicyDevice[p] = d},
                        PrimaryOf(d), BackupOf(d))
    /\ UNCHANGED <<devices, offline, links, born, quality, switches, wait>>

(* executeAction has answered. The engine counts a switch that succeeded and
   goes on with the policies left. *)
Resume(c) ==
    LET e == exec[c] IN
    /\ e.pc = "returned"
    /\ IF e.policy = NoPolicy
       THEN /\ exec' = [exec EXCEPT ![c] = Idle]
            /\ UNCHANGED <<primary, status, snapshots, lastRun, switches, wait>>
       ELSE /\ IF e.ok
               THEN /\ switches' = [switches EXCEPT ![e.policy] = @ + 1]
                    /\ wait' = [wait EXCEPT ![e.policy] = Cooldown]
               ELSE UNCHANGED <<switches, wait>>
            /\ EvaluatePolicies(c, e.act.device, e.todo, e.first, e.backup)
    /\ UNCHANGED <<devices, offline, links, born, quality>>

(* A minute, or some: the cooldowns run. *)
Tick ==
    /\ \E p \in Policies : wait[p] > 0
    /\ wait' = [p \in Policies |-> IF wait[p] > 0 THEN wait[p] - 1 ELSE 0]
    /\ UNCHANGED <<store, lastRun, switches, exec>>
-----------------------------------------------------------------------------
(* What an operator may ask for. *)
Asked ==
    {a \in [key : Actions, device : Devices, target : Links \cup {NoLink},
            second : Links \cup {NoLink}, back : 0..MaxSnapshots] :
        /\ a.key # "set_wan_failover" => a.second = NoLink
        /\ a.key # "rollback_wan_change" => a.back = 0
        /\ a.key \in {"rollback_wan_change", "set_wan_balance"} => a.target = NoLink}

Manage ==
    \/ \E d \in Devices : CreateDevice(d) \/ UpdateDevice(d) \/ DeleteDevice(d)
    \/ \E l \in Links, r \in Reports, isPrimary \in BOOLEAN :
          CreateWanLink(l, r, isPrimary) \/ UpdateWanLink(l, r, isPrimary)
    \/ \E l \in Links : DeleteWanLink(l)

Proceed(c) ==
    \/ AfterDriver(c) \/ AfterRollback(c) \/ Resume(c)
    \/ \E passed \in PostcheckResults : AfterPostcheck(c, passed)

Next ==
    \/ Manage
    \/ \E c \in Operators, a \in Asked : Request(c, a)
    \/ \E c \in Evaluators, d \in Devices : EvaluateDeviceWanHealth(c, d)
    \/ \E c \in Requests : Proceed(c)
    \/ Tick

Spec == Init /\ [][Next]_vars

(* What was awaited comes back, cooldowns run out, and somebody goes on asking
   for an evaluation (the route /policies/evaluate: src/ has no timer for it). *)
Fairness ==
    /\ \A c \in Requests : WF_vars(Proceed(c))
    /\ WF_vars(Tick)
    /\ \A c \in Evaluators, d \in Devices : SF_vars(EvaluateDeviceWanHealth(c, d))

FairSpec == Spec /\ Fairness
-----------------------------------------------------------------------------
(* A device has one primary link at most, whatever switches, roll-backs,
   reports and new links interleave. Failover and disable_wan are not among
   the actions this holds for: each may leave two. *)
OnePrimary == \A l, m \in primary : DeviceOf[l] = DeviceOf[m] => l = m

(* Evaluations that run together each pass the breaker before any of them
   counts: a policy switches no more often than its limit, and once more for
   every evaluation beyond the first. *)
UnderWay(p) == {c \in Evaluators : exec[c].pc # "idle" /\ exec[c].policy = p}

BreakerHolds ==
    \A p \in Policies : switches[p] <= MaxPerHour + Cardinality(Evaluators) - 1

(* The engine takes the traffic from a link that needs it, as it begins, and
   gives it to one that can carry it, also in the later policies of an
   evaluation, when the backup was chosen some awaits ago. *)
HealsOnlySick ==
    [][\A c \in Evaluators : exec[c].pc # "driven" /\ exec'[c].pc = "driven" =>
          /\ \A l \in primary' \ primary : Fit(l)
          /\ exec[c].pc = "idle" =>
               \A l \in primary \ primary' : status[l] = "down" \/ quality[l] # "good"]_vars

(* The primary is down, and the link the engine would take is fit. *)
Stuck(d) == /\ d \in devices \ offline
            /\ PrimaryOf(d) # NoLink /\ status[PrimaryOf(d)] = "down"
            /\ BackupOf(d) # NoLink /\ Fit(BackupOf(d))

Tripped(d) == \A p \in Policies : PolicyDevice[p] = d => switches[p] >= MaxPerHour

(* A device does not stay on a primary that is down while a fit link stands
   by, until the breaker has tripped. *)
FailsOver == \A d \in Devices : []<>(~Stuck(d) \/ Tripped(d))

(* wanSelfHealing.ts:41, "Max 3 switches per hour": an hour later the engine
   switches again. *)
FailsOverEveryHour == \A d \in Devices : []<>(~Stuck(d))
=============================================================================
