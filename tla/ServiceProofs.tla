---------------------------- MODULE ServiceProofs ----------------------------
(* Proofs about the services of the server, each a part of its own, for any
   records and limits: alerts, automations, the policy engine, the chain of
   audit events, accounts, the telemetry and heartbeats of devices, backups,
   and the report of development control with what sums over sets come to.  *)
EXTENDS Alerts, Automations, PolicyEngine, AuditChain, Accounts, Telemetry, Heartbeat,
        Backups, DevelopmentControl, FiniteSetTheorems, SequenceTheorems, TLAPS

-----------------------------------------------------------------------------
\* A set of numbers has a least one.
LEMMA LeastNumber ==
    ASSUME NEW S \in SUBSET Nat, S # {}
    PROVE  \E x \in S : \A y \in S : x <= y
  <1>1. PICK x \in S : \A y \in S : ~ (<<y, x>> \in OpToRel(<, Nat))
    BY NatLessThanWellFounded, WFMin
  <1>2. ASSUME NEW y \in S PROVE x <= y
    <2>1. x \in Nat /\ y \in Nat
      OBVIOUS
    <2>2. ~ (y < x)
      BY <1>1, <2>1 DEF OpToRel
    <2> QED BY <2>1, <2>2
  <1> QED BY <1>2

-----------------------------------------------------------------------------
(* Alerts *)

AlertInv ==
    /\ AlertTypeOK
    /\ DOMAIN alerts = Problems

SilentNow ==
    \A p \in Problems :
         (alerts[p] # None /\ alerts[p].status = "silenced_maintenance")
            => /\ alerts'[p].status \in {"silenced_maintenance", "resolved"}
               /\ informed'[p] \subseteq informed[p]
               /\ \A i \in SUBSET Problems : incidents'[i] > incidents[i] => p \notin i

\* A report counts, and changes the status to that of a window only.
LEMMA AgainKeeps ==
    ASSUME NEW S, NEW a \in [severity : Severities, count : Nat, status : S],
           NEW silenced \in BOOLEAN, "silenced_maintenance" \in S
    PROVE  /\ Again(a, silenced) \in [severity : Severities, count : Nat, status : S]
           /\ Again(a, silenced).status \in {a.status, "silenced_maintenance"}
  <1> DEFINE n == a.count + 1
             t == IF silenced THEN "silenced_maintenance" ELSE a.status
  <1>1. n \in Nat /\ t \in S /\ t \in {a.status, "silenced_maintenance"}
    OBVIOUS
  <1>2. Again(a, silenced) = [a EXCEPT !.count = n, !.status = t]
    BY DEF Again
  <1> HIDE DEF n, t
  <1> QED BY <1>1, <1>2

\* A report keeps a silenced alert silent, in a window or not.
LEMMA ProcessIsSilent ==
    ASSUME AlertInv, NEW p \in Problems, NEW severity \in Severities,
           NEW silenced \in BOOLEAN, ProcessAlert(p, severity, silenced)
    PROVE  AlertInv' /\ SilentNow
  <1> USE DEF AlertInv, AlertTypeOK
  <1>1. First(severity, silenced) \in [severity : Severities, count : Nat,
                 status : {"active", "silenced_maintenance", "resolved"}]
    BY DEF First
  <1>2. ASSUME Open(p)
        PROVE  /\ Again(alerts[p], silenced) \in [severity : Severities, count : Nat,
                        status : {"active", "silenced_maintenance", "resolved"}]
               /\ Again(alerts[p], silenced).status
                     \in {alerts[p].status, "silenced_maintenance"}
    BY <1>2, AgainKeeps DEF Open
  <1>3. /\ alerts' = [alerts EXCEPT ![p] = IF Open(p) THEN Again(alerts[p], silenced)
                                                      ELSE First(severity, silenced)]
        /\ incidents' = incidents /\ informed' = informed
    BY DEF ProcessAlert
  <1>4. AlertInv'
    BY <1>1, <1>2, <1>3
  <1>5. SilentNow
    <2> SUFFICES ASSUME NEW q \in Problems,
                        alerts[q] # None, alerts[q].status = "silenced_maintenance"
                 PROVE  /\ alerts'[q].status \in {"silenced_maintenance", "resolved"}
                        /\ informed'[q] \subseteq informed[q]
                        /\ \A i \in SUBSET Problems : incidents'[i] > incidents[i] => q \notin i
      BY DEF SilentNow
    <2>1. alerts'[q].status \in {"silenced_maintenance", "resolved"}
      BY <1>2, <1>3 DEF Open
    <2> QED BY <2>1, <1>3
  <1> QED BY <1>4, <1>5

\* Correlation takes active alerts only.
LEMMA CorrelateIsSilent ==
    ASSUME AlertInv, CorrelateAlertsToIncident
    PROVE  AlertInv' /\ SilentNow
  <1> USE DEF AlertInv, AlertTypeOK
  <1> DEFINE new == {Related(t) : t \in {t \in {TargetOf[p] : p \in Problems} :
                                           Cardinality(Related(t)) >= 2}}
  <1>1. /\ incidents' = [i \in SUBSET Problems |->
                            IF i \in new THEN incidents[i] + 1 ELSE incidents[i]]
        /\ alerts' = alerts /\ informed' = informed
    BY DEF CorrelateAlertsToIncident
  <1>2. \A i \in new : \A p \in i : alerts[p].status = "active"
    BY DEF Related
  <1> HIDE DEF new
  <1>3. AlertInv'
    BY <1>1
  <1>4. SilentNow
    BY <1>1, <1>2 DEF SilentNow
  <1> QED BY <1>3, <1>4

\* A step of the alerts keeps the invariant, and silenced alerts silent.
LEMMA AlertStep == AlertInv /\ [AlertNext]_alertVars => AlertInv' /\ (SilentNow \/ UNCHANGED alertVars)
  <1> SUFFICES ASSUME AlertInv, [AlertNext]_alertVars
               PROVE  AlertInv' /\ (SilentNow \/ UNCHANGED alertVars)
    OBVIOUS
  <1> USE DEF AlertInv, AlertTypeOK
  <1>1. ASSUME NEW p \in Problems, NEW severity \in Severities, NEW silenced \in BOOLEAN,
               ProcessAlert(p, severity, silenced)
        PROVE  AlertInv' /\ SilentNow
    BY <1>1, ProcessIsSilent
  <1>2. ASSUME NEW p \in Problems, DispatchNotification(p) PROVE AlertInv' /\ SilentNow
    <2>1. /\ informed' = [informed EXCEPT ![p] = @ \cup ChannelsFor(alerts[p].severity)]
          /\ alerts' = alerts /\ incidents' = incidents
          /\ alerts[p] # None /\ alerts[p].status # "silenced_maintenance"
      BY <1>2 DEF DispatchNotification
    <2>2. ChannelsFor(alerts[p].severity) \subseteq {"webhook", "email"}
      BY DEF ChannelsFor
    <2> QED BY <2>1, <2>2 DEF SilentNow
  <1>3. ASSUME NEW p \in Problems, ResolveAlert(p) PROVE AlertInv' /\ SilentNow
    <2>1. /\ alerts' = [alerts EXCEPT ![p].status = "resolved"]
          /\ informed' = [informed EXCEPT ![p] = {}] /\ incidents' = incidents
          /\ alerts[p] # None
      BY <1>3 DEF ResolveAlert
    <2> QED BY <2>1 DEF SilentNow
  <1>4. CASE CorrelateAlertsToIncident
    BY <1>4, CorrelateIsSilent
  <1>5. CASE UNCHANGED alertVars
    BY <1>5 DEF alertVars
  <1> QED BY <1>1, <1>2, <1>3, <1>4, <1>5 DEF AlertNext

\* Whatever is reported, correlated and resolved, and in whatever order: an
\* alert that a maintenance window silenced stays silent, and out of new
\* incidents, until somebody resolves it (processAlert and its callers).
THEOREM SilenceLasts == AlertInit /\ [][AlertNext]_alertVars => SilentUntilResolved
  <1>1. AlertInit => AlertInv
    BY DEF AlertInit, AlertInv, AlertTypeOK
  <1>2. AlertInv /\ [AlertNext]_alertVars => [SilentNow]_alertVars
    BY AlertStep
  <1>3. SilentUntilResolved <=> [][SilentNow]_alertVars
    BY PTL DEF SilentUntilResolved, SilentNow
  <1> QED BY <1>1, <1>2, <1>3, AlertStep, PTL
-----------------------------------------------------------------------------
(* The policy engine *)

\* The answer that is held is the answer to the request that is held.
PolicyInv ==
    \/ decided = None
    \/ \E req \in Requests : decided = [request |-> req, decision |-> EvaluateJobPolicy(req)]

ByHand(req) == [req EXCEPT !.actor = "user"]

LEMMA ByHandFields ==
    ASSUME NEW req \in Requests
    PROVE  LET r == ByHand(req)
           IN /\ r.actor = "user" /\ r.role = req.role /\ r.perm = req.perm
              /\ r.risk = req.risk /\ r.approval = req.approval /\ r.rule = req.rule
              /\ r.userPerms = req.userPerms /\ r.window = req.window /\ r.at = req.at
  BY DEF ByHand, Requests

\* The rules, the window and the approvals read the same for both; what the
\* user lacks the AI lacks.
LEMMA UserIsFreer ==
    ASSUME NEW req \in Requests, req.actor = "ai", req.userPerms = None,
           ~ Applies(req.rule, ByHand(req))
    PROVE  Strictness(EvaluateJobPolicy(req)) >= Strictness(EvaluateJobPolicy(ByHand(req)))
  <1> DEFINE r == ByHand(req)
  <1>1. /\ r.actor = "user" /\ r.role = req.role /\ r.perm = req.perm
        /\ r.risk = req.risk /\ r.approval = req.approval /\ r.rule = req.rule
        /\ r.userPerms = req.userPerms /\ r.window = req.window /\ r.at = req.at
    BY ByHandFields
  <1>2. ~ Applies(r.rule, r)
    BY <1>1
  <1> HIDE DEF r
  <1>3. OutsideWindow(r) <=> OutsideWindow(req)
    BY <1>1 DEF OutsideWindow
  <1>4. NeedsApproval(r) <=> NeedsApproval(req)
    BY <1>1 DEF NeedsApproval
  <1>5. UserLacks(r) => AiLacks(req)
    BY <1>1 DEF UserLacks, AiLacks, UserPermissions
  <1>6. /\ EvaluateJobPolicy(r) \in {"deny", "requires_approval", "allow"}
        /\ EvaluateJobPolicy(req) \in {"deny", "requires_approval", "allow"}
    BY DEF EvaluateJobPolicy
  <1>7. CASE EvaluateJobPolicy(req) = "deny"
    BY <1>6, <1>7 DEF Strictness, r
  <1>8. CASE EvaluateJobPolicy(req) # "deny"
    <2>1. ~ AiLacks(req)
      BY <1>8 DEF EvaluateJobPolicy
    <2>2. ~ UserLacks(r)
      BY <2>1, <1>5
    <2>3. EvaluateJobPolicy(r) = IF OutsideWindow(r) \/ NeedsApproval(r)
                                 THEN "requires_approval" ELSE "allow"
      BY <2>2, <1>1, <1>2 DEF EvaluateJobPolicy
    <2>4. EvaluateJobPolicy(req) = IF OutsideWindow(req) \/ NeedsApproval(req)
                                   THEN "requires_approval" ELSE "allow"
      BY <1>8 DEF EvaluateJobPolicy
    <2>5. EvaluateJobPolicy(req) = EvaluateJobPolicy(r)
      BY <1>3, <1>4, <2>3, <2>4
    <2> QED BY <2>5, <1>6 DEF Strictness, r
  <1> QED BY <1>7, <1>8

\* For any rules, windows and moments: what an AI may do, the user it acts for
\* may do by hand with no more approvals (evaluateJobPolicy, the two clauses
\* about the permissions of an AI).
THEOREM AiIsNoUser == PolicyInit /\ [][PolicyNext]_decided => []AiNeverBeyondUser
  <1>1. PolicyInit => PolicyInv
    BY DEF PolicyInit, PolicyInv
  <1>2. PolicyInv /\ [PolicyNext]_decided => PolicyInv'
    BY DEF PolicyInv, PolicyNext, Decide
  <1>3. PolicyInv => AiNeverBeyondUser
    <2> SUFFICES ASSUME NEW req \in Requests,
                        decided = [request |-> req, decision |-> EvaluateJobPolicy(req)]
                 PROVE  AiNeverBeyondUser
      BY DEF PolicyInv, AiNeverBeyondUser
    <2>1. decided.request = req /\ decided.decision = EvaluateJobPolicy(req)
      OBVIOUS
    <2> QED BY <2>1, UserIsFreer DEF AiNeverBeyondUser, ByHand
  <1> QED BY <1>1, <1>2, <1>3, PTL
-----------------------------------------------------------------------------
(* Automations *)

\* The record of a trigger and of a policy counts what the history counts.
Accounted(i) ==
    /\ kind \in {"schedule", "goal"} \/ items[i] = Unused => acted[i] = 0
    /\ kind = "trigger" /\ i \in Present => items[i].count = acted[i]
    /\ kind = "policy" /\ i \in Present => items[i].hour = acted[i]

AutoInv ==
    /\ kind \in Kinds
    /\ DOMAIN items = Items /\ acted \in [Items -> Nat]
    /\ \A i \in Present : items[i] \in ItemRecords(kind)
    /\ \A i \in Items : Accounted(i)

BoundedNow == \A i \in Items : acted'[i] > acted[i] => acted[i] < items[i].max

\* A handler writes one record of its group, and counts one act at most.
LEMMA OneItemWritten ==
    ASSUME AutoInv, NEW i \in Items, NEW r \in ItemRecords(kind), NEW n \in Nat,
           kind' = kind, items' = [items EXCEPT ![i] = r],
           acted' = [acted EXCEPT ![i] = n],
           kind \in {"schedule", "goal"} => n = 0,
           kind = "trigger" => r.count = n,
           kind = "policy" => r.hour = n,
           n > acted[i] => acted[i] < items[i].max
    PROVE  AutoInv' /\ BoundedNow
  <1>1. r # Unused /\ r # Gone
    BY AutomationsAssumption DEF AutoInv
  <1>2. DOMAIN items' = Items /\ items'[i] = r /\ acted'[i] = n
        /\ \A j \in Items \ {i} : items'[j] = items[j] /\ acted'[j] = acted[j]
    BY DEF AutoInv
  <1>3. i \in Present' /\ \A j \in Items \ {i} : j \in Present' <=> j \in Present
    BY <1>1, <1>2 DEF Present
  <1>4. \A j \in Items : Accounted(j)'
    <2> SUFFICES ASSUME NEW j \in Items PROVE Accounted(j)'
      OBVIOUS
    <2>1. CASE j = i
      BY <1>1, <1>2, <2>1 DEF Accounted
    <2>2. CASE j # i
      BY <1>2, <1>3, <2>2 DEF Accounted, AutoInv
    <2> QED BY <2>1, <2>2
  <1>5. acted' \in [Items -> Nat]
    BY DEF AutoInv
  <1>6. \A j \in Present' : items'[j] \in ItemRecords(kind')
    BY <1>2, <1>3 DEF AutoInv, Present
  <1>7. BoundedNow
    BY <1>2 DEF BoundedNow, AutoInv
  <1> QED BY <1>2, <1>4, <1>5, <1>6, <1>7 DEF AutoInv

\* The same where nothing is counted.
LEMMA OneItemChanged ==
    ASSUME AutoInv, NEW i \in Items, NEW r \in ItemRecords(kind),
           kind' = kind, items' = [items EXCEPT ![i] = r], acted' = acted,
           items[i] = Unused \/ i \in Present,
           items[i] = Unused /\ kind = "trigger" => r.count = 0,
           items[i] = Unused /\ kind = "policy" => r.hour = 0,
           i \in Present /\ kind = "trigger" => r.count = items[i].count,
           i \in Present /\ kind = "policy" => r.hour = items[i].hour
    PROVE  AutoInv' /\ BoundedNow
  <1>1. acted[i] \in Nat /\ acted' = [acted EXCEPT ![i] = acted[i]] /\ Accounted(i)
    BY DEF AutoInv
  <1>2. kind \in {"schedule", "goal"} => acted[i] = 0
    BY <1>1 DEF Accounted
  <1>3. kind = "trigger" => r.count = acted[i]
    BY <1>1 DEF Accounted
  <1>4. kind = "policy" => r.hour = acted[i]
    BY <1>1 DEF Accounted
  <1>5. ~ (acted[i] > acted[i])
    BY <1>1
  <1> QED BY <1>1, <1>2, <1>3, <1>4, <1>5, OneItemWritten

\* Nothing of the records and of the history is touched.
LEMMA NoItemChanged ==
    ASSUME AutoInv, kind' = kind, items' = items, acted' = acted
    PROVE  AutoInv' /\ BoundedNow
  BY DEF AutoInv, Accounted, Present, BoundedNow

LEMMA DeleteBounded ==
    ASSUME AutoInv, NEW i \in Items, Delete(i)
    PROVE  AutoInv' /\ BoundedNow
  <1>1. /\ items' = [items EXCEPT ![i] = Gone] /\ kind' = kind /\ acted' = acted
        /\ i \in Present
    BY DEF Delete
  <1>2. DOMAIN items' = Items /\ items'[i] = Gone /\ \A j \in Items \ {i} : items'[j] = items[j]
    BY <1>1 DEF AutoInv
  <1>3. Present' = Present \ {i}
    BY <1>2 DEF Present
  <1>4. \A j \in Items : Accounted(j)'
    <2> SUFFICES ASSUME NEW j \in Items PROVE Accounted(j)'
      OBVIOUS
    <2>1. Accounted(j)
      BY DEF AutoInv
    <2>2. j \in Present' => j \in Present /\ items'[j] = items[j]
      BY <1>2, <1>3 DEF Present
    <2>3. items'[j] = Unused => items[j] = Unused
      BY <1>2, MissingAreDistinct
    <2> QED BY <1>1, <2>1, <2>2, <2>3 DEF Accounted
  <1>5. \A j \in Present' : items'[j] \in ItemRecords(kind')
    BY <1>1, <1>2, <1>3 DEF AutoInv, Present
  <1> QED BY <1>1, <1>2, <1>4, <1>5 DEF AutoInv, BoundedNow

LEMMA TriggerBounded ==
    ASSUME AutoInv, kind = "trigger", NEW t \in Items, TriggerRoutes(t) \/ CooldownEnds(t)
    PROVE  AutoInv' /\ BoundedNow
  <1>0. /\ \A i \in Present : items[i] \in [enabled : BOOLEAN, max : Limits,
                                             tripped : BOOLEAN, count : Nat]
        /\ \A i \in Present : items[i].count = acted[i]
        /\ ItemRecords(kind) = [enabled : BOOLEAN, max : Limits, tripped : BOOLEAN, count : Nat]
        /\ Present \subseteq Items /\ Limits \subseteq Nat
    BY AutomationsAssumption DEF AutoInv, Accounted, ItemRecords, Present
  <1>1. CASE CreateTrigger(t)
    <2>1. PICK r \in TriggerBody : Create(t, r)
      BY <1>1 DEF CreateTrigger
    <2>2. PICK on \in BOOLEAN, max \in Limits :
            r = [enabled |-> on, max |-> max, tripped |-> FALSE, count |-> 0]
      BY DEF TriggerBody
    <2>3. r \in ItemRecords(kind) /\ r.count = 0
      BY <1>0, <2>2
    <2> QED BY <2>1, <2>2, <2>3, OneItemChanged DEF Create, Present
  <1>2. CASE Break(t)
    <2>1. [items[t] EXCEPT !.tripped = TRUE] \in ItemRecords(kind)
          /\ [items[t] EXCEPT !.tripped = TRUE].count = items[t].count
      BY <1>0, <1>2 DEF Break
    <2>2. items' = [items EXCEPT ![t] = [items[t] EXCEPT !.tripped = TRUE]]
      BY <1>2 DEF Break
    <2> QED BY <1>2, <2>1, <2>2, OneItemChanged DEF Break, Present
  <1>3. CASE Suppress(t)
    BY <1>3, NoItemChanged DEF Suppress
  <1>4. CASE Fire(t)
    <2> DEFINE n == acted[t] + 1
    <2>1. /\ t \in Present /\ kind' = kind
          /\ items' = [items EXCEPT ![t] = [items[t] EXCEPT !.count = items[t].count + 1]]
          /\ acted' = [acted EXCEPT ![t] = n]
          /\ ~ (items[t].count >= items[t].max)
      BY <1>4 DEF Fire, MustBreak
    <2>2. items[t].count + 1 = n /\ n \in Nat /\ acted[t] < items[t].max
      BY <1>0, <2>1 DEF AutoInv
    <2>3. items' = [items EXCEPT ![t] = [items[t] EXCEPT !.count = n]]
      BY <2>1, <2>2
    <2> HIDE DEF n
    <2>4. [items[t] EXCEPT !.count = n] \in ItemRecords(kind)
          /\ [items[t] EXCEPT !.count = n].count = n
      BY <1>0, <2>1, <2>2
    <2> QED BY <2>1, <2>2, <2>3, <2>4, OneItemWritten
  <1>5. CASE ResetBreaker(t)
    <2>1. /\ t \in Present /\ kind' = kind /\ acted' = [acted EXCEPT ![t] = 0]
          /\ items' = [items EXCEPT ![t] = [items[t] EXCEPT !.tripped = FALSE, !.count = 0]]
      BY <1>5 DEF ResetBreaker, AutoInv
    <2>2. [items[t] EXCEPT !.tripped = FALSE, !.count = 0] \in ItemRecords(kind)
          /\ [items[t] EXCEPT !.tripped = FALSE, !.count = 0].count = 0
      BY <1>0, <2>1
    <2>3. ~ (0 > acted[t])
      BY DEF AutoInv
    <2> QED BY <2>1, <2>2, <2>3, OneItemWritten
  <1>6. CASE UpdateTrigger(t)
    <2>1. PICK on \in BOOLEAN, max \in Limits :
            items' = [items EXCEPT ![t] = [items[t] EXCEPT !.enabled = on, !.max = max]]
      BY <1>6 DEF UpdateTrigger, AutoInv
    <2>2. [items[t] EXCEPT !.enabled = on, !.max = max] \in ItemRecords(kind)
          /\ [items[t] EXCEPT !.enabled = on, !.max = max].count = items[t].count
      BY <1>0, <1>6 DEF UpdateTrigger
    <2> QED BY <1>6, <2>1, <2>2, OneItemChanged DEF UpdateTrigger, Present
  <1>7. CASE Delete(t)
    BY <1>7, DeleteBounded
  <1>8. CASE CooldownEnds(t)
    BY <1>8, NoItemChanged DEF CooldownEnds
  <1> QED BY <1>1, <1>2, <1>3, <1>4, <1>5, <1>6, <1>7, <1>8 DEF TriggerRoutes
LEMMA PolicyBounded ==
    ASSUME AutoInv, kind = "policy", NEW p \in Items, PolicyRoutes(p)
    PROVE  AutoInv' /\ BoundedNow
  <1>0. /\ \A i \in Present : items[i] \in [enabled : BOOLEAN, alone : BOOLEAN,
                                             max : Limits, hour : Nat]
        /\ \A i \in Present : items[i].hour = acted[i]
        /\ ItemRecords(kind) = [enabled : BOOLEAN, alone : BOOLEAN, max : Limits, hour : Nat]
        /\ Present \subseteq Items /\ Limits \subseteq Nat
    BY AutomationsAssumption DEF AutoInv, Accounted, ItemRecords, Present
  <1>1. CASE CreatePolicy(p)
    <2>1. PICK r \in PolicyForm : Create(p, r)
      BY <1>1 DEF CreatePolicy
    <2>2. PICK alone \in BOOLEAN, max \in Limits :
            r = [enabled |-> TRUE, alone |-> alone, max |-> max, hour |-> 0]
      BY DEF PolicyForm
    <2>3. r \in ItemRecords(kind) /\ r.hour = 0
      BY <1>0, <2>2
    <2> QED BY <2>1, <2>2, <2>3, OneItemChanged DEF Create, Present
  <1>2. CASE Execute(p)
    <2> DEFINE n == acted[p] + 1
    <2>1. /\ p \in Present /\ kind' = kind
          /\ items' = [items EXCEPT ![p] = [items[p] EXCEPT !.hour = items[p].hour + 1]]
          /\ acted' = [acted EXCEPT ![p] = n]
          /\ items[p].hour < items[p].max
      BY <1>2 DEF Execute, WithinBudget
    <2>2. items[p].hour + 1 = n /\ n \in Nat /\ acted[p] < items[p].max
      BY <1>0, <2>1 DEF AutoInv
    <2>3. items' = [items EXCEPT ![p] = [items[p] EXCEPT !.hour = n]]
      BY <2>1, <2>2
    <2> HIDE DEF n
    <2>4. [items[p] EXCEPT !.hour = n] \in ItemRecords(kind)
          /\ [items[p] EXCEPT !.hour = n].hour = n
      BY <1>0, <2>1, <2>2
    <2> QED BY <2>1, <2>2, <2>3, <2>4, OneItemWritten
  <1>3. CASE Retain(p)
    BY <1>3, NoItemChanged DEF Retain
  <1>4. CASE UpdatePolicy(p)
    <2>1. PICK on \in BOOLEAN, alone \in BOOLEAN :
            items' = [items EXCEPT ![p] = [items[p] EXCEPT !.enabled = on, !.alone = alone]]
      BY <1>4 DEF UpdatePolicy, AutoInv
    <2>2. [items[p] EXCEPT !.enabled = on, !.alone = alone] \in ItemRecords(kind)
          /\ [items[p] EXCEPT !.enabled = on, !.alone = alone].hour = items[p].hour
      BY <1>0, <1>4 DEF UpdatePolicy
    <2> QED BY <1>4, <2>1, <2>2, OneItemChanged DEF UpdatePolicy, Present
  <1>5. CASE Delete(p)
    BY <1>5, DeleteBounded
  <1> QED BY <1>1, <1>2, <1>3, <1>4, <1>5 DEF PolicyRoutes

LEMMA ScheduleBounded ==
    ASSUME AutoInv, kind = "schedule", NEW s \in Items, ScheduleRoutes(s)
    PROVE  AutoInv' /\ BoundedNow
  <1>0. /\ \A i \in Present : items[i] \in [enabled : BOOLEAN, ran : BOOLEAN]
        /\ ItemRecords(kind) = [enabled : BOOLEAN, ran : BOOLEAN]
    BY DEF AutoInv, ItemRecords
  <1>1. CASE CreateSchedule(s)
    <2>1. PICK r \in ScheduleForm : Create(s, r)
      BY <1>1 DEF CreateSchedule
    <2>2. r = [enabled |-> TRUE, ran |-> FALSE]
      BY DEF ScheduleForm
    <2>3. r \in ItemRecords(kind)
      BY <1>0, <2>2
    <2> QED BY <2>1, <2>3, OneItemChanged DEF Create
  <1>2. CASE RunNow(s)
    <2>1. items' = [items EXCEPT ![s] = [items[s] EXCEPT !.ran = TRUE]]
      BY <1>2 DEF RunNow
    <2>2. [items[s] EXCEPT !.ran = TRUE] \in ItemRecords(kind)
      BY <1>0, <1>2 DEF RunNow
    <2> QED BY <1>2, <2>1, <2>2, OneItemChanged DEF RunNow
  <1>3. CASE UpdateSchedule(s)
    <2>1. PICK on \in BOOLEAN : items' = [items EXCEPT ![s] = [items[s] EXCEPT !.enabled = on]]
      BY <1>3 DEF UpdateSchedule
    <2>2. [items[s] EXCEPT !.enabled = on] \in ItemRecords(kind)
      BY <1>0, <1>3 DEF UpdateSchedule
    <2> QED BY <1>3, <2>1, <2>2, OneItemChanged DEF UpdateSchedule
  <1>4. CASE Delete(s)
    BY <1>4, DeleteBounded
  <1> QED BY <1>1, <1>2, <1>3, <1>4 DEF ScheduleRoutes

LEMMA GoalBounded ==
    ASSUME AutoInv, kind = "goal", NEW g \in Items, GoalRoutes(g)
    PROVE  AutoInv' /\ BoundedNow
  <1> DEFINE Statuses == {"compliant", "at_risk", "violated"}
  <1>0. /\ \A i \in Present : items[i] \in [category : Categories, target : Targets,
                                             value : Nat, status : Statuses]
        /\ ItemRecords(kind) = [category : Categories, target : Targets,
                                 value : Nat, status : Statuses]
        /\ Targets \subseteq Nat
    BY AutomationsAssumption DEF AutoInv, ItemRecords
  <1>1. CASE CreateGoal(g)
    <2>1. PICK r \in GoalForm : Create(g, r)
      BY <1>1 DEF CreateGoal
    <2>2. PICK c \in Categories, n \in Targets :
            r = [category |-> c, target |-> n, value |-> n + 350, status |-> "compliant"]
      BY DEF GoalForm
    <2>3. n + 350 \in Nat
      BY <1>0
    <2>4. r \in ItemRecords(kind)
      BY <1>0, <2>2, <2>3
    <2> QED BY <2>1, <2>4, OneItemChanged DEF Create
  <1>2. CASE Evaluate(g)
    <2>1. PICK value \in Observable(items[g].category, items[g].target) :
            items' = [items EXCEPT ![g] = Evaluated(items[g], value,
                         StatusOf(items[g].category, value, items[g].target))]
      BY <1>2 DEF Evaluate
    <2> DEFINE status == StatusOf(items[g].category, value, items[g].target)
    <2>2. value \in Nat /\ status \in Statuses
      <3>1. items[g].target \in Nat
        BY <1>0, <1>2 DEF Evaluate
      <3> QED BY <3>1 DEF Observable, StatusOf
    <2> HIDE DEF status
    <2>3. Evaluated(items[g], value, status) \in ItemRecords(kind)
      BY <1>0, <1>2, <2>2 DEF Evaluate, Evaluated
    <2> QED BY <1>2, <2>1, <2>3, OneItemChanged DEF Evaluate, status
  <1>3. CASE UpdateGoal(g)
    <2>1. PICK n \in Targets : items' = [items EXCEPT ![g] = [items[g] EXCEPT !.target = n]]
      BY <1>3 DEF UpdateGoal
    <2>2. [items[g] EXCEPT !.target = n] \in ItemRecords(kind)
      BY <1>0, <1>3 DEF UpdateGoal
    <2> QED BY <1>3, <2>1, <2>2, OneItemChanged DEF UpdateGoal
  <1>4. CASE Delete(g)
    BY <1>4, DeleteBounded
  <1> QED BY <1>1, <1>2, <1>3, <1>4 DEF GoalRoutes

LEMMA AutoStep == AutoInv /\ [AutoNext]_autoVars => AutoInv' /\ BoundedNow
  <1> SUFFICES ASSUME AutoInv, [AutoNext]_autoVars PROVE AutoInv' /\ BoundedNow
    OBVIOUS
  <1>1. CASE UNCHANGED autoVars
    BY <1>1, NoItemChanged DEF autoVars
  <1> QED BY <1>1, ScheduleBounded, TriggerBounded, PolicyBounded, GoalBounded DEF AutoNext

\* For any limits, however often they are raised and lowered, and whatever else
\* is asked in between: a trigger fires only below its limit of this moment,
\* counted from its last re-arm, and a policy executes only below the limit of
\* its life (the routes fire and execute of the automations).
THEOREM ActsAreBounded == AutoInit /\ [][AutoNext]_autoVars => LimitsBoundActs
  <1>1. AutoInit => AutoInv
    BY MissingAreDistinct DEF AutoInit, AutoInv, Accounted, Present
  <1>2. AutoInv /\ [AutoNext]_autoVars => [BoundedNow]_autoVars
    BY AutoStep
  <1>3. LimitsBoundActs <=> [][BoundedNow]_autoVars
    BY PTL DEF LimitsBoundActs, BoundedNow
  <1> QED BY <1>1, <1>2, <1>3, AutoStep, PTL

EventStatus == {"success", "circuit_broken", "cooldown_suppressed", "triggered",
                "requires_approval", "compliant", "at_risk", "violated"}

ListedEvent == [of : Items, status : EventStatus, value : Nat \cup {None}]

\* A list that is cut each time it grows never holds more than it may.
EventsTyped ==
    /\ events \in Seq(ListedEvent)
    /\ Len(events) =< MaxEvents \/ kind \in {"trigger", "policy"}
    /\ hot \subseteq Items

LEMMA RecordedIsCut ==
    ASSUME EventsTyped, NEW e \in ListedEvent
    PROVE  /\ Recorded(e) \in Seq(ListedEvent) /\ RecordedUncut(e) \in Seq(ListedEvent)
           /\ Len(events) =< MaxEvents => Len(Recorded(e)) =< MaxEvents
  <1> DEFINE longer == <<e>> \o events
             n == Len(events)
  <1>1. /\ longer \in Seq(ListedEvent) /\ Len(longer) = n + 1 /\ n \in Nat /\ MaxEvents \in Nat
        /\ \A i \in 1..(n + 1) : longer[i] \in ListedEvent
    <2>1. <<e>> \in Seq(ListedEvent) /\ Len(<<e>>) = 1 /\ n \in Nat /\ MaxEvents \in Nat
      BY AutomationsAssumption DEF EventsTyped
    <2>2. longer \in Seq(ListedEvent) /\ Len(longer) = 1 + n
      BY <2>1, ConcatProperties DEF EventsTyped
    <2>3. 1 + n = n + 1
      BY <2>1
    <2> HIDE DEF longer, n
    <2> QED BY <2>1, <2>2, <2>3
  <1>2. RecordedUncut(e) = longer
        /\ Recorded(e) = IF Len(longer) > MaxEvents THEN SubSeq(longer, 1, Len(longer) - 1) ELSE longer
    BY DEF Recorded, RecordedUncut
  <1> HIDE DEF longer, n
  <1>3. SubSeq(longer, 1, n) \in Seq(ListedEvent) /\ Len(SubSeq(longer, 1, n)) = n
    <2>1. /\ SubSeq(longer, 1, n) \in Seq(ListedEvent)
          /\ Len(SubSeq(longer, 1, n)) = IF 1 <= n THEN n - 1 + 1 ELSE 0
      BY <1>1, SubSeqProperties
    <2> QED BY <1>1, <2>1
  <1>4. Len(longer) - 1 = n
    BY <1>1
  <1> QED BY <1>1, <1>2, <1>3, <1>4 DEF n

LEMMA RecordedKeeps ==
    ASSUME EventsTyped, NEW e \in ListedEvent, events' = Recorded(e), kind' = kind,
           hot' \subseteq Items
    PROVE  EventsTyped'
  BY RecordedIsCut DEF EventsTyped

LEMMA EventsStep == AutoInv /\ EventsTyped /\ [AutoNext]_autoVars => EventsTyped'
  <1> SUFFICES ASSUME AutoInv, EventsTyped, [AutoNext]_autoVars PROVE EventsTyped'
    OBVIOUS
  <1>1. ASSUME UNCHANGED <<kind, events>>, hot' \subseteq Items PROVE EventsTyped'
    BY <1>1 DEF EventsTyped
  <1>2. ASSUME UNCHANGED <<kind, events, hot>> PROVE EventsTyped'
    BY <1>2 DEF EventsTyped
  <1>3. ASSUME NEW i \in Items, Delete(i) \/ \E r : Create(i, r) PROVE EventsTyped'
    BY <1>2, <1>3 DEF Delete, Create
  <1>4. \A i \in Items, s \in EventStatus : Event(i, s, None) \in ListedEvent
    BY DEF Event, ListedEvent
  <1>5. hot \subseteq Items
    BY DEF EventsTyped
  <1>6. ASSUME NEW i \in Items, ScheduleRoutes(i) PROVE EventsTyped'
    <2>1. CASE RunNow(i)
      BY <1>4, <1>5, <2>1, RecordedKeeps DEF RunNow, EventStatus
    <2>2. CASE UpdateSchedule(i)
      BY <1>2, <2>2 DEF UpdateSchedule
    <2> QED BY <1>3, <1>6, <2>1, <2>2 DEF ScheduleRoutes, CreateSchedule
  <1>7. ASSUME NEW i \in Items, NEW e \in ListedEvent, events' = RecordedUncut(e),
               kind' = kind, kind \in {"trigger", "policy"}, hot' = hot
        PROVE  EventsTyped'
    BY <1>7, RecordedIsCut DEF EventsTyped
  <1>8. ASSUME NEW i \in Items, kind = "trigger", TriggerRoutes(i) \/ CooldownEnds(i)
        PROVE  EventsTyped'
    <2>1. CASE Break(i)
      BY <1>4, <1>7, <1>8, <2>1 DEF Break, EventStatus
    <2>2. CASE Suppress(i)
      BY <1>4, <1>7, <1>8, <2>2 DEF Suppress, EventStatus
    <2>3. CASE Fire(i)
      BY <1>4, <1>5, <2>3, RecordedKeeps DEF Fire, EventStatus
    <2>4. CASE CooldownEnds(i)
      BY <1>1, <1>5, <2>4 DEF CooldownEnds
    <2>5. CASE ResetBreaker(i) \/ UpdateTrigger(i)
      BY <1>2, <2>5 DEF ResetBreaker, UpdateTrigger
    <2> QED BY <1>3, <1>8, <2>1, <2>2, <2>3, <2>4, <2>5 DEF TriggerRoutes, CreateTrigger
  <1>9. ASSUME NEW i \in Items, kind = "policy", PolicyRoutes(i) PROVE EventsTyped'
    <2>1. CASE Execute(i)
      BY <1>4, <1>5, <2>1, RecordedKeeps DEF Execute, EventStatus
    <2>2. CASE Retain(i)
      BY <1>4, <1>7, <1>9, <2>2 DEF Retain, EventStatus
    <2>3. CASE UpdatePolicy(i)
      BY <1>2, <2>3 DEF UpdatePolicy
    <2> QED BY <1>3, <1>9, <2>1, <2>2, <2>3 DEF PolicyRoutes, CreatePolicy
  <1>10. ASSUME NEW i \in Items, kind = "goal", GoalRoutes(i) PROVE EventsTyped'
    <2>1. CASE Evaluate(i)
      <3>1. PICK value \in Observable(items[i].category, items[i].target) :
               events' = Recorded(Event(i, StatusOf(items[i].category, value, items[i].target), value))
        BY <2>1 DEF Evaluate
      <3>2. items[i].target \in Nat
        BY <1>10, <2>1, AutomationsAssumption DEF AutoInv, Evaluate, ItemRecords
      <3>3. value \in Nat
        BY <3>1, <3>2 DEF Observable
      <3>4. StatusOf(items[i].category, value, items[i].target) \in EventStatus
        BY DEF StatusOf, EventStatus
      <3>5. kind' = kind /\ hot' = hot
        BY <2>1 DEF Evaluate
      <3>6. Event(i, StatusOf(items[i].category, value, items[i].target), value) \in ListedEvent
        BY <3>3, <3>4 DEF Event, ListedEvent
      <3> QED BY <1>5, <3>1, <3>5, <3>6, RecordedKeeps
    <2>2. CASE UpdateGoal(i)
      BY <1>2, <2>2 DEF UpdateGoal
    <2> QED BY <1>3, <1>10, <2>1, <2>2 DEF GoalRoutes, CreateGoal
  <1>11. CASE UNCHANGED autoVars
    BY <1>2, <1>11 DEF autoVars
  <1> QED BY <1>6, <1>8, <1>9, <1>10, <1>11 DEF AutoNext

LEMMA AutoStarts == AutoInit => AutoInv /\ EventsTyped
  <1>1. AutoInit => AutoInv
    BY MissingAreDistinct DEF AutoInit, AutoInv, Accounted, Present
  <1>2. AutoInit => EventsTyped
    BY AutomationsAssumption DEF AutoInit, EventsTyped
  <1> QED BY <1>1, <1>2

LEMMA AutoTypes == AutoInv /\ EventsTyped => AutoTypeOK
  BY DEF AutoInv, EventsTyped, AutoTypeOK

-----------------------------------------------------------------------------
(* The chain of audit events *)

IsEvent(e) ==
    e = [payload |-> e.payload, previousHash |-> e.previousHash, eventHash |-> e.eventHash]

\* Each event that was written names the one before it, and no two events
\* have the same hash.
WrittenOK ==
    /\ \E S : written \in Seq(S)
    /\ \A i \in 1..Len(written) :
         /\ \E payload, full : written[i] = CreateAuditEvent(payload, full, written[i].previousHash)
         /\ i = 1 => written[i].previousHash = Genesis
         /\ i > 1 => written[i].previousHash = written[i - 1].eventHash
    /\ \A i, j \in 1..Len(written) : written[i].eventHash = written[j].eventHash => i = j

\* The hashes of an event that is read are those of one that was written.
ChainOK ==
    /\ \E S : chain \in Seq(S)
    /\ \A k \in 1..Len(chain) :
         /\ IsEvent(chain[k])
         /\ \E i \in 1..Len(written) : /\ chain[k].previousHash = written[i].previousHash
                                      /\ chain[k].eventHash = written[i].eventHash

AuditInv == WrittenOK /\ ChainOK

\* The hash of an event is not the start value, and tells what was hashed.
LEMMA HashOfEvent ==
    ASSUME NEW payload, NEW full, NEW previous
    PROVE  LET e == CreateAuditEvent(payload, full, previous)
           IN /\ IsEvent(e)
              /\ e.payload = payload /\ e.previousHash = previous
              /\ e.eventHash = <<<<payload, full>>, previous>>
              /\ e.eventHash # Genesis
  BY DEF CreateAuditEvent, ComputeEventHash, Canonical, IsEvent, Genesis

\* Written to the end of the chain, an event has a hash of its own.
LEMMA WriteKeeps ==
    ASSUME AuditInv, NEW payload, NEW full, Write(payload, full)
    PROVE  AuditInv'
  <1> DEFINE n == Len(written)
             e == CreateAuditEvent(payload, full, LastHash(written))
  <1>1. PICK S : written \in Seq(S)
    BY DEF AuditInv, WrittenOK
  <1>2. /\ IsEvent(e) /\ e.payload = payload /\ e.previousHash = LastHash(written)
        /\ e.eventHash = <<<<payload, full>>, LastHash(written)>>
    BY HashOfEvent
  <1>3. /\ written' = Append(written, e) /\ chain' = written' /\ chain = written
    BY DEF Write
  <1>4. e = CreateAuditEvent(payload, full, e.previousHash)
    BY <1>2
  <1> HIDE DEF e
  <1>5. /\ n \in Nat /\ Len(written') = n + 1 /\ written'[n + 1] = e
        /\ \A i \in 1..n : written'[i] = written[i]
    BY <1>1, <1>3
  <1>6. written' \in Seq(S \cup {e})
    BY <1>1, <1>3
  <1> HIDE DEF n
  <1>7. /\ n = 0 => e.previousHash = Genesis
        /\ n > 0 => e.previousHash = written[n].eventHash
    BY <1>1, <1>2, <1>5 DEF LastHash, n
  <1>8. \A i \in 1..n : /\ written[i].eventHash # e.eventHash /\ IsEvent(written[i])
    <2> SUFFICES ASSUME NEW i \in 1..n
                 PROVE  written[i].eventHash # e.eventHash /\ IsEvent(written[i])
      OBVIOUS
    <2>1. PICK p, f : written[i] = CreateAuditEvent(p, f, written[i].previousHash)
      BY DEF AuditInv, WrittenOK, n
    <2>2. IsEvent(written[i]) /\ written[i].eventHash = <<<<p, f>>, written[i].previousHash>>
      BY <2>1, HashOfEvent
    <2>3. n > 0 /\ n \in 1..n
      BY <1>5
    <2>4. ASSUME written[i].eventHash = e.eventHash PROVE FALSE
      <3>1. written[i].previousHash = written[n].eventHash
        BY <1>2, <1>7, <2>2, <2>3, <2>4
      <3>2. i = 1 => FALSE
        <4>1. written[n].eventHash # Genesis
          <5>1. PICK q, g : written[n] = CreateAuditEvent(q, g, written[n].previousHash)
            BY <2>3 DEF AuditInv, WrittenOK, n
          <5> QED BY <5>1, HashOfEvent
        <4> QED BY <3>1, <4>1 DEF AuditInv, WrittenOK, n
      <3>3. i > 1 => written[i - 1].eventHash = written[n].eventHash /\ i - 1 \in 1..n
        BY <3>1, <1>5 DEF AuditInv, WrittenOK, n
      <3>4. i > 1 => i - 1 = n
        BY <3>3, <2>3 DEF AuditInv, WrittenOK, n
      <3> QED BY <3>2, <3>4, <1>5
    <2> QED BY <2>2, <2>4
  <1>9. WrittenOK'
    <2>1. \A i \in 1..(n + 1) :
             /\ \E p, f : written'[i] = CreateAuditEvent(p, f, written'[i].previousHash)
             /\ i = 1 => written'[i].previousHash = Genesis
             /\ i > 1 => written'[i].previousHash = written'[i - 1].eventHash
      <3> SUFFICES ASSUME NEW i \in 1..(n + 1)
                   PROVE  /\ \E p, f : written'[i] = CreateAuditEvent(p, f, written'[i].previousHash)
                          /\ i = 1 => written'[i].previousHash = Genesis
                          /\ i > 1 => written'[i].previousHash = written'[i - 1].eventHash
        OBVIOUS
      <3>1. CASE i = n + 1
        BY <1>4, <1>5, <1>7, <3>1
      <3>2. CASE i \in 1..n
        <4>1. i > 1 => i - 1 \in 1..n
          BY <1>5, <3>2
        <4> QED BY <1>5, <3>2, <4>1 DEF AuditInv, WrittenOK, n
      <3> QED BY <1>5, <3>1, <3>2
    <2>2. \A i, j \in 1..(n + 1) : written'[i].eventHash = written'[j].eventHash => i = j
      <3> SUFFICES ASSUME NEW i \in 1..(n + 1), NEW j \in 1..(n + 1),
                          written'[i].eventHash = written'[j].eventHash
                   PROVE  i = j
        OBVIOUS
      <3>1. (i \in 1..n \/ i = n + 1) /\ (j \in 1..n \/ j = n + 1)
        BY <1>5
      <3>2. CASE i \in 1..n /\ j \in 1..n
        BY <1>5, <3>2 DEF AuditInv, WrittenOK, n
      <3> QED BY <1>5, <1>8, <3>1, <3>2
    <2> QED BY <1>5, <1>6, <2>1, <2>2 DEF WrittenOK
  <1>10. ChainOK'
    <2>1. \A k \in 1..Len(written') : IsEvent(written'[k])
      BY <1>2, <1>5, <1>8
    <2> QED BY <1>3, <1>6, <2>1 DEF ChainOK
  <1> QED BY <1>9, <1>10 DEF AuditInv
\* Whoever reads the chain finds events with the hashes of written ones, whatever
\* was altered, dropped or swapped.
LEMMA DamageKeeps ==
    ASSUME AuditInv, written' = written, NEW S, chain' \in Seq(S),
           \A k \in 1..Len(chain') : \E m \in 1..Len(chain) :
               /\ chain'[k].previousHash = chain[m].previousHash
               /\ chain'[k].eventHash = chain[m].eventHash
               /\ IsEvent(chain'[k])
    PROVE  AuditInv'
  BY DEF AuditInv, WrittenOK, ChainOK

LEMMA AuditStep == AuditInv /\ [AuditNext]_auditVars => AuditInv'
  <1> SUFFICES ASSUME AuditInv, [AuditNext]_auditVars PROVE AuditInv'
    OBVIOUS
  <1>0. PICK S : chain \in Seq(S)
    BY DEF AuditInv, ChainOK
  <1>1. DOMAIN chain = 1..Len(chain) /\ Len(chain) \in Nat
        /\ \A k \in 1..Len(chain) : chain[k] \in S /\ IsEvent(chain[k])
    BY <1>0 DEF AuditInv, ChainOK
  <1>2. ASSUME NEW payload, NEW full, Write(payload, full) PROVE AuditInv'
    BY <1>2, WriteKeeps
  <1>3. ASSUME NEW i \in DOMAIN chain, NEW payload, Alter(i, payload) PROVE AuditInv'
    <2> DEFINE e == [payload |-> payload, previousHash |-> chain[i].previousHash,
                     eventHash |-> chain[i].eventHash]
    <2>1. [chain[i] EXCEPT !.payload = payload] = e
      BY <1>1 DEF IsEvent
    <2>2. chain' = [chain EXCEPT ![i] = [chain[i] EXCEPT !.payload = payload]]
          /\ written' = written
      BY <1>3 DEF Alter
    <2>3. chain' = [chain EXCEPT ![i] = e]
      BY <2>1, <2>2
    <2>4. IsEvent(e) /\ e.previousHash = chain[i].previousHash /\ e.eventHash = chain[i].eventHash
      BY DEF IsEvent
    <2> HIDE DEF e
    <2>5. /\ chain' \in Seq(S \cup {e}) /\ Len(chain') = Len(chain)
          /\ \A k \in 1..Len(chain) : chain'[k] = IF k = i THEN e ELSE chain[k]
      BY <1>0, <1>1, <2>3
    <2> QED BY <1>1, <2>2, <2>4, <2>5, DamageKeeps
  <1>4. ASSUME NEW i \in DOMAIN chain, Drop(i) PROVE AuditInv'
    <2> DEFINE n == Len(chain)
               s == SubSeq(chain, 1, i - 1)
               t == SubSeq(chain, i + 1, n)
    <2>1. chain' = s \o t /\ written' = written /\ i \in 1..n
      BY <1>1, <1>4 DEF Drop
    <2>2. /\ s \in Seq(S) /\ Len(s) = i - 1
          /\ \A k \in 1..(i - 1) : s[k] = chain[k]
      BY <1>1, <2>1, SubSeqProperties
    <2>3. /\ t \in Seq(S) /\ Len(t) = n - i
          /\ \A k \in 1..(n - i) : t[k] = chain[i + k]
      BY <1>1, <2>1, SubSeqProperties
    <2> HIDE DEF s, t
    <2>4. /\ chain' \in Seq(S) /\ Len(chain') = n - 1
          /\ \A k \in 1..(n - 1) : chain'[k] = IF k <= i - 1 THEN s[k] ELSE t[k - (i - 1)]
      <3>1. /\ s \o t \in Seq(S) /\ Len(s \o t) = Len(s) + Len(t)
            /\ \A k \in 1..(Len(s) + Len(t)) :
                  (s \o t)[k] = IF k <= Len(s) THEN s[k] ELSE t[k - Len(s)]
        BY <2>2, <2>3, ConcatProperties
      <3>2. Len(s) + Len(t) = n - 1
        BY <1>1, <2>1, <2>2, <2>3
      <3> QED BY <2>1, <2>2, <3>1, <3>2
    <2>5. \A k \in 1..(n - 1) : chain'[k] = chain[IF k <= i - 1 THEN k ELSE k + 1]
      <3> SUFFICES ASSUME NEW k \in 1..(n - 1)
                   PROVE  chain'[k] = chain[IF k <= i - 1 THEN k ELSE k + 1]
        OBVIOUS
      <3>1. CASE k <= i - 1
        BY <1>1, <2>1, <2>2, <2>4, <3>1
      <3>2. CASE ~ (k <= i - 1)
        <4>1. k - (i - 1) \in 1..(n - i) /\ i + (k - (i - 1)) = k + 1
          BY <1>1, <2>1, <3>2
        <4> QED BY <2>3, <2>4, <3>2, <4>1
      <3> QED BY <3>1, <3>2
    <2>6. \A k \in 1..(n - 1) : (IF k <= i - 1 THEN k ELSE k + 1) \in 1..n
      BY <1>1, <2>1
    <2> QED BY <1>1, <2>1, <2>4, <2>5, <2>6, DamageKeeps
  <1>5. ASSUME NEW i \in DOMAIN chain, NEW j \in DOMAIN chain, Swap(i, j) PROVE AuditInv'
    <2>1. /\ chain' \in Seq(S) /\ Len(chain') = Len(chain) /\ written' = written
          /\ \A k \in 1..Len(chain) : \E m \in 1..Len(chain) : chain'[k] = chain[m]
      BY <1>0, <1>1, <1>5 DEF Swap
    <2> QED BY <1>1, <2>1, DamageKeeps
  <1>6. CASE UNCHANGED auditVars
    BY <1>6 DEF auditVars, AuditInv, WrittenOK, ChainOK
  <1> QED BY <1>2, <1>3, <1>4, <1>5, <1>6 DEF AuditNext

\* What verifies is the event that has these hashes, and the one before it in
\* the chain is the one written before it.
LEMMA VerifiedEvents ==
    ASSUME AuditInv, VerifyAuditChain(chain), NEW k \in 1..Len(chain)
    PROVE  \E i \in 1..Len(written) : chain[k] = written[i]
  <1>1. PICK i \in 1..Len(written) : /\ chain[k].previousHash = written[i].previousHash
                                    /\ chain[k].eventHash = written[i].eventHash
    BY DEF AuditInv, ChainOK
  <1>2. PICK p, f : written[i] = CreateAuditEvent(p, f, written[i].previousHash)
    BY DEF AuditInv, WrittenOK
  <1>3. /\ IsEvent(written[i]) /\ written[i].payload = p
        /\ written[i].eventHash = <<<<p, f>>, written[i].previousHash>>
    BY <1>2, HashOfEvent
  <1>4. k \in DOMAIN chain
    BY DEF AuditInv, ChainOK
  <1>5. chain[k].eventHash = <<<<chain[k].payload, TRUE>>, chain[k].previousHash>>
    BY <1>4 DEF VerifyAuditChain, Recomputed, ComputeEventHash, Canonical
  <1>6. chain[k].payload = p
    BY <1>1, <1>3, <1>5
  <1>7. IsEvent(chain[k])
    BY DEF AuditInv, ChainOK
  <1>8. chain[k] = written[i]
    BY <1>1, <1>3, <1>6, <1>7 DEF IsEvent
  <1> QED BY <1>8

LEMMA VerifiedNeighbours ==
    ASSUME AuditInv, VerifyAuditChain(chain), NEW k \in 2..Len(chain),
           NEW i \in 1..Len(written), chain[k] = written[i],
           NEW j \in 1..Len(written), chain[k - 1] = written[j]
    PROVE  i = j + 1
  <1>1. PICK S : written \in Seq(S)
    BY DEF AuditInv, WrittenOK
  <1>2. k \in DOMAIN chain
    BY DEF AuditInv, ChainOK
  <1>3. written[i].previousHash = written[j].eventHash
    BY <1>2 DEF VerifyAuditChain
  <1>4. PICK p, f : written[j] = CreateAuditEvent(p, f, written[j].previousHash)
    BY DEF AuditInv, WrittenOK
  <1>5. written[j].eventHash # Genesis
    BY <1>4, HashOfEvent
  <1>6. i # 1
    BY <1>3, <1>5 DEF AuditInv, WrittenOK
  <1>7. i > 1 /\ i - 1 \in 1..Len(written)
    BY <1>1, <1>6
  <1>8. written[i - 1].eventHash = written[j].eventHash
    BY <1>3, <1>7 DEF AuditInv, WrittenOK
  <1>9. i - 1 = j
    BY <1>7, <1>8 DEF AuditInv, WrittenOK
  <1> QED BY <1>1, <1>9

LEMMA VerifiedIsStretch ==
    ASSUME AuditInv, VerifyAuditChain(chain)
    PROVE  VerifiedIsAsWritten
  <1> DEFINE n == Len(chain)
             m == Len(written)
             at == [k \in 1..n |-> CHOOSE i \in 1..m : chain[k] = written[i]]
  <1>1. n \in Nat /\ m \in Nat /\ DOMAIN chain = 1..n
    BY DEF AuditInv, ChainOK, WrittenOK
  <1>2. \A k \in 1..n : at[k] \in 1..m /\ chain[k] = written[at[k]]
    BY VerifiedEvents
  <1> HIDE DEF at
  <1>3. \A k \in 2..n : k - 1 \in 1..n /\ at[k] = at[k - 1] + 1
    <2> SUFFICES ASSUME NEW k \in 2..n PROVE k - 1 \in 1..n /\ at[k] = at[k - 1] + 1
      OBVIOUS
    <2>1. k \in 1..n /\ k - 1 \in 1..n
      BY <1>1
    <2> QED BY <1>2, <2>1, VerifiedNeighbours
  <1>4. CASE n = 0
    <2>1. 1 \in 1..(m + 1) /\ 1 + n - 1 =< m /\ DOMAIN chain = {}
      BY <1>1, <1>4
    <2> QED BY <2>1 DEF VerifiedIsAsWritten
  <1>5. CASE n > 0
    <2>1. 1 \in 1..n /\ n \in 1..n /\ at[1] \in 1..m
      BY <1>1, <1>2, <1>5
    <2>2. \A k \in 1..n : at[k] = at[1] + k - 1
      <3> DEFINE Off == {k \in 1..n : at[k] # at[1] + k - 1}
      <3> SUFFICES ASSUME Off # {} PROVE FALSE
        OBVIOUS
      <3>1. Off \in SUBSET Nat
        BY <1>1
      <3>2. PICK k \in Off : \A l \in Off : k <= l
        BY <3>1, LeastNumber
      <3>3. k \in 1..n /\ at[k] # at[1] + k - 1
        OBVIOUS
      <3>4. k # 1
        BY <2>1, <3>3
      <3>5. k \in 2..n /\ k - 1 \in 1..n
        BY <1>1, <3>3, <3>4
      <3>6. k - 1 \notin Off
        BY <1>1, <3>2, <3>3
      <3>7. at[k - 1] = at[1] + (k - 1) - 1
        BY <3>5, <3>6
      <3>8. at[k] = at[k - 1] + 1
        BY <1>3, <3>5
      <3> QED BY <2>1, <3>3, <3>7, <3>8
    <2>3. at[1] \in 1..(m + 1) /\ at[1] + n - 1 =< m
      <3>1. at[n] = at[1] + n - 1 /\ at[n] \in 1..m
        BY <1>2, <2>1, <2>2
      <3> QED BY <1>1, <2>1, <3>1
    <2>4. \A k \in 1..n : chain[k] = written[at[1] + k - 1]
      BY <1>2, <2>2
    <2> QED BY <1>1, <2>3, <2>4 DEF VerifiedIsAsWritten
  <1> QED BY <1>1, <1>4, <1>5

\* For a chain of any length and any damage of the three kinds, however often:
\* as long as it verifies, it is a stretch of what was written, unchanged and
\* in order (verifyAuditChain against createAuditEvent).
THEOREM VerifiedIsGenuine == AuditSpec => []VerifiedIsAsWritten
  <1>1. AuditInit => AuditInv
    BY DEF AuditInit, AuditInv, WrittenOK, ChainOK
  <1>2. AuditInv => VerifiedIsAsWritten
    BY VerifiedIsStretch DEF VerifiedIsAsWritten
  <1> QED BY <1>1, <1>2, AuditStep, PTL DEF AuditSpec
-----------------------------------------------------------------------------
(* Accounts *)

User == [email : Emails, pass : Passwords, must : BOOLEAN, active : BOOLEAN]

FindIn(list, e) ==
    LET found == {k \in DOMAIN list : list[k].email = e}
    IN IF found = {} THEN 0 ELSE CHOOSE k \in found : \A l \in found : k =< l

\* User k is the one that is found by address e.
FirstOfAddress(list, k, e) ==
    /\ k \in DOMAIN list /\ list[k].email = e
    /\ \A l \in DOMAIN list : list[l].email = e => k =< l

\* What an address chose is the password of the first user that has it.
ChosenOK ==
    \A e \in Emails : chosen[e] # None =>
        \E k : FirstOfAddress(users, k, e) /\ users[k].pass = chosen[e]

AccountsInv ==
    /\ users \in Seq(User)
    /\ chosen \in [Emails -> Passwords \cup {None}]
    /\ ChosenOK

\* The first user of an address is found, and what is found is the first.
LEMMA FoundIsFirst ==
    ASSUME NEW list \in Seq(User), NEW e
    PROVE  /\ \A k : FirstOfAddress(list, k, e) => FindIn(list, e) = k
           /\ FindIn(list, e) # 0 => FirstOfAddress(list, FindIn(list, e), e)
  <1> DEFINE found == {k \in DOMAIN list : list[k].email = e}
  <1>1. DOMAIN list = 1..Len(list) /\ Len(list) \in Nat
    OBVIOUS
  <1>2. found \in SUBSET Nat
    BY <1>1
  <1>3. ASSUME found # {}
        PROVE  /\ FindIn(list, e) \in found
               /\ \A l \in found : FindIn(list, e) =< l
    <2>1. \E k \in found : \A l \in found : k =< l
      BY <1>2, <1>3, LeastNumber
    <2> QED BY <2>1, <1>3 DEF FindIn
  <1>4. found = {} => FindIn(list, e) = 0
    BY DEF FindIn
  <1>5. ASSUME NEW k, FirstOfAddress(list, k, e) PROVE FindIn(list, e) = k
    <2>1. k \in found /\ \A l \in found : k =< l
      BY <1>5 DEF FirstOfAddress
    <2>2. k \in Nat /\ FindIn(list, e) \in Nat /\ FindIn(list, e) =< k /\ k =< FindIn(list, e)
      BY <1>2, <1>3, <2>1
    <2> QED BY <2>2
  <1>6. FindIn(list, e) # 0 => FirstOfAddress(list, FindIn(list, e), e)
    BY <1>3, <1>4 DEF FirstOfAddress
  <1> QED BY <1>5, <1>6

LEMMA FindIsFindIn == \A e : Find(e) = FindIn(users, e)
  BY DEF Find, FindIn

\* A new password: the addresses stay, and one address knows of it.
LEMMA PasswordSet ==
    ASSUME AccountsInv, NEW e, NEW p \in Passwords, Find(e) # 0,
           users' = SetPassword(Find(e), p), chosen' = [chosen EXCEPT ![e] = p]
    PROVE  AccountsInv'
  <1> DEFINE k == Find(e)
             new == [users[k] EXCEPT !.pass = p, !.must = FALSE]
  <1>1. FirstOfAddress(users, k, e) /\ k \in 1..Len(users) /\ users[k] \in User
    BY FindIsFindIn, FoundIsFirst DEF AccountsInv, FirstOfAddress
  <1>2. new \in User /\ new.email = e /\ new.pass = p
    BY <1>1 DEF User, FirstOfAddress
  <1>3. users' = [users EXCEPT ![k] = new]
    BY <1>1 DEF SetPassword, AccountsInv
  <1> HIDE DEF k, new
  <1>4. /\ users' \in Seq(User) /\ DOMAIN users' = DOMAIN users
        /\ users'[k] = new /\ \A l \in DOMAIN users \ {k} : users'[l] = users[l]
    BY <1>1, <1>2, <1>3 DEF AccountsInv
  <1>5. \A l \in DOMAIN users : users'[l].email = users[l].email
    BY <1>1, <1>2, <1>4 DEF FirstOfAddress
  <1>6. e \in Emails /\ chosen'[e] = p /\ \A a \in Emails \ {e} : chosen'[a] = chosen[a]
    BY <1>1 DEF AccountsInv, User, FirstOfAddress
  <1>7. ChosenOK'
    <2> SUFFICES ASSUME NEW a \in Emails, chosen'[a] # None
                 PROVE  \E l : FirstOfAddress(users', l, a) /\ users'[l].pass = chosen'[a]
      BY DEF ChosenOK
    <2>1. CASE a = e
      <3>1. FirstOfAddress(users', k, a) /\ users'[k].pass = chosen'[a]
        BY <1>1, <1>2, <1>4, <1>5, <1>6, <2>1 DEF FirstOfAddress
      <3> QED BY <3>1
    <2>2. CASE a # e
      <3>1. PICK l : FirstOfAddress(users, l, a) /\ users[l].pass = chosen[a]
        BY <1>6, <2>2 DEF AccountsInv, ChosenOK
      <3>2. l \in DOMAIN users /\ l # k
        BY <1>1, <2>2, <3>1 DEF FirstOfAddress
      <3>3. FirstOfAddress(users', l, a) /\ users'[l].pass = chosen'[a]
        BY <1>4, <1>5, <1>6, <2>2, <3>1, <3>2 DEF FirstOfAddress
      <3> QED BY <3>3
    <2> QED BY <2>1, <2>2
  <1>8. chosen' \in [Emails -> Passwords \cup {None}]
    BY DEF AccountsInv
  <1> QED BY <1>4, <1>7, <1>8 DEF AccountsInv

LEMMA CreateKeeps ==
    ASSUME AccountsInv, NEW e \in Emails, NEW form \in Forms, CreateUser(e, form)
    PROVE  AccountsInv'
  <1> DEFINE new == [email |-> e, must |-> form.must, active |-> TRUE,
                     pass |-> IF form.pass = None THEN SuperPass ELSE form.pass]
  <1>1. new \in User
    BY AccountsAssumption DEF User
  <1>2. users' = Append(users, new) /\ chosen' = chosen
    BY DEF CreateUser
  <1> HIDE DEF new
  <1>3. /\ users' \in Seq(User) /\ Len(users') = Len(users) + 1
        /\ \A l \in 1..Len(users) : users'[l] = users[l]
        /\ DOMAIN users = 1..Len(users) /\ DOMAIN users' = 1..(Len(users) + 1)
        /\ Len(users) \in Nat
    BY <1>1, <1>2 DEF AccountsInv
  <1>4. ASSUME NEW a, NEW l, FirstOfAddress(users, l, a)
        PROVE  FirstOfAddress(users', l, a) /\ users'[l] = users[l]
    BY <1>3, <1>4 DEF FirstOfAddress
  <1>5. ChosenOK'
    BY <1>2, <1>4 DEF AccountsInv, ChosenOK
  <1> QED BY <1>2, <1>3, <1>5 DEF AccountsInv

LEMMA UpdateKeeps ==
    ASSUME AccountsInv, NEW e \in Emails, NEW form \in Forms, NEW k, UpdateUser(k, e, form)
    PROVE  AccountsInv'
  <1> DEFINE new == Edited(users[k], e, form)
  <1>1. /\ k \in DOMAIN users /\ DOMAIN users = 1..Len(users) /\ users[k] \in User
        /\ users' = [users EXCEPT ![k] = new]
        /\ chosen' = IF users[k].email = e /\ form.pass = None THEN chosen
                     ELSE Forget({users[k].email, e})
    BY DEF UpdateUser, AccountsInv
  <1>2. /\ new \in User /\ new.email = e
        /\ form.pass = None => new.pass = users[k].pass
    BY <1>1, AccountsAssumption DEF Edited, User
  <1> HIDE DEF new
  <1>3. /\ users' \in Seq(User) /\ DOMAIN users' = DOMAIN users
        /\ users'[k] = new /\ \A l \in DOMAIN users \ {k} : users'[l] = users[l]
    BY <1>1, <1>2 DEF AccountsInv
  <1>4. CASE users[k].email = e /\ form.pass = None
    <2>1. \A l \in DOMAIN users : /\ users'[l].email = users[l].email
                                 /\ users'[l].pass = users[l].pass
      BY <1>2, <1>3, <1>4
    <2>2. \A l, a : FirstOfAddress(users, l, a) => FirstOfAddress(users', l, a)
      BY <1>3, <2>1 DEF FirstOfAddress
    <2>3. \A l, a : FirstOfAddress(users, l, a) => users'[l].pass = users[l].pass
      BY <2>1 DEF FirstOfAddress
    <2>4. chosen' = chosen
      BY <1>1, <1>4
    <2>5. ChosenOK'
      BY <2>2, <2>3, <2>4 DEF AccountsInv, ChosenOK
    <2> QED BY <1>3, <2>4, <2>5 DEF AccountsInv
  <1>5. CASE ~ (users[k].email = e /\ form.pass = None)
    <2>1. chosen' = Forget({users[k].email, e})
      BY <1>1, <1>5
    <2>2. /\ chosen' \in [Emails -> Passwords \cup {None}]
          /\ \A a \in Emails : chosen'[a] # None =>
                a # users[k].email /\ a # e /\ chosen'[a] = chosen[a]
      BY <2>1 DEF Forget, AccountsInv
    <2>3. ASSUME NEW a, a # users[k].email, a # e, NEW l, FirstOfAddress(users, l, a)
          PROVE  FirstOfAddress(users', l, a) /\ users'[l] = users[l]
      BY <1>2, <1>3, <2>3 DEF FirstOfAddress
    <2>4. ChosenOK'
      BY <2>2, <2>3 DEF AccountsInv, ChosenOK
    <2> QED BY <1>3, <2>2, <2>4 DEF AccountsInv
  <1> QED BY <1>4, <1>5

\* Users behind the deleted one move up, and so does the first of an address.
LEMMA DeleteKeeps ==
    ASSUME AccountsInv, NEW k, DeleteUser(k)
    PROVE  AccountsInv'
  <1> DEFINE n == Len(users)
             s == SubSeq(users, 1, k - 1)
             t == SubSeq(users, k + 1, n)
             moved(l) == IF l < k THEN l ELSE l - 1
  <1>1. /\ k \in 1..n /\ n \in Nat /\ DOMAIN users = 1..n /\ users \in Seq(User)
        /\ users' = s \o t /\ chosen' = Forget({users[k].email})
    BY DEF DeleteUser, AccountsInv
  <1>2. /\ s \in Seq(User) /\ Len(s) = k - 1
        /\ \A l \in 1..(k - 1) : s[l] = users[l]
    BY <1>1, SubSeqProperties
  <1>3. /\ t \in Seq(User) /\ Len(t) = n - k
        /\ \A l \in 1..(n - k) : t[l] = users[k + l]
    <2>1. k + 1 \in Int /\ n \in Int /\ \A l \in (k + 1)..n : users[l] \in User
      BY <1>1
    <2>2. /\ t \in Seq(User) /\ Len(t) = IF k + 1 <= n THEN n - (k + 1) + 1 ELSE 0
          /\ \A l \in 1..(n - (k + 1) + 1) : t[l] = users[(k + 1) + l - 1]
      BY <2>1, SubSeqProperties
    <2>3. k \in Int /\ k <= n
      BY <1>1
    <2> HIDE DEF t, n
    <2>4. n - (k + 1) + 1 = n - k /\ (k + 1 <= n => n - k = n - (k + 1) + 1)
      BY <2>1, <2>3
    <2>5. ~ (k + 1 <= n) => n - k = 0
      BY <2>1, <2>3
    <2>6. Len(t) = n - k
      BY <2>2, <2>4, <2>5
    <2>7. ASSUME NEW l \in 1..(n - k) PROVE t[l] = users[k + l]
      <3>1. t[l] = users[(k + 1) + l - 1]
        BY <2>2, <2>4
      <3>2. (k + 1) + l - 1 = k + l
        BY <2>3
      <3> QED BY <3>1, <3>2
    <2> QED BY <2>2, <2>6, <2>7
  <1> HIDE DEF s, t, n
  <1>4. /\ users' \in Seq(User) /\ Len(users') = n - 1
        /\ \A l \in 1..(n - 1) : users'[l] = IF l <= k - 1 THEN s[l] ELSE t[l - (k - 1)]
    <2>1. /\ s \o t \in Seq(User) /\ Len(s \o t) = Len(s) + Len(t)
          /\ \A l \in 1..(Len(s) + Len(t)) :
                (s \o t)[l] = IF l <= Len(s) THEN s[l] ELSE t[l - Len(s)]
      BY <1>2, <1>3, ConcatProperties
    <2>2. Len(s) + Len(t) = n - 1
      BY <1>1, <1>2, <1>3
    <2> QED BY <1>1, <1>2, <1>3, <2>1, <2>2
  <1>5. DOMAIN users' = 1..(n - 1)
    BY <1>4
  <1>6. \A l \in 1..(n - 1) : users'[l] = users[IF l < k THEN l ELSE l + 1]
    <2> SUFFICES ASSUME NEW l \in 1..(n - 1)
                 PROVE  users'[l] = users[IF l < k THEN l ELSE l + 1]
      OBVIOUS
    <2>1. CASE l < k
      BY <1>1, <1>2, <1>4, <2>1
    <2>2. CASE ~ (l < k)
      <3>1. l - (k - 1) \in 1..(n - k) /\ k + (l - (k - 1)) = l + 1
        BY <1>1, <2>2
      <3> QED BY <1>1, <1>3, <1>4, <2>2, <3>1
    <2> QED BY <2>1, <2>2
  <1>7. ASSUME NEW a, a # users[k].email, NEW l, FirstOfAddress(users, l, a)
        PROVE  FirstOfAddress(users', moved(l), a) /\ users'[moved(l)] = users[l]
    <2>1. /\ l \in 1..n /\ l # k /\ users[l].email = a
          /\ \A j \in 1..n : users[j].email = a => l =< j
      BY <1>1, <1>7 DEF FirstOfAddress
    <2>2. moved(l) \in 1..(n - 1) /\ (IF moved(l) < k THEN moved(l) ELSE moved(l) + 1) = l
      BY <1>1, <2>1
    <2>3. users'[moved(l)] = users[l]
      BY <1>6, <2>2
    <2>4. ASSUME NEW j \in 1..(n - 1), users'[j].email = a PROVE moved(l) =< j
      <3>1. (IF j < k THEN j ELSE j + 1) \in 1..n
        BY <1>1
      <3>2. l =< (IF j < k THEN j ELSE j + 1)
        BY <1>6, <2>1, <2>4, <3>1
      <3> QED BY <1>1, <2>1, <3>2
    <2> QED BY <1>5, <2>1, <2>2, <2>3, <2>4 DEF FirstOfAddress
  <1>8. /\ chosen' \in [Emails -> Passwords \cup {None}]
        /\ \A a \in Emails : chosen'[a] # None => a # users[k].email /\ chosen'[a] = chosen[a]
    BY <1>1 DEF Forget, AccountsInv
  <1> HIDE DEF moved
  <1>9. ChosenOK'
    BY <1>7, <1>8 DEF AccountsInv, ChosenOK
  <1> QED BY <1>4, <1>8, <1>9 DEF AccountsInv

LEMMA AccountsStep == AccountsInv /\ [AccountsNext]_accountsVars => AccountsInv'
  <1> SUFFICES ASSUME AccountsInv, [AccountsNext]_accountsVars PROVE AccountsInv'
    OBVIOUS
  <1>1. users' = users /\ chosen' = chosen => AccountsInv'
    BY DEF AccountsInv, ChosenOK
  <1>2. ASSUME NEW p \in Passwords, HandleFirstAccessChangeSubmit(p) PROVE AccountsInv'
    BY <1>2, PasswordSet DEF HandleFirstAccessChangeSubmit, ChangePassword
  <1>3. ASSUME NEW p \in Passwords, NEW c, HandleResetPasswordSubmit(c, p) PROVE AccountsInv'
    BY <1>1, <1>3, PasswordSet DEF HandleResetPasswordSubmit, ResetPassword
  <1>4. ASSUME NEW e \in Emails, NEW form \in Forms,
               CreateUser(e, form) \/ \E k \in DOMAIN users : UpdateUser(k, e, form)
        PROVE  AccountsInv'
    BY <1>4, CreateKeeps, UpdateKeeps
  <1>5. ASSUME NEW k, DeleteUser(k) PROVE AccountsInv'
    BY <1>5, DeleteKeeps
  <1>6. ASSUME NEW e, \/ HandleForgotPasswordSubmit(e) \/ OfflineLogin(e)
                      \/ \E p : HandleLoginSubmit(e, p)
        PROVE  AccountsInv'
    BY <1>1, <1>6 DEF HandleForgotPasswordSubmit, OfflineLogin, HandleLoginSubmit
  <1>7. CASE LeavePage \/ \E c : CodeExpires(c)
    BY <1>1, <1>7 DEF LeavePage, CodeExpires
  <1>8. CASE UNCHANGED accountsVars
    BY <1>1, <1>8 DEF accountsVars
  <1> QED BY <1>2, <1>3, <1>4, <1>5, <1>6, <1>7, <1>8 DEF AccountsNext

\* For any addresses, passwords and forms, however many users share an address:
\* the password that its owner set opens an active account until an
\* administrator moves it or sets another (routes of login and of passwords,
\* and the edits of the page of users).
THEOREM ChosenOpens == AccountsInit /\ [][AccountsNext]_accountsVars => []OwnPasswordWorks
  <1>1. AccountsInit => AccountsInv
    BY DEF AccountsInit, AccountsInv, ChosenOK
  <1>2. AccountsInv => OwnPasswordWorks
    <2> SUFFICES ASSUME AccountsInv, NEW e \in Emails, chosen[e] # None, users[Find(e)].active
                 PROVE  Login(e, chosen[e]) # "refused"
      BY DEF OwnPasswordWorks
    <2>1. PICK k : FirstOfAddress(users, k, e) /\ users[k].pass = chosen[e]
      BY DEF AccountsInv, ChosenOK
    <2>2. k = Find(e)
      BY <2>1, FindIsFindIn, FoundIsFirst DEF AccountsInv
    <2>3. k # 0 /\ k \in DOMAIN users
      BY <2>1 DEF AccountsInv, FirstOfAddress
    <2>4. Expected(k) = chosen[e]
      BY <2>1 DEF Expected
    <2> QED BY <2>2, <2>3, <2>4 DEF Login
  <1> QED BY <1>1, <1>2, AccountsStep, PTL

Code == [email : Emails, used : BOOLEAN, expired : BOOLEAN]

LoginPage == [step : {"login", "first_access", "reset", "in"}, email : Emails \cup {None},
              password : Passwords \cup {None}, code : Nat]

PageTyped ==
    /\ page \in LoginPage /\ (page.step \in {"first_access", "reset"} => page.email \in Emails)
    /\ codes \in Seq(Code)

LEMMA PageStep == PageTyped /\ [AccountsNext]_accountsVars => PageTyped'
  <1> SUFFICES ASSUME PageTyped, [AccountsNext]_accountsVars PROVE PageTyped'
    OBVIOUS
  <1> USE AccountsAssumption DEF PageTyped, LoginPage
  <1>1. ASSUME NEW e \in Emails, NEW p \in Passwords, HandleLoginSubmit(e, p) PROVE PageTyped'
    <2>1. Login(e, p) \in {"in", "refused", "first_access"}
      BY DEF Login
    <2> QED BY <1>1, <2>1 DEF HandleLoginSubmit
  <1>2. ASSUME NEW e \in Emails, OfflineLogin(e) PROVE PageTyped'
    BY <1>2 DEF OfflineLogin
  <1>3. ASSUME NEW e \in Emails, HandleForgotPasswordSubmit(e) PROVE PageTyped'
    <2> DEFINE new == [email |-> e, used |-> FALSE, expired |-> FALSE]
               code == IF ForgotPassword(e) = 0 THEN page.code ELSE ForgotPassword(e)
    <2>1. new \in Code
      BY DEF Code
    <2>2. Append(codes, new) \in Seq(Code) /\ Len(codes) + 1 \in Nat
      BY <2>1
    <2>3. code \in Nat
      BY <2>2 DEF ForgotPassword
    <2>4. page' = [page EXCEPT !.step = "reset", !.email = e, !.code = code]
          /\ codes' \in {codes, Append(codes, new)}
      BY <1>3 DEF HandleForgotPasswordSubmit
    <2> HIDE DEF new, code
    <2> QED BY <2>2, <2>3, <2>4
  <1>4. ASSUME NEW p \in Passwords, HandleFirstAccessChangeSubmit(p) PROVE PageTyped'
    BY <1>4 DEF HandleFirstAccessChangeSubmit
  <1>5. ASSUME NEW p \in Passwords, NEW c \in DOMAIN codes, HandleResetPasswordSubmit(c, p)
        PROVE  PageTyped'
    <2>1. codes[c] \in Code
      OBVIOUS
    <2>2. [codes[c] EXCEPT !.used = TRUE] \in Code
      BY <2>1 DEF Code
    <2>3. codes' = [codes EXCEPT ![c] = [codes[c] EXCEPT !.used = TRUE]]
      BY <1>5 DEF HandleResetPasswordSubmit, ResetPassword
    <2>4. codes' \in Seq(Code)
      BY <2>2, <2>3
    <2> QED BY <1>5, <2>4 DEF HandleResetPasswordSubmit
  <1>6. ASSUME NEW c \in DOMAIN codes, CodeExpires(c) PROVE PageTyped'
    <2>1. codes[c] \in Code
      OBVIOUS
    <2>2. [codes[c] EXCEPT !.expired = TRUE] \in Code
      BY <2>1 DEF Code
    <2>3. codes' = [codes EXCEPT ![c] = [codes[c] EXCEPT !.expired = TRUE]]
      BY <1>6 DEF CodeExpires
    <2>4. codes' \in Seq(Code)
      BY <2>2, <2>3
    <2> QED BY <1>6, <2>4 DEF CodeExpires
  <1>7. CASE LeavePage
    BY <1>7 DEF LeavePage, FirstPage
  <1>8. ASSUME UNCHANGED <<codes, page>> PROVE PageTyped'
    BY <1>8
  <1>9. CASE UNCHANGED accountsVars
    BY <1>8, <1>9 DEF accountsVars
  <1>10. ASSUME NEW e \in Emails, NEW k, NEW form \in Forms,
                CreateUser(e, form) \/ UpdateUser(k, e, form) \/ DeleteUser(k)
         PROVE  PageTyped'
    BY <1>8, <1>10 DEF CreateUser, UpdateUser, DeleteUser
  <1>11. ASSUME NEW k, DeleteUser(k) PROVE PageTyped'
    BY <1>8, <1>11 DEF DeleteUser
  <1> HIDE DEF PageTyped
  <1> QED BY <1>1, <1>2, <1>3, <1>4, <1>5, <1>6, <1>7, <1>9, <1>10, <1>11 DEF AccountsNext

LEMMA AccountsStart == AccountsInit => AccountsInv /\ PageTyped
  <1>1. AccountsInit => AccountsInv
    BY DEF AccountsInit, AccountsInv, ChosenOK
  <1>2. AccountsInit => PageTyped
    BY DEF AccountsInit, PageTyped, FirstPage, LoginPage
  <1> QED BY <1>1, <1>2

LEMMA AccountsTypes == AccountsInv /\ PageTyped => AccountsTypeOK
  <1> SUFFICES ASSUME AccountsInv, PageTyped PROVE AccountsTypeOK
    OBVIOUS
  <1>1. \A k \in DOMAIN users : users[k] \in User
    BY DEF AccountsInv
  <1>2. \A c \in DOMAIN codes : codes[c] \in Code
    BY DEF PageTyped
  <1> QED BY <1>1, <1>2 DEF AccountsInv, PageTyped, AccountsTypeOK, User, Code, LoginPage

-----------------------------------------------------------------------------
(* Heartbeats *)

\* Ticks since the ticker fired last
Since == Interval - toNext

\* With a heartbeat on its way the age is that of the interval before, too; a
\* heartbeat that was lost is one interval more.
BeatInv ==
    /\ BeatTypeOK
    /\ sent >= 0 => daemon /\ Since = sent
    /\ missed =< 1 => /\ daemon
                      /\ age =< missed * Interval + Since + (IF sent >= 0 THEN Interval ELSE 0)

LEMMA BeatStep == BeatInv /\ [BeatNext]_beatVars => BeatInv'
  <1> SUFFICES ASSUME BeatInv, [BeatNext]_beatVars PROVE BeatInv'
    OBVIOUS
  <1> USE HeartbeatAssumption DEF BeatInv, BeatTypeOK, Since, OldAge
  <1>1. CASE HandleHeartbeat
    BY <1>1 DEF HandleHeartbeat
  <1>2. CASE SendHeartbeatFails
    BY <1>2 DEF SendHeartbeatFails
  <1>3. CASE Second
    <2>1. /\ sent \in {-1, 0} /\ daemon' = daemon /\ known' = known /\ missed' = missed
          /\ age' \in 0..OldAge /\ age' =< age + 1
      BY <1>3 DEF Second
    <2>2. CASE sent = 0
      <3>1. daemon /\ toNext = Interval
        BY <2>2
      <3>2. toNext' = Interval - 1 /\ sent' = 1
        BY <1>3, <2>2, <3>1 DEF Second
      <3> QED BY <2>1, <2>2, <3>1, <3>2
    <2>3. CASE sent = -1 /\ daemon /\ toNext = 1
      <3>1. toNext' = Interval /\ sent' = 0
        BY <1>3, <2>3 DEF Second
      <3> QED BY <2>1, <2>3, <3>1
    <2>4. CASE sent = -1 /\ daemon /\ toNext # 1
      <3>1. toNext' = toNext - 1 /\ sent' = -1 /\ toNext > 1
        BY <1>3, <2>4 DEF Second
      <3> QED BY <2>1, <2>4, <3>1
    <2>5. CASE sent = -1 /\ ~ daemon
      <3>1. toNext' = Interval /\ sent' = -1
        BY <1>3, <2>5 DEF Second
      <3> QED BY <2>1, <2>5, <3>1
    <2> QED BY <2>1, <2>2, <2>3, <2>4, <2>5
  <1>4. CASE StartDaemon
    BY <1>4 DEF StartDaemon
  <1>5. CASE DaemonDies
    <2>1. daemon' \in BOOLEAN
      BY <1>5, Zenon DEF DaemonDies
    <2>2. missed' = 2 /\ sent' = -1 /\ toNext' = Interval /\ age' = age /\ known' = known
      BY <1>5 DEF DaemonDies
    <2> QED BY <2>1, <2>2
  <1>6. ASSUME NEW what \in {"revoked", "unknown"}, ForgetNode(what) PROVE BeatInv'
    BY <1>6 DEF ForgetNode
  <1>7. CASE UNCHANGED beatVars
    BY <1>7 DEF beatVars
  <1> QED BY <1>1, <1>2, <1>3, <1>4, <1>5, <1>6, <1>7 DEF BeatNext

LEMMA BeatStarts == BeatInit => BeatInv
  <1> SUFFICES ASSUME BeatInit PROVE BeatInv
    OBVIOUS
  <1>1. daemon \in BOOLEAN
    BY Zenon DEF BeatInit
  <1>2. missed = 2 /\ sent = -1 /\ toNext = Interval /\ age = 0 /\ known = "enrolled"
    BY DEF BeatInit
  <1> QED BY <1>1, <1>2, HeartbeatAssumption DEF BeatInv, BeatTypeOK, OldAge

\* For any interval of which two, and the tick the answer may take, fit into the
\* threshold of "online": one heartbeat that is lost leaves the node online
\* (30 and 90 seconds in the code, of DefaultConfig and evaluateNodeStatus).
THEOREM OneLossLeavesOnline ==
    ASSUME 2 * Interval + 1 =< OnlineFor
    PROVE  BeatInit /\ [][BeatNext]_beatVars => []OneLostBeatIsTolerated
  <1>1. BeatInit => BeatInv
    BY BeatStarts
  <1>2. BeatInv => OneLostBeatIsTolerated
    <2> SUFFICES ASSUME BeatInv, missed =< 1 PROVE age =< OnlineFor
      BY DEF OneLostBeatIsTolerated, EvaluateNodeStatus
    <2> USE HeartbeatAssumption DEF BeatInv, BeatTypeOK, Since
    <2>1. missed * Interval =< Interval
      OBVIOUS
    <2>2. Since + (IF sent >= 0 THEN Interval ELSE 0) =< Interval + 1
      OBVIOUS
    <2>3. age =< missed * Interval + Since + (IF sent >= 0 THEN Interval ELSE 0)
      OBVIOUS
    <2> QED BY <2>1, <2>2, <2>3
  <1> QED BY <1>1, <1>2, BeatStep, PTL
-----------------------------------------------------------------------------
(* Telemetry *)

\* What a reading says was said by the router at one of the moments `seen`.
Reports(seen, reading) ==
    /\ reading.cpu \in {None} \cup {s.cpu : s \in seen}
    /\ reading.mem \in {None} \cup {s.mem : s \in seen}

IsRequest(r) == DOMAIN r = {"at", "route", "left", "stats", "seen"}

TelemetryInv ==
    /\ routerKind \in RouterKinds
    /\ router \in [up : BOOLEAN, accepts : BOOLEAN, cpu : CpuLoads, mem : MemLoads]
    /\ DOMAIN reads = Readers
    /\ \A q \in Readers :
         /\ reads[q] = Idle \/ IsRequest(reads[q])
         /\ (reads[q].at = "page" /\ reads[q].route = "sync" /\ routerKind.stats # "young")
              => Reports(reads[q].seen, GetStatsPipeParser(reads[q].stats))
    /\ SyncedIsReported

Now == [cpu |-> router.cpu, mem |-> router.mem]

\* In each of the formats the parser finds what the router meant: busy ticks
\* are rounded to the percentage, and percentages never pass for ticks.
LEMMA PipeIsReported ==
    ASSUME TelemetryInv, 100 \notin CpuLoads, routerKind.stats # "young"
    PROVE  Reports({Now}, GetStatsPipeParser(GetStats))
  <1> DEFINE c == router.cpu
             m == router.mem
             pipe == GetStatsPipeParser(GetStats)
  <1>1. c \in 0..99 /\ m \in 0..100
    BY TelemetryAssumption DEF TelemetryInv
  <1>2. routerKind.stats \in {"ticks", "percent", "none"}
    BY TelemetryAssumption DEF TelemetryInv
  <1> SUFFICES pipe.cpu \in {None, c} /\ pipe.mem \in {None, m}
    BY DEF Reports, Now
  <1>3. CASE routerKind.stats = "ticks"
    <2> DEFINE p == <<100000, 100000 - 1000 * c, m>>
    <2>1. GetStats = p
      BY <1>3 DEF GetStats
    <2>2. Len(p) = 3 /\ p[1] = 100000 /\ p[2] = 100000 - 1000 * c /\ p[3] = m
      OBVIOUS
    <2> HIDE DEF p
    <2>3. AreTicks(p)
      BY <1>1, <2>2 DEF AreTicks
    <2>4. ((p[1] - p[2]) * 100 + p[1] \div 2) \div p[1] = c
      <3>1. (p[1] - p[2]) * 100 + p[1] \div 2 = 100000 * c + 50000
        BY <1>1, <2>2
      <3>2. (100000 * c + 50000) \div 100000 = c
        BY <1>1
      <3> QED BY <2>2, <3>1, <3>2
    <2>5. Percent(p[3]) = m
      BY <1>1, <2>2 DEF Percent
    <2>6. pipe = [Nothing EXCEPT !.cpu = c, !.mem = m]
      <3>1. ~ (Len(p) < 2) /\ Len(p) > 2
        BY <2>2
      <3>2. GetStatsPipeParser(p) =
              [Nothing EXCEPT !.cpu = ((p[1] - p[2]) * 100 + p[1] \div 2) \div p[1],
                              !.mem = Percent(p[3])]
        BY <2>3, <3>1, Zenon DEF GetStatsPipeParser
      <3> QED BY <2>1, <2>4, <2>5, <3>2, Zenon
    <2> QED BY <2>6 DEF Nothing
  <1>4. CASE routerKind.stats = "percent"
    <2> DEFINE p == <<c, m>>
    <2>1. GetStats = p
      BY <1>4 DEF GetStats
    <2>2. Len(p) = 2 /\ p[1] = c /\ p[2] = m
      OBVIOUS
    <2> HIDE DEF p
    <2>3. ~ AreTicks(p)
      BY <1>1, <2>2 DEF AreTicks
    <2>4. Percent(p[1]) = c /\ Percent(p[2]) = m
      BY <1>1, <2>2 DEF Percent
    <2>5. pipe = [Nothing EXCEPT !.cpu = c, !.mem = m]
      BY <2>1, <2>2, <2>3, <2>4 DEF GetStatsPipeParser
    <2> QED BY <2>5 DEF Nothing
  <1>5. CASE routerKind.stats = "none"
    <2>1. GetStats = <<>>
      BY <1>5 DEF GetStats
    <2>2. pipe = Nothing
      BY <2>1 DEF GetStatsPipeParser
    <2> QED BY <2>2 DEF Nothing
  <1> QED BY <1>2, <1>3, <1>4, <1>5

\* A figure of the outcome is one of the pipe or one of the page.
LEMMA PayloadIsReported ==
    ASSUME NEW seen, NEW stats, NEW html,
           Reports(seen, GetStatsPipeParser(stats)), Reports(seen, html)
    PROVE  Reports(seen, ParsePayload(stats, html))
  <1> DEFINE pipe == GetStatsPipeParser(stats)
             onPage == HtmlReading(html)
             base == IF pipe.cpu = 0 /\ onPage.cpu # None /\ onPage.cpu # 0 THEN onPage
                     ELSE IF pipe.cpu # None /\ pipe.mem # None THEN pipe
                     ELSE IF Matched(onPage) THEN onPage ELSE pipe
             whole == ParsePayload(stats, html)
  <1>1. onPage \in {html, Nothing}
    BY DEF HtmlReading, DashboardSemanticParser, DashboardLegacyParser
  <1>2. Reports(seen, Nothing)
    BY DEF Reports, Nothing
  <1>3. Reports(seen, onPage)
    BY <1>1, <1>2
  <1> HIDE DEF pipe, onPage
  <1>4. base \in {pipe, onPage}
    OBVIOUS
  <1>5. Reports(seen, base)
    BY <1>3, <1>4 DEF pipe
  <1>6. whole = [base EXCEPT !.disk = IF base.disk # None THEN base.disk ELSE onPage.disk]
    BY DEF ParsePayload, pipe, onPage
  <1> HIDE DEF base, whole
  <1>7. whole.cpu = base.cpu /\ whole.mem = base.mem
    BY <1>6
  <1> QED BY <1>5, <1>7 DEF Reports, whole
LEMMA ReportsMore ==
    ASSUME NEW seen, NEW more, seen \subseteq more, NEW reading, Reports(seen, reading)
    PROVE  Reports(more, reading)
  BY DEF Reports

\* Where a request goes on, what it has read goes with it.
LEMMA ReadingGoesOn ==
    ASSUME TelemetryInv, NEW q \in Readers, NEW r, IsRequest(r) \/ r = Idle,
           reads' = [reads EXCEPT ![q] = r],
           r.at = "page" /\ r.route = "sync" /\ routerKind.stats # "young"
             => Reports(r.seen, GetStatsPipeParser(r.stats)),
           routerKind' = routerKind, router' = router, record' = record
    PROVE  TelemetryInv'
  BY DEF TelemetryInv, SyncedIsReported

\* A route that stores the outcome of a sync stores what was reported.
LEMMA FinishIsReported ==
    ASSUME TelemetryInv, NEW q \in Readers, IsRequest(reads[q]),
           NEW outcome, NEW seen, Finish(q, outcome, seen),
           reads[q].route = "sync" /\ ~ outcome.error /\ routerKind.stats # "young"
             => Reports(seen, outcome.reading)
    PROVE  TelemetryInv'
  <1> DEFINE r == reads[q]
  <1>2. CASE r.route = "test" /\ r.left = 2 /\ ~ outcome.error
    <2> DEFINE new == [r EXCEPT !.at = "login", !.left = 1, !.stats = <<>>]
    <2>1. /\ reads' = [reads EXCEPT ![q] = new]
          /\ routerKind' = routerKind /\ router' = router /\ record' = record
      BY <1>2 DEF Finish, TelemetryInv
    <2>2. IsRequest(new) /\ new.at = "login"
      BY DEF IsRequest
    <2> HIDE DEF r, new
    <2> QED BY <2>1, <2>2, ReadingGoesOn
  <1>3. CASE ~ (r.route = "test" /\ r.left = 2 /\ ~ outcome.error)
    <2>1. /\ reads' = [reads EXCEPT ![q] = Idle]
          /\ routerKind' = routerKind /\ router' = router
      BY <1>3 DEF Finish
    <2>2. Idle.at # "page"
      BY DEF Idle
    <2>3. SyncedIsReported'
      <3>1. CASE r.route = "health" \/ (r.route = "test" /\ r.left = 1)
        <4>1. record' = Stores(Zeroed(outcome.reading), r.route, seen)
          BY <1>3, <3>1 DEF Finish
        <4>2. record'.from \in {"health", "test"}
          BY <3>1, <4>1 DEF Stores
        <4> QED BY <4>2 DEF SyncedIsReported
      <3>2. CASE r.route = "sync" /\ ~ outcome.error
        <4>1. record' = Stores(outcome.reading, "sync", seen)
          BY <1>3, <3>2 DEF Finish
        <4>2. /\ record'.cpu = outcome.reading.cpu /\ record'.mem = outcome.reading.mem
              /\ record'.seen = seen
          BY <4>1 DEF Stores
        <4> QED BY <2>1, <3>2, <4>2 DEF SyncedIsReported, Reports
      <3>3. CASE /\ ~ (r.route = "health" \/ (r.route = "test" /\ r.left = 1))
                 /\ ~ (r.route = "sync" /\ ~ outcome.error)
        <4>1. record' = record
          BY <1>3, <3>3 DEF Finish
        <4> QED BY <2>1, <4>1 DEF TelemetryInv, SyncedIsReported
      <3> QED BY <3>1, <3>2, <3>3
    <2> HIDE DEF r
    <2> QED BY <2>1, <2>2, <2>3 DEF TelemetryInv
  <1> QED BY <1>2, <1>3

LEMMA AskGetStatsKeeps ==
    ASSUME TelemetryInv, 100 \notin CpuLoads, NEW q \in Readers, AskGetStats(q)
    PROVE  TelemetryInv'
  <1> DEFINE said == IF Answers THEN GetStats ELSE <<>>
             seen == IF Answers THEN Seen(q) ELSE reads[q].seen
             route == reads[q].route
             new == [reads[q] EXCEPT !.at = "page", !.stats = said, !.seen = seen]
  <1>1. reads[q].at = "stats" /\ IsRequest(reads[q])
    BY DEF AskGetStats, TelemetryInv, Idle
  <1>2. /\ reads' = [reads EXCEPT ![q] = new]
        /\ routerKind' = routerKind /\ router' = router /\ record' = record
    BY DEF AskGetStats
  <1> HIDE DEF said, seen
  <1>4. IsRequest(new) /\ new.route = route /\ new.seen = seen /\ new.stats = said
    BY <1>1 DEF IsRequest
  <1>5. route = "sync" /\ routerKind.stats # "young" => Reports(seen, GetStatsPipeParser(said))
    <2> SUFFICES ASSUME route = "sync", routerKind.stats # "young"
                 PROVE  Reports(seen, GetStatsPipeParser(said))
      OBVIOUS
    <2>1. CASE Answers
      <3>1. said = GetStats /\ {Now} \subseteq seen
        BY <1>1, <2>1 DEF said, seen, Seen, Now
      <3> QED BY <3>1, PipeIsReported, ReportsMore
    <2>2. CASE ~ Answers
      <3>1. said = <<>>
        BY <2>2 DEF said
      <3>2. GetStatsPipeParser(said) = Nothing
        BY <3>1 DEF GetStatsPipeParser
      <3> QED BY <3>2 DEF Reports, Nothing
    <2> QED BY <2>1, <2>2
  <1> HIDE DEF new
  <1> QED BY <1>2, <1>4, <1>5, ReadingGoesOn

LEMMA AskDashboardKeeps ==
    ASSUME TelemetryInv, NEW q \in Readers, AskDashboard(q)
    PROVE  TelemetryInv'
  <1> DEFINE html == IF Answers THEN Dashboard ELSE Nothing
             seen == IF Answers THEN Seen(q) ELSE reads[q].seen
             reading == ParsePayload(reads[q].stats, html)
             outcome == IF reading.cpu = None /\ reading.mem = None THEN Failed("pfsense")
                                                                   ELSE Reported(reading)
  <1>1. reads[q].at = "page" /\ Finish(q, outcome, seen)
    BY DEF AskDashboard
  <1>2. IsRequest(reads[q])
    BY <1>1 DEF TelemetryInv, Idle
  <1>3. ASSUME reads[q].route = "sync", ~ outcome.error, routerKind.stats # "young"
        PROVE  Reports(seen, outcome.reading)
    <2>1. Reports(reads[q].seen, GetStatsPipeParser(reads[q].stats))
      BY <1>1, <1>3 DEF TelemetryInv
    <2>3. Reports(seen, GetStatsPipeParser(reads[q].stats))
      <3>1. reads[q].seen \subseteq seen
        BY <1>3 DEF Seen
      <3> QED BY <2>1, <3>1, ReportsMore
    <2>4. Reports(seen, html)
      <3>1. CASE Answers
        <4>1. Now \in seen /\ html = Dashboard
          BY <1>3, <3>1 DEF Seen, Now
        <4> QED BY <4>1 DEF Reports, Dashboard, Now
      <3>2. CASE ~ Answers
        BY <3>2 DEF Reports, Nothing
      <3> QED BY <3>1, <3>2
    <2>5. Reports(seen, reading)
      BY <2>3, <2>4, PayloadIsReported
    <2>6. outcome.reading = reading
      BY <1>3 DEF Failed, Reported
    <2> QED BY <2>5, <2>6
  <1> HIDE DEF outcome, seen
  <1> QED BY <1>1, <1>2, <1>3, FinishIsReported
LEMMA PrintResourceKeeps ==
    ASSUME TelemetryInv, NEW q \in Readers, PrintResource(q)
    PROVE  TelemetryInv'
  <1> DEFINE reading == [cpu |-> router.cpu, mem |-> router.mem, disk |-> 0]
  <1>1. IsRequest(reads[q]) /\ Finish(q, Reported(reading), Seen(q))
    BY DEF PrintResource, TelemetryInv, Idle
  <1>2. reads[q].route = "sync" => Now \in Seen(q)
    BY DEF Seen, Now
  <1>3. reads[q].route = "sync" => Reports(Seen(q), Reported(reading).reading)
    BY <1>2 DEF Reports, Reported, Now
  <1> HIDE DEF reading
  <1> QED BY <1>1, <1>3, FinishIsReported

LEMMA RefusedKeeps ==
    ASSUME TelemetryInv, NEW q \in Readers, Refused(q)
    PROVE  TelemetryInv'
  <1> DEFINE outcome == Failed(routerKind.vendor)
  <1>1. IsRequest(reads[q]) /\ Finish(q, outcome, reads[q].seen)
    BY DEF Refused, TelemetryInv, Idle
  <1>2. outcome.error
    BY DEF Failed
  <1> HIDE DEF outcome
  <1> QED BY <1>1, <1>2, FinishIsReported

LEMMA TelemetryStep ==
    ASSUME 100 \notin CpuLoads
    PROVE  TelemetryInv /\ [TelemetryNext]_telemetryVars => TelemetryInv'
  <1> SUFFICES ASSUME TelemetryInv, [TelemetryNext]_telemetryVars PROVE TelemetryInv'
    OBVIOUS
  <1>1. CASE RouterChanges
    <2>1. routerKind' = routerKind /\ reads' = reads /\ record' = record
      BY <1>1 DEF RouterChanges
    <2>2. router' \in [up : BOOLEAN, accepts : BOOLEAN, cpu : CpuLoads, mem : MemLoads]
      <3>1. CASE router' = [router EXCEPT !.up = ~ @]
        BY <3>1 DEF TelemetryInv
      <3>2. CASE router' = [router EXCEPT !.accepts = ~ @]
        BY <3>2 DEF TelemetryInv
      <3>3. ASSUME NEW c \in CpuLoads, NEW m \in MemLoads,
                   router' = [router EXCEPT !.cpu = c, !.mem = m]
            PROVE  router' \in [up : BOOLEAN, accepts : BOOLEAN, cpu : CpuLoads, mem : MemLoads]
        BY <3>3 DEF TelemetryInv
      <3> QED BY <1>1, <3>1, <3>2, <3>3 DEF RouterChanges
    <2> QED BY <2>1, <2>2 DEF TelemetryInv, SyncedIsReported
  <1>2. ASSUME NEW q \in Readers, NEW route, StartReading(q, route) PROVE TelemetryInv'
    <2> DEFINE r == [at |-> "login", route |-> route, left |-> IF route = "test" THEN 2 ELSE 1,
                     stats |-> <<>>, seen |-> {}]
    <2>1. /\ reads' = [reads EXCEPT ![q] = r]
          /\ routerKind' = routerKind /\ router' = router /\ record' = record
      BY <1>2 DEF StartReading
    <2>2. IsRequest(r) /\ r.at = "login"
      BY DEF IsRequest
    <2> HIDE DEF r
    <2> QED BY <2>1, <2>2, ReadingGoesOn
  <1>3. ASSUME NEW q \in Readers, RunSanitizedDiagnostic(q) PROVE TelemetryInv'
    BY <1>2, <1>3 DEF RunSanitizedDiagnostic
  <1>4. ASSUME NEW q \in Readers, Authenticate(q) \/ ApiLogin(q) PROVE TelemetryInv'
    <2>1. PICK at \in {"stats", "resource"} :
            /\ reads' = [reads EXCEPT ![q] = [reads[q] EXCEPT !.at = at]]
            /\ routerKind' = routerKind /\ router' = router /\ record' = record
      BY <1>4 DEF Authenticate, ApiLogin, TelemetryInv
    <2>2. IsRequest(reads[q])
      BY <1>4 DEF Authenticate, ApiLogin, TelemetryInv, Idle
    <2> DEFINE r == [reads[q] EXCEPT !.at = at]
    <2>3. IsRequest(r) /\ r.at = at
      BY <2>2 DEF IsRequest
    <2> HIDE DEF r
    <2>4. reads' = [reads EXCEPT ![q] = r]
      BY <2>1 DEF r
    <2> QED BY <2>1, <2>3, <2>4, ReadingGoesOn
  <1>5. ASSUME NEW q \in Readers,
               \/ AskGetStats(q) \/ AskDashboard(q)
               \/ PrintResource(q) \/ Refused(q)
        PROVE  TelemetryInv'
    BY <1>5, AskGetStatsKeeps, AskDashboardKeeps, PrintResourceKeeps, RefusedKeeps
  <1>6. CASE UNCHANGED telemetryVars
    BY <1>6 DEF telemetryVars, TelemetryInv, SyncedIsReported
  <1> QED BY <1>1, <1>2, <1>3, <1>4, <1>5, <1>6 DEF TelemetryNext

\* For any loads of a router that was idle for a moment since it started, and
\* any number of requests that overlap: what a sync stores is what the router
\* said of itself while it was asked, or that nothing was found (the drivers'
\* getSystemHealth, the parsers of pfSense and the route of the sync).
THEOREM SyncStoresWhatWasSaid ==
    ASSUME 100 \notin CpuLoads
    PROVE  TelemetryInit /\ [][TelemetryNext]_telemetryVars => []SyncedIsReported
  <1>1. TelemetryInit => TelemetryInv
    <2> SUFFICES ASSUME TelemetryInit PROVE TelemetryInv
      OBVIOUS
    <2>1. PICK c \in CpuLoads, m \in MemLoads :
            router = [up |-> TRUE, accepts |-> TRUE, cpu |-> c, mem |-> m]
      BY DEF TelemetryInit
    <2>2. router \in [up : BOOLEAN, accepts : BOOLEAN, cpu : CpuLoads, mem : MemLoads]
      BY <2>1
    <2>3. reads = [q \in Readers |-> Idle] /\ Idle.at # "page"
      BY DEF TelemetryInit, Idle
    <2>4. SyncedIsReported /\ routerKind \in RouterKinds
      BY DEF TelemetryInit, SyncedIsReported
    <2> QED BY <2>2, <2>3, <2>4 DEF TelemetryInv
  <1>2. TelemetryInv => SyncedIsReported
    BY DEF TelemetryInv
  <1> QED BY <1>1, <1>2, TelemetryStep, PTL

\* A figure is a percentage or was not found; a parser finds nothing else.
Figure == 0..100 \cup {None}

Reading == [cpu : Figure, mem : Figure, disk : Figure]

TelemetryTyped ==
    /\ routerKind \in RouterKinds
    /\ router \in [up : BOOLEAN, accepts : BOOLEAN, cpu : CpuLoads, mem : MemLoads]
    /\ DOMAIN reads = Readers
    /\ \A q \in Readers : reads[q] # Idle =>
          /\ IsRequest(reads[q]) /\ reads[q].at \in {"login", "stats", "page", "resource"}
          /\ GetStatsPipeParser(reads[q].stats) \in Reading
    /\ {record.cpu, record.mem, record.disk} \subseteq Figure
    /\ record.status = "online"

LEMMA NothingIsReading == Nothing \in Reading /\ GetStatsPipeParser(<<>>) = Nothing
  BY DEF Nothing, Reading, Figure, GetStatsPipeParser

LEMMA PercentIsFigure == \A v : Percent(v) \in Figure
  BY DEF Percent, Figure

\* Whatever the load, and in the first second too, ticks give a percentage.
LEMMA PipeIsReading ==
    ASSUME TelemetryTyped
    PROVE  GetStatsPipeParser(GetStats) \in Reading
  <1> DEFINE c == router.cpu
             p == GetStats
             share == ((p[1] - p[2]) * 100 + p[1] \div 2) \div p[1]
  <1>1. c \in 0..100
    BY TelemetryAssumption DEF TelemetryTyped
  <1>2. routerKind.stats \in {"ticks", "young", "percent", "none"}
    BY TelemetryAssumption DEF TelemetryTyped
  <1>3. AreTicks(p) /\ Len(p) >= 2 => share \in 0..100
    <2>1. CASE routerKind.stats = "ticks"
      <3>1. p[1] = 100000 /\ p[2] = 100000 - 1000 * c
        BY <2>1 DEF GetStats
      <3>2. ((1000 * c) * 100 + 50000) \div 100000 \in 0..100
        BY <1>1
      <3>3. (p[1] - p[2]) * 100 + p[1] \div 2 = (1000 * c) * 100 + 50000
        BY <1>1, <3>1
      <3> HIDE DEF p
      <3>4. share = ((1000 * c) * 100 + 50000) \div 100000
        BY <3>1, <3>3
      <3> HIDE DEF share
      <3> QED BY <3>2, <3>4
    <2>2. CASE routerKind.stats = "young"
      <3> DEFINE d == (120 * c) \div 100
      <3>1. p[1] = 120 /\ p[2] = 120 - d
        BY <2>2 DEF GetStats
      <3>2. d \in 0..120
        BY <1>1
      <3> HIDE DEF d
      <3>3. (d * 100 + 60) \div 120 \in 0..100
        BY <3>2
      <3>4. (p[1] - p[2]) * 100 + p[1] \div 2 = d * 100 + 60
        BY <3>1, <3>2
      <3> QED BY <3>1, <3>3, <3>4
    <2>3. CASE routerKind.stats = "percent"
      <3>1. p[1] = c
        BY <2>3 DEF GetStats
      <3> HIDE DEF p
      <3>2. ~ (p[1] > 100)
        BY <1>1, <3>1
      <3> QED BY <3>2 DEF AreTicks
    <2>4. CASE routerKind.stats = "none"
      <3>1. Len(p) = 0
        BY <2>4 DEF GetStats
      <3> QED BY <3>1
    <2> QED BY <1>2, <2>1, <2>2, <2>3, <2>4
  <1> HIDE DEF p, share
  <1>4. CASE Len(p) < 2
    <2>1. GetStatsPipeParser(p) = Nothing
      BY <1>4, Zenon DEF GetStatsPipeParser
    <2> QED BY <2>1, NothingIsReading DEF p
  <1>5. CASE ~ (Len(p) < 2) /\ AreTicks(p)
    <2> DEFINE m == IF Len(p) > 2 THEN Percent(p[3]) ELSE None
    <2>1. GetStatsPipeParser(p) = [Nothing EXCEPT !.cpu = share, !.mem = m]
      BY <1>5, Zenon DEF GetStatsPipeParser, share
    <2>2. Len(p) \in Nat
      BY <1>2 DEF p, GetStats
    <2>3. share \in Figure
      BY <1>3, <1>5, <2>2 DEF Figure
    <2>4. m \in Figure
      BY PercentIsFigure DEF Figure
    <2> HIDE DEF m
    <2> QED BY <2>1, <2>3, <2>4 DEF Nothing, Reading, Figure, p
  <1>6. CASE ~ (Len(p) < 2) /\ ~ AreTicks(p)
    <2>1. GetStatsPipeParser(p) = [Nothing EXCEPT !.cpu = Percent(p[1]), !.mem = Percent(p[2])]
      BY <1>6, Zenon DEF GetStatsPipeParser
    <2> QED BY <2>1, PercentIsFigure DEF Nothing, Reading, Figure, p
  <1> QED BY <1>4, <1>5, <1>6

LEMMA PayloadIsReading ==
    ASSUME TelemetryTyped, NEW stats, GetStatsPipeParser(stats) \in Reading,
           NEW html \in {Dashboard, Nothing}
    PROVE  ParsePayload(stats, html) \in Reading
  <1>1. Dashboard \in Reading
    BY TelemetryAssumption DEF Dashboard, Reading, Figure, TelemetryTyped
  <1>2. HtmlReading(html) \in Reading
    BY <1>1, NothingIsReading DEF HtmlReading, DashboardSemanticParser, DashboardLegacyParser
  <1> DEFINE pipe == GetStatsPipeParser(stats)
             found == HtmlReading(html)
             base == IF pipe.cpu = 0 /\ found.cpu # None /\ found.cpu # 0 THEN found
                     ELSE IF pipe.cpu # None /\ pipe.mem # None THEN pipe
                     ELSE IF Matched(found) THEN found ELSE pipe
             disk == IF base.disk # None THEN base.disk ELSE found.disk
  <1>3. base \in Reading
    BY <1>2
  <1>4. disk \in Figure
    BY <1>2, <1>3 DEF Reading
  <1>5. ParsePayload(stats, html) = [base EXCEPT !.disk = disk]
    BY DEF ParsePayload
  <1> HIDE DEF base, disk
  <1> QED BY <1>3, <1>4, <1>5 DEF Reading

LEMMA FinishIsTyped ==
    ASSUME TelemetryTyped, NEW q \in Readers, reads[q] # Idle,
           NEW outcome, outcome.reading \in Reading,
           NEW seen, Finish(q, outcome, seen)
    PROVE  TelemetryTyped'
  <1> DEFINE r == [reads[q] EXCEPT !.at = "login", !.left = 1, !.stats = <<>>]
  <1>1. IsRequest(reads[q]) /\ routerKind' = routerKind /\ router' = router
    BY DEF TelemetryTyped, Finish
  <1>2. CASE reads' = [reads EXCEPT ![q] = r] /\ record' = record
    <2>1. IsRequest(r) /\ r.at = "login" /\ r.stats = <<>>
      BY <1>1 DEF IsRequest
    <2> HIDE DEF r
    <2>2. GetStatsPipeParser(r.stats) \in Reading
      BY <2>1, NothingIsReading
    <2> QED BY <1>1, <1>2, <2>1, <2>2 DEF TelemetryTyped
  <1>3. Zeroed(outcome.reading) \in Reading
    BY DEF Zeroed, OrZero, Reading, Figure
  <1>5. \/ reads' = [reads EXCEPT ![q] = r] /\ record' = record
        \/ /\ reads' = [reads EXCEPT ![q] = Idle]
           /\ record' \in {record, Stores(Zeroed(outcome.reading), reads[q].route, seen),
                           Stores(outcome.reading, "sync", seen)}
    BY DEF Finish
  <1>6. ASSUME reads' = [reads EXCEPT ![q] = Idle], NEW reading \in Reading, NEW route,
               record' \in {record, Stores(reading, route, seen)}
        PROVE  TelemetryTyped'
    <2>1. {record'.cpu, record'.mem, record'.disk} \subseteq Figure /\ record'.status = "online"
      BY <1>6 DEF Stores, Reading, TelemetryTyped
    <2> QED BY <1>1, <1>6, <2>1 DEF TelemetryTyped
  <1> HIDE DEF r
  <1> QED BY <1>2, <1>3, <1>5, <1>6

LEMMA TelemetryTypes == TelemetryTyped /\ [TelemetryNext]_telemetryVars => TelemetryTyped'
  <1> SUFFICES ASSUME TelemetryTyped, [TelemetryNext]_telemetryVars PROVE TelemetryTyped'
    OBVIOUS
  <1>0. ASSUME NEW q \in Readers, NEW r, reads' = [reads EXCEPT ![q] = r],
               UNCHANGED <<routerKind, router, record>>,
               IsRequest(r), r.at \in {"login", "stats", "page", "resource"},
               GetStatsPipeParser(r.stats) \in Reading
        PROVE  TelemetryTyped'
    BY <1>0 DEF TelemetryTyped
  <1>1. CASE RouterChanges
    <2>1. UNCHANGED <<routerKind, reads, record>>
      BY <1>1 DEF RouterChanges
    <2>2. router' \in [up : BOOLEAN, accepts : BOOLEAN, cpu : CpuLoads, mem : MemLoads]
      <3>1. CASE router' = [router EXCEPT !.up = ~ @]
        BY <3>1 DEF TelemetryTyped
      <3>2. CASE router' = [router EXCEPT !.accepts = ~ @]
        BY <3>2 DEF TelemetryTyped
      <3>3. ASSUME NEW c \in CpuLoads, NEW m \in MemLoads,
                   router' = [router EXCEPT !.cpu = c, !.mem = m]
            PROVE  router' \in [up : BOOLEAN, accepts : BOOLEAN, cpu : CpuLoads, mem : MemLoads]
        BY <3>3 DEF TelemetryTyped
      <3> QED BY <1>1, <3>1, <3>2, <3>3 DEF RouterChanges
    <2> QED BY <2>1, <2>2 DEF TelemetryTyped
  <1>2. ASSUME NEW q \in Readers, NEW route, StartReading(q, route) PROVE TelemetryTyped'
    <2> DEFINE r == [at |-> "login", route |-> route, left |-> IF route = "test" THEN 2 ELSE 1,
                     stats |-> <<>>, seen |-> {}]
    <2>1. reads' = [reads EXCEPT ![q] = r] /\ UNCHANGED <<routerKind, router, record>>
      BY <1>2 DEF StartReading
    <2>2. IsRequest(r) /\ r.at = "login" /\ r.stats = <<>>
      BY DEF IsRequest
    <2> HIDE DEF r
    <2>3. GetStatsPipeParser(r.stats) \in Reading
      BY <2>2, NothingIsReading
    <2> QED BY <1>0, <2>1, <2>2, <2>3
  <1>3. ASSUME NEW q \in Readers, RunSanitizedDiagnostic(q) PROVE TelemetryTyped'
    BY <1>2, <1>3 DEF RunSanitizedDiagnostic
  <1>4. ASSUME NEW q \in Readers, Authenticate(q) \/ ApiLogin(q) PROVE TelemetryTyped'
    <2>1. PICK at \in {"stats", "resource"} :
            /\ reads' = [reads EXCEPT ![q] = [reads[q] EXCEPT !.at = at]]
            /\ UNCHANGED <<routerKind, router, record>>
      BY <1>4 DEF Authenticate, ApiLogin, TelemetryTyped
    <2>2. reads[q] # Idle
      BY <1>4 DEF Authenticate, ApiLogin, Idle
    <2> DEFINE r == [reads[q] EXCEPT !.at = at]
    <2>3. IsRequest(r) /\ r.at = at /\ r.stats = reads[q].stats
      BY <2>2 DEF IsRequest, TelemetryTyped
    <2>4. GetStatsPipeParser(reads[q].stats) \in Reading
      BY <2>2 DEF TelemetryTyped
    <2>5. reads' = [reads EXCEPT ![q] = r]
      BY <2>1
    <2> HIDE DEF r
    <2>6. GetStatsPipeParser(r.stats) \in Reading
      BY <2>3, <2>4
    <2> QED BY <1>0, <2>1, <2>3, <2>5, <2>6
  <1>5. ASSUME NEW q \in Readers, AskGetStats(q) PROVE TelemetryTyped'
    <2> DEFINE stats == IF Answers THEN GetStats ELSE <<>>
               seen == IF Answers THEN Seen(q) ELSE reads[q].seen
               r == [reads[q] EXCEPT !.at = "page", !.stats = stats, !.seen = seen]
    <2>1. GetStatsPipeParser(stats) \in Reading
      BY PipeIsReading, NothingIsReading
    <2>2. reads[q] # Idle /\ UNCHANGED <<routerKind, router, record>>
      BY <1>5 DEF AskGetStats, Idle
    <2>3. reads' = [reads EXCEPT ![q] = r]
      BY <1>5 DEF AskGetStats
    <2> HIDE DEF stats, seen
    <2>4. IsRequest(r) /\ r.at = "page" /\ r.stats = stats
      BY <2>2 DEF IsRequest, TelemetryTyped
    <2> HIDE DEF r
    <2>5. GetStatsPipeParser(r.stats) \in Reading
      BY <2>1, <2>4
    <2> QED BY <1>0, <2>2, <2>3, <2>4, <2>5
  <1>6. ASSUME NEW q \in Readers, AskDashboard(q) PROVE TelemetryTyped'
    <2> DEFINE reading == ParsePayload(reads[q].stats, IF Answers THEN Dashboard ELSE Nothing)
               outcome == IF reading.cpu = None /\ reading.mem = None THEN Failed("pfsense")
                                                                      ELSE Reported(reading)
    <2>1. reads[q] # Idle
      BY <1>6 DEF AskDashboard, Idle
    <2>2. reading \in Reading
      BY <2>1, PayloadIsReading DEF TelemetryTyped
    <2>3. \E seen : Finish(q, outcome, seen)
      BY <1>6 DEF AskDashboard
    <2> HIDE DEF reading
    <2>4. outcome.reading \in Reading
      BY <2>2, NothingIsReading DEF Failed, Reported
    <2> HIDE DEF outcome
    <2> QED BY <2>1, <2>3, <2>4, FinishIsTyped
  <1>7. ASSUME NEW q \in Readers, PrintResource(q) PROVE TelemetryTyped'
    <2> DEFINE outcome == Reported([cpu |-> router.cpu, mem |-> router.mem, disk |-> 0])
    <2>1. reads[q] # Idle /\ Finish(q, outcome, Seen(q))
      BY <1>7 DEF PrintResource, Idle
    <2>2. outcome.reading \in Reading
      BY TelemetryAssumption DEF Reported, Reading, Figure, TelemetryTyped
    <2> HIDE DEF outcome
    <2> QED BY <2>1, <2>2, FinishIsTyped
  <1>8. ASSUME NEW q \in Readers, Refused(q) PROVE TelemetryTyped'
    <2> DEFINE outcome == Failed(routerKind.vendor)
    <2>1. reads[q] # Idle /\ Finish(q, outcome, reads[q].seen)
      BY <1>8 DEF Refused, Idle
    <2>2. outcome.reading \in Reading
      BY NothingIsReading DEF Failed, Reading, Figure
    <2> HIDE DEF outcome
    <2> QED BY <2>1, <2>2, FinishIsTyped
  <1>9. CASE UNCHANGED telemetryVars
    BY <1>9 DEF telemetryVars, TelemetryTyped
  <1> QED BY <1>1, <1>2, <1>3, <1>4, <1>5, <1>6, <1>7, <1>8, <1>9 DEF TelemetryNext

LEMMA TelemetryStarts == TelemetryInit => TelemetryTyped
  <1> SUFFICES ASSUME TelemetryInit PROVE TelemetryTyped
    OBVIOUS
  <1>1. PICK c \in CpuLoads, m \in MemLoads :
          router = [up |-> TRUE, accepts |-> TRUE, cpu |-> c, mem |-> m]
    BY DEF TelemetryInit
  <1>2. router \in [up : BOOLEAN, accepts : BOOLEAN, cpu : CpuLoads, mem : MemLoads]
    BY <1>1
  <1> QED BY <1>2 DEF TelemetryInit, TelemetryTyped, Figure

LEMMA TelemetryIsTyped == TelemetryTyped => TelemetryTypeOK
  BY DEF TelemetryTyped, TelemetryTypeOK, Figure, Idle

-----------------------------------------------------------------------------
(* Backups *)

\* A set of numbers that one bounds has a greatest one.
LEMMA GreatestNumber ==
    ASSUME NEW S \in SUBSET Nat, S # {}, NEW n \in Nat, \A x \in S : x =< n
    PROVE  \E x \in S : \A y \in S : y =< x
  <1> DEFINE D == {n - x : x \in S}
  <1>1. D \in SUBSET Nat /\ D # {}
    <2>1. \A x \in S : n - x \in Nat
      OBVIOUS
    <2> QED BY <2>1
  <1>2. PICK d \in D : \A e \in D : d <= e
    BY <1>1, LeastNumber
  <1>3. PICK x \in S : d = n - x
    BY <1>2
  <1>4. ASSUME NEW y \in S PROVE y =< x
    <2>1. n - y \in D /\ y \in Nat /\ x \in Nat
      OBVIOUS
    <2>2. n - x <= n - y
      BY <1>2, <1>3, <2>1
    <2> QED BY <2>1, <2>2
  <1> QED BY <1>4

\* Artifacts have times of their own, and the valid ones are enough.
BackupInv ==
    /\ today \in Nat /\ everValid \in Nat
    /\ artifacts \subseteq [at : Nat, ok : BOOLEAN] /\ IsFiniteSet(artifacts)
    /\ \A a \in artifacts : a.at =< today
    /\ \A a, b \in artifacts : a.at = b.at => a = b
    /\ CopiesRemain

\* What is said of an artifact once the newer ones that stay are known
Stays(a, kept) ==
    \/ a.ok /\ a = Newest(ValidCopies(artifacts))
    \/ ~ TooOld(a)
    \/ a.ok /\ Spared({b \in artifacts : b.at > a.at /\ b \in kept},
                      {b \in artifacts : b.at =< a.at})

\* The visit of the list comes to an end, whatever the list.
LEMMA VisitEnds ==
    ASSUME BackupInv
    PROVE  \E kept \in SUBSET artifacts : \A a \in artifacts : a \in kept <=> Stays(a, kept)
  <1> DEFINE Good(d) == \E kept \in SUBSET artifacts :
                           \A a \in artifacts : a.at >= d => (a \in kept <=> Stays(a, kept))
  <1>0. /\ today \in Nat /\ \A a \in artifacts : a.at \in Nat /\ a.at =< today
    BY DEF BackupInv
  <1>1. Good(today + 1)
    <2>1. \A a \in artifacts : ~ (a.at >= today + 1)
      BY <1>0
    <2> QED BY <2>1
  <1>2. ASSUME NEW d \in Nat, Good(d + 1) PROVE Good(d)
    <2>1. PICK kept \in SUBSET artifacts :
            \A a \in artifacts : a.at >= d + 1 => (a \in kept <=> Stays(a, kept))
      BY <1>2
    <2> DEFINE more == {a \in artifacts : \/ a.at > d /\ a \in kept
                                          \/ a.at = d /\ Stays(a, kept)}
    <2>2. ASSUME NEW a \in artifacts, a.at >= d
          PROVE  Stays(a, more) <=> Stays(a, kept)
      <3>1. \A b \in artifacts : b.at > a.at => (b \in more <=> b \in kept)
        BY <1>0, <2>2
      <3> HIDE DEF more
      <3>2. {b \in artifacts : b.at > a.at /\ b \in more}
              = {b \in artifacts : b.at > a.at /\ b \in kept}
        BY <3>1
      <3> QED BY <3>2 DEF Stays
    <2>3. ASSUME NEW a \in artifacts, a.at >= d
          PROVE  a \in more <=> Stays(a, more)
      <3>1. CASE a.at = d
        <4>1. a \in more <=> Stays(a, kept)
          BY <1>0, <3>1
        <4> QED BY <2>2, <2>3, <4>1
      <3>2. CASE a.at > d
        <4>1. a.at >= d + 1
          BY <1>0, <3>2
        <4>2. a \in more <=> a \in kept
          BY <1>0, <3>2
        <4> QED BY <2>1, <2>2, <2>3, <4>1, <4>2
      <3> QED BY <1>0, <2>3, <3>1, <3>2
    <2>4. more \in SUBSET artifacts
      OBVIOUS
    <2> HIDE DEF more
    <2> QED BY <2>3, <2>4
  <1> HIDE DEF Good
  <1>3. Good(0)
    <2> DEFINE Bad == {n \in 0..(today + 1) : ~ Good(today + 1 - n)}
    <2> SUFFICES ASSUME ~ Good(0) PROVE FALSE
      OBVIOUS
    <2>1. today + 1 \in Bad
      <3>1. today + 1 \in 0..(today + 1) /\ today + 1 - (today + 1) = 0
        BY <1>0
      <3> QED BY <3>1
    <2>2. Bad \in SUBSET Nat /\ Bad # {}
      <3>1. 0..(today + 1) \subseteq Nat
        BY <1>0
      <3>2. Bad \subseteq 0..(today + 1)
        OBVIOUS
      <3> HIDE DEF Bad
      <3> QED BY <2>1, <3>1, <3>2
    <2>3. PICK n \in Bad : \A m \in Bad : n <= m
      BY <2>2, LeastNumber
    <2>4. n \in 0..(today + 1) /\ ~ Good(today + 1 - n)
      BY <2>3
    <2>5. n # 0
      BY <1>0, <1>1, <2>4
    <2>6. n - 1 \in 0..(today + 1) /\ ~ (n <= n - 1)
      BY <1>0, <2>4, <2>5
    <2>7. Good(today + 1 - (n - 1))
      BY <2>3, <2>6
    <2>8. today + 1 - n \in Nat /\ today + 1 - (n - 1) = (today + 1 - n) + 1
      BY <1>0, <2>4
    <2> QED BY <1>2, <2>4, <2>7, <2>8
  <1>4. \A a \in artifacts : a.at >= 0
    BY <1>0
  <1> QED BY <1>3, <1>4 DEF Good

LEMMA ProtectedStays ==
    ASSUME BackupInv
    PROVE  \E kept \in SUBSET artifacts :
              /\ GenerateCleanupPlan = artifacts \ kept
              /\ \A a \in artifacts : a \in kept <=> Stays(a, kept)
  <1> DEFINE Body(f) == [a \in artifacts |->
                \/ a.ok /\ a = Newest(ValidCopies(artifacts))
                \/ ~ TooOld(a)
                \/ a.ok /\ Spared({b \in artifacts : b.at > a.at /\ f[b]},
                                  {b \in artifacts : b.at =< a.at})]
  <1>1. PICK kept \in SUBSET artifacts : \A a \in artifacts : a \in kept <=> Stays(a, kept)
    BY VisitEnds
  <1> DEFINE f == [a \in artifacts |-> a \in kept]
  <1>2. \A a \in artifacts :
           {b \in artifacts : b.at > a.at /\ f[b]} = {b \in artifacts : b.at > a.at /\ b \in kept}
    OBVIOUS
  <1> DEFINE P(a) == \/ a.ok /\ a = Newest(ValidCopies(artifacts))
                     \/ ~ TooOld(a)
                     \/ a.ok /\ Spared({b \in artifacts : b.at > a.at /\ f[b]},
                                       {b \in artifacts : b.at =< a.at})
  <1>3. \A a \in artifacts : P(a) <=> Stays(a, kept)
    BY <1>2 DEF Stays
  <1>4. \A a \in artifacts : (a \in kept) = P(a)
    <2> SUFFICES ASSUME NEW a \in artifacts PROVE (a \in kept) = P(a)
      OBVIOUS
    <2>1. a \in kept <=> P(a)
      BY <1>1, <1>3
    <2>2. CASE P(a)
      <3>1. (a \in kept) = TRUE /\ P(a) = TRUE
        BY <2>1, <2>2, Zenon
      <3> QED BY <3>1, Zenon
    <2>3. CASE ~ P(a)
      <3>1. ~ (a \in kept)
        BY <2>1, <2>3
      <3>2. (a \in kept) = FALSE
        BY <3>1
      <3>3. P(a) = FALSE
        BY <2>3, Zenon
      <3> QED BY <3>2, <3>3, Zenon
    <2> QED BY <2>2, <2>3
  <1>5. f = Body(f)
    <2>1. Body(f) = [a \in artifacts |-> P(a)]
      OBVIOUS
    <2> HIDE DEF P, Body
    <2> QED BY <1>4, <2>1, Zenon
  <1> HIDE DEF f, P, Body
  <1>6. Protected = CHOOSE g : g = Body(g)
    BY DEF Protected, Body
  <1>7. Protected = Body(Protected)
    BY <1>5, <1>6
  <1> DEFINE all == {a \in artifacts : Protected[a]}
  <1>8. \A a \in artifacts : a \in all <=> Stays(a, all)
    <2> SUFFICES ASSUME NEW a \in artifacts PROVE Protected[a] <=> Stays(a, all)
      OBVIOUS
    <2>1. Protected[a] = Body(Protected)[a]
      BY <1>7
    <2>2. {b \in artifacts : b.at > a.at /\ b \in all}
            = {b \in artifacts : b.at > a.at /\ Protected[b]}
      OBVIOUS
    <2> HIDE DEF all
    <2> QED BY <2>1, <2>2 DEF Body, Stays
  <1>9. GenerateCleanupPlan = artifacts \ all
    BY DEF GenerateCleanupPlan
  <1>10. all \in SUBSET artifacts
    OBVIOUS
  <1> HIDE DEF all
  <1> QED BY <1>8, <1>9, <1>10

\* The valid artifacts have a newest one.
LEMMA NewestIsThere ==
    ASSUME BackupInv, ValidCopies(artifacts) # {}
    PROVE  Newest(ValidCopies(artifacts)) \in ValidCopies(artifacts)
  <1> DEFINE V == ValidCopies(artifacts)
             S == {a.at : a \in V}
  <1>1. /\ V \subseteq artifacts /\ today \in Nat
        /\ \A a \in V : a.at \in Nat /\ a.at =< today
    BY DEF BackupInv, ValidCopies
  <1>2. S \in SUBSET Nat /\ S # {} /\ \A x \in S : x =< today
    BY <1>1
  <1>3. PICK x \in S : \A y \in S : y =< x
    BY <1>1, <1>2, GreatestNumber
  <1>4. PICK a \in V : a.at = x
    BY <1>3
  <1>5. \A b \in V : b.at =< a.at
    BY <1>3, <1>4
  <1> QED BY <1>4, <1>5 DEF Newest

\* The oldest valid copy that is deleted was not needed: those protected before
\* it, and the valid ones after it, which all stay, are as many as is asked for.
LEMMA CleanUpLeavesEnough ==
    ASSUME BackupInv, NEW kept \in SUBSET artifacts,
           \A a \in artifacts : a \in kept <=> Stays(a, kept),
           ~ (ValidCopies(artifacts) \subseteq kept)
    PROVE  Cardinality(ValidCopies(kept)) >= MinValidCopies
  <1> DEFINE Lost == {a \in ValidCopies(artifacts) : a \notin kept}
             S == {a.at : a \in Lost}
  <1>0. /\ \A a \in artifacts : a.at \in Nat
        /\ \A a, b \in artifacts : a.at = b.at => a = b
        /\ IsFiniteSet(artifacts) /\ MinValidCopies \in Nat
    BY BackupsAssumption DEF BackupInv
  <1>1. S \in SUBSET Nat /\ S # {}
    BY <1>0 DEF ValidCopies
  <1>2. PICK x \in S : \A y \in S : x <= y
    BY <1>1, LeastNumber
  <1>3. PICK a \in Lost : a.at = x
    BY <1>2
  <1>4. a \in artifacts /\ a.ok /\ a \notin kept /\ a.at \in Nat
    BY <1>0, <1>3 DEF ValidCopies
  <1>5. \A b \in Lost : a.at <= b.at
    BY <1>2, <1>3
  <1> DEFINE newer == ValidCopies({b \in artifacts : b.at > a.at /\ b \in kept})
             rest == ValidCopies({b \in artifacts : b.at =< a.at})
             older == rest \ {a}
  <1>6. ~ (Cardinality(newer) + Cardinality(rest) =< MinValidCopies)
    BY <1>4 DEF Stays, Spared
  <1>7. newer \in SUBSET artifacts /\ rest \in SUBSET artifacts /\ a \in rest
        /\ kept \in SUBSET artifacts /\ ValidCopies(kept) \in SUBSET artifacts
    BY <1>4 DEF ValidCopies
  <1>8. newer \cap older = {}
    BY <1>0, <1>4 DEF ValidCopies
  <1>9. newer \cup older \subseteq ValidCopies(kept)
    <2>1. newer \subseteq ValidCopies(kept)
      BY DEF ValidCopies
    <2>2. ASSUME NEW b \in older PROVE b \in ValidCopies(kept)
      <3>1. b \in artifacts /\ b.ok /\ b.at =< a.at /\ b # a /\ b \in ValidCopies(artifacts)
        BY DEF ValidCopies
      <3>2. ~ (a.at <= b.at)
        BY <1>0, <1>4, <3>1
      <3>3. b \in kept
        BY <1>5, <3>1, <3>2
      <3> QED BY <3>1, <3>3 DEF ValidCopies
    <2> QED BY <2>1, <2>2
  <1> HIDE DEF newer, rest, Lost, S
  <1>10. IsFiniteSet(newer) /\ IsFiniteSet(rest) /\ IsFiniteSet(ValidCopies(kept))
    BY <1>0, <1>7, FS_Subset
  <1>11. /\ IsFiniteSet(older) /\ Cardinality(older) = Cardinality(rest) - 1
         /\ Cardinality(newer) \in Nat /\ Cardinality(rest) \in Nat
         /\ Cardinality(ValidCopies(kept)) \in Nat
    BY <1>7, <1>10, FS_RemoveElement, FS_CardinalityType
  <1> HIDE DEF older
  <1>12. Cardinality(newer \cup older) = Cardinality(newer) + Cardinality(older)
    <2>1. Cardinality(newer \cup older)
            = Cardinality(newer) + Cardinality(older) - Cardinality(newer \cap older)
      BY <1>10, <1>11, FS_Union
    <2>2. Cardinality(newer \cap older) = 0
      BY <1>8, FS_EmptySet
    <2> QED BY <1>11, <2>1, <2>2
  <1>13. Cardinality(newer \cup older) =< Cardinality(ValidCopies(kept))
    BY <1>9, <1>10, FS_Subset
  <1> QED BY <1>0, <1>6, <1>11, <1>12, <1>13

LEMMA CleanUpKeeps == ASSUME BackupInv, CleanUp PROVE BackupInv'
  <1>1. PICK kept \in SUBSET artifacts :
              /\ GenerateCleanupPlan = artifacts \ kept
              /\ \A a \in artifacts : a \in kept <=> Stays(a, kept)
    BY ProtectedStays
  <1>2. artifacts' = kept /\ today' = today /\ everValid' = everValid
    BY <1>1 DEF CleanUp
  <1>3. /\ artifacts \subseteq [at : Nat, ok : BOOLEAN] /\ IsFiniteSet(artifacts)
        /\ \A a \in artifacts : a.at =< today
        /\ \A a, b \in artifacts : a.at = b.at => a = b
        /\ today \in Nat /\ everValid \in Nat /\ MinValidCopies \in Nat
    BY BackupsAssumption DEF BackupInv
  <1>4. IsFiniteSet(kept)
    BY <1>3, FS_Subset
  <1> DEFINE V == ValidCopies(artifacts)
             n == Cardinality(V)
             left == ValidCopies(kept)
             m == Cardinality(left)
  <1>5. (n >= MinValidCopies \/ n = everValid) /\ (everValid > 0 => n > 0)
    BY DEF BackupInv, CopiesRemain
  <1>6. left \subseteq V /\ V \in SUBSET artifacts
    BY DEF ValidCopies
  <1>7. IsFiniteSet(V) /\ IsFiniteSet(left)
    BY <1>3, <1>6, FS_Subset
  <1>8. n \in Nat /\ m \in Nat /\ (n = 0 <=> V = {}) /\ (m = 0 <=> left = {})
    BY <1>7, FS_CardinalityType, FS_EmptySet
  <1>9. n > 0 => m > 0
    <2> SUFFICES ASSUME n > 0 PROVE left # {}
      BY <1>8
    <2>1. V # {}
      BY <1>8
    <2>2. Newest(V) \in V
      BY <2>1, NewestIsThere
    <2>3. Newest(V) \in artifacts /\ Newest(V).ok
      BY <2>2 DEF ValidCopies
    <2>4. Newest(V) \in kept
      BY <1>1, <2>3 DEF Stays
    <2> QED BY <2>3, <2>4 DEF ValidCopies
  <1>10. CASE V \subseteq kept
    <2>1. left = V
      BY <1>6, <1>10 DEF ValidCopies
    <2> QED BY <1>2, <1>3, <1>4, <1>5, <2>1 DEF BackupInv, CopiesRemain
  <1>11. CASE ~ (V \subseteq kept)
    <2>1. m >= MinValidCopies
      BY <1>1, <1>11, CleanUpLeavesEnough
    <2>2. everValid > 0 => m > 0
      BY <1>5, <1>9
    <2>3. CopiesRemain'
      BY <1>2, <2>1, <2>2 DEF CopiesRemain
    <2> QED BY <1>2, <1>3, <1>4, <2>3 DEF BackupInv
  <1> QED BY <1>10, <1>11

LEMMA TakeBackupKeeps == ASSUME BackupInv, NEW ok \in BOOLEAN, TakeBackup(ok) PROVE BackupInv'
  <1> DEFINE new == [at |-> today, ok |-> ok]
             V == ValidCopies(artifacts)
             n == Cardinality(V)
  <1>1. /\ \A a \in artifacts : a.at # today
        /\ artifacts' = artifacts \cup {new} /\ today' = today
        /\ everValid' = IF ok THEN everValid + 1 ELSE everValid
    BY DEF TakeBackup
  <1>2. /\ artifacts \subseteq [at : Nat, ok : BOOLEAN] /\ IsFiniteSet(artifacts)
        /\ \A a \in artifacts : a.at =< today
        /\ \A a, b \in artifacts : a.at = b.at => a = b
        /\ today \in Nat /\ everValid \in Nat /\ MinValidCopies \in Nat
        /\ (n >= MinValidCopies \/ n = everValid) /\ (everValid > 0 => n > 0)
    BY BackupsAssumption DEF BackupInv, CopiesRemain
  <1>3. new \in [at : Nat, ok : BOOLEAN] /\ new.at = today /\ (new.ok <=> ok)
    BY <1>2
  <1> HIDE DEF new
  <1>4. IsFiniteSet(artifacts')
    BY <1>1, <1>2, FS_AddElement
  <1>5. /\ artifacts' \subseteq [at : Nat, ok : BOOLEAN]
        /\ \A a \in artifacts' : a.at =< today'
        /\ \A a, b \in artifacts' : a.at = b.at => a = b
    BY <1>1, <1>2, <1>3
  <1>6. everValid' \in Nat
    BY <1>1, <1>2
  <1>7. V \in SUBSET artifacts /\ new \notin V
    BY <1>1, <1>3 DEF ValidCopies
  <1>8. IsFiniteSet(V)
    BY <1>2, <1>7, FS_Subset
  <1>9. n \in Nat
    BY <1>8, FS_CardinalityType
  <1>10. CopiesRemain'
    <2>1. CASE ok
      <3>1. ValidCopies(artifacts)' = V \cup {new}
        BY <1>1, <1>3, <2>1 DEF ValidCopies
      <3>2. Cardinality(V \cup {new}) = n + 1
        BY <1>7, <1>8, FS_AddElement
      <3>3. everValid' = everValid + 1
        BY <1>1, <2>1
      <3>4. Cardinality(ValidCopies(artifacts)') = n + 1
        BY <3>1, <3>2
      <3> HIDE DEF n, V
      <3>5. (n + 1 >= MinValidCopies \/ n + 1 = everValid') /\ n + 1 > 0
        BY <1>2, <1>9, <3>3
      <3> QED BY <3>4, <3>5 DEF CopiesRemain
    <2>2. CASE ~ ok
      <3>1. ValidCopies(artifacts)' = V
        BY <1>1, <1>3, <2>2 DEF ValidCopies
      <3> HIDE DEF n
      <3> QED BY <1>1, <1>2, <2>2, <3>1 DEF CopiesRemain, n
    <2> QED BY <2>1, <2>2
  <1> QED BY <1>1, <1>2, <1>4, <1>5, <1>6, <1>10 DEF BackupInv

\* For any retention and any number of copies asked for: however often plans are
\* carried out, whatever failed in between, as many valid copies remain as are
\* asked for, or all there ever were, and one at least (generateCleanupPlan).
THEOREM CopiesAreLeft == BackupInit /\ [][BackupNext]_backupVars => []CopiesRemain
  <1>1. BackupInit => BackupInv
    <2> SUFFICES ASSUME BackupInit PROVE BackupInv
      OBVIOUS
    <2>1. today = 0 /\ artifacts = {} /\ everValid = 0
      BY DEF BackupInit
    <2>2. ValidCopies(artifacts) = {}
      BY <2>1 DEF ValidCopies
    <2> QED BY <2>1, <2>2, FS_EmptySet DEF BackupInv, CopiesRemain
  <1>2. BackupInv /\ [BackupNext]_backupVars => BackupInv'
    <2> SUFFICES ASSUME BackupInv, [BackupNext]_backupVars PROVE BackupInv'
      OBVIOUS
    <2>1. CASE NextDay
      BY <2>1 DEF BackupInv, NextDay, CopiesRemain, ValidCopies
    <2>2. CASE UNCHANGED backupVars
      BY <2>2 DEF BackupInv, backupVars, CopiesRemain, ValidCopies
    <2> QED BY <2>1, <2>2, CleanUpKeeps, TakeBackupKeeps DEF BackupNext
  <1>3. BackupInv => CopiesRemain
    BY DEF BackupInv
  <1> QED BY <1>1, <1>2, <1>3, PTL
-----------------------------------------------------------------------------
(* Sums. SumFunctionOnSet takes the members of a set in the order CHOOSE does,
   so it takes an argument that the sum does not depend on it.               *)

\* A property that the subsets of a finite set inherit from the smaller ones
\* holds of all of them.
LEMMA SmallerFirst ==
    ASSUME NEW D, IsFiniteSet(D), NEW F,
           \A S \in SUBSET D :
              (\A T \in SUBSET D : Cardinality(T) < Cardinality(S) => T \in F) => S \in F
    PROVE  SUBSET D \subseteq F
  <1> DEFINE Sizes == {Cardinality(S) : S \in (SUBSET D) \ F}
  <1> SUFFICES ASSUME ~ (SUBSET D \subseteq F) PROVE FALSE
    OBVIOUS
  <1>1. \A S \in SUBSET D : Cardinality(S) \in Nat
    BY FS_Subset, FS_CardinalityType
  <1>2. Sizes \in SUBSET Nat /\ Sizes # {}
    BY <1>1
  <1>3. PICK n \in Sizes : \A m \in Sizes : n <= m
    BY <1>2, LeastNumber
  <1>4. PICK S \in SUBSET D : S \notin F /\ n = Cardinality(S)
    BY <1>3
  <1>5. ASSUME NEW T \in SUBSET D, Cardinality(T) < Cardinality(S) PROVE T \in F
    <2>1. ~ (n <= Cardinality(T))
      BY <1>1, <1>4, <1>5
    <2> QED BY <1>3, <2>1
  <1> QED BY <1>4, <1>5

Pick(s) == CHOOSE x \in s : TRUE

\* A table of the sums of f over the subsets of S
IsTable(g, f, S) ==
    g = [s \in SUBSET S |-> IF s = {} THEN 0 ELSE f[Pick(s)] + g[s \ {Pick(s)}]]

LEMMA PickIsIn == ASSUME NEW s, s # {} PROVE Pick(s) \in s
  BY DEF Pick

LEMMA SmallerWithout ==
    ASSUME NEW D, IsFiniteSet(D), NEW S \in SUBSET D, NEW x \in S
    PROVE  S \ {x} \in SUBSET D /\ Cardinality(S \ {x}) < Cardinality(S)
  <1>1. IsFiniteSet(S)
    BY FS_Subset
  <1>2. Cardinality(S \ {x}) = Cardinality(S) - 1 /\ Cardinality(S) \in Nat
    BY <1>1, FS_RemoveElement, FS_CardinalityType
  <1> QED BY <1>2

LEMMA TableExists ==
    ASSUME NEW S, IsFiniteSet(S), NEW f
    PROVE  \E g : IsTable(g, f, S)
  <1> DEFINE n == Cardinality(S)
             Upto(g, k) == \A s \in SUBSET S : Cardinality(s) =< k =>
                              g[s] = IF s = {} THEN 0 ELSE f[Pick(s)] + g[s \ {Pick(s)}]
             G == {k \in Nat : \E g : Upto(g, k)}
  <1>0. n \in Nat /\ \A s \in SUBSET S : Cardinality(s) \in Nat /\ Cardinality(s) =< n
    BY FS_Subset, FS_CardinalityType
  <1>1. 0 \in G
    <2> DEFINE g == [s \in SUBSET S |-> 0]
    <2>1. \A s \in SUBSET S : Cardinality(s) =< 0 => s = {}
      BY <1>0, FS_Subset, FS_EmptySet
    <2>2. Upto(g, 0)
      BY <2>1
    <2> HIDE DEF Upto
    <2> QED BY <2>2
  <1>2. ASSUME NEW k \in G PROVE k + 1 \in G
    <2>1. k \in Nat
      OBVIOUS
    <2>2. PICK g : Upto(g, k)
      OBVIOUS
    <2> DEFINE h == [s \in SUBSET S |-> IF Cardinality(s) =< k THEN g[s]
                                        ELSE f[Pick(s)] + g[s \ {Pick(s)}]]
    <2>3. ASSUME NEW s \in SUBSET S, Cardinality(s) =< k + 1
          PROVE  h[s] = IF s = {} THEN 0 ELSE f[Pick(s)] + h[s \ {Pick(s)}]
      <3>1. CASE s = {}
        <4>1. Cardinality(s) =< k
          BY <2>1, <3>1, FS_EmptySet
        <4> QED BY <2>2, <3>1, <4>1
      <3>2. CASE s # {}
        <4> DEFINE t == s \ {Pick(s)}
        <4>1. Pick(s) \in s
          BY <3>2, PickIsIn
        <4>2. t \in SUBSET S /\ Cardinality(t) < Cardinality(s)
          BY <4>1, SmallerWithout
        <4>3. Cardinality(t) =< k
          BY <1>0, <2>1, <2>3, <4>2
        <4>4. h[t] = g[t]
          BY <4>2, <4>3
        <4>5. h[s] = f[Pick(s)] + g[t]
          BY <2>2, <3>2
        <4> QED BY <3>2, <4>4, <4>5
      <3> QED BY <3>1, <3>2
    <2> HIDE DEF h
    <2>4. Upto(h, k + 1)
      BY <2>3
    <2> HIDE DEF Upto
    <2> QED BY <2>1, <2>4
  <1>3. n \in G
    <2> DEFINE Bad == Nat \ G
    <2> SUFFICES ASSUME n \notin G PROVE FALSE
      OBVIOUS
    <2>1. n \in Bad
      BY <1>0
    <2>2. PICK k \in Bad : \A m \in Bad : k <= m
      BY <2>1, LeastNumber
    <2> HIDE DEF G
    <2>3. k \in Nat /\ k \notin G /\ k # 0
      BY <1>1, <2>2
    <2>4. k - 1 \in Nat /\ ~ (k <= k - 1) /\ (k - 1) + 1 = k
      BY <2>3
    <2>5. k - 1 \in G
      BY <2>2, <2>4
    <2> QED BY <1>2, <2>3, <2>4, <2>5
  <1>4. PICK g : Upto(g, n)
    BY <1>3
  <1> DEFINE table == [s \in SUBSET S |-> g[s]]
  <1>5. \A s \in SUBSET S :
           table[s] = IF s = {} THEN 0 ELSE f[Pick(s)] + table[s \ {Pick(s)}]
    BY <1>0, <1>4
  <1>6. IsTable(table, f, S)
    BY <1>5 DEF IsTable
  <1> QED BY <1>6

LEMMA SumIsATable ==
    ASSUME NEW S, IsFiniteSet(S), NEW f
    PROVE  \E g : IsTable(g, f, S) /\ SumFunctionOnSet(f, S) = g[S]
  <1> DEFINE g == CHOOSE h : h = [s \in SUBSET S |->
                      IF s = {} THEN 0 ELSE f[Pick(s)] + h[s \ {Pick(s)}]]
  <1>1. SumFunctionOnSet(f, S) = g[S]
    BY DEF SumFunctionOnSet, FoldFunctionOnSet, MapThenFoldSet, Pick
  <1>2. \E h : IsTable(h, f, S)
    BY TableExists
  <1>3. IsTable(g, f, S)
    BY <1>2 DEF IsTable
  <1> HIDE DEF g
  <1> QED BY <1>1, <1>3

LEMMA TablesAgree ==
    ASSUME NEW S, IsFiniteSet(S), NEW T \in SUBSET S, NEW f, NEW g, NEW h,
           IsTable(g, f, S), IsTable(h, f, T)
    PROVE  g[T] = h[T]
  <1> DEFINE F == {s \in SUBSET T : g[s] = h[s]}
  <1>1. IsFiniteSet(T)
    BY FS_Subset
  <1>2. ASSUME NEW s \in SUBSET T,
               \A t \in SUBSET T : Cardinality(t) < Cardinality(s) => t \in F
        PROVE  s \in F
    <2>1. /\ g[s] = IF s = {} THEN 0 ELSE f[Pick(s)] + g[s \ {Pick(s)}]
          /\ h[s] = IF s = {} THEN 0 ELSE f[Pick(s)] + h[s \ {Pick(s)}]
      BY DEF IsTable
    <2>2. CASE s = {}
      BY <2>1, <2>2
    <2>3. CASE s # {}
      <3> DEFINE t == s \ {Pick(s)}
      <3>1. Pick(s) \in s
        BY <2>3, PickIsIn
      <3>2. t \in SUBSET T /\ Cardinality(t) < Cardinality(s)
        BY <1>1, <3>1, SmallerWithout
      <3>3. g[t] = h[t]
        BY <1>2, <3>2
      <3> QED BY <2>1, <2>3, <3>3
    <2> QED BY <2>2, <2>3
  <1> HIDE DEF F
  <1>3. SUBSET T \subseteq F
    BY <1>1, <1>2, SmallerFirst
  <1> QED BY <1>3 DEF F

\* The sum of nothing, and one member at a time
LEMMA SumByPick ==
    ASSUME NEW S, IsFiniteSet(S), NEW f
    PROVE  /\ S = {} => SumFunctionOnSet(f, S) = 0
           /\ S # {} => SumFunctionOnSet(f, S)
                           = f[Pick(S)] + SumFunctionOnSet(f, S \ {Pick(S)})
  <1>1. PICK g : IsTable(g, f, S) /\ SumFunctionOnSet(f, S) = g[S]
    BY SumIsATable
  <1>2. g[S] = IF S = {} THEN 0 ELSE f[Pick(S)] + g[S \ {Pick(S)}]
    BY <1>1 DEF IsTable
  <1> DEFINE T == S \ {Pick(S)}
  <1>3. IsFiniteSet(T) /\ T \in SUBSET S
    BY FS_Subset
  <1> HIDE DEF T
  <1>4. PICK h : IsTable(h, f, T) /\ SumFunctionOnSet(f, T) = h[T]
    BY <1>3, SumIsATable
  <1>5. g[T] = h[T]
    BY <1>1, <1>3, <1>4, TablesAgree
  <1> QED BY <1>1, <1>2, <1>4, <1>5 DEF T

LEMMA SumIsNatural ==
    ASSUME NEW D, IsFiniteSet(D), NEW f, \A x \in D : f[x] \in Nat
    PROVE  \A S \in SUBSET D : SumFunctionOnSet(f, S) \in Nat
  <1> DEFINE F == {S \in SUBSET D : SumFunctionOnSet(f, S) \in Nat}
  <1>1. ASSUME NEW S \in SUBSET D,
               \A T \in SUBSET D : Cardinality(T) < Cardinality(S) => T \in F
        PROVE  S \in F
    <2>1. IsFiniteSet(S)
      BY FS_Subset
    <2>2. CASE S = {}
      BY <2>1, <2>2, SumByPick
    <2>3. CASE S # {}
      <3> DEFINE T == S \ {Pick(S)}
      <3>1. Pick(S) \in S
        BY <2>3, PickIsIn
      <3>2. T \in SUBSET D /\ Cardinality(T) < Cardinality(S)
        BY <3>1, SmallerWithout
      <3>3. SumFunctionOnSet(f, T) \in Nat /\ f[Pick(S)] \in Nat
        BY <1>1, <3>1, <3>2
      <3>4. SumFunctionOnSet(f, S) = f[Pick(S)] + SumFunctionOnSet(f, T)
        BY <2>1, <2>3, SumByPick
      <3> QED BY <3>3, <3>4
    <2> QED BY <2>2, <2>3
  <1> HIDE DEF F
  <1>2. SUBSET D \subseteq F
    BY <1>1, SmallerFirst
  <1> QED BY <1>2 DEF F

\* Any member may be the one that is taken first.
LEMMA SumWithout ==
    ASSUME NEW D, IsFiniteSet(D), NEW f, \A x \in D : f[x] \in Nat
    PROVE  \A S \in SUBSET D : \A x \in S :
              SumFunctionOnSet(f, S) = f[x] + SumFunctionOnSet(f, S \ {x})
  <1> DEFINE F == {S \in SUBSET D : \A x \in S :
                      SumFunctionOnSet(f, S) = f[x] + SumFunctionOnSet(f, S \ {x})}
  <1>1. ASSUME NEW S \in SUBSET D,
               \A T \in SUBSET D : Cardinality(T) < Cardinality(S) => T \in F
        PROVE  S \in F
    <2> SUFFICES ASSUME NEW x \in S
                 PROVE  SumFunctionOnSet(f, S) = f[x] + SumFunctionOnSet(f, S \ {x})
      OBVIOUS
    <2> DEFINE p == Pick(S)
               T == S \ {p}
               U == S \ {x}
               R == T \ {x}
    <2>1. IsFiniteSet(S) /\ p \in S
      BY FS_Subset, PickIsIn
    <2>2. SumFunctionOnSet(f, S) = f[p] + SumFunctionOnSet(f, T)
      BY <2>1, SumByPick
    <2>3. CASE p = x
      BY <2>2, <2>3
    <2>4. CASE p # x
      <3>1. /\ T \in SUBSET D /\ Cardinality(T) < Cardinality(S)
            /\ U \in SUBSET D /\ Cardinality(U) < Cardinality(S)
        BY <2>1, SmallerWithout
      <3>2. x \in T /\ p \in U /\ U \ {p} = R /\ R \in SUBSET D
        BY <2>1, <2>4
      <3>3. SumFunctionOnSet(f, T) = f[x] + SumFunctionOnSet(f, R)
        BY <1>1, <3>1, <3>2
      <3>4. SumFunctionOnSet(f, U) = f[p] + SumFunctionOnSet(f, R)
        BY <1>1, <3>1, <3>2
      <3>5. SumFunctionOnSet(f, R) \in Nat /\ f[p] \in Nat /\ f[x] \in Nat
        BY <2>1, <3>2, SumIsNatural
      <3> HIDE DEF R, T, U, p
      <3>6. f[p] + (f[x] + SumFunctionOnSet(f, R)) = f[x] + (f[p] + SumFunctionOnSet(f, R))
        BY <3>5
      <3> QED BY <2>2, <3>3, <3>4, <3>6 DEF U
    <2> QED BY <2>3, <2>4
  <1> HIDE DEF F
  <1>2. SUBSET D \subseteq F
    BY <1>1, SmallerFirst
  <1> QED BY <1>2 DEF F

\* What two sets without a common member add up to
LEMMA SumOfUnion ==
    ASSUME NEW D, IsFiniteSet(D), NEW f, \A x \in D : f[x] \in Nat, NEW A \in SUBSET D
    PROVE  \A B \in SUBSET D : A \cap B = {} =>
              SumFunctionOnSet(f, A \cup B) = SumFunctionOnSet(f, A) + SumFunctionOnSet(f, B)
  <1> DEFINE F == {B \in SUBSET D : A \cap B = {} =>
                SumFunctionOnSet(f, A \cup B) = SumFunctionOnSet(f, A) + SumFunctionOnSet(f, B)}
  <1>0. \A S \in SUBSET D : SumFunctionOnSet(f, S) \in Nat
    BY SumIsNatural
  <1>1. ASSUME NEW B \in SUBSET D,
               \A T \in SUBSET D : Cardinality(T) < Cardinality(B) => T \in F
        PROVE  B \in F
    <2> SUFFICES ASSUME A \cap B = {}
                 PROVE  SumFunctionOnSet(f, A \cup B)
                           = SumFunctionOnSet(f, A) + SumFunctionOnSet(f, B)
      OBVIOUS
    <2>1. CASE B = {}
      <3>1. A \cup B = A /\ SumFunctionOnSet(f, B) = 0
        BY <2>1, FS_EmptySet, SumByPick
      <3> QED BY <1>0, <3>1
    <2>2. CASE B # {}
      <3>1. PICK x : x \in B
        BY <2>2
      <3> DEFINE T == B \ {x}
      <3>2. T \in SUBSET D /\ Cardinality(T) < Cardinality(B)
        BY <3>1, SmallerWithout
      <3>3. A \cap T = {} /\ (A \cup B) \ {x} = A \cup T /\ x \in A \cup B /\ A \cup B \in SUBSET D
        BY <3>1
      <3>4. SumFunctionOnSet(f, A \cup T) = SumFunctionOnSet(f, A) + SumFunctionOnSet(f, T)
        BY <1>1, <3>2, <3>3
      <3>5. SumFunctionOnSet(f, A \cup B) = f[x] + SumFunctionOnSet(f, A \cup T)
        BY <3>3, SumWithout
      <3>6. SumFunctionOnSet(f, B) = f[x] + SumFunctionOnSet(f, T)
        BY <3>1, SumWithout
      <3>7. SumFunctionOnSet(f, A) \in Nat /\ SumFunctionOnSet(f, T) \in Nat /\ f[x] \in Nat
        BY <1>0, <3>1, <3>2
      <3> HIDE DEF T
      <3> QED BY <3>4, <3>5, <3>6, <3>7
    <2> QED BY <2>1, <2>2
  <1> HIDE DEF F
  <1>2. SUBSET D \subseteq F
    BY <1>1, SmallerFirst
  <1> QED BY <1>2 DEF F

LEMMA SumOfPart ==
    ASSUME NEW D, IsFiniteSet(D), NEW f, \A x \in D : f[x] \in Nat,
           NEW B \in SUBSET D, NEW A \in SUBSET B
    PROVE  SumFunctionOnSet(f, A) =< SumFunctionOnSet(f, B)
  <1>1. /\ A \in SUBSET D /\ B \ A \in SUBSET D /\ A \cap (B \ A) = {} /\ A \cup (B \ A) = B
    OBVIOUS
  <1>2. SumFunctionOnSet(f, B) = SumFunctionOnSet(f, A) + SumFunctionOnSet(f, B \ A)
    BY <1>1, SumOfUnion
  <1>3. SumFunctionOnSet(f, A) \in Nat /\ SumFunctionOnSet(f, B \ A) \in Nat
    BY <1>1, SumIsNatural
  <1> QED BY <1>2, <1>3

LEMMA SumOfUnionAtMost ==
    ASSUME NEW D, IsFiniteSet(D), NEW f, \A x \in D : f[x] \in Nat,
           NEW A \in SUBSET D, NEW B \in SUBSET D
    PROVE  SumFunctionOnSet(f, A \cup B) =< SumFunctionOnSet(f, A) + SumFunctionOnSet(f, B)
  <1> DEFINE C == B \ A
  <1>1. C \in SUBSET D /\ C \in SUBSET B /\ A \cap C = {} /\ A \cup C = A \cup B
    OBVIOUS
  <1> HIDE DEF C
  <1>2. SumFunctionOnSet(f, A \cup B) = SumFunctionOnSet(f, A) + SumFunctionOnSet(f, C)
    BY <1>1, SumOfUnion
  <1>3. SumFunctionOnSet(f, C) =< SumFunctionOnSet(f, B)
    BY <1>1, SumOfPart
  <1>4. /\ SumFunctionOnSet(f, A) \in Nat /\ SumFunctionOnSet(f, B) \in Nat
        /\ SumFunctionOnSet(f, C) \in Nat
    BY <1>1, SumIsNatural
  <1> QED BY <1>2, <1>3, <1>4

LEMMA SumOfTwo ==
    ASSUME NEW D, IsFiniteSet(D), NEW f, NEW g, NEW h,
           \A x \in D : f[x] \in Nat /\ g[x] \in Nat /\ h[x] = f[x] + g[x]
    PROVE  \A S \in SUBSET D :
              SumFunctionOnSet(h, S) = SumFunctionOnSet(f, S) + SumFunctionOnSet(g, S)
  <1> DEFINE F == {S \in SUBSET D :
                SumFunctionOnSet(h, S) = SumFunctionOnSet(f, S) + SumFunctionOnSet(g, S)}
  <1>1. ASSUME NEW S \in SUBSET D,
               \A T \in SUBSET D : Cardinality(T) < Cardinality(S) => T \in F
        PROVE  S \in F
    <2>1. IsFiniteSet(S)
      BY FS_Subset
    <2>2. CASE S = {}
      <3>1. /\ SumFunctionOnSet(h, S) = 0 /\ SumFunctionOnSet(f, S) = 0
            /\ SumFunctionOnSet(g, S) = 0
        BY <2>1, <2>2, SumByPick
      <3> QED BY <3>1
    <2>3. CASE S # {}
      <3> DEFINE p == Pick(S)
                 T == S \ {p}
      <3>1. p \in S
        BY <2>3, PickIsIn
      <3>2. T \in SUBSET D /\ Cardinality(T) < Cardinality(S)
        BY <3>1, SmallerWithout
      <3>3. SumFunctionOnSet(h, T) = SumFunctionOnSet(f, T) + SumFunctionOnSet(g, T)
        BY <1>1, <3>2
      <3>4. /\ SumFunctionOnSet(h, S) = h[p] + SumFunctionOnSet(h, T)
            /\ SumFunctionOnSet(f, S) = f[p] + SumFunctionOnSet(f, T)
            /\ SumFunctionOnSet(g, S) = g[p] + SumFunctionOnSet(g, T)
        BY <2>1, <2>3, SumByPick
      <3>5. SumFunctionOnSet(f, T) \in Nat /\ SumFunctionOnSet(g, T) \in Nat
        BY <3>2, SumIsNatural
      <3>6. f[p] \in Nat /\ g[p] \in Nat /\ h[p] = f[p] + g[p]
        BY <3>1
      <3> HIDE DEF p, T
      <3>7. SumFunctionOnSet(h, S) = SumFunctionOnSet(f, S) + SumFunctionOnSet(g, S)
        BY <3>3, <3>4, <3>5, <3>6
      <3> QED BY <3>7
    <2> QED BY <2>2, <2>3
  <1> HIDE DEF F
  <1>2. SUBSET D \subseteq F
    BY <1>1, SmallerFirst
  <1> QED BY <1>2 DEF F

\* Parts that may overlap weigh as much as what they cover, or more.
LEMMA CoverWeighsMore ==
    ASSUME NEW D, IsFiniteSet(D), NEW w, \A x \in D : w[x] \in Nat,
           NEW I, IsFiniteSet(I), NEW o, \A n \in I : o[n] \in SUBSET D,
           NEW X \in SUBSET D, \A x \in X : \E n \in I : x \in o[n],
           NEW v, \A n \in I : v[n] = SumFunctionOnSet(w, o[n] \cap X)
    PROVE  SumFunctionOnSet(w, X) =< SumFunctionOnSet(v, I)
  <1> DEFINE Of(N) == {x \in X : \E n \in N : x \in o[n]}
             F == {N \in SUBSET I : SumFunctionOnSet(w, Of(N)) =< SumFunctionOnSet(v, N)}
  <1>0. /\ \A S \in SUBSET D : SumFunctionOnSet(w, S) \in Nat
        /\ \A n \in I : v[n] \in Nat /\ o[n] \cap X \in SUBSET D
        /\ \A N \in SUBSET I : SumFunctionOnSet(v, N) \in Nat
    <2>1. \A S \in SUBSET D : SumFunctionOnSet(w, S) \in Nat
      BY SumIsNatural
    <2>2. \A n \in I : v[n] \in Nat /\ o[n] \cap X \in SUBSET D
      BY <2>1
    <2> QED BY <2>1, <2>2, SumIsNatural
  <1>1. ASSUME NEW N \in SUBSET I,
               \A M \in SUBSET I : Cardinality(M) < Cardinality(N) => M \in F
        PROVE  N \in F
    <2>1. IsFiniteSet(N)
      BY FS_Subset
    <2>2. CASE N = {}
      <3>1. Of(N) = {} /\ SumFunctionOnSet(v, N) = 0
        BY <2>1, <2>2, SumByPick
      <3>2. SumFunctionOnSet(w, {}) = 0
        BY FS_EmptySet, SumByPick
      <3> QED BY <3>1, <3>2
    <2>3. CASE N # {}
      <3> DEFINE p == Pick(N)
                 M == N \ {p}
                 A == o[p] \cap X
                 B == Of(M)
      <3>1. p \in N
        BY <2>3, PickIsIn
      <3>2. M \in SUBSET I /\ Cardinality(M) < Cardinality(N)
        BY <3>1, SmallerWithout
      <3>3. SumFunctionOnSet(w, B) =< SumFunctionOnSet(v, M)
        BY <1>1, <3>2
      <3>4. SumFunctionOnSet(v, N) = v[p] + SumFunctionOnSet(v, M)
        BY <2>1, <2>3, SumByPick
      <3>5. v[p] = SumFunctionOnSet(w, A)
        BY <3>1
      <3>6. Of(N) = A \cup B /\ A \in SUBSET D /\ B \in SUBSET D
        BY <3>1
      <3>7. SumFunctionOnSet(w, A \cup B) =< SumFunctionOnSet(w, A) + SumFunctionOnSet(w, B)
        BY <3>6, SumOfUnionAtMost
      <3>8. /\ SumFunctionOnSet(w, A \cup B) \in Nat /\ SumFunctionOnSet(w, A) \in Nat
            /\ SumFunctionOnSet(w, B) \in Nat /\ SumFunctionOnSet(v, M) \in Nat
        BY <1>0, <3>2, <3>6
      <3> HIDE DEF p, M, A, B
      <3>9. SumFunctionOnSet(w, A \cup B) =< SumFunctionOnSet(v, N)
        BY <3>3, <3>4, <3>5, <3>7, <3>8
      <3> QED BY <3>6, <3>9
    <2> QED BY <2>2, <2>3
  <1>2. Of(I) = X
    OBVIOUS
  <1> HIDE DEF F
  <1>3. SUBSET I \subseteq F
    BY <1>1, SmallerFirst
  <1> QED BY <1>2, <1>3 DEF F

Weights(w, D) == IsFiniteSet(D) /\ \A x \in D : w[x] \in Nat

Cover(o, I, D) ==
    /\ IsFiniteSet(I)
    /\ \A n \in I : o[n] \in SUBSET D
    /\ \A x \in D : \E n \in I : x \in o[n]

Shares(v, w, o, I, X) == \A n \in I : v[n] = SumFunctionOnSet(w, o[n] \cap X)

\* Parts that weigh together no more than what they cover count nothing twice:
\* they add up in every selection.
LEMMA PartsAddUp ==
    ASSUME NEW D, NEW w, Weights(w, D), NEW I, NEW o, Cover(o, I, D),
           NEW a, Shares(a, w, o, I, D), SumFunctionOnSet(a, I) = SumFunctionOnSet(w, D),
           NEW X \in SUBSET D, NEW v, Shares(v, w, o, I, X)
    PROVE  SumFunctionOnSet(v, I) = SumFunctionOnSet(w, X)
  <1>0. /\ IsFiniteSet(D) /\ IsFiniteSet(I)
        /\ \A x \in D : w[x] \in Nat
        /\ \A n \in I : o[n] \in SUBSET D
        /\ \A n \in I : v[n] = SumFunctionOnSet(w, o[n] \cap X)
        /\ \A x \in D : \E n \in I : x \in o[n]
    BY DEF Weights, Cover, Shares
  <1>a. ASSUME NEW n \in I PROVE a[n] = SumFunctionOnSet(w, o[n])
    <2>1. o[n] \cap D = o[n]
      BY <1>0
    <2> QED BY <2>1 DEF Shares
  <1> DEFINE Y == D \ X
             u == [n \in I |-> SumFunctionOnSet(w, o[n] \cap Y)]
  <1>1. /\ Y \in SUBSET D /\ X \cap Y = {} /\ X \cup Y = D
        /\ \A n \in I : u[n] = SumFunctionOnSet(w, o[n] \cap Y)
    OBVIOUS
  <1>2. \A S \in SUBSET D : SumFunctionOnSet(w, S) \in Nat
    BY <1>0, SumIsNatural
  <1> HIDE DEF Y, u
  <1>3. SumFunctionOnSet(w, D) = SumFunctionOnSet(w, X) + SumFunctionOnSet(w, Y)
    BY <1>0, <1>1, SumOfUnion
  <1>4. SumFunctionOnSet(w, X) =< SumFunctionOnSet(v, I)
    <2>1. \A x \in X : \E n \in I : x \in o[n]
      BY <1>0
    <2> QED BY <1>0, <2>1, CoverWeighsMore
  <1>5. SumFunctionOnSet(w, Y) =< SumFunctionOnSet(u, I)
    <2>1. \A x \in Y : \E n \in I : x \in o[n]
      BY <1>0, <1>1
    <2>2. /\ Y \in SUBSET D
          /\ \A n \in I : u[n] = SumFunctionOnSet(w, o[n] \cap Y)
      BY <1>1
    <2> QED BY <1>0, <2>1, <2>2, CoverWeighsMore, ZenonT(30)
  <1>6. ASSUME NEW n \in I PROVE v[n] \in Nat /\ u[n] \in Nat /\ a[n] = v[n] + u[n]
    <2> DEFINE A == o[n] \cap X
               B == o[n] \cap Y
    <2>1. A \in SUBSET D /\ B \in SUBSET D /\ A \cap B = {} /\ A \cup B = o[n]
      BY <1>0, <1>1
    <2>2. v[n] = SumFunctionOnSet(w, A) /\ u[n] = SumFunctionOnSet(w, B)
      BY <1>0, <1>1
    <2> HIDE DEF A, B
    <2>3. SumFunctionOnSet(w, A \cup B) = SumFunctionOnSet(w, A) + SumFunctionOnSet(w, B)
      BY <1>0, <2>1, SumOfUnion
    <2> QED BY <1>2, <1>a, <2>1, <2>2, <2>3
  <1>7. SumFunctionOnSet(a, I) = SumFunctionOnSet(v, I) + SumFunctionOnSet(u, I)
    BY <1>0, <1>6, SumOfTwo
  <1>8. SumFunctionOnSet(v, I) \in Nat /\ SumFunctionOnSet(u, I) \in Nat
    BY <1>0, <1>6, SumIsNatural
  <1> QED BY <1>1, <1>2, <1>3, <1>4, <1>5, <1>7, <1>8

-----------------------------------------------------------------------------
(* Development control *)

\* A report is what the files say, and it was drawn up from files that cover
\* every capability once: an edit takes the report away.
DevInv ==
    /\ capabilities \in Seq(Entry)
    /\ modules \in Seq(Modules)
    /\ overview # None => ModulesCover /\ overview = Report

\* Capabilities have weights, and so have their selections.
LEMMA CapabilitiesWeigh ==
    ASSUME capabilities \in Seq(Entry)
    PROVE  /\ IsFiniteSet(All)
           /\ \A x \in All : [i \in All |-> capabilities[i].weight][x] \in Nat
           /\ \A S \in SUBSET All : Weight(S) \in Nat
  <1> DEFINE w == [i \in All |-> capabilities[i].weight]
  <1>1. All = 1..Len(capabilities) /\ Len(capabilities) \in Nat
    BY DEF All
  <1>2. IsFiniteSet(All)
    BY <1>1, FS_Interval
  <1>3. ASSUME NEW x \in All PROVE w[x] \in Nat
    <2>1. capabilities[x] \in Entry
      BY <1>1
    <2> QED BY <2>1, DevelopmentControlAssumption DEF Entry
  <1>4. ASSUME NEW S \in SUBSET All PROVE Weight(S) \in Nat
    <2>1. SumFunctionOnSet(w, S) \in Nat
      <3> HIDE DEF w
      <3> QED BY <1>2, <1>3, SumIsNatural
    <2> QED BY <2>1 DEF Weight
  <1> QED BY <1>2, <1>3, <1>4

\* The shares of the modules in a set of capabilities add up to it.
LEMMA ModulesAddUp ==
    ASSUME capabilities \in Seq(Entry), ModulesCover, NEW X \in SUBSET All,
           NEW v, v = [n \in DOMAIN modules |-> Weight(OfModule(modules[n]) \cap X)],
           modules \in Seq(Modules)
    PROVE  SumFunction(v) = Weight(X)
  <1> DEFINE w == [i \in All |-> capabilities[i].weight]
             I == DOMAIN modules
             o == [n \in I |-> OfModule(modules[n])]
             a == [n \in I |-> Weight(OfModule(modules[n]))]
  <1>1. Weights(w, All)
    BY CapabilitiesWeigh DEF Weights
  <1>2. Cover(o, I, All)
    <2>1. I = 1..Len(modules) /\ Len(modules) \in Nat
      OBVIOUS
    <2>2. IsFiniteSet(I)
      BY <2>1, FS_Interval
    <2>3. \A n \in I : o[n] \in SUBSET All
      BY DEF OfModule
    <2>4. \A x \in All : \E n \in I : x \in o[n]
      BY DEF ModulesCover, OfModule
    <2> QED BY <2>2, <2>3, <2>4 DEF Cover
  <1>3. Shares(a, w, o, I, All)
    <2>1. ASSUME NEW n \in I PROVE a[n] = SumFunctionOnSet(w, o[n] \cap All)
      <3>1. OfModule(modules[n]) \cap All = OfModule(modules[n])
        BY DEF OfModule
      <3> QED BY <3>1 DEF Weight
    <2> QED BY <2>1 DEF Shares
  <1>4. SumFunctionOnSet(a, I) = SumFunctionOnSet(w, All)
    BY DEF ModulesCover, Weight, SumFunction
  <1>5. Shares(v, w, o, I, X)
    BY DEF Weight, Shares
  <1>6. SumFunction(v) = SumFunctionOnSet(v, I) /\ Weight(X) = SumFunctionOnSet(w, X)
    BY DEF Weight, SumFunction
  <1> HIDE DEF w, I, o, a
  <1>7. SumFunctionOnSet(v, I) = SumFunctionOnSet(w, X)
    BY <1>1, <1>2, <1>3, <1>4, <1>5, PartsAddUp
  <1> QED BY <1>6, <1>7

\* Two disjoint selections weigh what they weigh together, a part no more.
LEMMA SelectionsWeigh ==
    ASSUME capabilities \in Seq(Entry), NEW A \in SUBSET All, NEW B \in SUBSET All
    PROVE  /\ A \cap B = {} => Weight(A \cup B) = Weight(A) + Weight(B)
           /\ A \subseteq B => Weight(A) =< Weight(B)
  <1> DEFINE w == [i \in All |-> capabilities[i].weight]
  <1>1. IsFiniteSet(All) /\ \A x \in All : w[x] \in Nat
    BY CapabilitiesWeigh
  <1>2. \A S \in SUBSET All : Weight(S) = SumFunctionOnSet(w, S)
    BY DEF Weight
  <1> HIDE DEF w
  <1>3. ASSUME A \cap B = {} PROVE Weight(A \cup B) = Weight(A) + Weight(B)
    <2>1. SumFunctionOnSet(w, A \cup B) = SumFunctionOnSet(w, A) + SumFunctionOnSet(w, B)
      BY <1>1, <1>3, SumOfUnion
    <2> QED BY <1>2, <2>1
  <1>4. ASSUME A \subseteq B PROVE Weight(A) =< Weight(B)
    <2>1. SumFunctionOnSet(w, A) =< SumFunctionOnSet(w, B)
      BY <1>1, <1>4, SumOfPart
    <2> QED BY <1>2, <2>1
  <1> QED BY <1>3, <1>4

LEMMA ReportIsRight == DevInv => OverviewAddsUp
  <1> SUFFICES ASSUME DevInv, overview # None
               PROVE  OverviewAddsUp
    BY DEF OverviewAddsUp
  <1>0. /\ capabilities \in Seq(Entry) /\ modules \in Seq(Modules)
        /\ ModulesCover /\ overview = Report
    BY DEF DevInv
  <1> DEFINE I == DOMAIN modules
             Mvp == {i \in All : capabilities[i].mvp}
             Rest == {i \in All : ~ capabilities[i].mvp}
             Done == InStates(All, HOMOLOGATED_STATES)
             Built == InStates(All, IMPLEMENTED_STATES)
             Sum(field) == SumFunction([n \in I |-> overview.modules[n].sums[field]])
  <1>1. /\ Mvp \in SUBSET All /\ Rest \in SUBSET All
        /\ Done \in SUBSET All /\ Built \in SUBSET All
    BY DEF InStates
  <1>2. /\ overview.full = [total |-> Weight(All), implemented |-> Weight(Built),
                            homologated |-> Weight(Done)]
        /\ overview.mvp = [total |-> Weight(Mvp), implemented |-> Weight(Mvp \cap Built),
                           homologated |-> Weight(Mvp \cap Done)]
        /\ overview.pending = Mvp \ Done
        /\ overview.backlog = Rest \ Done
    <2>1. /\ InStates(Mvp, IMPLEMENTED_STATES) = Mvp \cap Built
          /\ InStates(Mvp, HOMOLOGATED_STATES) = Mvp \cap Done
      BY DEF InStates
    <2> QED BY <1>0, <2>1 DEF Report, Breakdown
  <1>3. ASSUME NEW n \in I
        PROVE  /\ overview.modules[n].sums["total"] = Weight(OfModule(modules[n]) \cap All)
               /\ overview.modules[n].sums["implemented"] = Weight(OfModule(modules[n]) \cap Built)
               /\ overview.modules[n].sums["homologated"] = Weight(OfModule(modules[n]) \cap Done)
    <2>1. /\ OfModule(modules[n]) \cap All = OfModule(modules[n])
          /\ OfModule(modules[n]) \cap Built = InStates(OfModule(modules[n]), IMPLEMENTED_STATES)
          /\ OfModule(modules[n]) \cap Done = InStates(OfModule(modules[n]), HOMOLOGATED_STATES)
      BY DEF InStates, OfModule
    <2>2. overview.modules[n].sums = Breakdown(OfModule(modules[n]))
      BY <1>0 DEF Report
    <2> QED BY <2>1, <2>2 DEF Breakdown
  <1>4. ASSUME NEW X \in SUBSET All
        PROVE  SumFunction([n \in I |-> Weight(OfModule(modules[n]) \cap X)]) = Weight(X)
    BY <1>0, ModulesAddUp
  <1> HIDE DEF Mvp, Rest, Done, Built
  <1>5. Sum("total") = overview.full.total
    <2>0. \A n \in I : overview.modules[n].sums["total"] = Weight(OfModule(modules[n]) \cap All)
      BY <1>3
    <2>1. Sum("total") = SumFunction([n \in I |-> Weight(OfModule(modules[n]) \cap All)])
      BY <2>0, Zenon
    <2>2. All \in SUBSET All
      OBVIOUS
    <2>3. SumFunction([n \in I |-> Weight(OfModule(modules[n]) \cap All)]) = Weight(All)
      BY <1>4, <2>2
    <2> QED BY <1>2, <2>1, <2>3
  <1>6. Sum("implemented") = overview.full.implemented
    <2>0. \A n \in I : overview.modules[n].sums["implemented"] = Weight(OfModule(modules[n]) \cap Built)
      BY <1>3
    <2>1. Sum("implemented") = SumFunction([n \in I |-> Weight(OfModule(modules[n]) \cap Built)])
      BY <2>0, Zenon
    <2>3. SumFunction([n \in I |-> Weight(OfModule(modules[n]) \cap Built)]) = Weight(Built)
      BY <1>1, <1>4
    <2> QED BY <1>2, <2>1, <2>3
  <1>7. Sum("homologated") = overview.full.homologated
    <2>0. \A n \in I : overview.modules[n].sums["homologated"] = Weight(OfModule(modules[n]) \cap Done)
      BY <1>3
    <2>1. Sum("homologated") = SumFunction([n \in I |-> Weight(OfModule(modules[n]) \cap Done)])
      BY <2>0, Zenon
    <2>3. SumFunction([n \in I |-> Weight(OfModule(modules[n]) \cap Done)]) = Weight(Done)
      BY <1>1, <1>4
    <2> QED BY <1>2, <2>1, <2>3
  <1>8. /\ overview.mvp.total =< overview.full.total
        /\ overview.mvp.implemented =< overview.full.implemented
        /\ overview.mvp.homologated =< overview.full.homologated
    <2>1. Weight(Mvp) =< Weight(All)
      BY <1>0, <1>1, SelectionsWeigh
    <2>2. Weight(Mvp \cap Built) =< Weight(Built) /\ Weight(Mvp \cap Done) =< Weight(Done)
      BY <1>0, <1>1, SelectionsWeigh
    <2> QED BY <1>2, <2>1, <2>2
  <1>9. overview.full.homologated + Weight(overview.pending) + Weight(overview.backlog)
           = overview.full.total
    <2> DEFINE P == Mvp \ Done
               R == Rest \ Done
               DP == Done \cup P
    <2>1. /\ P \in SUBSET All /\ R \in SUBSET All /\ Done \cap P = {}
          /\ DP \in SUBSET All /\ DP \cap R = {} /\ DP \cup R = All
      BY <1>1 DEF Mvp, Rest
    <2> HIDE DEF P, R
    <2>2. Weight(DP) = Weight(Done) + Weight(P)
      BY <1>0, <1>1, <2>1, SelectionsWeigh
    <2> HIDE DEF DP
    <2>3. Weight(All) = Weight(DP) + Weight(R)
      BY <1>0, <2>1, SelectionsWeigh
    <2>4. Weight(All) = Weight(Done) + Weight(P) + Weight(R)
      BY <2>2, <2>3
    <2> QED BY <1>2, <2>4 DEF P, R
  <1> HIDE DEF Sum
  <1>10. \A field \in {"total", "implemented", "homologated"} :
            /\ Sum(field) = overview.full[field]
            /\ overview.mvp[field] =< overview.full[field]
    BY <1>5, <1>6, <1>7, <1>8
  <1> QED BY <1>9, <1>10 DEF OverviewAddsUp, Sum

LEMMA DevInvStarts == DevInit => DevInv
  BY DEF DevInit, DevInv

LEMMA DevInvLasts == DevInv /\ [DevNext]_devVars => DevInv'
  <1> SUFFICES ASSUME DevInv, [DevNext]_devVars
               PROVE  DevInv'
    OBVIOUS
  <1>0. capabilities \in Seq(Entry) /\ modules \in Seq(Modules)
    BY DEF DevInv
  <1>1. CASE GetOverview
    <2>1. UNCHANGED <<capabilities, modules>>
      BY <1>1 DEF GetOverview
    <2>2. ModulesCover' = ModulesCover /\ Report' = Report
      BY <2>1 DEF ModulesCover, Report, Breakdown, OfModule, ModuleStatus, InStates, Weight, All
    <2>3. CASE ValidateInvariants
      <3>1. ModulesCover /\ overview' = Report
        BY <1>1, <2>3 DEF GetOverview, ValidateInvariants
      <3> QED BY <1>0, <2>1, <2>2, <3>1 DEF DevInv
    <2>4. CASE ~ ValidateInvariants
      <3>1. overview' = None
        BY <1>1, <2>4 DEF GetOverview
      <3> QED BY <1>0, <2>1, <3>1 DEF DevInv
    <2> QED BY <2>3, <2>4
  <1>2. CASE EditFiles
    <2>1. capabilities' \in Seq(Entry) /\ modules' \in Seq(Modules)
      BY <1>0, <1>2, SMTT(30) DEF EditFiles
    <2>2. overview' = None
      BY <1>2 DEF EditFiles
    <2> QED BY <2>1, <2>2 DEF DevInv
  <1>3. CASE UNCHANGED devVars
    <2>1. UNCHANGED <<capabilities, modules, overview>>
      BY <1>3 DEF devVars
    <2>2. ModulesCover' = ModulesCover /\ Report' = Report
      BY <2>1 DEF ModulesCover, Report, Breakdown, OfModule, ModuleStatus, InStates, Weight, All
    <2> QED BY <2>1, <2>2 DEF DevInv
  <1> QED BY <1>1, <1>2, <1>3 DEF DevNext

\* For any files, weights and number of entries: every report that is shown
\* counts each capability once, in the modules, in the roadmap and in the lists
\* of what is left. The check of the sum over the modules is what it rests on.
THEOREM ReportAddsUp == DevInit /\ [][DevNext]_devVars => []OverviewAddsUp
  BY DevInvStarts, DevInvLasts, ReportIsRight, PTL
=============================================================================
