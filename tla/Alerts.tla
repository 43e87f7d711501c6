------------------------------- MODULE Alerts -------------------------------
(* Alerts by fingerprint, their notifications, and incidents. Whoever reports
   a problem calls processAlert, then dispatchNotification with the record it
   got back; an operator correlates and resolves.                           *)
EXTENDS Integers, FiniteSets, NoRecord

CONSTANTS
    Problems,       \* fingerprints: a target, a type and a dimension of one tenant
    TargetOf,       \* [Problems -> targets]
    MaxReports, MaxIncidents    \* bounds of the model

VARIABLES
    alerts,
    incidents,      \* how many incidents there are of each set of alerts
    informed        \* channels that heard of an alert since it was last resolved

alertVars == <<alerts, incidents, informed>>

Severities == {"warning", "high", "critical"}

Open(p) == alerts[p] # None /\ alerts[p].status # "resolved"

\* mutant: outside of a window the status is set as for a new alert
AgainAsNew(a, silenced) ==
    [a EXCEPT !.count = @ + 1,
              !.status = IF silenced THEN "silenced_maintenance" ELSE "active"]

\* Severity and first time stay those of the first report
Again(a, silenced) ==
    [a EXCEPT !.count = @ + 1,
              !.status = IF silenced THEN "silenced_maintenance" ELSE @]

First(severity, silenced) ==
    [severity |-> severity, count |-> 1,
     status |-> IF silenced THEN "silenced_maintenance" ELSE "active"]

\* `silenced`: a maintenance window was passed and covers this moment
ProcessAlert(p, severity, silenced) ==
    /\ Open(p) => alerts[p].count < MaxReports
    /\ alerts' = [alerts EXCEPT ![p] =
         IF Open(p) THEN Again(@, silenced) ELSE First(severity, silenced)]
    /\ UNCHANGED <<incidents, informed>>

\* The webhook for high and critical, the e-mail for critical alerts
ChannelsFor(severity) ==
    CASE severity = "critical" -> {"webhook", "email"}
      [] severity = "high"     -> {"webhook"}
      [] OTHER                 -> {}

DispatchNotification(p) ==
    /\ alerts[p] # None /\ alerts[p].status # "silenced_maintenance"
    /\ informed' = [informed EXCEPT ![p] = @ \cup ChannelsFor(alerts[p].severity)]
    /\ UNCHANGED <<alerts, incidents>>

ResolveAlert(p) ==
    /\ alerts[p] # None
    /\ alerts' = [alerts EXCEPT ![p].status = "resolved"]
    /\ informed' = [informed EXCEPT ![p] = {}]
    /\ UNCHANGED incidents

Related(target) ==
    {p \in Problems : TargetOf[p] = target /\ alerts[p] # None /\ alerts[p].status = "active"}

\* One incident more for each target with two active alerts, also if it has
\* one. (A single alert would do if its type named both backup and storage;
\* none does.)
CorrelateAlertsToIncident ==
    LET new == {Related(t) : t \in {t \in {TargetOf[p] : p \in Problems} :
                                        Cardinality(Related(t)) >= 2}}
    IN /\ new # {}
       /\ \A i \in new : incidents[i] < MaxIncidents
       /\ incidents' = [i \in SUBSET Problems |->
                           IF i \in new THEN incidents[i] + 1 ELSE incidents[i]]
    /\ UNCHANGED <<alerts, informed>>

AlertInit ==
    /\ alerts = [p \in Problems |-> None]
    /\ incidents = [i \in SUBSET Problems |-> 0]
    /\ informed = [p \in Problems |-> {}]

AlertNext ==
    \/ \E p \in Problems :
         \/ \E severity \in Severities, silenced \in BOOLEAN : ProcessAlert(p, severity, silenced)
         \/ DispatchNotification(p) \/ ResolveAlert(p)
    \/ CorrelateAlertsToIncident

AlertTypeOK ==
    /\ \A p \in Problems : alerts[p] = None \/ alerts[p] \in
         [severity : Severities, count : Nat, status : {"active", "silenced_maintenance", "resolved"}]
    /\ incidents \in [SUBSET Problems -> Nat]
    /\ informed \in [Problems -> SUBSET {"webhook", "email"}]

\* An alert that was silenced once stays silent until it is resolved: reports
\* after the maintenance do not wake it, nobody is informed of it and no new
\* incident has it. (What the code does; whoever plans a maintenance has to
\* resolve afterwards what is still wrong.)
SilentUntilResolved ==
    [][\A p \in Problems :
         (alerts[p] # None /\ alerts[p].status = "silenced_maintenance")
            => /\ alerts'[p].status \in {"silenced_maintenance", "resolved"}
               /\ informed'[p] \subseteq informed[p]
               /\ \A i \in SUBSET Problems : incidents'[i] > incidents[i] => p \notin i]_alertVars
=============================================================================
