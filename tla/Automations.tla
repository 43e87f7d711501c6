----------------------------- MODULE Automations -----------------------------
(* Schedules, conditional triggers, self-healing policies and goals.

   Nothing in the source fires them by itself: an operator runs, simulates,
   executes or evaluates them, and each of these handlers is one turn. They
   share the shape "check the limits, act, count, list": what can go wrong is
   a path that forgets one of these steps, seen only after many calls.

   The four groups have no state in common. `kind` restricts a behaviour to
   one of them; `events` is the list that group keeps (scheduleRuns,
   triggerEvents, selfHealingRuns or goalEvaluations), newest first.         *)
EXTENDS Integers, Sequences, NoRecord

CONSTANTS
    Items,          \* ids of schedules, triggers, policies or goals
    Limits,         \* limits a request may ask for
    Targets,        \* targets of goals, in hundredths
    MaxEvents,      \* 50 in the code: entries kept where a list is cut
    EventBound,     \* bound of the model on the lists that are never cut
    Kinds

Categories == {"storage", "backup", "availability", "other"}

\* The records of a group
ItemRecords(k) ==
    CASE k = "schedule" -> [enabled : BOOLEAN, ran : BOOLEAN]
      [] k = "trigger"  -> [enabled : BOOLEAN, max : Limits, tripped : BOOLEAN, count : Nat]
      [] k = "policy"   -> [enabled : BOOLEAN, alone : BOOLEAN, max : Limits, hour : Nat]
      [] OTHER          -> [category : Categories, target : Targets, value : Nat,
                            status : {"compliant", "at_risk", "violated"}]

ASSUME AutomationsAssumption ==
    /\ Limits \subseteq Nat \ {0}
    /\ Targets \subseteq Nat
    /\ MaxEvents \in Nat \ {0} /\ EventBound \in Nat
    /\ Kinds \subseteq {"schedule", "trigger", "policy", "goal"}
    /\ \A k \in Kinds : Unused \notin ItemRecords(k) /\ Gone \notin ItemRecords(k)

VARIABLES
    kind,
    items,      \* the records of the group
    events,     \* its list
    hot,        \* triggers whose cooldown runs
    acted       \* history: firings or executions of each item since it was
                \* created or its counter was reset

autoVars == <<kind, items, events, hot, acted>>

Present == {i \in Items : items[i] \notin {Unused, Gone}}

Event(i, status, value) == [of |-> i, status |-> status, value |-> value]

\* unshift, and a pop that takes one entry however long the list is
Recorded(e) ==
    LET longer == <<e>> \o events
    IN IF Len(longer) > MaxEvents THEN SubSeq(longer, 1, Len(longer) - 1) ELSE longer

\* unshift alone
RecordedUncut(e) == <<e>> \o events

Create(i, record) ==
    /\ items[i] = Unused
    /\ items' = [items EXCEPT ![i] = record]
    /\ UNCHANGED <<kind, events, hot, acted>>

Delete(i) ==
    /\ i \in Present
    /\ items' = [items EXCEPT ![i] = Gone]
    /\ UNCHANGED <<kind, events, hot, acted>>

-----------------------------------------------------------------------------
(* Schedules *)

ScheduleForm == [enabled : {TRUE}, ran : {FALSE}]

CreateSchedule(i) == \E record \in ScheduleForm : Create(i, record)

\* Neither `enabled` nor the time of the last run is looked at
RunNow(i) ==
    /\ i \in Present
    /\ events' = Recorded(Event(i, "success", None))
    /\ items' = [items EXCEPT ![i].ran = TRUE]
    /\ UNCHANGED <<kind, hot, acted>>

UpdateSchedule(i) ==
    /\ i \in Present
    /\ \E on \in BOOLEAN : items' = [items EXCEPT ![i].enabled = on]
    /\ UNCHANGED <<kind, events, hot, acted>>

ScheduleRoutes(i) ==
    \/ CreateSchedule(i)
    \/ RunNow(i) \/ UpdateSchedule(i) \/ Delete(i)

-----------------------------------------------------------------------------
(* Triggers *)

TriggerBody == [enabled : BOOLEAN, max : Limits, tripped : {FALSE}, count : {0}]

CreateTrigger(t) == \E record \in TriggerBody : Create(t, record)

\* mutant: compares the count as if it held the firing that is to come
MustBreakLate(t) == items[t].tripped \/ items[t].count > items[t].max

MustBreak(t) == items[t].tripped \/ items[t].count >= items[t].max

Break(t) ==
    /\ t \in Present /\ items[t].enabled
    /\ MustBreak(t)
    /\ Len(events) < EventBound
    /\ items' = [items EXCEPT ![t].tripped = TRUE]
    /\ events' = RecordedUncut(Event(t, "circuit_broken", None))
    /\ UNCHANGED <<kind, hot, acted>>

Suppress(t) ==
    /\ t \in Present /\ items[t].enabled
    /\ ~ MustBreak(t) /\ t \in hot
    /\ Len(events) < EventBound
    /\ events' = RecordedUncut(Event(t, "cooldown_suppressed", None))
    /\ UNCHANGED <<kind, items, hot, acted>>

Fire(t) ==
    /\ t \in Present /\ items[t].enabled
    /\ ~ MustBreak(t) /\ t \notin hot
    /\ items' = [items EXCEPT ![t].count = @ + 1]
    /\ hot' = hot \cup {t}
    /\ events' = Recorded(Event(t, "triggered", None))
    /\ acted' = [acted EXCEPT ![t] = @ + 1]
    /\ UNCHANGED kind

CooldownEnds(t) ==
    /\ t \in hot
    /\ hot' = hot \ {t}
    /\ UNCHANGED <<kind, items, events, acted>>

ResetBreaker(t) ==
    /\ t \in Present
    /\ items' = [items EXCEPT ![t].tripped = FALSE, ![t].count = 0]
    /\ acted' = [acted EXCEPT ![t] = 0]
    /\ UNCHANGED <<kind, events, hot>>

UpdateTrigger(t) ==
    /\ t \in Present
    /\ \E on \in BOOLEAN, max \in Limits :
         items' = [items EXCEPT ![t].enabled = on, ![t].max = max]
    /\ UNCHANGED <<kind, events, hot, acted>>

TriggerRoutes(t) ==
    \/ CreateTrigger(t)
    \/ Break(t) \/ Suppress(t) \/ Fire(t)
    \/ ResetBreaker(t) \/ UpdateTrigger(t) \/ Delete(t)

-----------------------------------------------------------------------------
(* Self-healing policies *)

\* From level 4 on a policy acts by itself
PolicyForm == [enabled : {TRUE}, alone : BOOLEAN, max : Limits, hour : {0}]

CreatePolicy(p) == \E record \in PolicyForm : Create(p, record)

WithinBudget(p) == items[p].hour < items[p].max

Execute(p) ==
    /\ p \in Present /\ items[p].enabled
    /\ WithinBudget(p) /\ items[p].alone
    /\ events' = Recorded(Event(p, "success", None))
    /\ items' = [items EXCEPT ![p].hour = @ + 1]
    /\ acted' = [acted EXCEPT ![p] = @ + 1]
    /\ UNCHANGED <<kind, hot>>

\* Held for an approval that nothing asks for; counts nothing, cuts no list
Retain(p) ==
    /\ p \in Present /\ items[p].enabled
    /\ WithinBudget(p) /\ ~ items[p].alone
    /\ Len(events) < EventBound
    /\ events' = RecordedUncut(Event(p, "requires_approval", None))
    /\ UNCHANGED <<kind, items, hot, acted>>

UpdatePolicy(p) ==
    /\ p \in Present
    /\ \E on, alone \in BOOLEAN :
         items' = [items EXCEPT ![p].enabled = on, ![p].alone = alone]
    /\ UNCHANGED <<kind, events, hot, acted>>

PolicyRoutes(p) ==
    \/ CreatePolicy(p)
    \/ Execute(p) \/ Retain(p) \/ UpdatePolicy(p) \/ Delete(p)

-----------------------------------------------------------------------------
(* Goals *)

\* The form sends a value above the target, and "compliant", for any category
GoalForm ==
    {[category |-> c, target |-> n, value |-> n + 350, status |-> "compliant"] :
        c \in Categories, n \in Targets}

CreateGoal(g) == \E record \in GoalForm : Create(g, record)

\* The observations are invented: the ends of their ranges, in hundredths
Observable(category, target) ==
    CASE category = "storage"      -> {2150, 2550}
      [] category = "backup"       -> {1420, 2020}
      [] category = "availability" -> {9992, 9999}
      [] OTHER                     -> {target}

StatusOf(category, value, target) ==
    CASE category = "storage"      -> IF value >= target THEN "compliant" ELSE "at_risk"
      [] category = "backup"       -> IF value =< target THEN "compliant" ELSE "at_risk"
      [] category = "availability" -> IF value >= target THEN "compliant" ELSE "violated"
      [] OTHER                     -> "compliant"

Evaluated(g, value, status) == [g EXCEPT !.value = value, !.status = status]

Evaluate(g) ==
    /\ g \in Present
    /\ \E value \in Observable(items[g].category, items[g].target) :
         LET status == StatusOf(items[g].category, value, items[g].target)
         IN /\ events' = Recorded(Event(g, status, value))
            /\ items' = [items EXCEPT ![g] = Evaluated(@, value, status)]
    /\ UNCHANGED <<kind, hot, acted>>

UpdateGoal(g) ==
    /\ g \in Present
    /\ \E n \in Targets : items' = [items EXCEPT ![g].target = n]
    /\ UNCHANGED <<kind, events, hot, acted>>

GoalRoutes(g) ==
    \/ CreateGoal(g)
    \/ Evaluate(g) \/ UpdateGoal(g) \/ Delete(g)

-----------------------------------------------------------------------------
AutoInit ==
    /\ kind \in Kinds
    /\ items = [i \in Items |-> Unused]
    /\ events = <<>>
    /\ hot = {}
    /\ acted = [i \in Items |-> 0]

AutoNext ==
    \E i \in Items :
        \/ kind = "schedule" /\ ScheduleRoutes(i)
        \/ kind = "trigger" /\ (TriggerRoutes(i) \/ CooldownEnds(i))
        \/ kind = "policy" /\ PolicyRoutes(i)
        \/ kind = "goal" /\ GoalRoutes(i)

AutoTypeOK ==
    /\ kind \in Kinds
    /\ \A i \in Present : items[i] \in ItemRecords(kind)
    /\ Len(events) =< MaxEvents \/ kind \in {"trigger", "policy"}
    /\ hot \subseteq Items
    /\ acted \in [Items -> Nat]

\* Between two re-arms a trigger fires less often than its limit says before
\* it fires once more, and a policy executes so often at most in the life of
\* its counter, which nothing resets: whatever other requests came in between,
\* the limit raised and lowered, the trigger paused, suppressed or broken.
LimitsBoundActs ==
    [][\A i \in Items : acted'[i] > acted[i] => acted[i] < items[i].max]_autoVars
=============================================================================
