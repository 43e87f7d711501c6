------------------------------ MODULE Advisor ------------------------------
(* Recommendations: mined with a language model, planned, validated.

   The routes look at no status. What keeps the order "open, in progress,
   implemented" is which button a screen offers, and a screen goes by the rows
   it has: it loads all tenants' rows when its tenant is switched, never
   cancels a load, writes the tenant it had at the click into each row that is
   answered, and when a call fails it shows the row as if it had succeeded.

   A call is handled when it is sent; its answer may take any time. A load is
   a call too. Rows are kept by recommendation, so that one that a screen has
   twice is one row here.                                                   *)
EXTENDS Integers, FiniteSets, NoRecord

CONSTANTS Screens, Recs, Tenants,
          MaxAnswers        \* bound of the model: answers on their way

Status == {"open", "in_progress", "implemented"}

ASSUME AdvisorAssumption ==
    None \notin Recs /\ Unused \notin [tenant : Tenants, status : Status]

VARIABLES
    recs,       \* store.recommendations
    mining,     \* analyses that wait for the model: [screen, tenant]
    screen,     \* what each screen shows: its tenant, and its rows
    answers     \* answers on their way

advisorVars == <<recs, mining, screen, answers>>

Mined(t) == [tenant |-> t, status |-> "open"]

Row(rec, label) == [tenant |-> label, status |-> rec.status]

Offered(s, r, status) ==
    /\ screen[s].rows[r] # None
    /\ screen[s].rows[r] = [tenant |-> screen[s].tenant, status |-> status]

Answer(s, r, row) == answers \cup {[to |-> s, rec |-> r, row |-> row]}

RoomFor(n) == Cardinality(answers) + n =< MaxAnswers

-----------------------------------------------------------------------------
(* Loading *)

\* The list of all tenants, as it is now
FetchData(s, t) ==
    /\ RoomFor(1)
    /\ screen' = [screen EXCEPT ![s].tenant = t]
    /\ answers' = answers \cup
         {[to |-> s, rec |-> None,
           row |-> [r \in Recs |-> IF recs[r] = Unused THEN None
                                   ELSE Row(recs[r], recs[r].tenant)]]}
    /\ UNCHANGED <<recs, mining>>

\* A list replaces every row, an answer the row it is about
Receive(a) ==
    /\ a \in answers
    /\ answers' = answers \ {a}
    /\ screen' = [screen EXCEPT ![a.to].rows =
         IF a.rec = None THEN a.row ELSE [@ EXCEPT ![a.rec] = a.row]]
    /\ UNCHANGED <<recs, mining>>

-----------------------------------------------------------------------------
(* Mining *)

HandleAnalyzeNow(s) ==
    /\ \A m \in mining : m.screen # s       \* the button is disabled meanwhile
    /\ mining' = mining \cup {[screen |-> s, tenant |-> screen[s].tenant]}
    /\ UNCHANGED <<recs, screen, answers>>

\* mutant: the row is labelled with the tenant the screen has by then
AnalyzedLate(m, r) ==
    /\ m \in mining /\ recs[r] = Unused /\ RoomFor(1)
    /\ mining' = mining \ {m}
    /\ recs' = [recs EXCEPT ![r] = Mined(m.tenant)]
    /\ answers' = Answer(m.screen, r, Row(recs'[r], screen[m.screen].tenant))
    /\ UNCHANGED screen

Analyzed(m, r) ==
    /\ m \in mining /\ recs[r] = Unused /\ RoomFor(1)
    /\ mining' = mining \ {m}
    /\ recs' = [recs EXCEPT ![r] = Mined(m.tenant)]
    /\ answers' = Answer(m.screen, r, Row(recs'[r], m.tenant))
    /\ UNCHANGED screen

\* The screen hears of a failure, also if it is the answer that was lost
AnalysisFails(m) ==
    /\ m \in mining
    /\ mining' = mining \ {m}
    /\ \/ UNCHANGED recs
       \/ \E r \in Recs : recs[r] = Unused /\ recs' = [recs EXCEPT ![r] = Mined(m.tenant)]
    /\ UNCHANGED <<screen, answers>>

-----------------------------------------------------------------------------
(* Plans and validations *)

\* What the routes do to a recommendation. (The change plan is stored too; no
\* code looks at the plans of a recommendation.)
ChangePlan(r) == recs' = [recs EXCEPT ![r].status = "in_progress"]

Validate(r) == recs' = [recs EXCEPT ![r].status = "implemented"]

HandleGenerateChangePlan(s, r) ==
    /\ Offered(s, r, "open") /\ RoomFor(1)
    /\ ChangePlan(r)
    /\ answers' = Answer(s, r, Row(recs'[r], screen[s].tenant))
    /\ UNCHANGED <<mining, screen>>

HandleValidateRecommendation(s, r) ==
    /\ Offered(s, r, "in_progress") /\ RoomFor(1)
    /\ Validate(r)
    /\ answers' = Answer(s, r, Row(recs'[r], screen[s].tenant))
    /\ UNCHANGED <<mining, screen>>

\* The call or its answer is lost: the row goes on as if nothing had happened
ShowAnyway(s, r, status) ==
    /\ screen' = [screen EXCEPT ![s].rows[r].status = status]
    /\ UNCHANGED <<mining, answers>>

ChangePlanFails(s, r) ==
    /\ Offered(s, r, "open")
    /\ ChangePlan(r) \/ UNCHANGED recs
    /\ ShowAnyway(s, r, "in_progress")

ValidateFails(s, r) ==
    /\ Offered(s, r, "in_progress")
    /\ Validate(r) \/ UNCHANGED recs
    /\ ShowAnyway(s, r, "implemented")

-----------------------------------------------------------------------------
AdvisorInit ==
    /\ recs = [r \in Recs |-> Unused]
    /\ mining = {}
    /\ screen \in [Screens -> [tenant : Tenants, rows : {[r \in Recs |-> None]}]]
    /\ answers = {}

AdvisorNext ==
    \/ \E s \in Screens :
         \/ \E t \in Tenants : FetchData(s, t)
         \/ HandleAnalyzeNow(s)
         \/ \E r \in Recs :
              \/ HandleGenerateChangePlan(s, r) \/ HandleValidateRecommendation(s, r)
              \/ ChangePlanFails(s, r) \/ ValidateFails(s, r)
    \/ \E a \in answers : Receive(a)
    \/ \E m \in mining : AnalysisFails(m) \/ \E r \in Recs : Analyzed(m, r)

AdvisorTypeOK ==
    /\ \A r \in Recs : recs[r] = Unused \/ recs[r] \in [tenant : Tenants, status : Status]
    /\ mining \subseteq [screen : Screens, tenant : Tenants]
    /\ \A s \in Screens :
         /\ screen[s].tenant \in Tenants
         /\ \A r \in Recs : screen[s].rows[r] = None
                            \/ screen[s].rows[r] \in [tenant : Tenants, status : Status]

\* A recommendation is shown under the tenant it is stored for, whatever was
\* switched while loads and answers were on their way: the tenant a screen
\* writes into a row is the one of the click.
ShownUnderItsTenant ==
    \A s \in Screens, r \in Recs :
        (screen[s].rows[r] # None /\ recs[r] # Unused)
            => screen[s].rows[r].tenant = recs[r].tenant
=============================================================================
