------------------------------ MODULE Backups ------------------------------
(* The plan that cleans up backups, a pure function of the list of artifacts.
   Around it the model puts what makes its answers matter: backups are taken,
   or fail, on some days and not on others, and plans are carried out again
   and again.
   Artifacts have distinct times; the order among equal ones is the sort's. *)
EXTENDS Integers, FiniteSets

CONSTANTS
    LastDay,            \* bound of the model on time
    RetentionDays, MinValidCopies

ASSUME BackupsAssumption ==
    LastDay \in Nat /\ RetentionDays \in Nat /\ MinValidCopies \in Nat

VARIABLES
    today,
    artifacts,      \* [at, ok]; ok is the status "succeeded"
    everValid       \* history: valid artifacts that were ever taken

backupVars == <<today, artifacts, everValid>>

ValidCopies(s) == {a \in s : a.ok}
Newest(s) == CHOOSE a \in s : \A b \in s : b.at =< a.at

TooOld(a) == a.at < today - RetentionDays

\* The list is visited from the newest artifact on. An artifact is spared for
\* the number of copies when, of those that are left, there are not more: the
\* valid ones that were protected before it, and the valid ones from it on.
\* mutant: the copy that is judged is counted as one that will be left
SparedStrictly(keptNewer, rest) ==
    Cardinality(ValidCopies(keptNewer)) + Cardinality(ValidCopies(rest)) < MinValidCopies

Spared(keptNewer, rest) ==
    Cardinality(ValidCopies(keptNewer)) + Cardinality(ValidCopies(rest)) =< MinValidCopies

Protected[a \in artifacts] ==
    \/ a.ok /\ a = Newest(ValidCopies(artifacts))
    \/ ~ TooOld(a)
    \/ a.ok /\ Spared({b \in artifacts : b.at > a.at /\ Protected[b]},
                      {b \in artifacts : b.at =< a.at})

GenerateCleanupPlan == {a \in artifacts : ~ Protected[a]}

-----------------------------------------------------------------------------
BackupInit == today = 0 /\ artifacts = {} /\ everValid = 0

TakeBackup(ok) ==
    /\ \A a \in artifacts : a.at # today
    /\ artifacts' = artifacts \cup {[at |-> today, ok |-> ok]}
    /\ everValid' = IF ok THEN everValid + 1 ELSE everValid
    /\ UNCHANGED today

CleanUp ==
    /\ GenerateCleanupPlan # {}
    /\ artifacts' = artifacts \ GenerateCleanupPlan
    /\ UNCHANGED <<today, everValid>>

NextDay ==
    /\ today < LastDay
    /\ today' = today + 1
    /\ UNCHANGED <<artifacts, everValid>>

BackupNext == (\E ok \in BOOLEAN : TakeBackup(ok)) \/ CleanUp \/ NextDay

-----------------------------------------------------------------------------
\* However often plans are carried out, whatever failed in between, there are
\* as many valid copies as the policy asks for, or all that were ever taken;
\* and one at least, if one was ever taken.
CopiesRemain ==
    LET n == Cardinality(ValidCopies(artifacts))
    IN /\ n >= MinValidCopies \/ n = everValid
       /\ everValid > 0 => n > 0
=============================================================================
