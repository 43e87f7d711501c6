---------------------------- MODULE PolicyEngine ----------------------------
(* The decision on a job, packages/policy-engine: rules, roles, the rights of
   an AI that acts for a user, maintenance windows, approvals.

   The algorithm has no state. `decided` holds one request and the answer to
   it, so that a step is a call of evaluateJobPolicy, and properties compare
   the answer with the one a neighbouring request would have had.

   The 25 permissions fall into four classes, named after the least role that
   has them; a role has the classes up to its own.                          *)
EXTENDS Integers, NoRecord

CONSTANTS
    PolicyNodes,      \* nodes of the tenant of the request
    Rules,      \* rules a request may come with
    Windows,    \* maintenance windows it may come with
    Times       \* [day, hour] at which it is evaluated

VARIABLE decided

Ranks == <<"viewer", "operator", "administrator", "owner">>
RankOf(role) == CHOOSE r \in DOMAIN Ranks : Ranks[r] = role
Permissions == DOMAIN Ranks

RolePermissions(role) == IF role = None THEN {} ELSE 1..RankOf(role)

\* The days are compared with the day of the moment itself: the small hours of
\* a window that began the evening before count for their own day.
IsWithinMaintenanceWindow(w, t) ==
    /\ t.day \in w.days
    /\ IF w.start =< w.end THEN t.hour >= w.start /\ t.hour < w.end
                           ELSE t.hour >= w.start \/ t.hour < w.end

Requests ==
    [ actor : {"user", "ai", "agent"}, role : {None, "viewer", "operator", "administrator", "owner"},
      perm : Permissions, risk : 0..4, approval : {"none", "default", "always"},
      node : PolicyNodes \cup {None}, rule : Rules \cup {None},
      userPerms : {None, {}, Permissions}, window : Windows \cup {None}, at : Times ]

\* The risks read, low, medium, high, critical
Medium == 2
High == 3
Critical == 4

\* An absent field of a rule fits everything
Applies(rule, req) ==
    /\ rule # None
    /\ rule.effect = "deny"
    /\ rule.foreign = FALSE
    /\ rule.node = None \/ rule.node = req.node
    /\ rule.actor = None \/ rule.actor = req.actor
    /\ rule.perm = None \/ rule.perm = req.perm

UserPermissions(req) ==
    IF req.userPerms # None THEN req.userPerms ELSE RolePermissions(req.role)

\* mutant: an AI has what either of the two has
AiLacksBoth(req) ==
    req.perm \notin UserPermissions(req) \cup RolePermissions("operator") \/ req.risk = Critical

\* Without rights of its own an AI has those of an operator
AiLacks(req) ==
    \/ req.perm \notin UserPermissions(req)
    \/ req.perm \notin RolePermissions("operator")
    \/ req.risk = Critical

UserLacks(req) == req.perm \notin RolePermissions(req.role)

OutsideWindow(req) ==
    /\ req.window # None /\ req.risk >= Medium
    /\ ~ IsWithinMaintenanceWindow(req.window, req.at)

\* A critical action is not "high" here: without window and with the default
\* approval policy a user who has the permission needs nobody's approval
NeedsApproval(req) == req.approval = "always" \/ req.risk = High

EvaluateJobPolicy(req) ==
    IF \/ Applies(req.rule, req)
       \/ req.actor = "ai" /\ AiLacks(req)
       \/ req.actor = "user" /\ UserLacks(req)
    THEN "deny"
    ELSE IF OutsideWindow(req) \/ NeedsApproval(req) THEN "requires_approval"
    ELSE "allow"

-----------------------------------------------------------------------------
PolicyInit == decided = None

Decide(req) ==
    decided' = [request |-> req, decision |-> EvaluateJobPolicy(req)]

PolicyNext == decided = None /\ \E req \in Requests : Decide(req)

-----------------------------------------------------------------------------
Strictness(d) == CASE d = "allow" -> 0 [] d = "requires_approval" -> 1 [] OTHER -> 2

\* What an AI may do, the user it acts for may do by hand with no more
\* approvals: unless a rule denies it to users alone, or the caller passed
\* rights of the user that are not those of the user's role.
AiNeverBeyondUser ==
    decided # None =>
        LET req == decided.request
            byHand == [req EXCEPT !.actor = "user"]
        IN (/\ req.actor = "ai" /\ req.userPerms = None
            /\ ~ Applies(req.rule, byHand))
              => Strictness(decided.decision) >= Strictness(EvaluateJobPolicy(byHand))
=============================================================================
