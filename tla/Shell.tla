-------------------------------- MODULE Shell --------------------------------
(* The shell of the front end, App.jsx: who is logged in, whose data the pages
   are opened for, and which page a menu or a link leads to.

   The user is kept in the browser and nobody asks the server about them again.
   The list of tenants comes from the browser first and from the server later.
   An effect, declared behind the early return that shows the login, puts a
   user of one tenant back to it; the number of hooks therefore changes with
   every login and logout, which React answers by taking the whole page away
   until it is reloaded.                                                     *)
EXTENDS Integers, Sequences, FiniteSets, SequencesExt, NoRecord

CONSTANTS
    People,         \* users, [role, tenant]
    Clients,        \* tenants; "global" is none of them
    FirstClients,   \* the list a browser starts with, defaultTenants
    ServedClients   \* those the server has from the beginning

ASSUME ShellAssumption ==
    /\ FirstClients \in Seq(Clients) /\ FirstClients # <<>>
    /\ ServedClients \subseteq Clients /\ IsFiniteSet(ServedClients)
    /\ None \notin Clients

VARIABLES
    remembered,     \* localStorage: infraops_user
    clientList,     \*   and infraops_tenants; the page has the same list
    view,           \* the page: [user, mode, active, nav]
    served,         \* the server: store.tenants
    arriving        \* the answer to GET /tenants, as it was when it left

shellVars == <<remembered, clientList, view, served, arriving>>

-----------------------------------------------------------------------------
(* Roles and pages *)

IsSuperAdmin(u) == u.role = "superadmin" \/ u.tenant = "global"
IsAdmin(u) == u.role \in {"admin", "owner"} \/ IsSuperAdmin(u)
IsOperator(u) == u.role = "operator" \/ IsAdmin(u)

Groups == {"all", "operator", "admin", "super"}     \* pages, by who may use them

\* The settings are a page of administrators, though the menu of one who is no
\* superadmin does not name them; links within the pages lead anywhere
MayUse(u) == {"all"} \cup (IF IsOperator(u) THEN {"operator"} ELSE {})
                   \cup (IF IsAdmin(u) THEN {"admin"} ELSE {})
                   \cup (IF IsSuperAdmin(u) THEN {"super"} ELSE {})

\* What is under the title: nothing for a page the user may not use
Content(u, nav) == IF nav \in MayUse(u) THEN nav ELSE None

-----------------------------------------------------------------------------
(* The effect of the rendering: it runs after `user` or the list changed *)

Knows(list, u) == u.tenant \in Range(list)

\* mutant: the effect does not depend on the list of tenants
EnforcedAtLogin(page, list, changed) ==
    LET u == page.user
    IN IF /\ changed = "user"
          /\ page.mode = "app" /\ ~ IsSuperAdmin(u) /\ u.tenant # "global"
          /\ Knows(list, u)
       THEN [page EXCEPT !.active = u.tenant] ELSE page

Enforced(page, list, changed) ==
    LET u == page.user
    IN IF /\ changed \in {"user", "list"}
          /\ page.mode = "app" /\ ~ IsSuperAdmin(u) /\ u.tenant # "global"
          /\ Knows(list, u)
       THEN [page EXCEPT !.active = u.tenant] ELSE page

\* A page that is opened has the user the browser remembers
ReloadPage ==
    /\ view' = Enforced([user |-> remembered, active |-> clientList[1], nav |-> "all",
                         mode |-> IF remembered = None THEN "login" ELSE "app"],
                        clientList, "user")
    /\ arriving' = served
    /\ UNCHANGED <<remembered, clientList, served>>

\* More hooks than the time before, or fewer
OnLoginSuccess(u) ==
    /\ view.mode = "login"
    /\ remembered' = u
    /\ view' = [view EXCEPT !.user = u, !.mode = "blank"]
    /\ UNCHANGED <<clientList, served, arriving>>

HandleLogout ==
    /\ view.mode = "app"
    /\ remembered' = None
    /\ view' = [view EXCEPT !.user = None, !.mode = "blank"]
    /\ UNCHANGED <<clientList, served, arriving>>

\* Those of the server first, then what only the browser has, which is sent
\* there; nothing depends on the order within each. A page that shows the login
\* has asked too.
LoadTenants ==
    /\ view.mode # "blank" /\ arriving \notin {None, {}}
    /\ clientList' = SetToSeq(arriving) \o SetToSeq(Range(clientList) \ arriving)
    /\ served' = served \cup Range(clientList)
    /\ view' = Enforced(view, clientList', "list")
    /\ arriving' = None
    /\ UNCHANGED remembered

\* The new tenant is opened at once; its POST may fail
HandleAddTenant(c, posted) ==
    /\ view.mode = "app" /\ IsSuperAdmin(view.user)
    /\ Content(view.user, view.nav) = "admin"
    /\ c \notin Range(clientList) \cup served
    /\ clientList' = Append(clientList, c)
    /\ view' = Enforced([view EXCEPT !.active = c], clientList', "list")
    /\ served' = IF posted THEN served \cup {c} ELSE served
    /\ UNCHANGED <<remembered, arriving>>

\* In the top bar, and in the list of tenants
SelectTenant(c) ==
    /\ view.mode = "app" /\ IsSuperAdmin(view.user)
    /\ c \in Range(clientList)
    /\ view' = [view EXCEPT !.active = c]
    /\ UNCHANGED <<remembered, clientList, served, arriving>>

SetCurrentNav(nav) ==
    /\ view.mode = "app"
    /\ view' = [view EXCEPT !.nav = nav]
    /\ UNCHANGED <<remembered, clientList, served, arriving>>

-----------------------------------------------------------------------------
ShellInit ==
    /\ remembered = None
    /\ clientList = FirstClients
    /\ view = [user |-> None, active |-> FirstClients[1], nav |-> "all", mode |-> "login"]
    /\ served = ServedClients
    /\ arriving = ServedClients

ShellNext ==
    \/ ReloadPage
    \/ \E u \in People : OnLoginSuccess(u)
    \/ HandleLogout
    \/ LoadTenants
    \/ \E c \in Clients :
         \/ \E posted \in BOOLEAN : HandleAddTenant(c, posted)
         \/ SelectTenant(c)
    \/ \E nav \in Groups : SetCurrentNav(nav)

ShellTypeOK ==
    /\ remembered \in People \cup {None}
    /\ Range(clientList) \subseteq Clients
    /\ view.mode \in {"login", "app", "blank"}
    /\ view.active \in Clients /\ view.nav \in Groups
    /\ (view.mode = "app") => view.user \in People

\* A user of one tenant works on that tenant alone as soon as the page knows
\* it: whoever used the browser before, whichever tenant comes first in its
\* list, and also if the tenant arrives with the answer of the server only
\* after the page was opened. (Until then the first tenant of the list is
\* open, whichever it is.)
OwnTenantOnly ==
    (view.mode = "app" /\ ~ IsSuperAdmin(view.user) /\ Knows(clientList, view.user))
        => view.active = view.user.tenant
=============================================================================
