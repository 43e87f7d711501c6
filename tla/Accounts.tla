------------------------------- MODULE Accounts -------------------------------
(* Passwords: the users of the store, recovery codes, and the login page.

   A user is found by e-mail, and the first one counts: nothing keeps a second
   user from having the same e-mail. A form of an administrator sends back all
   fields it shows, as they were when it was opened, and a password only if
   one was typed.

   What a token is worth is not modelled: no route asks for one.            *)
EXTENDS Integers, Sequences, NoRecord

CONSTANTS
    Emails, SuperEmails,    \* addresses; those of the operators of the platform
    Passwords, SuperPass,   \* passwords; SUPERADMIN_PASSWORD
    Forms,                  \* what a form of an administrator may send: [pass, must, active]
    MaxUsers, MaxCodes      \* bounds of the model

ASSUME AccountsAssumption ==
    /\ SuperEmails \subseteq Emails /\ SuperPass \in Passwords
    /\ None \notin Passwords \cup Emails
    /\ Forms \subseteq [pass : Passwords \cup {None}, must : BOOLEAN, active : BOOLEAN]
    /\ MaxUsers \in Nat /\ MaxCodes \in Nat

VARIABLES
    users,      \* store.users
    codes,      \* store.passwordResets; the position of an entry is its code
    page,       \* the login page: its step, and what was typed or answered
    chosen      \* history: the password each address set for itself last, if
                \* no administrator touched the account since

accountsVars == <<users, codes, page, chosen>>

FirstPage == [step |-> "login", email |-> None, password |-> None, code |-> 0]

Find(e) ==
    LET found == {k \in DOMAIN users : users[k].email = e}
    IN IF found = {} THEN 0 ELSE CHOOSE k \in found : \A l \in found : k =< l

-----------------------------------------------------------------------------
(* Login *)

\* A user without a password has the one of the platform
Expected(k) == IF users[k].pass = None THEN SuperPass ELSE users[k].pass

Login(e, p) ==
    IF e \in SuperEmails /\ p = SuperPass THEN "in"
    ELSE IF Find(e) = 0 \/ ~ users[Find(e)].active \/ p \notin {Expected(Find(e)), SuperPass}
         THEN "refused"
    ELSE IF users[Find(e)].must THEN "first_access" ELSE "in"

HandleLoginSubmit(e, p) ==
    /\ page.step = "login"
    /\ page' = IF Login(e, p) = "refused" THEN page
               ELSE [page EXCEPT !.step = Login(e, p), !.email = e, !.password = p]
    /\ UNCHANGED <<users, codes, chosen>>

\* The page lets the operators of the platform in when the server fails
OfflineLogin(e) ==
    /\ page.step = "login" /\ e \in SuperEmails
    /\ page' = [page EXCEPT !.step = "in", !.email = e, !.password = SuperPass]
    /\ UNCHANGED <<users, codes, chosen>>

SetPassword(k, p) == [users EXCEPT ![k].pass = p, ![k].must = FALSE]

\* Whether the user is active is not asked
ChangePassword(e, old, p) ==
    LET k == Find(e)
    IN k # 0 /\ old \in {Expected(k), SuperPass} /\ users' = SetPassword(k, p)

HandleFirstAccessChangeSubmit(p) ==
    /\ page.step = "first_access"
    /\ ChangePassword(page.email, page.password, p)
    /\ page' = [page EXCEPT !.step = "in"]
    /\ chosen' = [chosen EXCEPT ![page.email] = p]
    /\ UNCHANGED codes

-----------------------------------------------------------------------------
(* Recovery *)

\* The code, or 0 where the answer only looks like one
ForgotPassword(e) ==
    IF Find(e) = 0 /\ e \notin SuperEmails THEN 0 ELSE Len(codes) + 1

HandleForgotPasswordSubmit(e) ==
    /\ page.step = "login"
    /\ IF ForgotPassword(e) = 0
       THEN UNCHANGED codes
       ELSE /\ Len(codes) < MaxCodes
            /\ codes' = Append(codes, [email |-> e, used |-> FALSE, expired |-> FALSE])
    /\ page' = [page EXCEPT !.step = "reset", !.email = e,
                            !.code = IF ForgotPassword(e) = 0 THEN @ ELSE ForgotPassword(e)]
    /\ UNCHANGED <<users, chosen>>

\* Any code of the address will do: that of an older request too. An operator
\* of the platform without a user has the success answered and nothing changed.
ResetPassword(e, c, p) ==
    /\ codes[c].email = e /\ ~ codes[c].used /\ ~ codes[c].expired
    /\ codes' = [codes EXCEPT ![c].used = TRUE]
    /\ users' = IF Find(e) = 0 THEN users ELSE SetPassword(Find(e), p)

HandleResetPasswordSubmit(c, p) ==
    /\ page.step = "reset"
    /\ ResetPassword(page.email, c, p)
    /\ chosen' = IF Find(page.email) = 0 THEN chosen ELSE [chosen EXCEPT ![page.email] = p]
    /\ page' = [page EXCEPT !.step = "login", !.password = p]

CodeExpires(c) ==
    /\ c \in DOMAIN codes /\ ~ codes[c].expired
    /\ codes' = [codes EXCEPT ![c].expired = TRUE]
    /\ UNCHANGED <<users, page, chosen>>

\* Logging out, or a fresh page
LeavePage ==
    /\ page # FirstPage
    /\ page' = FirstPage
    /\ UNCHANGED <<users, codes, chosen>>

-----------------------------------------------------------------------------
(* Administrators *)

Forget(addresses) == [e \in Emails |-> IF e \in addresses THEN None ELSE chosen[e]]

\* The address may be taken, and need not be new to `chosen`: a user behind
\* another one of the same address changes nothing for it
CreateUser(e, form) ==
    /\ Len(users) < MaxUsers
    /\ users' = Append(users, [email |-> e, must |-> form.must, active |-> TRUE,
                               pass |-> IF form.pass = None THEN SuperPass ELSE form.pass])
    /\ UNCHANGED <<codes, page, chosen>>

\* mutant: a password that is not sent is emptied
EditedWhole(user, e, form) ==
    [email |-> e, pass |-> form.pass, must |-> form.must, active |-> form.active]

Edited(user, e, form) ==
    [email |-> e, pass |-> IF form.pass = None THEN user.pass ELSE form.pass,
     must |-> form.must, active |-> form.active]

\* An edit that moves an account or gives it a password ends what its owner
\* chose; one of the other fields does not
UpdateUser(k, e, form) ==
    /\ k \in DOMAIN users
    /\ users' = [users EXCEPT ![k] = Edited(@, e, form)]
    /\ chosen' = IF users[k].email = e /\ form.pass = None THEN chosen
                 ELSE Forget({users[k].email, e})
    /\ UNCHANGED <<codes, page>>

DeleteUser(k) ==
    /\ k \in DOMAIN users
    /\ users' = SubSeq(users, 1, k - 1) \o SubSeq(users, k + 1, Len(users))
    /\ chosen' = Forget({users[k].email})
    /\ UNCHANGED <<codes, page>>

-----------------------------------------------------------------------------
AccountsInit ==
    /\ users = <<>> /\ codes = <<>>
    /\ page = FirstPage
    /\ chosen = [e \in Emails |-> None]

AccountsNext ==
    \/ \E e \in Emails :
         \/ HandleForgotPasswordSubmit(e) \/ OfflineLogin(e)
         \/ \E p \in Passwords : HandleLoginSubmit(e, p)
    \/ \E p \in Passwords :
         \/ HandleFirstAccessChangeSubmit(p)
         \/ \E c \in DOMAIN codes : HandleResetPasswordSubmit(c, p)
    \/ \E c \in DOMAIN codes : CodeExpires(c)
    \/ LeavePage
    \/ \E e \in Emails, form \in Forms :
         \/ CreateUser(e, form)
         \/ \E k \in DOMAIN users : UpdateUser(k, e, form)
    \/ \E k \in DOMAIN users : DeleteUser(k)

AccountsTypeOK ==
    /\ \A k \in DOMAIN users :
         users[k] \in [email : Emails, pass : Passwords, must : BOOLEAN, active : BOOLEAN]
    /\ \A c \in DOMAIN codes :
         codes[c] \in [email : Emails, used : BOOLEAN, expired : BOOLEAN]
    /\ page.step \in {"login", "first_access", "reset", "in"}
    /\ chosen \in [Emails -> Passwords \cup {None}]

\* The password that somebody set at the first access or with a recovery code
\* opens the account, whenever it is active, until an administrator moves the
\* account or gives it another password: edits of other fields, further users
\* of the same address and older codes on their way do not undo it.
OwnPasswordWorks ==
    \A e \in Emails :
        (chosen[e] # None /\ users[Find(e)].active) => Login(e, chosen[e]) # "refused"
=============================================================================
