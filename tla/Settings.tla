------------------------------ MODULE Settings ------------------------------
(* The platform's settings: the page of the super administrator and its two
   routes. A section is what mail, storage, queue or models are configured
   with: some plain fields and perhaps a secret. The page gets the secrets
   blanked, and saves all sections as it has them. The masks beside smtp, s3
   and redis say that a secret is set from the start and forever, and the five
   tests of a connection change nothing: they are left out.                 *)
EXTENDS Integers, NoRecord

CONSTANTS
    Sections,       \* smtp, s3, redis, ai, ... branding, security
    WithSecret,     \* those with a secret; None is the blank one
    KeptIfBlank,    \* smtp and s3: the page says that a blank secret is none
    Plain,          \* values of the other fields
    Secrets

VARIABLES
    settings,       \* store.systemSettings: [plain, secret]
    form,           \* what an open page has; None: none is open
    incoming,       \* the answer of GET on its way to the page; None: none
    entered         \* history: the last secret of a section that was typed and saved

settingsVars == <<settings, form, incoming, entered>>

\* What GET answers
Blanked(s) == [x \in Sections |-> [s[x] EXCEPT !.secret = None]]

\* What PUT stores: the section of the body, over what there was. A body from
\* the page has every field, so that nothing of the old section is left.
Saved(old, new) == new

\* The page opens with defaults and may be saved before the answer is there
OpenPage(default) ==
    /\ form = None
    /\ form' = [x \in Sections |-> [plain |-> default, secret |-> None]]
    /\ incoming' = Blanked(settings)
    /\ UNCHANGED <<settings, entered>>

\* What was loaded replaces every field, those that were typed meanwhile too
PageLoaded ==
    /\ form # None /\ incoming # None
    /\ form' = incoming
    /\ incoming' = None
    /\ UNCHANGED <<settings, entered>>

PageNotLoaded ==
    /\ incoming # None
    /\ incoming' = None
    /\ UNCHANGED <<settings, form, entered>>

TypePlain(x, p) ==
    /\ form # None /\ form[x].plain # p
    /\ form' = [form EXCEPT ![x].plain = p]
    /\ UNCHANGED <<settings, incoming, entered>>

TypeSecret(x, s) ==
    /\ form # None /\ x \in WithSecret /\ form[x].secret # s
    /\ form' = [form EXCEPT ![x].secret = s]
    /\ UNCHANGED <<settings, incoming, entered>>

HandleSaveSettings ==
    /\ form # None
    /\ settings' = [x \in Sections |-> Saved(settings[x], form[x])]
    /\ entered' = [x \in Sections |-> IF form[x].secret # None THEN form[x].secret
                                      ELSE entered[x]]
    /\ UNCHANGED <<form, incoming>>

\* What was typed and not saved is gone; a save that does not arrive leaves the page
ClosePage ==
    /\ form # None
    /\ form' = None /\ incoming' = None
    /\ UNCHANGED <<settings, entered>>

\* The settings the program comes with have no secret
SettingsInit ==
    /\ settings \in [Sections -> [plain : Plain, secret : {None}]]
    /\ form = None /\ incoming = None
    /\ entered = [x \in Sections |-> None]

SettingsNext ==
    \/ \E p \in Plain : OpenPage(p)
    \/ PageLoaded \/ PageNotLoaded \/ HandleSaveSettings \/ ClosePage
    \/ \E x \in Sections :
         \/ \E p \in Plain : TypePlain(x, p)
         \/ \E s \in Secrets \cup {None} : TypeSecret(x, s)

SettingsSpec == SettingsInit /\ [][SettingsNext]_settingsVars

SettingsTypeOK ==
    /\ settings \in [Sections -> [plain : Plain, secret : Secrets \cup {None}]]
    /\ {form, incoming} \ {None}
         \subseteq [Sections -> [plain : Plain, secret : Secrets \cup {None}]]
    /\ \A x \in Sections \ WithSecret : settings[x].secret = None
    /\ entered \in [Sections -> Secrets \cup {None}]

\* An empty password field keeps the password, as the page says: "Deixe em
\* branco para manter a atual" (SystemSettingsView.jsx:521, :627). The code
\* stores the empty field.
BlankKeepsSecret == \A x \in KeptIfBlank : settings[x].secret = entered[x]
=============================================================================
