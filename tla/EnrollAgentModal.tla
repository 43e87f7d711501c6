--------------------------- MODULE EnrollAgentModal ---------------------------
(* The dialog in which an operator has a token of one use made for a server of
   the active tenant. The dialog is hidden rather than removed when it is
   closed, so that a token it holds, or waits for, outlives a change of the
   tenant; only a reload of the page drops it.                              *)
EXTENDS NoRecord

CONSTANT Owners      \* tenants

VARIABLES
    owner,      \* activeTenant
    isOpen,
    tokenData,      \* None, the tenant the token was made for, or Gone: it was
                    \* made up by the page
    making         \* None, or the tenant of the request

modalVars == <<owner, isOpen, tokenData, making>>

\* The dialog covers the menu of tenants
SetActiveTenant(t) ==
    /\ ~ isOpen
    /\ owner' = t
    /\ UNCHANGED <<isOpen, tokenData, making>>

OpenModal ==
    /\ ~ isOpen
    /\ isOpen' = TRUE
    /\ UNCHANGED <<owner, tokenData, making>>

CloseModal ==
    /\ isOpen
    /\ isOpen' = FALSE
    /\ UNCHANGED <<owner, tokenData, making>>

\* What the operator copies
CommandShown == isOpen /\ tokenData # None

\* The button is there only without a token, and disabled while one is made
HandleGenerateToken ==
    /\ isOpen /\ ~ CommandShown /\ making = None
    /\ making' = owner
    /\ UNCHANGED <<owner, isOpen, tokenData>>

\* POST /agent/enrollment/token answers for the tenant it was asked for.
\* Without an answer the page makes a token up, which no server knows.
TokenArrives(answered) ==
    /\ making # None
    /\ tokenData' = IF answered THEN making ELSE Gone
    /\ making' = None
    /\ UNCHANGED <<owner, isOpen>>

Reload ==
    /\ isOpen' = FALSE /\ tokenData' = None /\ making' = None
    /\ UNCHANGED owner

ModalInit ==
    /\ owner \in Owners
    /\ isOpen = FALSE /\ tokenData = None /\ making = None

ModalNext ==
    \/ \E t \in Owners : SetActiveTenant(t)
    \/ OpenModal \/ CloseModal \/ HandleGenerateToken \/ Reload
    \/ \E answered \in BOOLEAN : TokenArrives(answered)

ModalTypeOK ==
    /\ owner \in Owners /\ isOpen \in BOOLEAN
    /\ tokenData \in Owners \cup {None, Gone}
    /\ making \in Owners \cup {None}
=============================================================================
