-------------------------------- MODULE Chat --------------------------------
(* The AI console of a browser and the history of a tenant on the server.

   The route of a question awaits the language model and appends question and
   answer afterwards, to whatever the history is by then. The console shows
   the messages of the tenant it has: it keeps them in the browser at every
   change, and when the tenant is switched it shows the browser's copy and
   asks for the server's. It cancels nothing. Calls are handled when they are
   sent, answers take any time. A console without messages shows a greeting;
   warnings are left out.                                                   *)
EXTENDS Integers, Sequences, FiniteSets, NoRecord

CONSTANTS Consoles, Prompts, ChatTenants,
          MaxKept,          \* 60
          MaxLoads          \* bound: histories on their way to a console

ASSUME ChatAssumption == None \notin Consoles /\ MaxKept \in Nat

VARIABLES
    histories,  \* store.aiChatHistories
    thinking,   \* questions that wait for the model: [to, prompt, tenant]
    replies,    \* answers on their way: [to, prompt, tenant]
    loads,      \* histories on their way: [to, tenant, messages]
    console,    \* [tenant, shown, loading]
    kept,       \* localStorage: messages by tenant
    asked,      \* prompts used
    overtaken   \* history: consoles that were switched with a call under way

chatVars == <<histories, thinking, replies, loads, console, kept, asked, overtaken>>

Message(c, sender) == [prompt |-> c.prompt, tenant |-> c.tenant, sender |-> sender]

\* setMessages, and the effect that follows each change
Shows(b, messages) ==
    /\ console' = [console EXCEPT ![b].shown = messages]
    /\ kept' = [kept EXCEPT ![b][console[b].tenant] = messages]

-----------------------------------------------------------------------------
(* The server *)

Trimmed(h) == IF Len(h) > MaxKept THEN SubSeq(h, Len(h) - MaxKept + 1, Len(h)) ELSE h

\* What is answered to a request for a history, and what a clearing leaves
History(t) == histories[t]
Cleared(t) == [histories EXCEPT ![t] = <<>>]

Answered(c) ==
    /\ c \in thinking
    /\ thinking' = thinking \ {c}
    /\ histories' = [histories EXCEPT ![c.tenant] =
         Trimmed(@ \o <<Message(c, "user"), Message(c, "ai")>>)]
    /\ replies' = IF c.to = None THEN replies ELSE replies \cup {c}
    /\ UNCHANGED <<loads, console, kept, asked, overtaken>>

-----------------------------------------------------------------------------
(* The console *)

UnderWay(b) == {c \in thinking \cup replies : c.to = b}

\* mutant: the messages stay when the tenant is switched
SwitchTenantOnly(b, t) ==
    /\ t # console[b].tenant
    /\ Cardinality(loads) < MaxLoads
    /\ console' = [console EXCEPT ![b].tenant = t]
    /\ kept' = [kept EXCEPT ![b][t] = console[b].shown]
    /\ loads' = loads
    /\ overtaken' = IF \E x \in UnderWay(b) \cup loads : x.to = b
                    THEN overtaken \cup {b} ELSE overtaken
    /\ UNCHANGED <<histories, thinking, replies, asked>>

SwitchTenant(b, t) ==
    /\ t # console[b].tenant
    /\ Cardinality(loads) < MaxLoads
    /\ console' = [console EXCEPT ![b].tenant = t, ![b].shown = kept[b][t]]
    /\ loads' = loads \cup {[to |-> b, tenant |-> t, messages |-> History(t)]}
    /\ overtaken' = IF \E x \in UnderWay(b) \cup loads : x.to = b
                    THEN overtaken \cup {b} ELSE overtaken
    /\ UNCHANGED <<histories, thinking, replies, kept, asked>>

\* An empty history changes nothing; another one is kept under its tenant and
\* shown whatever the console has by now.
Loaded(l) ==
    /\ l \in loads
    /\ loads' = loads \ {l}
    /\ IF l.messages = <<>>
       THEN UNCHANGED <<console, kept>>
       ELSE /\ console' = [console EXCEPT ![l.to].shown = l.messages]
            /\ kept' = [kept EXCEPT ![l.to][l.tenant] = l.messages,
                                    ![l.to][console[l.to].tenant] = l.messages]
    /\ UNCHANGED <<histories, thinking, replies, asked, overtaken>>

LoadFails(l) ==
    /\ l \in loads
    /\ loads' = loads \ {l}
    /\ UNCHANGED <<histories, thinking, replies, console, kept, asked, overtaken>>

\* With a key the question is sent; without one, or when the call fails at
\* once, only the question stays on the screen.
HandleSend(b, p, sent) ==
    /\ p \notin asked /\ ~ console[b].loading
    /\ LET c == [to |-> b, prompt |-> p, tenant |-> console[b].tenant]
           messages == Append(console[b].shown, Message(c, "user"))
       IN /\ console' = [console EXCEPT ![b].shown = messages, ![b].loading = sent]
          /\ kept' = [kept EXCEPT ![b][c.tenant] = messages]
          /\ thinking' = IF sent THEN thinking \cup {c} ELSE thinking
    /\ asked' = asked \cup {p}
    /\ UNCHANGED <<histories, replies, loads, overtaken>>

Replied(c) ==
    /\ c \in replies
    /\ replies' = replies \ {c}
    /\ LET messages == Append(console[c.to].shown, Message(c, "ai"))
       IN /\ console' = [console EXCEPT ![c.to].shown = messages, ![c.to].loading = FALSE]
          /\ kept' = [kept EXCEPT ![c.to][console[c.to].tenant] = messages]
    /\ UNCHANGED <<histories, thinking, loads, asked, overtaken>>

\* The answer is lost: a warning is shown
ReplyFails(c) ==
    /\ c \in replies
    /\ replies' = replies \ {c}
    /\ console' = [console EXCEPT ![c.to].loading = FALSE]
    /\ UNCHANGED <<histories, thinking, loads, kept, asked, overtaken>>

\* The history on the server goes, or the call is lost
HandleClearChat(b, t) ==
    /\ t = console[b].tenant
    /\ Shows(b, <<>>)
    /\ histories' \in {histories, Cleared(t)}
    /\ UNCHANGED <<thinking, replies, loads, asked, overtaken>>

\* The operator goes to another screen and comes back: nothing that is under
\* way reaches the new console. (Not even loading is known to it.)
Reopen(b) ==
    /\ Cardinality({l \in loads : l.to # b}) < MaxLoads
    /\ console' = [console EXCEPT ![b].loading = FALSE,
                                  ![b].shown = kept[b][console[b].tenant]]
    /\ thinking' = {[c EXCEPT !.to = IF @ = b THEN None ELSE @] : c \in thinking}
    /\ replies' = {c \in replies : c.to # b}
    /\ loads' = {l \in loads : l.to # b}
                  \cup {[to |-> b, tenant |-> console[b].tenant,
                         messages |-> History(console[b].tenant)]}
    /\ UNCHANGED <<histories, kept, asked, overtaken>>

-----------------------------------------------------------------------------
ChatInit ==
    /\ histories = [t \in ChatTenants |-> <<>>]
    /\ thinking = {} /\ replies = {} /\ loads = {}
    /\ console \in [Consoles -> [tenant : ChatTenants, shown : {<<>>}, loading : {FALSE}]]
    /\ kept = [b \in Consoles |-> [t \in ChatTenants |-> <<>>]]
    /\ asked = {}
    /\ overtaken = {}

ChatNext ==
    \/ \E c \in thinking : Answered(c)
    \/ \E c \in replies : Replied(c) \/ ReplyFails(c)
    \/ \E l \in loads : Loaded(l) \/ LoadFails(l)
    \/ \E b \in Consoles :
         \/ \E t \in ChatTenants : SwitchTenant(b, t) \/ HandleClearChat(b, t)
         \/ \E p \in Prompts, sent \in BOOLEAN : HandleSend(b, p, sent)
         \/ Reopen(b)

ChatTypeOK ==
    /\ \A t \in ChatTenants : Len(histories[t]) =< MaxKept
    /\ \A c \in thinking \cup replies :
         c \in [to : Consoles \cup {None}, prompt : Prompts, tenant : ChatTenants]
    /\ \A b \in Consoles :
         /\ console[b].tenant \in ChatTenants /\ console[b].loading \in BOOLEAN
         /\ console[b].shown = kept[b][console[b].tenant]
    /\ asked \subseteq Prompts /\ overtaken \subseteq Consoles

\* A console shows, and keeps, messages of its own tenant: "Persistência
\* automática do chat por tenant" (README.md). The code guarantees it only
\* as long as nobody switches the tenant while an answer or a history is
\* on its way, for those are shown and kept under the tenant that is open then.
TenantsApartUnlessOvertaken ==
    \A b \in Consoles \ overtaken, t \in ChatTenants :
        \A i \in 1..Len(kept[b][t]) : kept[b][t][i].tenant = t
=============================================================================
