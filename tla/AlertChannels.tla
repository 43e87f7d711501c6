--------------------------- MODULE AlertChannels ---------------------------
(* Alert channels: the screen that keeps them and the routes that store them.

   The screen names a new channel itself, changes its list and sends the call
   without waiting; only an edit waits for its answer (whatever that is) and
   then shows what was in the form. Calls arrive in any order or not at all.
   A load replaces the list, unless it is empty, for then what the browser
   kept stays on the screen.                                                *)
EXTENDS Integers, Sequences, NoRecord

CONSTANTS
    Channels,           \* ids a screen draws
    Configs,            \* what a form says of a channel: name, type, severity, config
    MaxCalls            \* bound: channelCalls on their way

VARIABLES
    channelStore,     \* store.alertChannels: [enabled, config]
    shown,      \* the list of the screen
    channelCache,     \* localStorage, written by a load only
    channelCalls,      \* channelCalls on their way, in the order they were sent
    loading,    \* the answer of a load on its way; None: no load
    editing,    \* the edit whose answer the form waits for; None: none
    disturbed   \* history: a call was lost or overtaken, a load crossed a change,
                \* failed, or found the store empty

\* POST /api/alert-channels and what the screen draws: a name, a type and the rest
Channel == [enabled : BOOLEAN, config : Configs]

ChannelLists == [Channels -> {Unused, Gone} \cup Channel]

ChannelEdits == [id : Channels, body : Channel]

ASSUME AlertChannelsAssumption ==
    /\ MaxCalls \in Nat
    /\ None \notin ChannelLists \cup ChannelEdits /\ {Unused, Gone} \cap Channel = {}

channelVars == <<channelStore, shown, channelCache, channelCalls, loading, editing, disturbed>>

There(list, c) == list[c] \notin {None, Unused, Gone}

Listed(list) == {c \in Channels : There(list, c)}

-----------------------------------------------------------------------------
(* The routes *)

\* mutant: the id a screen sends is not used, the server draws one
PostedAs(list, c) ==
    LET free == {d \in Channels : list[d] = Unused /\ d # c}
    IN IF free = {} THEN c ELSE CHOOSE d \in free : TRUE

\* POST: under the id of the body
Posted(list, c) == c

\* PUT spreads the body over the record, DELETE filters; 404 for what is not there
Handled(list, call) ==
    CASE call.kind = "POST"   -> [list EXCEPT ![Posted(list, call.id)] = call.body]
      [] call.kind = "PUT"    -> IF There(list, call.id)
                                 THEN [list EXCEPT ![call.id] = call.body] ELSE list
      [] call.kind = "TOGGLE" -> IF There(list, call.id)
                                 THEN [list EXCEPT ![call.id].enabled = call.body.enabled] ELSE list
      [] call.kind = "DELETE" -> IF There(list, call.id)
                                 THEN [list EXCEPT ![call.id] = Gone] ELSE list

Without(s, i) == SubSeq(s, 1, i - 1) \o SubSeq(s, i + 1, Len(s))

\* An answered edit is shown; nothing else waits for an answer
Arrives(i) ==
    /\ i \in 1..Len(channelCalls)
    /\ channelStore' = Handled(channelStore, channelCalls[i])
    /\ IF channelCalls[i].kind = "PUT" /\ editing # None
       THEN /\ shown' = [shown EXCEPT ![editing.id] = editing.body]
            /\ editing' = None
       ELSE UNCHANGED <<shown, editing>>
    /\ disturbed' = (disturbed \/ i > 1)
    /\ channelCalls' = Without(channelCalls, i)
    /\ UNCHANGED <<channelCache, loading>>

IsLost(i) ==
    /\ i \in 1..Len(channelCalls)
    /\ editing' = IF channelCalls[i].kind = "PUT" THEN None ELSE editing
    /\ channelCalls' = Without(channelCalls, i)
    /\ disturbed' = TRUE
    /\ UNCHANGED <<channelStore, shown, channelCache, loading>>

-----------------------------------------------------------------------------
(* The screen *)

Send(kind, c, body) ==
    /\ Len(channelCalls) < MaxCalls
    /\ channelCalls' = Append(channelCalls, [kind |-> kind, id |-> c, body |-> body])
    /\ disturbed' = (disturbed \/ loading # None)

HandleSaveNew(c, config) ==
    /\ editing = None
    /\ {shown[c], channelStore[c], channelCache[c]} = {Unused}
    /\ \A i \in 1..Len(channelCalls) : channelCalls[i].id # c
    /\ LET new == [enabled |-> TRUE, config |-> config]
       IN Send("POST", c, new) /\ shown' = [shown EXCEPT ![c] = new]
    /\ UNCHANGED <<channelStore, channelCache, loading, editing>>

\* The whole form is sent, with the switch as it was when the form was opened
HandleSaveEdit(c, config) ==
    /\ editing = None /\ There(shown, c)
    /\ LET body == [shown[c] EXCEPT !.config = config]
       IN Send("PUT", c, body) /\ editing' = [id |-> c, body |-> body]
    /\ UNCHANGED <<channelStore, shown, channelCache, loading>>

HandleToggleChannel(c) ==
    /\ editing = None /\ There(shown, c)
    /\ LET body == [shown[c] EXCEPT !.enabled = ~ @]
       IN Send("TOGGLE", c, body) /\ shown' = [shown EXCEPT ![c] = body]
    /\ UNCHANGED <<channelStore, channelCache, loading, editing>>

HandleDeleteChannel(c) ==
    /\ editing = None /\ There(shown, c)
    /\ Send("DELETE", c, None)
    /\ shown' = [shown EXCEPT ![c] = Gone]
    /\ UNCHANGED <<channelStore, channelCache, loading, editing>>

\* When the screen opens or the tenant is switched
FetchChannels ==
    /\ loading = None /\ editing = None
    /\ loading' = channelStore
    /\ disturbed' = (disturbed \/ channelCalls # <<>>)
    /\ UNCHANGED <<channelStore, shown, channelCache, channelCalls, editing>>

ChannelsLoaded ==
    /\ loading # None /\ editing = None
    /\ loading' = None
    /\ IF Listed(loading) # {}
       THEN shown' = loading /\ channelCache' = loading /\ UNCHANGED disturbed
       ELSE /\ UNCHANGED <<shown, channelCache>>
            /\ disturbed' = (disturbed \/ Listed(shown) # {})
    /\ UNCHANGED <<channelStore, channelCalls, editing>>

\* What the browser kept stays on the screen
ChannelsNotLoaded ==
    /\ loading # None
    /\ loading' = None /\ disturbed' = TRUE
    /\ UNCHANGED <<channelStore, shown, channelCache, channelCalls, editing>>

\* The screen is left and opened again: it starts from what the browser kept
ReopenScreen ==
    /\ shown' = channelCache
    /\ loading' = channelStore
    /\ editing' = None
    /\ disturbed' = (disturbed \/ channelCalls # <<>>)
    /\ UNCHANGED <<channelStore, channelCache, channelCalls>>

-----------------------------------------------------------------------------
\* Both sides begin with the same list; the screen's came with the program
ChannelsInit ==
    \E list \in [Channels -> {Unused} \cup [enabled : {TRUE}, config : Configs]] :
        /\ channelStore = list /\ shown = list /\ channelCache = list
        /\ channelCalls = <<>> /\ loading = None /\ editing = None
        /\ disturbed = FALSE

ChannelsNext ==
    \/ \E i \in 1..MaxCalls : Arrives(i) \/ IsLost(i)
    \/ \E c \in Channels :
         \/ \E config \in Configs : HandleSaveNew(c, config) \/ HandleSaveEdit(c, config)
         \/ HandleToggleChannel(c) \/ HandleDeleteChannel(c)
    \/ FetchChannels \/ ChannelsLoaded \/ ChannelsNotLoaded \/ ReopenScreen

ChannelsTypeOK ==
    /\ {channelStore, shown, channelCache} \subseteq ChannelLists
    /\ loading = None \/ loading \in ChannelLists
    /\ Len(channelCalls) =< MaxCalls
    /\ editing = None \/ editing \in ChannelEdits

\* When nothing is under way, nothing was lost and nothing overtook anything,
\* the screen shows what is stored, although it changes its list on its own and
\* never looks at an answer. (A store without any channel disturbs too: the
\* screen then goes on showing what the browser kept, deleted channels as well.)
InStepWhenQuiet ==
    (~ disturbed /\ channelCalls = <<>> /\ loading = None)
        => \A c \in Listed(channelStore) \cup Listed(shown) : shown[c] = channelStore[c]
=============================================================================
