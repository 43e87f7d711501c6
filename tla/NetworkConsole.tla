---------------------------- MODULE NetworkConsole ----------------------------
(* The page of routers and their WAN links, NetworkDevicesView.jsx, and what it
   asks of the server: which router is selected, whose links and snapshots are
   shown, and what a click on them changes.

   Answers of the server are not tied to the selection they were requested under:
   a late list of routers selects again the router that was selected when it
   was requested for, and late details are shown under whatever is selected now.
   The page asks for the list whenever the selection changes, and for details
   every ten seconds. A dialogue covers the page, but not its answers. Buttons
   that wait for the end of a load are left enabled here: any of two loads that
   overlap enables them.

   A router that is deleted may be selected again by a list that was requested
   before: the page shows nothing of it then.

   Each router has the same number of links, none of them down; how a switch
   is carried out in detail is in WanControl.                                *)
EXTENDS Integers, FiniteSets, Sequences, NoRecord

CONSTANTS
    Boxes,          \* routers of the tenant
    FirstBox,       \* the first of the list
    Wans,           \* links of a router
    FirstWan,       \* its primary to begin with
    MaxAsked        \* bound of the model: requests of the page under way

ASSUME NetworkConsoleAssumption ==
    FirstBox \in Boxes /\ FirstWan \in Wans /\ None \notin Boxes \cup Wans

VARIABLES
    existing,       \* the server: its routers
    primaryOf,      \*   the primary link of each router, or None
    taken,          \*   and the snapshots, [box, primary]; all are kept
    selected,       \* the page: selectedDeviceId
    shownOf,        \*   the router whose links and snapshots are shown
    dialogue,       \*   the link that is about to be made primary, [box, wan],
                    \*   or Deletion
    requested,          \*   requests under way, [what, box]
    crossed         \* history: a snapshot was rolled back on another router

consoleVars == <<existing, primaryOf, taken, selected, shownOf, dialogue, requested, crossed>>

\* Asks for the router that is selected
Deletion == [box |-> None, wan |-> None]

-----------------------------------------------------------------------------
(* The server *)

\* mutant: the target is not looked for before the links are changed
SetPrimaryUnchecked(box, target) ==
    /\ primaryOf' = [primaryOf EXCEPT ![box] = IF target.box = box THEN target.wan ELSE None]
    /\ taken' = taken \cup {[box |-> box, primary |-> primaryOf[box]]}

\* A link is looked for among those of the router of the request, whose links
\* are the only ones that change. A refused request takes no snapshot.
SetPrimary(box, target) ==
    IF target.box = box
    THEN /\ primaryOf' = [primaryOf EXCEPT ![box] = target.wan]
         /\ taken' = taken \cup {[box |-> box, primary |-> primaryOf[box]]}
    ELSE UNCHANGED <<primaryOf, taken>>

\* Its snapshots stay
RemoveBox == existing' = existing \ {selected}

\* A snapshot is found by its id alone, and one that has no primary changes
\* nothing; no link of the router has the id of a link of another one, and none
\* is left as the primary then.
Rollback(box, snapshot) ==
    /\ primaryOf' =
         IF snapshot.primary = None THEN primaryOf
         ELSE [primaryOf EXCEPT ![box] =
                 IF snapshot.box = box THEN snapshot.primary ELSE None]
    /\ taken' = taken \cup {[box |-> box, primary |-> primaryOf[box]]}

-----------------------------------------------------------------------------
(* The page *)

AllData(box) == [what |-> "all", box |-> box]
Details(box) == [what |-> "details", box |-> box]

Ask(requests) == Cardinality(requested \cup requests) =< MaxAsked

\* The effect of a selection: loadAllData under the selection it has now
Select(box, rest, requests) ==
    /\ selected' = box
    /\ LET next == rest \cup requests \cup (IF box = selected THEN {} ELSE {AllData(box)})
       IN requested' = next /\ Cardinality(next) =< MaxAsked

HandleSelectDevice(box) ==
    /\ dialogue = None /\ box \in existing
    /\ Select(box, requested, {Details(box)})
    /\ UNCHANGED <<existing, primaryOf, taken, shownOf, dialogue, crossed>>

Poll ==
    /\ selected # None
    /\ Ask({Details(selected)})
    /\ requested' = requested \cup {Details(selected)}
    /\ UNCHANGED <<existing, primaryOf, taken, selected, shownOf, dialogue, crossed>>

\* The first router of the list, where none was selected
Current(request) ==
    IF request.box # None THEN request.box
    ELSE IF FirstBox \in existing THEN FirstBox
    ELSE CHOOSE box \in existing : TRUE

LoadAllData(request) ==
    /\ request.what = "all"
    /\ IF request.box = None /\ existing = {}
       THEN /\ requested' = requested \ {request}
            /\ UNCHANGED selected
       ELSE Select(Current(request), requested \ {request}, {Details(Current(request))})
    /\ UNCHANGED <<existing, primaryOf, taken, shownOf, dialogue, crossed>>

LoadDeviceDetails(request) ==
    /\ request.what = "details"
    /\ shownOf' = request.box
    /\ requested' = requested \ {request}
    /\ UNCHANGED <<existing, primaryOf, taken, selected, dialogue, crossed>>

\* A request that fails is logged
DataFails(request) ==
    /\ requested' = requested \ {request}
    /\ UNCHANGED <<existing, primaryOf, taken, selected, shownOf, dialogue, crossed>>

\* Offered for a link the page does not show as the primary; what it shows may
\* be old, so any link can be one
OpenDialogue(wan) ==
    /\ dialogue = None /\ shownOf # None /\ selected \in existing
    /\ dialogue' = [box |-> shownOf, wan |-> wan]
    /\ UNCHANGED <<existing, primaryOf, taken, selected, shownOf, requested, crossed>>

OpenDeletion ==
    /\ dialogue = None /\ selected \in existing
    /\ dialogue' = Deletion
    /\ UNCHANGED <<existing, primaryOf, taken, selected, shownOf, requested, crossed>>

CloseDialogue ==
    /\ dialogue # None
    /\ dialogue' = None
    /\ UNCHANGED <<existing, primaryOf, taken, selected, shownOf, requested, crossed>>

\* A refusal leaves the dialogue open
HandleExecuteSetPrimaryWan ==
    /\ selected \in existing /\ dialogue \notin {None, Deletion}
    /\ SetPrimary(selected, dialogue)
    /\ IF dialogue.box = selected
       THEN /\ dialogue' = None
            /\ Ask({Details(selected)})
            /\ requested' = requested \cup {Details(selected)}
       ELSE UNCHANGED <<dialogue, requested>>
    /\ UNCHANGED <<existing, selected, shownOf, crossed>>

HandleExecuteRollback(snapshot) ==
    /\ selected \in existing /\ dialogue = None /\ snapshot.box = shownOf
    /\ Rollback(selected, snapshot)
    /\ crossed' = (crossed \/ snapshot.box # selected)
    /\ Ask({Details(selected)})
    /\ requested' = requested \cup {Details(selected)}
    /\ UNCHANGED <<existing, selected, shownOf, dialogue>>

\* Whatever is selected by now; the list is loaded once with the selection gone,
\* and once with the one that was deleted
HandleDeleteDevice ==
    /\ selected \in existing /\ dialogue = Deletion
    /\ RemoveBox
    /\ dialogue' = None /\ selected' = None
    /\ Ask({AllData(selected), AllData(None)})
    /\ requested' = requested \cup {AllData(selected), AllData(None)}
    /\ UNCHANGED <<primaryOf, taken, shownOf, crossed>>

-----------------------------------------------------------------------------
ConsoleInit ==
    /\ existing = Boxes
    /\ primaryOf = [box \in Boxes |-> FirstWan]
    /\ taken = {}
    /\ selected = None /\ shownOf = None /\ dialogue = None
    /\ requested = {AllData(None)}
    /\ crossed = FALSE

ConsoleNext ==
    \/ \E box \in Boxes : HandleSelectDevice(box)
    \/ Poll
    \/ \E request \in requested :
         \/ LoadAllData(request)
         \/ LoadDeviceDetails(request)
         \/ DataFails(request)
    \/ \E wan \in Wans : OpenDialogue(wan)
    \/ OpenDeletion \/ CloseDialogue \/ HandleDeleteDevice
    \/ HandleExecuteSetPrimaryWan
    \/ \E snapshot \in taken : HandleExecuteRollback(snapshot)

ConsoleTypeOK ==
    /\ existing \subseteq Boxes
    /\ primaryOf \in [Boxes -> Wans \cup {None}]
    /\ taken \subseteq [box : Boxes, primary : Wans \cup {None}]
    /\ {selected, shownOf} \subseteq Boxes \cup {None}
    /\ dialogue \in {None, Deletion} \cup [box : Boxes, wan : Wans]
    /\ requested \subseteq [what : {"all", "details"}, box : Boxes \cup {None}]
    /\ crossed \in BOOLEAN

\* A router keeps a primary link, however the selection jumps between a click
\* and its request, and whatever is still shown of another router: a switch
\* whose link is not one of the router is refused. The exception is the roll
\* back of a snapshot that was shown of another router, which is not refused
\* and leaves the router that is selected now without a primary.
PrimaryKeptUnlessCrossed ==
    \A box \in existing : primaryOf[box] = None => crossed
=============================================================================
