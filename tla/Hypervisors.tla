----------------------------- MODULE Hypervisors -----------------------------
(* Hypervisor integrations in a browser, and the resources that the page makes
   up for them beside those that were typed or loaded.

   Whenever the list of integrations changes, an effect of the page goes
   through it and, for each one, replaces all resources of its tenant by what
   that integration is taken to have: only the last one of a tenant keeps its
   own. The lists are saved in localStorage, loaded and merged like those of
   the module Directory, each on its own; posts may be late or lost.

   Nodes and workloads are two lists with the same code: `sort` says which one
   this is. No node is typed.                                               *)
EXTENDS Integers, Sequences, SequencesExt

CONSTANTS
    Workspaces,     \* tenants
    Hypervisors,    \* ids of integrations; also what stands for the nodes (or
                    \* workloads) made up for one, whose ids derive from its id
    Machines,       \* ids of resources that are typed
    WorkspaceOf,    \* [Hypervisors \cup Machines -> Workspaces]
    FirstLink, FirstRow,    \* of the defaults
    Elsewhere       \* integrations and resources that another browser posts

ASSUME HypervisorsAssumption ==
    /\ Hypervisors \cap Machines = {} /\ FirstLink \in Hypervisors /\ FirstRow \in Machines
    /\ WorkspaceOf[FirstLink] = WorkspaceOf[FirstRow]
    /\ Elsewhere \subseteq Hypervisors \cup Machines
    /\ WorkspaceOf \in [Hypervisors \cup Machines -> Workspaces]

VARIABLES
    sort,           \* "nodes" or "workloads"
    links, inventory,   \* the page: its integrations in order, its resources
    storedLinks, storedRows,    \* the server: the same
    posted,         \* posts on their way, <<list, id>>
    fetching,       \* lists the page has asked for
    typedHere       \* history: resources typed in this browser

hypervisorVars ==
    <<sort, links, inventory, storedLinks, storedRows, posted, fetching, typedHere>>

Rows == Hypervisors \cup Machines

-----------------------------------------------------------------------------
(* The lists of the page *)

\* What an integration is taken to have, reached or not
Generated(h) == {h}

\* mutant: whatever is inventory makes room, of every tenant
ReplacedAll(rows, h) == Generated(h)

\* All of the tenant's resources make room for those of one integration
Replaced(rows, h) ==
    {r \in rows : WorkspaceOf[r] # WorkspaceOf[h]} \cup Generated(h)

\* The effect that runs when the integrations change
AutoSync(rows, hs) ==
    LET after[i \in 0..Len(hs)] == IF i = 0 THEN rows ELSE Replaced(after[i - 1], hs[i])
    IN after[Len(hs)]

\* Rows of the server first, then those it lacks
MergedLinks(local, remote) ==
    LET merged[i \in 0..Len(local)] ==
            IF i = 0 THEN remote
            ELSE IF Contains(remote, local[i]) THEN merged[i - 1]
                                               ELSE Append(merged[i - 1], local[i])
    IN merged[Len(local)]

Posts(list, ids) == {<<list, i>> : i \in ids}

-----------------------------------------------------------------------------
(* Dialogs. The active tenant may be any. *)

HandleAddIntegration(h) ==
    /\ h \notin Elsewhere /\ ~ Contains(links, h)
    /\ links' = Append(links, h)
    /\ inventory' = AutoSync(Replaced(inventory, h), links')
    /\ posted' = posted \cup Posts("integrations", {h})
    /\ UNCHANGED <<sort, storedLinks, storedRows, fetching, typedHere>>

\* The row changes in its fields only, but the list is a new one
HandleUpdateIntegration(h) ==
    /\ Contains(links, h)
    /\ inventory' = AutoSync(inventory, links)
    /\ UNCHANGED <<sort, links, storedLinks, storedRows, posted, fetching, typedHere>>

\* An answer of the server has counts, and no resource to show. Without one the
\* page adds what it makes up. Either way the list of integrations is a new one.
HandleTriggerSync(h, answered) ==
    /\ Contains(links, h)
    /\ inventory' = AutoSync(IF answered THEN inventory ELSE inventory \cup Generated(h), links)
    /\ UNCHANGED <<sort, links, storedLinks, storedRows, posted, fetching, typedHere>>

\* The effect follows the integrations only, so does not run
HandleAddWorkload(m) ==
    /\ m \notin Elsewhere \cup typedHere \cup {FirstRow}
    /\ inventory' = inventory \cup {m}
    /\ typedHere' = typedHere \cup {m}
    /\ posted' = posted \cup Posts("resources", {m})
    /\ UNCHANGED <<sort, links, storedLinks, storedRows, fetching>>

\* The dialog of a hypervisor: a new one, or the row it was opened on
HandleSave(h) == HandleAddIntegration(h) \/ HandleUpdateIntegration(h)

\* The rows of the table
HandleSyncClick(h) == \E answered \in BOOLEAN : HandleTriggerSync(h, answered)

\* The dialog of a server. There is none for a node.
HandleSubmit(m) == sort = "workloads" /\ HandleAddWorkload(m)

-----------------------------------------------------------------------------
(* Loads. The lists of the server have its defaults at least, so are never empty *)

\* The lists of localStorage, and the effect on them
MountApp ==
    /\ fetching' = {"integrations", "resources"}
    /\ inventory' = AutoSync(inventory, links)
    /\ UNCHANGED <<sort, links, storedLinks, storedRows, posted, typedHere>>

ReceiveIntegrations ==
    /\ "integrations" \in fetching
    /\ fetching' = fetching \ {"integrations"}
    /\ links' = MergedLinks(links, storedLinks)
    /\ inventory' = AutoSync(inventory, links')
    /\ posted' = posted \cup Posts("integrations", Range(links) \ Range(storedLinks))
    /\ UNCHANGED <<sort, storedLinks, storedRows, typedHere>>

ReceiveResources ==
    /\ "resources" \in fetching
    /\ fetching' = fetching \ {"resources"}
    /\ inventory' = inventory \cup storedRows
    /\ posted' = posted \cup Posts("resources", inventory \ storedRows)
    /\ UNCHANGED <<sort, links, storedLinks, storedRows, typedHere>>

LoseLoad(l) ==
    /\ l \in fetching
    /\ fetching' = fetching \ {l}
    /\ UNCHANGED <<sort, links, inventory, storedLinks, storedRows, posted,
                   typedHere>>

-----------------------------------------------------------------------------
(* The server *)

\* POST /integrations, /nodes, /workloads. A second copy changes no merge.
Store(list, id) ==
    /\ storedLinks' = IF list = "integrations" /\ ~ Contains(storedLinks, id)
                      THEN Append(storedLinks, id) ELSE storedLinks
    /\ storedRows' = IF list = "resources" THEN storedRows \cup {id} ELSE storedRows

StorePost(p) ==
    /\ p \in posted
    /\ Store(p[1], p[2])
    /\ posted' = posted \ {p}
    /\ UNCHANGED <<sort, links, inventory, fetching, typedHere>>

LosePost(p) ==
    /\ p \in posted
    /\ posted' = posted \ {p}
    /\ UNCHANGED <<sort, links, inventory, storedLinks, storedRows, fetching,
                   typedHere>>

\* Another browser's post: an integration, what it made up for one, or what was
\* typed there
StoreElsewhere(list, id) ==
    /\ id \in Elsewhere /\ (list = "integrations" => id \in Hypervisors)
    /\ Store(list, id)
    /\ UNCHANGED <<sort, links, inventory, posted, fetching, typedHere>>

-----------------------------------------------------------------------------
\* A first visit: both sides have the defaults, and the effect has run
HypervisorsInit ==
    /\ sort \in {"nodes", "workloads"}
    /\ links = <<FirstLink>> /\ inventory = AutoSync({FirstRow}, links)
    /\ storedLinks = <<FirstLink>> /\ storedRows = {FirstRow}
    /\ posted = {} /\ fetching = {"integrations", "resources"}
    /\ typedHere = {}

HypervisorsNext ==
    \/ \E h \in Hypervisors : HandleSave(h) \/ HandleSyncClick(h)
    \/ \E m \in Machines : HandleSubmit(m)
    \/ MountApp \/ ReceiveIntegrations \/ ReceiveResources
    \/ \E l \in {"integrations", "resources"} : LoseLoad(l)
    \/ \E p \in posted : StorePost(p) \/ LosePost(p)
    \/ \E list \in {"integrations", "resources"}, id \in Elsewhere : StoreElsewhere(list, id)

HypervisorsTypeOK ==
    /\ Range(links) \cup Range(storedLinks) \subseteq Hypervisors
    /\ IsInjective(links) /\ IsInjective(storedLinks)
    /\ inventory \cup storedRows \subseteq Rows
    /\ posted \subseteq {"integrations", "resources"} \X Rows

\* What the effect does stays within the tenants that have an integration: a
\* server typed in this browser for any other tenant is shown for good, through
\* synchronisations, loads in any order, lost posts and reloads; and a tenant
\* that has integrations is shown what the last of them is taken to have.
SyncStaysInItsTenant ==
    /\ \A m \in typedHere :
         m \in inventory \/ \E h \in Range(links) : WorkspaceOf[h] = WorkspaceOf[m]
    /\ \A i \in DOMAIN links :
         \/ links[i] \in inventory
         \/ \E j \in DOMAIN links : j > i /\ WorkspaceOf[links[j]] = WorkspaceOf[links[i]]
=============================================================================
