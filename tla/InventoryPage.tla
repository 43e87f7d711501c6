----------------------------- MODULE InventoryPage -----------------------------
(* The page of the source of truth and the assets behind it.

   The page loads a dozen lists for the active tenant, and loads them again
   after every request that succeeds: for the tenant that was active when the
   request was made. Loads and requests are independent, so a late one leaves
   the lists of another tenant on the page, with buttons that act on them in
   the name of the active one. What a save or a delete touches is decided by
   the server.

   The fields of an asset, and the other lists, are not looked at here: see
   the module SourceOfTruth.                                                *)
EXTENDS Integers, FiniteSets, NoRecord

CONSTANTS
    Organizations,      \* tenants
    AssetRows,          \* ids of assets
    MaxSent             \* bound of the model: requests and answers on their way

ASSUME InventoryAssumption == {Unused, Gone} \cap Organizations = {}

VARIABLES
    org,                \* activeTenant
    rowsShown,          \* the assets on the page
    modal,              \* None, "new", or the asset that is edited
    busy,               \* loading: the form cannot be sent
    refreshing,         \* loads on their way, by tenant
    underWay,           \* requests on their way: [kind, org, row]
    okays,              \* successes on their way to the page
    assetOwner,         \* the server: the tenant of each asset, Unused, or Gone
    touched             \* history: tenants in whose name an asset was created,
                        \* changed or deleted

inventoryVars ==
    <<org, rowsShown, modal, busy, refreshing, underWay, okays, assetOwner, touched>>

Request(kind, row) == [kind |-> kind, org |-> org, row |-> row]

-----------------------------------------------------------------------------
(* The page *)

\* The form covers the page, the menu of tenants included
SwitchOrganization(o) ==
    /\ modal = None /\ o # org
    /\ org' = o
    /\ busy' = TRUE
    /\ refreshing' = refreshing \cup {o}
    /\ UNCHANGED <<rowsShown, modal, underWay, okays, assetOwner, touched>>

RefreshAllData ==
    /\ ~ busy
    /\ busy' = TRUE
    /\ refreshing' = refreshing \cup {org}
    /\ UNCHANGED <<org, rowsShown, modal, underWay, okays, assetOwner, touched>>

\* Shown whatever the active tenant is by then; one list that fails keeps all
Refreshed(o, fails) ==
    /\ o \in refreshing
    /\ refreshing' = refreshing \ {o}
    /\ rowsShown' = IF fails THEN rowsShown ELSE {a \in AssetRows : assetOwner[a] = o}
    /\ busy' = FALSE
    /\ UNCHANGED <<org, modal, underWay, okays, assetOwner, touched>>

NewAsset ==
    /\ modal = None
    /\ modal' = "new"
    /\ UNCHANGED <<org, rowsShown, busy, refreshing, underWay, okays, assetOwner, touched>>

EditAsset(a) ==
    /\ modal = None /\ a \in rowsShown
    /\ modal' = a
    /\ UNCHANGED <<org, rowsShown, busy, refreshing, underWay, okays, assetOwner, touched>>

CancelModal ==
    /\ modal # None
    /\ modal' = None
    /\ UNCHANGED <<org, rowsShown, busy, refreshing, underWay, okays, assetOwner, touched>>

Sends(request) ==
    /\ Cardinality(underWay \cup okays) < MaxSent
    /\ underWay' = underWay \cup {request}
    /\ busy' = TRUE
    /\ UNCHANGED <<org, rowsShown, modal, refreshing, okays, assetOwner, touched>>

HandleSaveAsset ==
    /\ modal # None /\ ~ busy
    /\ Sends(IF modal = "new" THEN Request("create", None) ELSE Request("update", modal))

HandleDeleteAsset(a) ==
    /\ modal = None /\ a \in rowsShown
    /\ Sends(Request("delete", a))

\* Ports, cables, scans, candidates: other records, and the same steps
HandleOther == modal = None /\ Sends(Request("other", None))

\* The form closes on a save, whichever form it is by then
RequestAnswered(r) ==
    /\ r \in okays
    /\ okays' = okays \ {r}
    /\ modal' = IF r.kind \in {"create", "update"} THEN None ELSE modal
    /\ refreshing' = refreshing \cup {r.org}
    /\ busy' = FALSE
    /\ UNCHANGED <<org, rowsShown, underWay, assetOwner, touched>>

\* An error is shown, the form stays; also when only the answer is lost
RequestRefused(r) ==
    /\ underWay' = underWay \ {r} /\ okays' = okays \ {r}
    /\ busy' = FALSE
    /\ UNCHANGED <<org, rowsShown, modal, refreshing, assetOwner, touched>>

-----------------------------------------------------------------------------
(* The server *)

\* mutant: by its id alone
FoundById(r) == assetOwner[r.row] \notin {Unused, Gone}

\* By its id, among the assets of the tenant of the request
Found(r) == assetOwner[r.row] = r.org

Does(r, row, new) ==
    /\ assetOwner' = [assetOwner EXCEPT ![row] = new]
    /\ touched' = [touched EXCEPT ![row] = @ \cup {r.org}]

\* The payload has the tenant of the request, which is assigned too
HandleRequest(r) ==
    /\ r \in underWay
    /\ underWay' = underWay \ {r}
    /\ okays' = okays \cup {r}
    /\ \/ r.kind = "create"
          /\ \E row \in AssetRows : assetOwner[row] = Unused /\ Does(r, row, r.org)
       \/ r.kind = "update" /\ Found(r) /\ Does(r, r.row, r.org)
       \/ r.kind = "delete" /\ Found(r) /\ Does(r, r.row, Gone)
       \/ r.kind = "other" /\ UNCHANGED <<assetOwner, touched>>
    /\ UNCHANGED <<org, rowsShown, modal, busy, refreshing>>

-----------------------------------------------------------------------------
InventoryInit ==
    /\ org \in Organizations /\ modal = None /\ busy = TRUE
    /\ rowsShown = {} /\ refreshing = {org}
    /\ underWay = {} /\ okays = {}
    /\ assetOwner = [a \in AssetRows |-> Unused]
    /\ touched = [a \in AssetRows |-> {}]

InventoryNext ==
    \/ \E o \in Organizations :
         SwitchOrganization(o) \/ \E fails \in BOOLEAN : Refreshed(o, fails)
    \/ RefreshAllData \/ NewAsset \/ CancelModal \/ HandleSaveAsset \/ HandleOther
    \/ \E a \in AssetRows : EditAsset(a) \/ HandleDeleteAsset(a)
    \/ \E r \in underWay \cup okays : RequestAnswered(r) \/ RequestRefused(r) \/ HandleRequest(r)

InventoryTypeOK ==
    /\ org \in Organizations /\ refreshing \subseteq Organizations
    /\ rowsShown \subseteq AssetRows
    /\ modal \in AssetRows \cup {None, "new"} /\ busy \in BOOLEAN
    /\ underWay \cup okays \subseteq
         [kind : {"create", "update", "delete", "other"}, org : Organizations,
          row : AssetRows \cup {None}]
    /\ assetOwner \in [AssetRows -> Organizations \cup {Unused, Gone}]

\* Whatever late lists a page shows, whatever form was filled from them and
\* whenever the request arrives: an asset is created, changed and deleted in
\* the name of one tenant only. The server finds an asset by its id and the
\* tenant of the request, never by its id alone.
EditsStayInTheirTenant == \A a \in AssetRows : Cardinality(touched[a]) =< 1
=============================================================================
