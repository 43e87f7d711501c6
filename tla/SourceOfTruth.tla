---------------------------- MODULE SourceOfTruth ----------------------------
(* The infrastructure source of truth: assets in racks, ports and cables, what
   a network scan finds, VLANs and addresses, sites, and visit checklists.

   Each handler runs in one turn of the event loop. What is hard is that the
   records refer to one another by id, that operators work from lists that may
   be old, and that a form sends back every field it shows. Operators use the
   forms of the front end; a form filled from an old list may send any value.

   `usage` restricts the requests of one behaviour to one group of records.
   The groups meet in the assets only, where each has fields of its own, so a
   property of one group is checked while the others stand still.           *)
EXTENDS Integers, FiniteSets, NoRecord

CONSTANTS
    AssetIds, RackIds, Sites, LocationIds, PortIds, VisitIds, Subnets,
    MaxCircuits,    \* bound of the model
    Devices,        \* what a scan sees on the wire, by MAC address
    CandidateIds,
    RackHeight,     \* [RackIds -> Nat]
    Positions,      \* positions a form may ask for: [startU, heightU, face]
    VlanNumbers,    \* numbers a request may ask for
    Usages

ASSUME SotAssumption == None \notin AssetIds \cup Positions /\ MaxCircuits \in Nat

VARIABLES
    usage, assets, ports, cables, candidates, visits,
    sites, locations, racks,                \* locations: the site of each, or Unused
    vlans, subnets, addresses, circuits     \* circuits: how many were entered

cableVars == <<ports, cables>>
placeVars == <<sites, locations, racks>>
netVars   == <<vlans, subnets, addresses, circuits>>
sotVars   == <<usage, assets, cableVars, candidates, visits, placeVars, netVars>>

LiveAssets == {a \in AssetIds : assets[a] \notin {Unused, Gone}}

-----------------------------------------------------------------------------
(* Racks *)

\* mutant: compares with the unit behind the last one of the neighbour
OverlapsUStrictly(p, q) ==
    /\ p.startU < q.startU + q.heightU - 1
    /\ p.startU + p.heightU - 1 >= q.startU

OverlapsU(p, q) ==
    /\ p.startU =< q.startU + q.heightU - 1
    /\ p.startU + p.heightU - 1 >= q.startU

OverlapsFace(p, q) == p.face = "both" \/ q.face = "both" \/ p.face = q.face

ValidateRackOverlap(rack, pos, self) ==
    /\ rack \in racks
    /\ pos.startU >= 1
    /\ pos.startU + pos.heightU - 1 =< RackHeight[rack]
    /\ \A a \in LiveAssets \ {self} :
         (assets[a].rack = rack /\ assets[a].pos # None)
            => ~(OverlapsU(pos, assets[a].pos) /\ OverlapsFace(pos, assets[a].pos))

-----------------------------------------------------------------------------
(* Assets *)

\* What the asset form sends: a rack with a position, or no rack and no
\* position; the MAC address it was opened with, which may be old.
Placement == [rack : RackIds, pos : Positions] \cup {[rack |-> None, pos |-> None]}

FormPayloads ==
    [ place  : IF usage = "racks" THEN Placement ELSE {[rack |-> None, pos |-> None]},
      device : IF usage = "discovery" THEN Devices \cup {None} ELSE {None},
      site   : IF usage = "sites" THEN Sites \cup {None} ELSE {None} ]

Acceptable(payload, self) ==
    (payload.place.rack # None /\ payload.place.pos # None)
        => ValidateRackOverlap(payload.place.rack, payload.place.pos, self)

CreateAsset(a, payload) ==
    /\ assets[a] = Unused
    /\ Acceptable(payload, None)
    /\ assets' = [assets EXCEPT ![a] =
         [rack |-> payload.place.rack, pos |-> payload.place.pos,
          device |-> payload.device, site |-> payload.site, verified |-> TRUE]]
    /\ UNCHANGED <<usage, cableVars, candidates, netVars, placeVars, visits>>

\* Object.assign: a position that the payload lacks stays as it was
UpdateAsset(a, payload) ==
    /\ a \in LiveAssets
    /\ Acceptable(payload, a)
    /\ assets' = [assets EXCEPT
         ![a].rack = payload.place.rack,
         ![a].pos = IF payload.place.pos = None THEN @ ELSE payload.place.pos,
         ![a].device = payload.device,
         ![a].site = payload.site]
    /\ UNCHANGED <<usage, cableVars, candidates, netVars, placeVars, visits>>

\* Ports, cables and candidates keep naming the deleted asset
DeleteAsset(a) ==
    /\ a \in LiveAssets
    /\ assets' = [assets EXCEPT ![a] = Gone]
    /\ UNCHANGED <<usage, cableVars, candidates, netVars, placeVars, visits>>

CreateSite(s) ==
    /\ s \notin sites
    /\ sites' = sites \cup {s}
    /\ UNCHANGED <<usage, assets, cableVars, candidates, netVars, locations, racks, visits>>

DeleteSite(s) ==
    /\ s \in sites
    /\ \A a \in LiveAssets : assets[a].site # s
    /\ \A l \in LocationIds : locations[l] # s
    /\ sites' = sites \ {s}
    /\ UNCHANGED <<usage, assets, cableVars, candidates, netVars, locations, racks, visits>>

\* The site that the request names may be gone: it is not looked up
CreateLocation(l, s) ==
    /\ locations[l] = Unused
    /\ locations' = [locations EXCEPT ![l] = s]
    /\ UNCHANGED <<usage, assets, cableVars, candidates, netVars, sites, racks, visits>>

CreateRack(r) ==
    /\ r \notin racks
    /\ racks' = racks \cup {r}
    /\ UNCHANGED <<usage, assets, cableVars, candidates, netVars, sites, locations, visits>>

-----------------------------------------------------------------------------
(* Ports and cables *)

\* One port by hand; again nothing checks the asset
CreateInterface(p, a) ==
    /\ ports[p] = Unused /\ assets[a] # Unused
    /\ ports' = [ports EXCEPT ![p] = a]
    /\ UNCHANGED <<usage, assets, cables, candidates, netVars, placeVars, visits>>

\* The wizard's list of switches may be old, and nothing checks the asset
GenerateSwitchPorts(a, count) ==
    /\ assets[a] # Unused
    /\ \E new \in SUBSET {p \in PortIds : ports[p] = Unused} :
         /\ Cardinality(new) = count
         /\ ports' = [p \in PortIds |-> IF p \in new THEN a ELSE ports[p]]
    /\ UNCHANGED <<usage, assets, cables, candidates, netVars, placeVars, visits>>

Ends(c) == {c.source, c.target}

\* mutant: looks only where the port is the source of a cable
OccupiedAsSource(p) == \E c \in cables : p = c.source

Occupied(p) == \E c \in cables : p \in Ends(c)

CreateConnection(p, q) ==
    /\ ports[p] # Unused /\ ports[q] # Unused
    /\ p # q
    /\ ~ Occupied(p) /\ ~ Occupied(q)
    /\ cables' = cables \cup {[source |-> p, target |-> q]}
    /\ UNCHANGED <<usage, assets, ports, candidates, netVars, placeVars, visits>>

DeleteConnection(c) ==
    /\ c \in cables
    /\ cables' = cables \ {c}
    /\ UNCHANGED <<usage, assets, ports, candidates, netVars, placeVars, visits>>

-----------------------------------------------------------------------------
(* Discovery *)

Match(d) == {a \in LiveAssets : assets[a].device = d}

\* Every scan adds a candidate for every device, whatever was found before
RunSubnetScan ==
    /\ \E fresh \in [Devices -> CandidateIds] :
         /\ \A d, e \in Devices : fresh[d] = fresh[e] => d = e
         /\ \A d \in Devices : candidates[fresh[d]] = Unused
         /\ \E match \in [Devices -> LiveAssets \cup {None}] :
              /\ \A d \in Devices : IF Match(d) = {} THEN match[d] = None
                                                    ELSE match[d] \in Match(d)
              /\ candidates' = [c \in CandidateIds |->
                   IF \E d \in Devices : fresh[d] = c
                   THEN LET d == CHOOSE d \in Devices : fresh[d] = c
                        IN [device |-> d, match |-> match[d], status |-> "pending"]
                   ELSE candidates[c]]
    /\ UNCHANGED <<usage, assets, ports, cables, netVars, placeVars, visits>>

\* Merging into an asset deleted meanwhile is a success too
ApproveMerge(c) ==
    /\ candidates[c] # Unused /\ candidates[c].match # None
    /\ LET a == candidates[c].match
       IN assets' = IF a \notin LiveAssets THEN assets
                    ELSE [assets EXCEPT
                            ![a].verified = TRUE,
                            ![a].device = IF @ = None THEN candidates[c].device ELSE @]
    /\ candidates' = [candidates EXCEPT ![c].status = "merged"]
    /\ UNCHANGED <<usage, ports, cables, netVars, placeVars, visits>>

\* The status is not looked at: two operators may resolve one candidate
CreateFromCandidate(c, a) ==
    /\ candidates[c] # Unused /\ assets[a] = Unused
    /\ assets' = [assets EXCEPT ![a] =
         [rack |-> None, pos |-> None, device |-> candidates[c].device,
          site |-> None, verified |-> FALSE]]
    /\ candidates' = [candidates EXCEPT ![c].status = "created_new", ![c].match = a]
    /\ UNCHANGED <<usage, ports, cables, netVars, placeVars, visits>>

IgnoreCandidate(c) ==
    /\ candidates[c] # Unused
    /\ candidates' = [candidates EXCEPT ![c].status = "ignored"]
    /\ UNCHANGED <<usage, assets, ports, cables, netVars, placeVars, visits>>

-----------------------------------------------------------------------------
(* VLANs, addresses, visits *)

\* mutant: the range is not checked
CreateVlanUnchecked(v) ==
    /\ v \notin vlans
    /\ vlans' = vlans \cup {v}
    /\ UNCHANGED <<usage, assets, cableVars, candidates, subnets, addresses, circuits, placeVars, visits>>

CreateVlan(v) ==
    /\ v \in 1..4094 \ vlans
    /\ vlans' = vlans \cup {v}
    /\ UNCHANGED <<usage, assets, cableVars, candidates, subnets, addresses, circuits, placeVars, visits>>

\* One CIDR may be entered twice: it is the id that is new
CreateSubnet(s) ==
    /\ s \notin subnets
    /\ subnets' = subnets \cup {s}
    /\ UNCHANGED <<usage, assets, cableVars, candidates, vlans, addresses, circuits, placeVars, visits>>

CreateWanCircuit ==
    /\ circuits < MaxCircuits
    /\ circuits' = circuits + 1
    /\ UNCHANGED <<usage, assets, cableVars, candidates, vlans, subnets, addresses, placeVars, visits>>

\* One entry per address and subnet; a second request changes the first entry
SetIpAllocation(s, a) ==
    /\ addresses' = [addresses EXCEPT ![s] = a]
    /\ UNCHANGED <<usage, assets, cableVars, candidates, vlans, subnets, circuits, placeVars, visits>>

CreateChecklist(v) ==
    /\ visits[v] = Unused
    /\ visits' = [visits EXCEPT ![v] = "in_progress"]
    /\ UNCHANGED <<usage, assets, cableVars, candidates, netVars, placeVars>>

\* The button sends the status "completed"
UpdateChecklist(v) ==
    /\ visits[v] # Unused
    /\ visits' = [visits EXCEPT ![v] = "completed"]
    /\ UNCHANGED <<usage, assets, cableVars, candidates, netVars, placeVars>>

-----------------------------------------------------------------------------
(* The routes *)

InventoryRoutes ==
    \/ \E a \in AssetIds, payload \in FormPayloads :
         CreateAsset(a, payload) \/ UpdateAsset(a, payload)
    \/ \E a \in AssetIds : DeleteAsset(a)

SiteRoutes ==
    /\ usage = "sites"
    /\ \E s \in Sites :
         CreateSite(s) \/ DeleteSite(s) \/ \E l \in LocationIds : CreateLocation(l, s)

RackRoutes == usage = "racks" /\ \E r \in RackIds : CreateRack(r)

TopologyRoutes ==
    /\ usage = "cabling"
    /\ \/ \E a \in AssetIds, count \in 1..2 : GenerateSwitchPorts(a, count)
       \/ \E p \in PortIds, a \in AssetIds : CreateInterface(p, a)
       \/ \E p, q \in PortIds : CreateConnection(p, q)
       \/ \E c \in cables : DeleteConnection(c)

DiscoveryRoutes ==
    /\ usage = "discovery"
    /\ \/ RunSubnetScan
       \/ \E c \in CandidateIds :
            \/ ApproveMerge(c)
            \/ \E a \in AssetIds : CreateFromCandidate(c, a)
            \/ IgnoreCandidate(c)

NetworkRoutes ==
    /\ usage = "network"
    /\ \/ \E v \in VlanNumbers : CreateVlan(v)
       \/ \E s \in Subnets : CreateSubnet(s)
       \/ CreateWanCircuit
       \/ \E s \in Subnets, a \in AssetIds \cup {None} : SetIpAllocation(s, a)

OperationalRoutes ==
    usage = "network" /\ \E v \in VisitIds : CreateChecklist(v) \/ UpdateChecklist(v)

SotInit ==
    /\ usage \in Usages
    /\ assets = [a \in AssetIds |-> Unused]
    /\ ports = [p \in PortIds |-> Unused]
    /\ cables = {}
    /\ candidates = [c \in CandidateIds |-> Unused]
    /\ vlans = {}
    /\ addresses = [s \in Subnets |-> Unused]
    /\ sites = {} /\ locations = [l \in LocationIds |-> Unused] /\ racks = {}
    /\ subnets = {} /\ circuits = 0
    /\ visits = [v \in VisitIds |-> Unused]

SotNext ==
    \/ InventoryRoutes \/ SiteRoutes \/ RackRoutes \/ TopologyRoutes
    \/ DiscoveryRoutes \/ NetworkRoutes \/ OperationalRoutes

-----------------------------------------------------------------------------
(* Properties *)

Asset == [rack : RackIds \cup {None}, pos : Positions \cup {None},
          device : Devices \cup {None}, site : Sites \cup {None}, verified : BOOLEAN]

Candidate == [device : Devices, match : AssetIds \cup {None},
              status : {"pending", "merged", "created_new", "ignored"}]

SotTypeOK ==
    /\ usage \in Usages
    /\ \A a \in AssetIds : assets[a] \in {Unused, Gone} \/ assets[a] \in Asset
    /\ ports \in [PortIds -> AssetIds \cup {Unused}]
    /\ cables \subseteq [source : PortIds, target : PortIds]
    /\ \A c \in CandidateIds : candidates[c] = Unused \/ candidates[c] \in Candidate
    /\ vlans \subseteq 1..4094
    /\ addresses \in [Subnets -> AssetIds \cup {None, Unused}]
    /\ sites \subseteq Sites /\ racks \subseteq RackIds
    /\ locations \in [LocationIds -> Sites \cup {Unused}]
    /\ subnets \subseteq Subnets /\ circuits \in 0..MaxCircuits
    /\ visits \in [VisitIds -> {Unused, "in_progress", "completed"}]

\* Two assets never take the same space of a rack, however often they are
\* moved, unmounted and mounted again. updateAsset checks a position only if
\* the payload has both the rack and the position; it is the form of the front
\* end, which sends both or neither, that makes this enough: an asset keeps its
\* old position when it leaves the rack.
NoRackOverlap ==
    \A a, b \in LiveAssets :
        (/\ a # b
         /\ assets[a].rack # None /\ assets[a].rack = assets[b].rack
         /\ assets[a].pos # None /\ assets[b].pos # None)
            => ~(/\ OverlapsU(assets[a].pos, assets[b].pos)
                 /\ OverlapsFace(assets[a].pos, assets[b].pos))

\* A port holds one cable at most, at whichever end of it: createConnection
\* compares both ends of the new cable with both ends of every other, those of
\* deleted assets included.
OneCablePerPort ==
    \A c, d \in cables : c # d => Ends(c) \cap Ends(d) = {}
=============================================================================
