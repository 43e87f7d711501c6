---------------------------- MODULE ServerProofs ----------------------------
(* Proofs about three parts of the server, for any records and operators.

   Source of truth: the forms send a rack with a position or neither, and this
   is used where an asset leaves its rack with its old position.

   Enrollment: an identity is in one host's hands from the moment it is
   answered, as an answer on its way, in the installer or in the file.

   Credentials: as long as no write failed, the two files agree with what was
   typed, in every state between the two writes too; the rest follows, for the
   memory of a running process is what is in the files.                     *)
EXTENDS SourceOfTruth, Enrollment, Credentials, TLAPS

-----------------------------------------------------------------------------
(* The source of truth *)

\* Records have their fields, whatever is in them.
AssetsOK ==
    /\ DOMAIN assets = AssetIds
    /\ \A a \in LiveAssets : DOMAIN assets[a] = {"rack", "pos", "device", "site", "verified"}

Clash(r, s) ==
    /\ r.rack # None /\ r.rack = s.rack /\ r.pos # None /\ s.pos # None
    /\ OverlapsU(r.pos, s.pos) /\ OverlapsFace(r.pos, s.pos)

SotInv == AssetsOK /\ NoRackOverlap

\* One asset is written, and fits beside the others.
LEMMA OneAssetFits ==
    ASSUME SotInv, NEW a \in AssetIds, NEW new,
           DOMAIN new = {"rack", "pos", "device", "site", "verified"},
           assets' = [assets EXCEPT ![a] = new],
           \A b \in LiveAssets \ {a} : ~ Clash(new, assets[b])
    PROVE  SotInv'
  <1>1. DOMAIN assets' = AssetIds /\ assets'[a] = new
        /\ \A b \in AssetIds \ {a} : assets'[b] = assets[b]
    BY DEF SotInv, AssetsOK
  <1>2. LiveAssets' \subseteq LiveAssets \cup {a}
    BY <1>1 DEF LiveAssets
  <1>3. AssetsOK'
    BY <1>1, <1>2 DEF SotInv, AssetsOK
  <1>4. ASSUME NEW b \in LiveAssets', NEW c \in LiveAssets', b # c
        PROVE  ~ Clash(assets'[b], assets'[c])
    <2>1. \A r, s : Clash(r, s) => Clash(s, r)
      BY DEF Clash, OverlapsU, OverlapsFace
    <2>2. CASE b = a
      BY <1>1, <1>2, <1>4, <2>2
    <2>3. CASE c = a
      BY <1>1, <1>2, <1>4, <2>1, <2>3
    <2>4. CASE b # a /\ c # a
      BY <1>1, <1>2, <1>4, <2>4 DEF SotInv, NoRackOverlap, Clash
    <2> QED BY <2>2, <2>3, <2>4
  <1> QED BY <1>3, <1>4 DEF SotInv, NoRackOverlap, Clash, OverlapsU, OverlapsFace

\* A form that is acceptable fits where it puts the asset.
LEMMA AcceptableFits ==
    ASSUME SotInv, NEW payload \in FormPayloads, NEW self, Acceptable(payload, self),
           payload.place.pos # None
    PROVE  \A r : \A b \in LiveAssets \ {self} :
             (r.rack = payload.place.rack /\ r.pos = payload.place.pos) => ~ Clash(r, assets[b])
  BY DEF Acceptable, ValidateRackOverlap, Clash

LEMMA NoRackWithoutPosition ==
    ASSUME NEW payload \in FormPayloads, payload.place.pos = None
    PROVE  payload.place.rack = None
  <1>1. payload.place \in Placement \cup {[rack |-> None, pos |-> None]}
    BY DEF FormPayloads
  <1> QED BY <1>1, SotAssumption DEF Placement

LEMMA SotStep == SotInv /\ [SotNext]_sotVars => SotInv'
  <1> SUFFICES ASSUME SotInv, [SotNext]_sotVars PROVE SotInv'
    OBVIOUS
  <1>1. ASSUME UNCHANGED assets PROVE SotInv'
    <2>1. LiveAssets' = LiveAssets
      BY <1>1 DEF LiveAssets
    <2> QED BY <1>1, <2>1 DEF SotInv, AssetsOK, NoRackOverlap, OverlapsU, OverlapsFace
  <1>2. ASSUME NEW a \in AssetIds, NEW payload \in FormPayloads, CreateAsset(a, payload) PROVE SotInv'
    <2> DEFINE new == [rack |-> payload.place.rack, pos |-> payload.place.pos,
                       device |-> payload.device, site |-> payload.site, verified |-> TRUE]
    <2>1. Acceptable(payload, None) /\ assets' = [assets EXCEPT ![a] = new]
      BY <1>2 DEF CreateAsset
    <2>2. None \notin LiveAssets
      BY SotAssumption DEF LiveAssets
    <2>3. \A b \in LiveAssets : ~ Clash(new, assets[b])
      <3>1. CASE payload.place.pos # None
        BY <2>1, <2>2, <3>1, AcceptableFits
      <3>2. CASE payload.place.pos = None
        BY <3>2 DEF Clash
      <3> QED BY <3>1, <3>2
    <2>4. DOMAIN new = {"rack", "pos", "device", "site", "verified"}
      OBVIOUS
    <2> HIDE DEF new
    <2> QED BY <2>1, <2>3, <2>4, OneAssetFits
  <1>3. ASSUME NEW a \in AssetIds, NEW payload \in FormPayloads, UpdateAsset(a, payload) PROVE SotInv'
    <2> DEFINE pos == IF payload.place.pos = None THEN assets[a].pos ELSE payload.place.pos
               new == [assets[a] EXCEPT !.rack = payload.place.rack, !.pos = pos,
                                        !.device = payload.device, !.site = payload.site]
    <2>1. a \in LiveAssets /\ Acceptable(payload, a)
      BY <1>3 DEF UpdateAsset
    <2>2. DOMAIN assets[a] = {"rack", "pos", "device", "site", "verified"}
      BY <2>1 DEF SotInv, AssetsOK
    <2>3. assets' = [assets EXCEPT ![a] = new]
      BY <1>3 DEF UpdateAsset
    <2>4. /\ DOMAIN new = {"rack", "pos", "device", "site", "verified"}
          /\ new.rack = payload.place.rack /\ new.pos = pos
      BY <2>2
    <2>5. \A b \in LiveAssets \ {a} : ~ Clash(new, assets[b])
      <3>1. CASE payload.place.pos # None
        BY <2>1, <2>4, <3>1, AcceptableFits
      <3>2. CASE payload.place.pos = None
        BY <2>4, <3>2, NoRackWithoutPosition DEF Clash
      <3> QED BY <3>1, <3>2
    <2> HIDE DEF new
    <2> QED BY <2>3, <2>4, <2>5, OneAssetFits
  <1>4. ASSUME NEW a \in AssetIds, DeleteAsset(a) PROVE SotInv'
    <2>1. DOMAIN assets' = AssetIds /\ assets'[a] = Gone
          /\ \A b \in AssetIds \ {a} : assets'[b] = assets[b]
      BY <1>4 DEF DeleteAsset, SotInv, AssetsOK
    <2>2. LiveAssets' \subseteq LiveAssets \ {a}
      BY <2>1 DEF LiveAssets
    <2>3. \A b \in LiveAssets' : assets'[b] = assets[b]
      BY <2>1, <2>2 DEF LiveAssets
    <2> QED BY <2>1, <2>2, <2>3 DEF SotInv, AssetsOK, NoRackOverlap, OverlapsU, OverlapsFace
  <1>5. ASSUME NEW c \in CandidateIds, ApproveMerge(c) PROVE SotInv'
    <2> DEFINE a == candidates[c].match
    <2>1. CASE a \notin LiveAssets
      BY <1>1, <1>5, <2>1 DEF ApproveMerge
    <2>2. CASE a \in LiveAssets
      <3> DEFINE device == IF assets[a].device = None THEN candidates[c].device ELSE assets[a].device
                 new == [assets[a] EXCEPT !.verified = TRUE, !.device = device]
      <3>1. a \in AssetIds /\ DOMAIN assets[a] = {"rack", "pos", "device", "site", "verified"}
        BY <2>2 DEF SotInv, AssetsOK, LiveAssets
      <3>2. assets' = [assets EXCEPT ![a] = new]
        BY <1>5, <2>2 DEF ApproveMerge
      <3> HIDE DEF a, device
      <3>3. /\ DOMAIN new = {"rack", "pos", "device", "site", "verified"}
            /\ new.rack = assets[a].rack /\ new.pos = assets[a].pos
        BY <3>1
      <3>4. \A b \in LiveAssets \ {a} : ~ Clash(new, assets[b])
        BY <2>2, <3>3 DEF SotInv, NoRackOverlap, Clash
      <3> HIDE DEF new
      <3> QED BY <3>1, <3>2, <3>3, <3>4, OneAssetFits
    <2> QED BY <2>1, <2>2
  <1>6. ASSUME NEW c \in CandidateIds, NEW a \in AssetIds, CreateFromCandidate(c, a) PROVE SotInv'
    <2> DEFINE new == [rack |-> None, pos |-> None, device |-> candidates[c].device,
                       site |-> None, verified |-> FALSE]
    <2>1. assets' = [assets EXCEPT ![a] = new]
      BY <1>6 DEF CreateFromCandidate
    <2>2. DOMAIN new = {"rack", "pos", "device", "site", "verified"} /\ new.rack = None
      OBVIOUS
    <2> HIDE DEF new
    <2> QED BY <2>1, <2>2, OneAssetFits DEF Clash
  <1>7. CASE InventoryRoutes
    BY <1>2, <1>3, <1>4, <1>7 DEF InventoryRoutes
  <1>8. CASE SiteRoutes
    BY <1>1, <1>8 DEF SiteRoutes, CreateSite, DeleteSite, CreateLocation
  <1>9. CASE RackRoutes
    BY <1>1, <1>9 DEF RackRoutes, CreateRack
  <1>10. CASE TopologyRoutes
    BY <1>1, <1>10 DEF TopologyRoutes, GenerateSwitchPorts, CreateInterface, CreateConnection, DeleteConnection
  <1>11. CASE DiscoveryRoutes
    BY <1>1, <1>5, <1>6, <1>11 DEF DiscoveryRoutes, RunSubnetScan, IgnoreCandidate
  <1>12. CASE NetworkRoutes
    BY <1>1, <1>12 DEF NetworkRoutes, CreateVlan, CreateSubnet, CreateWanCircuit, SetIpAllocation
  <1>13. CASE OperationalRoutes
    BY <1>1, <1>13 DEF OperationalRoutes, CreateChecklist, UpdateChecklist
  <1>14. CASE UNCHANGED sotVars
    BY <1>1, <1>14 DEF sotVars
  <1> QED BY <1>7, <1>8, <1>9, <1>10, <1>11, <1>12, <1>13, <1>14 DEF SotNext

\* For any racks, positions and assets: no two assets take the same space of a
\* rack, however often they are moved, taken out and put back
\* (inventoryService.ts).
THEOREM RackSpaceIsExclusive == SotInit /\ [][SotNext]_sotVars => []NoRackOverlap
  <1>1. SotInit => SotInv
    BY DEF SotInit, SotInv, AssetsOK, NoRackOverlap, LiveAssets
  <1>2. SotInv => NoRackOverlap
    BY DEF SotInv
  <1> QED BY <1>1, <1>2, SotStep, PTL

\* Cables are entered by one operation only, and it looks at both ends.
LEMMA CableStep == OneCablePerPort /\ [SotNext]_sotVars => OneCablePerPort'
  <1> SUFFICES ASSUME OneCablePerPort, [SotNext]_sotVars PROVE OneCablePerPort'
    OBVIOUS
  <1>1. ASSUME UNCHANGED cables PROVE OneCablePerPort'
    BY <1>1 DEF OneCablePerPort, Ends
  <1>2. ASSUME NEW p \in PortIds, NEW q \in PortIds, CreateConnection(p, q) PROVE OneCablePerPort'
    <2> DEFINE new == [source |-> p, target |-> q]
    <2>1. cables' = cables \cup {new} /\ Ends(new) = {p, q}
      BY <1>2 DEF CreateConnection, Ends
    <2>2. \A c \in cables : p \notin Ends(c) /\ q \notin Ends(c)
      BY <1>2 DEF CreateConnection, Occupied
    <2> HIDE DEF new
    <2> QED BY <2>1, <2>2 DEF OneCablePerPort
  <1>3. ASSUME NEW c \in cables, DeleteConnection(c) PROVE OneCablePerPort'
    BY <1>3 DEF DeleteConnection, OneCablePerPort, Ends
  <1>4. CASE TopologyRoutes
    BY <1>1, <1>2, <1>3, <1>4 DEF TopologyRoutes, GenerateSwitchPorts, CreateInterface
  <1>5. CASE InventoryRoutes
    BY <1>1, <1>5 DEF InventoryRoutes, CreateAsset, UpdateAsset, DeleteAsset, cableVars
  <1>6. CASE SiteRoutes \/ RackRoutes
    BY <1>1, <1>6 DEF SiteRoutes, CreateSite, DeleteSite, CreateLocation, RackRoutes, CreateRack, cableVars
  <1>7. CASE DiscoveryRoutes
    BY <1>1, <1>7 DEF DiscoveryRoutes, RunSubnetScan, ApproveMerge, CreateFromCandidate, IgnoreCandidate
  <1>8. CASE NetworkRoutes \/ OperationalRoutes
    BY <1>1, <1>8 DEF NetworkRoutes, CreateVlan, CreateSubnet, CreateWanCircuit, SetIpAllocation,
                      OperationalRoutes, CreateChecklist, UpdateChecklist, cableVars
  <1>9. CASE UNCHANGED sotVars
    BY <1>1, <1>9 DEF sotVars, cableVars
  <1> QED BY <1>4, <1>5, <1>6, <1>7, <1>8, <1>9 DEF SotNext

\* For any ports: a port holds one cable at most, whichever end of it, and
\* whatever became of the assets (topologyService.ts).
THEOREM CableIsExclusive == SotInit /\ [][SotNext]_sotVars => []OneCablePerPort
  <1>1. SotInit => OneCablePerPort
    BY DEF SotInit, OneCablePerPort
  <1> QED BY <1>1, CableStep, PTL

\* An id has no record yet, or had one, or has one with all its fields.
SotTyped ==
    /\ usage \in Usages
    /\ assets \in [AssetIds -> {Unused, Gone} \cup Asset]
    /\ ports \in [PortIds -> AssetIds \cup {Unused}]
    /\ cables \subseteq [source : PortIds, target : PortIds]
    /\ candidates \in [CandidateIds -> {Unused} \cup Candidate]
    /\ vlans \subseteq 1..4094
    /\ addresses \in [Subnets -> AssetIds \cup {None, Unused}]
    /\ sites \subseteq Sites /\ racks \subseteq RackIds
    /\ locations \in [LocationIds -> Sites \cup {Unused}]
    /\ subnets \subseteq Subnets /\ circuits \in 0..MaxCircuits
    /\ visits \in [VisitIds -> {Unused, "in_progress", "completed"}]

LEMMA FormIsTyped ==
    ASSUME NEW payload \in FormPayloads
    PROVE  /\ payload.place.rack \in RackIds \cup {None}
           /\ payload.place.pos \in Positions \cup {None}
           /\ payload.device \in Devices \cup {None}
           /\ payload.site \in Sites \cup {None}
  <1>1. payload.place \in Placement \cup {[rack |-> None, pos |-> None]}
        /\ payload.device \in Devices \cup {None} /\ payload.site \in Sites \cup {None}
    BY DEF FormPayloads
  <1> QED BY <1>1 DEF Placement

LEMMA SotTypes == SotTyped /\ [SotNext]_sotVars => SotTyped'
  <1> SUFFICES ASSUME SotTyped, [SotNext]_sotVars PROVE SotTyped'
    OBVIOUS
  <1> DEFINE rest == <<usage, cableVars, netVars, placeVars, visits>>
  \* Steps that write assets and candidates
  <1>1. ASSUME UNCHANGED rest, assets' \in [AssetIds -> {Unused, Gone} \cup Asset],
               candidates' \in [CandidateIds -> {Unused} \cup Candidate]
        PROVE  SotTyped'
    BY <1>1 DEF SotTyped, cableVars, netVars, placeVars
  <1>2. ASSUME UNCHANGED <<rest, candidates>>, NEW a \in AssetIds, NEW new \in {Unused, Gone} \cup Asset,
               assets' = [assets EXCEPT ![a] = new]
        PROVE  SotTyped'
    BY <1>1, <1>2 DEF SotTyped
  <1>3. ASSUME NEW a \in AssetIds, NEW payload \in FormPayloads, CreateAsset(a, payload) PROVE SotTyped'
    <2> DEFINE new == [rack |-> payload.place.rack, pos |-> payload.place.pos,
                       device |-> payload.device, site |-> payload.site, verified |-> TRUE]
    <2>1. new \in Asset
      BY FormIsTyped DEF Asset
    <2>2. assets' = [assets EXCEPT ![a] = new] /\ UNCHANGED <<rest, candidates>>
      BY <1>3 DEF CreateAsset, cableVars, netVars, placeVars
    <2> HIDE DEF new
    <2> QED BY <1>2, <2>1, <2>2
  <1>4. \A a \in LiveAssets : a \in AssetIds /\ assets[a] \in Asset
    BY DEF LiveAssets, SotTyped
  <1>5. ASSUME NEW a \in AssetIds, NEW payload \in FormPayloads, UpdateAsset(a, payload) PROVE SotTyped'
    <2> DEFINE pos == IF payload.place.pos = None THEN assets[a].pos ELSE payload.place.pos
               new == [assets[a] EXCEPT !.rack = payload.place.rack, !.pos = pos,
                                        !.device = payload.device, !.site = payload.site]
    <2>1. a \in LiveAssets /\ assets[a] \in Asset
      BY <1>4, <1>5 DEF UpdateAsset
    <2>2. pos \in Positions \cup {None}
      BY <2>1, FormIsTyped DEF Asset
    <2>3. assets' = [assets EXCEPT ![a] = new] /\ UNCHANGED <<rest, candidates>>
      BY <1>5, <2>1 DEF UpdateAsset, cableVars, netVars, placeVars
    <2> HIDE DEF pos
    <2>4. new \in Asset
      BY <2>1, <2>2, FormIsTyped DEF Asset
    <2> HIDE DEF new
    <2> QED BY <1>2, <2>3, <2>4
  <1>6. ASSUME NEW a \in AssetIds, DeleteAsset(a) PROVE SotTyped'
    BY <1>2, <1>6 DEF DeleteAsset, cableVars, netVars, placeVars
  <1>7. CASE InventoryRoutes
    BY <1>3, <1>5, <1>6, <1>7 DEF InventoryRoutes
  <1>8. CASE SiteRoutes
    BY <1>8 DEF SiteRoutes, CreateSite, DeleteSite, CreateLocation, SotTyped, cableVars, netVars
  <1>9. CASE RackRoutes
    BY <1>9 DEF RackRoutes, CreateRack, SotTyped, cableVars, netVars
  <1>10. CASE TopologyRoutes
    <2>1. CASE \E a \in AssetIds, count \in 1..2 : GenerateSwitchPorts(a, count)
      BY <2>1 DEF GenerateSwitchPorts, SotTyped, netVars, placeVars
    <2>2. CASE \E p \in PortIds, a \in AssetIds : CreateInterface(p, a)
      BY <2>2 DEF CreateInterface, SotTyped, netVars, placeVars
    <2>3. CASE \E p, q \in PortIds : CreateConnection(p, q)
      BY <2>3 DEF CreateConnection, SotTyped, netVars, placeVars
    <2>4. CASE \E c \in cables : DeleteConnection(c)
      BY <2>4 DEF DeleteConnection, SotTyped, netVars, placeVars
    <2> QED BY <1>10, <2>1, <2>2, <2>3, <2>4 DEF TopologyRoutes
  <1>11. ASSUME NEW c \in CandidateIds, NEW status \in {"pending", "merged", "created_new", "ignored"},
                NEW match \in AssetIds \cup {None}, candidates[c] # Unused
         PROVE  /\ [candidates EXCEPT ![c] = [@ EXCEPT !.status = status]]
                      \in [CandidateIds -> {Unused} \cup Candidate]
                /\ [candidates EXCEPT ![c] = [@ EXCEPT !.status = status, !.match = match]]
                      \in [CandidateIds -> {Unused} \cup Candidate]
    <2>1. candidates[c] \in Candidate
      BY <1>11 DEF SotTyped
    <2> DEFINE one == [candidates[c] EXCEPT !.status = status]
               two == [candidates[c] EXCEPT !.status = status, !.match = match]
    <2>2. one \in Candidate /\ two \in Candidate
      BY <2>1 DEF Candidate
    <2> HIDE DEF one, two
    <2>3. /\ [candidates EXCEPT ![c] = one] \in [CandidateIds -> {Unused} \cup Candidate]
          /\ [candidates EXCEPT ![c] = two] \in [CandidateIds -> {Unused} \cup Candidate]
      BY <2>2 DEF SotTyped
    <2> QED BY <2>3 DEF one, two
  <1>12. CASE RunSubnetScan
    <2>1. PICK fresh \in [Devices -> CandidateIds], match \in [Devices -> LiveAssets \cup {None}] :
            candidates' = [c \in CandidateIds |->
                   IF \E d \in Devices : fresh[d] = c
                   THEN LET d == CHOOSE d \in Devices : fresh[d] = c
                        IN [device |-> d, match |-> match[d], status |-> "pending"]
                   ELSE candidates[c]]
      BY <1>12 DEF RunSubnetScan
    <2>2. ASSUME NEW c \in CandidateIds PROVE candidates'[c] \in {Unused} \cup Candidate
      <3>1. CASE \E d \in Devices : fresh[d] = c
        <4> DEFINE d == CHOOSE d \in Devices : fresh[d] = c
        <4>1. d \in Devices
          BY <3>1
        <4>2. candidates'[c] = [device |-> d, match |-> match[d], status |-> "pending"]
          BY <2>1, <3>1
        <4> HIDE DEF d
        <4>3. match[d] \in AssetIds \cup {None}
          BY <1>4, <4>1
        <4> QED BY <4>1, <4>2, <4>3 DEF Candidate
      <3>2. CASE ~ \E d \in Devices : fresh[d] = c
        BY <2>1, <3>2 DEF SotTyped
      <3> QED BY <3>1, <3>2
    <2>3. candidates' \in [CandidateIds -> {Unused} \cup Candidate]
      BY <2>1, <2>2
    <2>4. UNCHANGED <<rest, assets>>
      BY <1>12 DEF RunSubnetScan, cableVars, netVars, placeVars
    <2> QED BY <1>1, <2>3, <2>4 DEF SotTyped
  <1>13. ASSUME NEW c \in CandidateIds, ApproveMerge(c) PROVE SotTyped'
    <2> DEFINE a == candidates[c].match
               device == IF assets[a].device = None THEN candidates[c].device ELSE assets[a].device
               new == [assets[a] EXCEPT !.verified = TRUE, !.device = device]
    <2>1. candidates[c] # Unused /\ candidates' = [candidates EXCEPT ![c] = [@ EXCEPT !.status = "merged"]]
      BY <1>13 DEF ApproveMerge, SotTyped
    <2>2. assets' = IF a \notin LiveAssets THEN assets ELSE [assets EXCEPT ![a] = new]
      BY <1>13 DEF ApproveMerge
    <2>3. UNCHANGED rest
      BY <1>13 DEF ApproveMerge, cableVars, netVars, placeVars
    <2>4. ASSUME a \in LiveAssets PROVE new \in Asset
      <3>1. assets[a] \in Asset /\ device \in Devices \cup {None}
        BY <1>4, <2>1, <2>4 DEF SotTyped, Candidate, Asset
      <3> HIDE DEF device
      <3> QED BY <3>1 DEF Asset
    <2>5. candidates' \in [CandidateIds -> {Unused} \cup Candidate]
      <3>1. None \in AssetIds \cup {None}
        OBVIOUS
      <3> QED BY <1>11, <2>1, <3>1
    <2> HIDE DEF new, a
    <2>6. assets' \in [AssetIds -> {Unused, Gone} \cup Asset]
      BY <1>4, <2>2, <2>4 DEF SotTyped
    <2> QED BY <1>1, <2>3, <2>5, <2>6
  <1>14. ASSUME NEW c \in CandidateIds, NEW a \in AssetIds, CreateFromCandidate(c, a) PROVE SotTyped'
    <2> DEFINE new == [rack |-> None, pos |-> None, device |-> candidates[c].device,
                       site |-> None, verified |-> FALSE]
    <2>1. /\ candidates[c] # Unused
          /\ candidates' = [candidates EXCEPT ![c] = [@ EXCEPT !.status = "created_new", !.match = a]]
      <3>1. c \in DOMAIN candidates
        BY DEF SotTyped
      <3> QED BY <1>14, <3>1 DEF CreateFromCandidate
    <2>2. assets' = [assets EXCEPT ![a] = new] /\ UNCHANGED rest
      BY <1>14 DEF CreateFromCandidate, cableVars, netVars, placeVars
    <2>3. candidates[c] \in Candidate
      BY <2>1 DEF SotTyped
    <2>4. new \in Asset
      BY <2>3 DEF Asset, Candidate
    <2> HIDE DEF new
    <2>5. candidates' \in [CandidateIds -> {Unused} \cup Candidate]
      BY <1>11, <2>1
    <2>6. assets' \in [AssetIds -> {Unused, Gone} \cup Asset]
      BY <2>2, <2>4 DEF SotTyped
    <2> QED BY <1>1, <2>2, <2>5, <2>6
  <1>15. ASSUME NEW c \in CandidateIds, IgnoreCandidate(c) PROVE SotTyped'
    <2>1. candidates[c] # Unused /\ candidates' = [candidates EXCEPT ![c] = [@ EXCEPT !.status = "ignored"]]
      BY <1>15 DEF IgnoreCandidate, SotTyped
    <2>2. UNCHANGED <<rest, assets>>
      BY <1>15 DEF IgnoreCandidate, cableVars, netVars, placeVars
    <2>3. candidates' \in [CandidateIds -> {Unused} \cup Candidate]
      <3>1. None \in AssetIds \cup {None}
        OBVIOUS
      <3> QED BY <1>11, <2>1, <3>1
    <2> QED BY <1>1, <2>2, <2>3 DEF SotTyped
  <1>16. CASE DiscoveryRoutes
    BY <1>12, <1>13, <1>14, <1>15, <1>16 DEF DiscoveryRoutes
  <1>17. CASE NetworkRoutes
    <2>1. CASE CreateWanCircuit
      BY <2>1, SotAssumption DEF CreateWanCircuit, SotTyped, cableVars, placeVars
    <2>2. CASE \E v \in VlanNumbers : CreateVlan(v)
      BY <2>2 DEF CreateVlan, SotTyped, cableVars, placeVars
    <2>3. CASE \E s \in Subnets : CreateSubnet(s)
      BY <2>3 DEF CreateSubnet, SotTyped, cableVars, placeVars
    <2>4. CASE \E s \in Subnets, a \in AssetIds \cup {None} : SetIpAllocation(s, a)
      BY <2>4 DEF SetIpAllocation, SotTyped, cableVars, placeVars
    <2> QED BY <1>17, <2>1, <2>2, <2>3, <2>4 DEF NetworkRoutes
  <1>18. CASE OperationalRoutes
    <2>1. PICK v \in VisitIds : CreateChecklist(v) \/ UpdateChecklist(v)
      BY <1>18 DEF OperationalRoutes
    <2>2. visits' \in [VisitIds -> {Unused, "in_progress", "completed"}]
      <3>1. CASE CreateChecklist(v)
        BY <3>1 DEF CreateChecklist, SotTyped
      <3>2. CASE UpdateChecklist(v)
        BY <3>2 DEF UpdateChecklist, SotTyped
      <3> QED BY <2>1, <3>1, <3>2
    <2>3. UNCHANGED <<usage, assets, cableVars, candidates, netVars, placeVars>>
      BY <2>1 DEF CreateChecklist, UpdateChecklist
    <2> QED BY <2>2, <2>3 DEF SotTyped, cableVars, netVars, placeVars
  <1>19. CASE UNCHANGED sotVars
    BY <1>19 DEF sotVars, SotTyped, cableVars, netVars, placeVars
  <1> QED BY <1>7, <1>8, <1>9, <1>10, <1>16, <1>17, <1>18, <1>19 DEF SotNext

LEMMA SotStarts == SotInit => SotTyped
  BY SotAssumption DEF SotInit, SotTyped

LEMMA SotIsTyped == SotTyped => SotTypeOK
  BY DEF SotTyped, SotTypeOK

-----------------------------------------------------------------------------
(* Enrollment *)

Registered(i) == agents[i] \notin {Unused, Gone}

EnrollTypes ==
    /\ tokens \in [Tokens -> {Unused, Gone} \cup Token]
    /\ agents \in [Identities -> {Unused, Gone} \cup Agent]
    /\ installer \in [Hosts -> {"idle", "waiting"} \cup Identities]
    /\ identity \in [Hosts -> {None, Gone} \cup Identities]
    /\ posts \subseteq [host : Hosts, token : Tokens, live : BOOLEAN]
    /\ given \subseteq [host : Hosts, id : Identities]

\* The token of an agent that central knows cannot enroll another one.
TokensSpent == \A i \in Identities : Registered(i) => /\ tokens[agents[i].token] \in Token
                                                /\ tokens[agents[i].token].used

OneEach ==
    /\ \A i, j \in Identities : (i # j /\ Registered(i) /\ Registered(j)) => agents[i].token # agents[j].token
    /\ \A g, h \in Hosts, i \in Identities : (Holds(g, i) /\ Holds(h, i)) => g = h
    /\ \A h \in Hosts, i \in Identities : Holds(h, i) => agents[i] # Unused

EnrollInv == EnrollTypes /\ TokensSpent /\ OneEach

\* Nobody gets hold of an identity.
LEMMA NoNewHolder ==
    ASSUME EnrollInv, EnrollTypes', tokens' = tokens, agents' = agents,
           \A h \in Hosts, i \in Identities : Holds(h, i)' => Holds(h, i)
    PROVE  EnrollInv'
  <1>1. \A i \in Identities : Registered(i)' <=> Registered(i)
    BY DEF Registered
  <1>2. TokensSpent'
    BY <1>1 DEF EnrollInv, TokensSpent
  <1>3. \A i, j \in Identities : (i # j /\ Registered(i)' /\ Registered(j)') => agents'[i].token # agents'[j].token
    BY <1>1 DEF EnrollInv, OneEach
  <1>4. \A g, h \in Hosts, i \in Identities : (Holds(g, i)' /\ Holds(h, i)') => g = h
    BY DEF EnrollInv, OneEach
  <1>5. \A h \in Hosts, i \in Identities : Holds(h, i)' => agents'[i] # Unused
    BY DEF EnrollInv, OneEach
  <1> QED BY <1>2, <1>3, <1>4, <1>5 DEF EnrollInv, OneEach

LEMMA EnrollStep == EnrollInv /\ [EnrollNext]_enrollVars => EnrollInv'
  <1> SUFFICES ASSUME EnrollInv, [EnrollNext]_enrollVars PROVE EnrollInv'
    OBVIOUS
  <1> USE EnrollAssumption
  \* Only the tokens change, and none that is spent is fresh again.
  <1>1. ASSUME tokens' \in [Tokens -> {Unused, Gone} \cup Token],
               \A k \in Tokens : tokens[k] \in Token /\ tokens[k].used
                                   => tokens'[k] \in Token /\ tokens'[k].used,
               UNCHANGED <<agents, installer, identity, posts, given>>
        PROVE  EnrollInv'
    <2>1. \A i \in Identities : Registered(i) => agents[i].token \in Tokens
      BY DEF Registered, EnrollInv, EnrollTypes, Agent
    <2>2. TokensSpent'
      BY <1>1, <2>1 DEF EnrollInv, TokensSpent, Registered
    <2>3. EnrollTypes' /\ OneEach'
      BY <1>1 DEF EnrollInv, EnrollTypes, OneEach, Registered, Holds
    <2> QED BY <2>2, <2>3 DEF EnrollInv
  <1>2. ASSUME NEW k \in Tokens, NEW n \in Nodes, CreateEnrollmentToken(k, n) PROVE EnrollInv'
    <2> DEFINE new == [node |-> n, used |-> FALSE, expired |-> FALSE]
    <2>1. tokens' = [tokens EXCEPT ![k] = new] /\ new \in Token /\ tokens[k] = Unused
      BY <1>2 DEF CreateEnrollmentToken, Token
    <2> HIDE DEF new
    <2>2. tokens' \in [Tokens -> {Unused, Gone} \cup Token]
      BY <2>1 DEF EnrollInv, EnrollTypes
    <2>3. \A l \in Tokens : tokens[l] \in Token => tokens'[l] = tokens[l]
      BY <2>1 DEF EnrollInv, EnrollTypes
    <2> QED BY <1>1, <1>2, <2>2, <2>3 DEF CreateEnrollmentToken
  <1>3. ASSUME NEW k \in Tokens, TokenExpires(k) PROVE EnrollInv'
    <2> DEFINE new == [tokens[k] EXCEPT !.expired = TRUE]
    <2>1. tokens' = [tokens EXCEPT ![k] = new] /\ tokens[k] \in Token
      BY <1>3 DEF TokenExpires, EnrollInv, EnrollTypes
    <2>2. new \in Token /\ new.used = tokens[k].used
      BY <2>1 DEF Token
    <2> HIDE DEF new
    <2>3. tokens' \in [Tokens -> {Unused, Gone} \cup Token]
      BY <2>1, <2>2 DEF EnrollInv, EnrollTypes
    <2>4. \A l \in Tokens : tokens[l] \in Token /\ tokens[l].used => tokens'[l] \in Token /\ tokens'[l].used
      BY <2>1, <2>2 DEF EnrollInv, EnrollTypes
    <2> QED BY <1>1, <1>3, <2>3, <2>4 DEF TokenExpires
  <1>4. ASSUME NEW h \in Hosts, NEW k \in Tokens, PerformEnrollment(h, k) PROVE EnrollInv'
    <2> DEFINE post == [host |-> h, token |-> k, live |-> TRUE]
    <2>1. EnrollTypes'
      <3>1. post \in [host : Hosts, token : Tokens, live : BOOLEAN]
        OBVIOUS
      <3>2. /\ posts' = posts \cup {post} /\ installer' = [installer EXCEPT ![h] = "waiting"]
            /\ UNCHANGED <<tokens, agents, identity, given>>
        BY <1>4 DEF PerformEnrollment
      <3> HIDE DEF post
      <3> QED BY <3>1, <3>2 DEF EnrollInv, EnrollTypes
    <2>2. \A g \in Hosts, i \in Identities : Holds(g, i)' => Holds(g, i)
      BY <1>4 DEF PerformEnrollment, EnrollInv, EnrollTypes, Holds
    <2> QED BY <1>4, <2>1, <2>2, NoNewHolder DEF PerformEnrollment
  <1>5. ASSUME NEW r \in posts, PostLost(r) PROVE EnrollInv'
    <2>1. EnrollTypes'
      BY <1>5 DEF PostLost, EnrollInv, EnrollTypes
    <2>2. \A g \in Hosts, i \in Identities : Holds(g, i)' => Holds(g, i)
      BY <1>5 DEF PostLost, Holds
    <2> QED BY <1>5, <2>1, <2>2, NoNewHolder DEF PostLost
  <1>6. ASSUME NEW r \in posts, NEW id \in Identities, HandleEnrollment(r, id) PROVE EnrollInv'
    <2>1. r.host \in Hosts /\ r.token \in Tokens /\ posts' \subseteq posts
      BY <1>6 DEF HandleEnrollment, EnrollInv, EnrollTypes
    <2>2. CASE ~ Usable(r.token)
      <3>1. EnrollTypes'
        BY <1>6, <2>1, <2>2 DEF HandleEnrollment, EnrollInv, EnrollTypes
      <3>2. \A g \in Hosts, i \in Identities : Holds(g, i)' => Holds(g, i)
        BY <1>6, <2>1, <2>2 DEF HandleEnrollment, EnrollInv, EnrollTypes, Holds
      <3> QED BY <1>6, <2>2, <3>1, <3>2, NoNewHolder DEF HandleEnrollment
    <2>3. CASE Usable(r.token)
      <3> DEFINE k == r.token
                 spent == [tokens[k] EXCEPT !.used = TRUE]
                 new == [node |-> tokens[k].node, token |-> k, status |-> "enrolled"]
                 answer == [host |-> r.host, id |-> id]
      <3>1. tokens[k] \in Token /\ ~ tokens[k].used /\ agents[id] = Unused
        BY <1>6, <2>1, <2>3 DEF HandleEnrollment, Usable, EnrollInv, EnrollTypes
      <3>2. spent \in Token /\ spent.used /\ new \in Agent /\ new.token = k
        BY <2>1, <3>1 DEF Token, Agent
      <3>3. /\ tokens' = [tokens EXCEPT ![k] = spent]
            /\ agents' = [agents EXCEPT ![id] = new]
            /\ given' \subseteq given \cup {answer}
            /\ installer' = installer /\ identity' = identity
        BY <1>6, <2>3 DEF HandleEnrollment, Consumed
      <3> HIDE DEF spent, new
      <3>4. EnrollTypes'
        BY <2>1, <3>2, <3>3 DEF EnrollInv, EnrollTypes
      <3>5. /\ \A l \in Tokens \ {k} : tokens'[l] = tokens[l]
            /\ tokens'[k] = spent
            /\ \A i \in Identities \ {id} : agents'[i] = agents[i]
            /\ agents'[id] = new
        BY <2>1, <3>3 DEF EnrollInv, EnrollTypes
      <3>6. \A i \in Identities \ {id} : Registered(i)' => Registered(i) /\ agents[i].token \in Tokens \ {k}
        BY <3>1, <3>5 DEF Registered, EnrollInv, EnrollTypes, Agent, TokensSpent
      <3>7. TokensSpent'
        BY <2>1, <3>2, <3>5, <3>6 DEF EnrollInv, TokensSpent
      <3>8. \A i, j \in Identities : (i # j /\ Registered(i)' /\ Registered(j)') => agents'[i].token # agents'[j].token
        BY <3>2, <3>5, <3>6 DEF EnrollInv, OneEach
      <3>9. \A h \in Hosts, i \in Identities : Holds(h, i)' => Holds(h, i) \/ (h = r.host /\ i = id)
        BY <3>3 DEF Holds
      <3>10. \A h \in Hosts : ~ Holds(h, id)
        BY <3>1 DEF EnrollInv, OneEach
      <3>11. \A g, h \in Hosts, i \in Identities : (Holds(g, i)' /\ Holds(h, i)') => g = h
        BY <3>9, <3>10 DEF EnrollInv, OneEach
      <3>12. \A h \in Hosts, i \in Identities : Holds(h, i)' => agents'[i] # Unused
        BY <3>2, <3>5, <3>9 DEF EnrollInv, OneEach
      <3> QED BY <3>4, <3>7, <3>8, <3>11, <3>12 DEF EnrollInv, OneEach
    <2> QED BY <2>2, <2>3
  <1>7. ASSUME NEW id \in Identities, Revoke(id) PROVE EnrollInv'
    <2> DEFINE new == [agents[id] EXCEPT !.status = "revoked"]
    <2>1. agents' = [agents EXCEPT ![id] = new] /\ agents[id] \in Agent
      BY <1>7 DEF Revoke, EnrollInv, EnrollTypes
    <2>2. new \in Agent /\ new.token = agents[id].token
      BY <2>1 DEF Agent
    <2> HIDE DEF new
    <2>3. /\ \A i \in Identities \ {id} : agents'[i] = agents[i]
          /\ agents'[id] = new
          /\ agents' \in [Identities -> {Unused, Gone} \cup Agent]
      BY <2>1, <2>2 DEF EnrollInv, EnrollTypes
    <2>4. /\ \A i \in Identities : Registered(i)' => Registered(i) /\ agents'[i].token = agents[i].token
          /\ \A i \in Identities : agents[i] # Unused => agents'[i] # Unused
      BY <2>1, <2>2, <2>3 DEF Registered
    <2>5. UNCHANGED <<tokens, installer, identity, posts, given>>
      BY <1>7 DEF Revoke
    <2>6. EnrollTypes'
      BY <2>3, <2>5 DEF EnrollInv, EnrollTypes
    <2>7. TokensSpent'
      BY <2>4, <2>5 DEF EnrollInv, TokensSpent
    <2>8. \A i, j \in Identities : (i # j /\ Registered(i)' /\ Registered(j)') => agents'[i].token # agents'[j].token
      BY <2>4 DEF EnrollInv, OneEach
    <2>9. \A h \in Hosts, i \in Identities : Holds(h, i)' <=> Holds(h, i)
      BY <2>5 DEF Holds
    <2> QED BY <2>4, <2>6, <2>7, <2>8, <2>9 DEF EnrollInv, OneEach
  <1>8. CASE CentralForgets
    <2>1. /\ tokens' = [k \in Tokens |-> IF tokens[k] = Unused THEN Unused ELSE Gone]
          /\ agents' = [i \in Identities |-> IF agents[i] = Unused THEN Unused ELSE Gone]
          /\ UNCHANGED <<installer, identity, posts, given>>
      BY <1>8 DEF CentralForgets
    <2>2. \A i \in Identities : ~ Registered(i)' /\ (agents[i] # Unused => agents'[i] # Unused)
      BY <2>1, MissingAreDistinct DEF Registered
    <2>3. EnrollTypes'
      BY <2>1 DEF EnrollInv, EnrollTypes
    <2>4. \A h \in Hosts, i \in Identities : Holds(h, i)' <=> Holds(h, i)
      BY <2>1 DEF Holds
    <2> QED BY <2>2, <2>3, <2>4 DEF EnrollInv, TokensSpent, OneEach
  <1>9. ASSUME NEW a \in given, EnrollmentAnswered(a) PROVE EnrollInv'
    <2>1. a.host \in Hosts /\ a.id \in Identities /\ a = [host |-> a.host, id |-> a.id]
      BY DEF EnrollInv, EnrollTypes
    <2>2. EnrollTypes'
      BY <1>9, <2>1 DEF EnrollmentAnswered, EnrollInv, EnrollTypes
    <2>3. \A g \in Hosts, i \in Identities : Holds(g, i)' => Holds(g, i)
      BY <1>9, <2>1 DEF EnrollmentAnswered, EnrollInv, EnrollTypes, Holds
    <2> QED BY <1>9, <2>2, <2>3, NoNewHolder DEF EnrollmentAnswered
  <1>10. ASSUME NEW h \in Hosts, SaveIdentity(h) PROVE EnrollInv'
    <2>1. EnrollTypes'
      BY <1>10 DEF SaveIdentity, EnrollInv, EnrollTypes
    <2>2. \A g \in Hosts, i \in Identities : Holds(g, i)' => Holds(g, i)
      BY <1>10 DEF SaveIdentity, EnrollInv, EnrollTypes, Holds
    <2> QED BY <1>10, <2>1, <2>2, NoNewHolder DEF SaveIdentity
  <1>11. ASSUME NEW h \in Hosts, InstallerDies(h) PROVE EnrollInv'
    <2>1. /\ identity' \in {identity, [identity EXCEPT ![h] = Gone]}
          /\ installer' = [installer EXCEPT ![h] = "idle"]
          /\ given' \subseteq given /\ tokens' = tokens /\ agents' = agents
      BY <1>11 DEF InstallerDies
    <2>2. posts' \subseteq [host : Hosts, token : Tokens, live : BOOLEAN]
      <3>1. posts' = {[r EXCEPT !.live = r.live /\ r.host # h] : r \in posts}
        BY <1>11 DEF InstallerDies
      <3>2. \A r \in posts : [r EXCEPT !.live = r.live /\ r.host # h]
                               \in [host : Hosts, token : Tokens, live : BOOLEAN]
        BY DEF EnrollInv, EnrollTypes
      <3> QED BY <3>1, <3>2
    <2>3. EnrollTypes'
      BY <2>1, <2>2 DEF EnrollInv, EnrollTypes
    <2>4. \A g \in Hosts, i \in Identities : Holds(g, i)' => Holds(g, i)
      BY <2>1 DEF EnrollInv, EnrollTypes, Holds
    <2> QED BY <2>1, <2>3, <2>4, NoNewHolder
  <1>12. CASE UNCHANGED enrollVars
    <2>1. EnrollTypes'
      BY <1>12 DEF enrollVars, EnrollInv, EnrollTypes
    <2>2. \A g \in Hosts, i \in Identities : Holds(g, i)' => Holds(g, i)
      BY <1>12 DEF enrollVars, Holds
    <2> QED BY <1>12, <2>1, <2>2, NoNewHolder DEF enrollVars
  <1> QED BY <1>2, <1>3, <1>4, <1>5, <1>6, <1>7, <1>8, <1>9, <1>10, <1>11, <1>12 DEF EnrollNext

LEMMA EnrollStarts == EnrollInit => EnrollInv
  BY EnrollAssumption DEF EnrollInit, EnrollInv, EnrollTypes, TokensSpent, OneEach, Registered, Holds

\* For any hosts, tokens and identities, with late requests and answers,
\* installers that die or are run again, and a restart of central: a token
\* enrolls one identity, and an identity is on one host
\* (agent.controller.ts, main.go).
THEOREM IdentityIsExclusive == EnrollInit /\ [][EnrollNext]_enrollVars => []OneHostPerToken
  <1>1. EnrollInv => OneHostPerToken
    BY DEF EnrollInv, OneEach, Registered, Holds, OneHostPerToken
  <1> QED BY <1>1, EnrollStarts, EnrollStep, PTL

\* The host that holds an identity is where it is, and what nobody holds is lost.
Located ==
    \A i \in Identities :
        /\ agents[i] = Unused => Whereabouts[i] = Unused
        /\ \A h \in Hosts : Holds(h, i) => Whereabouts[i] = h
        /\ agents[i] # Unused /\ (\A h \in Hosts : ~ Holds(h, i)) => Whereabouts[i] = Gone

LEMMA WhereaboutsAre == EnrollInv => Located
  <1> SUFFICES ASSUME EnrollInv, NEW i \in Identities
               PROVE  /\ agents[i] = Unused => Whereabouts[i] = Unused
                      /\ \A h \in Hosts : Holds(h, i) => Whereabouts[i] = h
                      /\ agents[i] # Unused /\ (\A h \in Hosts : ~ Holds(h, i))
                           => Whereabouts[i] = Gone
    BY DEF Located
  <1>1. ASSUME NEW h \in Hosts, Holds(h, i)
        PROVE  Whereabouts[i] = h
    <2>1. agents[i] # Unused /\ \A g \in Hosts : Holds(g, i) => g = h
      BY <1>1 DEF EnrollInv, OneEach
    <2>2. Whereabouts[i] = CHOOSE g \in Hosts : Holds(g, i)
      BY <1>1, <2>1 DEF Whereabouts
    <2>3. (CHOOSE g \in Hosts : Holds(g, i)) = h
      BY <1>1, <2>1
    <2> QED BY <2>2, <2>3
  <1>2. agents[i] = Unused => Whereabouts[i] = Unused
    BY DEF Whereabouts
  <1>3. agents[i] # Unused /\ (\A h \in Hosts : ~ Holds(h, i)) => Whereabouts[i] = Gone
    BY DEF Whereabouts
  <1> QED BY <1>1, <1>2, <1>3

\* A step at one host, which may let go of what this host has.
LEMMA OnlyThisHostLoses ==
    ASSUME EnrollInv, EnrollInv', NEW h \in Hosts, tokens' = tokens, agents' = agents,
           \A g \in Hosts, i \in Identities : Holds(g, i)' => Holds(g, i),
           \A g \in Hosts \ {h}, i \in Identities : Holds(g, i) => Holds(g, i)'
    PROVE  Custody!Next
  <1> DEFINE ids == {i \in Identities : Holds(h, i) /\ ~ Holds(h, i)'}
  <1>a. Located /\ Located'
    BY WhereaboutsAre, PTL
  <1>1. \A i \in ids : Whereabouts[i] = h
    BY <1>a DEF Located
  <1>2. ASSUME NEW i \in Identities
        PROVE  Whereabouts'[i] = IF i \in ids THEN Gone ELSE Whereabouts[i]
    <2>1. /\ agents'[i] = Unused => Whereabouts'[i] = Unused
          /\ \A g \in Hosts : Holds(g, i)' => Whereabouts'[i] = g
          /\ agents'[i] # Unused /\ (\A g \in Hosts : ~ Holds(g, i)') => Whereabouts'[i] = Gone
      BY <1>a DEF Located
    <2>2. CASE i \in ids
      <3>1. agents[i] # Unused /\ \A g \in Hosts : ~ Holds(g, i)'
        BY <2>2 DEF EnrollInv, OneEach
      <3> QED BY <2>1, <2>2, <3>1
    <2>3. CASE i \notin ids
      <3>1. CASE \E g \in Hosts : Holds(g, i)
        BY <1>a, <2>1, <2>3, <3>1 DEF Located
      <3>2. CASE \A g \in Hosts : ~ Holds(g, i)
        BY <1>a, <2>1, <2>3, <3>2 DEF Located
      <3> QED BY <3>1, <3>2
    <2> QED BY <2>2, <2>3
  <1>3. Whereabouts' = [i \in Identities |-> IF i \in ids THEN Gone ELSE Whereabouts[i]]
    BY <1>2 DEF Whereabouts
  <1>4. Spent' = Spent
    BY DEF Spent, Usable
  <1>5. ids \in SUBSET Identities
    OBVIOUS
  <1> HIDE DEF ids
  <1>6. Custody!Lose(h, ids)
    BY <1>1, <1>3, <1>4 DEF Custody!Lose
  <1> QED BY <1>5, <1>6 DEF Custody!Next


\* A step at central that gives nothing out: it voids tokens, or nothing.
LEMMA NothingGivenOut ==
    ASSUME EnrollInv, EnrollInv', UNCHANGED <<installer, identity, given>>,
           \A i \in Identities : agents'[i] = Unused <=> agents[i] = Unused,
           \A k \in Tokens : tokens[k] # Unused /\ ~ Usable(k)
                                => tokens'[k] # Unused /\ ~ Usable(k)'
    PROVE  Custody!Next
  <1>1. Located /\ Located'
    BY WhereaboutsAre, PTL
  <1>2. \A h \in Hosts, i \in Identities : Holds(h, i)' <=> Holds(h, i)
    BY DEF Holds
  <1>3. ASSUME NEW i \in Identities
        PROVE  Whereabouts'[i] = Whereabouts[i]
    <2>1. CASE \E h \in Hosts : Holds(h, i)
      BY <1>1, <1>2, <2>1 DEF Located
    <2>2. CASE \A h \in Hosts : ~ Holds(h, i)
      BY <1>1, <1>2, <2>2 DEF Located
    <2> QED BY <2>1, <2>2
  <1>4. Whereabouts' = Whereabouts
    BY <1>3 DEF Whereabouts
  <1>5. Spent \subseteq Spent' /\ Spent' \in SUBSET Tokens
    BY DEF Spent
  <1>6. Custody!Void(Spent')
    BY <1>4, <1>5 DEF Custody!Void
  <1> QED BY <1>5, <1>6 DEF Custody!Next

\* What central does with a token that is good: one identity goes to the host
\* that asked, or to nobody when its installer has died.
LEMMA RedeemedOnce ==
    ASSUME EnrollInv, EnrollInv', NEW r \in posts, NEW id \in Identities,
           HandleEnrollment(r, id), Usable(r.token)
    PROVE  Custody!Next
  <1> DEFINE k == r.token
             spent == [tokens[k] EXCEPT !.used = TRUE]
             new == [node |-> tokens[k].node, token |-> k, status |-> "enrolled"]
             answer == [host |-> r.host, id |-> id]
             where == IF r.live THEN r.host ELSE Gone
  <1>1. /\ r.host \in Hosts /\ k \in Tokens /\ tokens[k] \in Token /\ agents[id] = Unused
        /\ tokens \in [Tokens -> {Unused, Gone} \cup Token]
        /\ agents \in [Identities -> {Unused, Gone} \cup Agent]
    BY DEF HandleEnrollment, Usable, EnrollInv, EnrollTypes
  <1>2. spent \in Token /\ spent.used /\ new \in Agent
    BY <1>1 DEF Token, Agent
  <1>3. /\ tokens' = [tokens EXCEPT ![k] = spent]
        /\ agents' = [agents EXCEPT ![id] = new]
        /\ given' = IF r.live THEN given \cup {answer} ELSE given
        /\ installer' = installer /\ identity' = identity
    BY DEF HandleEnrollment, Consumed
  <1>4. spent # Unused /\ new # Unused /\ {Unused, Gone} \cap Token = {}
    BY <1>2, EnrollAssumption
  <1> HIDE DEF spent, new
  <1>5. /\ tokens'[k] = spent /\ \A l \in Tokens \ {k} : tokens'[l] = tokens[l]
        /\ agents'[id] = new /\ \A i \in Identities \ {id} : agents'[i] = agents[i]
    BY <1>1, <1>3
  <1>6. Spent' = Spent \cup {k} /\ k \notin Spent
    BY <1>1, <1>2, <1>4, <1>5 DEF Spent, Usable
  <1>7. Located /\ Located'
    BY WhereaboutsAre, PTL
  <1>8. \A h \in Hosts, i \in Identities : Holds(h, i)' <=> Holds(h, i) \/ (r.live /\ h = r.host /\ i = id)
    BY <1>3 DEF Holds
  <1>9. \A h \in Hosts : ~ Holds(h, id)
    BY <1>1 DEF EnrollInv, OneEach
  <1>10. Whereabouts[id] = Unused /\ Whereabouts'[id] = where
    <2>1. Whereabouts[id] = Unused
      BY <1>1, <1>7 DEF Located
    <2>2. CASE r.live
      <3>1. Holds(r.host, id)'
        BY <1>1, <1>8, <2>2
      <3> QED BY <1>1, <1>7, <2>1, <2>2, <3>1 DEF Located
    <2>3. CASE ~ r.live
      <3>1. agents'[id] # Unused /\ \A h \in Hosts : ~ Holds(h, id)'
        BY <1>4, <1>5, <1>8, <1>9, <2>3
      <3> QED BY <1>7, <2>1, <2>3, <3>1 DEF Located
    <2> QED BY <2>2, <2>3, <2>1
  <1>11. ASSUME NEW i \in Identities \ {id}
         PROVE  Whereabouts'[i] = Whereabouts[i]
    <2>1. CASE \E h \in Hosts : Holds(h, i)
      BY <1>7, <1>8, <2>1 DEF Located
    <2>2. CASE \A h \in Hosts : ~ Holds(h, i)
      BY <1>5, <1>7, <1>8, <2>2 DEF Located
    <2> QED BY <2>1, <2>2
  <1>12. Whereabouts' = [Whereabouts EXCEPT ![id] = where]
    BY <1>10, <1>11 DEF Whereabouts
  <1>13. where \in Hosts \cup {Gone}
    BY <1>1
  <1> HIDE DEF where
  <1>14. Custody!Enroll(k, id, where)
    BY <1>6, <1>10, <1>12 DEF Custody!Enroll
  <1> QED BY <1>1, <1>13, <1>14 DEF Custody!Next

\* Whatever is late, lost, run again or forgotten, what enrollment does is what
\* EnrollOnce says: a token gives out one identity, and an identity goes to the
\* host that asked for it, or is lost, for good (agent.controller.ts, main.go).
THEOREM EnrollmentIsOnce == EnrollInit /\ [][EnrollNext]_enrollVars => ImplementsEnrollOnce
  <1>1. EnrollInit => Custody!Init
    BY DEF EnrollInit, Custody!Init, Spent, Whereabouts
  <1>2. ASSUME EnrollInv, EnrollInv', [EnrollNext]_enrollVars
        PROVE  [Custody!Next]_<<Spent, Whereabouts>>
    <2>1. ASSUME NEW k \in Tokens, NEW n \in Nodes, CreateEnrollmentToken(k, n) PROVE Custody!Next
      <3>1. \A l \in Tokens : tokens[l] # Unused => tokens'[l] = tokens[l]
        BY <1>2, <2>1 DEF CreateEnrollmentToken, EnrollInv, EnrollTypes
      <3> QED BY <1>2, <2>1, <3>1, NothingGivenOut DEF CreateEnrollmentToken, Usable
    <2>2. ASSUME NEW k \in Tokens, TokenExpires(k) PROVE Custody!Next
      <3> DEFINE late == [tokens[k] EXCEPT !.expired = TRUE]
      <3>1. tokens' = [tokens EXCEPT ![k] = late] /\ tokens[k] \in Token
        BY <1>2, <2>2 DEF TokenExpires, EnrollInv, EnrollTypes
      <3>2. late.expired /\ late \in Token /\ late # Unused
        BY <3>1, EnrollAssumption DEF Token
      <3> HIDE DEF late
      <3>3. tokens'[k] = late /\ \A l \in Tokens \ {k} : tokens'[l] = tokens[l]
        BY <1>2, <2>2, <3>1 DEF EnrollInv, EnrollTypes
      <3>4. \A l \in Tokens : tokens[l] # Unused /\ ~ Usable(l) => tokens'[l] # Unused /\ ~ Usable(l)'
        BY <3>2, <3>3 DEF Usable
      <3> QED BY <1>2, <2>2, <3>4, NothingGivenOut DEF TokenExpires
    <2>3. ASSUME NEW id \in Identities, Revoke(id) PROVE Custody!Next
      <3> DEFINE out == [agents[id] EXCEPT !.status = "revoked"]
      <3>1. agents' = [agents EXCEPT ![id] = out] /\ agents[id] \in Agent /\ out \in Agent
        BY <1>2, <2>3 DEF Revoke, EnrollInv, EnrollTypes, Agent
      <3>2. out # Unused /\ agents[id] # Unused
        BY <3>1, EnrollAssumption
      <3> HIDE DEF out
      <3>3. \A i \in Identities : agents'[i] = Unused <=> agents[i] = Unused
        BY <1>2, <3>1, <3>2 DEF EnrollInv, EnrollTypes
      <3> QED BY <1>2, <2>3, <3>3, NothingGivenOut DEF Revoke, Usable
    <2>4. CASE CentralForgets
      <3>1. \A i \in Identities : agents'[i] = Unused <=> agents[i] = Unused
        BY <2>4, MissingAreDistinct DEF CentralForgets
      <3>2. \A l \in Tokens : tokens[l] # Unused => tokens'[l] = Gone
        BY <2>4 DEF CentralForgets
      <3> QED BY <1>2, <2>4, <3>1, <3>2, MissingAreDistinct, NothingGivenOut DEF CentralForgets, Usable
    <2>5. ASSUME NEW r \in posts, PostLost(r) PROVE Custody!Next
      BY <1>2, <2>5, NothingGivenOut DEF PostLost, Usable
    <2>6. ASSUME NEW h \in Hosts, NEW k \in Tokens, PerformEnrollment(h, k) PROVE Custody!Next
      <3>1. /\ \A g \in Hosts, i \in Identities : Holds(g, i)' => Holds(g, i)
            /\ \A g \in Hosts \ {h}, i \in Identities : Holds(g, i) => Holds(g, i)'
        BY <1>2, <2>6, EnrollAssumption DEF PerformEnrollment, EnrollInv, EnrollTypes, Holds
      <3> QED BY <1>2, <2>6, <3>1, OnlyThisHostLoses DEF PerformEnrollment
    <2>7. ASSUME NEW r \in posts, NEW id \in Identities, HandleEnrollment(r, id) PROVE Custody!Next
      <3>1. CASE Usable(r.token)
        BY <1>2, <2>7, <3>1, RedeemedOnce
      <3>2. CASE ~ Usable(r.token)
        <4>1. r.host \in Hosts
          BY <1>2, <2>7 DEF EnrollInv, EnrollTypes
        <4>2. /\ \A g \in Hosts, i \in Identities : Holds(g, i)' => Holds(g, i)
              /\ \A g \in Hosts \ {r.host}, i \in Identities : Holds(g, i) => Holds(g, i)'
          BY <1>2, <2>7, <3>2, <4>1, EnrollAssumption
             DEF HandleEnrollment, EnrollInv, EnrollTypes, Holds
        <4> QED BY <1>2, <2>7, <3>2, <4>1, <4>2, OnlyThisHostLoses DEF HandleEnrollment
      <3> QED BY <3>1, <3>2
    <2>8. ASSUME NEW a \in given, EnrollmentAnswered(a) PROVE Custody!Next
      <3>1. a.host \in Hosts /\ a.id \in Identities /\ a = [host |-> a.host, id |-> a.id]
        BY <1>2, <2>8 DEF EnrollInv, EnrollTypes
      <3>2. /\ \A g \in Hosts, i \in Identities : Holds(g, i)' => Holds(g, i)
            /\ \A g \in Hosts \ {a.host}, i \in Identities : Holds(g, i) => Holds(g, i)'
        BY <1>2, <2>8, <3>1 DEF EnrollmentAnswered, EnrollInv, EnrollTypes, Holds
      <3> QED BY <1>2, <2>8, <3>1, <3>2, OnlyThisHostLoses DEF EnrollmentAnswered
    <2>9. ASSUME NEW h \in Hosts, SaveIdentity(h) PROVE Custody!Next
      <3>1. /\ \A g \in Hosts, i \in Identities : Holds(g, i)' => Holds(g, i)
            /\ \A g \in Hosts \ {h}, i \in Identities : Holds(g, i) => Holds(g, i)'
        BY <1>2, <2>9, EnrollAssumption DEF SaveIdentity, EnrollInv, EnrollTypes, Holds
      <3> QED BY <1>2, <2>9, <3>1, OnlyThisHostLoses DEF SaveIdentity
    <2>10. ASSUME NEW h \in Hosts, InstallerDies(h) PROVE Custody!Next
      <3>1. /\ identity' \in {identity, [identity EXCEPT ![h] = Gone]}
            /\ installer' = [installer EXCEPT ![h] = "idle"]
            /\ given' = {a \in given : a.host # h} /\ tokens' = tokens /\ agents' = agents
        BY <2>10 DEF InstallerDies
      <3>2. /\ \A g \in Hosts, i \in Identities : Holds(g, i)' => Holds(g, i)
            /\ \A g \in Hosts \ {h}, i \in Identities : Holds(g, i) => Holds(g, i)'
        BY <1>2, <3>1, EnrollAssumption DEF EnrollInv, EnrollTypes, Holds
      <3> QED BY <1>2, <3>1, <3>2, OnlyThisHostLoses
    <2>11. CASE UNCHANGED enrollVars
      BY <1>2, <2>11, NothingGivenOut DEF enrollVars, Usable
    <2> QED BY <1>2, <2>1, <2>2, <2>3, <2>4, <2>5, <2>6, <2>7, <2>8, <2>9, <2>10, <2>11
            DEF EnrollNext
  <1>3. EnrollInv /\ EnrollInv' /\ [EnrollNext]_enrollVars => [Custody!Next]_(Custody!onceVars)
    BY <1>2 DEF Custody!onceVars
  <1> QED BY <1>1, <1>3, EnrollStarts, EnrollStep, PTL DEF ImplementsEnrollOnce, Custody!Spec

-----------------------------------------------------------------------------
(* Credentials *)

\* Every record of the store has a secret, and what was typed for it is there.
Agree(store, secrets, text) ==
    /\ store \in [Ids -> {Unused, Gone} \cup Record]
    /\ secrets \in [SecretIds -> Values \cup {Unused}]
    /\ text \in [Ids -> [secret : Values, url : Urls \cup {None}]]
    /\ \A i \in Ids : store[i] \in Record =>
         /\ secrets[store[i].secret] # Unused
         /\ secrets[store[i].secret] = text[i].secret
         /\ store[i].url = text[i].url

Sync == [of : Integrations, url : Urls \cup {None}, detached : BOOLEAN]

CredInv ==
    ~ faulty =>
        /\ Agree(storeFile, vaultFile, typed)
        /\ running => /\ vault = vaultFile /\ records = storeFile
                      /\ \A y \in syncs : y \in Sync /\ records[y.of] \in Record

\* A handler may stop between the two writes, so that its vault has to agree
\* with the records it found as well.
LEMMA CommitAgrees ==
    ASSUME CredInv, running, NEW newVault, NEW newRecords, NEW newTyped,
           Commit(newVault, newRecords, newTyped),
           ~ faulty => /\ Agree(newRecords, newVault, newTyped)
                       /\ Agree(records, newVault, typed),
           ~ faulty => \A y \in syncs' : y \in Sync /\ newRecords[y.of] \in Record
    PROVE  CredInv'
  <1> SUFFICES ASSUME ~ faulty' PROVE CredInv'
    BY DEF CredInv
  <1>1. PICK outcome \in Outcomes : Save(outcome, newVault, newRecords)
    BY DEF Commit
  <1>2. vault' = newVault /\ records' = newRecords
        /\ typed' = IF running' THEN newTyped ELSE typed
    BY DEF Commit
  <1>3. outcome \in {"saved", "crash_between"} /\ ~ faulty
    BY <1>1 DEF Save, Outcomes
  <1>4. CASE outcome = "saved"
    <2>1. vaultFile' = newVault /\ storeFile' = newRecords /\ running'
      BY <1>1, <1>4 DEF Save
    <2> QED BY <1>2, <1>3, <2>1 DEF CredInv
  <1>5. CASE outcome = "crash_between"
    <2>1. vaultFile' = newVault /\ storeFile' = storeFile /\ ~ running'
      BY <1>1, <1>5 DEF Save
    <2> QED BY <1>2, <1>3, <2>1 DEF CredInv
  <1> QED BY <1>3, <1>4, <1>5

\* A secret that is new is no record's.
LEMMA StoredAgrees ==
    ASSUME NEW store, NEW text, Agree(store, vault, text),
           NEW s \in FreeSecrets, NEW value \in Values
    PROVE  Agree(store, Stored(s, value), text)
  BY DEF Agree, FreeSecrets, Stored, Record

\* One record is written, with the secret and the url that were typed.
LEMMA RecordAgrees ==
    ASSUME NEW store, NEW secrets, NEW text, Agree(store, secrets, text),
           NEW i \in Ids, NEW new \in Record, NEW words \in [secret : Values, url : Urls \cup {None}],
           secrets[new.secret] # Unused, secrets[new.secret] = words.secret, new.url = words.url
    PROVE  Agree([store EXCEPT ![i] = new], secrets, [text EXCEPT ![i] = words])
  BY CredentialsAssumption DEF Agree

LEMMA FaultsStay == [CredNext]_credVars /\ faulty => faulty'
  <1>1. \A v, r, t : Commit(v, r, t) /\ faulty => faulty'
    BY DEF Commit, Save
  <1>2. ASSUME [CredNext]_credVars, faulty, ~ faulty' PROVE FALSE
    <2>1. ~ UNCHANGED faulty /\ \A v, r, t : ~ Commit(v, r, t)
      BY <1>1, <1>2
    <2>2. \A i, key, url, s : ~ CreateIntegration(i, key, url, s) /\ ~ UpdateIntegration(i, key, url, s)
      BY <2>1 DEF CreateIntegration, UpdateIntegration
    <2>3. \A y : ~ StartSync(y) /\ ~ FinishSync(y)
      BY <2>1 DEF StartSync, FinishSync
    <2>4. \A d, key, s : /\ ~ CreateDevice(d, key, s) /\ ~ UpdateDevice(d, key, s)
                         /\ ~ UpdateDeletedDevice(d, key, s) /\ ~ DeleteDevice(d)
      BY <2>1 DEF CreateDevice, UpdateDevice, UpdateDeletedDevice, DeleteDevice
    <2>5. ~ Crash /\ ~ RestartServer /\ ~ UNCHANGED credVars
      BY <2>1 DEF Crash, RestartServer, credVars
    <2> QED BY <1>2, <2>2, <2>3, <2>4, <2>5 DEF CredNext
  <1> QED BY <1>2

LEMMA CredStep == CredInv /\ [CredNext]_credVars => CredInv'
  <1> SUFFICES ASSUME CredInv, [CredNext]_credVars, ~ faulty PROVE CredInv'
    BY FaultsStay DEF CredInv
  <1> USE CredentialsAssumption
  <1>1. ASSUME running
        PROVE  /\ Agree(records, vault, typed)
               /\ \A y \in syncs : y \in Sync /\ records[y.of] \in Record
    BY <1>1 DEF CredInv
  \* A new record, of either kind
  <1>2. ASSUME running, NEW i \in Ids, records[i] = Unused, NEW s \in FreeSecrets,
               NEW key \in Values, NEW url \in Urls \cup {None}, UNCHANGED syncs,
               Commit(Stored(s, key),
                      [records EXCEPT ![i] = [secret |-> s, url |-> url, synced |-> "never"]],
                      [typed EXCEPT ![i] = [secret |-> key, url |-> url]])
        PROVE  CredInv'
    <2> DEFINE new == [secret |-> s, url |-> url, synced |-> "never"]
               words == [secret |-> key, url |-> url]
               store == [records EXCEPT ![i] = new]
               text == [typed EXCEPT ![i] = words]
    <2>1. /\ new \in Record /\ words \in [secret : Values, url : Urls \cup {None}]
          /\ new.secret = s /\ words.secret = key /\ new.url = words.url
      BY DEF Record, FreeSecrets
    <2> HIDE DEF new, words
    <2>2. Agree(store, Stored(s, key), text) /\ Agree(records, Stored(s, key), typed)
      <3>1. Agree(records, Stored(s, key), typed)
        BY <1>1, <1>2, StoredAgrees
      <3>2. Stored(s, key)[s] = key /\ key # Unused
        BY <1>1, <1>2 DEF Stored, Agree, FreeSecrets
      <3> QED BY <2>1, <3>1, <3>2, RecordAgrees
    <2>3. \A y \in syncs' : y \in Sync /\ store[y.of] \in Record
      BY <1>1, <1>2, <2>1 DEF Agree, Ids, Sync
    <2>4. Commit(Stored(s, key), store, text)
      BY <1>2 DEF new, words
    <2> HIDE DEF store, text
    <2> QED BY <1>2, <2>2, <2>3, <2>4, CommitAgrees
  <1>3. ASSUME NEW i \in Integrations, NEW url \in Urls, NEW s \in SecretIds,
               NEW key \in Keys \cup {Default}, CreateIntegration(i, key, url, s)
        PROVE  CredInv'
    BY <1>2, <1>3 DEF CreateIntegration, Ids, Values
  <1>4. ASSUME NEW d \in Routers, NEW s \in SecretIds, NEW key \in Keys, CreateDevice(d, key, s)
        PROVE  CredInv'
    BY <1>2, <1>4 DEF CreateDevice, Ids, Values
  \* A record that exists is written. A blank credential leaves everything as
  \* it is, and a router's is stored once more.
  <1>5. ASSUME running, NEW i \in Existing, NEW new \in Record, NEW words, NEW secrets,
               words \in [secret : Values, url : Urls \cup {None}],
               Agree(records, secrets, typed),
               secrets[new.secret] # Unused, secrets[new.secret] = words.secret, new.url = words.url,
               \A y \in syncs' : y \in Sync /\ \E z \in syncs : z.of = y.of,
               Commit(secrets, [records EXCEPT ![i] = new], [typed EXCEPT ![i] = words])
        PROVE  CredInv'
    <2> DEFINE store == [records EXCEPT ![i] = new]
               text == [typed EXCEPT ![i] = words]
    <2>1. i \in Ids
      BY DEF Existing
    <2>2. Agree(store, secrets, text)
      BY <1>5, <2>1, RecordAgrees
    <2>3. \A y \in syncs' : y \in Sync /\ store[y.of] \in Record
      BY <1>1, <1>5 DEF Agree, Ids, Sync
    <2> HIDE DEF store, text
    <2> QED BY <1>5, <2>2, <2>3, CommitAgrees DEF store, text
  <1>6. ASSUME running, NEW i \in Existing
        PROVE  /\ i \in Ids /\ records[i] \in Record
               /\ typed[i] \in [secret : Values, url : Urls \cup {None}]
               /\ vault[records[i].secret] # Unused
               /\ vault[records[i].secret] = typed[i].secret /\ records[i].url = typed[i].url
               /\ Decrypted(i) = typed[i].secret
    BY <1>1, <1>6 DEF Existing, Agree, Record, Decrypted
  <1>7. ASSUME NEW i \in Integrations, NEW url \in Urls, NEW s \in SecretIds,
               NEW key \in Keys \cup {None}, UpdateIntegration(i, key, url, s)
        PROVE  CredInv'
    <2> DEFINE secret == IF key = None THEN records[i].secret ELSE s
               value == IF key = None THEN typed[i].secret ELSE key
               secrets == IF key = None THEN vault ELSE Stored(s, key)
               new == [records[i] EXCEPT !.secret = secret, !.url = url]
               words == [secret |-> value, url |-> url]
    <2>1. running /\ i \in Existing /\ s \in FreeSecrets /\ key \in Values
      BY <1>7 DEF UpdateIntegration, Values
    <2>2. Agree(records, secrets, typed)
      BY <1>1, <2>1, StoredAgrees
    <2>3. /\ secret \in SecretIds /\ value \in Values
          /\ secrets[secret] # Unused /\ secrets[secret] = value
      <3>1. CASE key = None
        BY <1>6, <2>1, <3>1 DEF Record
      <3>2. CASE key # None
        BY <1>1, <2>1, <3>2 DEF Stored, FreeSecrets, Agree
      <3> QED BY <3>1, <3>2
    <2> HIDE DEF secret, value
    <2>4. /\ new \in Record /\ new.secret = secret /\ new.url = url
          /\ words \in [secret : Values, url : Urls \cup {None}]
          /\ words.secret = value /\ words.url = url
      <3>1. new \in Record /\ new.secret = secret /\ new.url = url
        <4>1. records[i] \in Record /\ url \in Urls \cup {None}
          BY <1>6, <2>1
        <4> QED BY <2>3, <4>1 DEF Record
      <3>2. words \in [secret : Values, url : Urls \cup {None}] /\ words.secret = value /\ words.url = url
        BY <1>6, <2>1, <2>3
      <3> QED BY <3>1, <3>2
    <2>5. Commit(secrets, [records EXCEPT ![i] = new], [typed EXCEPT ![i] = words])
      BY <1>7 DEF UpdateIntegration, secret, value
    <2>6. \A y \in syncs' : y \in Sync /\ \E z \in syncs : z.of = y.of
      <3>1. \A y \in syncs : y \in Sync
        BY <1>1, <2>1
      <3>2. \A y \in syncs : [y EXCEPT !.detached = TRUE] \in Sync /\ [y EXCEPT !.detached = TRUE].of = y.of
        BY <3>1 DEF Sync
      <3>3. \A x \in syncs' : x \in syncs \/ \E y \in syncs : x = [y EXCEPT !.detached = TRUE]
        BY <1>7 DEF UpdateIntegration
      <3>4. ASSUME NEW y \in syncs, NEW x, x = [y EXCEPT !.detached = TRUE]
            PROVE  x \in Sync /\ x.of = y.of
        BY <3>2, <3>4
      <3> QED BY <3>1, <3>3, <3>4
    <2> HIDE DEF new, words, secrets
    <2> QED BY <1>5, <2>1, <2>2, <2>3, <2>4, <2>5, <2>6
  <1>8. ASSUME NEW d \in Routers, NEW s \in SecretIds, NEW key \in Keys \cup {None},
               UpdateDevice(d, key, s)
        PROVE  CredInv'
    <2> DEFINE value == IF key = None THEN typed[d].secret ELSE key
               secrets == Stored(s, value)
               new == [records[d] EXCEPT !.secret = s]
               words == [typed[d] EXCEPT !.secret = value]
    <2>1. running /\ d \in Existing /\ s \in FreeSecrets /\ UNCHANGED syncs
      BY <1>8 DEF UpdateDevice
    <2>2. FinalPass(d, key) = value /\ value \in Values
      BY <1>6, <2>1 DEF FinalPass, Values
    <2>3. Agree(records, secrets, typed)
      BY <1>1, <2>1, <2>2, StoredAgrees
    <2>4. secrets[s] = value /\ value # Unused
      BY <1>1, <2>1, <2>2 DEF Stored, FreeSecrets, Agree
    <2>5. Commit(secrets, [records EXCEPT ![d] = new], [typed EXCEPT ![d] = words])
      BY <1>8, <2>2 DEF UpdateDevice
    <2> HIDE DEF value, secrets
    <2>6. /\ new \in Record /\ new.secret = s /\ new.url = records[d].url
          /\ words \in [secret : Values, url : Urls \cup {None}]
          /\ words.secret = value /\ words.url = typed[d].url
      <3>1. new \in Record /\ new.secret = s /\ new.url = records[d].url
        <4>1. records[d] \in Record /\ s \in SecretIds /\ records[d].url \in Urls \cup {None}
          BY <1>6, <2>1 DEF FreeSecrets, Record
        <4> QED BY <4>1 DEF Record
      <3>2. /\ words \in [secret : Values, url : Urls \cup {None}]
            /\ words.secret = value /\ words.url = typed[d].url
        BY <1>6, <2>1, <2>2 DEF value
      <3> QED BY <3>1, <3>2
    <2> HIDE DEF new, words
    <2> QED BY <1>1, <1>5, <1>6, <2>1, <2>3, <2>4, <2>5, <2>6
  <1>9. ASSUME NEW d \in Routers, NEW s \in SecretIds, NEW key \in Keys \cup {None},
               UpdateDeletedDevice(d, key, s)
        PROVE  CredInv'
    <2>1. /\ running /\ s \in FreeSecrets /\ key \in Values /\ UNCHANGED syncs
          /\ Commit(Stored(s, key), records, typed)
      BY <1>9 DEF UpdateDeletedDevice, Values
    <2>2. Agree(records, Stored(s, key), typed)
      BY <1>1, <2>1, StoredAgrees
    <2> QED BY <1>1, <2>1, <2>2, CommitAgrees
  <1>10. ASSUME NEW d \in Routers, DeleteDevice(d) PROVE CredInv'
    <2> DEFINE store == [records EXCEPT ![d] = Gone]
    <2>1. running /\ UNCHANGED syncs /\ Commit(vault, store, typed)
      BY <1>10 DEF DeleteDevice
    <2>2. Agree(store, vault, typed)
      BY <1>1, <2>1 DEF Agree, Ids
    <2>3. \A y \in syncs' : y \in Sync /\ store[y.of] \in Record
      BY <1>1, <2>1 DEF Agree, Ids, Sync
    <2> HIDE DEF store
    <2> QED BY <1>1, <2>1, <2>2, <2>3, CommitAgrees
  <1>11. ASSUME NEW i \in Integrations, StartSync(i) PROVE CredInv'
    <2>1. running /\ i \in Existing
      BY <1>11 DEF StartSync
    <2> DEFINE new == [of |-> i, url |-> records[i].url, detached |-> FALSE]
    <2>2. syncs' = syncs \cup {new}
      BY <1>11 DEF StartSync
    <2>3. UNCHANGED <<vault, records, vaultFile, storeFile, running, faulty, typed>>
      BY <1>11 DEF StartSync
    <2>4. new \in Sync /\ new.of = i /\ records[i] \in Record
      BY <1>6, <2>1 DEF Sync, Record
    <2> HIDE DEF new
    <2> QED BY <1>1, <2>1, <2>2, <2>3, <2>4 DEF CredInv, Agree
  <1>12. ASSUME NEW y \in syncs, FinishSync(y) PROVE CredInv'
    <2>1. PICK reached \in BOOLEAN : Commit(vault, Synced(y, Discovered(reached)), typed)
      BY <1>12 DEF FinishSync
    <2> DEFINE i == y.of
               counts == Discovered(reached)
               new == [records[i] EXCEPT !.synced = counts]
    <2>2. running /\ i \in Integrations /\ records[i] \in Record /\ syncs' \subseteq syncs
      BY <1>1, <1>12 DEF FinishSync, Sync
    <2>3. CASE y.detached
      BY <1>1, <2>1, <2>2, <2>3, CommitAgrees DEF Synced
    <2>4. CASE ~ y.detached
      <3>1. i \in Existing
        BY <2>2 DEF Existing, Ids
      <3>2. counts \in {"never", "listed", "made up"}
        BY DEF Discovered
      <3> HIDE DEF counts
      <3>3. new \in Record /\ new.secret = records[i].secret /\ new.url = records[i].url
        BY <2>2, <3>2 DEF Record
      <3>4. Synced(y, counts) = [records EXCEPT ![i] = new]
        BY <2>4 DEF Synced
      <3>5. typed = [typed EXCEPT ![i] = typed[i]]
        BY <1>1, <2>2, <3>1, <1>6 DEF Agree
      <3>6. Commit(vault, [records EXCEPT ![i] = new], [typed EXCEPT ![i] = typed[i]])
        BY <2>1, <3>4, <3>5 DEF counts
      <3> HIDE DEF new, i
      <3> QED BY <1>1, <1>5, <1>6, <2>2, <3>1, <3>3, <3>6
    <2> QED BY <2>3, <2>4
  <1>13. CASE Crash
    BY <1>13 DEF Crash, CredInv, Agree
  <1>14. CASE RestartServer
    <2>1. Agree(storeFile, vaultFile, typed)
      BY DEF CredInv
    <2>2. storeFile # None
      BY <2>1 DEF Agree
    <2> QED BY <1>14, <2>1, <2>2 DEF RestartServer, LoadStore, CredInv, Agree
  <1>15. CASE UNCHANGED credVars
    BY <1>15 DEF credVars, CredInv, Agree
  <1> QED BY <1>3, <1>4, <1>7, <1>8, <1>9, <1>10, <1>11, <1>12, <1>13, <1>14, <1>15 DEF CredNext

\* For any integrations, routers and secrets, with a crash anywhere and
\* synchronisations on their way: as long as no write failed, what is in effect
\* is what was typed last (server.ts, secretVault.ts).
THEOREM TypedStays == CredInit /\ [][CredNext]_credVars => []LastTypedHolds
  <1>1. CredInit => CredInv
    BY CredentialsAssumption DEF CredInit, CredInv, Agree, EmptyStore, Values
  <1>2. CredInv => LastTypedHolds
    BY CredentialsAssumption DEF CredInv, Agree, LastTypedHolds, Existing, Decrypted, Record
  <1> QED BY <1>1, <1>2, CredStep, PTL

\* What is typed even after a write failed, or a store was torn.
CredTyped ==
    /\ vault \in [SecretIds -> Values \cup {Unused}]
    /\ vaultFile \in [SecretIds -> Values \cup {Unused}]
    /\ records \in [Ids -> {Unused, Gone} \cup Record]
    /\ storeFile \in {None} \cup [Ids -> {Unused, Gone} \cup Record]
    /\ running \in BOOLEAN /\ faulty \in BOOLEAN
    /\ running => \A y \in syncs : y \in Sync /\ records[y.of] \in Record

LEMMA CommitTyped ==
    ASSUME CredTyped,
           NEW newVault \in [SecretIds -> Values \cup {Unused}],
           NEW newRecords \in [Ids -> {Unused, Gone} \cup Record],
           NEW newTyped, Commit(newVault, newRecords, newTyped),
           \A y \in syncs' : y \in Sync /\ newRecords[y.of] \in Record
    PROVE  CredTyped'
  <1>1. PICK outcome \in Outcomes : Save(outcome, newVault, newRecords)
    BY DEF Commit
  <1>2. vault' = newVault /\ records' = newRecords
    BY DEF Commit
  <1>3. running' \in BOOLEAN
    BY <1>1, Zenon DEF Save
  <1>4. faulty' \in BOOLEAN
    BY <1>1, Zenon DEF Save
  <1>5. vaultFile' \in {vaultFile, newVault} /\ storeFile' \in {storeFile, newRecords, None}
    BY <1>1 DEF Save
  <1> QED BY <1>2, <1>3, <1>4, <1>5 DEF CredTyped

LEMMA DecryptedIsTyped ==
    ASSUME CredTyped, NEW i \in Ids PROVE Decrypted(i) \in Values
  BY DEF CredTyped, Decrypted, Values

LEMMA CredTypes == CredTyped /\ [CredNext]_credVars => CredTyped'
  <1> SUFFICES ASSUME CredTyped, [CredNext]_credVars PROVE CredTyped'
    OBVIOUS
  <1> USE CredentialsAssumption
  \* A handler that writes one record, new or not, and perhaps a secret
  <1>1. ASSUME running, NEW secrets \in [SecretIds -> Values \cup {Unused}],
               NEW i \in Ids, NEW new \in Record, NEW text,
               Commit(secrets, [records EXCEPT ![i] = new], text),
               \A y \in syncs' : y \in Sync /\ \E z \in syncs : z.of = y.of
        PROVE  CredTyped'
    <2> DEFINE store == [records EXCEPT ![i] = new]
    <2>1. store \in [Ids -> {Unused, Gone} \cup Record]
      BY DEF CredTyped
    <2>2. \A y \in syncs' : y \in Sync /\ store[y.of] \in Record
      BY <1>1 DEF CredTyped, Ids, Sync
    <2> HIDE DEF store
    <2> QED BY <1>1, <2>1, <2>2, CommitTyped DEF store
  <1>2. ASSUME running, NEW s \in SecretIds, NEW value \in Values, NEW i \in Ids,
               NEW url \in Urls \cup {None}, NEW text, UNCHANGED syncs,
               Commit(Stored(s, value),
                      [records EXCEPT ![i] = [secret |-> s, url |-> url, synced |-> "never"]], text)
        PROVE  CredTyped'
    <2> DEFINE new == [secret |-> s, url |-> url, synced |-> "never"]
    <2>1. new \in Record /\ Stored(s, value) \in [SecretIds -> Values \cup {Unused}]
      BY DEF Record, Stored, CredTyped
    <2>2. \A y \in syncs' : y \in Sync /\ \E z \in syncs : z.of = y.of
      BY <1>2 DEF CredTyped
    <2> HIDE DEF new
    <2> QED BY <1>1, <1>2, <2>1, <2>2 DEF new
  <1>3. ASSUME NEW i \in Integrations, NEW url \in Urls, NEW s \in SecretIds,
               NEW key \in Keys \cup {Default}, CreateIntegration(i, key, url, s)
        PROVE  CredTyped'
    <2>1. running /\ i \in Ids /\ key \in Values /\ url \in Urls \cup {None}
      BY <1>3 DEF CreateIntegration, Ids, Values
    <2> QED BY <1>2, <1>3, <2>1 DEF CreateIntegration
  <1>4. ASSUME NEW d \in Routers, NEW s \in SecretIds, NEW key \in Keys, CreateDevice(d, key, s)
        PROVE  CredTyped'
    <2>1. running /\ d \in Ids /\ key \in Values
      BY <1>4 DEF CreateDevice, Ids, Values
    <2> QED BY <1>2, <1>4, <2>1 DEF CreateDevice
  <1>5. \A i \in Existing : i \in Ids /\ records[i] \in Record
    BY DEF Existing, CredTyped
  <1>6. ASSUME NEW i \in Integrations, NEW url \in Urls, NEW s \in SecretIds,
               NEW key \in Keys \cup {None}, UpdateIntegration(i, key, url, s)
        PROVE  CredTyped'
    <2> DEFINE secret == IF key = None THEN records[i].secret ELSE s
               secrets == IF key = None THEN vault ELSE Stored(s, key)
               new == [records[i] EXCEPT !.secret = secret, !.url = url]
    <2>1. running /\ i \in Existing /\ \E text : Commit(secrets, [records EXCEPT ![i] = new], text)
      BY <1>6 DEF UpdateIntegration
    <2>2. secrets \in [SecretIds -> Values \cup {Unused}]
      BY DEF Stored, CredTyped, Values
    <2>3. secret \in SecretIds
      BY <1>5, <2>1 DEF Record
    <2> HIDE DEF secret, secrets
    <2>4. new \in Record
      BY <1>5, <2>1, <2>3 DEF Record
    <2>5. \A y \in syncs : y \in Sync
      BY <2>1 DEF CredTyped
    <2>6. \A y \in syncs : [y EXCEPT !.detached = TRUE] \in Sync /\ [y EXCEPT !.detached = TRUE].of = y.of
      BY <2>5 DEF Sync
    <2>7. \A y \in syncs' : y \in Sync /\ \E z \in syncs : z.of = y.of
      <3>1. \A x \in syncs' : x \in syncs \/ \E y \in syncs : x = [y EXCEPT !.detached = TRUE]
        BY <1>6 DEF UpdateIntegration
      <3>2. ASSUME NEW y \in syncs, NEW x, x = [y EXCEPT !.detached = TRUE]
            PROVE  x \in Sync /\ x.of = y.of
        BY <2>6, <3>2
      <3> QED BY <2>5, <3>1, <3>2
    <2> HIDE DEF new
    <2> QED BY <1>1, <1>5, <2>1, <2>2, <2>4, <2>7
  <1>7. ASSUME NEW d \in Routers, NEW s \in SecretIds, NEW key \in Keys \cup {None},
               UpdateDevice(d, key, s)
        PROVE  CredTyped'
    <2> DEFINE secrets == Stored(s, FinalPass(d, key))
               new == [records[d] EXCEPT !.secret = s]
    <2>1. running /\ d \in Existing /\ UNCHANGED syncs
          /\ \E text : Commit(secrets, [records EXCEPT ![d] = new], text)
      BY <1>7 DEF UpdateDevice
    <2>2. FinalPass(d, key) \in Values
      BY <1>5, <2>1, DecryptedIsTyped DEF FinalPass, Values
    <2>3. secrets \in [SecretIds -> Values \cup {Unused}]
      BY <2>2 DEF Stored, CredTyped
    <2>4. new \in Record
      BY <1>5, <2>1 DEF Record
    <2>5. \A y \in syncs' : y \in Sync /\ \E z \in syncs : z.of = y.of
      BY <2>1 DEF CredTyped
    <2> HIDE DEF secrets, new
    <2> QED BY <1>1, <1>5, <2>1, <2>3, <2>4, <2>5
  \* The record stays, or goes
  <1>8. ASSUME running, NEW secrets \in [SecretIds -> Values \cup {Unused}], NEW text,
               UNCHANGED syncs, Commit(secrets, records, text)
        PROVE  CredTyped'
    BY <1>8, CommitTyped DEF CredTyped
  <1>9. ASSUME NEW d \in Routers, NEW s \in SecretIds, NEW key \in Keys \cup {None},
               UpdateDeletedDevice(d, key, s)
        PROVE  CredTyped'
    <2>1. Stored(s, key) \in [SecretIds -> Values \cup {Unused}]
      BY DEF Stored, CredTyped, Values
    <2> QED BY <1>8, <1>9, <2>1 DEF UpdateDeletedDevice
  <1>10. ASSUME NEW d \in Routers, DeleteDevice(d) PROVE CredTyped'
    <2> DEFINE store == [records EXCEPT ![d] = Gone]
    <2>1. running /\ UNCHANGED syncs /\ Commit(vault, store, typed)
      BY <1>10 DEF DeleteDevice
    <2>2. store \in [Ids -> {Unused, Gone} \cup Record] /\ vault \in [SecretIds -> Values \cup {Unused}]
      BY DEF CredTyped
    <2>3. \A y \in syncs' : y \in Sync /\ store[y.of] \in Record
      BY <2>1 DEF CredTyped, Ids, Sync
    <2> HIDE DEF store
    <2> QED BY <2>1, <2>2, <2>3, CommitTyped
  <1>11. ASSUME NEW i \in Integrations, StartSync(i) PROVE CredTyped'
    <2> DEFINE new == [of |-> i, url |-> records[i].url, detached |-> FALSE]
    <2>1. /\ running /\ i \in Existing /\ syncs' = syncs \cup {new}
          /\ UNCHANGED <<vault, records, vaultFile, storeFile, running, faulty>>
      BY <1>11 DEF StartSync
    <2>2. new \in Sync /\ records[new.of] \in Record
      BY <1>5, <2>1 DEF Sync, Record
    <2> HIDE DEF new
    <2> QED BY <2>1, <2>2 DEF CredTyped
  <1>12. ASSUME NEW y \in syncs, FinishSync(y) PROVE CredTyped'
    <2>1. PICK reached \in BOOLEAN : Commit(vault, Synced(y, Discovered(reached)), typed)
      BY <1>12 DEF FinishSync
    <2> DEFINE counts == Discovered(reached)
               new == [records[y.of] EXCEPT !.synced = counts]
    <2>2. running /\ y.of \in Ids /\ records[y.of] \in Record /\ syncs' \subseteq syncs
      BY <1>12 DEF FinishSync, Sync, CredTyped, Ids
    <2>3. counts \in {"never", "listed", "made up"}
      BY DEF Discovered
    <2> HIDE DEF counts
    <2>4. new \in Record
      BY <2>2, <2>3 DEF Record
    <2>5. Synced(y, counts) = IF y.detached THEN records ELSE [records EXCEPT ![y.of] = new]
      BY DEF Synced
    <2> HIDE DEF new
    <2>6. Synced(y, counts) \in [Ids -> {Unused, Gone} \cup Record]
      BY <2>2, <2>4, <2>5 DEF CredTyped
    <2>7. \A z \in syncs' : z \in Sync /\ Synced(y, counts)[z.of] \in Record
      BY <2>2, <2>4, <2>5 DEF CredTyped, Sync, Ids
    <2> QED BY <2>1, <2>6, <2>7, CommitTyped DEF counts, CredTyped
  <1>13. CASE Crash
    BY <1>13 DEF Crash, CredTyped
  <1>14. CASE RestartServer
    BY <1>14 DEF RestartServer, LoadStore, EmptyStore, CredTyped
  <1>15. CASE UNCHANGED credVars
    BY <1>15 DEF credVars, CredTyped
  <1> QED BY <1>3, <1>4, <1>6, <1>7, <1>9, <1>10, <1>11, <1>12, <1>13, <1>14, <1>15 DEF CredNext

LEMMA CredStarts == CredInit => CredTyped
  BY DEF CredInit, CredTyped, EmptyStore, Values

LEMMA CredIsTyped == CredTyped => CredTypeOK
  BY DEF CredTyped, CredTypeOK
=============================================================================
