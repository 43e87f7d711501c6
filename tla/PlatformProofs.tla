---------------------------- MODULE PlatformProofs ----------------------------
(* What the proofs about the parts say of the platform: every part of a
   behaviour of MCPlatform behaves by the specification of that part, whichever
   part moves, so that all that is proved about the part is proved about the
   platform, for any values of the constants.                               *)
EXTENDS MCPlatform, ServerProofs, ServiceProofs, FrontEndProofs, ResourceLocksProofs

-----------------------------------------------------------------------------
(* The parts *)

\* What every part does, whether it has the focus or stands still.
PlantSteps ==
    /\ [LocksNext]_lockVars /\ [SotNext]_sotVars /\ [AutoNext]_autoVars
    /\ [AlertNext]_alertVars /\ [BackupNext]_backupVars

TrustSteps ==
    /\ [PolicyNext]_decided /\ [AuditNext]_auditVars /\ [AccountsNext]_accountsVars
    /\ [CredNext]_credVars /\ [SettingsNext]_settingsVars

PageSteps ==
    /\ [ShellNext]_shellVars /\ [DirectoryNext]_directoryVars /\ [AdvisorNext]_advisorVars
    /\ [ChatNext]_chatVars /\ [ChannelsNext]_channelVars
    /\ [HypervisorsNext]_hypervisorVars /\ [InventoryNext]_inventoryVars

FieldSteps ==
    /\ [EnrollNext]_enrollVars /\ [ModalNext]_modalVars /\ [BeatNext]_beatVars
    /\ [TelemetryNext]_telemetryVars /\ [ConsoleNext]_consoleVars /\ [DevNext]_devVars

LEMMA EveryPartStarts ==
    Init => /\ LocksInit /\ SotInit /\ AutoInit /\ AlertInit /\ BackupInit
            /\ PolicyInit /\ AuditInit /\ AccountsInit /\ CredInit /\ SettingsInit
            /\ ShellInit /\ DirectoryInit /\ AdvisorInit /\ ChatInit /\ ChannelsInit
            /\ HypervisorsInit /\ InventoryInit
            /\ EnrollInit /\ ModalInit /\ BeatInit /\ TelemetryInit /\ ConsoleInit /\ DevInit
  BY DEF Init

LEMMA EveryPartSteps == [Next]_platformVars => PlantSteps /\ TrustSteps /\ PageSteps /\ FieldSteps
  <1> SUFFICES ASSUME [Next]_platformVars PROVE PlantSteps /\ TrustSteps /\ PageSteps /\ FieldSteps
    OBVIOUS
  <1>1. PlantSteps
    BY DEF Next, PlantSteps, platformVars, plantVars
  <1>2. TrustSteps
    BY DEF Next, TrustSteps, platformVars, trustVars
  <1>3. PageSteps
    BY DEF Next, PageSteps, platformVars, pageVars
  <1>4. FieldSteps
    BY DEF Next, FieldSteps, platformVars, fieldVars
  <1> QED BY <1>1, <1>2, <1>3, <1>4

\* Every part of the platform behaves by its own specification, so that each
\* theorem about a part holds of the platform as well (MCPlatform).
THEOREM EveryPartBehaves ==
    Spec =>
      /\ LocksInit /\ [][LocksNext]_lockVars
      /\ SotInit /\ [][SotNext]_sotVars
      /\ AutoInit /\ [][AutoNext]_autoVars
      /\ AlertInit /\ [][AlertNext]_alertVars
      /\ BackupInit /\ [][BackupNext]_backupVars
      /\ PolicyInit /\ [][PolicyNext]_decided
      /\ AuditInit /\ [][AuditNext]_auditVars
      /\ AccountsInit /\ [][AccountsNext]_accountsVars
      /\ CredInit /\ [][CredNext]_credVars
      /\ SettingsInit /\ [][SettingsNext]_settingsVars
      /\ ShellInit /\ [][ShellNext]_shellVars
      /\ DirectoryInit /\ [][DirectoryNext]_directoryVars
      /\ AdvisorInit /\ [][AdvisorNext]_advisorVars
      /\ ChatInit /\ [][ChatNext]_chatVars
      /\ ChannelsInit /\ [][ChannelsNext]_channelVars
      /\ HypervisorsInit /\ [][HypervisorsNext]_hypervisorVars
      /\ InventoryInit /\ [][InventoryNext]_inventoryVars
      /\ EnrollInit /\ [][EnrollNext]_enrollVars
      /\ ModalInit /\ [][ModalNext]_modalVars
      /\ BeatInit /\ [][BeatNext]_beatVars
      /\ TelemetryInit /\ [][TelemetryNext]_telemetryVars
      /\ ConsoleInit /\ [][ConsoleNext]_consoleVars
      /\ DevInit /\ [][DevNext]_devVars
  BY EveryPartStarts, EveryPartSteps, PTL DEF Spec, PlantSteps, TrustSteps, PageSteps, FieldSteps

-----------------------------------------------------------------------------
(* Types *)

\* The pages start within the bounds their steps keep.
LEMMA PagesStart ==
    /\ AlertInit => AlertInv
    /\ AdvisorInit => AdvisorInv
    /\ InventoryInit => InventoryTypeOK
    /\ ConsoleInit => ConsoleTypes
    /\ ChatInit => ChatInv /\ ChatBounds
    /\ ModalInit => ModalTypeOK
  <1>1. AlertInit => AlertInv
    BY DEF AlertInit, AlertInv, AlertTypeOK
  <1>2. AdvisorInit => AdvisorInv
    BY DEF AdvisorInit, AdvisorInv, Labelled
  <1>3. InventoryInit => InventoryTypeOK
    BY DEF InventoryInit, InventoryTypeOK
  <1>4. ConsoleInit => ConsoleTypes
    BY NetworkConsoleAssumption, BoxRequests DEF ConsoleInit, ConsoleTypes
  <1>5. ChatInit => ChatBounds
    BY ChatAssumption DEF ChatInit, ChatBounds
  <1>6. ModalInit => ModalTypeOK
    BY DEF ModalInit, ModalTypeOK
  <1> QED BY <1>1, <1>2, <1>3, <1>4, <1>5, <1>6, ChatStarts

\* The server keeps its records in their types, whatever requests arrive: a VLAN
\* number out of range, one event too many, a file that was torn, a router
\* without an answer, a heartbeat of a node that nobody knows.
LEMMA ServerIsTyped ==
    Spec => []( /\ LocksTypeOK /\ SotTypeOK /\ AutoTypeOK /\ AlertTypeOK
                /\ AccountsTypeOK /\ CredTypeOK /\ EnrollTypeOK /\ BeatTypeOK
                /\ TelemetryTypeOK )
  <1>1. Spec => []LocksTypeOK
    BY EveryPartBehaves, LocksInvariant, PTL DEF LocksSpec
  <1>2. Spec => []SotTypeOK
    BY EveryPartBehaves, SotStarts, SotTypes, SotIsTyped, PTL
  <1>3. Spec => []AutoTypeOK
    BY EveryPartBehaves, AutoStarts, AutoStep, EventsStep, AutoTypes, PTL
  <1>4. Spec => []AlertTypeOK
    <2>1. AlertInv => AlertTypeOK
      BY DEF AlertInv
    <2> QED BY <2>1, EveryPartBehaves, PagesStart, AlertStep, PTL
  <1>5. Spec => []AccountsTypeOK
    BY EveryPartBehaves, AccountsStart, AccountsStep, PageStep, AccountsTypes, PTL
  <1>6. Spec => []CredTypeOK
    BY EveryPartBehaves, CredStarts, CredTypes, CredIsTyped, PTL
  <1>7. Spec => []EnrollTypeOK
    <2>1. EnrollInv => EnrollTypeOK
      BY DEF EnrollInv, EnrollTypes, EnrollTypeOK
    <2> QED BY <2>1, EveryPartBehaves, EnrollStarts, EnrollStep, PTL
  <1>8. Spec => []BeatTypeOK
    <2>1. BeatInv => BeatTypeOK
      BY DEF BeatInv
    <2> QED BY <2>1, EveryPartBehaves, BeatStarts, BeatStep, PTL
  <1>9. Spec => []TelemetryTypeOK
    BY EveryPartBehaves, TelemetryStarts, TelemetryTypes, TelemetryIsTyped, PTL
  <1> QED BY <1>1, <1>2, <1>3, <1>4, <1>5, <1>6, <1>7, <1>8, <1>9, PTL

\* And so do the pages of the front end, with late answers and double clicks.
LEMMA FrontEndIsTyped ==
    Spec => []( /\ SettingsTypeOK /\ ShellTypeOK /\ DirectoryTypeOK /\ AdvisorTypeOK
                /\ ChatTypeOK /\ ChannelsTypeOK /\ HypervisorsTypeOK /\ InventoryTypeOK
                /\ ModalTypeOK /\ ConsoleTypeOK )
  <1>1. Spec => []SettingsTypeOK
    BY EveryPartBehaves, SettingsStart, SettingsTyped, SettingsTypes, PTL
  <1>2. Spec => []ShellTypeOK
    BY EveryPartBehaves, ShellStarts, ShellTypes, ShellIsTyped, PTL
  <1>3. Spec => []DirectoryTypeOK
    <2>1. DirectoryTyped => DirectoryTypeOK
      BY DEF DirectoryTyped
    <2> QED BY <2>1, EveryPartBehaves, DirectoryStarts, DirectoryTypes, PTL
  <1>4. Spec => []AdvisorTypeOK
    BY EveryPartBehaves, PagesStart, AdvisorStep, AdvisorTypes, PTL
  <1>5. Spec => []ChatTypeOK
    BY EveryPartBehaves, PagesStart, ChatStep, ChatTyped, ChatTypes, PTL
  <1>6. Spec => []ChannelsTypeOK
    <2>1. ChannelsInv => ChannelsTypeOK
      BY DEF ChannelsInv, ChannelsTyped, ChannelsTypeOK
    <2> QED BY <2>1, EveryPartBehaves, ChannelsBegin, ChannelsStep, PTL
  <1>7. Spec => []HypervisorsTypeOK
    BY EveryPartBehaves, HypervisorsStart, HypervisorsTypes, HypervisorsAreTyped, PTL
  <1>8. Spec => []InventoryTypeOK
    BY EveryPartBehaves, PagesStart, InventoryTyped, PTL
  <1>9. Spec => []ModalTypeOK
    BY EveryPartBehaves, PagesStart, ModalStep, PTL
  <1>10. Spec => []ConsoleTypeOK
    <2>1. ConsoleInv /\ ConsoleTypes => ConsoleTypeOK
      BY DEF ConsoleInv, ConsoleTypes, ConsoleTypeOK, BoxRequest
    <2> QED BY <2>1, EveryPartBehaves, PagesStart, ConsoleStarts, ConsoleStep, ConsoleTyped, PTL
  <1> QED BY <1>1, <1>2, <1>3, <1>4, <1>5, <1>6, <1>7, <1>8, <1>9, <1>10, PTL

\* Whatever requests arrive in whichever order, every part keeps its variables in
\* their types: for any tenants, records, files, browsers and bounds.
THEOREM PlatformIsTyped == Spec => []PlatformTypeOK
  <1>1. ASSUME LocksTypeOK, SotTypeOK, AutoTypeOK, AlertTypeOK, AccountsTypeOK, CredTypeOK,
               EnrollTypeOK, BeatTypeOK, TelemetryTypeOK, SettingsTypeOK, ShellTypeOK,
               DirectoryTypeOK, AdvisorTypeOK, ChatTypeOK, ChannelsTypeOK, HypervisorsTypeOK,
               InventoryTypeOK, ModalTypeOK, ConsoleTypeOK
        PROVE  PlatformTypeOK
    BY <1>1 DEF PlatformTypeOK
  <1> QED BY <1>1, ServerIsTyped, FrontEndIsTyped, PTL

-----------------------------------------------------------------------------
(* Safety *)

\* What the server promises, of the platform: rack space, cables, rights, the
\* chain of events, copies, reports, passwords, what was typed, and figures.
\* The hypotheses are those of OneLossLeavesOnline, which the 30 and 90 seconds
\* of the code satisfy, and of SyncStoresWhatWasSaid: a router was idle for a
\* moment since it started.
THEOREM ServerIsSafe ==
    ASSUME 2 * Interval + 1 =< OnlineFor, 100 \notin CpuLoads
    PROVE  Spec => []( /\ LocksExclude /\ NoRackOverlap /\ OneCablePerPort
                       /\ AiNeverBeyondUser /\ VerifiedIsAsWritten /\ CopiesRemain
                       /\ OverviewAddsUp /\ OwnPasswordWorks /\ LastTypedHolds
                       /\ OneLostBeatIsTolerated /\ SyncedIsReported )
  <1>1. Spec => [](LocksExclude /\ NoRackOverlap /\ OneCablePerPort)
    BY EveryPartBehaves, Exclusion, RackSpaceIsExclusive, CableIsExclusive, PTL DEF LocksSpec
  <1>2. Spec => [](AiNeverBeyondUser /\ VerifiedIsAsWritten /\ CopiesRemain)
    BY EveryPartBehaves, AiIsNoUser, VerifiedIsGenuine, CopiesAreLeft, PTL DEF AuditSpec
  <1>3. Spec => [](OverviewAddsUp /\ OwnPasswordWorks /\ LastTypedHolds)
    BY EveryPartBehaves, ReportAddsUp, ChosenOpens, TypedStays, PTL
  <1>4. BeatInit /\ [][BeatNext]_beatVars => []OneLostBeatIsTolerated
    BY OneLossLeavesOnline
  <1>5. TelemetryInit /\ [][TelemetryNext]_telemetryVars => []SyncedIsReported
    BY SyncStoresWhatWasSaid
  <1> QED BY <1>1, <1>2, <1>3, <1>4, <1>5, EveryPartBehaves, PTL

\* What the pages promise, of the platform: a page shows and changes what is its
\* own tenant's, keeps what was created, and ends in step with the server.
THEOREM FrontEndIsSafe ==
    Spec => []( /\ OwnTenantOnly /\ NothingCreatedIsLost /\ ShownUnderItsTenant
                /\ TenantsApartUnlessOvertaken /\ InStepWhenQuiet
                /\ PrimaryKeptUnlessCrossed /\ SyncStaysInItsTenant
                /\ EditsStayInTheirTenant )
  <1>1. Spec => [](OwnTenantOnly /\ NothingCreatedIsLost /\ ShownUnderItsTenant)
    BY EveryPartBehaves, OwnTenant, CreatedStays, UnderItsTenant, PTL
  <1>2. Spec => [](TenantsApartUnlessOvertaken /\ InStepWhenQuiet)
    BY EveryPartBehaves, TenantsApart, ScreenIsInStep, PTL
  <1>3. Spec => [](PrimaryKeptUnlessCrossed /\ SyncStaysInItsTenant /\ EditsStayInTheirTenant)
    BY EveryPartBehaves, PrimaryIsKept, SyncStaysWithin, OneTenantPerAsset, PTL
  <1> QED BY <1>1, <1>2, <1>3, PTL

\* Steps of the platform that no state shows: locks are leases and an identity is
\* given out once, as the abstract specifications say; no rule acts more often
\* than its limit, and a silenced alert stays silent until it is resolved.
THEOREM PlatformImplements ==
    Spec => ImplementsLeaseTable /\ ImplementsEnrollOnce /\ LimitsBoundActs /\ SilentUntilResolved
  BY EveryPartBehaves, LocksAreLeases, EnrollmentIsOnce, ActsAreBounded, SilenceLasts, PTL DEF LocksSpec
===============================================================================
