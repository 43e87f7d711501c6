------------------------------ MODULE MCPlatform ------------------------------
(* Small instances of the parts of the platform that share no state: each
   behaviour runs the one that `focus` names, the others stand still in one
   initial state.  A property of a part is so checked in the behaviours of
   that part, and holds trivially in the rest.

   As the parts share no state they share model values, too: x1 and x2 are
   interchangeable, and so are y1 and y2, in every part; z1, z2, ... are not. *)
EXTENDS ResourceLocks, SourceOfTruth, Automations, PolicyEngine, AuditChain,
        Backups, Alerts, DevelopmentControl, Advisor, Directory,
        Shell, Accounts, Credentials, Chat, AlertChannels,
        Settings, Enrollment, Heartbeat, Telemetry, NetworkConsole,
        Hypervisors, EnrollAgentModal, InventoryPage, TLC

CONSTANTS x1, x2, y1, y2, z1, z2, z3, z4, z5, z6, z7, z8

VARIABLE focus

-----------------------------------------------------------------------------
(* Values of the constants *)

MCRackHeight == [r \in RackIds |-> 3]

At(u, h, f) == [startU |-> u, heightU |-> h, face |-> f]
MCPositions == {At(1, 1, "front"), At(1, 2, "both"), At(2, 2, "rear"),
                At(3, 1, "front"), At(2, 2, "front")}

Deny(n, a, p) == [effect |-> "deny", foreign |-> FALSE, node |-> n, actor |-> a, perm |-> p]
MCRules == {Deny(None, None, None), Deny(z1, None, None), Deny(None, "ai", None),
            Deny(None, None, 2)}
MCWindows == {[days |-> {0}, start |-> 22, end |-> 6]}
MCTimes == {[day |-> 0, hour |-> 3], [day |-> 0, hour |-> 22]}

MCTargetOf == [p \in Problems |-> z4]

\* A record has the name of the browser it is created in
MCAuthor == [r \in Records |-> r]

Form(p, m, a) == [pass |-> p, must |-> m, active |-> a]
MCForms == {Form(None, FALSE, TRUE), Form(None, TRUE, TRUE), Form(None, FALSE, FALSE),
            Form(z3, TRUE, TRUE), Form(z4, FALSE, TRUE)}

Person(r, t) == [role |-> r, tenant |-> t]
MCPeople == {Person("superadmin", "global"), Person("admin", "c1"),
             Person("operator", "c2"), Person("viewer", "c3")}
MCFirstClients == <<"c1">>

Kind(v, s, p) == [vendor |-> v, stats |-> s, page |-> p]
MCRouterKinds == {Kind("mikrotik", "none", "none"), Kind("pfsense", "ticks", "semantic"),
                  Kind("pfsense", "young", "none"), Kind("pfsense", "percent", "legacy")}

MCWorkspaceOf == [r \in {z2, z3, z4, z5, z7} |-> IF r \in {z5, z7} THEN z8 ELSE z1]

Interchangeable == Permutations({x1, x2}) \cup Permutations({y1, y2})

-----------------------------------------------------------------------------
(* The parts, in four groups, so that a step can say shortly what stands still *)

plantVars == <<lockVars, sotVars, autoVars, alertVars, backupVars>>
trustVars == <<decided, auditVars, accountsVars, credVars, settingsVars>>
pageVars == <<shellVars, directoryVars, advisorVars, chatVars, channelVars, hypervisorVars, inventoryVars>>
fieldVars == <<enrollVars, modalVars, beatVars, telemetryVars, consoleVars, devVars>>

platformVars == <<focus, plantVars, trustVars, pageVars, fieldVars>>

Unless(part, still) == focus = part \/ still

Init ==
    /\ focus \in {"locks", "source of truth", "automations", "alerts", "backups",
                  "policy", "audit", "accounts", "credentials", "settings",
                  "shell", "directory", "advisor", "chat", "channels", "hypervisors",
                  "inventory", "enrollment", "enroll modal", "heartbeat", "telemetry", "console", "development"}
    /\ LocksInit
    /\ SotInit /\ Unless("source of truth", usage = "racks")
    /\ AutoInit /\ Unless("automations", kind = "schedule")
    /\ AlertInit
    /\ BackupInit
    /\ PolicyInit
    /\ AuditInit
    /\ AccountsInit
    /\ CredInit
    /\ SettingsInit
    /\ ShellInit
    /\ DirectoryInit /\ Unless("directory", list = "users")
    /\ AdvisorInit
    /\ Unless("advisor", \A s \in Screens : screen[s].tenant = y1)
    /\ ChatInit
    /\ Unless("chat", \A b \in Consoles : console[b].tenant = z1)
    /\ ChannelsInit /\ Unless("channels", shown = [c \in Channels |-> Unused])
    /\ HypervisorsInit /\ Unless("hypervisors", sort = "nodes")
    /\ InventoryInit /\ Unless("inventory", org = y1)
    /\ EnrollInit
    /\ ModalInit /\ Unless("enroll modal", owner = y1)
    /\ BeatInit
    /\ TelemetryInit
    /\ Unless("telemetry", routerKind.vendor = "mikrotik" /\ router.cpu = 0)
    /\ ConsoleInit
    /\ DevInit /\ Unless("development", currentPhaseExists)

Next ==
    \/ focus = "locks" /\ UNCHANGED <<focus, trustVars, pageVars, fieldVars, sotVars, autoVars, alertVars, backupVars>>
       /\ LocksNext
    \/ focus = "source of truth" /\ UNCHANGED <<focus, trustVars, pageVars, fieldVars, lockVars, autoVars, alertVars, backupVars>>
       /\ SotNext
    \/ focus = "automations" /\ UNCHANGED <<focus, trustVars, pageVars, fieldVars, lockVars, sotVars, alertVars, backupVars>>
       /\ AutoNext
    \/ focus = "alerts" /\ UNCHANGED <<focus, trustVars, pageVars, fieldVars, lockVars, sotVars, autoVars, backupVars>>
       /\ AlertNext
    \/ focus = "backups" /\ UNCHANGED <<focus, trustVars, pageVars, fieldVars, lockVars, sotVars, autoVars, alertVars>>
       /\ BackupNext
    \/ focus = "policy" /\ UNCHANGED <<focus, plantVars, pageVars, fieldVars, auditVars, accountsVars, credVars, settingsVars>>
       /\ PolicyNext
    \/ focus = "audit" /\ UNCHANGED <<focus, plantVars, pageVars, fieldVars, decided, accountsVars, credVars, settingsVars>>
       /\ AuditNext
    \/ focus = "accounts" /\ UNCHANGED <<focus, plantVars, pageVars, fieldVars, decided, auditVars, credVars, settingsVars>>
       /\ AccountsNext
    \/ focus = "credentials" /\ UNCHANGED <<focus, plantVars, pageVars, fieldVars, decided, auditVars, accountsVars, settingsVars>>
       /\ CredNext
    \/ focus = "settings" /\ UNCHANGED <<focus, plantVars, pageVars, fieldVars, decided, auditVars, accountsVars, credVars>>
       /\ SettingsNext
    \/ focus = "shell" /\ UNCHANGED <<focus, plantVars, trustVars, fieldVars, directoryVars, advisorVars, chatVars, channelVars, hypervisorVars, inventoryVars>>
       /\ ShellNext
    \/ focus = "directory" /\ UNCHANGED <<focus, plantVars, trustVars, fieldVars, shellVars, advisorVars, chatVars, channelVars, hypervisorVars, inventoryVars>>
       /\ DirectoryNext
    \/ focus = "advisor" /\ UNCHANGED <<focus, plantVars, trustVars, fieldVars, shellVars, directoryVars, chatVars, channelVars, hypervisorVars, inventoryVars>>
       /\ AdvisorNext
    \/ focus = "chat" /\ UNCHANGED <<focus, plantVars, trustVars, fieldVars, shellVars, directoryVars, advisorVars, channelVars, hypervisorVars, inventoryVars>>
       /\ ChatNext
    \/ focus = "channels" /\ UNCHANGED <<focus, plantVars, trustVars, fieldVars, shellVars, directoryVars, advisorVars, chatVars, hypervisorVars, inventoryVars>>
       /\ ChannelsNext
    \/ focus = "hypervisors" /\ UNCHANGED <<focus, plantVars, trustVars, fieldVars, shellVars, directoryVars, advisorVars, chatVars, channelVars, inventoryVars>>
       /\ HypervisorsNext
    \/ focus = "inventory" /\ UNCHANGED <<focus, plantVars, trustVars, fieldVars, shellVars, directoryVars, advisorVars, chatVars, channelVars, hypervisorVars>>
       /\ InventoryNext
    \/ focus = "enrollment" /\ UNCHANGED <<focus, plantVars, trustVars, pageVars, modalVars, beatVars, telemetryVars, consoleVars, devVars>>
       /\ EnrollNext
    \/ focus = "enroll modal" /\ UNCHANGED <<focus, plantVars, trustVars, pageVars, enrollVars, beatVars, telemetryVars, consoleVars, devVars>>
       /\ ModalNext
    \/ focus = "heartbeat" /\ UNCHANGED <<focus, plantVars, trustVars, pageVars, enrollVars, modalVars, telemetryVars, consoleVars, devVars>>
       /\ BeatNext
    \/ focus = "telemetry" /\ UNCHANGED <<focus, plantVars, trustVars, pageVars, enrollVars, modalVars, beatVars, consoleVars, devVars>>
       /\ TelemetryNext
    \/ focus = "console" /\ UNCHANGED <<focus, plantVars, trustVars, pageVars, enrollVars, modalVars, beatVars, telemetryVars, devVars>>
       /\ ConsoleNext
    \/ focus = "development" /\ UNCHANGED <<focus, plantVars, trustVars, pageVars, enrollVars, modalVars, beatVars, telemetryVars, consoleVars>>
       /\ DevNext

Spec == Init /\ [][Next]_platformVars

-----------------------------------------------------------------------------
\* The part that moves keeps its variables in their types, whatever requests
\* arrive: a VLAN number out of range, one event too many, a torn file.
PlatformTypeOK ==
    CASE focus = "locks" -> LocksTypeOK
      [] focus = "source of truth" -> SotTypeOK
      [] focus = "automations" -> AutoTypeOK
      [] focus = "alerts" -> AlertTypeOK
      [] focus = "accounts" -> AccountsTypeOK
      [] focus = "credentials" -> CredTypeOK
      [] focus = "settings" -> SettingsTypeOK
      [] focus = "shell" -> ShellTypeOK
      [] focus = "directory" -> DirectoryTypeOK
      [] focus = "advisor" -> AdvisorTypeOK
      [] focus = "chat" -> ChatTypeOK
      [] focus = "channels" -> ChannelsTypeOK
      [] focus = "hypervisors" -> HypervisorsTypeOK
      [] focus = "inventory" -> InventoryTypeOK
      [] focus = "enrollment" -> EnrollTypeOK
      [] focus = "enroll modal" -> ModalTypeOK
      [] focus = "heartbeat" -> BeatTypeOK
      [] focus = "telemetry" -> TelemetryTypeOK
      [] focus = "console" -> ConsoleTypeOK
      [] OTHER -> TRUE
==============================================================================
