SPECIFICATION Spec
CONSTANTS
  None = None  Unused = Unused  Gone = Gone
  x1 = x1  x2 = x2  y1 = y1  y2 = y2
  z1 = z1  z2 = z2  z3 = z3  z4 = z4  z5 = z5  z6 = z6  z7 = z7  z8 = z8
  Resources = {z1}  Jobs = {x1, x2, z2}  LockTTLs = {0, 2}  MaxTime = 3
  AssetIds = {z1, z2, z3}  RackIds = {z4}  Sites = {z5}  PortIds = {x1, x2, z1}
  VisitIds = {z6}  Subnets = {z7}  LocationIds = {z6}  MaxCircuits = 1  Devices = {z8}  CandidateIds = {y1, y2}
  RackHeight <- MCRackHeight
  Positions <- MCPositions
  VlanNumbers = {0, 1, 4094, 4095}
  Usages = {"racks", "sites", "cabling", "discovery", "network"}
  Items = {x1, x2}  Limits = {1, 2}  Targets = {2000, 9995}
  MaxEvents = 3  EventBound = 3
  Kinds = {"schedule", "trigger", "policy", "goal"}
  PolicyNodes = {z1}
  Rules <- MCRules
  Windows <- MCWindows
  Times <- MCTimes
  Payloads = {x1, x2}  MaxAudit = 3
  LastDay = 6  RetentionDays = 2  MinValidCopies = 2
  Problems = {x1, x2}  MaxReports = 2  MaxIncidents = 1
  TargetOf <- MCTargetOf
  Capabilities = {x1, x2}  Modules = {y1, y2}
  MaxWeight = 1  MaxCapabilities = 2  MaxModules = 2
  Screens = {x1, x2}  Recs = {z1}  Tenants = {y1, y2}  MaxAnswers = 2
  Browsers = {x1, x2}  Records = {x1, x2}  MaxSame = 1
  Author <- MCAuthor
  Clients = {"c1", "c2", "c3"}  ServedClients = {"c1", "c2"}
  FirstClients <- MCFirstClients
  People <- MCPeople
  Emails = {z1, z2}  SuperEmails = {z2}  Passwords = {z3, z4}  SuperPass = z3
  Forms <- MCForms
  MaxUsers = 2  MaxCodes = 1
  Integrations = {z1}  Routers = {z2}  SecretIds = {x1, x2}  Keys = {y1}
  Default = z3  Urls = {z4, z5}  MaxSyncs = 1
  Consoles = {x1, x2}  Prompts = {y1, y2}  ChatTenants = {z1, z2}
  MaxKept = 2  MaxLoads = 1
  Channels = {x1, x2}  Configs = {z1}  MaxCalls = 2
  Sections = {z1, z2, z3}  WithSecret = {z1, z2}  KeptIfBlank = {z1}
  Plain = {1}  Secrets = {z4, z5}
  Hosts = {x1, x2}  Tokens = {y1, y2}  Identities = {z1, z2}  Nodes = {z3}
  MaxRequests = 2
  Interval = 3  OnlineFor = 9  DegradedFor = 18
  Readers = {x1, x2}  CpuLoads = {0, 70}  MemLoads = {60}  Disk = 9
  Routes = {"health", "sync", "test"}
  RouterKinds <- MCRouterKinds
  Boxes = {z1, z2}  FirstBox = z1  Wans = {z3, z4}  FirstWan = z3  MaxAsked = 2
  Workspaces = {z1, z8}  Hypervisors = {z2, z3, z5}  Machines = {z4, z7}
  WorkspaceOf <- MCWorkspaceOf  FirstLink = z2  FirstRow = z4  Elsewhere = {z5}
  Owners = {y1, y2}
  Organizations = {y1, y2}  AssetRows = {z1}  MaxSent = 2
SYMMETRY Interchangeable
INVARIANTS
  PlatformTypeOK LocksExclude NoRackOverlap OneCablePerPort AiNeverBeyondUser
  VerifiedIsAsWritten CopiesRemain OverviewAddsUp ShownUnderItsTenant
  NothingCreatedIsLost  OwnPasswordWorks 
  TenantsApartUnlessOvertaken InStepWhenQuiet OneLostBeatIsTolerated
  SyncedIsReported PrimaryKeptUnlessCrossed
  SyncStaysInItsTenant EditsStayInTheirTenant
PROPERTIES ImplementsLeaseTable ImplementsEnrollOnce LimitsBoundActs 
CHECK_DEADLOCK FALSE
