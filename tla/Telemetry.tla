------------------------------ MODULE Telemetry ------------------------------
(* How the CPU and memory of a router get into its record: the drivers of
   pfSense and MikroTik, the parsers of what pfSense answers, and the routes
   that store the outcome.

   A driver asks the router several times, with an await each, so that the
   router may change, or stop answering, in the middle; requests overlap, since
   the console polls. A request that fails is not repeated. What a router
   counts before its login is accepted cannot be read.

   pfSense is asked for /getstats.php, which has percentages or the ticks of
   the processor since it started, and for its page, where the figures are
   found by their labels, or by the ids of the table. MikroTik answers one
   sentence. One value stands for swap, disk and the other secondary figures.
   A response that begins and never ends is not modelled: it leaves its request
   waiting for good.                                                        *)
EXTENDS Integers, Sequences, NoRecord

CONSTANTS
    Readers,       \* requests that may be under way
    Routes,         \* routes that store, \subseteq {"health", "sync", "test"}
    CpuLoads, MemLoads, Disk,   \* what a router may report, in percent
    RouterKinds           \* kinds of router, [vendor, stats, page]

ASSUME TelemetryAssumption ==
    /\ CpuLoads \cup MemLoads \cup {Disk} \subseteq 0..100
    /\ \A k \in RouterKinds :
         /\ k.vendor \in {"pfsense", "mikrotik"}
         /\ k.stats \in {"ticks", "young", "percent", "none"}
         /\ k.page \in {"semantic", "legacy", "none"}

VARIABLES
    routerKind, \* the router: which it is,
    router,     \*   and how it is, [up, accepts, cpu, mem]
    reads,      \* requests of the console
    record      \* the device of the store; `from` and `seen` are history

telemetryVars == <<routerKind, router, reads, record>>

-----------------------------------------------------------------------------
(* Parsers. A reading is [cpu, mem, disk], None where nothing was found. *)

Nothing == [cpu |-> None, mem |-> None, disk |-> None]
Matched(reading) == reading # Nothing

Percent(v) == IF v \in 0..100 THEN v ELSE None

\* What /getstats.php answers: ticks and idle ticks since the start, and the
\* memory; or CPU and memory. "young" has been up for less than a second.
GetStats ==
    CASE routerKind.stats = "ticks"   -> <<100000, 100000 - 1000 * router.cpu, router.mem>>
      [] routerKind.stats = "young"   -> <<120, 120 - (120 * router.cpu) \div 100, router.mem>>
      [] routerKind.stats = "percent" -> <<router.cpu, router.mem>>
      [] routerKind.stats = "none"    -> <<>>

\* mutant: the size of the numbers is not looked at
AreTicksInOrder(p) == p[1] > 0 /\ p[1] >= p[2]

AreTicks(p) == p[1] > 100 /\ p[2] > 100 /\ p[1] >= p[2]

GetStatsPipeParser(p) ==
    IF Len(p) < 2 THEN Nothing
    ELSE IF AreTicks(p)
         THEN [Nothing EXCEPT !.cpu = ((p[1] - p[2]) * 100 + p[1] \div 2) \div p[1],
                              !.mem = IF Len(p) > 2 THEN Percent(p[3]) ELSE None]
         ELSE [Nothing EXCEPT !.cpu = Percent(p[1]), !.mem = Percent(p[2])]

Dashboard == [cpu |-> router.cpu, mem |-> router.mem, disk |-> Disk]

DashboardSemanticParser(html) == IF routerKind.page = "semantic" THEN html ELSE Nothing
DashboardLegacyParser(html) == IF routerKind.page = "legacy" THEN html ELSE Nothing

HtmlReading(html) ==
    IF Matched(DashboardSemanticParser(html)) THEN DashboardSemanticParser(html)
                                              ELSE DashboardLegacyParser(html)

\* A CPU of 0 in the pipe gives way to one that is not on the page
ParsePayload(stats, html) ==
    LET pipe == GetStatsPipeParser(stats)
        page == HtmlReading(html)
        base == IF pipe.cpu = 0 /\ page.cpu # None /\ page.cpu # 0 THEN page
                ELSE IF pipe.cpu # None /\ pipe.mem # None THEN pipe
                ELSE IF Matched(page) THEN page ELSE pipe
    IN [base EXCEPT !.disk = IF @ # None THEN @ ELSE page.disk]

-----------------------------------------------------------------------------
(* Asking the router *)

Idle == [at |-> "idle"]

\* History: what a sync has seen
Seen(q) == IF reads[q].route = "sync"
           THEN reads[q].seen \cup {[cpu |-> router.cpu, mem |-> router.mem]} ELSE {}

\* `left`: how often the router is to be asked in all of it
StartReading(q, route) ==
    /\ reads[q] = Idle
    /\ reads' = [reads EXCEPT ![q] =
         [at |-> "login", route |-> route, left |-> IF route = "test" THEN 2 ELSE 1,
          stats |-> <<>>, seen |-> {}]]
    /\ UNCHANGED <<routerKind, router, record>>

\* The same questions; what is found goes into a report and not into the record
RunSanitizedDiagnostic(q) ==
    routerKind.vendor = "pfsense" /\ StartReading(q, "diagnostic")

\* A request ends with its answer, or with its timeout or the error
Answers == router.up /\ router.accepts

\* pfSense: a page of login that comes back is the refusal
Authenticate(q) ==
    /\ routerKind.vendor = "pfsense" /\ reads[q].at = "login" /\ Answers
    /\ reads' = [reads EXCEPT ![q].at = "stats"]
    /\ UNCHANGED <<routerKind, router, record>>

\* An error here is ignored: the page is asked for next
AskGetStats(q) ==
    /\ reads[q].at = "stats"
    /\ reads' = [reads EXCEPT ![q].at = "page",
                              ![q].stats = IF Answers THEN GetStats ELSE <<>>,
                              ![q].seen = IF Answers THEN Seen(q) ELSE @]
    /\ UNCHANGED <<routerKind, router, record>>

\* The outcome of getSystemHealth: `error`, or a reading
Failed(vendor) == [error |-> TRUE,
                   reading |-> IF vendor = "mikrotik" THEN [cpu |-> 0, mem |-> 0, disk |-> None]
                                                      ELSE Nothing]
Reported(reading) == [error |-> FALSE, reading |-> reading]

\* The zeros of the routes "health" and "test" for what was not found
OrZero(v) == IF v = None THEN 0 ELSE v
Zeroed(r) == [cpu |-> OrZero(r.cpu), mem |-> OrZero(r.mem), disk |-> OrZero(r.disk)]

Stores(reading, route, seen) ==
    [cpu |-> reading.cpu, mem |-> reading.mem, disk |-> reading.disk,
     status |-> "online", from |-> route, seen |-> seen]

\* What a route does with an outcome. "health" stores whatever came, and the
\* router is online; "sync" stores nothing after an error; "test" asks once
\* more after a success, and stores what the second time gives.
Finish(q, outcome, seen) ==
    LET r == reads[q]
    IN IF r.route = "test" /\ r.left = 2 /\ ~ outcome.error
       THEN /\ reads' = [reads EXCEPT ![q].at = "login", ![q].left = 1, ![q].stats = <<>>]
            /\ UNCHANGED <<routerKind, router, record>>
       ELSE /\ reads' = [reads EXCEPT ![q] = Idle]
            /\ record' =
                 CASE \/ r.route = "health"
                      \/ r.route = "test" /\ r.left = 1 ->
                        Stores(Zeroed(outcome.reading), r.route, seen)
                   [] r.route = "sync" /\ ~ outcome.error ->
                        Stores(outcome.reading, "sync", seen)
                   [] OTHER -> record
            /\ UNCHANGED <<routerKind, router>>

\* Nothing that can be used is an error too
AskDashboard(q) ==
    /\ reads[q].at = "page"
    /\ LET reading == ParsePayload(reads[q].stats, IF Answers THEN Dashboard ELSE Nothing)
       IN Finish(q,
                 IF reading.cpu = None /\ reading.mem = None THEN Failed("pfsense")
                                                             ELSE Reported(reading),
                 IF Answers THEN Seen(q) ELSE reads[q].seen)

\* Refused, out of reach, timed out; and credentials the vault does not have
Refused(q) ==
    /\ reads[q].at \in {"login", "resource"} /\ ~ Answers
    /\ Finish(q, Failed(routerKind.vendor), reads[q].seen)

\* RouterOS: one login, or a challenge after it; a trap is the refusal
ApiLogin(q) ==
    /\ routerKind.vendor = "mikrotik" /\ reads[q].at = "login" /\ Answers
    /\ reads' = [reads EXCEPT ![q].at = "resource"]
    /\ UNCHANGED <<routerKind, router, record>>

PrintResource(q) ==
    /\ reads[q].at = "resource" /\ Answers
    /\ Finish(q, Reported([cpu |-> router.cpu, mem |-> router.mem, disk |-> 0]), Seen(q))

\* A router goes, comes back, gets another password, works more or less
RouterChanges ==
    /\ \/ router' = [router EXCEPT !.up = ~ @]
       \/ router' = [router EXCEPT !.accepts = ~ @]
       \/ \E c \in CpuLoads, m \in MemLoads :
            router' = [router EXCEPT !.cpu = c, !.mem = m]
    /\ UNCHANGED <<routerKind, reads, record>>

-----------------------------------------------------------------------------
\* A new device is online and at rest before anybody asked it
TelemetryInit ==
    /\ routerKind \in RouterKinds
    /\ router \in [up : {TRUE}, accepts : {TRUE}, cpu : CpuLoads, mem : MemLoads]
    /\ reads = [q \in Readers |-> Idle]
    /\ record = [cpu |-> 0, mem |-> 0, disk |-> 0, status |-> "online",
                 from |-> "created", seen |-> {}]

TelemetryNext ==
    \/ RouterChanges
    \/ \E q \in Readers :
         \/ \E route \in Routes : StartReading(q, route)
         \/ RunSanitizedDiagnostic(q)
         \/ Authenticate(q) \/ AskGetStats(q) \/ AskDashboard(q)
         \/ ApiLogin(q) \/ PrintResource(q)
         \/ Refused(q)

TelemetryTypeOK ==
    /\ router \in [up : BOOLEAN, accepts : BOOLEAN, cpu : CpuLoads, mem : MemLoads]
    /\ \A q \in Readers : reads[q].at \in {"idle", "login", "stats", "page", "resource"}
    /\ {record.cpu, record.mem, record.disk} \subseteq 0..100 \cup {None}
    /\ record.status = "online"

\* A sync stores what the router said while it was asked, or that a figure is
\* not known: whichever source answers, in whichever format, and whatever the
\* router does between the questions. (Not of a router in its first second,
\* whose idle ticks are still below 100 and pass for a percentage.)
SyncedIsReported ==
    (record.from = "sync" /\ routerKind.stats # "young") =>
        /\ record.cpu \in {None} \cup {s.cpu : s \in record.seen}
        /\ record.mem \in {None} \cup {s.mem : s \in record.seen}
=============================================================================
