----------------------------- MODULE JobProtocol -----------------------------
(***************************************************************************)
(* The agent <-> central job protocol.                                     *)
(*                                                                         *)
(* Central (apps/api/src/agent/agent_jobs.controller.ts) keeps the jobs in *)
(* an insertion-ordered in-memory Map and answers two kinds of POST: an    *)
(* agent's claim and an agent's status report.  The agent                  *)
(* (agents/linux/internal/jobs) claims one job, filters what it was given, *)
(* executes it in a fixed sequence of steps and reports on the way; its    *)
(* journal file is what survives a crash of the agent.  Each handler of    *)
(* the API is one event-loop turn, hence one action; each step of the      *)
(* agent between two calls that may block or fail is one action.           *)
(*                                                                         *)
(* A report is a blocking call with a 10 s timeout whose error is ignored: *)
(* the agent goes on whether the request arrived, was lost, or is still on *)
(* its way when the client gives up.  Sending without waiting has exactly  *)
(* these outcomes.  A claim the client gave up on may still be handled     *)
(* later ("live" is FALSE); its answer goes nowhere.  A message that is     *)
(* lost is one that is never handled.                                      *)
(***************************************************************************)
EXTENDS Integers, FiniteSets, Sequences

CONSTANTS
    Jobs,               \* job identifiers, fresh for every created job
    Agents,             \* identities minted by handleEnrollment
    NodeOfAgent,        \* nodeId and tenantId of an agent, fixed when
    TenantOfAgent,      \*   its enrollment token was created
    NodeOfJob,          \* nodeId and tenantId of a job, fixed when it
    TenantOfJob,        \*   is created
    NoJob, NoAgent,
    MaxJobs,            \* maxJobs of a claim (the Go client sends 1)
    TTLs,               \* lifetimes a job may be created with
    MaxTime,            \* bound: the clock stops here
    MaxCrashes,         \* bound: crashes of agents
    MaxCentralRestarts  \* bound: restarts of the API process

ASSUME JobProtocolAssumption ==
    /\ NoJob \notin Jobs
    /\ NoAgent \notin Agents
    /\ MaxJobs \in Nat \ {0}
    /\ TTLs \subseteq Nat
    /\ MaxTime \in Nat
    /\ MaxCrashes \in Nat
    /\ MaxCentralRestarts \in Nat

VARIABLES
    now,              \* the clock both sides read
    registeredAgents, \* status of each identity: absent, enrolled, revoked
    order,            \* keys of the pendingJobs Map, in insertion order
    status,           \* status of each job at central ("none": not there)
    expiresAt,        \* expiresAt of each job, also in the claim's answer
    result,           \* has central stored a result (inline or offloaded)?
    net,              \* requests and answers in flight
    pc, cur, todo,    \* agent: control point, job being executed, jobs held
    journal,          \* agent: journal entries in memory
    disk,             \* agent: what load() would read from the journal file
    crashes, restarts,\* how many of the bounded failures have happened
    issued,           \* history: jobs ever created
    holder,           \* history: the agent central handed the job to
    runs              \* history: how often the action of the job was run

centralVars == <<order, status, result>>
agentVars   == <<pc, cur, todo, journal, disk>>
faultVars   == <<crashes, restarts>>
histVars    == <<issued, holder, runs>>
vars == <<now, registeredAgents, centralVars, expiresAt, net, agentVars,
          faultVars, histVars>>

ReportStatuses == {"running", "progress", "succeeded"}
JobStatuses    == {"none", "queued", "dispatched", "expired"} \cup ReportStatuses
JournalStates  == {"none", "running", "succeeded"}

BeforeRun == {"started", "running", "progress"}
AfterRun  == {"ran", "finished"}
Working   == BeforeRun \cup AfterRun
PCs       == {"down", "idle", "claiming", "ready"} \cup Working

Claim(a, live)  == [type |-> "claim", agent |-> a, live |-> live]
Claimed(a, js)  == [type |-> "claimed", agent |-> a, jobs |-> js]
Report(a, j, s) == [type |-> "status", agent |-> a, job |-> j, status |-> s]

Messages == [type : {"claim"}, agent : Agents, live : BOOLEAN]
       \cup [type : {"claimed"}, agent : Agents, jobs : SUBSET Jobs]
       \cup [type : {"status"}, agent : Agents, job : Jobs,
             status : ReportStatuses]

EmptyJournal == [j \in Jobs |-> "none"]

TypeOK ==
    /\ now \in Nat
    /\ registeredAgents \in [Agents -> {"absent", "enrolled", "revoked"}]
    /\ order \in Seq(Jobs)
    /\ status \in [Jobs -> JobStatuses]
    /\ expiresAt \in [Jobs -> Nat]
    /\ result \in [Jobs -> BOOLEAN]
    /\ net \subseteq Messages
    /\ pc \in [Agents -> PCs]
    /\ cur \in [Agents -> Jobs \cup {NoJob}]
    /\ \A a \in Agents : pc[a] \in Working => cur[a] \in Jobs
    /\ todo \in [Agents -> SUBSET Jobs]
    /\ journal \in [Agents -> [Jobs -> JournalStates]]
    /\ disk \in [Agents -> [Jobs -> JournalStates]]
    /\ crashes \in Nat /\ restarts \in Nat
    /\ issued \subseteq Jobs
    /\ holder \in [Jobs -> Agents \cup {NoAgent}]
    /\ runs \in [Jobs -> Nat]

Init ==
    /\ now = 0
    /\ registeredAgents = [a \in Agents |-> "enrolled"]
    /\ order = << >>
    /\ status = [j \in Jobs |-> "none"]
    /\ expiresAt = [j \in Jobs |-> 0]
    /\ result = [j \in Jobs |-> FALSE]
    /\ net = {}
    /\ pc = [a \in Agents |-> "idle"]
    /\ cur = [a \in Agents |-> NoJob]
    /\ todo = [a \in Agents |-> {}]
    /\ journal = [a \in Agents |-> EmptyJournal]
    /\ disk = [a \in Agents |-> EmptyJournal]
    /\ crashes = 0 /\ restarts = 0
    /\ issued = {}
    /\ holder = [j \in Jobs |-> NoAgent]
    /\ runs = [j \in Jobs |-> 0]

-----------------------------------------------------------------------------
(* Central *)

(* The caller makes up a fresh jobId.  Bound: every job gets to expire. *)
CreatePendingJob(j, ttl) ==
    /\ j \notin issued
    /\ now + ttl < MaxTime
    /\ order' = Append(order, j)
    /\ status' = [status EXCEPT ![j] = "queued"]
    /\ expiresAt' = [expiresAt EXCEPT ![j] = now + ttl]
    /\ issued' = issued \cup {j}
    /\ UNCHANGED <<now, registeredAgents, result, net, agentVars, faultVars,
                   holder, runs>>

Enrolled(a) == registeredAgents[a] = "enrolled"

(* The loop of handleClaimJobs, by position in the Map: the jobs of the
   agent's node and tenant, those it may take, and the ones the loop looks
   at before it has maxJobs of them. *)
MatchingAnyNode(a) == \* mutant: no node check
    {i \in DOMAIN order : TenantOfJob[order[i]] = TenantOfAgent[a]}

Matching(a) ==
    {i \in DOMAIN order : /\ NodeOfJob[order[i]] = NodeOfAgent[a]
                          /\ TenantOfJob[order[i]] = TenantOfAgent[a]}

PastExpiry(j) == now > expiresAt[j]

ClaimableAgain(a) == \* mutant: dispatched jobs are offered again
    {i \in Matching(a) : /\ ~PastExpiry(order[i])
                         /\ status[order[i]] \in {"queued", "dispatched"}}

ClaimableExpired(a) == \* mutant: expired jobs are offered once more
    {i \in Matching(a) : \/ status[order[i]] = "expired"
                         \/ ~PastExpiry(order[i]) /\ status[order[i]] = "queued"}

Claimable(a) ==
    {i \in Matching(a) : ~PastExpiry(order[i]) /\ status[order[i]] = "queued"}

Visited(a) ==
    {i \in Matching(a) :
        Cardinality({k \in Claimable(a) : k < i}) < MaxJobs}

JobsTaken(a)   == IF Enrolled(a)
                  THEN {order[i] : i \in Visited(a) \cap Claimable(a)} ELSE {}
JobsExpiredInQueue(a) == \* mutant: the sweep spares dispatched jobs
    IF Enrolled(a)
    THEN {order[i] : i \in {k \in Visited(a) : /\ PastExpiry(order[k])
                                               /\ status[order[k]] = "queued"}}
    ELSE {}

JobsExpired(a) == IF Enrolled(a)
                  THEN {order[i] : i \in {k \in Visited(a) : PastExpiry(order[k])}}
                  ELSE {}

StatusNotMarked(a) == \* mutant: the job handed out stays queued
    [j \in Jobs |-> IF j \in JobsExpired(a) THEN "expired" ELSE status[j]]

StatusMarkedRunning(a) == \* mutant: a status of no handler
    [j \in Jobs |-> IF j \in JobsTaken(a) THEN "claimed"
                    ELSE IF j \in JobsExpired(a) THEN "expired"
                    ELSE status[j]]

StatusAfterClaim(a) ==
    [j \in Jobs |-> IF j \in JobsTaken(a) THEN "dispatched"
                    ELSE IF j \in JobsExpired(a) THEN "expired"
                    ELSE status[j]]

(* A rejected agent gets an error, which the client turns into "no jobs". *)
HandleClaimJobs(m) ==
    /\ m \in net /\ m.type = "claim"
    /\ status' = StatusAfterClaim(m.agent)
    /\ holder' = [j \in Jobs |-> IF j \in JobsTaken(m.agent)
                                 THEN m.agent ELSE holder[j]]
    /\ net' = (net \ {m}) \cup
              (IF m.live THEN {Claimed(m.agent, JobsTaken(m.agent))} ELSE {})
    /\ UNCHANGED <<now, registeredAgents, order, result, expiresAt, agentVars,
                   faultVars, issued, runs>>

MayUpdate(a, j) ==
    /\ Enrolled(a)
    /\ status[j] # "none"
    /\ NodeOfJob[j] = NodeOfAgent[a]

HandleJobStatusUpdate(m) ==
    /\ m \in net /\ m.type = "status"
    /\ net' = net \ {m}
    /\ IF MayUpdate(m.agent, m.job)
       THEN /\ status' = [status EXCEPT ![m.job] = m.status]
            /\ result' = [result EXCEPT ![m.job] =
                             @ \/ m.status = "succeeded"]
       ELSE UNCHANGED <<status, result>>
    /\ UNCHANGED <<now, registeredAgents, order, expiresAt, agentVars,
                   faultVars, histVars>>

(* Nothing in src/ sets an agent's status to "revoked"; the handlers check
   for it.  Revocation is an act of the environment. *)
Revoke(a) ==
    /\ Enrolled(a)
    /\ registeredAgents' = [registeredAgents EXCEPT ![a] = "revoked"]
    /\ UNCHANGED <<now, centralVars, expiresAt, net, agentVars, faultVars,
                   histVars>>

(* Both Maps live in the memory of the API process. *)
CentralRestart ==
    /\ restarts < MaxCentralRestarts
    /\ restarts' = restarts + 1
    /\ registeredAgents' = [a \in Agents |-> "absent"]
    /\ order' = << >>
    /\ status' = [j \in Jobs |-> "none"]
    /\ result' = [j \in Jobs |-> FALSE]
    /\ UNCHANGED <<now, expiresAt, net, agentVars, crashes, histVars>>

-----------------------------------------------------------------------------
(* Agent *)

PollClaim(a) ==
    /\ pc[a] = "idle"
    /\ pc' = [pc EXCEPT ![a] = "claiming"]
    /\ net' = net \cup {Claim(a, TRUE)}
    /\ UNCHANGED <<now, registeredAgents, centralVars, expiresAt, cur, todo,
                   journal, disk, faultVars, histVars>>

IsJobCompleted(a, j) == journal[a][j] = "succeeded"

ValidJobs(a, js) ==
    {j \in js : /\ NodeOfJob[j] = NodeOfAgent[a]
                /\ ~PastExpiry(j)
                /\ ~IsJobCompleted(a, j)}

AfterJob(a) == IF todo'[a] = {} THEN "idle" ELSE "ready"

ReceiveClaimed(m) ==
    /\ m \in net /\ m.type = "claimed"
    /\ net' = net \ {m}
    /\ todo' = [todo EXCEPT ![m.agent] = ValidJobs(m.agent, m.jobs)]
    /\ pc' = [pc EXCEPT ![m.agent] = AfterJob(m.agent)]
    /\ UNCHANGED <<now, registeredAgents, centralVars, expiresAt, cur,
                   journal, disk, faultVars, histVars>>

(* The agent no longer waits for its claim: an answer on its way is lost, a
   request on its way may still be handled. *)
AbandonClaim(a) ==
    net' = {m \in net : ~(m.agent = a /\ m.type = "claimed")
                        /\ m # Claim(a, TRUE)}
           \cup (IF Claim(a, TRUE) \in net THEN {Claim(a, FALSE)} ELSE {})

ClaimFails(a) ==
    /\ pc[a] = "claiming"
    /\ pc' = [pc EXCEPT ![a] = "idle"]
    /\ AbandonClaim(a)
    /\ UNCHANGED <<now, registeredAgents, centralVars, expiresAt, cur, todo,
                   journal, disk, faultVars, histVars>>

(* saveLocked: the error of os.WriteFile is ignored by every caller.  The
   file is then the new one, the old one (it could not be opened), or cut
   short, which load() turns into an empty journal. *)
SaveJournal(a, j, s) ==
    LET entries == [journal[a] EXCEPT ![j] = s] IN
    /\ journal' = [journal EXCEPT ![a] = entries]
    /\ \E d \in {entries, disk[a], EmptyJournal} :
          disk' = [disk EXCEPT ![a] = d]

StartJob(a, j) ==
    /\ pc[a] = "ready" /\ j \in todo[a]
    /\ todo' = [todo EXCEPT ![a] = @ \ {j}]
    /\ IF IsJobCompleted(a, j)
       THEN /\ pc' = [pc EXCEPT ![a] = AfterJob(a)]
            /\ UNCHANGED <<cur, journal, disk>>
       ELSE /\ SaveJournal(a, j, "running")
            /\ cur' = [cur EXCEPT ![a] = j]
            /\ pc' = [pc EXCEPT ![a] = "started"]
    /\ UNCHANGED <<now, registeredAgents, centralVars, expiresAt, net,
                   faultVars, histVars>>

ReportStep(a, from, to, s) ==
    /\ pc[a] = from
    /\ pc' = [pc EXCEPT ![a] = to]
    /\ net' = net \cup {Report(a, cur[a], s)}
    /\ UNCHANGED <<now, registeredAgents, centralVars, expiresAt, todo,
                   journal, disk, faultVars, histVars>>

ReportRunning(a)  == /\ ReportStep(a, "started", "running", "running")
                     /\ UNCHANGED cur
ReportProgressAsDone(a) == \* mutant: success reported before the action runs
    /\ ReportStep(a, "running", "progress", "succeeded")
    /\ UNCHANGED cur

ReportProgress(a) == /\ ReportStep(a, "running", "progress", "progress")
                     /\ UNCHANGED cur

RunAction(a) ==
    /\ pc[a] = "progress"
    /\ pc' = [pc EXCEPT ![a] = "ran"]
    /\ runs' = [runs EXCEPT ![cur[a]] = @ + 1]
    /\ UNCHANGED <<now, registeredAgents, centralVars, expiresAt, net, cur,
                   todo, journal, disk, faultVars, issued, holder>>

RecordFinish(a) ==
    /\ pc[a] = "ran"
    /\ pc' = [pc EXCEPT ![a] = "finished"]
    /\ SaveJournal(a, cur[a], "succeeded")
    /\ UNCHANGED <<now, registeredAgents, centralVars, expiresAt, net, cur,
                   todo, faultVars, histVars>>

ReportSucceeded(a) ==
    /\ ReportStep(a, "finished", IF todo[a] = {} THEN "idle" ELSE "ready",
                  "succeeded")
    /\ cur' = [cur EXCEPT ![a] = NoJob]

Crash(a) ==
    /\ crashes < MaxCrashes
    /\ crashes' = crashes + 1
    /\ pc[a] # "down"
    /\ pc' = [pc EXCEPT ![a] = "down"]
    /\ cur' = [cur EXCEPT ![a] = NoJob]
    /\ todo' = [todo EXCEPT ![a] = {}]
    /\ AbandonClaim(a)
    /\ UNCHANGED <<now, registeredAgents, centralVars, expiresAt, journal,
                   disk, restarts, histVars>>

(* NewJobJournal: load() errors are ignored. *)
Restart(a) ==
    /\ pc[a] = "down"
    /\ pc' = [pc EXCEPT ![a] = "idle"]
    /\ journal' = [journal EXCEPT ![a] = disk[a]]
    /\ UNCHANGED <<now, registeredAgents, centralVars, expiresAt, net, cur,
                   todo, disk, faultVars, histVars>>

-----------------------------------------------------------------------------
(* Environment *)

Tick ==
    /\ now < MaxTime
    /\ now' = now + 1
    /\ UNCHANGED <<registeredAgents, centralVars, expiresAt, net, agentVars,
                   faultVars, histVars>>

AgentStep(a) ==
    \/ PollClaim(a) \/ ClaimFails(a)
    \/ \E j \in Jobs : StartJob(a, j)
    \/ ReportRunning(a) \/ ReportProgress(a) \/ RunAction(a)
    \/ RecordFinish(a) \/ ReportSucceeded(a)
    \/ Crash(a) \/ Restart(a)

MessageStep(m) ==
    \/ HandleClaimJobs(m) \/ HandleJobStatusUpdate(m)
    \/ ReceiveClaimed(m)

Next ==
    \/ \E j \in Jobs, ttl \in TTLs : CreatePendingJob(j, ttl)
    \/ \E m \in net : MessageStep(m)
    \/ \E a \in Agents : AgentStep(a) \/ Revoke(a)
    \/ CentralRestart
    \/ Tick

Spec == Init /\ [][Next]_vars

(* Fairness.  The clock runs; a live agent keeps polling and takes its next
   step, a crashed one is restarted (systemd); not every claim of an agent is
   lost.  No fault is fair, and nothing is assumed of the reports. *)
AgentProgress(a) ==
    \/ PollClaim(a) \/ (\E j \in Jobs : StartJob(a, j))
    \/ ReportRunning(a) \/ ReportProgress(a) \/ RunAction(a)
    \/ RecordFinish(a) \/ ReportSucceeded(a) \/ Restart(a)

ClaimHandled(a)  == \E live \in BOOLEAN : HandleClaimJobs(Claim(a, live))
AnswerArrives(a) == \E m \in net : m.agent = a /\ ReceiveClaimed(m)

Fairness ==
    /\ WF_vars(Tick)
    /\ \A a \in Agents : /\ WF_vars(AgentProgress(a))
                         /\ SF_vars(ClaimHandled(a))
                         /\ SF_vars(AnswerArrives(a))

FairSpec == Spec /\ Fairness

-----------------------------------------------------------------------------
(* Correctness *)

(* The action of a job is run at most once, whatever is lost, delayed or
   crashes, and however many agents serve the node (doc 07: "Mesmo job nao
   executa duas vezes"). *)
AtMostOnce == \A j \in Jobs : runs[j] <= 1

(* Agent a has the job in its hands: in an answer on its way to it, in what
   it claimed, or being executed. *)
Holds(a, j) ==
    \/ \E m \in net : m.type = "claimed" /\ m.agent = a /\ j \in m.jobs
    \/ j \in todo[a]
    \/ cur[a] = j

(* A job is in the hands of at most one agent, one of the job's node and
   tenant, and never while central would still hand it out. *)
ExclusiveHold ==
    \A a \in Agents, j \in Jobs : Holds(a, j) =>
        /\ NodeOfAgent[a] = NodeOfJob[j] /\ TenantOfAgent[a] = TenantOfJob[j]
        /\ status[j] # "queued"
        /\ \A b \in Agents \ {a} : ~Holds(b, j)

(* Central never shows more than what happened: a result, or the status
   "succeeded", means that the action was run; "running" and "progress" mean
   that the job had been handed to an agent. *)
StatusIsReal ==
    \A j \in Jobs :
        /\ status[j] = "succeeded" \/ result[j] => runs[j] = 1
        /\ status[j] \in {"running", "progress"} => holder[j] # NoAgent

(* A job that expired in the queue, handed to nobody, is never run: not by a
   claim already on its way, not after a restart of the agent. *)
ExpiredUnclaimedNeverRuns ==
    [][\A j \in Jobs :
          status[j] = "expired" /\ holder[j] = NoAgent =>
              holder'[j] = NoAgent /\ runs'[j] = 0]_vars

(* The node of the job has an agent that central accepts. *)
Served(j) == \E a \in Agents : /\ Enrolled(a)
                               /\ NodeOfAgent[a] = NodeOfJob[j]
                               /\ TenantOfAgent[a] = TenantOfJob[j]

(* No job is forgotten, whatever is lost and whichever agent crashes with it:
   central eventually shows it as succeeded, or a later claim of the node
   finds it past its expiry.  Nothing else ends a job that was dispatched. *)
JobsSettle ==
    \A j \in Jobs :
        j \in issued ~> status[j] \in {"succeeded", "expired"} \/ ~Served(j)

(* THREAT_MODEL.md TM-06 names "Validacao de status de transicao de estado"
   against replays: a job that succeeded does not go back to another status
   while central runs. *)
SucceededIsFinal ==
    [][\A j \in Jobs : status[j] = "succeeded" /\ restarts' = restarts
                          => status'[j] = "succeeded"]_vars

(* Why they hold: the inductive invariant of JobProtocolProofs.  A job in an
   answer, in todo or in cur of an agent is one central handed to that agent,
   and the three never overlap: an answer only exists while its agent waits
   in "claiming" with nothing in its hands. *)
AnswersAreAwaited ==
    /\ \A a \in Agents : Claim(a, TRUE) \in net => pc[a] = "claiming"
    /\ \A m \in net : m.type = "claimed" =>
          /\ pc[m.agent] = "claiming"
          /\ Claim(m.agent, TRUE) \notin net
          /\ \A n \in net : n.type = "claimed" /\ n.agent = m.agent => n = m

HeldJobs ==
    /\ \A m \in net : m.type = "claimed" =>
          \A j \in m.jobs : holder[j] = m.agent /\ runs[j] = 0
    /\ \A a \in Agents : \A j \in todo[a] :
          /\ pc[a] \in {"ready"} \cup Working
          /\ holder[j] = a /\ runs[j] = 0 /\ cur[a] # j

ExecutedJob ==
    \A a \in Agents :
        /\ pc[a] \notin Working => cur[a] = NoJob
        /\ pc[a] \in Working => holder[cur[a]] = a
        /\ pc[a] \in BeforeRun => runs[cur[a]] = 0
        /\ pc[a] \in AfterRun => runs[cur[a]] = 1

HandedJobs ==
    \A j \in Jobs :
        /\ runs[j] <= 1
        /\ holder[j] = NoAgent => runs[j] = 0
        /\ j \notin issued => holder[j] = NoAgent
        /\ status[j] = "queued" => j \in issued /\ holder[j] = NoAgent
        /\ holder[j] # NoAgent => /\ NodeOfAgent[holder[j]] = NodeOfJob[j]
                                 /\ TenantOfAgent[holder[j]] = TenantOfJob[j]

ReportsAreReal ==
    \A m \in net : m.type = "status" =>
        /\ holder[m.job] # NoAgent
        /\ m.status = "succeeded" => runs[m.job] = 1

HoldInv == /\ AnswersAreAwaited /\ HeldJobs /\ ExecutedJob /\ HandedJobs
           /\ ReportsAreReal /\ StatusIsReal

(* What the protocol promises: see JobOnce.  The history variables are what it
   keeps of the state. *)
Once == INSTANCE JobOnce WITH issued <- issued, holder <- holder, runs <- runs
ImplementsJobOnce == Once!Spec
=============================================================================
