-------------------------- MODULE JobProtocolProofs --------------------------
(***************************************************************************)
(* Proofs about JobProtocol for any number of jobs, agents, crashes and    *)
(* restarts, any maxJobs and any message delay or loss.                    *)
(***************************************************************************)
EXTENDS JobProtocol, TLAPS

USE DEF centralVars, agentVars, faultVars, histVars

(* What a message in flight consists of, by its type. *)
LEMMA MessageShape ==
    ASSUME NEW m \in Messages
    PROVE  /\ m.agent \in Agents
           /\ m.type \in {"claim", "claimed", "status"}
           /\ m.type = "claim" => m.live \in BOOLEAN /\ m = Claim(m.agent, m.live)
           /\ m.type = "claimed" => m.jobs \subseteq Jobs
           /\ m.type = "status" => m.job \in Jobs /\ m.status \in ReportStatuses
  BY DEF Messages, Claim

(* The messages the two sides send are messages. *)
LEMMA MessagesSent ==
    ASSUME NEW a \in Agents
    PROVE  /\ \A live \in BOOLEAN : Claim(a, live) \in Messages
           /\ \A js \in SUBSET Jobs : Claimed(a, js) \in Messages
           /\ \A j \in Jobs, s \in ReportStatuses : Report(a, j, s) \in Messages
  BY DEF Messages, Claim, Claimed, Report

(* What central hands out in one claim is queued and belongs to the node and
   tenant of the claiming agent (handleClaimJobs). *)
LEMMA TakenJobs ==
    ASSUME TypeOK, NEW a \in Agents, NEW j \in JobsTaken(a)
    PROVE  /\ j \in Jobs
           /\ status[j] = "queued"
           /\ NodeOfAgent[a] = NodeOfJob[j] /\ TenantOfAgent[a] = TenantOfJob[j]
  BY DEF TypeOK, JobsTaken, Claimable, Matching

(* Saving the journal keeps the types of both copies of it (saveLocked). *)
LEMMA SaveTypes ==
    ASSUME TypeOK, NEW a \in Agents, NEW j, NEW s \in JournalStates,
           SaveJournal(a, j, s)
    PROVE  /\ journal' \in [Agents -> [Jobs -> JournalStates]]
           /\ disk' \in [Agents -> [Jobs -> JournalStates]]
  <1> DEFINE entries == [journal[a] EXCEPT ![j] = s]
  <1>1. entries \in [Jobs -> JournalStates]
    BY DEF TypeOK
  <1>2. EmptyJournal \in [Jobs -> JournalStates]
    BY DEF EmptyJournal, JournalStates
  <1>3. PICK d \in {entries, disk[a], EmptyJournal} :
           disk' = [disk EXCEPT ![a] = d]
    BY DEF SaveJournal
  <1> HIDE DEF entries
  <1>4. journal' = [journal EXCEPT ![a] = entries]
    BY DEF SaveJournal, entries
  <1> QED BY <1>1, <1>2, <1>3, <1>4 DEF TypeOK

(* The variables keep their types. *)
LEMMA TypeStep ==
    ASSUME TypeOK, [Next]_vars
    PROVE  TypeOK'
  <1> USE JobProtocolAssumption DEF TypeOK
  <1>1. ASSUME NEW j \in Jobs, NEW ttl \in TTLs, CreatePendingJob(j, ttl)
        PROVE  TypeOK'
    BY <1>1 DEF CreatePendingJob, JobStatuses
  <1>2. ASSUME NEW m \in net, HandleClaimJobs(m)
        PROVE  TypeOK'
    <2> USE <1>2 DEF HandleClaimJobs
    <2>1. m \in Messages /\ m.agent \in Agents /\ m.type = "claim"
      BY MessageShape
    <2>2. JobsTaken(m.agent) \subseteq Jobs
      BY <2>1, TakenJobs
    <2>3. status' \in [Jobs -> JobStatuses]
      BY DEF StatusAfterClaim, JobStatuses
    <2>4. holder' \in [Jobs -> Agents \cup {NoAgent}]
      BY <2>1
    <2>5. net' \subseteq Messages
      BY <2>1, <2>2, MessagesSent
    <2> QED BY <2>3, <2>4, <2>5
  <1>3. ASSUME NEW m \in net, HandleJobStatusUpdate(m)
        PROVE  TypeOK'
    <2> USE <1>3 DEF HandleJobStatusUpdate
    <2>1. m.job \in Jobs /\ m.status \in ReportStatuses
      BY MessageShape
    <2>2. CASE MayUpdate(m.agent, m.job)
      BY <2>1, <2>2 DEF JobStatuses
    <2>3. CASE ~MayUpdate(m.agent, m.job)
      BY <2>3
    <2> QED BY <2>2, <2>3
  <1>4. ASSUME NEW m \in net, ReceiveClaimed(m)
        PROVE  TypeOK'
    <2> USE <1>4 DEF ReceiveClaimed
    <2>1. m.agent \in Agents /\ m.jobs \subseteq Jobs
      BY MessageShape
    <2>2. todo' \in [Agents -> SUBSET Jobs]
      BY <2>1 DEF ValidJobs
    <2>3. pc' = [pc EXCEPT ![m.agent] = "idle"] \/ pc' = [pc EXCEPT ![m.agent] = "ready"]
      BY DEF AfterJob
    <2>4. /\ pc' \in [Agents -> PCs]
          /\ \A a \in Agents : pc'[a] \in Working => cur[a] \in Jobs
      BY <2>1, <2>3 DEF PCs, Working, BeforeRun, AfterRun
    <2> QED BY <2>2, <2>4
  <1>5. ASSUME NEW a \in Agents, AgentStep(a)
        PROVE  TypeOK'
    <2> USE DEF PCs, Working, BeforeRun, AfterRun
    <2>1. CASE PollClaim(a)
      BY <2>1, MessagesSent DEF PollClaim
    <2>2. CASE ClaimFails(a)
      BY <2>2, MessagesSent DEF ClaimFails, AbandonClaim
    <2>3. ASSUME NEW j \in Jobs, StartJob(a, j)
          PROVE  TypeOK'
      <3>1. CASE IsJobCompleted(a, j)
        BY <2>3, <3>1 DEF StartJob, AfterJob
      <3>2. CASE ~IsJobCompleted(a, j)
        <4>1. /\ journal' \in [Agents -> [Jobs -> JournalStates]]
              /\ disk' \in [Agents -> [Jobs -> JournalStates]]
          BY <2>3, <3>2, SaveTypes DEF StartJob, JournalStates
        <4>2. /\ todo' = [todo EXCEPT ![a] = @ \ {j}]
              /\ cur' = [cur EXCEPT ![a] = j]
              /\ pc' = [pc EXCEPT ![a] = "started"]
              /\ UNCHANGED <<now, registeredAgents, centralVars, expiresAt, net,
                             faultVars, histVars>>
          BY <2>3, <3>2 DEF StartJob
        <4> QED BY <4>1, <4>2
      <3> QED BY <3>1, <3>2
    <2>4. CASE ReportRunning(a) \/ ReportProgress(a) \/ ReportSucceeded(a)
      <3>1. \A s \in ReportStatuses : Report(a, cur[a], s) \in Messages
        BY <2>4, MessagesSent
           DEF ReportRunning, ReportProgress, ReportSucceeded, ReportStep
      <3> QED BY <2>4, <3>1 DEF ReportRunning, ReportProgress, ReportSucceeded,
                               ReportStep, ReportStatuses
    <2>5. CASE RunAction(a)
      <3>1. cur[a] \in Jobs
        BY <2>5 DEF RunAction
      <3> QED BY <2>5, <3>1 DEF RunAction
    <2>6. CASE RecordFinish(a)
      <3>1. /\ journal' \in [Agents -> [Jobs -> JournalStates]]
            /\ disk' \in [Agents -> [Jobs -> JournalStates]]
        BY <2>6, SaveTypes DEF RecordFinish, JournalStates
      <3> QED BY <2>6, <3>1 DEF RecordFinish
    <2>7. CASE Crash(a)
      <3>1. net' \subseteq Messages
        BY <2>7, MessagesSent DEF Crash, AbandonClaim
      <3> QED BY <2>7, <3>1 DEF Crash
    <2>8. CASE Restart(a)
      BY <2>8 DEF Restart
    <2> QED BY <1>5, <2>1, <2>2, <2>3, <2>4, <2>5, <2>6, <2>7, <2>8 DEF AgentStep
  <1>6. ASSUME NEW a \in Agents, Revoke(a)
        PROVE  TypeOK'
    BY <1>6 DEF Revoke
  <1>7. CASE CentralRestart
    BY <1>7 DEF CentralRestart, JobStatuses
  <1>8. CASE Tick
    BY <1>8 DEF Tick
  <1>9. CASE UNCHANGED vars
    BY <1>9 DEF vars
  <1> QED
    BY <1>1, <1>2, <1>3, <1>4, <1>5, <1>6, <1>7, <1>8, <1>9
       DEF Next, MessageStep

(* Type correctness of JobProtocol. *)
THEOREM TypeCorrect == Spec => []TypeOK
  <1>1. Init => TypeOK
    BY JobProtocolAssumption
       DEF Init, TypeOK, JobStatuses, PCs, Working, BeforeRun, AfterRun,
           EmptyJournal, JournalStates
  <1>2. TypeOK /\ [Next]_vars => TypeOK'
    BY TypeStep
  <1> QED BY <1>1, <1>2, PTL DEF Spec

(* The network: every message in flight has a type and an agent. *)
LEMMA InFlight ==
    ASSUME TypeOK, NEW m \in net
    PROVE  /\ m \in Messages /\ m.agent \in Agents
           /\ m.type = "claimed" => m.jobs \subseteq Jobs
           /\ m.type = "status" => m.job \in Jobs /\ m.status \in ReportStatuses
           /\ m.type = "claim" => m.live \in BOOLEAN /\ m = Claim(m.agent, m.live)
  BY MessageShape DEF TypeOK

(* The fields of the messages the two sides send. *)
LEMMA SentFields ==
    ASSUME NEW a, NEW l, NEW js, NEW j, NEW s
    PROVE  /\ Claim(a, l).type = "claim" /\ Claim(a, l).agent = a
           /\ Claim(a, l).live = l
           /\ Claimed(a, js).type = "claimed" /\ Claimed(a, js).agent = a
           /\ Claimed(a, js).jobs = js
           /\ Report(a, j, s).type = "status" /\ Report(a, j, s).agent = a
           /\ Report(a, j, s).job = j /\ Report(a, j, s).status = s
           /\ Claimed(a, js) # Claim(a, l) /\ Report(a, j, s) # Claim(a, l)
  BY DEF Claim, Claimed, Report

(* handleClaimJobs keeps the invariant: what it hands out was in nobody's
   hands, since it was queued. *)
LEMMA ClaimJobsStep ==
    ASSUME TypeOK, HoldInv, NEW m \in net, HandleClaimJobs(m)
    PROVE  HoldInv'
  <1> DEFINE a == m.agent  js == JobsTaken(a)
  <1>1. a \in Agents /\ m = Claim(a, m.live) /\ m.live \in BOOLEAN /\ a # NoAgent
    BY InFlight, JobProtocolAssumption DEF HandleClaimJobs
  <1>2. \A j \in js : /\ j \in Jobs /\ status[j] = "queued"
                      /\ NodeOfAgent[a] = NodeOfJob[j]
                      /\ TenantOfAgent[a] = TenantOfJob[j]
    BY <1>1, TakenJobs
  <1>3. \A j \in js : holder[j] = NoAgent /\ runs[j] = 0 /\ j \in issued
    BY <1>2 DEF HoldInv, HandedJobs
  <1>4. \A j \in Jobs : /\ j \in js => holder'[j] = a /\ status'[j] = "dispatched"
                        /\ j \notin js => /\ holder'[j] = holder[j]
                                         /\ status'[j] \in {status[j], "expired"}
    BY DEF HandleClaimJobs, StatusAfterClaim, TypeOK
  <1>5. /\ net' \subseteq (net \ {m}) \cup {Claimed(a, js)}
        /\ Claimed(a, js) \in net' => m.live \/ Claimed(a, js) \in net
        /\ UNCHANGED <<pc, cur, todo, runs, result, issued>>
    BY DEF HandleClaimJobs
  <1>6. \A j \in Jobs : holder[j] # NoAgent => holder'[j] = holder[j]
    BY <1>3, <1>4
  <1> HIDE DEF js, a
  <1>7. AnswersAreAwaited'
    <2>1. CASE m.live = TRUE
      <3>0. \A b : Claimed(a, js) # Claim(b, TRUE)
        BY DEF Claim, Claimed
      <3>1. m = Claim(a, TRUE) /\ m \notin net'
        BY <1>1, <1>5, <2>1, <3>0
      <3>2. pc[a] = "claiming"
        BY <1>1, <3>1 DEF HoldInv, AnswersAreAwaited
      <3>3. \A n \in net : ~(n.type = "claimed" /\ n.agent = a)
        BY <1>1, <3>1 DEF HoldInv, AnswersAreAwaited
      <3>4. \A n \in net' : n \in net \/ n = Claimed(a, js)
        BY <1>5
      <3>5. \A b \in Agents : Claim(b, TRUE) \in net' => Claim(b, TRUE) \in net
        BY <3>0, <3>4
      <3>6. ASSUME NEW n \in net', n.type = "claimed"
            PROVE  /\ pc'[n.agent] = "claiming"
                   /\ Claim(n.agent, TRUE) \notin net'
                   /\ \A k \in net' : k.type = "claimed" /\ k.agent = n.agent => k = n
        <4>1. CASE n \in net
          <5>1. n.agent # a /\ n.agent \in Agents
            BY <3>3, <3>6, <4>1, InFlight
          <5>2. /\ pc[n.agent] = "claiming" /\ Claim(n.agent, TRUE) \notin net
                /\ \A k \in net : k.type = "claimed" /\ k.agent = n.agent => k = n
            BY <3>6, <4>1 DEF HoldInv, AnswersAreAwaited
          <5>3. Claimed(a, js).agent # n.agent
            BY <5>1, SentFields
          <5> QED BY <1>5, <3>4, <3>5, <5>1, <5>2, <5>3
        <4>2. CASE n = Claimed(a, js)
          <5>1. n.agent = a
            BY <4>2, SentFields
          <5> QED BY <1>5, <3>1, <3>2, <3>3, <3>4, <4>2, <5>1
        <4> QED BY <3>4, <4>1, <4>2
      <3> QED BY <1>5, <3>5, <3>6 DEF HoldInv, AnswersAreAwaited
    <2>2. CASE m.live = FALSE
      <3>1. net' \subseteq net
        BY <1>5, <2>2
      <3>2. ASSUME NEW n \in net', n.type = "claimed"
            PROVE  /\ pc'[n.agent] = "claiming"
                   /\ Claim(n.agent, TRUE) \notin net'
                   /\ \A k \in net' : k.type = "claimed" /\ k.agent = n.agent => k = n
        BY <1>5, <3>1, <3>2 DEF HoldInv, AnswersAreAwaited
      <3> QED BY <1>5, <3>1, <3>2 DEF HoldInv, AnswersAreAwaited
    <2> QED BY <1>1, <2>1, <2>2
  <1>8. HeldJobs'
    <2>1. ASSUME NEW n \in net', n.type = "claimed", NEW j \in n.jobs
          PROVE  holder'[j] = n.agent /\ runs'[j] = 0
      <3>1. CASE n \in net
        <4>1. j \in Jobs /\ holder[j] = n.agent /\ runs[j] = 0 /\ n.agent \in Agents
          BY <2>1, <3>1, InFlight DEF HoldInv, HeldJobs
        <4> QED BY <1>5, <1>6, <4>1, JobProtocolAssumption
      <3>2. CASE n = Claimed(a, js)
        BY <1>2, <1>3, <1>4, <1>5, <2>1, <3>2, SentFields
      <3> QED BY <1>5, <3>1, <3>2
    <2>2. ASSUME NEW b \in Agents, NEW j \in todo'[b]
          PROVE  /\ pc'[b] \in {"ready"} \cup Working
                 /\ holder'[j] = b /\ runs'[j] = 0 /\ cur'[b] # j
      <3>1. j \in Jobs /\ j \in todo[b]
        BY <1>5 DEF TypeOK
      <3>2. holder[j] = b /\ b # NoAgent
        BY <3>1, JobProtocolAssumption DEF HoldInv, HeldJobs
      <3> QED BY <1>5, <1>6, <3>1, <3>2 DEF HoldInv, HeldJobs
    <2> QED BY <2>1, <2>2 DEF HeldJobs
  <1>9. ExecutedJob'
    <2>1. ASSUME NEW b \in Agents, pc[b] \in Working
          PROVE  holder'[cur[b]] = b
      <3>1. cur[b] \in Jobs /\ holder[cur[b]] = b /\ b # NoAgent
        BY <2>1, JobProtocolAssumption DEF HoldInv, ExecutedJob, TypeOK
      <3> QED BY <1>6, <3>1
    <2> QED BY <1>5, <2>1 DEF HoldInv, ExecutedJob
  <1>10. HandedJobs'
    BY <1>1, <1>2, <1>3, <1>4, <1>5 DEF HoldInv, HandedJobs
  <1>11. ReportsAreReal'
    <2>1. ASSUME NEW n \in net', n.type = "status"
          PROVE  n \in net /\ n.job \in Jobs
      BY <1>5, <2>1, SentFields, InFlight
    <2> QED BY <1>5, <1>6, <2>1 DEF HoldInv, ReportsAreReal
  <1>12. StatusIsReal'
    BY <1>3, <1>4, <1>5, <1>6 DEF HoldInv, StatusIsReal
  <1> QED BY <1>7, <1>8, <1>9, <1>10, <1>11, <1>12 DEF HoldInv

(* A step that leaves the agents and the history alone, and sends nothing,
   keeps what the invariant says of them. *)
LEMMA AgentSideUntouched ==
    ASSUME HoldInv, net' \subseteq net, UNCHANGED <<pc, cur, todo, holder, runs>>
    PROVE  AnswersAreAwaited' /\ HeldJobs' /\ ExecutedJob' /\ ReportsAreReal'
  <1>1. AnswersAreAwaited'
    <2>1. \A a \in Agents : Claim(a, TRUE) \in net' => pc'[a] = "claiming"
      BY DEF HoldInv, AnswersAreAwaited
    <2>2. ASSUME NEW m \in net', m.type = "claimed"
          PROVE  /\ pc'[m.agent] = "claiming"
                 /\ Claim(m.agent, TRUE) \notin net'
                 /\ \A n \in net' : n.type = "claimed" /\ n.agent = m.agent => n = m
      BY <2>2 DEF HoldInv, AnswersAreAwaited
    <2> QED BY <2>1, <2>2 DEF AnswersAreAwaited
  <1>2. HeldJobs'
    BY DEF HoldInv, HeldJobs
  <1>3. ExecutedJob'
    BY DEF HoldInv, ExecutedJob
  <1>4. ReportsAreReal'
    BY DEF HoldInv, ReportsAreReal
  <1> QED BY <1>1, <1>2, <1>3, <1>4

(* Central's other handlers, and what happens to central, keep it. *)
LEMMA CentralStep ==
    ASSUME TypeOK, HoldInv,
           \/ \E j \in Jobs, ttl \in TTLs : CreatePendingJob(j, ttl)
           \/ \E m \in net : HandleJobStatusUpdate(m)
           \/ \E a \in Agents : Revoke(a)
           \/ CentralRestart \/ Tick \/ UNCHANGED vars
    PROVE  HoldInv'
  <1> USE DEF HoldInv
  <1>1. ASSUME NEW j \in Jobs, NEW ttl \in TTLs, CreatePendingJob(j, ttl)
        PROVE  HoldInv'
    <2> USE <1>1 DEF CreatePendingJob
    <2>1. UNCHANGED <<net, pc, cur, todo, result, holder, runs>>
      OBVIOUS
    <2>2. AnswersAreAwaited' /\ HeldJobs' /\ ExecutedJob' /\ ReportsAreReal'
      BY <2>1, AgentSideUntouched
    <2>3. HandedJobs'
      BY <2>1 DEF HandedJobs, TypeOK
    <2>4. StatusIsReal'
      BY <2>1 DEF StatusIsReal, TypeOK
    <2> QED BY <2>2, <2>3, <2>4
  <1>2. ASSUME NEW m \in net, HandleJobStatusUpdate(m)
        PROVE  HoldInv'
    <2> USE <1>2 DEF HandleJobStatusUpdate
    <2>1. /\ UNCHANGED <<pc, cur, todo, issued, holder, runs>>
          /\ net' \subseteq net
      OBVIOUS
    <2>2. AnswersAreAwaited' /\ HeldJobs' /\ ExecutedJob' /\ ReportsAreReal'
      BY <2>1, AgentSideUntouched
    <2>3. m.job \in Jobs /\ m.status \in ReportStatuses
      BY InFlight
    <2>4. holder[m.job] # NoAgent /\ (m.status = "succeeded" => runs[m.job] = 1)
      BY DEF ReportsAreReal
    <2>5. \A j \in Jobs :
             \/ status'[j] = status[j] /\ result'[j] = result[j]
             \/ j = m.job /\ status'[j] = m.status
                /\ (result'[j] = (result[j] \/ m.status = "succeeded"))
      BY DEF TypeOK
    <2>6. HandedJobs'
      BY <2>1, <2>3, <2>5 DEF HandedJobs, ReportStatuses
    <2>7. StatusIsReal'
      BY <2>1, <2>3, <2>4, <2>5 DEF StatusIsReal
    <2> QED BY <2>2, <2>6, <2>7
  <1>3. CASE CentralRestart
    <2> USE <1>3 DEF CentralRestart
    <2>1. AnswersAreAwaited' /\ HeldJobs' /\ ExecutedJob' /\ ReportsAreReal'
      BY AgentSideUntouched
    <2>2. HandedJobs' /\ StatusIsReal'
      BY DEF HandedJobs, StatusIsReal
    <2> QED BY <2>1, <2>2
  <1>4. CASE (\E a \in Agents : Revoke(a)) \/ Tick \/ UNCHANGED vars
    <2>1. UNCHANGED <<net, pc, cur, todo, status, result, issued, holder, runs>>
      BY <1>4 DEF Revoke, Tick, vars
    <2>2. AnswersAreAwaited' /\ HeldJobs' /\ ExecutedJob' /\ ReportsAreReal'
      BY <2>1, AgentSideUntouched
    <2>3. HandedJobs' /\ StatusIsReal'
      BY <2>1 DEF HandedJobs, StatusIsReal
    <2> QED BY <2>2, <2>3
  <1> QED BY <1>1, <1>2, <1>3, <1>4

(* An agent that claims, receives or gives up keeps it: it waits with empty
   hands, and what it receives is its own. *)
LEMMA ClaimingStep ==
    ASSUME TypeOK, HoldInv, NEW a \in Agents,
           \/ PollClaim(a) \/ ClaimFails(a) \/ Crash(a) \/ Restart(a)
    PROVE  HoldInv'
  <1> USE DEF HoldInv, Working, BeforeRun, AfterRun
  <1>0. \A b \in Agents, j \in Jobs :
           pc[b] \in {"idle", "claiming", "down"} => todo[b] = {} /\ cur[b] = NoJob
    BY DEF HeldJobs, ExecutedJob
  <1>1. UNCHANGED <<status, result, issued, holder, runs>>
    BY DEF PollClaim, ClaimFails, Crash, Restart
  <1>2. HandedJobs' /\ StatusIsReal'
    BY <1>1 DEF HandedJobs, StatusIsReal
  <1>3. \A m \in net' : m \in net \/ m = Claim(a, TRUE) \/ m = Claim(a, FALSE)
    BY DEF PollClaim, ClaimFails, Crash, Restart, AbandonClaim
  <1>4. \A m \in net' : m.type # "claim" => m \in net
    <2>1. Claim(a, TRUE).type = "claim" /\ Claim(a, FALSE).type = "claim"
      BY DEF Claim
    <2> QED BY <1>3, <2>1
  <1>5. ReportsAreReal'
    BY <1>1, <1>4 DEF ReportsAreReal
  <1>6. /\ \A b \in Agents \ {a} : UNCHANGED <<pc[b], cur[b], todo[b]>>
        /\ todo'[a] = {} /\ cur'[a] = NoJob
        /\ pc'[a] \in {"idle", "claiming", "down"}
    BY <1>0 DEF PollClaim, ClaimFails, Crash, Restart, TypeOK
  <1>7. HeldJobs'
    BY <1>1, <1>4, <1>6 DEF HeldJobs
  <1>8. ExecutedJob'
    BY <1>1, <1>6 DEF ExecutedJob
  <1>9. AnswersAreAwaited'
    <2>1. CASE PollClaim(a)
      <3>1. pc[a] = "idle" /\ pc' = [pc EXCEPT ![a] = "claiming"]
        BY <2>1 DEF PollClaim
      <3>2. \A m \in net : m.type = "claimed" => m.agent # a
        BY <3>1 DEF AnswersAreAwaited
      <3>3. \A b : Claim(b, TRUE) \in net' => Claim(b, TRUE) \in net \/ b = a
        <4>1. \A b : Claim(b, TRUE) = Claim(a, TRUE) => b = a
          BY DEF Claim
        <4> QED BY <2>1, <4>1 DEF PollClaim
      <3>4. pc'[a] = "claiming"
        BY <3>1 DEF TypeOK
      <3>5. \A m \in net' : m.type = "claimed" => m.agent # a /\ m.agent \in Agents
        BY <1>4, <3>2, InFlight
      <3>6. \A b \in Agents : Claim(b, TRUE) \in net' => pc'[b] = "claiming"
        BY <1>6, <3>3, <3>4 DEF AnswersAreAwaited
      <3>7. ASSUME NEW m \in net', m.type = "claimed"
            PROVE  /\ pc'[m.agent] = "claiming"
                   /\ Claim(m.agent, TRUE) \notin net'
                   /\ \A n \in net' : n.type = "claimed" /\ n.agent = m.agent => n = m
        BY <1>4, <1>6, <3>3, <3>5, <3>7 DEF AnswersAreAwaited
      <3> QED BY <3>6, <3>7 DEF AnswersAreAwaited
    <2>2. CASE ClaimFails(a) \/ Crash(a)
      <3>1. AbandonClaim(a)
        BY <2>2 DEF ClaimFails, Crash
      <3>2. Claim(a, TRUE) # Claim(a, FALSE)
        BY DEF Claim
      <3>3. /\ Claim(a, TRUE) \notin net'
            /\ \A m \in net' : m.type = "claimed" => m \in net /\ m.agent # a
        <4>1. Claim(a, FALSE).type = "claim"
          BY DEF Claim
        <4> QED BY <3>1, <3>2, <4>1 DEF AbandonClaim
      <3>4. \A b : Claim(b, TRUE) \in net' => Claim(b, TRUE) \in net /\ b # a
        BY <1>3, <3>2, <3>3 DEF Claim
      <3>5. \A b \in Agents : Claim(b, TRUE) \in net' => pc'[b] = "claiming"
        BY <1>6, <3>4 DEF AnswersAreAwaited
      <3>6. ASSUME NEW m \in net', m.type = "claimed"
            PROVE  /\ pc'[m.agent] = "claiming"
                   /\ Claim(m.agent, TRUE) \notin net'
                   /\ \A n \in net' : n.type = "claimed" /\ n.agent = m.agent => n = m
        BY <1>6, <3>3, <3>4, <3>6, InFlight DEF AnswersAreAwaited
      <3> QED BY <3>5, <3>6 DEF AnswersAreAwaited
    <2>3. CASE Restart(a)
      <3>1. net' = net /\ pc[a] = "down"
        BY <2>3 DEF Restart
      <3>2. \A m \in net : m.agent \in Agents
        BY InFlight
      <3> QED BY <1>6, <3>1, <3>2 DEF AnswersAreAwaited
    <2> QED BY <2>1, <2>2, <2>3
  <1> QED BY <1>2, <1>5, <1>7, <1>8, <1>9

(* An agent that is neither claiming before nor after its step does not
   disturb the claims of the others. *)
LEMMA AwaitingOthers ==
    ASSUME TypeOK, AnswersAreAwaited, NEW a \in Agents, pc[a] # "claiming",
           \A b \in Agents \ {a} : pc'[b] = pc[b],
           \A m \in net' : m.type # "status" => m \in net
    PROVE  AnswersAreAwaited'
  <1>0. \A b : Claim(b, TRUE).type = "claim"
    BY DEF Claim
  <1>1. \A b \in Agents : Claim(b, TRUE) \in net' => Claim(b, TRUE) \in net /\ b # a
    BY <1>0 DEF AnswersAreAwaited
  <1>2. ASSUME NEW m \in net', m.type = "claimed"
        PROVE  m \in net /\ m.agent \in Agents \ {a}
    BY <1>2, InFlight DEF AnswersAreAwaited
  <1>3. ASSUME NEW m \in net', m.type = "claimed"
        PROVE  /\ pc'[m.agent] = "claiming"
               /\ Claim(m.agent, TRUE) \notin net'
               /\ \A n \in net' : n.type = "claimed" /\ n.agent = m.agent => n = m
    BY <1>1, <1>2, <1>3 DEF AnswersAreAwaited
  <1> QED BY <1>1, <1>3 DEF AnswersAreAwaited

(* The answer to a claim: the jobs in it become the agent's, whose hands were
   empty. *)
LEMMA ReceiveStep ==
    ASSUME TypeOK, HoldInv, NEW m \in net, ReceiveClaimed(m)
    PROVE  HoldInv'
  <1> DEFINE a == m.agent
  <1> USE DEF HoldInv, Working, BeforeRun, AfterRun
  <1>1. a \in Agents /\ m.jobs \subseteq Jobs /\ m.type = "claimed"
    BY InFlight DEF ReceiveClaimed
  <1>2. pc[a] = "claiming" /\ cur[a] = NoJob
    BY <1>1 DEF AnswersAreAwaited, ExecutedJob
  <1>3. UNCHANGED <<status, result, issued, holder, runs, cur>> /\ net' = net \ {m}
    BY DEF ReceiveClaimed
  <1>4. /\ todo' = [todo EXCEPT ![a] = todo'[a]] /\ todo'[a] \subseteq m.jobs
        /\ pc' = [pc EXCEPT ![a] = pc'[a]]
        /\ pc'[a] = IF todo'[a] = {} THEN "idle" ELSE "ready"
    BY <1>1 DEF ReceiveClaimed, ValidJobs, AfterJob, TypeOK
  <1>5. HandedJobs' /\ StatusIsReal' /\ ReportsAreReal'
    BY <1>3 DEF HandedJobs, StatusIsReal, ReportsAreReal
  <1> HIDE DEF a
  <1>6. AnswersAreAwaited'
    <2>1. \A n \in net' : n.type = "claimed" => n.agent # a /\ n.agent \in Agents
      BY <1>1, <1>3, InFlight DEF AnswersAreAwaited, a
    <2>2. Claim(a, TRUE) \notin net'
      BY <1>1, <1>3 DEF AnswersAreAwaited, a
    <2>3. \A b \in Agents \ {a} : pc'[b] = pc[b]
      BY <1>1, <1>4 DEF TypeOK
    <2>4. \A b \in Agents : Claim(b, TRUE) \in net' => pc'[b] = "claiming"
      BY <1>3, <2>2, <2>3 DEF AnswersAreAwaited
    <2>5. ASSUME NEW n \in net', n.type = "claimed"
          PROVE  /\ pc'[n.agent] = "claiming"
                 /\ Claim(n.agent, TRUE) \notin net'
                 /\ \A k \in net' : k.type = "claimed" /\ k.agent = n.agent => k = n
      BY <1>3, <2>1, <2>3, <2>5 DEF AnswersAreAwaited
    <2> QED BY <2>4, <2>5 DEF AnswersAreAwaited
  <1>7. HeldJobs'
    <2>1. ASSUME NEW j \in todo'[a]
          PROVE  pc'[a] = "ready" /\ holder[j] = a /\ runs[j] = 0 /\ cur[a] # j
      BY <1>1, <1>2, <1>4, JobProtocolAssumption DEF HeldJobs, a
    <2>2. \A b \in Agents \ {a} : todo'[b] = todo[b] /\ pc'[b] = pc[b]
      BY <1>1, <1>4 DEF TypeOK
    <2>3. \A n \in net' : n.type = "claimed" =>
             \A j \in n.jobs : holder'[j] = n.agent /\ runs'[j] = 0
      BY <1>3 DEF HeldJobs
    <2>4. ASSUME NEW b \in Agents, NEW j \in todo'[b]
          PROVE  /\ pc'[b] \in {"ready"} \cup Working
                 /\ holder'[j] = b /\ runs'[j] = 0 /\ cur'[b] # j
      <3>1. CASE b = a
        BY <1>3, <2>1, <3>1
      <3>2. CASE b # a
        BY <1>3, <2>2, <3>2 DEF HeldJobs
      <3> QED BY <3>1, <3>2
    <2> QED BY <2>3, <2>4 DEF HeldJobs
  <1>8. ExecutedJob'
    BY <1>1, <1>2, <1>3, <1>4 DEF ExecutedJob, TypeOK
  <1> QED BY <1>5, <1>6, <1>7, <1>8

(* Starting a job moves it from todo to cur, or drops it when the journal
   says that it is completed. *)
LEMMA StartStep ==
    ASSUME TypeOK, HoldInv, NEW a \in Agents, NEW j \in Jobs, StartJob(a, j)
    PROVE  HoldInv'
  <1> USE DEF HoldInv, Working, BeforeRun, AfterRun
  <1>1. /\ pc[a] = "ready" /\ j \in todo[a] /\ cur[a] = NoJob
        /\ holder[j] = a /\ runs[j] = 0
    BY DEF StartJob, ExecutedJob, HeldJobs
  <1>2. /\ UNCHANGED <<status, result, issued, holder, runs, net>>
        /\ todo' = [todo EXCEPT ![a] = @ \ {j}]
    BY DEF StartJob
  <1>3. /\ \A b \in Agents \ {a} : UNCHANGED <<pc[b], cur[b], todo[b]>>
        /\ \/ pc'[a] = "started" /\ cur'[a] = j
           \/ cur'[a] = NoJob /\ pc'[a] = IF todo'[a] = {} THEN "idle" ELSE "ready"
    <2>1. CASE IsJobCompleted(a, j)
      BY <1>1, <2>1 DEF StartJob, AfterJob, TypeOK
    <2>2. CASE ~IsJobCompleted(a, j)
      BY <2>2 DEF StartJob, TypeOK
    <2> QED BY <2>1, <2>2
  <1>4. HandedJobs' /\ StatusIsReal' /\ ReportsAreReal'
    BY <1>2 DEF HandedJobs, StatusIsReal, ReportsAreReal
  <1>5. AnswersAreAwaited'
    BY <1>1, <1>2, <1>3, AwaitingOthers
  <1>6. HeldJobs'
    <2>1. \A n \in net' : n.type = "claimed" =>
             \A k \in n.jobs : holder'[k] = n.agent /\ runs'[k] = 0
      BY <1>2 DEF HeldJobs
    <2>2. ASSUME NEW b \in Agents, NEW k \in todo'[b]
          PROVE  /\ pc'[b] \in {"ready"} \cup Working
                 /\ holder'[k] = b /\ runs'[k] = 0 /\ cur'[b] # k
      <3>1. CASE b = a
        <4>1. k \in todo[a] /\ k # j /\ k \in Jobs
          BY <1>2, <2>2, <3>1 DEF TypeOK
        <4> QED BY <1>2, <1>3, <2>2, <3>1, <4>1, JobProtocolAssumption DEF HeldJobs
      <3>2. CASE b # a
        BY <1>2, <1>3, <2>2, <3>2 DEF HeldJobs
      <3> QED BY <3>1, <3>2
    <2> QED BY <2>1, <2>2 DEF HeldJobs
  <1>7. ExecutedJob'
    BY <1>1, <1>2, <1>3 DEF ExecutedJob
  <1> QED BY <1>4, <1>5, <1>6, <1>7

(* The steps of ExecuteJob that report or save keep it. *)
LEMMA ExecuteStep ==
    ASSUME TypeOK, HoldInv, NEW a \in Agents,
           \/ ReportRunning(a) \/ ReportProgress(a) \/ RecordFinish(a)
           \/ ReportSucceeded(a)
    PROVE  HoldInv'
  <1> USE DEF HoldInv, Working, BeforeRun, AfterRun
  <1>1. /\ UNCHANGED <<status, result, issued, holder, runs, todo>>
        /\ \A b \in Agents \ {a} : UNCHANGED <<pc[b], cur[b]>>
    BY DEF ReportRunning, ReportProgress, RecordFinish, ReportSucceeded,
           ReportStep, TypeOK
  <1>2. \/ pc[a] = "started" /\ pc'[a] = "running" /\ cur'[a] = cur[a]
        \/ pc[a] = "running" /\ pc'[a] = "progress" /\ cur'[a] = cur[a]
        \/ pc[a] = "ran" /\ pc'[a] = "finished" /\ cur'[a] = cur[a]
        \/ /\ pc[a] = "finished" /\ cur'[a] = NoJob
           /\ pc'[a] = IF todo[a] = {} THEN "idle" ELSE "ready"
    BY DEF ReportRunning, ReportProgress, RecordFinish, ReportSucceeded,
           ReportStep, TypeOK
  <1>3. ASSUME NEW m \in net', m \notin net
        PROVE  /\ m.type = "status" /\ m.job = cur[a]
               /\ m.status = "succeeded" => pc[a] = "finished"
    BY <1>3 DEF ReportRunning, ReportProgress, RecordFinish, ReportSucceeded,
                ReportStep, Report
  <1>5. \A m \in net' : m.type # "status" => m \in net
    BY <1>3
  <1>6. HandedJobs' /\ StatusIsReal'
    BY <1>1 DEF HandedJobs, StatusIsReal
  <1>7. /\ cur[a] \in Jobs /\ holder[cur[a]] = a /\ a # NoAgent
        /\ pc[a] = "finished" => runs[cur[a]] = 1
    BY <1>2, JobProtocolAssumption DEF ExecutedJob, TypeOK
  <1>8. ReportsAreReal'
    BY <1>1, <1>3, <1>7 DEF ReportsAreReal
  <1>9. AnswersAreAwaited'
    BY <1>1, <1>2, <1>5, AwaitingOthers
  <1>10. HeldJobs'
    <2>1. \A m \in net' : m.type = "claimed" =>
             \A j \in m.jobs : holder'[j] = m.agent /\ runs'[j] = 0
      BY <1>1, <1>5 DEF HeldJobs
    <2>2. ASSUME NEW b \in Agents, NEW j \in todo'[b]
          PROVE  /\ pc'[b] \in {"ready"} \cup Working
                 /\ holder'[j] = b /\ runs'[j] = 0 /\ cur'[b] # j
      <3>1. j \in Jobs /\ j # NoJob
        BY <1>1, JobProtocolAssumption DEF TypeOK
      <3>2. CASE b = a
        BY <1>1, <1>2, <3>1, <3>2 DEF HeldJobs
      <3>3. CASE b # a
        BY <1>1, <3>3 DEF HeldJobs
      <3> QED BY <3>2, <3>3
    <2> QED BY <2>1, <2>2 DEF HeldJobs
  <1>11. ExecutedJob'
    BY <1>1, <1>2 DEF ExecutedJob
  <1> QED BY <1>6, <1>8, <1>9, <1>10, <1>11

(* Running the action: the job is the agent's alone and was not run. *)
LEMMA RunStep ==
    ASSUME TypeOK, HoldInv, NEW a \in Agents, RunAction(a)
    PROVE  HoldInv'
  <1> USE DEF HoldInv, Working, BeforeRun, AfterRun
  <1>1. /\ cur[a] \in Jobs /\ holder[cur[a]] = a /\ runs[cur[a]] = 0
        /\ pc[a] = "progress" /\ a # NoAgent
    BY JobProtocolAssumption DEF RunAction, ExecutedJob, TypeOK
  <1>2. /\ UNCHANGED <<status, result, issued, holder, todo, cur, net>>
        /\ \A b \in Agents \ {a} : pc'[b] = pc[b]
        /\ pc'[a] = "ran"
        /\ runs'[cur[a]] = 1
        /\ \A j \in Jobs \ {cur[a]} : runs'[j] = runs[j]
    BY <1>1 DEF RunAction, TypeOK
  <1>3. HandedJobs' /\ StatusIsReal'
    BY <1>1, <1>2 DEF HandedJobs, StatusIsReal
  <1>4. ReportsAreReal'
    BY <1>1, <1>2, InFlight DEF ReportsAreReal
  <1>5. AnswersAreAwaited'
    BY <1>1, <1>2, AwaitingOthers
  <1>6. HeldJobs'
    <2>1. ASSUME NEW m \in net, m.type = "claimed", NEW j \in m.jobs
          PROVE  j \in Jobs /\ j # cur[a]
      <3>1. j \in Jobs
        BY <2>1, InFlight
      <3>2. pc[m.agent] = "claiming" /\ holder[j] = m.agent
        BY <2>1 DEF HeldJobs, AnswersAreAwaited
      <3> QED BY <1>1, <3>1, <3>2
    <2>2. ASSUME NEW b \in Agents, NEW j \in todo[b]
          PROVE  j \in Jobs /\ j # cur[a]
      BY <1>1, <2>2 DEF HeldJobs, TypeOK
    <2> QED BY <1>1, <1>2, <2>1, <2>2 DEF HeldJobs
  <1>7. ExecutedJob'
    <2>1. ASSUME NEW b \in Agents \ {a}, pc[b] \in Working
          PROVE  cur[b] \in Jobs \ {cur[a]}
      BY <1>1, <2>1 DEF ExecutedJob, TypeOK
    <2> QED BY <1>1, <1>2, <2>1 DEF ExecutedJob
  <1> QED BY <1>3, <1>4, <1>5, <1>6, <1>7

(* The inductive invariant is one. *)
LEMMA HoldStep ==
    ASSUME TypeOK, HoldInv, [Next]_vars
    PROVE  HoldInv'
  <1>1. ASSUME NEW a \in Agents, AgentStep(a)
        PROVE  HoldInv'
    BY <1>1, ClaimingStep, StartStep, ExecuteStep, RunStep DEF AgentStep
  <1>2. ASSUME NEW m \in net, MessageStep(m)
        PROVE  HoldInv'
    BY <1>2, ClaimJobsStep, ReceiveStep, CentralStep DEF MessageStep
  <1> QED BY <1>1, <1>2, CentralStep DEF Next

LEMMA HoldInit == Init => HoldInv
  BY JobProtocolAssumption
     DEF Init, HoldInv, AnswersAreAwaited, HeldJobs, ExecutedJob, HandedJobs,
         ReportsAreReal, StatusIsReal, Working, BeforeRun, AfterRun

(* What HoldInv says of every agent's hands. *)
THEOREM Holding == Spec => []HoldInv
  <1>1. TypeOK /\ HoldInv /\ [Next]_vars => HoldInv'
    BY HoldStep
  <1> QED BY <1>1, HoldInit, TypeCorrect, PTL DEF Spec

(* Doc 07, "Mesmo job nao executa duas vezes": for any number of agents on a
   node, however messages are delayed or lost, however often agents crash,
   lose their journal, or central restarts. *)
THEOREM RunsAtMostOnce == Spec => []AtMostOnce
  <1>1. HoldInv => AtMostOnce
    BY DEF HoldInv, HandedJobs, AtMostOnce
  <1> QED BY <1>1, Holding, PTL

(* Central never shows more than what happened. *)
THEOREM CentralShowsReality == Spec => []StatusIsReal
  <1>1. HoldInv => StatusIsReal
    BY DEF HoldInv
  <1> QED BY <1>1, Holding, PTL

(* One agent at a time holds a job, and it is one of the job's node and
   tenant: the three places a job can be in all imply that central handed it
   to that agent. *)
THEOREM OneHolder == Spec => []ExclusiveHold
  <1>1. ASSUME TypeOK, HoldInv, NEW a \in Agents, NEW j \in Jobs, Holds(a, j)
        PROVE  holder[j] = a
    <2>1. CASE \E m \in net : m.type = "claimed" /\ m.agent = a /\ j \in m.jobs
      BY <1>1, <2>1 DEF HoldInv, HeldJobs
    <2>2. CASE j \in todo[a]
      BY <1>1, <2>2 DEF HoldInv, HeldJobs
    <2>3. CASE cur[a] = j
      BY <1>1, <2>3, JobProtocolAssumption DEF HoldInv, ExecutedJob
    <2> QED BY <1>1, <2>1, <2>2, <2>3 DEF Holds
  <1>2. TypeOK /\ HoldInv => ExclusiveHold
    BY <1>1, JobProtocolAssumption DEF ExclusiveHold, HoldInv, HandedJobs
  <1> QED BY <1>2, TypeCorrect, Holding, PTL

(* How a step changes the history: one job is created, central hands queued
   jobs to one agent, or an agent runs its job for the first time. *)
LEMMA HistoryStep ==
    ASSUME TypeOK, HoldInv, [Next]_vars
    PROVE  \/ UNCHANGED <<issued, holder, runs>>
           \/ \E j \in Jobs \ issued :
                 issued' = issued \cup {j} /\ UNCHANGED <<holder, runs>>
           \/ \E a \in Agents :
                 /\ holder' = [j \in Jobs |-> IF j \in JobsTaken(a)
                                              THEN a ELSE holder[j]]
                 /\ UNCHANGED <<issued, runs>>
           \/ \E a \in Agents :
                 /\ cur[a] \in Jobs /\ holder[cur[a]] = a /\ runs[cur[a]] = 0
                 /\ runs' = [runs EXCEPT ![cur[a]] = 1]
                 /\ UNCHANGED <<issued, holder>>
  <1>1. ASSUME NEW j \in Jobs, NEW ttl \in TTLs, CreatePendingJob(j, ttl)
        PROVE  j \in Jobs \ issued /\ issued' = issued \cup {j}
               /\ UNCHANGED <<holder, runs>>
    BY <1>1 DEF CreatePendingJob
  <1>2. ASSUME NEW m \in net, HandleClaimJobs(m)
        PROVE  /\ m.agent \in Agents
               /\ holder' = [j \in Jobs |-> IF j \in JobsTaken(m.agent)
                                            THEN m.agent ELSE holder[j]]
               /\ UNCHANGED <<issued, runs>>
    BY <1>2, InFlight DEF HandleClaimJobs
  <1>3. ASSUME NEW a \in Agents, RunAction(a)
        PROVE  /\ cur[a] \in Jobs /\ holder[cur[a]] = a /\ runs[cur[a]] = 0
               /\ runs' = [runs EXCEPT ![cur[a]] = 1]
               /\ UNCHANGED <<issued, holder>>
    <2>1. pc[a] \in BeforeRun /\ pc[a] \in Working
      BY <1>3 DEF RunAction, BeforeRun, Working
    <2>2. cur[a] \in Jobs /\ holder[cur[a]] = a /\ runs[cur[a]] = 0
      BY <2>1 DEF HoldInv, ExecutedJob, TypeOK
    <2> QED BY <1>3, <2>2 DEF RunAction, TypeOK
  <1>4. ASSUME NEW a \in Agents, AgentStep(a), ~RunAction(a)
        PROVE  UNCHANGED <<issued, holder, runs>>
    BY <1>4 DEF AgentStep, PollClaim, ClaimFails, StartJob, ReportRunning,
         ReportProgress, ReportStep, RecordFinish, ReportSucceeded, Crash, Restart
  <1>5. ASSUME NEW m \in net, HandleJobStatusUpdate(m) \/ ReceiveClaimed(m)
        PROVE  UNCHANGED <<issued, holder, runs>>
    BY <1>5 DEF HandleJobStatusUpdate, ReceiveClaimed
  <1>6. ASSUME (\E a \in Agents : Revoke(a)) \/ CentralRestart \/ Tick \/ UNCHANGED vars
        PROVE  UNCHANGED <<issued, holder, runs>>
    BY <1>6 DEF Revoke, CentralRestart, Tick, vars
  <1> QED BY <1>1, <1>2, <1>3, <1>4, <1>5, <1>6 DEF Next, MessageStep

(* A job that expired before anybody got it is never run: only queued jobs
   are handed out, and only handed jobs are run. *)
THEOREM ExpiredStaysUnrun == Spec => ExpiredUnclaimedNeverRuns
  <1>1. ASSUME TypeOK, HoldInv, [Next]_vars, NEW j \in Jobs,
               status[j] = "expired", holder[j] = NoAgent
        PROVE  holder'[j] = NoAgent /\ runs'[j] = 0
    <2>1. runs[j] = 0
      BY <1>1 DEF HoldInv, HandedJobs
    <2>2. \A a \in Agents : j \notin JobsTaken(a) /\ a # NoAgent
      BY <1>1, TakenJobs, JobProtocolAssumption
    <2>3. /\ holder \in [Jobs -> Agents \cup {NoAgent}]
          /\ runs \in [Jobs -> Nat]
      BY <1>1 DEF TypeOK
    <2> QED BY <1>1, <2>1, <2>2, <2>3, HistoryStep
  <1> DEFINE A == \A j \in Jobs : status[j] = "expired" /\ holder[j] = NoAgent =>
                                     holder'[j] = NoAgent /\ runs'[j] = 0
  <1>2. TypeOK /\ HoldInv /\ [Next]_vars => [A]_vars
    BY <1>1
  <1>3. [][A]_vars => ExpiredUnclaimedNeverRuns
    BY DEF ExpiredUnclaimedNeverRuns
  <1> HIDE DEF A
  <1> QED BY <1>2, <1>3, TypeCorrect, Holding, PTL DEF Spec

(* JobProtocol implements JobOnce: every step creates a job, hands queued
   jobs over, runs a held job for the first time, or stutters. *)
THEOREM Refinement == Spec => ImplementsJobOnce
  <1>1. Init => Once!Init
    BY DEF Init, Once!Init
  <1>2. ASSUME TypeOK, HoldInv, [Next]_vars
        PROVE  [Once!Next]_(Once!vars)
    <2>1. ASSUME NEW j \in Jobs \ issued, issued' = issued \cup {j},
                 UNCHANGED <<holder, runs>>
          PROVE  Once!Next
      BY <2>1 DEF Once!Next, Once!Create
    <2>2. ASSUME NEW a \in Agents, UNCHANGED <<issued, runs>>,
                 holder' = [j \in Jobs |-> IF j \in JobsTaken(a)
                                          THEN a ELSE holder[j]]
          PROVE  Once!Next
      <3>1. \A j \in JobsTaken(a) :
               /\ j \in Jobs /\ j \in issued /\ holder[j] = NoAgent
               /\ Once!MayHold(a, j)
        BY <1>2, TakenJobs DEF HoldInv, HandedJobs, Once!MayHold
      <3>2. Once!Hand(a, JobsTaken(a))
        BY <2>2, <3>1 DEF Once!Hand
      <3>3. JobsTaken(a) \in SUBSET Jobs
        BY <3>1
      <3> QED BY <3>2, <3>3 DEF Once!Next
    <2>3. ASSUME NEW a \in Agents, cur[a] \in Jobs, holder[cur[a]] = a,
                 runs[cur[a]] = 0, runs' = [runs EXCEPT ![cur[a]] = 1],
                 UNCHANGED <<issued, holder>>
          PROVE  Once!Next
      BY <2>3, JobProtocolAssumption DEF Once!Next, Once!Run
    <2>4. CASE UNCHANGED <<issued, holder, runs>>
      BY <2>4 DEF Once!vars
    <2> QED BY <1>2, <2>1, <2>2, <2>3, <2>4, HistoryStep
  <1> QED BY <1>1, <1>2, TypeCorrect, Holding, PTL
          DEF Spec, ImplementsJobOnce, Once!Spec
=============================================================================
