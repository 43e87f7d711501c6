----------------------------- MODULE Heartbeat -----------------------------
(* The heartbeats of the agent of a node and what central makes of them. One
   tick of the clock is ten seconds, the timeout of a heartbeat: each is sent,
   and arrives, is refused or is lost within a tick.                        *)
EXTENDS Integers

CONSTANTS
    Interval,           \* 3: DefaultConfig, and what an enrollment answers
    OnlineFor, DegradedFor      \* 9 and 18: seconds / 10 of evaluateNodeStatus

ASSUME HeartbeatAssumption ==
    /\ Interval \in Nat /\ Interval > 1       \* a heartbeat has ended when the next is due
    /\ OnlineFor \in Nat /\ DegradedFor \in Nat

VARIABLES
    daemon,     \* is the agent's daemon running?
    known,      \* what central knows the identity as
    toNext,     \* ticks until the ticker fires
    sent,       \* ticks since the heartbeat that is on its way was sent; -1: none
    age,        \* ticks since lastSeenAt, up to a bound
    missed      \* history: heartbeats in a row that did not count, up to two

beatVars == <<daemon, known, toNext, sent, age, missed>>

OldAge == DegradedFor + 1       \* bound: older makes no difference

\* mutant: a minute, what the settings page calls the offline threshold
StatusByThreshold(a) ==
    IF a =< 6 THEN "online" ELSE IF a =< DegradedFor THEN "degraded" ELSE "offline"

\* A node in maintenance and one that was never seen are not looked at here
EvaluateNodeStatus(a) ==
    IF a =< OnlineFor THEN "online" ELSE IF a =< DegradedFor THEN "degraded" ELSE "offline"

HandleHeartbeat ==
    /\ sent >= 0 /\ known = "enrolled"
    /\ sent' = -1 /\ age' = 0 /\ missed' = 0
    /\ UNCHANGED <<daemon, known, toNext>>

\* Lost, late or refused: the daemon logs a warning and goes on
SendHeartbeatFails ==
    /\ sent >= 0
    /\ sent' = -1 /\ missed' = IF missed < 2 THEN missed + 1 ELSE missed
    /\ UNCHANGED <<daemon, known, toNext, age>>

\* A heartbeat that has been on its way for a tick has timed out
Second ==
    /\ sent =< 0
    /\ age' = IF age < OldAge THEN age + 1 ELSE age
    /\ toNext' = IF daemon /\ toNext > 1 THEN toNext - 1 ELSE Interval
    /\ sent' = IF daemon /\ toNext = 1 THEN 0 ELSE IF sent = 0 THEN 1 ELSE -1
    /\ UNCHANGED <<daemon, known, missed>>

\* The daemon sends one heartbeat at once, then one with each tick of its ticker
StartDaemon ==
    /\ ~ daemon
    /\ daemon' = TRUE /\ toNext' = Interval /\ sent' = 0
    /\ UNCHANGED <<known, age, missed>>

DaemonDies ==
    /\ daemon
    /\ daemon' = FALSE /\ missed' = 2 /\ toNext' = Interval /\ sent' = -1
    /\ UNCHANGED <<known, age>>

\* An operator revokes the identity, or central restarts and knows none
ForgetNode(what) ==
    /\ known = "enrolled"
    /\ known' = what
    /\ UNCHANGED <<daemon, toNext, sent, age, missed>>

BeatInit ==
    /\ daemon = FALSE /\ known = "enrolled" /\ toNext = Interval
    /\ sent = -1 /\ age = 0 /\ missed = 2

BeatNext ==
    \/ HandleHeartbeat \/ SendHeartbeatFails \/ Second
    \/ StartDaemon \/ DaemonDies
    \/ \E what \in {"revoked", "unknown"} : ForgetNode(what)

BeatTypeOK ==
    /\ daemon \in BOOLEAN /\ known \in {"enrolled", "revoked", "unknown"}
    /\ toNext \in 1..Interval /\ sent \in -1..1
    /\ age \in 0..OldAge /\ missed \in 0..2

\* A node whose agent runs and is known is not reported degraded for one
\* heartbeat that was lost or came late: interval and threshold leave room for
\* a lost heartbeat and for the seconds the next one takes. (For two they do
\* not: then the next one would have to arrive at once.)
OneLostBeatIsTolerated == missed =< 1 => EvaluateNodeStatus(age) = "online"
=============================================================================
