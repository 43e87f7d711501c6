----------------------------- MODULE Enrollment -----------------------------
(* Enrollment of agents: tokens of one use, identities, and the file on the
   host that says which identity it has.

   The installer of a host posts the token and waits for 15 seconds; central
   consumes the token, registers an identity and answers; the installer writes
   the identity file, and the daemon that is started later reads it. Tokens and
   identities of central are in memory. Requests and answers may be late, and
   an installer may die, or be run again with the same token.               *)
EXTENDS Integers, FiniteSets, NoRecord

CONSTANTS
    Hosts, Tokens, Identities, Nodes,
    MaxRequests         \* bound: requests and answers on their way

Token == [node : Nodes, used : BOOLEAN, expired : BOOLEAN]

Agent == [node : Nodes, token : Tokens, status : {"enrolled", "revoked"}]

ASSUME EnrollAssumption ==
    /\ {"idle", "waiting", None, Gone} \cap Identities = {}
    /\ Unused \notin Token \cup Agent /\ Gone \notin Token \cup Agent
    /\ {Unused, Gone} \cap Hosts = {}

VARIABLES
    tokens,     \* enrollmentTokens: [node, used, expired]; None: not in the map
    agents,     \* registeredAgents: [node, token, status]; Unused, or Gone
    installer,  \* of each host: "idle", "waiting", or the identity it was given
    identity,   \* the file of each host: None, Gone if torn, or an identity
    posts,      \* requests on their way: [host, token, live]
    given,      \* answers on their way: [host, id]
    restarted   \* history: central was restarted

enrollVars == <<tokens, agents, installer, identity, posts, given, restarted>>

-----------------------------------------------------------------------------
(* Central *)

CreateEnrollmentToken(k, n) ==
    /\ tokens[k] = Unused
    /\ tokens' = [tokens EXCEPT ![k] = [node |-> n, used |-> FALSE, expired |-> FALSE]]
    /\ UNCHANGED <<agents, installer, identity, posts, given, restarted>>

TokenExpires(k) ==
    /\ tokens[k] \notin {Unused, Gone} /\ ~ tokens[k].expired
    /\ tokens' = [tokens EXCEPT ![k].expired = TRUE]
    /\ UNCHANGED <<agents, installer, identity, posts, given, restarted>>

\* mutant: a token is consumed only when its installer still waits
ConsumedIfLive(t, live) == [t EXCEPT !.used = live]

Consumed(t, live) == [t EXCEPT !.used = TRUE]

Usable(k) == tokens[k] \notin {Unused, Gone} /\ ~ tokens[k].used /\ ~ tokens[k].expired

\* The node is the token's, whatever host asks; a refusal ends the installer
HandleEnrollment(r, id) ==
    /\ r \in posts
    /\ posts' = posts \ {r}
    /\ IF Usable(r.token)
       THEN /\ agents[id] = Unused
            /\ tokens' = [tokens EXCEPT ![r.token] = Consumed(@, r.live)]
            /\ agents' = [agents EXCEPT ![id] =
                 [node |-> tokens[r.token].node, token |-> r.token, status |-> "enrolled"]]
            /\ given' = IF r.live THEN given \cup {[host |-> r.host, id |-> id]} ELSE given
            /\ UNCHANGED installer
       ELSE /\ installer' = IF r.live THEN [installer EXCEPT ![r.host] = "idle"]
                            ELSE installer
            /\ UNCHANGED <<tokens, agents, given>>
    /\ UNCHANGED <<identity, restarted>>

\* By an operator; nothing in the code sets it but a test
Revoke(id) ==
    /\ agents[id] \notin {Unused, Gone} /\ agents[id].status = "enrolled"
    /\ agents' = [agents EXCEPT ![id].status = "revoked"]
    /\ UNCHANGED <<tokens, installer, identity, posts, given, restarted>>

\* Both maps are in memory; ids are random, none comes back
CentralForgets ==
    /\ ~ restarted
    /\ restarted' = TRUE
    /\ tokens' = [k \in Tokens |-> IF tokens[k] = Unused THEN Unused ELSE Gone]
    /\ agents' = [i \in Identities |-> IF agents[i] = Unused THEN Unused ELSE Gone]
    /\ UNCHANGED <<installer, identity, posts, given>>

-----------------------------------------------------------------------------
(* The installer of a host *)

PerformEnrollment(h, k) ==
    /\ installer[h] = "idle" /\ tokens[k] # Unused
    /\ Cardinality(posts \cup given) < MaxRequests
    /\ installer' = [installer EXCEPT ![h] = "waiting"]
    /\ posts' = posts \cup {[host |-> h, token |-> k, live |-> TRUE]}
    /\ UNCHANGED <<tokens, agents, identity, given, restarted>>

EnrollmentAnswered(a) ==
    /\ a \in given
    /\ given' = given \ {a}
    /\ installer' = [installer EXCEPT ![a.host] = a.id]
    /\ UNCHANGED <<tokens, agents, identity, posts, restarted>>

\* The file is written in place, with the rights of root
SaveIdentity(h) ==
    /\ installer[h] \in Identities
    /\ identity' = [identity EXCEPT ![h] = installer[h]]
    /\ installer' = [installer EXCEPT ![h] = "idle"]
    /\ UNCHANGED <<tokens, agents, posts, given, restarted>>

\* By a timeout, a lost call or a crash, also in the middle of the write: what
\* is still on its way from this host then has nobody to answer to.
InstallerDies(h) ==
    /\ installer[h] # "idle"
    /\ identity' \in IF installer[h] \in Identities
                     THEN {identity, [identity EXCEPT ![h] = Gone]} ELSE {identity}
    /\ installer' = [installer EXCEPT ![h] = "idle"]
    /\ posts' = {[r EXCEPT !.live = r.live /\ r.host # h] : r \in posts}
    /\ given' = {a \in given : a.host # h}
    /\ UNCHANGED <<tokens, agents, restarted>>

PostLost(r) ==
    /\ r \in posts /\ ~ r.live
    /\ posts' = posts \ {r}
    /\ UNCHANGED <<tokens, agents, installer, identity, given, restarted>>

-----------------------------------------------------------------------------
EnrollInit ==
    /\ tokens = [k \in Tokens |-> Unused]
    /\ agents = [i \in Identities |-> Unused]
    /\ installer = [h \in Hosts |-> "idle"]
    /\ identity = [h \in Hosts |-> None]
    /\ posts = {} /\ given = {}
    /\ restarted = FALSE

EnrollNext ==
    \/ \E k \in Tokens :
         \/ \E n \in Nodes : CreateEnrollmentToken(k, n)
         \/ TokenExpires(k)
         \/ \E h \in Hosts : PerformEnrollment(h, k)
    \/ \E r \in posts : PostLost(r) \/ \E id \in Identities : HandleEnrollment(r, id)
    \/ \E id \in Identities : Revoke(id)
    \/ CentralForgets
    \/ \E a \in given : EnrollmentAnswered(a)
    \/ \E h \in Hosts : SaveIdentity(h) \/ InstallerDies(h)

EnrollTypeOK ==
    /\ \A k \in Tokens : tokens[k] \in {Unused, Gone} \cup Token
    /\ \A i \in Identities : agents[i] \in {Unused, Gone} \cup Agent
    /\ installer \in [Hosts -> {"idle", "waiting"} \cup Identities]
    /\ identity \in [Hosts -> {None, Gone} \cup Identities]
    /\ posts \subseteq [host : Hosts, token : Tokens, live : BOOLEAN]
    /\ given \subseteq [host : Hosts, id : Identities]

\* A token enrolls one identity, and an identity is on one host, however often
\* installers give up, come late, are run again or use one token on two hosts.
OneHostPerToken ==
    /\ \A i, j \in Identities :
         (/\ i # j
          /\ agents[i] \notin {Unused, Gone} /\ agents[j] \notin {Unused, Gone})
             => agents[i].token # agents[j].token
    /\ \A g, h \in Hosts :
         (g # h /\ identity[g] \in Identities) => identity[g] # identity[h]

-----------------------------------------------------------------------------
(* What this promises: see EnrollOnce. *)

\* An identity is with a host on its way there, in the installer or in the file
Holds(h, i) == installer[h] = i \/ identity[h] = i \/ [host |-> h, id |-> i] \in given

Spent == {k \in Tokens : tokens[k] # Unused /\ ~ Usable(k)}

Whereabouts ==
    [i \in Identities |->
        CASE agents[i] = Unused -> Unused
          [] agents[i] # Unused /\ (\E h \in Hosts : Holds(h, i)) -> CHOOSE h \in Hosts : Holds(h, i)
          [] OTHER -> Gone]

\* Late requests and answers, installers that die and are run again, torn files
\* and a restart of central come to no more than identities that are lost.
Custody == INSTANCE EnrollOnce WITH spent <- Spent, place <- Whereabouts
ImplementsEnrollOnce == Custody!Spec
=============================================================================
