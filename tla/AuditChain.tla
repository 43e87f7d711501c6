----------------------------- MODULE AuditChain -----------------------------
(* The hash chain of audit events, packages/audit. SHA-256 is taken to be
   injective: a hash is the value that was hashed.

   What is hashed when an event is created is the object that was built, with
   the optional fields the caller gave; what is hashed to verify it is rebuilt
   with all six of them, and an absent one is serialised as `undefined`. Only
   events that were created with all six verify.                            *)
EXTENDS Integers, Sequences, NoRecord

CONSTANTS
    Payloads,
    MaxAudit        \* bound of the model on the length of the chain

VARIABLES
    written,        \* history: the events as createAuditEvent returned them
    chain           \* what a reader finds: the same, unless it was changed

auditVars == <<written, chain>>

Genesis == <<>>     \* "0".repeat(64)

\* `full`: the caller gave userId, nodeId, jobId, actionKey, requestId, traceId
Canonical(payload, full) == <<payload, full>>

ComputeEventHash(canonical, previous) == <<canonical, previous>>

CreateAuditEvent(payload, full, previous) ==
    [payload |-> payload, previousHash |-> previous,
     eventHash |-> ComputeEventHash(Canonical(payload, full), previous)]

\* mutant: the payload is left out of the hash that is compared
RecomputedBlind(e) == <<e.eventHash[1], e.previousHash>>

Recomputed(e) == ComputeEventHash(Canonical(e.payload, TRUE), e.previousHash)

\* The first event is believed: a chain may start anywhere
VerifyAuditChain(events) ==
    \A i \in DOMAIN events :
        /\ i > 1 => events[i].previousHash = events[i - 1].eventHash
        /\ Recomputed(events[i]) = events[i].eventHash

LastHash(events) == IF events = <<>> THEN Genesis ELSE events[Len(events)].eventHash

-----------------------------------------------------------------------------
AuditInit == written = <<>> /\ chain = <<>>

\* A caller chains its event to the last one that was written
Write(payload, full) ==
    /\ chain = written /\ Len(written) < MaxAudit
    /\ written' = Append(written, CreateAuditEvent(payload, full, LastHash(written)))
    /\ chain' = written'

\* Damage to the record, as far as the chain is meant to reveal it
Alter(i, payload) ==
    /\ chain' = [chain EXCEPT ![i].payload = payload]
    /\ UNCHANGED written

Drop(i) ==
    /\ chain' = SubSeq(chain, 1, i - 1) \o SubSeq(chain, i + 1, Len(chain))
    /\ UNCHANGED written

Swap(i, j) ==
    /\ chain' = [chain EXCEPT ![i] = chain[j], ![j] = chain[i]]
    /\ UNCHANGED written

AuditNext ==
    \/ \E payload \in Payloads, full \in BOOLEAN : Write(payload, full)
    \/ \E i \in DOMAIN chain :
         \/ \E payload \in Payloads : Alter(i, payload)
         \/ Drop(i)
         \/ \E j \in DOMAIN chain : Swap(i, j)

AuditSpec == AuditInit /\ [][AuditNext]_auditVars

-----------------------------------------------------------------------------
\* What verifies is a stretch of what was written, unchanged and in order:
\* an event in the middle can be neither altered, removed nor moved, though
\* whole events may be missing at the beginning and at the end.
VerifiedIsAsWritten ==
    VerifyAuditChain(chain) =>
        \E first \in 1..(Len(written) + 1) :
            /\ first + Len(chain) - 1 =< Len(written)
            /\ \A i \in DOMAIN chain : chain[i] = written[first + i - 1]

\* What the acceptance test of the audit expects: a chain nobody touched
\* verifies, also if the events were created without the optional fields.
HonestChainVerifies == chain = written => VerifyAuditChain(chain)
=============================================================================
