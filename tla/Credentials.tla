----------------------------- MODULE Credentials -----------------------------
(* Integrations and network devices, the vault that keeps their credentials,
   and the two files behind them.

   A record refers to a secret of the vault by id. A handler changes the vault,
   which writes its file at once (a copy, then a rename), then the record, and
   writes the store's file last (in place). Both writes swallow their errors,
   and the process may stop between them or in the middle of the second. A
   provider's synchronisation reads a record, waits for the hypervisor, and
   writes into the object it read.

   One tenant: a request of another tenant finds nothing.                   *)
EXTENDS Integers, FiniteSets, NoRecord

CONSTANTS
    Integrations, Routers,      \* ids of records
    SecretIds, Keys, Default,   \* ids of secrets, what is typed, "default_token"
    Urls,                       \* the other fields of an integration
    MaxSyncs                    \* bound of the model: synchronisations that wait

Ids == Integrations \cup Routers

Values == Keys \cup {Default, None}

Record == [secret : SecretIds, url : Urls \cup {None}, synced : {"never", "listed", "made up"}]

ASSUME CredentialsAssumption ==
    /\ Integrations \cap Routers = {}
    /\ Default \notin Keys /\ None \notin Keys \cup {Default}
    /\ {None, Unused, Gone} \cap SecretIds = {}
    /\ {None, Unused, Gone} \cap Record = {} /\ Unused \notin Values
    /\ None \notin [Ids -> {Unused, Gone} \cup Record]

VARIABLES
    vault, records,             \* in memory; records of store.integrations and
                                \* store.networkDevices
    vaultFile, storeFile,       \* on disk; a store that was torn is None
    syncs,                      \* synchronisations that wait: of what, the url
                                \* that was read, whether its object was replaced
    running,
    faulty,                     \* history: a write failed, of either file
    typed                       \* history: what the last answered request of
                                \* each record typed, [secret, url]

credVars == <<vault, records, vaultFile, storeFile, syncs, running, faulty, typed>>

EmptyStore == [i \in Ids |-> Unused]

Existing == {i \in Ids : records[i] \notin {Unused, Gone}}

FreeSecrets == {s \in SecretIds : vault[s] = Unused}

Stored(s, value) == [vault EXCEPT ![s] = value]

\* The value behind a reference, "" when the vault has none
Decrypted(i) == IF records[i].secret \in SecretIds /\ vault[records[i].secret] # Unused
                THEN vault[records[i].secret] ELSE None

-----------------------------------------------------------------------------
(* The end of a handler: both files, or what becomes of them *)

Save(outcome, newVault, newRecords) ==
    /\ vaultFile' = IF outcome = "vault_fails" THEN vaultFile ELSE newVault
    /\ storeFile' = CASE outcome \in {"saved", "vault_fails"} -> newRecords
                      [] outcome \in {"store_torn", "crash_torn"} -> None
                      [] OTHER -> storeFile
    /\ running' = (outcome \notin {"crash_between", "crash_torn"})
    /\ faulty' = (faulty \/ outcome \in {"vault_fails", "store_fails", "store_torn", "crash_torn"})

Outcomes == {"saved", "vault_fails", "store_fails", "store_torn", "crash_between", "crash_torn"}

\* The change as one handler: what it typed counts when it was answered
Commit(newVault, newRecords, newTyped) ==
    /\ vault' = newVault /\ records' = newRecords
    /\ \E outcome \in Outcomes : Save(outcome, newVault, newRecords)
    /\ typed' = IF running' THEN newTyped ELSE typed

-----------------------------------------------------------------------------
(* Integrations *)

\* The form of a new integration asks for a credential; the page does not
\* send it
CreateIntegration(i, key, url, s) ==
    /\ running /\ records[i] = Unused /\ s \in FreeSecrets
    /\ Commit(Stored(s, key),
              [records EXCEPT ![i] = [secret |-> s, url |-> url, synced |-> "never"]],
              [typed EXCEPT ![i] = [secret |-> key, url |-> url]])
    /\ UNCHANGED syncs

\* A new object takes the place of the old one. A credential left blank keeps
\* the reference; the secret it replaces stays in the vault.
UpdateIntegration(i, key, url, s) ==
    /\ running /\ i \in Existing /\ s \in FreeSecrets
    /\ LET secret == IF key = None THEN records[i].secret ELSE s
           text == IF key = None THEN typed[i].secret ELSE key
       IN Commit(IF key = None THEN vault ELSE Stored(s, key),
                 [records EXCEPT ![i] = [@ EXCEPT !.secret = secret, !.url = url]],
                 [typed EXCEPT ![i] = [secret |-> text, url |-> url]])
    /\ syncs' = {y \in syncs : y.of # i} \cup
                {[y EXCEPT !.detached = TRUE] : y \in {z \in syncs : z.of = i}}

StartSync(i) ==
    /\ running /\ i \in Existing /\ Cardinality(syncs) < MaxSyncs
    /\ syncs' = syncs \cup {[of |-> i, url |-> records[i].url, detached |-> FALSE]}
    /\ UNCHANGED <<vault, records, vaultFile, storeFile, running, faulty, typed>>

\* What a provider says there is: without an answer it makes up a node, and a
\* Proxmox one five virtual machines
Discovered(reached) == IF reached THEN "listed" ELSE "made up"

\* mutant: what was read is written back as a whole
SyncedWhole(y, counts) == [records EXCEPT ![y.of].url = y.url, ![y.of].synced = counts]

\* The counts are lost when the object is not the one in the store any more
Synced(y, counts) == IF y.detached THEN records ELSE [records EXCEPT ![y.of].synced = counts]

FinishSync(y) ==
    /\ running /\ y \in syncs
    /\ \E reached \in BOOLEAN : Commit(vault, Synced(y, Discovered(reached)), typed)
    /\ syncs' = syncs \ {y}

-----------------------------------------------------------------------------
(* Routers *)

CreateDevice(d, key, s) ==
    /\ running /\ records[d] = Unused /\ s \in FreeSecrets
    /\ Commit(Stored(s, key),
              [records EXCEPT ![d] = [secret |-> s, url |-> None, synced |-> "never"]],
              [typed EXCEPT ![d] = [secret |-> key, url |-> None]])
    /\ UNCHANGED syncs

FinalPass(d, key) == IF key = None THEN Decrypted(d) ELSE key

\* Every update stores a new secret; the one before stays in the vault
UpdateDevice(d, key, s) ==
    /\ running /\ d \in Existing /\ s \in FreeSecrets
    /\ Commit(Stored(s, FinalPass(d, key)),
              [records EXCEPT ![d].secret = s],
              [typed EXCEPT ![d].secret = IF key = None THEN @ ELSE key])
    /\ UNCHANGED syncs

\* The secret of an update that arrives after the delete is stored all the same
UpdateDeletedDevice(d, key, s) ==
    /\ running /\ records[d] = Gone /\ s \in FreeSecrets
    /\ Commit(Stored(s, key), records, typed)
    /\ UNCHANGED syncs

DeleteDevice(d) ==
    /\ running /\ d \in Existing
    /\ Commit(vault, [records EXCEPT ![d] = Gone], typed)
    /\ UNCHANGED syncs

-----------------------------------------------------------------------------
(* The process *)

Crash ==
    /\ running
    /\ running' = FALSE
    /\ UNCHANGED <<vault, records, vaultFile, storeFile, syncs, faulty, typed>>

\* A file that does not parse is taken for a first start, in which the store
\* has its defaults
LoadStore == IF storeFile = None THEN EmptyStore ELSE storeFile

RestartServer ==
    /\ ~ running
    /\ running' = TRUE
    /\ vault' = vaultFile
    /\ records' = LoadStore
    /\ syncs' = {}
    /\ UNCHANGED <<vaultFile, storeFile, faulty, typed>>

-----------------------------------------------------------------------------
CredInit ==
    /\ vault = [s \in SecretIds |-> Unused] /\ vaultFile = vault
    /\ records = EmptyStore /\ storeFile = records
    /\ syncs = {} /\ running = TRUE /\ faulty = FALSE
    /\ typed = [i \in Ids |-> [secret |-> None, url |-> None]]

CredNext ==
    \/ \E i \in Integrations, url \in Urls, s \in SecretIds :
         \/ \E key \in Keys \cup {Default} : CreateIntegration(i, key, url, s)
         \/ \E key \in Keys \cup {None} : UpdateIntegration(i, key, url, s)
    \/ \E i \in Integrations : StartSync(i)
    \/ \E y \in syncs : FinishSync(y)
    \/ \E d \in Routers, s \in SecretIds :
         \/ \E key \in Keys : CreateDevice(d, key, s)
         \/ \E key \in Keys \cup {None} : UpdateDevice(d, key, s) \/ UpdateDeletedDevice(d, key, s)
    \/ \E d \in Routers : DeleteDevice(d)
    \/ Crash \/ RestartServer

CredTypeOK ==
    /\ vault \in [SecretIds -> Values \cup {Unused}]
    /\ vaultFile \in [SecretIds -> Values \cup {Unused}]
    /\ \A i \in Ids : \/ records[i] \in {Unused, Gone}
                      \/ records[i] \in Record
    /\ running \in BOOLEAN /\ faulty \in BOOLEAN

\* Unless a write failed, what is in effect is what the last answered request
\* typed, and a blank credential keeps the one before ("Manter a senha atual
\* se em branco"): also across a synchronisation that was on its way, a crash
\* between the two writes, and a restart.
LastTypedHolds ==
    (~ faulty /\ running) =>
        \A i \in Existing : Decrypted(i) = typed[i].secret /\ records[i].url = typed[i].url
=============================================================================
