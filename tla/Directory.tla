------------------------------ MODULE Directory ------------------------------
(* The lists of tenants and users: one at the server, one in each browser.

   A browser keeps its list in localStorage, changes it at once and tells the
   server without looking at the result. When a page is mounted it asks for
   the server's list, adds what it lacks, and posts again what the server
   lacks: another browser's delete is undone that way, and a page mounted
   while a post is on its way has the record stored twice.

   Calls of a page travel independently: each may be handled late, in any
   order, or be lost. Only the presence of a record is kept, not its fields;
   the server's list may hold a record several times.                       *)
EXTENDS Integers, NoRecord

CONSTANTS
    Browsers, Records,
    Author,         \* [Records -> Browsers]: where a record is created
    MaxSame         \* bound of the model: equal calls on their way, copies stored

ASSUME DirectoryAssumption ==
    Author \in [Records -> Browsers] /\ MaxSame \in Nat \ {0}

VARIABLES
    list,       \* which list it is: only users are deleted, or taken from answers
    stored,     \* copies in store.users or store.tenants
    cached,     \* the list of each browser
    calls,      \* calls on their way: how many of each
    asking,     \* browsers whose page has not got the list yet
    created, removed        \* history: by some browser

directoryVars == <<list, stored, cached, calls, asking, created, removed>>

Calls == [kind : {"add", "repost", "delete", "answer"}, of : Browsers, rec : Records]

Call(kind, b, r) == [kind |-> kind, of |-> b, rec |-> r]

Lists == [of : Browsers, rows : SUBSET Records]

Sent(c) == [calls EXCEPT ![c] = @ + 1]

StoredRows == {r \in Records : stored[r] > 0}

-----------------------------------------------------------------------------
(* The page *)

\* handleAddUser, handleAddTenant
AddRecord(r) ==
    LET b == Author[r]
    IN /\ r \notin created
       /\ created' = created \cup {r}
       /\ cached' = [cached EXCEPT ![b] = @ \cup {r}]
       /\ calls' = Sent(Call("add", b, r))
       /\ UNCHANGED <<list, stored, asking, removed>>

HandleDeleteUser(b, r) ==
    /\ list = "users"
    /\ r \in cached[b]
    /\ calls[Call("delete", b, r)] < MaxSame
    /\ removed' = removed \cup {r}
    /\ cached' = [cached EXCEPT ![b] = @ \ {r}]
    /\ calls' = Sent(Call("delete", b, r))
    /\ UNCHANGED <<list, stored, asking, created>>

\* A new page knows the callbacks of the old one no more
Mount(b) ==
    /\ asking' = asking \cup {b}
    /\ calls' = [c \in Calls |-> IF c.of = b /\ c.kind = "answer" THEN 0 ELSE calls[c]]
    /\ UNCHANGED <<list, stored, cached, created, removed>>

\* mutant: the list of the server takes the place of the local one
MergeRemote(local, remote) == remote

\* What remains of both, in the browser
MergeLists(local, remote) == local \cup remote

ToRepost(local, remote) == local \ remote

\* An empty list is taken for a failure. The answer is handled when it is
\* made: what happens in between would only shift the posts.
ReceiveList(b) ==
    /\ b \in asking
    /\ asking' = asking \ {b}
    /\ IF StoredRows = {} THEN UNCHANGED <<cached, calls>>
       ELSE LET again == ToRepost(cached[b], StoredRows)
            IN /\ \A r \in again : calls[Call("repost", b, r)] < MaxSame
               /\ cached' = [cached EXCEPT ![b] = MergeLists(@, StoredRows)]
               /\ calls' = [c \in Calls |->
                    IF c.of = b /\ c.kind = "repost" /\ c.rec \in again
                    THEN calls[c] + 1 ELSE calls[c]]
    /\ UNCHANGED <<list, stored, created, removed>>

\* The answer to a new user takes the place of the row, or brings it back
ReceiveAnswer(c) ==
    /\ c.kind = "answer" /\ calls[c] > 0
    /\ calls' = [calls EXCEPT ![c] = @ - 1]
    /\ cached' = [cached EXCEPT ![c.of] = @ \cup {c.rec}]
    /\ UNCHANGED <<list, stored, asking, created, removed>>

-----------------------------------------------------------------------------
(* The server *)

\* POST: no look at what is stored
StoreRecord(c) ==
    /\ c.kind \in {"add", "repost"} /\ calls[c] > 0
    /\ stored[c.rec] < MaxSame
    /\ stored' = [stored EXCEPT ![c.rec] = @ + 1]
    /\ calls' =
         LET handled == [calls EXCEPT ![c] = @ - 1]
         IN IF list = "users" /\ c.kind = "add"
            THEN [handled EXCEPT ![Call("answer", c.of, c.rec)] = @ + 1]
            ELSE handled
    /\ UNCHANGED <<list, cached, asking, created, removed>>

\* DELETE takes the first copy away; none is not found
RemoveRecord(c) ==
    /\ c.kind = "delete" /\ calls[c] > 0
    /\ stored' = [stored EXCEPT ![c.rec] = IF @ > 0 THEN @ - 1 ELSE 0]
    /\ calls' = [calls EXCEPT ![c] = @ - 1]
    /\ UNCHANGED <<list, cached, asking, created, removed>>

LoseCall(c) ==
    /\ calls[c] > 0
    /\ calls' = [calls EXCEPT ![c] = @ - 1]
    /\ UNCHANGED <<list, stored, cached, asking, created, removed>>

LoseList(b) ==
    /\ b \in asking
    /\ asking' = asking \ {b}
    /\ UNCHANGED <<list, stored, cached, calls, created, removed>>

-----------------------------------------------------------------------------
DirectoryInit ==
    /\ list \in {"users", "tenants"}
    /\ stored = [r \in Records |-> 0]
    /\ cached = [b \in Browsers |-> {}]
    /\ calls = [c \in Calls |-> 0]
    /\ asking = Browsers
    /\ created = {} /\ removed = {}

DirectoryNext ==
    \/ \E r \in Records : AddRecord(r)
    \/ \E b \in Browsers :
         \/ Mount(b) \/ ReceiveList(b) \/ LoseList(b)
         \/ \E r \in Records : HandleDeleteUser(b, r)
    \/ \E c \in Calls : ReceiveAnswer(c) \/ StoreRecord(c) \/ RemoveRecord(c) \/ LoseCall(c)

DirectoryTypeOK ==
    /\ stored \in [Records -> 0..MaxSame]
    /\ cached \in [Browsers -> SUBSET Records]
    /\ calls \in [Calls -> 0..MaxSame]
    /\ asking \subseteq Browsers
    /\ created \subseteq Records /\ removed \subseteq Records

\* "Safe merger preventing data loss": a tenant or a user that was created and
\* that nobody deleted stays in the list of the browser it was created in,
\* whatever call was lost and whatever list was loaded.
NothingCreatedIsLost ==
    \A r \in created \ removed : r \in cached[Author[r]]
=============================================================================
