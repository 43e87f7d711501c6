---------------------------- MODULE FrontEndProofs ----------------------------
(***************************************************************************)
(* Proofs about the parts of the front end, each for any tenants, users,   *)
(* records and browsers: the shell, the lists of tenants and users, the    *)
(* assets behind the page of the source of truth, the page of routers, the *)
(* alert channels, the hypervisors with what is made up for them, the      *)
(* recommendations, the AI console, the settings and the enrollment        *)
(* dialogue. For each, what is proved first is what its screens promise,   *)
(* and then that its variables keep their types.                           *)
(***************************************************************************)
EXTENDS Shell, Directory, InventoryPage, NetworkConsole, AlertChannels, Hypervisors,
        Advisor, Chat, Settings, EnrollAgentModal,
        FiniteSetTheorems, SequenceTheorems, WellFoundedInduction, TLAPS

-----------------------------------------------------------------------------
(* The shell *)

\* A page has its four parts, whatever they are.
ViewOK == DOMAIN view = {"user", "active", "nav", "mode"}

ShellInv == ViewOK /\ OwnTenantOnly

\* The effect puts a page of a user with one tenant on it, if the list has it.
LEMMA EnforcedIsOwn ==
    ASSUME NEW page, DOMAIN page = {"user", "active", "nav", "mode"},
           NEW clients, NEW changed \in {"user", "list"}
    PROVE  LET p == Enforced(page, clients, changed)
           IN /\ DOMAIN p = {"user", "active", "nav", "mode"}
              /\ p.user = page.user /\ p.mode = page.mode
              /\ (p.mode = "app" /\ ~ IsSuperAdmin(p.user) /\ Knows(clients, p.user))
                    => p.active = p.user.tenant
  BY DEF Enforced, IsSuperAdmin

\* A step of the shell keeps the user on their own tenant.
LEMMA ShellStep == ShellInv /\ [ShellNext]_shellVars => ShellInv'
  <1> SUFFICES ASSUME ShellInv, [ShellNext]_shellVars PROVE ShellInv'
    OBVIOUS
  <1> USE DEF ShellInv, ViewOK
  <1>1. CASE ReloadPage
    <2> DEFINE page == [user |-> remembered, active |-> clientList[1], nav |-> "all",
                        mode |-> IF remembered = None THEN "login" ELSE "app"]
    <2>1. view' = Enforced(page, clientList, "user") /\ clientList' = clientList
      BY <1>1 DEF ReloadPage
    <2>2. DOMAIN page = {"user", "active", "nav", "mode"}
      OBVIOUS
    <2> HIDE DEF page
    <2> QED BY <2>1, <2>2, EnforcedIsOwn DEF OwnTenantOnly
  <1>2. ASSUME NEW u \in People, OnLoginSuccess(u) PROVE ShellInv'
    BY <1>2 DEF OnLoginSuccess, OwnTenantOnly
  <1>3. CASE HandleLogout
    BY <1>3 DEF HandleLogout, OwnTenantOnly
  <1>4. CASE LoadTenants
    <2>1. view' = Enforced(view, clientList', "list")
      BY <1>4 DEF LoadTenants
    <2> QED BY <2>1, EnforcedIsOwn DEF OwnTenantOnly
  <1>5. ASSUME NEW c \in Clients, NEW reached \in BOOLEAN, HandleAddTenant(c, reached)
        PROVE  ShellInv'
    <2> DEFINE page == [view EXCEPT !.active = c]
    <2>1. view' = Enforced(page, clientList', "list")
      BY <1>5 DEF HandleAddTenant
    <2>2. DOMAIN page = {"user", "active", "nav", "mode"}
      OBVIOUS
    <2> HIDE DEF page
    <2> QED BY <2>1, <2>2, EnforcedIsOwn DEF OwnTenantOnly
  <1>6. ASSUME NEW c \in Clients, SelectTenant(c) PROVE ShellInv'
    BY <1>6 DEF SelectTenant, OwnTenantOnly
  <1>7. ASSUME NEW nav \in Groups, SetCurrentNav(nav) PROVE ShellInv'
    BY <1>7 DEF SetCurrentNav, OwnTenantOnly
  <1>8. CASE UNCHANGED shellVars
    BY <1>8 DEF shellVars, OwnTenantOnly
  <1> QED BY <1>1, <1>2, <1>3, <1>4, <1>5, <1>6, <1>7, <1>8 DEF ShellNext

\* Whoever logs in, and whenever the list of tenants arrives: a user of one
\* tenant that the page knows works on that tenant (App.jsx, the effect that
\* enforces the isolation).
THEOREM OwnTenant == ShellInit /\ [][ShellNext]_shellVars => []OwnTenantOnly
  <1>1. ShellInit => ShellInv
    BY DEF ShellInit, ShellInv, ViewOK, OwnTenantOnly
  <1>2. ShellInv => OwnTenantOnly
    BY DEF ShellInv
  <1> QED BY <1>1, <1>2, ShellStep, PTL

\* A finite set can be put into a list, and that is what SetToSeq does.
LEMMA ListOfSet ==
    ASSUME NEW S, IsFiniteSet(S)
    PROVE  /\ SetToSeq(S) \in Seq(S) /\ Len(SetToSeq(S)) = Cardinality(S)
           /\ S # {} => SetToSeq(S) # <<>>
  <1>1. Cardinality(S) \in Nat /\ ExistsBijection(1..Cardinality(S), S)
    BY FS_CardinalityType
  <1>2. PICK f : f \in [1..Cardinality(S) -> S] /\ IsInjective(f)
    BY <1>1 DEF ExistsBijection, Bijection, Injection, IsInjective
  <1>3. SetToSeq(S) \in [1..Cardinality(S) -> S]
    BY <1>2 DEF SetToSeq
  <1>4. S # {} => Cardinality(S) # 0
    BY FS_EmptySet
  <1> QED BY <1>1, <1>3, <1>4

\* The values of a list are finitely many.
LEMMA RangeOfList ==
    ASSUME NEW S, NEW s \in Seq(S)
    PROVE  Range(s) \subseteq S /\ IsFiniteSet(Range(s))
  <1>1. s \in Surjection(1..Len(s), Range(s)) /\ Range(s) \subseteq S
    BY DEF Surjection, Range
  <1>2. IsFiniteSet(1..Len(s))
    BY FS_Interval
  <1> QED BY <1>1, <1>2, FS_Surjection

\* A page, with the values its parts have.
PageOK(page) ==
    /\ DOMAIN page = {"user", "active", "nav", "mode"}
    /\ page.mode \in {"login", "app", "blank"}
    /\ page.active \in Clients /\ page.nav \in Groups
    /\ (page.mode = "app") => page.user \in People

ListOK(clients) == clients \in Seq(Clients) /\ clients # <<>>

ShellTyped ==
    /\ remembered \in People \cup {None}
    /\ ListOK(clientList)
    /\ PageOK(view)
    /\ served \subseteq Clients /\ IsFiniteSet(served)
    /\ arriving = None \/ (arriving \subseteq Clients /\ IsFiniteSet(arriving))

LEMMA EnforcedIsPage ==
    ASSUME NEW page, PageOK(page), NEW clients, ListOK(clients), NEW changed
    PROVE  PageOK(Enforced(page, clients, changed))
  <1>1. CASE Enforced(page, clients, changed) = page
    BY <1>1
  <1>2. CASE /\ Enforced(page, clients, changed) = [page EXCEPT !.active = page.user.tenant]
             /\ Knows(clients, page.user)
    <2>1. page.user.tenant \in Clients
      BY <1>2, RangeOfList DEF Knows, ListOK
    <2> QED BY <1>2, <2>1 DEF PageOK
  <1> QED BY <1>1, <1>2 DEF Enforced

LEMMA ShellTypes == ShellTyped /\ [ShellNext]_shellVars => ShellTyped'
  <1> SUFFICES ASSUME ShellTyped, [ShellNext]_shellVars PROVE ShellTyped'
    OBVIOUS
  <1> USE ShellAssumption
  <1>1. CASE ReloadPage
    <2> DEFINE page == [user |-> remembered, active |-> clientList[1], nav |-> "all",
                        mode |-> IF remembered = None THEN "login" ELSE "app"]
    <2>1. PageOK(page)
      BY DEF ShellTyped, PageOK, ListOK, Groups
    <2>2. view' = Enforced(page, clientList, "user")
      BY <1>1 DEF ReloadPage
    <2> HIDE DEF page
    <2>3. PageOK(view)'
      <3>1. PageOK(Enforced(page, clientList, "user"))
        BY <2>1, EnforcedIsPage DEF ShellTyped
      <3> QED BY <2>2, <3>1 DEF PageOK
    <2> QED BY <1>1, <2>3 DEF ReloadPage, ShellTyped, ListOK
  <1>2. ASSUME NEW u \in People, OnLoginSuccess(u) PROVE ShellTyped'
    BY <1>2 DEF OnLoginSuccess, ShellTyped, PageOK, ListOK
  <1>3. CASE HandleLogout
    BY <1>3 DEF HandleLogout, ShellTyped, PageOK, ListOK
  <1>4. CASE LoadTenants
    <2> DEFINE old == Range(clientList) \ arriving
    <2>1. arriving \subseteq Clients /\ IsFiniteSet(arriving) /\ arriving # {}
      BY <1>4 DEF LoadTenants, ShellTyped
    <2>2. Range(clientList) \subseteq Clients /\ IsFiniteSet(Range(clientList))
      BY RangeOfList DEF ShellTyped, ListOK
    <2>3. old \subseteq Clients /\ IsFiniteSet(old)
      BY <2>2, FS_Subset
    <2>4. clientList' = SetToSeq(arriving) \o SetToSeq(old)
      BY <1>4 DEF LoadTenants
    <2> HIDE DEF old
    <2>5. /\ SetToSeq(arriving) \in Seq(Clients) /\ SetToSeq(arriving) # <<>>
          /\ SetToSeq(old) \in Seq(Clients)
      BY <2>1, <2>3, ListOfSet
    <2>6. ListOK(clientList)'
      BY <2>4, <2>5 DEF ListOK
    <2>7. view' = Enforced(view, clientList', "list")
      BY <1>4 DEF LoadTenants
    <2>8. PageOK(view)'
      <3>1. PageOK(Enforced(view, clientList', "list"))
        BY <2>6, EnforcedIsPage DEF ShellTyped
      <3> QED BY <2>7, <3>1 DEF PageOK
    <2>9. served' \subseteq Clients /\ IsFiniteSet(served')
      BY <1>4, <2>2, FS_Union DEF LoadTenants, ShellTyped
    <2> QED BY <1>4, <2>6, <2>8, <2>9 DEF LoadTenants, ShellTyped
  <1>5. ASSUME NEW c \in Clients, NEW reached \in BOOLEAN, HandleAddTenant(c, reached)
        PROVE  ShellTyped'
    <2> DEFINE page == [view EXCEPT !.active = c]
    <2>1. PageOK(page)
      BY DEF ShellTyped, PageOK
    <2>2. view' = Enforced(page, clientList', "list")
      BY <1>5 DEF HandleAddTenant
    <2> HIDE DEF page
    <2>3. ListOK(clientList)'
      BY <1>5 DEF HandleAddTenant, ShellTyped, ListOK
    <2>4. PageOK(view)'
      <3>1. PageOK(Enforced(page, clientList', "list"))
        BY <2>1, <2>3, EnforcedIsPage
      <3> QED BY <2>2, <3>1 DEF PageOK
    <2>5. served' \subseteq Clients /\ IsFiniteSet(served')
      BY <1>5, FS_AddElement DEF HandleAddTenant, ShellTyped
    <2> QED BY <1>5, <2>3, <2>4, <2>5 DEF HandleAddTenant, ShellTyped
  <1>6. ASSUME NEW c \in Clients, SelectTenant(c) PROVE ShellTyped'
    BY <1>6 DEF SelectTenant, ShellTyped, PageOK, ListOK
  <1>7. ASSUME NEW nav \in Groups, SetCurrentNav(nav) PROVE ShellTyped'
    BY <1>7 DEF SetCurrentNav, ShellTyped, PageOK, ListOK
  <1>8. CASE UNCHANGED shellVars
    BY <1>8 DEF shellVars, ShellTyped, PageOK, ListOK
  <1> QED BY <1>1, <1>2, <1>3, <1>4, <1>5, <1>6, <1>7, <1>8 DEF ShellNext

LEMMA ShellStarts == ShellInit => ShellTyped
  BY ShellAssumption DEF ShellInit, ShellTyped, PageOK, ListOK, Groups

LEMMA ShellIsTyped == ShellTyped => ShellTypeOK
  <1>1. ListOK(clientList) => Range(clientList) \subseteq Clients
    BY RangeOfList DEF ListOK
  <1> QED BY <1>1 DEF ShellTyped, ShellTypeOK, PageOK

-----------------------------------------------------------------------------
(* The lists of tenants and users *)

DirectoryInv ==
    /\ cached \in [Browsers -> SUBSET Records]
    /\ created \subseteq Records
    /\ NothingCreatedIsLost

LEMMA DirectoryStep == DirectoryInv /\ [DirectoryNext]_directoryVars => DirectoryInv'
  <1> SUFFICES ASSUME DirectoryInv, [DirectoryNext]_directoryVars PROVE DirectoryInv'
    OBVIOUS
  <1> USE DirectoryAssumption DEF DirectoryInv
  <1>1. ASSUME NEW r \in Records, AddRecord(r) PROVE DirectoryInv'
    BY <1>1 DEF AddRecord, NothingCreatedIsLost
  <1>2. ASSUME NEW b \in Browsers, Mount(b) PROVE DirectoryInv'
    BY <1>2 DEF Mount, NothingCreatedIsLost
  <1>3. ASSUME NEW b \in Browsers, ReceiveList(b) PROVE DirectoryInv'
    BY <1>3 DEF ReceiveList, NothingCreatedIsLost, MergeLists, StoredRows
  <1>4. ASSUME NEW b \in Browsers, LoseList(b) PROVE DirectoryInv'
    BY <1>4 DEF LoseList, NothingCreatedIsLost
  <1>5. ASSUME NEW b \in Browsers, NEW r \in Records, HandleDeleteUser(b, r) PROVE DirectoryInv'
    BY <1>5 DEF HandleDeleteUser, NothingCreatedIsLost
  <1>6. ASSUME NEW c \in Calls, ReceiveAnswer(c) PROVE DirectoryInv'
    BY <1>6 DEF ReceiveAnswer, NothingCreatedIsLost, Calls
  <1>7. ASSUME NEW c \in Calls, StoreRecord(c) PROVE DirectoryInv'
    BY <1>7 DEF StoreRecord, NothingCreatedIsLost
  <1>8. ASSUME NEW c \in Calls, RemoveRecord(c) \/ LoseCall(c) PROVE DirectoryInv'
    BY <1>8 DEF RemoveRecord, LoseCall, NothingCreatedIsLost
  <1>9. CASE UNCHANGED directoryVars
    BY <1>9 DEF directoryVars, NothingCreatedIsLost
  <1> QED BY <1>1, <1>2, <1>3, <1>4, <1>5, <1>6, <1>7, <1>8, <1>9 DEF DirectoryNext

\* For any browsers and records, and however the calls are lost, repeated or
\* reordered: what was created and not deleted stays in its author's list
\* (App.jsx, mergeLists).
THEOREM CreatedStays ==
    DirectoryInit /\ [][DirectoryNext]_directoryVars => []NothingCreatedIsLost
  <1>1. DirectoryInit => DirectoryInv
    BY DEF DirectoryInit, DirectoryInv, NothingCreatedIsLost
  <1>2. DirectoryInv => NothingCreatedIsLost
    BY DEF DirectoryInv
  <1> QED BY <1>1, <1>2, DirectoryStep, PTL

\* A record is created once: its POST, or the answer to it, is on its way at
\* most once.
AddedOnce ==
    \A b \in Browsers, r \in Records :
        calls[Call("add", b, r)] + calls[Call("answer", b, r)] =< IF r \in created THEN 1 ELSE 0

DirectoryTyped == DirectoryTypeOK /\ AddedOnce

\* Fewer calls are within the bounds.
LEMMA FewerCalls ==
    ASSUME DirectoryTyped, calls' \in [Calls -> Nat], \A c \in Calls : calls'[c] =< calls[c],
           created' = created
    PROVE  calls' \in [Calls -> 0..MaxSame] /\ AddedOnce'
  <1> USE DirectoryAssumption
  <1>1. \A c \in Calls : calls[c] \in 0..MaxSame /\ calls'[c] \in Nat
    BY DEF DirectoryTyped, DirectoryTypeOK
  <1>2. \A c \in Calls : calls'[c] \in 0..MaxSame
    BY <1>1
  <1>3. \A b \in Browsers, r \in Records : Call("add", b, r) \in Calls /\ Call("answer", b, r) \in Calls
    BY DEF Calls, Call
  <1>4. AddedOnce'
    BY <1>1, <1>3 DEF DirectoryTyped, AddedOnce
  <1> QED BY <1>2, <1>4

\* A call more leaves the others as they were.
LEMMA CallSent ==
    ASSUME calls \in [Calls -> Nat], NEW c \in Calls, calls' = Sent(c)
    PROVE  /\ calls' \in [Calls -> Nat] /\ calls'[c] = calls[c] + 1
           /\ \A d \in Calls \ {c} : calls'[d] = calls[d]
  BY DEF Sent

LEMMA CallDone ==
    ASSUME calls \in [Calls -> Nat], NEW c \in Calls, calls[c] > 0,
           calls' = [calls EXCEPT ![c] = @ - 1]
    PROVE  calls' \in [Calls -> Nat] /\ \A d \in Calls : calls'[d] =< calls[d]
  <1>1. calls[c] - 1 \in Nat /\ calls[c] - 1 =< calls[c] /\ \A d \in Calls : calls[d] \in Nat
    OBVIOUS
  <1> QED BY <1>1

LEMMA DirectoryTypes == DirectoryTyped /\ [DirectoryNext]_directoryVars => DirectoryTyped'
  <1> SUFFICES ASSUME DirectoryTyped, [DirectoryNext]_directoryVars PROVE DirectoryTyped'
    OBVIOUS
  <1> USE DirectoryAssumption
  <1>0. /\ DirectoryTypeOK /\ AddedOnce
        /\ calls \in [Calls -> Nat] /\ \A c \in Calls : calls[c] =< MaxSame
        /\ \A k \in {"add", "repost", "delete", "answer"}, b \in Browsers, r \in Records :
              Call(k, b, r) \in Calls
    <2>1. DirectoryTypeOK /\ AddedOnce
      BY DEF DirectoryTyped
    <2>2. calls \in [Calls -> Nat] /\ \A c \in Calls : calls[c] =< MaxSame
      BY <2>1 DEF DirectoryTypeOK
    <2>3. \A k \in {"add", "repost", "delete", "answer"}, b \in Browsers, r \in Records :
             Call(k, b, r) \in Calls
      BY DEF Calls, Call
    <2> QED BY <2>1, <2>2, <2>3
  <1>1. ASSUME NEW r \in Records, AddRecord(r) PROVE DirectoryTyped'
    <2> DEFINE b == Author[r]
               add == Call("add", b, r)
    <2>1. /\ r \notin created /\ created' = created \cup {r} /\ calls' = Sent(add)
          /\ b \in Browsers /\ add \in Calls
      BY <1>0, <1>1 DEF AddRecord
    <2>2. calls[add] = 0
      BY <1>0, <2>1 DEF AddedOnce
    <2>3. /\ calls' \in [Calls -> Nat] /\ calls'[add] = 1
          /\ \A d \in Calls \ {add} : calls'[d] = calls[d]
      BY <1>0, <2>1, <2>2, CallSent
    <2>4. calls' \in [Calls -> 0..MaxSame]
      BY <1>0, <2>3
    <2>5. AddedOnce'
      <3> SUFFICES ASSUME NEW x \in Browsers, NEW s \in Records
                   PROVE  calls'[Call("add", x, s)] + calls'[Call("answer", x, s)]
                             =< IF s \in created' THEN 1 ELSE 0
        BY DEF AddedOnce
      <3>1. Call("answer", x, s) # add
        BY DEF Call
      <3>2. CASE Call("add", x, s) = add
        <4>1. x = b /\ s = r
          BY <3>2 DEF Call
        <4> QED BY <1>0, <2>1, <2>3, <3>1, <4>1 DEF AddedOnce
      <3>3. CASE Call("add", x, s) # add
        BY <1>0, <2>1, <2>3, <3>1, <3>3 DEF AddedOnce
      <3> QED BY <3>2, <3>3
    <2> HIDE DEF add, b
    <2>6. /\ UNCHANGED <<list, stored, asking, removed>>
          /\ cached' \in [Browsers -> SUBSET Records]
      BY <1>0, <1>1 DEF AddRecord, DirectoryTypeOK
    <2> QED BY <1>0, <2>1, <2>4, <2>5, <2>6 DEF DirectoryTyped, DirectoryTypeOK
  <1>2. ASSUME NEW b \in Browsers, Mount(b) PROVE DirectoryTyped'
    <2>1. calls' \in [Calls -> Nat] /\ (\A c \in Calls : calls'[c] =< calls[c]) /\ created' = created
      BY <1>0, <1>2 DEF Mount
    <2>2. calls' \in [Calls -> 0..MaxSame] /\ AddedOnce'
      BY <2>1, FewerCalls
    <2> QED BY <1>0, <1>2, <2>2 DEF Mount, DirectoryTyped, DirectoryTypeOK
  <1>3. ASSUME NEW b \in Browsers, ReceiveList(b) PROVE DirectoryTyped'
    <2>1. CASE UNCHANGED <<cached, calls>>
      BY <1>0, <1>3, <2>1 DEF ReceiveList, DirectoryTyped, DirectoryTypeOK, AddedOnce
    <2>2. ASSUME NEW again, \A r \in again : calls[Call("repost", b, r)] < MaxSame,
                 calls' = [c \in Calls |->
                    IF c.of = b /\ c.kind = "repost" /\ c.rec \in again
                    THEN calls[c] + 1 ELSE calls[c]],
                 cached' = [cached EXCEPT ![b] = MergeLists(cached[b], StoredRows)]
          PROVE  DirectoryTyped'
      <3>1. \A c \in Calls : c = Call(c.kind, c.of, c.rec)
        BY DEF Calls, Call
      <3>2. calls' \in [Calls -> 0..MaxSame]
        BY <1>0, <2>2, <3>1
      <3>3. \A c \in Calls : c.kind # "repost" => calls'[c] = calls[c]
        BY <2>2
      <3>4. AddedOnce'
        <4>1. created' = created
          BY <1>3 DEF ReceiveList
        <4>2. \A x \in Browsers, r \in Records :
                 /\ calls'[Call("add", x, r)] = calls[Call("add", x, r)]
                 /\ calls'[Call("answer", x, r)] = calls[Call("answer", x, r)]
          BY <1>0, <3>3 DEF Call
        <4> QED BY <1>0, <4>1, <4>2 DEF AddedOnce
      <3>5. cached' \in [Browsers -> SUBSET Records]
        BY <1>0, <2>2 DEF MergeLists, StoredRows, DirectoryTypeOK
      <3> QED BY <1>0, <1>3, <3>2, <3>4, <3>5 DEF ReceiveList, DirectoryTyped, DirectoryTypeOK
    <2> QED BY <1>3, <2>1, <2>2 DEF ReceiveList
  <1>4. ASSUME NEW b \in Browsers, LoseList(b) PROVE DirectoryTyped'
    BY <1>0, <1>4 DEF LoseList, DirectoryTyped, DirectoryTypeOK, AddedOnce
  <1>5. ASSUME NEW b \in Browsers, NEW r \in Records, HandleDeleteUser(b, r) PROVE DirectoryTyped'
    <2> DEFINE del == Call("delete", b, r)
    <2>1. calls' = Sent(del) /\ calls[del] < MaxSame /\ del \in Calls /\ created' = created
      BY <1>0, <1>5 DEF HandleDeleteUser
    <2>2. /\ calls' \in [Calls -> Nat] /\ calls'[del] = calls[del] + 1
          /\ \A d \in Calls \ {del} : calls'[d] = calls[d]
      BY <1>0, <2>1, CallSent
    <2>3. calls' \in [Calls -> 0..MaxSame]
      BY <1>0, <2>1, <2>2
    <2>4. AddedOnce'
      <3>1. \A x \in Browsers, s \in Records : Call("add", x, s) # del /\ Call("answer", x, s) # del
        BY DEF Call
      <3> QED BY <1>0, <2>1, <2>2, <3>1 DEF AddedOnce
    <2> QED BY <1>0, <1>5, <2>3, <2>4 DEF HandleDeleteUser, DirectoryTyped, DirectoryTypeOK
  <1>6. ASSUME NEW c \in Calls, ReceiveAnswer(c) PROVE DirectoryTyped'
    <2>1. calls' \in [Calls -> 0..MaxSame] /\ AddedOnce'
      BY <1>0, <1>6, CallDone, FewerCalls DEF ReceiveAnswer
    <2>2. c.rec \in Records /\ c.of \in Browsers
      BY DEF Calls
    <2> QED BY <1>0, <1>6, <2>1, <2>2 DEF ReceiveAnswer, DirectoryTyped, DirectoryTypeOK
  <1>7. ASSUME NEW c \in Calls, StoreRecord(c) PROVE DirectoryTyped'
    <2> DEFINE handled == [calls EXCEPT ![c] = @ - 1]
               answer == Call("answer", c.of, c.rec)
    <2>1. /\ c.kind \in {"add", "repost"} /\ calls[c] > 0 /\ created' = created
          /\ UNCHANGED <<list, cached, asking, created, removed>>
          /\ calls' = IF list = "users" /\ c.kind = "add"
                      THEN [handled EXCEPT ![answer] = @ + 1] ELSE handled
      BY <1>7 DEF StoreRecord
    <2>2. stored' \in [Records -> 0..MaxSame]
      <3>1. c.rec \in Records /\ stored[c.rec] < MaxSame /\ stored' = [stored EXCEPT ![c.rec] = @ + 1]
        BY <1>7 DEF StoreRecord, Calls
      <3>2. stored[c.rec] + 1 \in 0..MaxSame
        BY <1>0, <3>1 DEF DirectoryTypeOK
      <3> QED BY <1>0, <3>1, <3>2 DEF DirectoryTypeOK
    <2>3. CASE calls' = handled
      <3>1. calls' \in [Calls -> 0..MaxSame] /\ AddedOnce'
        BY <1>0, <2>1, <2>3, CallDone, FewerCalls
      <3> QED BY <1>0, <2>1, <2>2, <3>1 DEF DirectoryTyped, DirectoryTypeOK
    <2>4. CASE c.kind = "add" /\ calls' = [handled EXCEPT ![answer] = @ + 1]
      <3>1. /\ answer \in Calls /\ answer # c /\ c = Call("add", c.of, c.rec)
            /\ c.of \in Browsers /\ c.rec \in Records
        BY <1>0, <2>4 DEF Calls, Call
      <3>2. /\ calls[c] + calls[answer] =< IF c.rec \in created THEN 1 ELSE 0
            /\ calls[c] \in Nat /\ calls[answer] \in Nat
        BY <1>0, <3>1 DEF AddedOnce
      <3>3. calls[c] = 1 /\ calls[answer] = 0 /\ c.rec \in created
        BY <2>1, <3>2
      <3>4. /\ calls'[c] = 0 /\ calls'[answer] = 1 /\ DOMAIN calls' = Calls
            /\ \A d \in Calls \ {c, answer} : calls'[d] = calls[d]
        BY <1>0, <2>4, <3>1, <3>3
      <3>5. calls' \in [Calls -> 0..MaxSame]
        <4>1. calls' = [d \in Calls |-> calls'[d]]
          BY <2>4, <3>1, <1>0
        <4> QED BY <1>0, <3>4, <4>1
      <3> HIDE DEF handled, answer
      <3>6. AddedOnce'
        <4> SUFFICES ASSUME NEW x \in Browsers, NEW s \in Records
                     PROVE  calls'[Call("add", x, s)] + calls'[Call("answer", x, s)]
                               =< IF s \in created' THEN 1 ELSE 0
          BY DEF AddedOnce
        <4>1. CASE x = c.of /\ s = c.rec
          BY <2>1, <3>1, <3>3, <3>4, <4>1 DEF answer
        <4>2. CASE ~ (x = c.of /\ s = c.rec)
          <5>1. /\ Call("add", x, s) \in Calls \ {c, answer}
                /\ Call("answer", x, s) \in Calls \ {c, answer}
            BY <1>0, <3>1, <4>2 DEF Call, answer
          <5> QED BY <1>0, <2>1, <3>4, <5>1 DEF AddedOnce
        <4> QED BY <4>1, <4>2
      <3> QED BY <1>0, <2>1, <2>2, <3>5, <3>6 DEF DirectoryTyped, DirectoryTypeOK
    <2> QED BY <2>1, <2>3, <2>4
  <1>8. ASSUME NEW c \in Calls, RemoveRecord(c) PROVE DirectoryTyped'
    <2>1. calls' \in [Calls -> 0..MaxSame] /\ AddedOnce'
      BY <1>0, <1>8, CallDone, FewerCalls DEF RemoveRecord
    <2>2. stored' \in [Records -> 0..MaxSame]
      <3>1. c.rec \in Records /\ stored[c.rec] \in 0..MaxSame
        BY <1>0 DEF Calls, DirectoryTypeOK
      <3>2. (IF stored[c.rec] > 0 THEN stored[c.rec] - 1 ELSE 0) \in 0..MaxSame
        BY <3>1
      <3> QED BY <1>0, <1>8, <3>1, <3>2 DEF RemoveRecord, DirectoryTypeOK
    <2> QED BY <1>0, <1>8, <2>1, <2>2 DEF RemoveRecord, DirectoryTyped, DirectoryTypeOK
  <1>9. ASSUME NEW c \in Calls, LoseCall(c) PROVE DirectoryTyped'
    <2>1. calls' \in [Calls -> 0..MaxSame] /\ AddedOnce'
      BY <1>0, <1>9, CallDone, FewerCalls DEF LoseCall
    <2> QED BY <1>0, <1>9, <2>1 DEF LoseCall, DirectoryTyped, DirectoryTypeOK
  <1>10. CASE UNCHANGED directoryVars
    BY <1>0, <1>10 DEF directoryVars, DirectoryTyped, DirectoryTypeOK, AddedOnce
  <1> QED BY <1>1, <1>2, <1>3, <1>4, <1>5, <1>6, <1>7, <1>8, <1>9, <1>10 DEF DirectoryNext

LEMMA DirectoryStarts == DirectoryInit => DirectoryTyped
  <1> SUFFICES ASSUME DirectoryInit PROVE DirectoryTyped
    OBVIOUS
  <1>1. \A b \in Browsers, r \in Records : Call("add", b, r) \in Calls /\ Call("answer", b, r) \in Calls
    BY DEF Calls, Call
  <1>2. AddedOnce
    BY <1>1 DEF DirectoryInit, AddedOnce
  <1> QED BY <1>2, DirectoryAssumption DEF DirectoryInit, DirectoryTyped, DirectoryTypeOK

-----------------------------------------------------------------------------
(* The assets behind the page of the source of truth *)

\* Only the owner of an asset has touched it; of one that was deleted, whoever
\* owned it; of one that does not exist yet, nobody.
InventoryInv ==
    /\ org \in Organizations
    /\ \A r \in underWay : r.org \in Organizations
    /\ assetOwner \in [AssetRows -> Organizations \cup {Unused, Gone}]
    /\ DOMAIN touched = AssetRows
    /\ \A a \in AssetRows :
         /\ \E o \in Organizations : touched[a] \subseteq {o}
         /\ assetOwner[a] = Unused => touched[a] = {}
         /\ assetOwner[a] \in Organizations => touched[a] \subseteq {assetOwner[a]}

LEMMA InventoryStep == InventoryInv /\ [InventoryNext]_inventoryVars => InventoryInv'
  <1> SUFFICES ASSUME InventoryInv, [InventoryNext]_inventoryVars PROVE InventoryInv'
    OBVIOUS
  <1> USE InventoryAssumption, MissingAreDistinct DEF InventoryInv
  <1>1. ASSUME NEW r \in underWay \cup okays, HandleRequest(r) PROVE InventoryInv'
    <2>1. r.org \in Organizations /\ underWay' \subseteq underWay /\ org' = org
      BY <1>1 DEF HandleRequest
    <2>2. ASSUME NEW row \in AssetRows, Does(r, row, r.org),
                 assetOwner[row] \in {Unused, r.org}
          PROVE  InventoryInv'
      BY <2>1, <2>2 DEF Does
    <2>3. CASE r.kind = "create" /\ \E row \in AssetRows : assetOwner[row] = Unused /\ Does(r, row, r.org)
      BY <2>2, <2>3
    <2>4. CASE Found(r) /\ Does(r, r.row, r.org)
      <3>1. CASE r.row \in AssetRows
        BY <2>2, <2>4, <3>1 DEF Found
      <3>2. CASE r.row \notin AssetRows
        BY <2>1, <2>4, <3>2 DEF Does
      <3> QED BY <3>1, <3>2
    <2>5. CASE Found(r) /\ Does(r, r.row, Gone)
      BY <2>1, <2>5 DEF Found, Does
    <2>6. CASE UNCHANGED <<assetOwner, touched>>
      BY <2>1, <2>6
    <2> QED BY <1>1, <2>3, <2>4, <2>5, <2>6 DEF HandleRequest
  <1>2. ASSUME NEW o \in Organizations, SwitchOrganization(o) PROVE InventoryInv'
    BY <1>2 DEF SwitchOrganization
  <1>3. ASSUME NEW o \in Organizations, NEW fails \in BOOLEAN, Refreshed(o, fails)
        PROVE  InventoryInv'
    BY <1>3 DEF Refreshed
  <1>4. CASE RefreshAllData \/ NewAsset \/ CancelModal
    BY <1>4 DEF RefreshAllData, NewAsset, CancelModal
  <1>5. ASSUME NEW request, request.org = org, Sends(request) PROVE InventoryInv'
    BY <1>5 DEF Sends
  <1>6. CASE HandleSaveAsset \/ HandleOther
    BY <1>5, <1>6 DEF HandleSaveAsset, HandleOther, Request
  <1>7. ASSUME NEW a \in AssetRows, EditAsset(a) \/ HandleDeleteAsset(a) PROVE InventoryInv'
    BY <1>5, <1>7 DEF EditAsset, HandleDeleteAsset, Request
  <1>8. ASSUME NEW r \in underWay \cup okays, RequestAnswered(r) \/ RequestRefused(r)
        PROVE  InventoryInv'
    BY <1>8 DEF RequestAnswered, RequestRefused
  <1>9. CASE UNCHANGED inventoryVars
    BY <1>9 DEF inventoryVars
  <1> QED BY <1>1, <1>2, <1>3, <1>4, <1>6, <1>7, <1>8, <1>9 DEF InventoryNext

\* For any tenants and assets, and however late the lists of a page and its
\* requests are: one tenant only ever touches an asset (inventoryService.ts,
\* which looks an asset up by its id and the tenant of the request).
THEOREM OneTenantPerAsset ==
    InventoryInit /\ [][InventoryNext]_inventoryVars => []EditsStayInTheirTenant
  <1>1. InventoryInit => InventoryInv
    BY InventoryAssumption DEF InventoryInit, InventoryInv
  <1>2. InventoryInv => EditsStayInTheirTenant
    <2> SUFFICES ASSUME InventoryInv, NEW a \in AssetRows
                 PROVE  Cardinality(touched[a]) =< 1
      BY DEF EditsStayInTheirTenant
    <2>1. PICK o \in Organizations : touched[a] \subseteq {o}
      BY DEF InventoryInv
    <2>2. IsFiniteSet({o}) /\ Cardinality({o}) = 1
      BY FS_Singleton
    <2>3. Cardinality(touched[a]) =< Cardinality({o})
      BY <2>1, <2>2, FS_Subset
    <2> QED BY <2>2, <2>3
  <1> QED BY <1>1, <1>2, InventoryStep, PTL
\* A request of the page names an organization, and a row or none.
PageRequest == [kind : {"create", "update", "delete", "other"}, org : Organizations,
                row : AssetRows \cup {None}]

LEMMA SendsTyped ==
    ASSUME InventoryTypeOK, NEW r \in PageRequest, Sends(r)
    PROVE  InventoryTypeOK'
  BY DEF InventoryTypeOK, Sends, PageRequest

LEMMA InventoryTyped == InventoryTypeOK /\ [InventoryNext]_inventoryVars => InventoryTypeOK'
  <1> SUFFICES ASSUME InventoryTypeOK, [InventoryNext]_inventoryVars PROVE InventoryTypeOK'
    OBVIOUS
  <1>1. ASSUME NEW o \in Organizations, NEW fails \in BOOLEAN,
               SwitchOrganization(o) \/ Refreshed(o, fails)
        PROVE  InventoryTypeOK'
    BY <1>1 DEF SwitchOrganization, Refreshed, InventoryTypeOK
  <1>2. CASE RefreshAllData \/ NewAsset \/ CancelModal
    BY <1>2 DEF RefreshAllData, NewAsset, CancelModal, InventoryTypeOK
  <1>3. CASE HandleSaveAsset
    <2>1. PICK r : Sends(r) /\ r = IF modal = "new" THEN Request("create", None)
                                   ELSE Request("update", modal)
      BY <1>3 DEF HandleSaveAsset
    <2>2. r \in PageRequest
      BY <1>3, <2>1 DEF HandleSaveAsset, Request, PageRequest, InventoryTypeOK
    <2> QED BY <2>1, <2>2, SendsTyped
  <1>4. CASE HandleOther
    <2>1. Request("other", None) \in PageRequest
      BY DEF Request, PageRequest, InventoryTypeOK
    <2> QED BY <1>4, <2>1, SendsTyped DEF HandleOther
  <1>5. ASSUME NEW a \in AssetRows, EditAsset(a) \/ HandleDeleteAsset(a)
        PROVE  InventoryTypeOK'
    <2>1. Request("delete", a) \in PageRequest
      BY DEF Request, PageRequest, InventoryTypeOK
    <2> QED BY <1>5, <2>1, SendsTyped DEF EditAsset, HandleDeleteAsset, InventoryTypeOK
  <1>6. ASSUME NEW r \in underWay \cup okays, RequestAnswered(r) \/ RequestRefused(r)
        PROVE  InventoryTypeOK'
    BY <1>6 DEF RequestAnswered, RequestRefused, InventoryTypeOK
  <1>7. ASSUME NEW r \in underWay \cup okays, HandleRequest(r)
        PROVE  InventoryTypeOK'
    <2>1. r.org \in Organizations \cup {Gone}
      BY DEF InventoryTypeOK
    <2>2. ASSUME NEW row, NEW new \in Organizations \cup {Gone}, Does(r, row, new)
          PROVE  assetOwner' \in [AssetRows -> Organizations \cup {Unused, Gone}]
      BY <2>2 DEF Does, InventoryTypeOK
    <2>3. assetOwner' \in [AssetRows -> Organizations \cup {Unused, Gone}]
      BY <1>7, <2>1, <2>2 DEF HandleRequest, InventoryTypeOK
    <2> QED BY <1>7, <2>3 DEF HandleRequest, InventoryTypeOK
  <1>8. CASE UNCHANGED inventoryVars
    BY <1>8 DEF inventoryVars, InventoryTypeOK
  <1> QED BY <1>1, <1>2, <1>3, <1>4, <1>5, <1>6, <1>7, <1>8 DEF InventoryNext

-----------------------------------------------------------------------------
(* The page of routers *)

\* Without a crossed roll back every router has a primary, and so has what a
\* dialogue would make of it.
ConsoleInv ==
    /\ existing \subseteq Boxes
    /\ DOMAIN primaryOf = Boxes
    /\ dialogue \notin {None, Deletion} => dialogue.wan \in Wans
    /\ crossed \in BOOLEAN
    /\ ~ crossed => \A box \in Boxes : primaryOf[box] # None

LEMMA ConsoleStep == ConsoleInv /\ [ConsoleNext]_consoleVars => ConsoleInv'
  <1> SUFFICES ASSUME ConsoleInv, [ConsoleNext]_consoleVars PROVE ConsoleInv'
    OBVIOUS
  <1>1. ASSUME /\ existing' = existing /\ primaryOf' = primaryOf /\ crossed' = crossed
               /\ dialogue' \in {dialogue, None, Deletion}
        PROVE  ConsoleInv'
    BY <1>1 DEF ConsoleInv, Deletion
  <1>2. ASSUME NEW box \in Boxes, HandleSelectDevice(box) PROVE ConsoleInv'
    BY <1>1, <1>2 DEF HandleSelectDevice
  <1>3. CASE Poll
    BY <1>1, <1>3 DEF Poll
  <1>4. ASSUME NEW request,
               LoadAllData(request) \/ LoadDeviceDetails(request) \/ DataFails(request)
        PROVE  ConsoleInv'
    BY <1>1, <1>4 DEF LoadAllData, LoadDeviceDetails, DataFails
  <1>5. ASSUME NEW wan \in Wans, OpenDialogue(wan) PROVE ConsoleInv'
    BY <1>5 DEF OpenDialogue, ConsoleInv
  <1>6. CASE OpenDeletion \/ CloseDialogue
    BY <1>1, <1>6 DEF OpenDeletion, CloseDialogue
  <1>7. CASE HandleDeleteDevice
    BY <1>7 DEF HandleDeleteDevice, RemoveBox, ConsoleInv
  <1>8. CASE HandleExecuteSetPrimaryWan
    <2>1. /\ selected \in Boxes /\ dialogue.wan \in Wans /\ dialogue.wan # None
          /\ dialogue' \in {dialogue, None} /\ existing' = existing /\ crossed' = crossed
      BY <1>8, NetworkConsoleAssumption DEF HandleExecuteSetPrimaryWan, ConsoleInv
    <2>2. \/ primaryOf' = [primaryOf EXCEPT ![selected] = dialogue.wan]
          \/ primaryOf' = primaryOf
      BY <1>8 DEF HandleExecuteSetPrimaryWan, SetPrimary
    <2> QED BY <2>1, <2>2 DEF ConsoleInv, Deletion
  <1>9. ASSUME NEW snapshot, HandleExecuteRollback(snapshot) PROVE ConsoleInv'
    <2>1. /\ selected \in Boxes /\ dialogue' = dialogue /\ existing' = existing
          /\ crossed' = (crossed \/ snapshot.box # selected)
      BY <1>9 DEF HandleExecuteRollback, ConsoleInv
    <2>2. primaryOf' = IF snapshot.primary = None THEN primaryOf
                       ELSE [primaryOf EXCEPT ![selected] =
                               IF snapshot.box = selected THEN snapshot.primary ELSE None]
      BY <1>9 DEF HandleExecuteRollback, Rollback
    <2>3. DOMAIN primaryOf' = Boxes /\ crossed' \in BOOLEAN
      BY <2>1, <2>2 DEF ConsoleInv
    <2>4. ~ crossed' => \A box \in Boxes : primaryOf'[box] # None
      BY <2>1, <2>2 DEF ConsoleInv
    <2> QED BY <2>1, <2>3, <2>4 DEF ConsoleInv
  <1>10. CASE UNCHANGED consoleVars
    BY <1>1, <1>10 DEF consoleVars
  <1> QED BY <1>2, <1>3, <1>4, <1>5, <1>6, <1>7, <1>8, <1>9, <1>10 DEF ConsoleNext

LEMMA ConsoleStarts == ConsoleInit => ConsoleInv
  <1> SUFFICES ASSUME ConsoleInit PROVE ConsoleInv
    OBVIOUS
  <1>1. crossed \in BOOLEAN
    BY Zenon DEF ConsoleInit
  <1>2. FirstWan # None
    BY NetworkConsoleAssumption
  <1> QED BY <1>1, <1>2 DEF ConsoleInit, ConsoleInv

\* For any routers and links, and whatever is selected by the time a click is
\* carried out: a router is left without a primary link only where a snapshot
\* was rolled back on a router that it is not of (NetworkDevicesView.jsx with
\* the routes set-primary and rollback).
THEOREM PrimaryIsKept == ConsoleInit /\ [][ConsoleNext]_consoleVars => []PrimaryKeptUnlessCrossed
  <1>1. ConsoleInit => ConsoleInv
    BY ConsoleStarts
  <1>2. ConsoleInv => PrimaryKeptUnlessCrossed
    BY DEF ConsoleInv, PrimaryKeptUnlessCrossed
  <1> QED BY <1>1, <1>2, ConsoleStep, PTL
\* What the page asks about a router: everything, or the details.
BoxRequest == [what : {"all", "details"}, box : Boxes \cup {None}]

LEMMA BoxRequests ==
    ASSUME NEW b \in Boxes \cup {None}
    PROVE  AllData(b) \in BoxRequest /\ Details(b) \in BoxRequest
  BY DEF AllData, Details, BoxRequest

\* All but the flag of what happened once
ConsoleTypes ==
    /\ existing \subseteq Boxes
    /\ primaryOf \in [Boxes -> Wans \cup {None}]
    /\ taken \subseteq [box : Boxes, primary : Wans \cup {None}]
    /\ selected \in Boxes \cup {None} /\ shownOf \in Boxes \cup {None}
    /\ dialogue \in {None, Deletion} \cup [box : Boxes, wan : Wans]
    /\ requested \subseteq BoxRequest

LEMMA ConsoleTyped == ConsoleTypes /\ [ConsoleNext]_consoleVars => ConsoleTypes'
  <1> SUFFICES ASSUME ConsoleTypes, [ConsoleNext]_consoleVars PROVE ConsoleTypes'
    OBVIOUS
  <1> USE DEF ConsoleTypes
  <1>1. ASSUME NEW box \in Boxes, NEW rest, rest \subseteq BoxRequest,
               NEW requests, requests \subseteq BoxRequest, Select(box, rest, requests)
        PROVE  selected' \in Boxes /\ requested' \subseteq BoxRequest
    BY <1>1, BoxRequests DEF Select
  <1>2. ASSUME NEW box \in Boxes, HandleSelectDevice(box) PROVE ConsoleTypes'
    BY <1>1, <1>2, BoxRequests DEF HandleSelectDevice
  <1>3. CASE Poll
    BY <1>3, BoxRequests DEF Poll
  <1>4. ASSUME NEW request \in requested, LoadAllData(request) PROVE ConsoleTypes'
    <2>1. request.box \in Boxes \cup {None} /\ requested \ {request} \subseteq BoxRequest
      BY DEF BoxRequest
    <2>2. CASE request.box = None /\ existing = {}
      BY <1>4, <2>1, <2>2 DEF LoadAllData
    <2>3. CASE ~ (request.box = None /\ existing = {})
      <3>1. Current(request) \in Boxes
        BY <2>1, <2>3, NetworkConsoleAssumption DEF Current
      <3> QED BY <1>1, <1>4, <2>1, <2>3, <3>1, BoxRequests DEF LoadAllData
    <2> QED BY <2>2, <2>3
  <1>5. ASSUME NEW request \in requested, LoadDeviceDetails(request) \/ DataFails(request)
        PROVE  ConsoleTypes'
    BY <1>5 DEF LoadDeviceDetails, DataFails, BoxRequest
  <1>6. ASSUME NEW wan \in Wans, OpenDialogue(wan) PROVE ConsoleTypes'
    BY <1>6 DEF OpenDialogue
  <1>7. CASE OpenDeletion \/ CloseDialogue
    BY <1>7 DEF OpenDeletion, CloseDialogue
  <1>8. CASE HandleDeleteDevice
    BY <1>8, BoxRequests DEF HandleDeleteDevice, RemoveBox
  <1>9. CASE HandleExecuteSetPrimaryWan
    <2>1. /\ selected \in Boxes /\ dialogue \in [box : Boxes, wan : Wans]
          /\ dialogue' \in {dialogue, None}
          /\ requested' \subseteq requested \cup {Details(selected)}
          /\ UNCHANGED <<existing, selected, shownOf>>
      BY <1>9 DEF HandleExecuteSetPrimaryWan
    <2>2. dialogue.wan \in Wans /\ primaryOf[selected] \in Wans \cup {None}
      BY <2>1
    <2>3. /\ primaryOf' \in {primaryOf, [primaryOf EXCEPT ![selected] = dialogue.wan]}
          /\ taken' \subseteq taken \cup {[box |-> selected, primary |-> primaryOf[selected]]}
      BY <1>9 DEF HandleExecuteSetPrimaryWan, SetPrimary
    <2>4. primaryOf' \in [Boxes -> Wans \cup {None}]
      BY <2>1, <2>2, <2>3
    <2>5. taken' \subseteq [box : Boxes, primary : Wans \cup {None}]
      BY <2>1, <2>2, <2>3
    <2> QED BY <2>1, <2>4, <2>5, BoxRequests
  <1>10. ASSUME NEW snapshot \in taken, HandleExecuteRollback(snapshot) PROVE ConsoleTypes'
    <2>1. /\ selected \in Boxes /\ requested' = requested \cup {Details(selected)}
          /\ UNCHANGED <<existing, selected, shownOf, dialogue>>
          /\ snapshot.primary \in Wans \cup {None} /\ primaryOf[selected] \in Wans \cup {None}
      BY <1>10 DEF HandleExecuteRollback
    <2>2. PICK w \in Wans \cup {None} :
            primaryOf' \in {primaryOf, [primaryOf EXCEPT ![selected] = w]}
      BY <1>10, <2>1 DEF HandleExecuteRollback, Rollback
    <2>3. taken' = taken \cup {[box |-> selected, primary |-> primaryOf[selected]]}
      BY <1>10 DEF HandleExecuteRollback, Rollback
    <2> QED BY <2>1, <2>2, <2>3, BoxRequests
  <1>11. CASE UNCHANGED consoleVars
    BY <1>11 DEF consoleVars
  <1> QED BY <1>2, <1>3, <1>4, <1>5, <1>6, <1>7, <1>8, <1>9, <1>10, <1>11 DEF ConsoleNext

-----------------------------------------------------------------------------
(* The alert channels *)

\* Two entries that a list shows alike
Same(x, y) == x = y \/ {x, y} \subseteq {None, Unused, Gone}

ChannelCall == [kind : {"POST", "PUT", "TOGGLE"}, id : Channels, body : Channel]
                 \cup [kind : {"DELETE"}, id : Channels, body : {None}]

ChannelsTyped ==
    /\ channelStore \in ChannelLists /\ shown \in ChannelLists /\ channelCache \in ChannelLists
    /\ loading = None \/ loading \in ChannelLists
    /\ editing = None \/ editing \in ChannelEdits
    /\ channelCalls \in Seq(ChannelCall) /\ Len(channelCalls) =< MaxCalls
    /\ disturbed \in BOOLEAN

\* The list the store is, and the ones it will be after each call under way
IsCourse(course, store, queue) ==
    /\ DOMAIN course = 0..Len(queue)
    /\ course[0] = store
    /\ \A i \in 1..Len(queue) : course[i] = Handled(course[i - 1], queue[i])
    /\ \A i \in 0..Len(queue) : course[i] \in ChannelLists

\* What the store will be is what the screen shows, but for the edit it waits for.
IsShown(entries, drawn, edit) ==
    \A c \in Channels : IF edit # None /\ c = edit.id THEN entries[c] = edit.body
                                                     ELSE Same(entries[c], drawn[c])

EditIsLast(queue, edit) ==
    /\ \A i \in 1..Len(queue) : queue[i].kind = "PUT" => i = Len(queue) /\ edit # None
    /\ edit # None => /\ Len(queue) > 0
                      /\ queue[Len(queue)].kind = "PUT"
                      /\ queue[Len(queue)].id = edit.id /\ queue[Len(queue)].body = edit.body

Quiet ==
    /\ EditIsLast(channelCalls, editing)
    /\ loading = None =>
         \E course : /\ IsCourse(course, channelStore, channelCalls)
                    /\ IsShown(course[Len(channelCalls)], shown, editing)
    /\ loading # None => channelCalls = <<>> /\ loading = channelStore

ChannelsInv == ChannelsTyped /\ (~ disturbed => Quiet)

LEMMA HandledType ==
    ASSUME NEW entries \in ChannelLists, NEW call \in ChannelCall
    PROVE  Handled(entries, call) \in ChannelLists
  <1>1. /\ call.kind \in {"POST", "PUT", "TOGGLE", "DELETE"} /\ call.id \in Channels
        /\ call.kind # "DELETE" => call.body \in Channel
    BY DEF ChannelCall
  <1>2. There(entries, call.id) => entries[call.id] \in Channel
    BY <1>1 DEF There, ChannelLists
  <1>3. CASE call.kind = "TOGGLE"
    <2>1. CASE There(entries, call.id)
      <3>1. call.body.enabled \in BOOLEAN
        BY <1>1, <1>3 DEF Channel
      <3>2. [entries[call.id] EXCEPT !.enabled = call.body.enabled] \in Channel
        BY <1>2, <2>1, <3>1 DEF Channel
      <3> DEFINE now == [entries[call.id] EXCEPT !.enabled = call.body.enabled]
      <3>3. Handled(entries, call) = [entries EXCEPT ![call.id] = now]
        BY <1>3, <2>1 DEF Handled
      <3> HIDE DEF now
      <3> QED BY <1>1, <3>2, <3>3 DEF ChannelLists, now
    <2>2. CASE ~ There(entries, call.id)
      BY <1>3, <2>2 DEF Handled
    <2> QED BY <2>1, <2>2
  <1>4. CASE call.kind # "TOGGLE"
    BY <1>1, <1>4 DEF Handled, Posted, ChannelLists
  <1> QED BY <1>3, <1>4

LEMMA WithoutProperties ==
    ASSUME NEW S, NEW s \in Seq(S), NEW i \in 1..Len(s)
    PROVE  /\ Without(s, i) \in Seq(S) /\ Len(Without(s, i)) = Len(s) - 1
           /\ i = 1 => \A k \in 1..(Len(s) - 1) : Without(s, i)[k] = s[k + 1]
  <1> DEFINE a == SubSeq(s, 1, i - 1)
             b == SubSeq(s, i + 1, Len(s))
             n == Len(s)
  <1>0. n \in Nat /\ i \in 1..n /\ \A k \in 1..n : s[k] \in S
    OBVIOUS
  <1>1. a \in Seq(S) /\ Len(a) = i - 1
    BY <1>0, SubSeqProperties
  <1>2. /\ b \in Seq(S) /\ Len(b) = n - i
        /\ \A k \in 1..(n - i) : b[k] = s[(i + 1) + k - 1]
    <2>1. i + 1 \in Int /\ n \in Int /\ \A k \in (i + 1)..n : s[k] \in S
      BY <1>0
    <2>2. /\ b \in Seq(S) /\ Len(b) = IF i + 1 <= n THEN n - (i + 1) + 1 ELSE 0
          /\ \A k \in 1..(n - (i + 1) + 1) : b[k] = s[(i + 1) + k - 1]
      BY <2>1, SubSeqProperties
    <2> HIDE DEF b, n
    <2> QED BY <1>0, <2>2, SMTT(30)
  <1>3. Without(s, i) = a \o b
    BY DEF Without
  <1> HIDE DEF a, b, n
  <1>4. /\ a \o b \in Seq(S) /\ Len(a \o b) = Len(a) + Len(b)
        /\ \A k \in 1..(Len(a) + Len(b)) : (a \o b)[k] = IF k <= Len(a) THEN a[k] ELSE b[k - Len(a)]
    BY <1>1, <1>2, ConcatProperties
  <1>5. Len(a) + Len(b) = n - 1
    BY <1>0, <1>1, <1>2
  <1>6. ASSUME i = 1, NEW k \in 1..(n - 1) PROVE (a \o b)[k] = s[k + 1]
    <2>1. Len(a) = 0 /\ ~ (k <= 0) /\ k - 0 = k
      BY <1>0, <1>1, <1>6
    <2>2. (a \o b)[k] = b[k]
      BY <1>4, <1>5, <2>1
    <2>3. (i + 1) + k - 1 = k + 1 /\ k \in 1..(n - i)
      BY <1>0, <1>6
    <2> QED BY <1>2, <2>2, <2>3
  <1> QED BY <1>3, <1>4, <1>5, <1>6 DEF n

\* The first call is handled: the course goes on from there.
LEMMA CourseGoesOn ==
    ASSUME NEW queue \in Seq(ChannelCall), Len(queue) > 0, NEW store, NEW course,
           IsCourse(course, store, queue)
    PROVE  LET rest == Without(queue, 1)
               later == [i \in 0..(Len(queue) - 1) |-> course[i + 1]]
           IN /\ IsCourse(later, Handled(store, queue[1]), rest)
              /\ later[Len(rest)] = course[Len(queue)]
  <1> DEFINE rest == Without(queue, 1)
             n == Len(queue)
             later == [i \in 0..(n - 1) |-> course[i + 1]]
  <1>1. n \in Nat /\ n > 0 /\ 1 \in 1..n
    OBVIOUS
  <1>2. Len(rest) = n - 1 /\ \A k \in 1..(n - 1) : rest[k] = queue[k + 1]
    BY <1>1, WithoutProperties
  <1> HIDE DEF rest, n
  <1>3. /\ course[0] = store
        /\ \A i \in 1..n : course[i] = Handled(course[i - 1], queue[i])
        /\ \A i \in 0..n : course[i] \in ChannelLists
    BY DEF IsCourse, n
  <1>4. later[0] = Handled(store, queue[1])
    BY <1>1, <1>3
  <1>5. \A i \in 1..(n - 1) : later[i] = Handled(later[i - 1], rest[i])
    <2> SUFFICES ASSUME NEW i \in 1..(n - 1) PROVE later[i] = Handled(later[i - 1], rest[i])
      OBVIOUS
    <2>1. i \in 0..(n - 1) /\ i - 1 \in 0..(n - 1) /\ i + 1 \in 1..n
          /\ (i - 1) + 1 = i /\ (i + 1) - 1 = i
      BY <1>1
    <2>2. later[i] = course[i + 1] /\ later[i - 1] = course[i] /\ rest[i] = queue[i + 1]
      BY <1>2, <2>1
    <2>3. course[i + 1] = Handled(course[i], queue[i + 1])
      BY <1>3, <2>1
    <2> QED BY <2>2, <2>3
  <1>6. \A i \in 0..(n - 1) : later[i] \in ChannelLists
    BY <1>1, <1>3
  <1>7. DOMAIN later = 0..(n - 1) /\ later[n - 1] = course[n]
    BY <1>1
  <1> QED BY <1>2, <1>4, <1>5, <1>6, <1>7 DEF IsCourse, rest, n

\* A call that is sent is the last step of the course.
LEMMA CourseGrows ==
    ASSUME NEW queue \in Seq(ChannelCall), NEW store, NEW course,
           IsCourse(course, store, queue),
           NEW call \in ChannelCall
    PROVE  \E longer : /\ IsCourse(longer, store, Append(queue, call))
                      /\ longer[Len(Append(queue, call))]
                            = Handled(course[Len(queue)], call)
  <1> DEFINE more == Append(queue, call)
             n == Len(queue)
             new == Handled(course[n], call)
             longer == [i \in 0..(n + 1) |-> IF i = n + 1 THEN new ELSE course[i]]
  <1>1. /\ n \in Nat /\ Len(more) = n + 1 /\ more[n + 1] = call
        /\ \A i \in 1..n : more[i] = queue[i]
    OBVIOUS
  <1>2. /\ course[0] = store
        /\ \A i \in 1..n : course[i] = Handled(course[i - 1], queue[i])
        /\ \A i \in 0..n : course[i] \in ChannelLists
    BY DEF IsCourse
  <1>3. new \in ChannelLists
    <2>1. n \in 0..n
      BY <1>1
    <2> QED BY <1>2, <2>1, HandledType
  <1> HIDE DEF more, n, new
  <1>4. \A i \in 1..(n + 1) : longer[i] = Handled(longer[i - 1], more[i])
    <2> SUFFICES ASSUME NEW i \in 1..(n + 1) PROVE longer[i] = Handled(longer[i - 1], more[i])
      OBVIOUS
    <2>1. CASE i = n + 1
      <3>1. longer[i] = new /\ longer[i - 1] = course[n] /\ more[i] = call
        BY <1>1, <2>1
      <3> QED BY <3>1 DEF new
    <2>2. CASE i \in 1..n
      <3>1. longer[i] = course[i] /\ longer[i - 1] = course[i - 1] /\ more[i] = queue[i]
        BY <1>1, <2>2
      <3> QED BY <1>2, <2>2, <3>1
    <2> QED BY <1>1, <2>1, <2>2
  <1>5. /\ DOMAIN longer = 0..(n + 1) /\ longer[0] = store /\ longer[n + 1] = new
        /\ \A i \in 0..(n + 1) : longer[i] \in ChannelLists
    BY <1>1, <1>2, <1>3
  <1> HIDE DEF longer
  <1>6. IsCourse(longer, store, more) /\ longer[Len(more)] = new
    BY <1>1, <1>4, <1>5 DEF IsCourse
  <1> QED BY <1>6 DEF more, new, n

LEMMA EditIsARecord == ASSUME NEW edit \in ChannelEdits PROVE edit # None
  BY AlertChannelsAssumption

\* A call that is sent and shown at once
LEMMA SentAndShown ==
    ASSUME ChannelsInv, NEW call \in ChannelCall, NEW c \in Channels,
           NEW now \in Channel \cup {Unused, Gone},
           call.kind # "PUT", editing = None,
           Len(channelCalls) < MaxCalls, channelCalls' = Append(channelCalls, call),
           disturbed' = (disturbed \/ loading # None),
           shown' = [shown EXCEPT ![c] = now],
           UNCHANGED <<channelStore, channelCache, loading, editing>>,
           \A entries \in ChannelLists :
              Same(entries[c], shown[c]) => Handled(entries, call) = [entries EXCEPT ![c] = now]
    PROVE  ChannelsInv'
  <1>2. /\ channelCalls \in Seq(ChannelCall) /\ channelCalls' \in Seq(ChannelCall)
        /\ Len(channelCalls') = Len(channelCalls) + 1 /\ Len(channelCalls') =< MaxCalls
        /\ Len(channelCalls) \in Nat
        /\ channelCalls'[Len(channelCalls')] = call
        /\ \A i \in 1..Len(channelCalls) : channelCalls'[i] = channelCalls[i]
    BY AlertChannelsAssumption DEF ChannelsInv, ChannelsTyped
  <1>3. disturbed' \in BOOLEAN
    BY Zenon
  <1>4. shown' \in ChannelLists
    BY DEF ChannelsInv, ChannelsTyped, ChannelLists
  <1>5. ChannelsTyped'
    BY <1>2, <1>3, <1>4 DEF ChannelsInv, ChannelsTyped
  <1>6. ASSUME ~ disturbed' PROVE Quiet'
    <2>1. ~ disturbed /\ loading = None
      BY <1>6
    <2>2. EditIsLast(channelCalls, editing)
      BY <2>1 DEF ChannelsInv, Quiet
    <2>3. EditIsLast(channelCalls', editing')
      <3>1. \A i \in 1..Len(channelCalls) : channelCalls[i].kind # "PUT"
        BY <2>2 DEF EditIsLast
      <3>2. \A i \in 1..Len(channelCalls') : channelCalls'[i].kind # "PUT"
        BY <1>2, <3>1
      <3> QED BY <3>2 DEF EditIsLast
    <2>4. PICK course : /\ IsCourse(course, channelStore, channelCalls)
                        /\ IsShown(course[Len(channelCalls)], shown, editing)
      BY <2>1 DEF ChannelsInv, Quiet
    <2> DEFINE entries == course[Len(channelCalls)]
    <2>5. entries \in ChannelLists
      <3>1. Len(channelCalls) \in 0..Len(channelCalls)
        BY <1>2
      <3> QED BY <2>4, <3>1 DEF IsCourse
    <2>6. \A d \in Channels : Same(entries[d], shown[d])
      BY <2>4 DEF IsShown
    <2>7. PICK longer : /\ IsCourse(longer, channelStore, channelCalls')
                        /\ longer[Len(channelCalls')] = Handled(entries, call)
      <3>1. \E longer : /\ IsCourse(longer, channelStore, Append(channelCalls, call))
                        /\ longer[Len(Append(channelCalls, call))] = Handled(entries, call)
        BY <1>2, <2>4, CourseGrows
      <3> QED BY <3>1
    <2> HIDE DEF entries
    <2>8. Handled(entries, call) = [entries EXCEPT ![c] = now]
      BY <2>5, <2>6
    <2>9. IsShown(Handled(entries, call), shown', None)
      <3> SUFFICES ASSUME NEW d \in Channels PROVE Same(Handled(entries, call)[d], shown'[d])
        BY DEF IsShown
      <3>1. CASE d = c
        BY <2>5, <2>8, <3>1 DEF Same, ChannelLists, ChannelsInv, ChannelsTyped
      <3>2. CASE d # c
        <4>1. Handled(entries, call)[d] = entries[d] /\ shown'[d] = shown[d]
          BY <2>5, <2>8, <3>2 DEF ChannelLists, ChannelsInv, ChannelsTyped
        <4> QED BY <2>6, <4>1
      <3> QED BY <3>1, <3>2
    <2> QED BY <2>1, <2>3, <2>7, <2>9 DEF Quiet
  <1> QED BY <1>5, <1>6 DEF ChannelsInv

LEMMA ArrivesKeeps ==
    ASSUME ChannelsInv, NEW i \in 1..MaxCalls, Arrives(i) PROVE ChannelsInv'
  <1> DEFINE n == Len(channelCalls)
             rest == Without(channelCalls, i)
             call == channelCalls[i]
  <1>1. /\ i \in 1..n /\ n \in Nat /\ channelCalls \in Seq(ChannelCall)
        /\ call \in ChannelCall /\ channelStore' = Handled(channelStore, call)
        /\ channelCalls' = rest /\ disturbed' = (disturbed \/ i > 1)
        /\ channelCache' = channelCache /\ loading' = loading /\ n =< MaxCalls
    BY DEF ChannelsInv, ChannelsTyped, Arrives
  <1>2. /\ rest \in Seq(ChannelCall) /\ Len(rest) = n - 1
        /\ i = 1 => \A k \in 1..(n - 1) : rest[k] = channelCalls[k + 1]
    BY <1>1, WithoutProperties
  <1>3. IF call.kind = "PUT" /\ editing # None
        THEN shown' = [shown EXCEPT ![editing.id] = editing.body] /\ editing' = None
        ELSE shown' = shown /\ editing' = editing
    BY DEF Arrives
  <1> HIDE DEF n, rest, call
  <1>4. ChannelsTyped'
    <2>1. channelStore' \in ChannelLists
      BY <1>1, HandledType DEF ChannelsInv, ChannelsTyped
    <2>2. shown' \in ChannelLists /\ (editing' = None \/ editing' \in ChannelEdits)
      BY <1>3 DEF ChannelsInv, ChannelsTyped, ChannelEdits, ChannelLists
    <2>3. disturbed' \in BOOLEAN
      BY <1>1, Zenon
    <2>4. Len(rest) =< MaxCalls
      BY <1>1, <1>2, AlertChannelsAssumption
    <2> QED BY <1>1, <1>2, <2>1, <2>2, <2>3, <2>4 DEF ChannelsInv, ChannelsTyped
  <1>5. ASSUME ~ disturbed' PROVE Quiet'
    <2>1. ~ disturbed /\ i = 1
      <3>1. ~ disturbed /\ ~ (i > 1)
        BY <1>1, <1>5
      <3> QED BY <3>1
    <2>2. EditIsLast(channelCalls, editing) /\ n > 0 /\ loading = None
      BY <1>1, <2>1 DEF ChannelsInv, Quiet, n
    <2>3. PICK course : /\ IsCourse(course, channelStore, channelCalls)
                        /\ IsShown(course[n], shown, editing)
      BY <2>1, <2>2 DEF ChannelsInv, Quiet, n
    <2>4. PICK later : /\ IsCourse(later, channelStore', rest)
                       /\ later[Len(rest)] = course[n]
      BY <1>1, <2>1, <2>2, <2>3, CourseGoesOn DEF n, rest, call
    <2>5. CASE call.kind = "PUT"
      <3>1. n = 1 /\ editing # None /\ editing.id = call.id /\ editing.body = call.body
        BY <1>1, <2>1, <2>2, <2>5 DEF EditIsLast, n, call
      <3>2. EditIsLast(rest, None)
        BY <1>2, <3>1 DEF EditIsLast
      <3>3. IsShown(course[n], shown', None)
        <4> SUFFICES ASSUME NEW c \in Channels PROVE Same(course[n][c], shown'[c])
          BY DEF IsShown
        <4>1. editing \in ChannelEdits /\ shown \in ChannelLists
          BY <3>1 DEF ChannelsInv, ChannelsTyped
        <4>2. shown'[c] = IF c = editing.id THEN editing.body ELSE shown[c]
          BY <1>3, <2>5, <3>1, <4>1 DEF ChannelLists
        <4> QED BY <2>3, <3>1, <4>2 DEF IsShown, Same
      <3> QED BY <1>1, <1>3, <2>2, <2>4, <2>5, <3>1, <3>2, <3>3 DEF Quiet
    <2>6. CASE call.kind # "PUT"
      <3>1. EditIsLast(rest, editing)
        <4>1. ASSUME NEW k \in 1..Len(rest), rest[k].kind = "PUT"
              PROVE  k = Len(rest) /\ editing # None
          <5>1. k + 1 \in 1..n /\ channelCalls[k + 1].kind = "PUT"
            BY <1>1, <1>2, <2>1, <4>1
          <5>2. k + 1 = n /\ editing # None
            BY <2>2, <5>1 DEF EditIsLast, n
          <5> QED BY <1>1, <1>2, <5>2
        <4>2. ASSUME editing # None
              PROVE  /\ Len(rest) > 0 /\ rest[Len(rest)] = channelCalls[n]
          <5>1. channelCalls[n].kind = "PUT"
            BY <2>2, <4>2 DEF EditIsLast, n
          <5>2. n # 1
            BY <2>1, <2>6, <5>1 DEF call
          <5>3. Len(rest) > 0 /\ n - 1 \in 1..(n - 1) /\ (n - 1) + 1 = n
            BY <1>1, <1>2, <5>2
          <5> QED BY <1>2, <2>1, <5>3
        <4> QED BY <2>2, <4>1, <4>2 DEF EditIsLast, n
      <3>2. shown' = shown /\ editing' = editing
        BY <1>3, <2>6
      <3> QED BY <1>1, <2>2, <2>3, <2>4, <3>1, <3>2 DEF Quiet
    <2> QED BY <2>5, <2>6
  <1> QED BY <1>4, <1>5 DEF ChannelsInv

\* What is missing on the screen is missing there, and what is shown is stored.
LEMMA AlikeIsThere ==
    ASSUME NEW x, NEW y, Same(x, y), y \notin {None, Unused, Gone}
    PROVE  x = y
  BY DEF Same

LEMMA SaveNewKeeps ==
    ASSUME ChannelsInv, NEW c \in Channels, NEW config \in Configs, HandleSaveNew(c, config)
    PROVE  ChannelsInv'
  <1> DEFINE new == [enabled |-> TRUE, config |-> config]
             call == [kind |-> "POST", id |-> c, body |-> new]
  <1>1. new \in Channel
    <2>1. TRUE \in BOOLEAN
      BY Zenon
    <2> QED BY <2>1 DEF Channel
  <1>2. /\ editing = None /\ Len(channelCalls) < MaxCalls
        /\ channelCalls' = Append(channelCalls, call)
        /\ disturbed' = (disturbed \/ loading # None) /\ shown' = [shown EXCEPT ![c] = new]
        /\ UNCHANGED <<channelStore, channelCache, loading, editing>>
    BY DEF HandleSaveNew, Send
  <1> HIDE DEF new
  <1>3. \A entries \in ChannelLists : Handled(entries, call) = [entries EXCEPT ![c] = new]
    BY DEF Handled, Posted
  <1>4. call \in ChannelCall /\ call.kind # "PUT"
    BY <1>1 DEF ChannelCall
  <1> HIDE DEF call
  <1> QED BY <1>1, <1>2, <1>3, <1>4, SentAndShown, ZenonT(30)

LEMMA ToggleKeeps ==
    ASSUME ChannelsInv, NEW c \in Channels, HandleToggleChannel(c)
    PROVE  ChannelsInv'
  <1> DEFINE body == [shown[c] EXCEPT !.enabled = ~ @]
             call == [kind |-> "TOGGLE", id |-> c, body |-> body]
  <1>1. /\ editing = None /\ There(shown, c) /\ Len(channelCalls) < MaxCalls
        /\ channelCalls' = Append(channelCalls, call)
        /\ disturbed' = (disturbed \/ loading # None)
        /\ shown' = [shown EXCEPT ![c] = body]
        /\ UNCHANGED <<channelStore, channelCache, loading, editing>>
    BY DEF HandleToggleChannel, Send
  <1>2. shown[c] \in Channel
    BY <1>1 DEF ChannelsInv, ChannelsTyped, ChannelLists, There
  <1>3. /\ body \in Channel
        /\ body = [shown[c] EXCEPT !.enabled = body.enabled]
    <2> DEFINE on == ~ shown[c].enabled
    <2>1. on \in BOOLEAN
      BY Zenon
    <2>2. body = [shown[c] EXCEPT !.enabled = on]
      OBVIOUS
    <2> HIDE DEF on
    <2>3. body.enabled = on
      BY <1>2, <2>2 DEF Channel
    <2> QED BY <1>2, <2>1, <2>2, <2>3 DEF Channel
  <1> HIDE DEF body
  <1>4. ASSUME NEW entries \in ChannelLists, Same(entries[c], shown[c])
        PROVE  Handled(entries, call) = [entries EXCEPT ![c] = body]
    <2>1. entries[c] = shown[c]
      BY <1>1, <1>4, AlikeIsThere DEF There
    <2>2. Handled(entries, call) = [entries EXCEPT ![c] = [entries[c] EXCEPT !.enabled = body.enabled]]
      BY <1>1, <2>1 DEF Handled, There
    <2> QED BY <1>3, <2>1, <2>2
  <1>5. call \in ChannelCall /\ call.kind # "PUT"
    BY <1>3 DEF ChannelCall
  <1> HIDE DEF call
  <1>6. body \in Channel \cup {Unused, Gone}
    BY <1>3
  <1> QED BY <1>1, <1>4, <1>5, <1>6, SentAndShown, ZenonT(30)

LEMMA DeleteChannelKeeps ==
    ASSUME ChannelsInv, NEW c \in Channels, HandleDeleteChannel(c)
    PROVE  ChannelsInv'
  <1> DEFINE call == [kind |-> "DELETE", id |-> c, body |-> None]
  <1>1. /\ editing = None /\ There(shown, c) /\ Len(channelCalls) < MaxCalls
        /\ channelCalls' = Append(channelCalls, call)
        /\ disturbed' = (disturbed \/ loading # None)
        /\ shown' = [shown EXCEPT ![c] = Gone]
        /\ UNCHANGED <<channelStore, channelCache, loading, editing>>
    BY DEF HandleDeleteChannel, Send
  <1>2. ASSUME NEW entries \in ChannelLists, Same(entries[c], shown[c])
        PROVE  Handled(entries, call) = [entries EXCEPT ![c] = Gone]
    <2>1. entries[c] = shown[c]
      BY <1>1, <1>2, AlikeIsThere DEF There
    <2> QED BY <1>1, <2>1 DEF Handled, There
  <1>3. call \in ChannelCall /\ call.kind # "PUT"
    BY DEF ChannelCall
  <1> HIDE DEF call
  <1> QED BY <1>1, <1>2, <1>3, SentAndShown

\* An edit is not shown before its answer: it is what the screen waits for.
LEMMA SaveEditKeeps ==
    ASSUME ChannelsInv, NEW c \in Channels, NEW config \in Configs, HandleSaveEdit(c, config)
    PROVE  ChannelsInv'
  <1> DEFINE body == [shown[c] EXCEPT !.config = config]
             call == [kind |-> "PUT", id |-> c, body |-> body]
             edit == [id |-> c, body |-> body]
  <1>1. /\ editing = None /\ There(shown, c) /\ Len(channelCalls) < MaxCalls
        /\ channelCalls' = Append(channelCalls, call)
        /\ disturbed' = (disturbed \/ loading # None) /\ editing' = edit
        /\ UNCHANGED <<channelStore, shown, channelCache, loading>>
    BY DEF HandleSaveEdit, Send
  <1>2. shown[c] \in Channel
    BY <1>1 DEF ChannelsInv, ChannelsTyped, ChannelLists, There
  <1>3. body \in Channel
    BY <1>2 DEF Channel
  <1> HIDE DEF body
  <1>4. call \in ChannelCall /\ edit \in ChannelEdits /\ edit # None
    BY <1>3, EditIsARecord DEF ChannelCall, ChannelEdits
  <1>5. call.kind = "PUT" /\ call.id = c /\ call.body = body /\ edit.id = c /\ edit.body = body
    OBVIOUS
  <1> HIDE DEF call, edit
  <1>6. /\ channelCalls \in Seq(ChannelCall) /\ channelCalls' \in Seq(ChannelCall)
        /\ Len(channelCalls') = Len(channelCalls) + 1 /\ Len(channelCalls') =< MaxCalls
        /\ Len(channelCalls) \in Nat
        /\ channelCalls'[Len(channelCalls')] = call
        /\ \A i \in 1..Len(channelCalls) : channelCalls'[i] = channelCalls[i]
    BY <1>1, <1>4, AlertChannelsAssumption DEF ChannelsInv, ChannelsTyped
  <1>7. disturbed' \in BOOLEAN
    BY <1>1, Zenon
  <1>8. ChannelsTyped'
    BY <1>1, <1>4, <1>6, <1>7 DEF ChannelsInv, ChannelsTyped
  <1>9. ASSUME ~ disturbed' PROVE Quiet'
    <2>1. ~ disturbed /\ loading = None
      BY <1>1, <1>9
    <2>2. EditIsLast(channelCalls, editing)
      BY <2>1 DEF ChannelsInv, Quiet
    <2>3. EditIsLast(channelCalls', edit)
      <3>1. \A i \in 1..Len(channelCalls) : channelCalls'[i].kind # "PUT"
        BY <1>1, <1>6, <2>2 DEF EditIsLast
      <3> QED BY <1>4, <1>5, <1>6, <3>1 DEF EditIsLast
    <2>4. PICK course : /\ IsCourse(course, channelStore, channelCalls)
                        /\ IsShown(course[Len(channelCalls)], shown, editing)
      BY <2>1 DEF ChannelsInv, Quiet
    <2> DEFINE entries == course[Len(channelCalls)]
    <2>5. entries \in ChannelLists
      <3>1. Len(channelCalls) \in 0..Len(channelCalls)
        BY <1>6
      <3> QED BY <2>4, <3>1 DEF IsCourse
    <2>6. \A d \in Channels : Same(entries[d], shown[d])
      BY <1>1, <2>4 DEF IsShown
    <2>7. PICK longer : /\ IsCourse(longer, channelStore, channelCalls')
                        /\ longer[Len(channelCalls')] = Handled(entries, call)
      <3>1. \E longer : /\ IsCourse(longer, channelStore, Append(channelCalls, call))
                        /\ longer[Len(Append(channelCalls, call))] = Handled(entries, call)
        BY <1>4, <1>6, <2>4, CourseGrows
      <3> QED BY <1>1, <3>1
    <2> HIDE DEF entries
    <2>8. Handled(entries, call) = [entries EXCEPT ![c] = body]
      <3>1. entries[c] = shown[c]
        BY <1>1, <2>6, AlikeIsThere DEF There
      <3> QED BY <1>1, <1>5, <3>1 DEF Handled, There
    <2>9. IsShown(Handled(entries, call), shown, edit)
      <3> SUFFICES ASSUME NEW d \in Channels
                   PROVE  IF d = c THEN Handled(entries, call)[d] = body
                                   ELSE Same(Handled(entries, call)[d], shown[d])
        BY <1>4, <1>5 DEF IsShown
      <3>1. CASE d = c
        BY <2>5, <2>8, <3>1 DEF ChannelLists
      <3>2. CASE d # c
        <4>1. Handled(entries, call)[d] = entries[d]
          BY <2>5, <2>8, <3>2 DEF ChannelLists
        <4> QED BY <2>6, <3>2, <4>1
      <3> QED BY <3>1, <3>2
    <2> QED BY <1>1, <2>1, <2>3, <2>7, <2>9 DEF Quiet
  <1> QED BY <1>8, <1>9 DEF ChannelsInv

\* Nothing is under way: what is shown is what is stored.
LEMMA AlikeIsQuiet ==
    ASSUME NEW store \in ChannelLists, NEW drawn,
           \A c \in Channels : Same(store[c], drawn[c])
    PROVE  /\ EditIsLast(<<>>, None)
           /\ \E course : IsCourse(course, store, <<>>) /\ IsShown(course[Len(<<>>)], drawn, None)
  <1> DEFINE course == [i \in 0..0 |-> store]
  <1>1. IsCourse(course, store, <<>>)
    BY DEF IsCourse
  <1>2. IsShown(course[Len(<<>>)], drawn, None)
    BY DEF IsShown
  <1>3. EditIsLast(<<>>, None)
    BY DEF EditIsLast
  <1> HIDE DEF course
  <1> QED BY <1>1, <1>2, <1>3

LEMMA ChannelsStep == ChannelsInv /\ [ChannelsNext]_channelVars => ChannelsInv'
  <1> SUFFICES ASSUME ChannelsInv, [ChannelsNext]_channelVars PROVE ChannelsInv'
    OBVIOUS
  <1>0. /\ ChannelsTyped /\ MaxCalls \in Nat /\ None \notin ChannelLists
        /\ ~ disturbed => Quiet
    BY AlertChannelsAssumption DEF ChannelsInv
  <1>1. ASSUME NEW i \in 1..MaxCalls, IsLost(i) PROVE ChannelsInv'
    <2>1. /\ i \in 1..Len(channelCalls) /\ channelCalls' = Without(channelCalls, i)
          /\ UNCHANGED <<channelStore, shown, channelCache, loading>>
      BY <1>1 DEF IsLost
    <2>2. editing' = None \/ editing' \in ChannelEdits
      BY <1>0, <1>1 DEF IsLost, ChannelsTyped
    <2>3. disturbed' /\ disturbed' \in BOOLEAN
      BY <1>1, Zenon DEF IsLost
    <2>4. channelCalls \in Seq(ChannelCall) /\ Len(channelCalls) =< MaxCalls
      BY <1>0 DEF ChannelsTyped
    <2>5. /\ channelCalls' \in Seq(ChannelCall) /\ Len(channelCalls') = Len(channelCalls) - 1
      BY <2>1, <2>4, WithoutProperties
    <2>6. Len(channelCalls') =< MaxCalls
      BY <1>0, <2>4, <2>5
    <2>7. ChannelsTyped'
      BY <1>0, <2>1, <2>2, <2>3, <2>5, <2>6 DEF ChannelsTyped
    <2> QED BY <2>3, <2>7 DEF ChannelsInv
  <1>2. CASE FetchChannels
    <2>1. /\ loading = None /\ editing = None /\ loading' = channelStore
          /\ disturbed' = (disturbed \/ channelCalls # <<>>)
          /\ UNCHANGED <<channelStore, shown, channelCache, channelCalls, editing>>
      BY <1>2 DEF FetchChannels
    <2>2. disturbed' \in BOOLEAN
      BY <2>1, Zenon
    <2>3. ChannelsTyped'
      BY <1>0, <2>1, <2>2 DEF ChannelsTyped
    <2>4. ASSUME ~ disturbed' PROVE Quiet'
      <3>1. ~ disturbed /\ channelCalls = <<>>
        BY <2>1, <2>4
      <3>2. loading' # None
        BY <1>0, <2>1 DEF ChannelsTyped
      <3> QED BY <1>0, <2>1, <3>1, <3>2 DEF Quiet
    <2> QED BY <2>3, <2>4 DEF ChannelsInv
  <1>3. CASE ReopenScreen
    <2>1. /\ shown' = channelCache /\ loading' = channelStore /\ editing' = None
          /\ disturbed' = (disturbed \/ channelCalls # <<>>)
          /\ UNCHANGED <<channelStore, channelCache, channelCalls>>
      BY <1>3 DEF ReopenScreen
    <2>2. disturbed' \in BOOLEAN
      BY <2>1, Zenon
    <2>3. ChannelsTyped'
      BY <1>0, <2>1, <2>2 DEF ChannelsTyped
    <2>4. ASSUME ~ disturbed' PROVE Quiet'
      <3>1. ~ disturbed /\ channelCalls = <<>>
        BY <2>1, <2>4
      <3>2. loading' # None
        BY <1>0, <2>1 DEF ChannelsTyped
      <3>3. EditIsLast(<<>>, None)
        BY DEF EditIsLast
      <3> QED BY <2>1, <3>1, <3>2, <3>3 DEF Quiet
    <2> QED BY <2>3, <2>4 DEF ChannelsInv
  <1>4. CASE ChannelsLoaded
    <2>1. /\ loading # None /\ editing = None /\ loading' = None
          /\ UNCHANGED <<channelStore, channelCalls, editing>>
      BY <1>4 DEF ChannelsLoaded
    <2>2. CASE Listed(loading) # {}
      <3>1. shown' = loading /\ channelCache' = loading /\ disturbed' = disturbed
        BY <1>4, <2>2 DEF ChannelsLoaded
      <3>2. ChannelsTyped'
        BY <1>0, <2>1, <3>1 DEF ChannelsTyped
      <3>3. ASSUME ~ disturbed' PROVE Quiet'
        <4>1. channelCalls = <<>> /\ shown' = channelStore
          BY <1>0, <2>1, <3>1, <3>3 DEF Quiet
        <4>2. channelStore \in ChannelLists /\ \A c \in Channels : Same(channelStore[c], shown'[c])
          BY <1>0, <4>1 DEF ChannelsTyped, Same
        <4> QED BY <2>1, <4>1, <4>2, AlikeIsQuiet DEF Quiet
      <3> QED BY <3>2, <3>3 DEF ChannelsInv
    <2>3. CASE Listed(loading) = {}
      <3>1. /\ shown' = shown /\ channelCache' = channelCache
            /\ disturbed' = (disturbed \/ Listed(shown) # {})
        BY <1>4, <2>3 DEF ChannelsLoaded
      <3>2. disturbed' \in BOOLEAN
        BY <3>1, Zenon
      <3>3. ChannelsTyped'
        BY <1>0, <2>1, <3>1, <3>2 DEF ChannelsTyped
      <3>4. ASSUME ~ disturbed' PROVE Quiet'
        <4>1. ~ disturbed /\ Listed(shown) = {}
          BY <3>1, <3>4
        <4>2. channelCalls = <<>> /\ loading = channelStore
          BY <1>0, <2>1, <4>1 DEF Quiet
        <4>3. \A c \in Channels : Same(channelStore[c], shown[c])
          BY <2>3, <4>1, <4>2 DEF Listed, There, Same
        <4>4. channelStore \in ChannelLists
          BY <1>0 DEF ChannelsTyped
        <4> QED BY <2>1, <3>1, <4>2, <4>3, <4>4, AlikeIsQuiet DEF Quiet
      <3> QED BY <3>3, <3>4 DEF ChannelsInv
    <2> QED BY <2>2, <2>3
  <1>5. CASE ChannelsNotLoaded
    <2>1. disturbed' /\ disturbed' \in BOOLEAN
      BY <1>5, Zenon DEF ChannelsNotLoaded
    <2> QED BY <1>0, <1>5, <2>1 DEF ChannelsNotLoaded, ChannelsTyped, ChannelsInv
  <1>6. CASE UNCHANGED channelVars
    BY <1>0, <1>6 DEF channelVars, ChannelsTyped, Quiet, ChannelsInv
  <1> QED BY <1>1, <1>2, <1>3, <1>4, <1>5, <1>6, ArrivesKeeps, SaveNewKeeps, SaveEditKeeps,
             ToggleKeeps, DeleteChannelKeeps DEF ChannelsNext

LEMMA ChannelsBegin == ChannelsInit => ChannelsInv
  <1> SUFFICES ASSUME ChannelsInit PROVE ChannelsInv
    OBVIOUS
  <1>1. PICK entries \in [Channels -> {Unused} \cup [enabled : {TRUE}, config : Configs]] :
          /\ channelStore = entries /\ shown = entries /\ channelCache = entries
          /\ channelCalls = <<>> /\ loading = None /\ editing = None /\ disturbed = FALSE
    BY DEF ChannelsInit
  <1>2. [enabled : {TRUE}, config : Configs] \subseteq Channel
    <2>1. {TRUE} \subseteq BOOLEAN
      BY Zenon
    <2> QED BY <2>1 DEF Channel
  <1>3. entries \in ChannelLists
    BY <1>1, <1>2 DEF ChannelLists
  <1>4. disturbed \in BOOLEAN
    BY <1>1, Zenon
  <1>5. ChannelsTyped
    BY <1>1, <1>3, <1>4, AlertChannelsAssumption DEF ChannelsTyped
  <1>6. \A c \in Channels : Same(channelStore[c], shown[c])
    BY <1>1 DEF Same
  <1> QED BY <1>1, <1>3, <1>5, <1>6, AlikeIsQuiet DEF Quiet, ChannelsInv

\* For any channels and any number of calls under way: when nothing is under way,
\* nothing was lost and nothing overtook anything, the screen shows what is
\* stored, although only an edit ever looks at an answer (AlertChannelsView.jsx
\* with the routes of alert channels).
THEOREM ScreenIsInStep == ChannelsInit /\ [][ChannelsNext]_channelVars => []InStepWhenQuiet
  <1>1. ChannelsInv => InStepWhenQuiet
    <2> SUFFICES ASSUME ChannelsInv, ~ disturbed, channelCalls = <<>>, loading = None,
                        NEW c \in Listed(channelStore) \cup Listed(shown)
                 PROVE  shown[c] = channelStore[c]
      BY DEF InStepWhenQuiet
    <2>1. PICK course : /\ IsCourse(course, channelStore, channelCalls)
                        /\ IsShown(course[Len(channelCalls)], shown, editing)
      BY DEF ChannelsInv, Quiet
    <2>2. editing = None
      BY DEF ChannelsInv, Quiet, EditIsLast
    <2>3. course[Len(channelCalls)] = channelStore
      BY <2>1 DEF IsCourse
    <2> QED BY <2>1, <2>2, <2>3 DEF IsShown, Same, Listed, There
  <1> QED BY <1>1, ChannelsBegin, ChannelsStep, PTL
-----------------------------------------------------------------------------
(* Hypervisors and what the page makes up for them *)

\* A set of numbers has a least one.
LEMMA LeastOfNumbers ==
    ASSUME NEW S \in SUBSET Nat, S # {}
    PROVE  \E x \in S : \A y \in S : x <= y
  <1>1. PICK x \in S : \A y \in S : ~ (<<y, x>> \in OpToRel(<, Nat))
    BY NatLessThanWellFounded, WFMin
  <1>2. ASSUME NEW y \in S PROVE x <= y
    <2>1. x \in Nat /\ y \in Nat /\ ~ (y < x)
      BY <1>1 DEF OpToRel
    <2> QED BY <2>1
  <1> QED BY <1>2

\* A set with 0, and with every next number up to n, has n.
LEMMA UpToLast ==
    ASSUME NEW n \in Nat, NEW G, 0 \in G, \A k \in 0..n : k \in G /\ k < n => k + 1 \in G
    PROVE  n \in G
  <1> DEFINE Bad == {k \in 0..n : k \notin G}
  <1> SUFFICES ASSUME n \notin G PROVE FALSE
    OBVIOUS
  <1>1. Bad \in SUBSET Nat /\ n \in Bad
    OBVIOUS
  <1>2. PICK k \in Bad : \A m \in Bad : k <= m
    BY <1>1, LeastOfNumbers
  <1>3. k \in 0..n /\ k \notin G /\ k # 0
    BY <1>2
  <1>4. k - 1 \in 0..n /\ k - 1 < n /\ (k - 1) + 1 = k /\ ~ (k <= k - 1)
    BY <1>3
  <1>5. k - 1 \in G
    BY <1>2, <1>4
  <1> QED BY <1>3, <1>4, <1>5

MadeBySteps(f, n, first, next) ==
    f[0] = first /\ \A i \in 1..n : f[i] = next[<<f[i - 1], i>>]

StepsWithin(V, n, next) == \A v \in V, i \in 1..n : next[<<v, i>>] \in V

\* What is made step by step can be made to the end.
LEMMA StepsGoOn ==
    ASSUME NEW n \in Nat, NEW V, NEW first \in V, NEW next, StepsWithin(V, n, next)
    PROVE  \E f \in [0..n -> V] : MadeBySteps(f, n, first, next)
  <1> DEFINE Made(k, f) == f \in [0..k -> V] /\ MadeBySteps(f, k, first, next)
             G == {k \in 0..n : \E f : Made(k, f)}
  <1>1. 0 \in G
    <2> DEFINE f == [i \in 0..0 |-> first]
    <2>1. Made(0, f)
      BY DEF MadeBySteps
    <2> QED BY <2>1
  <1>2. ASSUME NEW k \in 0..n, k < n, k \in G PROVE k + 1 \in G
    <2>1. PICK f : Made(k, f)
      BY <1>2
    <2> DEFINE new == next[<<f[k], k + 1>>]
               g == [i \in 0..(k + 1) |-> IF i = k + 1 THEN new ELSE f[i]]
    <2>2. f \in [0..k -> V] /\ f[0] = first /\ \A i \in 1..k : f[i] = next[<<f[i - 1], i>>]
      BY <2>1 DEF MadeBySteps
    <2>3. f[k] \in V /\ k + 1 \in 1..n
      BY <1>2, <2>2
    <2>4. new \in V
      BY <2>3 DEF StepsWithin
    <2> HIDE DEF new
    <2>5. g \in [0..(k + 1) -> V] /\ g[0] = first
      BY <1>2, <2>2, <2>4
    <2>6. ASSUME NEW i \in 1..(k + 1) PROVE g[i] = next[<<g[i - 1], i>>]
      <3>1. CASE i = k + 1
        <4>1. g[i] = new /\ g[i - 1] = f[k]
          BY <1>2, <3>1
        <4> QED BY <3>1, <4>1 DEF new
      <3>2. CASE i # k + 1
        <4>1. i \in 1..k /\ g[i] = f[i] /\ g[i - 1] = f[i - 1]
          BY <1>2, <3>2
        <4> QED BY <2>2, <4>1
      <3> QED BY <3>1, <3>2
    <2> HIDE DEF g
    <2>7. Made(k + 1, g) /\ k + 1 \in 0..n
      BY <1>2, <2>5, <2>6 DEF MadeBySteps
    <2> HIDE DEF Made
    <2> QED BY <2>7
  <1>3. n \in G
    <2> HIDE DEF G
    <2> QED BY <1>1, <1>2, UpToLast
  <1> QED BY <1>3

\* The effect visits the integrations one by one.
LEMMA AutoSyncVisits ==
    ASSUME NEW hs \in Seq(Hypervisors), NEW rows
    PROVE  \E after : /\ after[0] = rows /\ after[Len(hs)] = AutoSync(rows, hs)
                      /\ \A i \in 1..Len(hs) : after[i] = Replaced(after[i - 1], hs[i])
  <1> DEFINE n == Len(hs)
             V == SUBSET (rows \cup Hypervisors)
             next == [p \in V \X (1..n) |-> Replaced(p[1], hs[p[2]])]
             Body(f) == [i \in 0..n |-> IF i = 0 THEN rows ELSE Replaced(f[i - 1], hs[i])]
             made == CHOOSE g : g = Body(g)
  <1>1. n \in Nat /\ \A i \in 1..n : hs[i] \in Hypervisors
    OBVIOUS
  <1>2. \A s \in V, h \in Hypervisors : Replaced(s, h) \in V
    BY DEF Replaced, Generated
  <1>3. \A s \in V, i \in 1..n : next[<<s, i>>] = Replaced(s, hs[i]) /\ next[<<s, i>>] \in V
    BY <1>1, <1>2
  <1> HIDE DEF n, V, next
  <1>4. PICK f \in [0..n -> V] : f[0] = rows /\ \A i \in 1..n : f[i] = next[<<f[i - 1], i>>]
    <2>1. n \in Nat /\ rows \in V /\ StepsWithin(V, n, next)
      BY <1>1, <1>3 DEF V, StepsWithin
    <2>2. \E f \in [0..n -> V] : MadeBySteps(f, n, rows, next)
      BY <2>1, StepsGoOn
    <2> QED BY <2>2 DEF MadeBySteps
  <1>5. \A i \in 1..n : f[i] = Replaced(f[i - 1], hs[i])
    <2> SUFFICES ASSUME NEW i \in 1..n PROVE f[i] = Replaced(f[i - 1], hs[i])
      OBVIOUS
    <2>1. i - 1 \in 0..n
      BY <1>1
    <2> QED BY <1>3, <1>4, <2>1
  <1>6. f = Body(f)
    <2>1. \A i \in 0..n : f[i] = IF i = 0 THEN rows ELSE Replaced(f[i - 1], hs[i])
      BY <1>1, <1>4, <1>5
    <2> QED BY <1>4, <2>1
  <1>7. made = Body(made)
    <2> HIDE DEF Body
    <2> QED BY <1>6
  <1>8. AutoSync(rows, hs) = made[n]
    BY DEF AutoSync, n
  <1> HIDE DEF made
  <1>9. made[0] = rows /\ \A i \in 1..n : made[i] = Replaced(made[i - 1], hs[i])
    BY <1>1, <1>7
  <1> QED BY <1>8, <1>9 DEF n

\* What is of a tenant without integrations stays; of the others, what the last
\* integration of each is taken to have is there.
LEMMA AutoSyncShows ==
    ASSUME NEW hs \in Seq(Hypervisors), NEW rows
    PROVE  /\ \A r \in rows : \/ r \in AutoSync(rows, hs)
                              \/ \E j \in 1..Len(hs) : WorkspaceOf[hs[j]] = WorkspaceOf[r]
           /\ \A i \in 1..Len(hs) :
                 \/ hs[i] \in AutoSync(rows, hs)
                 \/ \E j \in 1..Len(hs) : j > i /\ WorkspaceOf[hs[j]] = WorkspaceOf[hs[i]]
  <1> DEFINE n == Len(hs)
  <1>1. n \in Nat
    OBVIOUS
  <1> HIDE DEF n
  <1>2. PICK after : /\ after[0] = rows /\ after[n] = AutoSync(rows, hs)
                     /\ \A i \in 1..n : after[i] = Replaced(after[i - 1], hs[i])
    BY AutoSyncVisits DEF n
  <1> DEFINE ShowsAll(k) ==
                /\ \A r \in rows : \/ r \in after[k]
                                   \/ \E j \in 1..k : WorkspaceOf[hs[j]] = WorkspaceOf[r]
                /\ \A i \in 1..k :
                      \/ hs[i] \in after[k]
                      \/ \E j \in 1..k : j > i /\ WorkspaceOf[hs[j]] = WorkspaceOf[hs[i]]
             G == {k \in 0..n : ShowsAll(k)}
  <1>3. 0 \in G
    BY <1>1, <1>2
  <1>4. ASSUME NEW k \in 0..n, k < n, k \in G PROVE k + 1 \in G
    <2>1. /\ k + 1 \in 1..n /\ k + 1 \in 0..n /\ (k + 1) - 1 = k
          /\ 1..k \subseteq 1..(k + 1) /\ k + 1 \in 1..(k + 1)
          /\ \A i \in 1..k : k + 1 > i
          /\ \A i \in 1..(k + 1) : i \in 1..k \/ i = k + 1
      BY <1>1, <1>4
    <2>2. after[k + 1] = {r \in after[k] : WorkspaceOf[r] # WorkspaceOf[hs[k + 1]]} \cup {hs[k + 1]}
      BY <1>2, <2>1 DEF Replaced, Generated
    <2>3. ShowsAll(k)
      BY <1>4
    <2>4. ASSUME NEW r \in rows
          PROVE  r \in after[k + 1] \/ \E j \in 1..(k + 1) : WorkspaceOf[hs[j]] = WorkspaceOf[r]
      BY <2>1, <2>2, <2>3
    <2>5. ASSUME NEW i \in 1..(k + 1)
          PROVE  \/ hs[i] \in after[k + 1]
                 \/ \E j \in 1..(k + 1) : j > i /\ WorkspaceOf[hs[j]] = WorkspaceOf[hs[i]]
      BY <2>1, <2>2, <2>3
    <2>6. ShowsAll(k + 1)
      BY <2>4, <2>5
    <2> HIDE DEF ShowsAll
    <2> QED BY <2>1, <2>6
  <1>5. n \in G
    <2> HIDE DEF G
    <2> QED BY <1>1, <1>3, <1>4, UpToLast
  <1> QED BY <1>2, <1>5 DEF n

LEMMA RangeOfAppend ==
    ASSUME NEW S, NEW s \in Seq(S), NEW e \in S
    PROVE  Range(Append(s, e)) = Range(s) \cup {e}
  <1> DEFINE t == Append(s, e)
  <1>1. /\ DOMAIN s = 1..Len(s) /\ DOMAIN t = 1..(Len(s) + 1) /\ t[Len(s) + 1] = e
        /\ \A i \in 1..Len(s) : t[i] = s[i]
        /\ Len(s) \in Nat
    OBVIOUS
  <1> HIDE DEF t
  <1>2. \A i \in 1..(Len(s) + 1) : i \in 1..Len(s) \/ i = Len(s) + 1
    BY <1>1
  <1>3. 1..Len(s) \subseteq 1..(Len(s) + 1) /\ Len(s) + 1 \in 1..(Len(s) + 1)
    BY <1>1
  <1>4. Range(t) = Range(s) \cup {e}
    BY <1>1, <1>2, <1>3 DEF Range
  <1> QED BY <1>4 DEF t

\* Without a duplicate before it, and with one value more that was not there.
LEMMA AppendIsInjective ==
    ASSUME NEW S, NEW s \in Seq(S), NEW e \in S, IsInjective(s), e \notin Range(s)
    PROVE  IsInjective(Append(s, e))
  <1>1. /\ DOMAIN Append(s, e) = 1..(Len(s) + 1) /\ DOMAIN s = 1..Len(s) /\ Len(s) \in Nat
        /\ \A i \in 1..Len(s) : Append(s, e)[i] = s[i] /\ s[i] # e
        /\ Append(s, e)[Len(s) + 1] = e
    BY DEF Range
  <1>2. \A i \in 1..(Len(s) + 1) : i \in 1..Len(s) \/ i = Len(s) + 1
    BY <1>1
  <1> QED BY <1>1, <1>2 DEF IsInjective

\* Merged, the list has what the page had, and no duplicate if there was none.
LEMMA MergedKeeps ==
    ASSUME NEW local \in Seq(Hypervisors), NEW remote \in Seq(Hypervisors)
    PROVE  /\ MergedLinks(local, remote) \in Seq(Hypervisors)
           /\ Range(local) \subseteq Range(MergedLinks(local, remote))
           /\ IsInjective(local) /\ IsInjective(remote)
                => IsInjective(MergedLinks(local, remote))
  <1> DEFINE n == Len(local)
             V == Seq(Hypervisors)
             Step(s, i) == IF Contains(remote, local[i]) THEN s ELSE Append(s, local[i])
             next == [p \in V \X (1..n) |-> Step(p[1], p[2])]
             Body(f) == [i \in 0..n |-> IF i = 0 THEN remote ELSE Step(f[i - 1], i)]
             made == CHOOSE g : g = Body(g)
  <1>1. n \in Nat /\ remote \in V /\ \A i \in 1..n : local[i] \in Hypervisors
    OBVIOUS
  <1>2. \A s \in V, i \in 1..n : Step(s, i) \in V
    BY <1>1
  <1>3. \A s \in V, i \in 1..n : next[<<s, i>>] = Step(s, i) /\ next[<<s, i>>] \in V
    BY <1>2
  <1> HIDE DEF n, V, next, Step
  <1>4. PICK f \in [0..n -> V] : f[0] = remote /\ \A i \in 1..n : f[i] = next[<<f[i - 1], i>>]
    <2>1. StepsWithin(V, n, next)
      BY <1>1, <1>3 DEF StepsWithin
    <2>2. \E f \in [0..n -> V] : MadeBySteps(f, n, remote, next)
      BY <1>1, <2>1, StepsGoOn
    <2> QED BY <2>2 DEF MadeBySteps
  <1>5. \A i \in 1..n : f[i] = Step(f[i - 1], i)
    <2> SUFFICES ASSUME NEW i \in 1..n PROVE f[i] = Step(f[i - 1], i)
      OBVIOUS
    <2>1. i - 1 \in 0..n
      BY <1>1
    <2> QED BY <1>3, <1>4, <2>1
  <1>6. f = Body(f)
    <2>1. \A i \in 0..n : f[i] = IF i = 0 THEN remote ELSE Step(f[i - 1], i)
      BY <1>1, <1>4, <1>5
    <2> QED BY <1>4, <2>1
  <1>7. made = Body(made)
    <2> HIDE DEF Body
    <2> QED BY <1>6
  <1>8. MergedLinks(local, remote) = made[n]
    BY DEF MergedLinks, n, Step
  <1> HIDE DEF made
  <1>9. made[0] = remote /\ \A i \in 1..n : made[i] = Step(made[i - 1], i)
    BY <1>1, <1>7
  <1> DEFINE Has(k) == /\ made[k] \in V /\ Range(remote) \subseteq Range(made[k])
                       /\ \A i \in 1..k : local[i] \in Range(made[k])
                       /\ Range(made[k]) \subseteq Range(remote) \cup {local[i] : i \in 1..k}
                       /\ IsInjective(local) /\ IsInjective(remote) => IsInjective(made[k])
             G == {k \in 0..n : Has(k)}
  <1>10. 0 \in G
    BY <1>1, <1>9
  <1>11. ASSUME NEW k \in 0..n, k < n, k \in G PROVE k + 1 \in G
    <2>1. /\ k + 1 \in 1..n /\ k + 1 \in 0..n /\ (k + 1) - 1 = k
          /\ \A i \in 1..(k + 1) : i \in 1..k \/ i = k + 1
          /\ {local[i] : i \in 1..(k + 1)} = {local[i] : i \in 1..k} \cup {local[k + 1]}
          /\ \A i \in 1..k : i \in 1..n /\ i # k + 1
      BY <1>1, <1>11
    <2>2. made[k + 1] = Step(made[k], k + 1) /\ Has(k)
      BY <1>9, <1>11, <2>1
    <2>3. made[k + 1] \in V
      BY <1>2, <2>1, <2>2
    <2>4. CASE Contains(remote, local[k + 1])
      <3>1. made[k + 1] = made[k]
        BY <2>2, <2>4 DEF Step
      <3>2. local[k + 1] \in Range(remote)
        BY <2>4 DEF Contains, Range
      <3>3. Has(k + 1)
        BY <2>1, <2>2, <2>3, <3>1, <3>2
      <3> HIDE DEF Has
      <3> QED BY <2>1, <3>3
    <2>5. CASE ~ Contains(remote, local[k + 1])
      <3> DEFINE s == made[k]
      <3>1. made[k + 1] = Append(s, local[k + 1]) /\ s \in Seq(Hypervisors)
            /\ local[k + 1] \in Hypervisors
        BY <1>1, <2>1, <2>2, <2>5 DEF Step, V
      <3> HIDE DEF s
      <3>2. Range(made[k + 1]) = Range(s) \cup {local[k + 1]}
        BY <3>1, RangeOfAppend
      <3>3. IsInjective(local) /\ IsInjective(remote) => IsInjective(made[k + 1])
        <4> SUFFICES ASSUME IsInjective(local), IsInjective(remote)
                     PROVE  IsInjective(made[k + 1])
          OBVIOUS
        <4>1. local[k + 1] \notin Range(remote)
          BY <2>5 DEF Contains, Range
        <4>2. \A i \in 1..k : local[i] # local[k + 1]
          BY <2>1 DEF IsInjective, n
        <4>3. local[k + 1] \notin Range(s) /\ IsInjective(s)
          BY <2>2, <4>1, <4>2 DEF s
        <4> QED BY <3>1, <4>3, AppendIsInjective
      <3>4. Range(made[k + 1]) \subseteq Range(remote) \cup {local[i] : i \in 1..(k + 1)}
        BY <2>1, <2>2, <3>2 DEF s
      <3>5. Has(k + 1)
        BY <2>1, <2>2, <2>3, <3>2, <3>3, <3>4 DEF s
      <3> HIDE DEF Has
      <3> QED BY <2>1, <3>5
    <2> QED BY <2>4, <2>5
  <1>12. n \in G
    <2> HIDE DEF G
    <2> QED BY <1>1, <1>10, <1>11, UpToLast
  <1> QED BY <1>8, <1>12 DEF n, V, Range

\* Every integration listed is one, posts of integrations name one, and the lists
\* show what they should.
HypervisorsInv ==
    /\ links \in Seq(Hypervisors) /\ storedLinks \in Seq(Hypervisors)
    /\ \A p \in posted : p[1] = "integrations" => p[2] \in Hypervisors
    /\ SyncStaysInItsTenant

\* Whenever the effect has gone through a list that has the integrations of
\* before, over all that was typed but for their tenants, nothing is missing.
LEMMA EffectIsEnough ==
    ASSUME HypervisorsInv, links' \in Seq(Hypervisors), Range(links) \subseteq Range(links'),
           typedHere' = typedHere,
           NEW rows, inventory' = AutoSync(rows, links'),
           \A r \in inventory : \/ r \in rows
                               \/ \E h \in Range(links') : WorkspaceOf[h] = WorkspaceOf[r]
    PROVE  SyncStaysInItsTenant'
  <1> DEFINE hs == links'
  <1>1. /\ \A r \in rows : \/ r \in AutoSync(rows, hs)
                           \/ \E j \in 1..Len(hs) : WorkspaceOf[hs[j]] = WorkspaceOf[r]
        /\ \A i \in 1..Len(hs) :
              \/ hs[i] \in AutoSync(rows, hs)
              \/ \E j \in 1..Len(hs) : j > i /\ WorkspaceOf[hs[j]] = WorkspaceOf[hs[i]]
    BY AutoSyncShows
  <1>2. DOMAIN hs = 1..Len(hs) /\ Range(hs) = {hs[j] : j \in 1..Len(hs)}
    BY DEF Range
  <1>3. ASSUME NEW m \in typedHere'
        PROVE  m \in inventory' \/ \E h \in Range(links') : WorkspaceOf[h] = WorkspaceOf[m]
    <2>1. m \in inventory \/ \E h \in Range(links') : WorkspaceOf[h] = WorkspaceOf[m]
      BY <1>3 DEF HypervisorsInv, SyncStaysInItsTenant
    <2> QED BY <1>1, <1>2, <2>1
  <1>4. \A i \in DOMAIN links' :
           \/ links'[i] \in inventory'
           \/ \E j \in DOMAIN links' : j > i /\ WorkspaceOf[links'[j]] = WorkspaceOf[links'[i]]
    BY <1>1, <1>2
  <1> QED BY <1>3, <1>4 DEF SyncStaysInItsTenant

\* Where more is shown and the integrations are as before, nothing is missing.
LEMMA MoreIsEnough ==
    ASSUME HypervisorsInv, links' = links, inventory \subseteq inventory',
           typedHere' \subseteq typedHere \cup inventory'
    PROVE  SyncStaysInItsTenant'
  BY DEF HypervisorsInv, SyncStaysInItsTenant

LEMMA StoreKeepsLinks ==
    ASSUME HypervisorsInv, NEW l, NEW id, Store(l, id),
           l = "integrations" => id \in Hypervisors
    PROVE  storedLinks' \in Seq(Hypervisors)
  BY DEF HypervisorsInv, Store

LEMMA HypervisorsStep ==
    HypervisorsInv /\ [HypervisorsNext]_hypervisorVars => HypervisorsInv'
  <1> SUFFICES ASSUME HypervisorsInv, [HypervisorsNext]_hypervisorVars
               PROVE  HypervisorsInv'
    OBVIOUS
  <1>0. /\ links \in Seq(Hypervisors) /\ storedLinks \in Seq(Hypervisors)
        /\ \A p \in posted : p[1] = "integrations" => p[2] \in Hypervisors
    BY DEF HypervisorsInv
  <1>1. ASSUME NEW h \in Hypervisors, HandleAddIntegration(h) PROVE HypervisorsInv'
    <2>1. /\ links' = Append(links, h) /\ inventory' = AutoSync(Replaced(inventory, h), links')
          /\ posted' = posted \cup Posts("integrations", {h})
          /\ storedLinks' = storedLinks /\ typedHere' = typedHere
      BY <1>1 DEF HandleAddIntegration
    <2>2. links' \in Seq(Hypervisors)
      BY <1>0, <2>1
    <2>3. Range(links') = Range(links) \cup {h}
      BY <1>0, <2>1, RangeOfAppend
    <2>4. \A r \in inventory : r \in Replaced(inventory, h) \/ WorkspaceOf[h] = WorkspaceOf[r]
      BY DEF Replaced
    <2>5. SyncStaysInItsTenant'
      BY <2>1, <2>2, <2>3, <2>4, EffectIsEnough
    <2> QED BY <1>0, <2>1, <2>2, <2>5 DEF HypervisorsInv, Posts
  <1>2. ASSUME NEW rows, inventory \subseteq rows, inventory' = AutoSync(rows, links),
               links' = links, storedLinks' = storedLinks, posted' = posted,
               typedHere' = typedHere
        PROVE  HypervisorsInv'
    <2>1. SyncStaysInItsTenant'
      BY <1>0, <1>2, EffectIsEnough
    <2> QED BY <1>0, <1>2, <2>1 DEF HypervisorsInv
  <1>3. ASSUME NEW h \in Hypervisors, HandleUpdateIntegration(h) PROVE HypervisorsInv'
    BY <1>2, <1>3 DEF HandleUpdateIntegration
  <1>4. ASSUME NEW h \in Hypervisors, NEW answered \in BOOLEAN, HandleTriggerSync(h, answered)
        PROVE  HypervisorsInv'
    <2> DEFINE rows == IF answered THEN inventory ELSE inventory \cup Generated(h)
    <2>1. inventory \subseteq rows
      OBVIOUS
    <2>2. /\ inventory' = AutoSync(rows, links) /\ links' = links /\ storedLinks' = storedLinks
          /\ posted' = posted /\ typedHere' = typedHere
      BY <1>4 DEF HandleTriggerSync
    <2> HIDE DEF rows
    <2> QED BY <1>2, <2>1, <2>2
  <1>5. CASE MountApp
    BY <1>2, <1>5 DEF MountApp
  <1>6. ASSUME NEW m \in Machines, HandleAddWorkload(m) PROVE HypervisorsInv'
    <2>1. /\ links' = links /\ inventory' = inventory \cup {m} /\ storedLinks' = storedLinks
          /\ typedHere' = typedHere \cup {m} /\ posted' = posted \cup Posts("resources", {m})
      BY <1>6 DEF HandleAddWorkload
    <2>2. SyncStaysInItsTenant'
      BY <2>1, MoreIsEnough
    <2> QED BY <1>0, <2>1, <2>2 DEF HypervisorsInv, Posts
  <1>7. CASE ReceiveIntegrations
    <2>1. /\ links' = MergedLinks(links, storedLinks) /\ inventory' = AutoSync(inventory, links')
          /\ posted' = posted \cup Posts("integrations", Range(links) \ Range(storedLinks))
          /\ storedLinks' = storedLinks /\ typedHere' = typedHere
      BY <1>7 DEF ReceiveIntegrations
    <2>2. links' \in Seq(Hypervisors) /\ Range(links) \subseteq Range(links')
      BY <1>0, <2>1, MergedKeeps
    <2>3. SyncStaysInItsTenant'
      BY <2>1, <2>2, EffectIsEnough
    <2>4. Range(links) \subseteq Hypervisors
      BY <1>0 DEF Range
    <2> QED BY <1>0, <2>1, <2>2, <2>3, <2>4 DEF HypervisorsInv, Posts
  <1>8. CASE ReceiveResources
    <2>1. /\ links' = links /\ inventory' = inventory \cup storedRows
          /\ posted' = posted \cup Posts("resources", inventory \ storedRows)
          /\ storedLinks' = storedLinks /\ typedHere' = typedHere
      BY <1>8 DEF ReceiveResources
    <2>2. SyncStaysInItsTenant'
      BY <2>1, MoreIsEnough
    <2> QED BY <1>0, <2>1, <2>2 DEF HypervisorsInv, Posts
  <1>9. ASSUME links' = links, inventory' = inventory, typedHere' = typedHere,
               storedLinks' \in Seq(Hypervisors), posted' \subseteq posted
        PROVE  HypervisorsInv'
    <2>1. SyncStaysInItsTenant'
      BY <1>9, MoreIsEnough
    <2> QED BY <1>0, <1>9, <2>1 DEF HypervisorsInv
  <1>10. ASSUME NEW l, LoseLoad(l) PROVE HypervisorsInv'
    BY <1>0, <1>9, <1>10 DEF LoseLoad
  <1>11. ASSUME NEW p \in posted, StorePost(p) PROVE HypervisorsInv'
    <2>1. storedLinks' \in Seq(Hypervisors)
      BY <1>0, <1>11, StoreKeepsLinks DEF StorePost
    <2> QED BY <1>9, <1>11, <2>1 DEF StorePost
  <1>12. ASSUME NEW p \in posted, LosePost(p) PROVE HypervisorsInv'
    BY <1>0, <1>9, <1>12 DEF LosePost
  <1>13. ASSUME NEW l, NEW id, StoreElsewhere(l, id) PROVE HypervisorsInv'
    <2>1. storedLinks' \in Seq(Hypervisors)
      BY <1>13, StoreKeepsLinks DEF StoreElsewhere
    <2> QED BY <1>9, <1>13, <2>1 DEF StoreElsewhere
  <1>14. CASE UNCHANGED hypervisorVars
    BY <1>0, <1>9, <1>14 DEF hypervisorVars
  <1> QED BY <1>1, <1>3, <1>4, <1>5, <1>6, <1>7, <1>8, <1>10, <1>11, <1>12, <1>13, <1>14
          DEF HypervisorsNext, HandleSave, HandleSyncClick, HandleSubmit

\* For any tenants, integrations and resources, whatever other browsers post and
\* whatever is late or lost: what was typed here is shown unless its tenant has an
\* integration, and a tenant with integrations is shown what the last of them is
\* taken to have (App.jsx, the effect on the integrations and the merges).
THEOREM SyncStaysWithin ==
    HypervisorsInit /\ [][HypervisorsNext]_hypervisorVars => []SyncStaysInItsTenant
  <1>1. HypervisorsInit => HypervisorsInv
    <2> SUFFICES ASSUME HypervisorsInit PROVE HypervisorsInv
      OBVIOUS
    <2>1. /\ links = <<FirstLink>> /\ inventory = AutoSync({FirstRow}, links)
          /\ storedLinks = <<FirstLink>> /\ posted = {} /\ typedHere = {}
      BY DEF HypervisorsInit
    <2>2. links \in Seq(Hypervisors) /\ Len(links) = 1 /\ DOMAIN links = 1..1
      BY <2>1, HypervisorsAssumption
    <2>3. \A i \in 1..Len(links) :
              \/ links[i] \in AutoSync({FirstRow}, links)
              \/ \E j \in 1..Len(links) : j > i /\ WorkspaceOf[links[j]] = WorkspaceOf[links[i]]
      BY <2>2, AutoSyncShows
    <2> QED BY <2>1, <2>2, <2>3 DEF HypervisorsInv, SyncStaysInItsTenant
  <1>2. HypervisorsInv => SyncStaysInItsTenant
    BY DEF HypervisorsInv
  <1> QED BY <1>1, <1>2, HypervisorsStep, PTL

\* What the effect leaves in a list of resources are resources.
LEMMA AutoSyncStaysInRows ==
    ASSUME NEW hs \in Seq(Hypervisors), NEW rows, rows \subseteq Rows
    PROVE  AutoSync(rows, hs) \subseteq Rows
  <1> DEFINE n == Len(hs)
  <1>1. n \in Nat /\ \A i \in 1..n : hs[i] \in Rows
    BY DEF Rows
  <1>2. PICK after : /\ after[0] = rows /\ after[n] = AutoSync(rows, hs)
                     /\ \A i \in 1..n : after[i] = Replaced(after[i - 1], hs[i])
    BY AutoSyncVisits
  <1> HIDE DEF n
  <1> DEFINE G == {k \in 0..n : after[k] \subseteq Rows}
  <1>3. 0 \in G
    BY <1>1, <1>2
  <1>4. ASSUME NEW k \in 0..n, k < n, k \in G PROVE k + 1 \in G
    <2>1. k + 1 \in 1..n /\ k + 1 \in 0..n /\ (k + 1) - 1 = k
      BY <1>1, <1>4
    <2>2. after[k + 1] = Replaced(after[k], hs[k + 1])
      BY <1>2, <2>1
    <2>3. after[k + 1] \subseteq Rows
      BY <1>1, <1>4, <2>1, <2>2 DEF Replaced, Generated
    <2> QED BY <2>1, <2>3
  <1>5. n \in G
    <2> HIDE DEF G
    <2> QED BY <1>1, <1>3, <1>4, UpToLast
  <1> QED BY <1>2, <1>5

HypervisorsTyped ==
    /\ links \in Seq(Hypervisors) /\ storedLinks \in Seq(Hypervisors)
    /\ IsInjective(links) /\ IsInjective(storedLinks)
    /\ inventory \subseteq Rows /\ storedRows \subseteq Rows
    /\ posted \subseteq {"integrations", "resources"} \X Rows
    /\ \A p \in posted : p[1] = "integrations" => p[2] \in Hypervisors

\* An integration is added to a list that has it not yet.
LEMMA NewIsNotThere ==
    ASSUME NEW s \in Seq(Hypervisors), IsInjective(s), NEW h \in Hypervisors, ~ Contains(s, h)
    PROVE  Append(s, h) \in Seq(Hypervisors) /\ IsInjective(Append(s, h))
  <1>1. h \notin Range(s)
    BY DEF Contains, Range
  <1> QED BY <1>1, AppendIsInjective

LEMMA StoreIsTyped ==
    ASSUME HypervisorsTyped, NEW l, NEW id \in Rows, Store(l, id),
           l = "integrations" => id \in Hypervisors
    PROVE  /\ storedLinks' \in Seq(Hypervisors) /\ IsInjective(storedLinks')
           /\ storedRows' \subseteq Rows
  <1>1. CASE l = "integrations" /\ ~ Contains(storedLinks, id)
    BY <1>1, NewIsNotThere DEF Store, HypervisorsTyped
  <1>2. CASE ~ (l = "integrations" /\ ~ Contains(storedLinks, id))
    BY <1>2 DEF Store, HypervisorsTyped
  <1> QED BY <1>1, <1>2

LEMMA HypervisorsTypes ==
    HypervisorsTyped /\ [HypervisorsNext]_hypervisorVars => HypervisorsTyped'
  <1> SUFFICES ASSUME HypervisorsTyped, [HypervisorsNext]_hypervisorVars
               PROVE  HypervisorsTyped'
    OBVIOUS
  <1>0. /\ links \in Seq(Hypervisors) /\ IsInjective(links) /\ inventory \subseteq Rows
        /\ storedLinks \in Seq(Hypervisors) /\ IsInjective(storedLinks) /\ storedRows \subseteq Rows
        /\ \A p \in posted : p[1] = "integrations" => p[2] \in Hypervisors
        /\ posted \subseteq {"integrations", "resources"} \X Rows
        /\ Hypervisors \subseteq Rows /\ Machines \subseteq Rows /\ Elsewhere \subseteq Rows
    BY HypervisorsAssumption DEF HypervisorsTyped, Rows
  <1>1. ASSUME NEW h \in Hypervisors, HandleAddIntegration(h) PROVE HypervisorsTyped'
    <2>1. /\ ~ Contains(links, h) /\ links' = Append(links, h)
          /\ inventory' = AutoSync(Replaced(inventory, h), links')
          /\ posted' = posted \cup {<<"integrations", h>>}
          /\ UNCHANGED <<storedLinks, storedRows>>
      BY <1>1 DEF HandleAddIntegration, Posts
    <2>2. links' \in Seq(Hypervisors) /\ IsInjective(links')
      BY <1>0, <2>1, NewIsNotThere
    <2>3. Replaced(inventory, h) \subseteq Rows
      BY <1>0 DEF Replaced, Generated
    <2>4. inventory' \subseteq Rows
      BY <2>1, <2>2, <2>3, AutoSyncStaysInRows
    <2> QED BY <1>0, <2>1, <2>2, <2>4 DEF HypervisorsTyped
  <1>2. ASSUME NEW rows, rows \subseteq Rows, inventory' = AutoSync(rows, links),
               UNCHANGED <<links, storedLinks, storedRows, posted>>
        PROVE  HypervisorsTyped'
    BY <1>0, <1>2, AutoSyncStaysInRows DEF HypervisorsTyped
  <1>3. ASSUME NEW h \in Hypervisors, HandleUpdateIntegration(h) PROVE HypervisorsTyped'
    BY <1>0, <1>2, <1>3 DEF HandleUpdateIntegration
  <1>4. ASSUME NEW h \in Hypervisors, NEW answered \in BOOLEAN, HandleTriggerSync(h, answered)
        PROVE  HypervisorsTyped'
    <2> DEFINE rows == IF answered THEN inventory ELSE inventory \cup Generated(h)
    <2>1. rows \subseteq Rows
      BY <1>0 DEF Generated
    <2>2. inventory' = AutoSync(rows, links) /\ UNCHANGED <<links, storedLinks, storedRows, posted>>
      BY <1>4 DEF HandleTriggerSync
    <2> HIDE DEF rows
    <2> QED BY <1>2, <2>1, <2>2
  <1>5. CASE MountApp
    BY <1>0, <1>2, <1>5 DEF MountApp
  <1>6. ASSUME NEW m \in Machines, HandleAddWorkload(m) PROVE HypervisorsTyped'
    BY <1>0, <1>6 DEF HandleAddWorkload, Posts, HypervisorsTyped
  <1>7. CASE ReceiveIntegrations
    <2>1. /\ links' = MergedLinks(links, storedLinks) /\ inventory' = AutoSync(inventory, links')
          /\ posted' = posted \cup Posts("integrations", Range(links) \ Range(storedLinks))
          /\ UNCHANGED <<storedLinks, storedRows>>
      BY <1>7 DEF ReceiveIntegrations
    <2>2. links' \in Seq(Hypervisors) /\ IsInjective(links')
      BY <1>0, <2>1, MergedKeeps
    <2>3. Range(links) \subseteq Hypervisors
      BY <1>0 DEF Range
    <2>4. inventory' \subseteq Rows
      BY <1>0, <2>1, <2>2, AutoSyncStaysInRows
    <2> QED BY <1>0, <2>1, <2>2, <2>3, <2>4 DEF HypervisorsTyped, Posts
  <1>8. CASE ReceiveResources
    BY <1>0, <1>8 DEF ReceiveResources, Posts, HypervisorsTyped
  <1>9. ASSUME NEW l, LoseLoad(l) PROVE HypervisorsTyped'
    BY <1>0, <1>9 DEF LoseLoad, HypervisorsTyped
  <1>10. ASSUME NEW p \in posted, StorePost(p) PROVE HypervisorsTyped'
    <2>1. p[2] \in Rows /\ Store(p[1], p[2]) /\ (p[1] = "integrations" => p[2] \in Hypervisors)
      BY <1>0, <1>10 DEF StorePost
    <2>2. /\ storedLinks' \in Seq(Hypervisors) /\ IsInjective(storedLinks')
          /\ storedRows' \subseteq Rows
      BY <2>1, StoreIsTyped
    <2> QED BY <1>0, <1>10, <2>2 DEF StorePost, HypervisorsTyped
  <1>11. ASSUME NEW p \in posted, LosePost(p) PROVE HypervisorsTyped'
    BY <1>0, <1>11 DEF LosePost, HypervisorsTyped
  <1>12. ASSUME NEW l, NEW id, StoreElsewhere(l, id) PROVE HypervisorsTyped'
    <2>1. id \in Rows /\ Store(l, id) /\ (l = "integrations" => id \in Hypervisors)
      BY <1>0, <1>12 DEF StoreElsewhere
    <2>2. /\ storedLinks' \in Seq(Hypervisors) /\ IsInjective(storedLinks')
          /\ storedRows' \subseteq Rows
      BY <2>1, StoreIsTyped
    <2> QED BY <1>0, <1>12, <2>2 DEF StoreElsewhere, HypervisorsTyped
  <1>13. CASE UNCHANGED hypervisorVars
    BY <1>0, <1>13 DEF hypervisorVars, HypervisorsTyped
  <1> QED BY <1>1, <1>3, <1>4, <1>5, <1>6, <1>7, <1>8, <1>9, <1>10, <1>11, <1>12, <1>13
          DEF HypervisorsNext, HandleSave, HandleSyncClick, HandleSubmit

LEMMA HypervisorsStart == HypervisorsInit => HypervisorsTyped
  <1> SUFFICES ASSUME HypervisorsInit PROVE HypervisorsTyped
    OBVIOUS
  <1>1. /\ links = <<FirstLink>> /\ inventory = AutoSync({FirstRow}, links)
        /\ storedLinks = <<FirstLink>> /\ posted = {} /\ storedRows = {FirstRow}
        /\ FirstLink \in Hypervisors /\ {FirstRow} \subseteq Rows
    BY HypervisorsAssumption DEF HypervisorsInit, Rows
  <1>2. links \in Seq(Hypervisors) /\ IsInjective(links)
    BY <1>1 DEF IsInjective
  <1>3. inventory \subseteq Rows
    BY <1>1, <1>2, AutoSyncStaysInRows
  <1> QED BY <1>1, <1>2, <1>3 DEF HypervisorsTyped

LEMMA HypervisorsAreTyped == HypervisorsTyped => HypervisorsTypeOK
  BY DEF HypervisorsTyped, HypervisorsTypeOK, Range

-----------------------------------------------------------------------------
(* Two screens that send calls and cancel none of them, and why a label stays
   right all the same.

   Advisor: a row, on a screen or on its way to one, has the tenant under which
   its recommendation is stored, and a stored tenant never changes.

   Chat: as long as a console was not switched with a call under way, whatever
   is on its way to it has the tenant it shows. It is this, and not the code
   that receives an answer, that keeps the messages of the tenants apart.   *)

-----------------------------------------------------------------------------
(* Recommendations *)

StoredRec == [tenant : Tenants, status : Status]

\* A row is empty, or it is about a recommendation that is stored, under the
\* tenant it is stored for.
Labelled(r, row) == row = None \/ (row \in StoredRec /\ recs[r] \in StoredRec /\ row.tenant = recs[r].tenant)

AdvisorInv ==
    /\ recs \in [Recs -> StoredRec \cup {Unused}]
    /\ mining \subseteq [screen : Screens, tenant : Tenants]
    /\ screen \in [Screens -> [tenant : Tenants, rows : [Recs -> StoredRec \cup {None}]]]
    /\ \A s \in Screens, r \in Recs : Labelled(r, screen[s].rows[r])
    /\ \A a \in answers :
         /\ a.to \in Screens /\ a.rec \in Recs \cup {None}
         /\ IF a.rec = None
            THEN a.row \in [Recs -> StoredRec \cup {None}] /\ \A r \in Recs : Labelled(r, a.row[r])
            ELSE a.row \in StoredRec /\ Labelled(a.rec, a.row)

LEMMA AdvisorStep == AdvisorInv /\ [AdvisorNext]_advisorVars => AdvisorInv'
  <1> SUFFICES ASSUME AdvisorInv, [AdvisorNext]_advisorVars PROVE AdvisorInv'
    OBVIOUS
  <1> USE AdvisorAssumption
  <1>1. ASSUME NEW s \in Screens, NEW t \in Tenants, FetchData(s, t) PROVE AdvisorInv'
    <2> DEFINE fetched == [r \in Recs |-> IF recs[r] = Unused THEN None
                                       ELSE Row(recs[r], recs[r].tenant)]
    <2>1. fetched \in [Recs -> StoredRec \cup {None}] /\ \A r \in Recs : Labelled(r, fetched[r])
      BY DEF AdvisorInv, Row, StoredRec, Labelled
    <2>2. answers' = answers \cup {[to |-> s, rec |-> None, row |-> fetched]}
      BY <1>1 DEF FetchData
    <2> HIDE DEF fetched
    <2>3. /\ screen' \in [Screens -> [tenant : Tenants, rows : [Recs -> StoredRec \cup {None}]]]
          /\ \A x \in Screens : screen'[x].rows = screen[x].rows
      BY <1>1 DEF FetchData, AdvisorInv
    <2>4. recs' = recs /\ mining' = mining
      BY <1>1 DEF FetchData
    <2> QED BY <2>1, <2>2, <2>3, <2>4 DEF AdvisorInv, Labelled
  <1>2. ASSUME NEW a \in answers, Receive(a) PROVE AdvisorInv'
    <2> DEFINE new == IF a.rec = None THEN a.row
                      ELSE [screen[a.to].rows EXCEPT ![a.rec] = a.row]
    <2>1. new \in [Recs -> StoredRec \cup {None}] /\ \A r \in Recs : Labelled(r, new[r])
      BY DEF AdvisorInv
    <2>2. screen' = [screen EXCEPT ![a.to] = [screen[a.to] EXCEPT !.rows = new]]
      BY <1>2 DEF Receive
    <2> HIDE DEF new
    <2>3. /\ screen' \in [Screens -> [tenant : Tenants, rows : [Recs -> StoredRec \cup {None}]]]
          /\ \A s \in Screens : screen'[s].rows \in {screen[s].rows, new}
      BY <2>1, <2>2 DEF AdvisorInv
    <2>4. recs' = recs /\ mining' = mining /\ answers' \subseteq answers
      BY <1>2 DEF Receive
    <2>5. \A s \in Screens, r \in Recs : Labelled(r, screen[s].rows[r]) /\ Labelled(r, new[r])
      BY <2>1 DEF AdvisorInv
    <2>6. (\A s \in Screens, r \in Recs : Labelled(r, screen[s].rows[r]))'
      BY <2>3, <2>4, <2>5 DEF Labelled
    <2>7. (\A x \in answers :
             /\ x.to \in Screens /\ x.rec \in Recs \cup {None}
             /\ IF x.rec = None
                THEN x.row \in [Recs -> StoredRec \cup {None}] /\ \A r \in Recs : Labelled(r, x.row[r])
                ELSE x.row \in StoredRec /\ Labelled(x.rec, x.row))'
      BY <2>4 DEF AdvisorInv, Labelled
    <2> QED BY <2>3, <2>4, <2>6, <2>7 DEF AdvisorInv
  <1>3. ASSUME NEW s \in Screens, HandleAnalyzeNow(s) PROVE AdvisorInv'
    BY <1>3 DEF HandleAnalyzeNow, AdvisorInv, Labelled
  \* A recommendation that is new has no row anywhere.
  <1>4. ASSUME NEW m \in mining, NEW r \in Recs, recs[r] = Unused,
               recs' = [recs EXCEPT ![r] = Mined(m.tenant)]
        PROVE  /\ recs' \in [Recs -> StoredRec \cup {Unused}] /\ recs'[r] \in StoredRec
               /\ recs'[r].tenant = m.tenant
               /\ \A q \in Recs : recs[q] \in StoredRec => recs'[q] \in StoredRec /\ recs'[q].tenant = recs[q].tenant
    BY <1>4 DEF AdvisorInv, Mined, StoredRec, Status
  <1>5. ASSUME NEW m \in mining, NEW r \in Recs, Analyzed(m, r) PROVE AdvisorInv'
    <2> DEFINE row == Row(recs'[r], m.tenant)
    <2>1. /\ recs' \in [Recs -> StoredRec \cup {Unused}] /\ recs'[r] \in StoredRec /\ recs'[r].tenant = m.tenant
          /\ \A q \in Recs : recs[q] \in StoredRec => recs'[q] \in StoredRec /\ recs'[q].tenant = recs[q].tenant
      BY <1>4, <1>5 DEF Analyzed
    <2>2. row \in StoredRec /\ row.tenant = m.tenant /\ m.screen \in Screens
      BY <2>1 DEF Row, StoredRec, AdvisorInv
    <2>3. answers' = answers \cup {[to |-> m.screen, rec |-> r, row |-> row]}
      BY <1>5 DEF Analyzed, Answer
    <2> HIDE DEF row
    <2>4. \A q \in Recs : \A x : Labelled(q, x) => Labelled(q, x)'
      BY <2>1 DEF Labelled
    <2>5. mining' \subseteq mining /\ screen' = screen
      BY <1>5 DEF Analyzed
    <2> QED BY <2>1, <2>2, <2>3, <2>4, <2>5 DEF AdvisorInv, Labelled
  <1>6. ASSUME NEW m \in mining, AnalysisFails(m) PROVE AdvisorInv'
    <2>1. mining' \subseteq mining /\ screen' = screen /\ answers' = answers
      BY <1>6 DEF AnalysisFails
    <2>2. CASE UNCHANGED recs
      BY <2>1, <2>2 DEF AdvisorInv, Labelled
    <2>3. ASSUME NEW r \in Recs, recs[r] = Unused, recs' = [recs EXCEPT ![r] = Mined(m.tenant)]
          PROVE  AdvisorInv'
      <3>1. /\ recs' \in [Recs -> StoredRec \cup {Unused}]
            /\ \A q \in Recs : recs[q] \in StoredRec => recs'[q] \in StoredRec /\ recs'[q].tenant = recs[q].tenant
        BY <1>4, <2>3
      <3>2. \A q \in Recs : \A x : Labelled(q, x) => Labelled(q, x)'
        BY <3>1 DEF Labelled
      <3> QED BY <2>1, <3>1, <3>2 DEF AdvisorInv, Labelled
    <2> QED BY <1>6, <2>2, <2>3 DEF AnalysisFails
  \* A row that offers a plan or a validation has the tenant of its screen.
  <1>7. ASSUME NEW s \in Screens, NEW r \in Recs, NEW status \in Status, Offered(s, r, status)
        PROVE  recs[r] \in StoredRec /\ recs[r].tenant = screen[s].tenant /\ screen[s].rows[r] \in StoredRec
               /\ screen[s].rows[r].tenant = recs[r].tenant
    BY <1>7 DEF Offered, AdvisorInv, Labelled, StoredRec
  <1>8. ASSUME NEW r \in Recs, recs[r] \in StoredRec, ChangePlan(r) \/ Validate(r) \/ UNCHANGED recs
        PROVE  /\ recs' \in [Recs -> StoredRec \cup {Unused}] /\ recs'[r] \in StoredRec
               /\ \A q \in Recs : recs[q] \in StoredRec => recs'[q] \in StoredRec /\ recs'[q].tenant = recs[q].tenant
    <2>1. CASE UNCHANGED recs
      BY <1>8, <2>1 DEF AdvisorInv
    <2>2. CASE ChangePlan(r) \/ Validate(r)
      <3>1. PICK status \in Status : recs' = [recs EXCEPT ![r].status = status]
        BY <2>2 DEF ChangePlan, Validate, Status
      <3> DEFINE new == [recs[r] EXCEPT !.status = status]
      <3>2. recs' = [recs EXCEPT ![r] = new]
        BY <3>1
      <3>3. new \in StoredRec /\ new.tenant = recs[r].tenant
        BY <1>8 DEF StoredRec
      <3> HIDE DEF new
      <3> QED BY <1>8, <3>2, <3>3 DEF AdvisorInv
    <2> QED BY <1>8, <2>1, <2>2
  <1>9. ASSUME NEW s \in Screens, NEW r \in Recs,
               HandleGenerateChangePlan(s, r) \/ HandleValidateRecommendation(s, r)
        PROVE  AdvisorInv'
    <2> DEFINE row == Row(recs'[r], screen[s].tenant)
    <2>1. recs[r] \in StoredRec /\ recs[r].tenant = screen[s].tenant
      BY <1>7, <1>9 DEF HandleGenerateChangePlan, HandleValidateRecommendation, Status
    <2>2. /\ recs' \in [Recs -> StoredRec \cup {Unused}] /\ recs'[r] \in StoredRec
          /\ \A q \in Recs : recs[q] \in StoredRec => recs'[q] \in StoredRec /\ recs'[q].tenant = recs[q].tenant
      BY <1>8, <1>9, <2>1 DEF HandleGenerateChangePlan, HandleValidateRecommendation
    <2>3. row \in StoredRec /\ row.tenant = screen[s].tenant
      BY <2>2 DEF Row, StoredRec, AdvisorInv
    <2>4. answers' = answers \cup {[to |-> s, rec |-> r, row |-> row]}
      BY <1>9 DEF HandleGenerateChangePlan, HandleValidateRecommendation, Answer
    <2> HIDE DEF row
    <2>5. \A q \in Recs : \A x : Labelled(q, x) => Labelled(q, x)'
      BY <2>2 DEF Labelled
    <2>6. mining' = mining /\ screen' = screen
      BY <1>9 DEF HandleGenerateChangePlan, HandleValidateRecommendation
    <2> QED BY <2>1, <2>2, <2>3, <2>4, <2>5, <2>6 DEF AdvisorInv, Labelled
  <1>10. ASSUME NEW s \in Screens, NEW r \in Recs, ChangePlanFails(s, r) \/ ValidateFails(s, r)
         PROVE  AdvisorInv'
    <2>1. recs[r] \in StoredRec /\ screen[s].rows[r] \in StoredRec /\ screen[s].rows[r].tenant = recs[r].tenant
      BY <1>7, <1>10 DEF ChangePlanFails, ValidateFails, Status
    <2>2. /\ recs' \in [Recs -> StoredRec \cup {Unused}] /\ recs'[r] \in StoredRec
          /\ \A q \in Recs : recs[q] \in StoredRec => recs'[q] \in StoredRec /\ recs'[q].tenant = recs[q].tenant
      BY <1>8, <1>10, <2>1 DEF ChangePlanFails, ValidateFails
    <2>3. PICK status \in Status : ShowAnyway(s, r, status)
      BY <1>10 DEF ChangePlanFails, ValidateFails, Status
    <2> DEFINE row == [screen[s].rows[r] EXCEPT !.status = status]
               new == [screen[s].rows EXCEPT ![r] = row]
    <2>4. row \in StoredRec /\ row.tenant = screen[s].rows[r].tenant
      BY <2>1 DEF StoredRec
    <2>5. screen' = [screen EXCEPT ![s] = [screen[s] EXCEPT !.rows = new]]
      BY <2>3 DEF ShowAnyway
    <2> HIDE DEF row
    <2>6. new \in [Recs -> StoredRec \cup {None}] /\ \A q \in Recs : new[q] \in {row, screen[s].rows[q]}
                                            /\ (q # r => new[q] = screen[s].rows[q]) /\ new[r] = row
      BY <2>4 DEF AdvisorInv
    <2> HIDE DEF new
    <2>7. /\ screen' \in [Screens -> [tenant : Tenants, rows : [Recs -> StoredRec \cup {None}]]]
          /\ \A x \in Screens : screen'[x].rows \in {screen[x].rows, new}
      BY <2>5, <2>6 DEF AdvisorInv
    <2>8. \A q \in Recs : \A x : Labelled(q, x) => Labelled(q, x)'
      BY <2>2 DEF Labelled
    <2>9. ASSUME NEW q \in Recs PROVE Labelled(q, new[q])
      <3>1. Labelled(q, screen[s].rows[q])
        BY DEF AdvisorInv
      <3>2. CASE q = r
        BY <2>1, <2>4, <2>6, <3>2 DEF Labelled
      <3> QED BY <2>6, <3>1, <3>2
    <2>10. mining' = mining /\ answers' = answers
      BY <2>3 DEF ShowAnyway
    <2> QED BY <2>2, <2>7, <2>8, <2>9, <2>10 DEF AdvisorInv
  <1>11. CASE UNCHANGED advisorVars
    BY <1>11 DEF advisorVars, AdvisorInv, Labelled
  <1> QED BY <1>1, <1>2, <1>3, <1>5, <1>6, <1>9, <1>10, <1>11 DEF AdvisorNext

\* For any screens, tenants and recommendations, and however late the answers
\* are: a recommendation is shown under the tenant it is stored for
\* (InfrastructureIntelligenceView.jsx).
THEOREM UnderItsTenant ==
    AdvisorInit /\ [][AdvisorNext]_advisorVars => []ShownUnderItsTenant
  <1>1. AdvisorInit => AdvisorInv
    BY DEF AdvisorInit, AdvisorInv, Labelled
  <1>2. AdvisorInv => ShownUnderItsTenant
    BY DEF AdvisorInv, Labelled, ShownUnderItsTenant
  <1> QED BY <1>1, <1>2, AdvisorStep, PTL

LEMMA AdvisorTypes == AdvisorInv => AdvisorTypeOK
  BY DEF AdvisorInv, AdvisorTypeOK, StoredRec

-----------------------------------------------------------------------------
(* The AI console *)

ChatMsg == [prompt : Prompts, tenant : ChatTenants, sender : {"user", "ai"}]

ChatCall == [to : Consoles \cup {None}, prompt : Prompts, tenant : ChatTenants]

Own(h, t) == \A i \in 1..Len(h) : h[i].tenant = t

ChatServer ==
    /\ histories \in [ChatTenants -> Seq(ChatMsg)]
    /\ \A t \in ChatTenants : Own(histories[t], t)

ChatConsoles ==
    /\ console \in [Consoles -> [tenant : ChatTenants, shown : Seq(ChatMsg), loading : BOOLEAN]]
    /\ kept \in [Consoles -> [ChatTenants -> Seq(ChatMsg)]]
    /\ \A b \in Consoles : console[b].shown = kept[b][console[b].tenant]
    /\ \A b \in Consoles \ overtaken, t \in ChatTenants : Own(kept[b][t], t)

CallsInv ==
    /\ thinking \subseteq ChatCall
    /\ replies \subseteq {c \in ChatCall : c.to \in Consoles}
    /\ loads \subseteq [to : Consoles, tenant : ChatTenants, messages : Seq(ChatMsg)]
    /\ \A l \in loads : Own(l.messages, l.tenant)

\* What is on its way to a console that was not overtaken has its tenant.
TenantInv ==
    \A x \in thinking \cup replies \cup loads :
        (x.to \in Consoles \ overtaken) => x.tenant = console[x.to].tenant

ChatInv == ChatServer /\ ChatConsoles /\ CallsInv /\ TenantInv

-----------------------------------------------------------------------------
LEMMA OwnAppended ==
    ASSUME NEW h \in Seq(ChatMsg), NEW m \in ChatMsg, Own(h, m.tenant)
    PROVE  Append(h, m) \in Seq(ChatMsg) /\ Own(Append(h, m), m.tenant)
  BY DEF Own

LEMMA OwnTrimmed ==
    ASSUME NEW h \in Seq(ChatMsg), NEW t, Own(h, t)
    PROVE  Trimmed(h) \in Seq(ChatMsg) /\ Own(Trimmed(h), t)
  <1>1. CASE Len(h) > MaxKept
    <2>1. MaxKept \in Nat /\ Len(h) \in Nat
      BY ChatAssumption
    <2>2. /\ SubSeq(h, Len(h) - MaxKept + 1, Len(h)) \in Seq(ChatMsg)
          /\ Len(SubSeq(h, Len(h) - MaxKept + 1, Len(h))) = MaxKept
          /\ \A i \in 1..MaxKept : SubSeq(h, Len(h) - MaxKept + 1, Len(h))[i] = h[Len(h) - MaxKept + i]
      BY <1>1, <2>1
    <2>3. \A i \in 1..MaxKept : Len(h) - MaxKept + i \in 1..Len(h)
      BY <1>1, <2>1
    <2> QED BY <1>1, <2>2, <2>3 DEF Own, Trimmed
  <1>2. CASE ~ (Len(h) > MaxKept)
    BY <1>2 DEF Trimmed
  <1> QED BY <1>1, <1>2

\* The console of one browser shows other messages, and keeps them.
LEMMA ConsoleShows ==
    ASSUME ChatConsoles, NEW b \in Consoles, NEW m \in Seq(ChatMsg), NEW wasLoading \in BOOLEAN,
           overtaken' = overtaken,
           console' = [console EXCEPT ![b] = [console[b] EXCEPT !.shown = m, !.loading = wasLoading]],
           NEW new \in [ChatTenants -> Seq(ChatMsg)],
           kept' = [kept EXCEPT ![b] = new],
           new[console[b].tenant] = m,
           b \notin overtaken => \A t \in ChatTenants : Own(new[t], t)
    PROVE  ChatConsoles' /\ \A x \in Consoles : console'[x].tenant = console[x].tenant
  <1>1. /\ console' \in [Consoles -> [tenant : ChatTenants, shown : Seq(ChatMsg), loading : BOOLEAN]]
        /\ \A x \in Consoles : console'[x].tenant = console[x].tenant
        /\ \A x \in Consoles \ {b} : console'[x] = console[x]
        /\ console'[b].shown = m
    BY DEF ChatConsoles
  <1>2. /\ kept' \in [Consoles -> [ChatTenants -> Seq(ChatMsg)]]
        /\ kept'[b] = new
        /\ \A x \in Consoles \ {b} : kept'[x] = kept[x]
    BY DEF ChatConsoles
  <1>3. \A x \in Consoles : console'[x].shown = kept'[x][console'[x].tenant]
    BY <1>1, <1>2 DEF ChatConsoles
  <1>4. \A x \in Consoles \ overtaken', t \in ChatTenants : Own(kept'[x][t], t)
    BY <1>2 DEF ChatConsoles
  <1> QED BY <1>1, <1>2, <1>3, <1>4 DEF ChatConsoles, Own

LEMMA ChatStep == ChatInv /\ [ChatNext]_chatVars => ChatInv'
  <1> SUFFICES ASSUME ChatInv, [ChatNext]_chatVars PROVE ChatInv'
    OBVIOUS
  <1> USE ChatAssumption DEF ChatInv
  <1>1. ASSUME NEW c \in thinking, Answered(c) PROVE ChatInv'
    <2> DEFINE q == Message(c, "user")
               a == Message(c, "ai")
               h == Append(Append(histories[c.tenant], q), a)
    <2>1. c \in ChatCall /\ q \in ChatMsg /\ a \in ChatMsg /\ q.tenant = c.tenant /\ a.tenant = c.tenant
      BY DEF CallsInv, ChatCall, ChatMsg, Message
    <2>2. histories[c.tenant] \in Seq(ChatMsg) /\ Own(histories[c.tenant], c.tenant) /\ c.tenant \in ChatTenants
      BY <2>1 DEF ChatServer, ChatCall
    <2> HIDE DEF q, a
    <2>3. h \in Seq(ChatMsg) /\ Own(h, c.tenant)
      BY <2>1, <2>2, OwnAppended
    <2>4. histories[c.tenant] \o <<q, a>> = h
      BY <2>1, <2>2
    <2>5. histories' = [histories EXCEPT ![c.tenant] = Trimmed(histories[c.tenant] \o <<q, a>>)]
      BY <1>1 DEF Answered, q, a
    <2> HIDE DEF h
    <2>6. ChatServer'
      <3> DEFINE new == Trimmed(h)
      <3>1. new \in Seq(ChatMsg) /\ Own(new, c.tenant)
        BY <2>3, OwnTrimmed
      <3>2. histories' = [histories EXCEPT ![c.tenant] = new]
        BY <2>4, <2>5
      <3> HIDE DEF new
      <3>3. histories' \in [ChatTenants -> Seq(ChatMsg)]
        BY <2>2, <3>1, <3>2 DEF ChatServer
      <3>4. \A t \in ChatTenants : Own(histories'[t], t)
        BY <2>2, <3>1, <3>2 DEF ChatServer
      <3> QED BY <3>3, <3>4 DEF ChatServer, Own
    <2>7. ChatConsoles'
      BY <1>1 DEF Answered, ChatConsoles, Own
    <2>8. /\ thinking' \subseteq thinking /\ loads' = loads /\ console' = console /\ overtaken' = overtaken
          /\ replies' \subseteq replies \cup {x \in {c} : x.to # None}
      BY <1>1 DEF Answered
    <2>9. CallsInv'
      BY <2>1, <2>8 DEF CallsInv, ChatCall, Own
    <2>10. TenantInv'
      BY <2>8 DEF TenantInv
    <2> QED BY <2>6, <2>7, <2>9, <2>10
  <1>2. ASSUME NEW c \in replies, Replied(c) PROVE ChatInv'
    <2> DEFINE b == c.to
               t == console[b].tenant
               m == Append(console[b].shown, Message(c, "ai"))
               new == [kept[b] EXCEPT ![t] = m]
    <2>1. c \in ChatCall /\ b \in Consoles /\ t \in ChatTenants
      BY DEF CallsInv, ChatConsoles
    <2>2. Message(c, "ai") \in ChatMsg /\ Message(c, "ai").tenant = c.tenant
      BY <2>1 DEF ChatCall, ChatMsg, Message
    <2>3. console[b].shown \in Seq(ChatMsg) /\ console[b].shown = kept[b][t]
      BY <2>1 DEF ChatConsoles
    <2>4. m \in Seq(ChatMsg)
      BY <2>2, <2>3
    <2>5. b \notin overtaken => Own(m, t)
      BY <2>1, <2>2, <2>3, OwnAppended DEF TenantInv, ChatConsoles
    <2>6. /\ console' = [console EXCEPT ![b] = [console[b] EXCEPT !.shown = m, !.loading = FALSE]]
          /\ kept' = [kept EXCEPT ![b] = new]
          /\ overtaken' = overtaken
      BY <1>2 DEF Replied
    <2> HIDE DEF m
    <2>7. /\ new \in [ChatTenants -> Seq(ChatMsg)] /\ new[t] = m
          /\ b \notin overtaken => \A u \in ChatTenants : Own(new[u], u)
      BY <2>1, <2>4, <2>5 DEF ChatConsoles
    <2> HIDE DEF b, new
    <2>8. ChatConsoles' /\ \A x \in Consoles : console'[x].tenant = console[x].tenant
      BY <2>1, <2>4, <2>6, <2>7, ConsoleShows
    <2>9. /\ thinking' = thinking /\ loads' = loads /\ replies' \subseteq replies
          /\ histories' = histories
      BY <1>2 DEF Replied
    <2>10. CallsInv' /\ ChatServer'
      BY <2>9 DEF CallsInv, Own, ChatServer
    <2>11. TenantInv'
      BY <2>6, <2>8, <2>9 DEF TenantInv
    <2> QED BY <2>8, <2>10, <2>11
  <1>3. ASSUME NEW c \in replies, ReplyFails(c) PROVE ChatInv'
    <2>1. c.to \in Consoles
      BY DEF CallsInv
    <2>2. console' = [console EXCEPT ![c.to] = [console[c.to] EXCEPT !.loading = FALSE]]
      BY <1>3 DEF ReplyFails
    <2>3. /\ console' \in [Consoles -> [tenant : ChatTenants, shown : Seq(ChatMsg), loading : BOOLEAN]]
          /\ \A x \in Consoles : console'[x].tenant = console[x].tenant /\ console'[x].shown = console[x].shown
      BY <2>1, <2>2 DEF ChatConsoles
    <2>4. /\ thinking' = thinking /\ loads' = loads /\ replies' \subseteq replies
          /\ histories' = histories /\ kept' = kept /\ overtaken' = overtaken
      BY <1>3 DEF ReplyFails
    <2>5. ChatConsoles'
      BY <2>3, <2>4 DEF ChatConsoles, Own
    <2>6. CallsInv' /\ ChatServer'
      BY <2>4 DEF CallsInv, Own, ChatServer
    <2>7. TenantInv'
      BY <2>3, <2>4 DEF TenantInv
    <2> QED BY <2>5, <2>6, <2>7
  <1>4. ASSUME NEW l \in loads, Loaded(l) PROVE ChatInv'
    <2>1. /\ l.to \in Consoles /\ l.tenant \in ChatTenants /\ l.messages \in Seq(ChatMsg)
          /\ Own(l.messages, l.tenant)
      BY DEF CallsInv
    <2>2. /\ thinking' = thinking /\ loads' \subseteq loads /\ replies' = replies
          /\ histories' = histories /\ overtaken' = overtaken
      BY <1>4 DEF Loaded
    <2>3. CallsInv' /\ ChatServer'
      BY <2>2 DEF CallsInv, Own, ChatServer
    <2>4. CASE l.messages = <<>>
      <3>1. console' = console /\ kept' = kept
        BY <1>4, <2>4 DEF Loaded
      <3> QED BY <2>2, <2>3, <3>1 DEF ChatConsoles, TenantInv, Own
    <2>5. CASE l.messages # <<>>
      <3> DEFINE b == l.to
                 t == console[b].tenant
                 new == [kept[b] EXCEPT ![l.tenant] = l.messages, ![t] = l.messages]
                 wasLoading == console[b].loading
      <3>1. t \in ChatTenants /\ wasLoading \in BOOLEAN
        BY <2>1 DEF ChatConsoles
      <3>2. console' = [console EXCEPT ![b] = [console[b] EXCEPT !.shown = l.messages]]
        BY <1>4, <2>5 DEF Loaded
      <3>3. console' = [console EXCEPT ![b] = [console[b] EXCEPT !.shown = l.messages, !.loading = wasLoading]]
        BY <2>1, <3>2 DEF ChatConsoles
      <3>4. kept' = [kept EXCEPT ![b] = new]
        BY <1>4, <2>1, <2>5, <3>1 DEF Loaded, ChatConsoles
      <3>5. /\ new \in [ChatTenants -> Seq(ChatMsg)] /\ new[t] = l.messages
            /\ b \notin overtaken => \A u \in ChatTenants : Own(new[u], u)
        BY <2>1, <3>1 DEF ChatConsoles, TenantInv
      <3> HIDE DEF b, new, wasLoading
      <3>6. ChatConsoles' /\ \A x \in Consoles : console'[x].tenant = console[x].tenant
        BY <2>1, <2>2, <3>1, <3>3, <3>4, <3>5, ConsoleShows DEF b
      <3>7. TenantInv'
        BY <2>2, <3>6 DEF TenantInv
      <3> QED BY <2>3, <3>6, <3>7
    <2> QED BY <2>4, <2>5
  <1>5. ASSUME NEW l \in loads, LoadFails(l) PROVE ChatInv'
    <2>1. /\ loads' \subseteq loads
          /\ UNCHANGED <<histories, thinking, replies, console, kept, overtaken>>
      BY <1>5 DEF LoadFails
    <2>2. ChatServer' /\ ChatConsoles'
      BY <2>1 DEF ChatServer, ChatConsoles, Own
    <2>3. CallsInv' /\ TenantInv'
      BY <2>1 DEF CallsInv, TenantInv, Own
    <2> QED BY <2>2, <2>3
  <1>6. ASSUME NEW b \in Consoles, NEW t \in ChatTenants, SwitchTenant(b, t) PROVE ChatInv'
    <2> DEFINE load == [to |-> b, tenant |-> t, messages |-> histories[t]]
               new == [console[b] EXCEPT !.tenant = t, !.shown = kept[b][t]]
    <2>1. /\ thinking' = thinking /\ loads' = loads \cup {load} /\ replies' = replies
          /\ histories' = histories /\ kept' = kept
          /\ overtaken' = IF \E x \in UnderWay(b) \cup loads : x.to = b
                          THEN overtaken \cup {b} ELSE overtaken
      BY <1>6 DEF SwitchTenant, History
    <2>2. /\ load \in [to : Consoles, tenant : ChatTenants, messages : Seq(ChatMsg)]
          /\ Own(load.messages, t) /\ load.to = b /\ load.tenant = t
      BY DEF ChatServer
    <2>3. console' = [console EXCEPT ![b] = new]
      BY <1>6 DEF SwitchTenant
    <2>4. new \in [tenant : ChatTenants, shown : Seq(ChatMsg), loading : BOOLEAN]
          /\ new.tenant = t /\ new.shown = kept[b][t]
      <3>1. /\ console[b] \in [tenant : ChatTenants, shown : Seq(ChatMsg), loading : BOOLEAN]
            /\ kept[b][t] \in Seq(ChatMsg)
        BY DEF ChatConsoles
      <3> QED BY <3>1
    <2> HIDE DEF load, new
    <2>5. /\ console' \in [Consoles -> [tenant : ChatTenants, shown : Seq(ChatMsg), loading : BOOLEAN]]
          /\ console'[b] = new /\ \A x \in Consoles \ {b} : console'[x] = console[x]
      BY <2>3, <2>4 DEF ChatConsoles
    <2>6. CallsInv' /\ ChatServer'
      BY <2>1, <2>2 DEF CallsInv, Own, ChatServer
    <2>7. overtaken \subseteq overtaken'
      BY <2>1
    <2>8. ChatConsoles'
      <3>1. \A x \in Consoles : console'[x].shown = kept'[x][console'[x].tenant]
        BY <2>1, <2>4, <2>5 DEF ChatConsoles
      <3>2. \A x \in Consoles \ overtaken', u \in ChatTenants : Own(kept'[x][u], u)
        BY <2>1, <2>7 DEF ChatConsoles
      <3> QED BY <2>1, <2>5, <3>1, <3>2 DEF ChatConsoles, Own
    <2>9. b \notin overtaken' => \A x \in thinking \cup replies \cup loads : x.to # b
      BY <2>1 DEF UnderWay
    <2>10. TenantInv'
      BY <2>1, <2>2, <2>4, <2>5, <2>7, <2>9 DEF TenantInv
    <2> QED BY <2>6, <2>8, <2>10
  <1>7. ASSUME NEW b \in Consoles, NEW t \in ChatTenants, HandleClearChat(b, t) PROVE ChatInv'
    <2> DEFINE new == [kept[b] EXCEPT ![t] = <<>>]
               wasLoading == console[b].loading
    <2>1. /\ thinking' = thinking /\ loads' = loads /\ replies' = replies /\ overtaken' = overtaken
          /\ histories' \in {histories, Cleared(t)} /\ t = console[b].tenant
      BY <1>7 DEF HandleClearChat
    <2>2. /\ console' = [console EXCEPT ![b] = [console[b] EXCEPT !.shown = <<>>]]
          /\ kept' = [kept EXCEPT ![b] = new]
      BY <1>7 DEF HandleClearChat, Shows
    <2>3. console' = [console EXCEPT ![b] = [console[b] EXCEPT !.shown = <<>>, !.loading = wasLoading]]
      BY <2>2 DEF ChatConsoles
    <2>4. <<>> \in Seq(ChatMsg) /\ Own(<<>>, t) /\ wasLoading \in BOOLEAN
      BY DEF Own, ChatConsoles
    <2>5. /\ new \in [ChatTenants -> Seq(ChatMsg)] /\ new[t] = <<>>
          /\ b \notin overtaken => \A u \in ChatTenants : Own(new[u], u)
      BY <2>4 DEF ChatConsoles
    <2>6. ChatServer'
      BY <2>1, <2>4 DEF ChatServer, Cleared, Own
    <2> HIDE DEF new, wasLoading
    <2>7. ChatConsoles' /\ \A x \in Consoles : console'[x].tenant = console[x].tenant
      BY <2>1, <2>2, <2>3, <2>4, <2>5, ConsoleShows
    <2>8. CallsInv' /\ TenantInv'
      BY <2>1, <2>7 DEF CallsInv, TenantInv, Own
    <2> QED BY <2>6, <2>7, <2>8
  <1>8. ASSUME NEW b \in Consoles, NEW p \in Prompts, NEW sent \in BOOLEAN, HandleSend(b, p, sent)
        PROVE  ChatInv'
    <2> DEFINE t == console[b].tenant
               c == [to |-> b, prompt |-> p, tenant |-> t]
               m == Append(console[b].shown, Message(c, "user"))
               new == [kept[b] EXCEPT ![t] = m]
    <2>1. t \in ChatTenants /\ console[b].shown \in Seq(ChatMsg) /\ console[b].shown = kept[b][t]
      BY DEF ChatConsoles
    <2>2. /\ Message(c, "user") \in ChatMsg /\ Message(c, "user").tenant = t
          /\ c \in ChatCall /\ c.to = b /\ c.tenant = t
      BY <2>1 DEF ChatCall, ChatMsg, Message
    <2>3. m \in Seq(ChatMsg) /\ (b \notin overtaken => Own(m, t))
      BY <2>1, <2>2, OwnAppended DEF ChatConsoles
    <2>4. /\ console' = [console EXCEPT ![b] = [console[b] EXCEPT !.shown = m, !.loading = sent]]
          /\ kept' = [kept EXCEPT ![b] = new]
          /\ overtaken' = overtaken /\ histories' = histories /\ replies' = replies /\ loads' = loads
          /\ thinking' \subseteq thinking \cup {c}
      BY <1>8 DEF HandleSend
    <2> HIDE DEF m, c
    <2>5. /\ new \in [ChatTenants -> Seq(ChatMsg)] /\ new[t] = m
          /\ b \notin overtaken => \A u \in ChatTenants : Own(new[u], u)
      BY <2>1, <2>3 DEF ChatConsoles
    <2> HIDE DEF new
    <2>6. ChatConsoles' /\ \A x \in Consoles : console'[x].tenant = console[x].tenant
      BY <2>3, <2>4, <2>5, ConsoleShows
    <2>7. CallsInv' /\ ChatServer'
      BY <2>2, <2>4 DEF CallsInv, ChatServer, Own
    <2>8. TenantInv'
      BY <2>2, <2>4, <2>6 DEF TenantInv
    <2> QED BY <2>6, <2>7, <2>8
  <1>9. ASSUME NEW b \in Consoles, Reopen(b) PROVE ChatInv'
    <2> DEFINE t == console[b].tenant
               load == [to |-> b, tenant |-> t, messages |-> histories[t]]
               new == [console[b] EXCEPT !.loading = FALSE, !.shown = kept[b][t]]
    <2>1. /\ loads' = {l \in loads : l.to # b} \cup {load} /\ replies' \subseteq replies
          /\ histories' = histories /\ kept' = kept /\ overtaken' = overtaken
      BY <1>9 DEF Reopen, History
    <2>2. thinking' = {[c EXCEPT !.to = IF c.to = b THEN None ELSE c.to] : c \in thinking}
      BY <1>9 DEF Reopen
    <2>3. \A x \in thinking' : x \in ChatCall /\ (x.to \in Consoles => x \in thinking)
      <3> SUFFICES ASSUME NEW c \in thinking,
                          NEW x, x = [c EXCEPT !.to = IF c.to = b THEN None ELSE c.to]
                   PROVE  x \in ChatCall /\ (x.to \in Consoles => x = c)
        BY <2>2
      <3>1. c \in ChatCall
        BY DEF CallsInv
      <3>2. CASE c.to = b
        BY <3>1, <3>2 DEF ChatCall
      <3>3. CASE c.to # b
        BY <3>1, <3>3 DEF ChatCall
      <3> QED BY <3>2, <3>3
    <2>4. /\ load \in [to : Consoles, tenant : ChatTenants, messages : Seq(ChatMsg)]
          /\ Own(load.messages, t) /\ load.to = b /\ load.tenant = t
      BY DEF ChatServer, ChatConsoles
    <2>5. console' = [console EXCEPT ![b] = new]
      BY <1>9 DEF Reopen
    <2>6. new \in [tenant : ChatTenants, shown : Seq(ChatMsg), loading : BOOLEAN]
          /\ new.tenant = t /\ new.shown = kept[b][t]
      BY DEF ChatConsoles
    <2> HIDE DEF load, new
    <2>7. /\ console' \in [Consoles -> [tenant : ChatTenants, shown : Seq(ChatMsg), loading : BOOLEAN]]
          /\ console'[b] = new /\ \A x \in Consoles \ {b} : console'[x] = console[x]
          /\ \A x \in Consoles : console'[x].tenant = console[x].tenant
      BY <2>5, <2>6 DEF ChatConsoles
    <2>8. CallsInv' /\ ChatServer'
      BY <2>1, <2>3, <2>4 DEF CallsInv, Own, ChatServer
    <2>9. ChatConsoles'
      <3>1. \A x \in Consoles : console'[x].shown = kept'[x][console'[x].tenant]
        BY <2>1, <2>6, <2>7 DEF ChatConsoles
      <3>2. \A x \in Consoles \ overtaken', u \in ChatTenants : Own(kept'[x][u], u)
        BY <2>1 DEF ChatConsoles
      <3> QED BY <2>1, <2>7, <3>1, <3>2 DEF ChatConsoles, Own
    <2>10. TenantInv'
      BY <2>1, <2>3, <2>4, <2>7 DEF TenantInv
    <2> QED BY <2>8, <2>9, <2>10
  <1>10. CASE UNCHANGED chatVars
    <2>1. ChatServer' /\ ChatConsoles'
      BY <1>10 DEF chatVars, ChatServer, ChatConsoles, Own
    <2>2. CallsInv' /\ TenantInv'
      BY <1>10 DEF chatVars, CallsInv, TenantInv, Own
    <2> QED BY <2>1, <2>2
  <1> QED BY <1>1, <1>2, <1>3, <1>4, <1>5, <1>6, <1>7, <1>8, <1>9, <1>10 DEF ChatNext

LEMMA ChatStarts == ChatInit => ChatInv
  <1> SUFFICES ASSUME ChatInit PROVE ChatInv
    OBVIOUS
  <1>1. \A t : Own(<<>>, t)
    BY DEF Own
  <1>2. ChatServer
    BY <1>1 DEF ChatInit, ChatServer
  <1>3. /\ console \in [Consoles -> [tenant : ChatTenants, shown : Seq(ChatMsg), loading : BOOLEAN]]
        /\ \A b \in Consoles : console[b].shown = <<>>
    <2>1. console \in [Consoles -> [tenant : ChatTenants, shown : {<<>>}, loading : {FALSE}]]
      BY DEF ChatInit
    <2> DEFINE Shown == Seq(ChatMsg)
    <2>2. <<>> \in Shown
      OBVIOUS
    <2> HIDE DEF Shown
    <2>3. console \in [Consoles -> [tenant : ChatTenants, shown : Shown, loading : BOOLEAN]]
          /\ \A b \in Consoles : console[b].shown = <<>>
      BY <2>1, <2>2
    <2> QED BY <2>3 DEF Shown
  <1>4. ChatConsoles
    BY <1>1, <1>3 DEF ChatInit, ChatConsoles
  <1> QED BY <1>2, <1>4 DEF ChatInit, ChatInv, CallsInv, TenantInv

\* For any browsers, tenants and questions, however long a history may be and
\* however late an answer comes: a console that was not switched with a call
\* under way keeps, for every tenant, only messages of that tenant
\* (AIConsoleView.jsx, and the routes of the chat).
THEOREM TenantsApart ==
    ChatInit /\ [][ChatNext]_chatVars => []TenantsApartUnlessOvertaken
  <1>1. ChatInit => ChatInv
    BY ChatStarts
  <1>2. ChatInv => TenantsApartUnlessOvertaken
    BY DEF ChatInv, ChatConsoles, TenantsApartUnlessOvertaken, Own
  <1> QED BY <1>1, <1>2, ChatStep, PTL

\* The history of a tenant is trimmed as it grows.
ChatBounds ==
    /\ \A t \in ChatTenants : Len(histories[t]) =< MaxKept
    /\ asked \subseteq Prompts /\ overtaken \subseteq Consoles

LEMMA TrimmedIsShort ==
    ASSUME NEW h \in Seq(ChatMsg)
    PROVE  Len(Trimmed(h)) =< MaxKept
  <1>1. MaxKept \in Nat /\ Len(h) \in Nat
    BY ChatAssumption
  <1>2. CASE Len(h) > MaxKept
    <2>1. Len(SubSeq(h, Len(h) - MaxKept + 1, Len(h))) = MaxKept
      BY <1>1, <1>2
    <2> QED BY <1>1, <1>2, <2>1 DEF Trimmed
  <1>3. CASE ~ (Len(h) > MaxKept)
    BY <1>1, <1>3 DEF Trimmed
  <1> QED BY <1>2, <1>3

LEMMA ChatTyped == ChatInv /\ ChatBounds /\ [ChatNext]_chatVars => ChatBounds'
  <1> SUFFICES ASSUME ChatInv, ChatBounds, [ChatNext]_chatVars PROVE ChatBounds'
    OBVIOUS
  <1>1. ASSUME NEW c \in thinking, Answered(c) PROVE ChatBounds'
    <2> DEFINE h == histories[c.tenant] \o <<Message(c, "user"), Message(c, "ai")>>
               new == Trimmed(h)
    <2>1. c \in ChatCall
      BY DEF ChatInv, CallsInv
    <2>2. Message(c, "user") \in ChatMsg /\ Message(c, "ai") \in ChatMsg
      BY <2>1 DEF ChatCall, ChatMsg, Message
    <2>3. histories[c.tenant] \in Seq(ChatMsg) /\ histories \in [ChatTenants -> Seq(ChatMsg)]
      BY <2>1 DEF ChatCall, ChatInv, ChatServer
    <2>4. h \in Seq(ChatMsg)
      BY <2>2, <2>3
    <2>5. Len(new) =< MaxKept
      BY <2>4, TrimmedIsShort
    <2>6. /\ histories' = [histories EXCEPT ![c.tenant] = new]
          /\ asked' = asked /\ overtaken' = overtaken
      BY <1>1 DEF Answered
    <2> HIDE DEF new
    <2> QED BY <2>3, <2>5, <2>6 DEF ChatBounds
  <1>2. ASSUME NEW b \in Consoles, NEW t \in ChatTenants, HandleClearChat(b, t) PROVE ChatBounds'
    <2>1. histories \in [ChatTenants -> Seq(ChatMsg)] /\ MaxKept \in Nat
      BY ChatAssumption DEF ChatInv, ChatServer
    <2>2. histories' \in {histories, [histories EXCEPT ![t] = <<>>]} /\ Len(<<>>) = 0
      BY <1>2 DEF HandleClearChat, Cleared
    <2>3. asked' = asked /\ overtaken' = overtaken
      BY <1>2 DEF HandleClearChat
    <2> QED BY <2>1, <2>2, <2>3 DEF ChatBounds
  <1>3. ASSUME NEW b \in Consoles, NEW t \in ChatTenants, SwitchTenant(b, t) PROVE ChatBounds'
    BY <1>3 DEF SwitchTenant, ChatBounds
  <1>4. ASSUME NEW b \in Consoles, NEW p \in Prompts, NEW sent \in BOOLEAN, HandleSend(b, p, sent)
        PROVE  ChatBounds'
    BY <1>4 DEF HandleSend, ChatBounds
  <1>5. ASSUME UNCHANGED <<histories, asked, overtaken>> PROVE ChatBounds'
    BY <1>5 DEF ChatBounds
  <1>6. ASSUME NEW c, Replied(c) \/ ReplyFails(c) PROVE ChatBounds'
    BY <1>5, <1>6 DEF Replied, ReplyFails
  <1>7. ASSUME NEW l, Loaded(l) \/ LoadFails(l) PROVE ChatBounds'
    BY <1>5, <1>7 DEF Loaded, LoadFails
  <1>8. ASSUME NEW b \in Consoles, Reopen(b) PROVE ChatBounds'
    BY <1>5, <1>8 DEF Reopen
  <1>9. CASE UNCHANGED chatVars
    BY <1>5, <1>9 DEF chatVars
  <1> QED BY <1>1, <1>2, <1>3, <1>4, <1>6, <1>7, <1>8, <1>9 DEF ChatNext

LEMMA ChatTypes == ChatInv /\ ChatBounds => ChatTypeOK
  BY DEF ChatInv, ChatBounds, ChatTypeOK, ChatConsoles, CallsInv, ChatCall

-----------------------------------------------------------------------------
(* The settings *)

\* What a section can be saved as: those without a secret have none
SectionForms == {f \in [Sections -> [plain : Plain, secret : Secrets \cup {None}]] :
            \A x \in Sections \ WithSecret : f[x].secret = None}

SettingsInv ==
    /\ settings \in SectionForms /\ form \in SectionForms \cup {None} /\ incoming \in SectionForms \cup {None}
    /\ entered \in [Sections -> Secrets \cup {None}]

LEMMA SettingsTyped == SettingsInv /\ [SettingsNext]_settingsVars => SettingsInv'
  <1> SUFFICES ASSUME SettingsInv, [SettingsNext]_settingsVars PROVE SettingsInv'
    OBVIOUS
  <1>1. ASSUME NEW p \in Plain, OpenPage(p) PROVE SettingsInv'
    BY <1>1 DEF OpenPage, Blanked, SettingsInv, SectionForms
  <1>2. CASE PageLoaded \/ PageNotLoaded \/ ClosePage
    BY <1>2 DEF PageLoaded, PageNotLoaded, ClosePage, SettingsInv
  <1>3. CASE HandleSaveSettings
    <2>1. form \in SectionForms /\ settings' = [x \in Sections |-> form[x]] /\ UNCHANGED <<form, incoming>>
      BY <1>3 DEF HandleSaveSettings, Saved, SettingsInv
    <2>2. settings' \in SectionForms
      BY <2>1 DEF SectionForms
    <2>3. entered' \in [Sections -> Secrets \cup {None}]
      BY <1>3, <2>1 DEF HandleSaveSettings, SettingsInv, SectionForms
    <2> QED BY <2>1, <2>2, <2>3 DEF SettingsInv
  <1>4. ASSUME NEW x \in Sections, NEW p \in Plain, TypePlain(x, p) PROVE SettingsInv'
    <2>1. form' \in SectionForms
      BY <1>4 DEF TypePlain, SettingsInv, SectionForms
    <2> QED BY <1>4, <2>1 DEF TypePlain, SettingsInv
  <1>5. ASSUME NEW x \in Sections, NEW s \in Secrets \cup {None}, TypeSecret(x, s)
        PROVE  SettingsInv'
    <2>1. form' \in SectionForms
      BY <1>5 DEF TypeSecret, SettingsInv, SectionForms
    <2> QED BY <1>5, <2>1 DEF TypeSecret, SettingsInv
  <1>6. CASE UNCHANGED settingsVars
    BY <1>6 DEF settingsVars, SettingsInv
  <1> QED BY <1>1, <1>2, <1>3, <1>4, <1>5, <1>6 DEF SettingsNext

LEMMA SettingsStart == SettingsInit => SettingsInv
  BY DEF SettingsInit, SettingsInv, SectionForms

LEMMA SettingsTypes == SettingsInv => SettingsTypeOK
  BY DEF SettingsInv, SettingsTypeOK, SectionForms

-----------------------------------------------------------------------------
(* The enrollment dialogue *)

\* Its type is its own inductive invariant.
LEMMA ModalStep == ModalTypeOK /\ [ModalNext]_modalVars => ModalTypeOK'
  BY DEF ModalTypeOK, ModalNext, modalVars, SetActiveTenant, OpenModal, CloseModal,
         HandleGenerateToken, TokenArrives, Reload
=============================================================================
