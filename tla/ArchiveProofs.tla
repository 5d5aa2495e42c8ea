---------------------------- MODULE ArchiveProofs ----------------------------
(***************************************************************************)
(* Proofs about Archive, for any number of accounts, nodes, receipts,      *)
(* identities and scenarios.                                               *)
(*                                                                         *)
(* A handler works on a record of the identity, the pending restore and    *)
(* the archive.  Its lemmas say what it may do to the first two, whatever  *)
(* the archive holds; a step of the system then follows from the state the *)
(* handler ends in.                                                        *)
(***************************************************************************)
EXTENDS Archive, TLAPS

IsIdentity(i) == DOMAIN i = {"account", "root", "replicas"}

IsState(st) ==
  /\ DOMAIN st = {"identity", "restore", "archive"}
  /\ IsIdentity(st.identity)

\* The inductive invariant: an identity is always that of an observed account,
\* a player at a table has one, a running restore is for the observed account
\* and nobody sat down meanwhile, and a recovery code names its account.
Owned(acc, i, pending, seated) ==
  /\ IsIdentity(i)
  /\ i # NoIdentity => i.account = acc /\ acc # Nil
  /\ pending # Nil => pending = acc /\ ~seated
  /\ seated => i # NoIdentity

IInv ==
  /\ Owned(account, identity, restore, busy)
  /\ \A c \in codes : c[1] # Nil

-----------------------------------------------------------------------------
\* What the handlers do to a state of the command loop.

\* fail_remote_restore only ends the restore.
LEMMA FailRemoteRestoreKeeps ==
  ASSUME NEW st, IsState(st)
  PROVE  /\ IsState(FailRemoteRestore(st))
         /\ FailRemoteRestore(st).identity = st.identity
         /\ FailRemoteRestore(st).restore = Nil
BY DEF IsState, IsIdentity, FailRemoteRestore

\* Publishing the backup of an identity ends at most the restore.
LEMMA PublishIdentityRecoveryKeeps ==
  ASSUME NEW st, IsState(st)
  PROVE  /\ IsState(PublishIdentityRecovery(st))
         /\ PublishIdentityRecovery(st).identity = st.identity
         /\ PublishIdentityRecovery(st).restore \in {st.restore, Nil}
BY FailRemoteRestoreKeeps DEF IsState, IsIdentity, PublishIdentityRecovery

\* Asking for the history of an identity changes neither.
LEMMA SyncStatisticsKeeps ==
  ASSUME NEW st, IsState(st)
  PROVE  /\ IsState(SyncStatistics(st))
         /\ SyncStatistics(st).identity = st.identity
         /\ SyncStatistics(st).restore = st.restore
BY DEF IsState, IsIdentity, SyncStatistics

\* An identity that is activated is the one that was asked for.
LEMMA ActivateInstalls ==
  ASSUME NEW st, IsState(st), NEW l, NEW root
  PROVE  /\ IsState(Activate(st, l, root))
         /\ Activate(st, l, root).identity = [account |-> l, root |-> root, replicas |-> 0]
         /\ Activate(st, l, root).restore \in {st.restore, Nil}
<1> DEFINE i   == [account |-> l, root |-> root, replicas |-> 0]
           set == [st EXCEPT !.identity = i]
           pub == PublishIdentityRecovery(set)
<1>1. IsState(set) /\ set.identity = i /\ set.restore = st.restore
  BY DEF IsState, IsIdentity
<1> HIDE DEF set
<1>2. IsState(pub) /\ pub.identity = i /\ pub.restore \in {st.restore, Nil}
  BY <1>1, PublishIdentityRecoveryKeeps
<1> HIDE DEF pub
<1>3. IsState(SyncStatistics(pub)) /\ SyncStatistics(pub).identity = i
      /\ SyncStatistics(pub).restore = pub.restore
  BY <1>2, SyncStatisticsKeeps
<1>4. Activate(st, l, root) = SyncStatistics(pub)
  BY DEF Activate, pub, set
<1> QED
  BY <1>2, <1>3, <1>4

\* complete_remote_restore installs an identity only for the account that is
\* observed, and never for a player at a table.
LEMMA CompleteRemoteRestoreOwned ==
  ASSUME NEW st, IsState(st), st.restore # Nil, Owned(account, st.identity, st.restore, busy)
  PROVE  LET new == CompleteRemoteRestore(st)
         IN  /\ IsState(new)
             /\ Owned(account, new.identity, new.restore, busy)
             /\ busy => new.identity = st.identity
<1> DEFINE l       == st.restore
           payload == Head(st.archive.envelopes[l])
           taken   == [st EXCEPT !.archive.envelopes[l] = Tail(@)]
           ended   == [taken EXCEPT !.restore = Nil, !.archive = CancelRecoveryFetch(@, l)]
           new     == CompleteRemoteRestore(st)
<1>1. ~busy /\ account = l
  BY DEF Owned
<1>2. IsState(taken) /\ taken.identity = st.identity /\ taken.restore = st.restore
  BY DEF IsState, IsIdentity
<1>3. IsState(ended) /\ ended.restore = Nil
  BY DEF IsState, IsIdentity
<1> HIDE DEF taken, ended
<1>4. \/ new = Activate(ended, l, payload)
      \/ new = FailRemoteRestore(taken)
      \/ new = taken
  <2> HIDE DEF payload
  <2> QED BY <1>1 DEF CompleteRemoteRestore, taken, ended, payload
<1> HIDE DEF new
<1>5. CASE new = Activate(ended, l, payload)
  <2> HIDE DEF payload
  <2>1. /\ IsState(new) /\ new.restore = Nil
        /\ new.identity = [account |-> l, root |-> payload, replicas |-> 0]
    BY <1>3, <1>5, ActivateInstalls
  <2> QED BY <1>1, <2>1 DEF Owned, IsState, new
<1>6. CASE new = FailRemoteRestore(taken)
  BY <1>1, <1>2, <1>6, FailRemoteRestoreKeeps DEF Owned, new
<1>7. CASE new = taken
  BY <1>1, <1>2, <1>7 DEF Owned, new
<1> QED
  BY <1>4, <1>5, <1>6, <1>7

\* Whatever event the archive reports, the identity stays that of the observed
\* account, and a player at a table keeps it.
LEMMA ProcessArchiveEventOwned ==
  ASSUME NEW st, IsState(st), NEW e, Owned(account, st.identity, st.restore, busy)
  PROVE  LET new == ProcessArchiveEvent(st, e)
         IN  /\ IsState(new)
             /\ Owned(account, new.identity, new.restore, busy)
             /\ busy => new.identity.root = st.identity.root
<1> DEFINE new == ProcessArchiveEvent(st, e)
           rep == [st EXCEPT !.identity.replicas = e.replicas]
<1>1. \/ /\ new = rep /\ st.identity # NoIdentity
      \/ /\ st.restore # Nil /\ new = CompleteRemoteRestore(st)
      \/ /\ new = FailRemoteRestore(st)
      \/ new = st
  BY DEF ProcessArchiveEvent
<1>2. CASE new = rep /\ st.identity # NoIdentity
  <2>1. /\ IsState(rep) /\ rep.restore = st.restore
        /\ rep.identity.account = st.identity.account
        /\ rep.identity.root = st.identity.root
    BY DEF IsState, IsIdentity
  <2>2. rep.identity # NoIdentity
    BY <2>1, <1>2 DEF Owned, NoIdentity
  <2> QED
    BY <2>1, <2>2, <1>2 DEF Owned, IsState
<1>3. CASE st.restore # Nil /\ new = CompleteRemoteRestore(st)
  BY <1>3, CompleteRemoteRestoreOwned
<1>4. CASE new = FailRemoteRestore(st)
  BY <1>4, FailRemoteRestoreKeeps DEF Owned
<1>5. CASE new = st
  BY <1>5
<1> QED
  BY <1>1, <1>2, <1>3, <1>4, <1>5

-----------------------------------------------------------------------------
\* What a step may do to the identity of a player at a table.
Keeps == busy /\ busy' => identity' # NoIdentity /\ identity'.root = identity.root

LEMMA InductiveStep ==
  ASSUME IInv, [Next]_vars
  PROVE  IInv' /\ Keeps
<1> USE DEF IInv
<1>0. IsState(Current) /\ Current.identity = identity /\ Current.restore = restore
  BY DEF IsState, IsIdentity, Current, Owned
<1>1. ASSUME NEW st, Ends(st)
      PROVE  identity' = st.identity /\ restore' = st.restore
  BY <1>1 DEF Ends
<1>2. ASSUME NEW l \in Accounts, TokenSnapshot(l)
      PROVE  IInv' /\ Keeps
  <2>1. l # Nil /\ account' = l /\ busy' = busy /\ codes' = codes
    BY <1>2, ArchiveAssumption DEF TokenSnapshot
  <2>2. CASE account \in {Nil, l}
    <3>1. identity' = identity /\ restore' = restore
      BY <2>2, <1>2, <1>0, <1>1 DEF TokenSnapshot
    <3> QED BY <2>1, <2>2, <3>1 DEF Owned, Keeps
  <2>3. CASE account \notin {Nil, l}
    <3> DEFINE st == [FailRemoteRestore(Current) EXCEPT !.identity = NoIdentity]
    <3>1. ~busy /\ Ends(st)
      BY <2>3, <1>2 DEF TokenSnapshot, Replaceable
    <3>2. st.identity = NoIdentity /\ st.restore = Nil
      BY <1>0, FailRemoteRestoreKeeps DEF IsState
    <3>3. identity' = NoIdentity /\ restore' = Nil
      BY <3>1, <3>2, <1>1
    <3> QED BY <2>1, <3>1, <3>3 DEF Owned, Keeps, NoIdentity, IsIdentity
  <2> QED BY <2>2, <2>3
<1>3. ASSUME NEW root, restore = Nil, account # Nil, Ends(Activate(Current, account, root)),
             account' = account, busy' = busy, ~busy
      PROVE  Owned(account', identity', restore', busy')
  <2>1. /\ Activate(Current, account, root).identity
             = [account |-> account, root |-> root, replicas |-> 0]
        /\ Activate(Current, account, root).restore = Nil
    BY <1>3, <1>0, ActivateInstalls
  <2>2. identity' = [account |-> account, root |-> root, replicas |-> 0] /\ restore' = Nil
    BY <1>3, <1>1, <2>1
  <2> QED BY <1>3, <2>2 DEF Owned, IsIdentity
<1>4. CASE CreateIdentity
  <2> DEFINE n == Cardinality(codes) + 1
  <2> HIDE DEF n
  <2>1. /\ restore = Nil /\ account # Nil /\ identity = NoIdentity
        /\ Ends(Activate(Current, account, n))
        /\ account' = account /\ busy' = busy
        /\ codes' = codes \cup {<<account, n>>}
    BY <1>4 DEF CreateIdentity, n
  <2>2. ~busy
    BY <2>1 DEF Owned
  <2> QED BY <2>1, <2>2, <1>3 DEF Keeps
<1>5. ASSUME NEW root \in Roots, RestoreIdentity(root)
      PROVE  IInv' /\ Keeps
  <2>1. /\ restore = Nil /\ ~busy /\ <<account, root>> \in codes
        /\ Ends(Activate(Current, account, root))
        /\ account' = account /\ busy' = busy /\ codes' = codes
    BY <1>5 DEF RestoreIdentity, Replaceable
  <2>2. account # Nil
    BY <2>1
  <2> QED BY <2>1, <2>2, <1>3 DEF Keeps
<1>6. CASE RestoreRemoteIdentity
  <2> DEFINE st == [Current EXCEPT !.restore = account, !.archive = FetchRecovery(@, account)]
  <2>1. /\ ~busy /\ account # Nil /\ account' = account /\ busy' = busy /\ codes' = codes
        /\ Ends(Current) \/ Ends(st)
    BY <1>6 DEF RestoreRemoteIdentity, Replaceable
  <2>2. st.identity = identity /\ st.restore = account
    BY <1>0 DEF IsState
  <2>3. identity' = identity /\ restore' \in {restore, account}
    BY <2>1, <2>2, <1>0, <1>1
  <2> QED BY <2>1, <2>3 DEF Owned, Keeps
<1>7. ASSUME identity' = identity, restore' \in {restore, Nil},
             account' = account, busy' = busy, codes' = codes
      PROVE  IInv' /\ Keeps
  BY <1>7 DEF Owned, Keeps
<1>8. ASSUME NEW peers, NEW minimum, ConfigureArchiveNodes(peers, minimum)
      PROVE  IInv' /\ Keeps
  <2> DEFINE st  == [Current EXCEPT !.archive = ConfigurePeers(@, peers, minimum)]
             pub == PublishIdentityRecovery(st)
  <2>1. /\ account' = account /\ busy' = busy /\ codes' = codes
        /\ Ends(st) \/ Ends(SyncStatistics(pub))
    BY <1>8 DEF ConfigureArchiveNodes
  <2>2. IsState(st) /\ st.identity = identity /\ st.restore = restore
    BY <1>0 DEF IsState, IsIdentity
  <2> HIDE DEF st
  <2>3. IsState(pub) /\ pub.identity = identity /\ pub.restore \in {restore, Nil}
    BY <2>2, PublishIdentityRecoveryKeeps
  <2> HIDE DEF pub
  <2>4. identity' = identity /\ restore' \in {restore, Nil}
    BY <2>1, <2>2, <2>3, <1>1, SyncStatisticsKeeps
  <2> QED BY <2>1, <2>4, <1>7
<1>9. ASSUME NEW a, Ends([Current EXCEPT !.archive = a]),
             account' = account, busy' = busy, codes' = codes
      PROVE  IInv' /\ Keeps
  <2>1. /\ [Current EXCEPT !.archive = a].identity = identity
        /\ [Current EXCEPT !.archive = a].restore = restore
    BY <1>0 DEF IsState
  <2>2. identity' = identity /\ restore' = restore
    BY <2>1, <1>9, <1>1
  <2> QED BY <2>2, <1>9, <1>7
<1>10. CASE Synchronize
  <2>1. identity' = identity /\ restore' = restore
    BY <1>10, <1>0, <1>1, SyncStatisticsKeeps DEF Synchronize
  <2> QED BY <2>1, <1>10, <1>7 DEF Synchronize
<1>11. ASSUME NEW address \in Receipts, FetchArchivedReceipt(address) \/ HandFinished(address)
       PROVE  IInv' /\ Keeps
  BY <1>11, <1>9, Zenon DEF FetchArchivedReceipt, HandFinished
<1>12. CASE EnterTable
  BY <1>12 DEF EnterTable, Owned, Keeps
<1>13. CASE LeaveTable
  BY <1>13 DEF LeaveTable, Owned, Keeps
<1>14. CASE Restart
  BY <1>14 DEF Restart, Owned, Keeps, NoIdentity, IsIdentity
<1>15. ASSUME NEW r, NEW ok, NEW content, Answered(r, ok, content),
              account' = account, busy' = busy, codes' = codes
       PROVE  IInv' /\ Keeps
  <2>1. PICK h : Ends(ProcessArchiveEvent([Current EXCEPT !.archive = h.archive], h.event))
    BY <1>15, Zenon DEF Answered
  <2> DEFINE st == [Current EXCEPT !.archive = h.archive]
  <2>2. IsState(st) /\ st.identity = identity /\ st.restore = restore
    BY <1>0 DEF IsState, IsIdentity
  <2> HIDE DEF st
  <2> DEFINE new == ProcessArchiveEvent(st, h.event)
  <2>3. /\ IsState(new) /\ Owned(account, new.identity, new.restore, busy)
        /\ busy => new.identity.root = identity.root
    BY <2>2, ProcessArchiveEventOwned
  <2>4. identity' = new.identity /\ restore' = new.restore
    BY <2>1, <1>1 DEF st
  <2> HIDE DEF new
  <2> QED BY <2>3, <2>4, <1>15 DEF Owned, Keeps
<1>16. ASSUME NEW x, HandleResponse(x)
       PROVE  IInv' /\ Keeps
  <2>1. CASE Answered(x.request, x.ok, {})
    BY <2>1, <1>16, <1>15 DEF HandleResponse
  <2>2. CASE Ends(Current)
    BY <2>2, <1>16, <1>0, <1>1, <1>7 DEF HandleResponse
  <2> QED BY <2>1, <2>2, <1>16 DEF HandleResponse
<1>17. ASSUME NEW r, HandleRead(r)
       PROVE  IInv' /\ Keeps
  BY <1>17, <1>15 DEF HandleRead
<1>18. ASSUME UNCHANGED <<account, identity, restore, busy, codes>>
       PROVE  IInv' /\ Keeps
  BY <1>18, <1>7
<1>19. CASE Commands
  BY <1>19, <1>2, <1>4, <1>5, <1>6, <1>8, <1>10, <1>11, <1>12, <1>13, <1>14, <1>18
  DEF Commands, OpponentArchives
<1>20. CASE Network
  BY <1>20, <1>16, <1>17, <1>18 DEF Network, Serve
<1>21. CASE Faults
  BY <1>21, <1>18 DEF Faults, FailRequest, Crash, LoseAnswer
<1>22. CASE UNCHANGED vars
  BY <1>22, <1>18 DEF vars
<1> QED
  BY <1>19, <1>20, <1>21, <1>22 DEF Next

LEMMA InitIInv == Init => IInv
BY ArchiveAssumption DEF Init, IInv, Owned, NoIdentity, IsIdentity

\* For every set of accounts, nodes and receipts, and however answers, node
\* changes, account switches, restarts and faults interleave: the identity
\* in use is that of the observed account, a restore that is running is for it,
\* and nobody is at a table while it runs (reconcile_account,
\* complete_remote_restore, validate_local_buy_in).
THEOREM IdentityIsTheAccounts == Spec => []IdentityMatchesAccount
<1>1. IInv => IdentityMatchesAccount
  BY DEF IInv, Owned, IdentityMatchesAccount
<1> QED
  BY <1>1, InitIInv, InductiveStep, PTL DEF Spec

\* Likewise, a player at a table keeps the identity it sat down with
\* (ensure_identity_replaceable).
THEOREM SeatedIdentityIsStable == Spec => IdentityIsStable
<1>1. IInv /\ [Next]_vars => [busy /\ busy' => identity' # NoIdentity /\ identity'.root = identity.root]_vars
  BY InductiveStep DEF Keeps
<1> QED
  BY <1>1, InitIInv, InductiveStep, PTL DEF Spec, IdentityIsStable

-----------------------------------------------------------------------------
\* Replicas.  An archive is good on the current nodes when every node that is
\* counted for a receipt holds it, and every pending request went to a node.
Kinds == {"put", "fetch", "list", "store", "restore"}

IsUpload(u) == DOMAIN u = {"remaining", "required", "confirmed", "finished"}

IsArchive(a) ==
  /\ DOMAIN a = {"peers", "minimum", "calls", "requests", "uploads", "fetches", "lists",
                 "recovery_uploads", "recovery_fetches", "envelopes", "verified", "archived"}
  /\ DOMAIN a.uploads = Receipts
  /\ \A x \in Receipts : IsUpload(a.uploads[x])
  /\ a.peers \subseteq Nodes
  /\ \A r \in a.requests : r.node \in Nodes /\ r.kind \in Kinds

Held(n, address) == n \in Nodes /\ Holds(n, address)

Good(a) ==
  /\ IsArchive(a)
  /\ \A x \in Receipts : \A n \in a.uploads[x].confirmed : Held(n, x)

\* Only the requests, the peers and the uploads matter.
LEMMA GoodByParts ==
  ASSUME NEW a, NEW b, Good(a), DOMAIN b = DOMAIN a, b.uploads = a.uploads, b.peers = a.peers,
         \A r \in b.requests : r \in a.requests \/ (r.node \in Nodes /\ r.kind \in Kinds)
  PROVE  Good(b)
BY DEF Good, IsArchive

LEMMA AskGood ==
  ASSUME NEW a, Good(a), NEW kind \in Kinds, NEW key, NEW root
  PROVE  Good(Ask(a, kind, key, root)) /\ Ask(a, kind, key, root).uploads = a.uploads
<1> DEFINE b == Ask(a, kind, key, root)
<1>1. /\ DOMAIN b = DOMAIN a /\ b.uploads = a.uploads /\ b.peers = a.peers
      /\ b.requests = a.requests \cup {[call |-> a.calls + 1, node |-> n, kind |-> kind,
                                        key |-> key, root |-> root] : n \in a.peers}
  BY DEF Ask, Good, IsArchive
<1>2. \A r \in b.requests : r \in a.requests \/ (r.node \in Nodes /\ r.kind \in Kinds)
  BY <1>1 DEF Good, IsArchive
<1> HIDE DEF b
<1> QED BY <1>1, <1>2, GoodByParts DEF b

LEMMA DropGood ==
  ASSUME NEW a, Good(a), NEW kind, NEW key
  PROVE  Good(Drop(a, kind, key))
<1> DEFINE b == Drop(a, kind, key)
<1>1. DOMAIN b = DOMAIN a /\ b.uploads = a.uploads /\ b.peers = a.peers
      /\ b.requests \subseteq a.requests
  BY DEF Drop, Good, IsArchive
<1> HIDE DEF b
<1> QED BY <1>1, GoodByParts DEF b

LEMMA ConfigurePeersGood ==
  ASSUME NEW a, NEW peers, peers \subseteq Nodes, NEW minimum
  PROVE  Good(ConfigurePeers(a, peers, minimum))
BY DEF ConfigurePeers, NewArchive, NoUpload, Good, IsArchive, IsUpload

LEMMA PublishReceiptGood ==
  ASSUME NEW a, Good(a), NEW address
  PROVE  Good(PublishReceipt(a, address))
<1> DEFINE known == [a EXCEPT !.verified = @ \cup {address}]
           b     == Ask(known, "put", address, 0)
           c     == [b EXCEPT !.uploads[address] = Upload(a)]
<1>1. Good(known)
  <2>1. DOMAIN known = DOMAIN a /\ known.uploads = a.uploads /\ known.peers = a.peers
        /\ known.requests = a.requests
    BY DEF Good, IsArchive
  <2> HIDE DEF known
  <2> QED BY <2>1, GoodByParts
<1> HIDE DEF known
<1>2. Good(b)
  BY <1>1, AskGood DEF Kinds
<1> HIDE DEF b
<1>3. IsUpload(Upload(a)) /\ Upload(a).confirmed = {}
  BY DEF Upload, IsUpload
<1>4. /\ DOMAIN c = DOMAIN b /\ c.peers = b.peers /\ c.requests = b.requests
      /\ c.uploads = [b.uploads EXCEPT ![address] = Upload(a)]
  BY <1>2 DEF Good, IsArchive
<1> HIDE DEF c
<1>5. Good(c)
  BY <1>2, <1>3, <1>4 DEF Good, IsArchive
<1> QED
  BY <1>1, <1>5 DEF PublishReceipt, known, b, c

LEMMA StartFetchGood ==
  ASSUME NEW a, Good(a), NEW addresses
  PROVE  Good(StartFetch(a, addresses))
<1> DEFINE b == StartFetch(a, addresses)
<1>1. /\ DOMAIN b = DOMAIN a /\ b.uploads = a.uploads /\ b.peers = a.peers
      /\ b.requests = a.requests \cup
           {[call |-> a.calls + 1, node |-> n, kind |-> "fetch", key |-> x, root |-> 0] :
              n \in a.peers, x \in addresses}
  BY DEF StartFetch, Good, IsArchive
<1>2. \A r \in b.requests : r \in a.requests \/ (r.node \in Nodes /\ r.kind \in Kinds)
  BY <1>1 DEF Good, IsArchive, Kinds
<1> HIDE DEF b
<1> QED BY <1>1, <1>2, GoodByParts DEF b

LEMMA FetchReceiptGood ==
  ASSUME NEW a, Good(a), NEW address
  PROVE  Good(FetchReceipt(a, address))
BY StartFetchGood DEF FetchReceipt

LEMMA SyncPlayerGood ==
  ASSUME NEW a, Good(a), NEW root
  PROVE  Good(SyncPlayer(a, root))
<1> DEFINE b == Ask(a, "list", root, 0)
           c == [b EXCEPT !.lists[root] = [remaining |-> Cardinality(a.peers), received |-> {}]]
<1>1. Good(b)
  BY AskGood DEF Kinds
<1> HIDE DEF b
<1>2. DOMAIN c = DOMAIN b /\ c.uploads = b.uploads /\ c.peers = b.peers /\ c.requests = b.requests
  BY <1>1 DEF Good, IsArchive
<1> HIDE DEF c
<1>3. Good(c)
  BY <1>1, <1>2, GoodByParts
<1> QED BY <1>3 DEF SyncPlayer, b, c

LEMMA PublishRecoveryGood ==
  ASSUME NEW a, Good(a), NEW locator, NEW root
  PROVE  Good(PublishRecovery(a, locator, root))
<1> DEFINE b == Ask(Drop(a, "store", locator), "store", locator, root)
           c == [b EXCEPT !.recovery_uploads[locator] = Upload(a)]
<1>1. Good(b)
  BY AskGood, DropGood DEF Kinds
<1> HIDE DEF b
<1>2. DOMAIN c = DOMAIN b /\ c.uploads = b.uploads /\ c.peers = b.peers /\ c.requests = b.requests
  BY <1>1 DEF Good, IsArchive
<1> HIDE DEF c
<1>3. Good(c)
  BY <1>1, <1>2, GoodByParts
<1> QED BY <1>3 DEF PublishRecovery, b, c

LEMMA FetchRecoveryGood ==
  ASSUME NEW a, Good(a), NEW locator
  PROVE  Good(FetchRecovery(a, locator))
<1> DEFINE b == Ask(a, "restore", locator, 0)
           c == [b EXCEPT !.recovery_fetches[locator] = Fetch(a), !.envelopes[locator] = <<>>]
<1>1. Good(b)
  BY AskGood DEF Kinds
<1> HIDE DEF b
<1>2. DOMAIN c = DOMAIN b /\ c.uploads = b.uploads /\ c.peers = b.peers /\ c.requests = b.requests
  BY <1>1 DEF Good, IsArchive
<1> HIDE DEF c
<1>3. Good(c)
  BY <1>1, <1>2, GoodByParts
<1> QED BY <1>3 DEF FetchRecovery, b, c

LEMMA CancelRecoveryFetchGood ==
  ASSUME NEW a, Good(a), NEW locator
  PROVE  Good(CancelRecoveryFetch(a, locator))
<1> DEFINE b == Drop(a, "restore", locator)
           c == [b EXCEPT !.recovery_fetches[locator] = Nil, !.envelopes[locator] = <<>>]
<1>1. Good(b)
  BY DropGood
<1> HIDE DEF b
<1>2. DOMAIN c = DOMAIN b /\ c.uploads = b.uploads /\ c.peers = b.peers /\ c.requests = b.requests
  BY <1>1 DEF Good, IsArchive
<1> HIDE DEF c
<1>3. Good(c)
  BY <1>1, <1>2, GoodByParts
<1> QED BY <1>3 DEF CancelRecoveryFetch, b, c

\* An answer that is counted came from a node that holds the receipt.
LEMMA FinishPutGood ==
  ASSUME NEW a, Good(a), NEW r, NEW ok, ok => Held(r.node, r.key)
  PROVE  Good(FinishPut(a, r, ok))
<1> DEFINE old  == a.uploads[r.key]
           u    == Confirm(old, r, ok)
           done == ~u.finished /\ Enough(u)
           v    == [u EXCEPT !.finished = @ \/ done \/ u.remaining = 0]
           b    == FinishPut(a, r, ok)
<1>1. /\ DOMAIN b = DOMAIN a /\ b.peers = a.peers /\ b.requests = a.requests
      /\ b.uploads = [a.uploads EXCEPT ![r.key] = v]
  BY DEF FinishPut, Good, IsArchive
<1>2. CASE r.key \in Receipts
  <2>1. IsUpload(old)
    BY <1>2 DEF Good, IsArchive
  <2>2. IsUpload(u) /\ u.confirmed \subseteq old.confirmed \cup (IF ok THEN {r.node} ELSE {})
    <3> HIDE DEF old
    <3> QED BY <2>1 DEF Confirm, IsUpload
  <2> HIDE DEF u, done
  <2>3. IsUpload(v) /\ v.confirmed = u.confirmed
    BY <2>2 DEF IsUpload
  <2> HIDE DEF v, b
  <2>4. \A n \in v.confirmed : Held(n, r.key)
    BY <1>2, <2>2, <2>3 DEF Good
  <2> QED BY <1>1, <1>2, <2>3, <2>4 DEF Good, IsArchive, b
<1>3. CASE r.key \notin Receipts
  <2> HIDE DEF v, b
  <2>1. DOMAIN b.uploads = Receipts /\ \A x \in Receipts : b.uploads[x] = a.uploads[x]
    BY <1>1, <1>3 DEF Good, IsArchive
  <2> QED BY <1>1, <2>1 DEF Good, IsArchive, b
<1> QED
  BY <1>2, <1>3

LEMMA HandleFetchGood ==
  ASSUME NEW a, Good(a), NEW r, NEW content
  PROVE  Good(HandleFetch(a, r, content))
<1> DEFINE b == HandleFetch(a, r, content)
<1>1. DOMAIN b = DOMAIN a /\ b.uploads = a.uploads /\ b.peers = a.peers /\ b.requests = a.requests
  BY DEF HandleFetch, Good, IsArchive
<1> HIDE DEF b
<1> QED BY <1>1, GoodByParts DEF b

LEMMA HandleListGood ==
  ASSUME NEW a, Good(a), NEW r, NEW content
  PROVE  Good(HandleList(a, r, content))
<1> DEFINE b   == Listed(a, r, content)
           new == {x \in content \ a.lists[r.key].received :
                     x \notin a.verified /\ a.fetches[x] = Nil}
<1>1. DOMAIN b = DOMAIN a /\ b.uploads = a.uploads /\ b.peers = a.peers /\ b.requests = a.requests
  BY DEF Listed, Good, IsArchive
<1> HIDE DEF b
<1>2. Good(b)
  BY <1>1, GoodByParts
<1> HIDE DEF new
<1>3. Good(StartFetch(b, new))
  BY <1>2, StartFetchGood
<1> QED BY <1>2, <1>3 DEF HandleList, b, new

LEMMA FinishRecoveryPutGood ==
  ASSUME NEW a, Good(a), NEW r, NEW ok
  PROVE  Good(FinishRecoveryPut(a, r, ok).archive)
<1> DEFINE b == FinishRecoveryPut(a, r, ok).archive
<1>1. DOMAIN b = DOMAIN a /\ b.uploads = a.uploads /\ b.peers = a.peers /\ b.requests = a.requests
  BY DEF FinishRecoveryPut, Good, IsArchive
<1> HIDE DEF b
<1> QED BY <1>1, GoodByParts DEF b

LEMMA HandleRecoveryFetchGood ==
  ASSUME NEW a, Good(a), NEW r, NEW content
  PROVE  Good(HandleRecoveryFetch(a, r, content).archive)
<1> DEFINE b == HandleRecoveryFetch(a, r, content).archive
<1>1. DOMAIN b = DOMAIN a /\ b.uploads = a.uploads /\ b.peers = a.peers /\ b.requests = a.requests
  BY DEF HandleRecoveryFetch, Good, IsArchive
<1> HIDE DEF b
<1> QED BY <1>1, GoodByParts DEF b

LEMMA HandleGood ==
  ASSUME NEW b, Good(b), NEW r, r.kind \in Kinds, NEW ok, NEW content,
         r.kind = "put" /\ ok => Held(r.node, r.key)
  PROVE  Good(Handle(b, r, ok, content).archive)
<1> DEFINE a == [b EXCEPT !.requests = @ \ {r}]
<1>1. Good(a)
  <2>1. DOMAIN a = DOMAIN b /\ a.uploads = b.uploads /\ a.peers = b.peers
        /\ a.requests \subseteq b.requests
    BY DEF Good, IsArchive
  <2> HIDE DEF a
  <2> QED BY <2>1, GoodByParts
<1> HIDE DEF a
<1>2. CASE r.kind = "put"
  BY <1>1, <1>2, FinishPutGood DEF Handle, a
<1>3. CASE r.kind = "fetch"
  BY <1>1, <1>3, HandleFetchGood DEF Handle, a
<1>4. CASE r.kind = "list"
  BY <1>1, <1>4, HandleListGood DEF Handle, a
<1>5. CASE r.kind = "store"
  BY <1>1, <1>5, FinishRecoveryPutGood DEF Handle, a
<1>6. CASE r.kind = "restore"
  BY <1>1, <1>6, HandleRecoveryFetchGood DEF Handle, a
<1> QED
  BY <1>2, <1>3, <1>4, <1>5, <1>6 DEF Kinds

\* The handlers of the command loop.
GoodState(st) == IsState(st) /\ Good(st.archive)

LEMMA FailRemoteRestoreGood ==
  ASSUME NEW st, GoodState(st)
  PROVE  GoodState(FailRemoteRestore(st))
BY FailRemoteRestoreKeeps, CancelRecoveryFetchGood DEF GoodState, IsState, FailRemoteRestore

LEMMA PublishIdentityRecoveryGood ==
  ASSUME NEW st, GoodState(st)
  PROVE  GoodState(PublishIdentityRecovery(st))
BY PublishIdentityRecoveryKeeps, PublishRecoveryGood, FailRemoteRestoreGood
DEF GoodState, IsState, PublishIdentityRecovery

LEMMA SyncStatisticsGood ==
  ASSUME NEW st, GoodState(st)
  PROVE  GoodState(SyncStatistics(st))
BY SyncStatisticsKeeps, SyncPlayerGood DEF GoodState, IsState, SyncStatistics

LEMMA ActivateGood ==
  ASSUME NEW st, GoodState(st), NEW l, NEW root
  PROVE  GoodState(Activate(st, l, root))
<1> DEFINE set == [st EXCEPT !.identity = [account |-> l, root |-> root, replicas |-> 0]]
<1>1. GoodState(set)
  BY DEF GoodState, IsState, IsIdentity
<1> HIDE DEF set
<1> QED
  BY <1>1, PublishIdentityRecoveryGood, SyncStatisticsGood DEF Activate, set

LEMMA CompleteRemoteRestoreGood ==
  ASSUME NEW st, GoodState(st)
  PROVE  GoodState(CompleteRemoteRestore(st))
<1> DEFINE l       == st.restore
           payload == Head(st.archive.envelopes[l])
           tail    == [st.archive EXCEPT !.envelopes[l] = Tail(@)]
           taken   == [st EXCEPT !.archive.envelopes[l] = Tail(@)]
           ended   == [taken EXCEPT !.restore = Nil, !.archive = CancelRecoveryFetch(@, l)]
           new     == CompleteRemoteRestore(st)
<1>1. Good(tail)
  <2>1. /\ DOMAIN tail = DOMAIN st.archive /\ tail.uploads = st.archive.uploads
        /\ tail.peers = st.archive.peers /\ tail.requests = st.archive.requests
    BY DEF GoodState, Good, IsArchive
  <2> HIDE DEF tail
  <2> QED BY <2>1, GoodByParts DEF GoodState
<1>2. GoodState(taken)
  <2>1. IsState(taken) /\ taken.archive = tail
    BY DEF GoodState, IsState, IsIdentity
  <2> QED BY <1>1, <2>1 DEF GoodState
<1> HIDE DEF taken
<1>3. GoodState(ended)
  <2>1. IsState(ended) /\ ended.archive = CancelRecoveryFetch(taken.archive, l)
    BY <1>2 DEF GoodState, IsState, IsIdentity
  <2> QED BY <1>2, <2>1, CancelRecoveryFetchGood DEF GoodState
<1> HIDE DEF ended
<1>4. \/ new = st
      \/ new = Activate(ended, l, payload)
      \/ new = FailRemoteRestore(taken)
      \/ new = taken
  BY DEF CompleteRemoteRestore, taken, ended
<1> HIDE DEF new, payload
<1> QED
  BY <1>2, <1>3, <1>4, ActivateGood, FailRemoteRestoreGood DEF new

LEMMA ProcessArchiveEventGood ==
  ASSUME NEW st, GoodState(st), NEW e
  PROVE  GoodState(ProcessArchiveEvent(st, e))
<1> DEFINE new == ProcessArchiveEvent(st, e)
           rep == [st EXCEPT !.identity.replicas = e.replicas]
<1>1. \/ new = rep
      \/ new = CompleteRemoteRestore(st)
      \/ new = FailRemoteRestore(st)
      \/ new = st
  BY DEF ProcessArchiveEvent
<1>2. GoodState(rep)
  BY DEF GoodState, IsState, IsIdentity
<1> HIDE DEF new, rep
<1> QED
  BY <1>1, <1>2, CompleteRemoteRestoreGood, FailRemoteRestoreGood DEF new

-----------------------------------------------------------------------------
\* The invariant of the nodes and of what travels: a node never loses what it
\* holds, and an answer that a put succeeded tells the truth.
IsDisk(d) ==
  /\ DOMAIN d = {"objects", "index", "recovery", "leftover"}
  /\ DOMAIN d.index = Roots \cup {Opponent}

NodesOK == DOMAIN node = Nodes /\ \A n \in Nodes : IsDisk(node[n])

AnswersOK ==
  \A x \in answers :
    /\ DOMAIN x = {"request", "ok"}
    /\ x.request.kind = "put" /\ x.ok => Held(x.request.node, x.request.key)

LeftOK ==
  /\ "configurations" \in DOMAIN left
  /\ \A c \in left.configurations : c[1] \subseteq Nodes

HInv ==
  /\ IsIdentity(identity)
  /\ Good(archive)
  /\ NodesOK
  /\ \A r \in asked : r.node \in Nodes
  /\ AnswersOK
  /\ LeftOK

LEMMA SpendKeeps ==
  ASSUME LeftOK, NEW what, what # "configurations", Spend(what)
  PROVE  LeftOK'
BY DEF LeftOK, Spend

\* A handler of the sidecar that ends in a good state keeps the invariant.
LEMMA EndsKeeps ==
  ASSUME HInv, NEW st, GoodState(st), Ends(st), node' = node, answers' \subseteq answers, LeftOK'
  PROVE  HInv'
<1>1. archive' = st.archive /\ identity' = st.identity
      /\ asked' \subseteq asked \cup st.archive.requests
  BY DEF Ends, Live
<1>2. IsIdentity(identity')
  BY <1>1 DEF GoodState, IsState
<1>3. \A n, x : Held(n, x)' <=> Held(n, x)
  BY DEF Held, Holds
<1>4. Good(archive)'
  BY <1>1, <1>3 DEF GoodState, Good, IsArchive
<1>5. NodesOK' /\ AnswersOK'
  BY <1>3 DEF HInv, NodesOK, AnswersOK
<1>6. \A r \in asked' : r.node \in Nodes
  BY <1>1 DEF HInv, GoodState, Good, IsArchive
<1> QED
  BY <1>2, <1>4, <1>5, <1>6 DEF HInv

\* So does a step of a node that loses nothing and answers truthfully.
LEMMA NodeKeeps ==
  ASSUME HInv, archive' = archive, identity' = identity, NodesOK',
         \A n, x : Held(n, x) => Held(n, x)',
         NEW r \in asked, NEW ok, Reply(r, ok),
         r.kind = "put" /\ ok => Held(r.node, r.key)', LeftOK'
  PROVE  HInv'
<1>1. IsIdentity(identity') /\ Good(archive)'
  BY DEF HInv, Good, IsArchive
<1>2. AnswersOK'
  BY DEF HInv, AnswersOK, Reply
<1>3. \A q \in asked' : q.node \in Nodes
  BY DEF HInv, Reply
<1> QED
  BY <1>1, <1>2, <1>3 DEF HInv

LEMMA CommandsKeep ==
  ASSUME HInv, Commands
  PROVE  HInv'
<1>0. GoodState(Current) /\ Current.archive = archive /\ Current.identity = identity
  BY DEF HInv, GoodState, IsState, Current
<1>1. ASSUME NEW a, Good(a), Ends([Current EXCEPT !.archive = a]),
             node' = node, answers' = answers, LeftOK'
      PROVE  HInv'
  <2> DEFINE st == [Current EXCEPT !.archive = a]
  <2>1. GoodState(st)
    BY <1>0, <1>1 DEF GoodState, IsState
  <2> HIDE DEF st
  <2> QED BY <1>1, <2>1, EndsKeeps DEF st
<1>2. ASSUME NEW l \in Accounts, TokenSnapshot(l)
      PROVE  HInv'
  <2> DEFINE st == [FailRemoteRestore(Current) EXCEPT !.identity = NoIdentity]
  <2>1. /\ node' = node /\ answers' = answers /\ Spend("account")
        /\ Ends(Current) \/ Ends(st)
    BY <1>2 DEF TokenSnapshot
  <2>2. GoodState(FailRemoteRestore(Current))
    BY <1>0, FailRemoteRestoreGood
  <2>3. GoodState(st)
    BY <2>2 DEF GoodState, IsState, IsIdentity, NoIdentity
  <2>4. LeftOK'
    BY <2>1, SpendKeeps DEF HInv
  <2> HIDE DEF st
  <2> QED BY <1>0, <2>1, <2>3, <2>4, EndsKeeps
<1>3. CASE CreateIdentity
  <2> DEFINE n == Cardinality(codes) + 1
  <2>1. /\ node' = node /\ answers' = answers /\ Spend("create")
        /\ Ends(Activate(Current, account, n))
    BY <1>3 DEF CreateIdentity
  <2> HIDE DEF n
  <2>2. GoodState(Activate(Current, account, n))
    BY <1>0, ActivateGood
  <2>3. LeftOK'
    BY <2>1, SpendKeeps DEF HInv
  <2> QED BY <2>1, <2>2, <2>3, EndsKeeps
<1>4. ASSUME NEW root \in Roots, RestoreIdentity(root)
      PROVE  HInv'
  <2>1. /\ node' = node /\ answers' = answers /\ Spend("code")
        /\ Ends(Activate(Current, account, root))
    BY <1>4 DEF RestoreIdentity
  <2>2. GoodState(Activate(Current, account, root))
    BY <1>0, ActivateGood
  <2>3. LeftOK'
    BY <2>1, SpendKeeps DEF HInv
  <2> QED BY <2>1, <2>2, <2>3, EndsKeeps
<1>5. CASE RestoreRemoteIdentity
  <2> DEFINE st == [Current EXCEPT !.restore = account, !.archive = FetchRecovery(@, account)]
  <2>1. /\ node' = node /\ answers' = answers /\ Spend("restore")
        /\ Ends(Current) \/ Ends(st)
    BY <1>5 DEF RestoreRemoteIdentity
  <2>2. IsState(st) /\ st.archive = FetchRecovery(archive, account)
    BY <1>0 DEF GoodState, IsState
  <2>3. GoodState(st)
    BY <2>2, FetchRecoveryGood DEF GoodState, HInv
  <2>4. LeftOK'
    BY <2>1, SpendKeeps DEF HInv
  <2> HIDE DEF st
  <2> QED BY <1>0, <2>1, <2>3, <2>4, EndsKeeps
<1>6. ASSUME NEW c \in left.configurations, ConfigureArchiveNodes(c[1], c[2])
      PROVE  HInv'
  <2> DEFINE st == [Current EXCEPT !.archive = ConfigurePeers(@, c[1], c[2])]
  <2>1. /\ node' = node /\ answers' = answers /\ Spend("configure")
        /\ Ends(st) \/ Ends(SyncStatistics(PublishIdentityRecovery(st)))
    BY <1>6 DEF ConfigureArchiveNodes
  <2>2. IsState(st) /\ st.archive = ConfigurePeers(archive, c[1], c[2])
    BY <1>0 DEF GoodState, IsState
  <2>3. GoodState(st)
    BY <2>2, ConfigurePeersGood DEF GoodState, HInv, LeftOK
  <2> HIDE DEF st
  <2>4. GoodState(SyncStatistics(PublishIdentityRecovery(st)))
    BY <2>3, PublishIdentityRecoveryGood, SyncStatisticsGood
  <2>5. LeftOK'
    BY <2>1, SpendKeeps DEF HInv
  <2> QED BY <2>1, <2>3, <2>4, <2>5, EndsKeeps
<1>7. CASE Synchronize
  <2>1. GoodState(SyncStatistics(Current))
    BY <1>0, SyncStatisticsGood
  <2>2. LeftOK'
    BY <1>7, SpendKeeps DEF HInv, Synchronize
  <2> QED BY <1>7, <2>1, <2>2, EndsKeeps DEF Synchronize
<1>8. ASSUME NEW address \in Receipts, FetchArchivedReceipt(address)
      PROVE  HInv'
  <2>1. LeftOK'
    BY <1>8, SpendKeeps DEF HInv, FetchArchivedReceipt
  <2>2. Ends([Current EXCEPT !.archive = FetchReceipt(archive, address)])
    BY <1>8, <1>0 DEF FetchArchivedReceipt
  <2>3. Good(FetchReceipt(archive, address))
    BY FetchReceiptGood DEF HInv
  <2> QED BY <1>8, <1>1, <2>1, <2>2, <2>3 DEF FetchArchivedReceipt
<1>9. ASSUME NEW address \in Receipts, HandFinished(address)
      PROVE  HInv'
  <2>1. LeftOK'
    BY <1>9 DEF HInv, HandFinished, LeftOK
  <2>2. Ends([Current EXCEPT !.archive = PublishReceipt(archive, address)])
    BY <1>9, <1>0 DEF HandFinished
  <2>3. Good(PublishReceipt(archive, address))
    BY PublishReceiptGood DEF HInv
  <2> QED BY <1>9, <1>1, <2>1, <2>2, <2>3 DEF HandFinished
<1>10. ASSUME UNCHANGED <<identity, archive, node, answers>>,
              \A r \in asked' : r.node \in Nodes, LeftOK'
       PROVE  HInv'
  BY <1>10 DEF HInv, Good, IsArchive, NodesOK, AnswersOK, Held, Holds
<1>11. CASE EnterTable
  BY <1>11, <1>10, SpendKeeps DEF EnterTable, HInv
<1>12. CASE LeaveTable
  <2>1. LeftOK'
    BY <1>12 DEF LeaveTable, HInv, LeftOK
  <2> QED BY <1>12, <2>1, <1>10 DEF LeaveTable, HInv
<1>13. ASSUME NEW n \in Nodes, NEW address \in Receipts, OpponentArchives(n, address)
       PROVE  HInv'
  <2>1. LeftOK'
    BY <1>13, SpendKeeps DEF OpponentArchives, HInv
  <2>2. \A r \in asked' : r.node \in Nodes
    BY <1>13 DEF OpponentArchives, HInv
  <2> QED BY <1>13, <2>1, <2>2, <1>10 DEF OpponentArchives
<1>14. CASE Restart
  <2>1. LeftOK'
    BY <1>14, SpendKeeps DEF Restart, HInv
  <2>2. Good(archive)'
    BY <1>14 DEF Restart, NewArchive, NoUpload, Good, IsArchive, IsUpload
  <2>3. IsIdentity(identity)' /\ NodesOK' /\ AnswersOK' /\ \A r \in asked' : r.node \in Nodes
    BY <1>14 DEF Restart, HInv, NodesOK, AnswersOK, IsIdentity, NoIdentity, Live
  <2> QED BY <2>1, <2>2, <2>3 DEF HInv
<1> QED
  BY <1>2, <1>3, <1>4, <1>5, <1>6, <1>7, <1>8, <1>9, <1>11, <1>12, <1>13, <1>14 DEF Commands

\* A node that writes index files, and objects, loses nothing.
LEMMA GrowthKeeps ==
  ASSUME NodesOK, NEW n \in Nodes, NEW d, IsDisk(d), node' = [node EXCEPT ![n] = d],
         node[n].objects \subseteq d.objects,
         \A p \in Roots \cup {Opponent} : node[n].index[p] \subseteq d.index[p]
  PROVE  NodesOK' /\ \A m, x : Held(m, x) => Held(m, x)'
<1>1. Outcomes \subseteq Roots \cup {Opponent}
  BY ArchiveAssumption DEF Outcomes, Roots
<1>2. NodesOK'
  BY DEF NodesOK
<1>3. ASSUME NEW m, NEW x, Held(m, x)
      PROVE  Held(m, x)'
  BY <1>1, <1>3 DEF NodesOK, Held, Holds
<1> QED
  BY <1>2, <1>3

\* Indexing adds the receipt for the given players, and removes nothing.
LEMMA IndexedGrows ==
  ASSUME NEW d, IsDisk(d), NEW address, NEW players
  PROVE  LET i == Indexed(d, address, players)
         IN  /\ DOMAIN i = Roots \cup {Opponent}
             /\ \A p \in Roots \cup {Opponent} : d.index[p] \subseteq i[p]
             /\ \A p \in (Roots \cup {Opponent}) \cap players : address \in i[p]
BY DEF Indexed, IsDisk

\* put writes the object and every index file, whatever an earlier, interrupted
\* put left behind.
LEMMA ServeKeeps ==
  ASSUME HInv, NEW r \in asked, Serve(r)
  PROVE  HInv'
<1> DEFINE d == node[r.node]
<1>0. /\ archive' = archive /\ identity' = identity /\ LeftOK'
      /\ NodesOK /\ r.node \in Nodes /\ IsDisk(d)
  BY DEF Serve, HInv, LeftOK, NodesOK
<1>1. Outcomes \subseteq Roots \cup {Opponent}
  BY ArchiveAssumption DEF Outcomes, Roots
<1>2. ASSUME node' = node
      PROVE  NodesOK' /\ \A m, x : Held(m, x) => Held(m, x)'
  BY <1>2, <1>0 DEF NodesOK, Held, Holds
<1>3. CASE Put(r) /\ HasRoom(d, r.key)
  <2> DEFINE i   == Indexed(d, r.key, Outcomes)
             new == [d EXCEPT !.objects = @ \cup {r.key}, !.index = i]
  <2>1. node' = [node EXCEPT ![r.node] = new] /\ Reply(r, TRUE)
    BY <1>3 DEF Put
  <2>2. /\ DOMAIN i = Roots \cup {Opponent}
        /\ \A p \in Roots \cup {Opponent} : d.index[p] \subseteq i[p]
        /\ \A p \in Outcomes : r.key \in i[p]
    BY <1>0, <1>1, IndexedGrows
  <2> HIDE DEF i
  <2>3. /\ IsDisk(new) /\ new.index = i /\ new.objects = d.objects \cup {r.key}
    BY <1>0, <2>2 DEF IsDisk
  <2> HIDE DEF new
  <2>4. NodesOK' /\ \A m, x : Held(m, x) => Held(m, x)'
    BY <1>0, <2>1, <2>2, <2>3, GrowthKeeps
  <2>5. Held(r.node, r.key)'
    BY <1>0, <2>1, <2>2, <2>3 DEF Held, Holds, NodesOK
  <2> QED BY <1>0, <2>1, <2>4, <2>5, NodeKeeps
<1>4. CASE Put(r) /\ ~HasRoom(d, r.key)
  <2>1. node' = node /\ Reply(r, FALSE)
    BY <1>4 DEF Put
  <2> QED BY <1>0, <1>2, <2>1, NodeKeeps
<1>5. CASE PutRecovery(r)
  <2> DEFINE held == d.recovery[r.key]
             new  == [d EXCEPT !.recovery[r.key] = IF held = Nil THEN r.root ELSE held]
             ok   == held \in {Nil, r.root}
  <2>1. r.kind = "store" /\ Reply(r, ok) /\ node' = [node EXCEPT ![r.node] = new]
    BY <1>5 DEF PutRecovery
  <2>2. IsDisk(new) /\ new.index = d.index /\ new.objects = d.objects
    BY <1>0 DEF IsDisk
  <2> HIDE DEF new, ok
  <2>3. NodesOK' /\ \A m, x : Held(m, x) => Held(m, x)'
    BY <1>0, <2>1, <2>2, GrowthKeeps
  <2> QED BY <1>0, <2>1, <2>3, NodeKeeps
<1> QED
  BY <1>3, <1>4, <1>5 DEF Serve

\* A crash in the middle of put loses nothing, and is never a success.
LEMMA CrashKeeps ==
  ASSUME HInv, NEW r \in asked, Crash(r)
  PROVE  HInv'
<1> DEFINE d == node[r.node]
<1>0. /\ archive' = archive /\ identity' = identity /\ Spend("crash") /\ Reply(r, FALSE)
      /\ NodesOK /\ r.node \in Nodes /\ IsDisk(d)
  BY DEF Crash, CrashInPut, HInv, NodesOK
<1>1. LeftOK'
  BY <1>0, SpendKeeps DEF HInv
<1>2. NodesOK' /\ \A m, x : Held(m, x) => Held(m, x)'
  <2>1. CASE node' = [node EXCEPT ![r.node].leftover = @ \cup {Objects}]
    <3> DEFINE new == [d EXCEPT !.leftover = @ \cup {Objects}]
    <3>1. node' = [node EXCEPT ![r.node] = new]
      BY <2>1
    <3>2. IsDisk(new) /\ new.index = d.index /\ new.objects = d.objects
      BY <1>0 DEF IsDisk
    <3> HIDE DEF new
    <3> QED BY <1>0, <3>1, <3>2, GrowthKeeps
  <2>2. ASSUME NEW done, NEW torn,
               node' = [node EXCEPT ![r.node] =
                 [d EXCEPT !.objects = @ \cup {r.key},
                           !.index = Indexed(d, r.key, done),
                           !.leftover = @ \cup torn]]
        PROVE  NodesOK' /\ \A m, x : Held(m, x) => Held(m, x)'
    <3> DEFINE i   == Indexed(d, r.key, done)
               new == [d EXCEPT !.objects = @ \cup {r.key}, !.index = i,
                                !.leftover = @ \cup torn]
    <3>1. node' = [node EXCEPT ![r.node] = new]
      BY <2>2
    <3>2. /\ DOMAIN i = Roots \cup {Opponent}
          /\ \A p \in Roots \cup {Opponent} : d.index[p] \subseteq i[p]
      BY <1>0, IndexedGrows
    <3> HIDE DEF i
    <3>3. IsDisk(new) /\ new.index = i /\ new.objects = d.objects \cup {r.key}
      BY <1>0, <3>2 DEF IsDisk
    <3> HIDE DEF new
    <3> QED BY <1>0, <3>1, <3>2, <3>3, GrowthKeeps
  <2> QED BY <2>1, <2>2 DEF Crash, CrashInPut
<1> QED
  BY <1>0, <1>1, <1>2, NodeKeeps

\* An answer is counted as what it says.
LEMMA AnsweredKeeps ==
  ASSUME HInv, NEW r, r.kind \in Kinds, NEW ok, NEW content, Answered(r, ok, content),
         r.kind = "put" /\ ok => Held(r.node, r.key),
         node' = node, answers' \subseteq answers, left' = left
  PROVE  HInv'
<1> DEFINE h  == Handle(archive, r, ok, content)
           st == [Current EXCEPT !.archive = h.archive]
<1>1. Ends(ProcessArchiveEvent(st, h.event))
  BY DEF Answered
<1>2. Good(h.archive)
  BY HandleGood DEF HInv
<1> HIDE DEF h
<1>3. GoodState(st)
  BY <1>2 DEF HInv, GoodState, IsState, Current
<1> HIDE DEF st
<1>4. GoodState(ProcessArchiveEvent(st, h.event))
  BY <1>3, ProcessArchiveEventGood
<1>5. LeftOK'
  BY DEF HInv, LeftOK
<1> QED
  BY <1>1, <1>4, <1>5, EndsKeeps

LEMMA HInvStep == HInv /\ [Next]_vars => HInv'
<1> SUFFICES ASSUME HInv, [Next]_vars PROVE HInv'
  OBVIOUS
<1>1. CASE Commands
  BY <1>1, CommandsKeep
<1>2. ASSUME NEW r \in asked, HandleRead(r)
      PROVE  HInv'
  <2>1. r.kind \in Kinds /\ r.kind # "put"
    BY <1>2 DEF HandleRead, Kinds
  <2>2. Answered(r, TRUE, Read(r)) /\ node' = node /\ answers' = answers /\ left' = left
    BY <1>2 DEF HandleRead
  <2> QED BY <2>1, <2>2, AnsweredKeeps
<1>3. ASSUME NEW x \in answers, HandleResponse(x)
      PROVE  HInv'
  <2>1. node' = node /\ answers' \subseteq answers /\ left' = left
    BY <1>3 DEF HandleResponse
  <2>2. CASE x.request \in archive.requests
    <3>1. Answered(x.request, x.ok, {}) /\ x.request.kind \in Kinds
      BY <1>3, <2>2 DEF HandleResponse, HInv, Good, IsArchive
    <3>2. x.request.kind = "put" /\ x.ok => Held(x.request.node, x.request.key)
      BY DEF HInv, AnswersOK
    <3> QED BY <2>1, <3>1, <3>2, AnsweredKeeps
  <2>3. CASE x.request \notin archive.requests
    <3>1. GoodState(Current) /\ Ends(Current) /\ LeftOK'
      BY <1>3, <2>1, <2>3 DEF HandleResponse, HInv, GoodState, IsState, Current, LeftOK
    <3> QED BY <2>1, <3>1, EndsKeeps
  <2> QED BY <2>2, <2>3
<1>4. ASSUME NEW r \in asked, FailRequest(r)
      PROVE  HInv'
  <2>1. archive' = archive /\ identity' = identity /\ node' = node /\ Reply(r, FALSE)
    BY <1>4 DEF FailRequest
  <2>2. LeftOK'
    BY <1>4, SpendKeeps DEF FailRequest, HInv
  <2>3. NodesOK' /\ \A m, y : Held(m, y) => Held(m, y)'
    BY <2>1 DEF HInv, NodesOK, Held, Holds
  <2> QED BY <2>1, <2>2, <2>3, NodeKeeps
<1>5. ASSUME NEW x \in answers, LoseAnswer(x)
      PROVE  HInv'
  <2>1. LeftOK'
    BY <1>5, SpendKeeps DEF LoseAnswer, HInv
  <2>2. UNCHANGED <<archive, identity, node, asked>>
    BY <1>5 DEF LoseAnswer
  <2>3. AnswersOK'
    BY <1>5, <2>2 DEF LoseAnswer, HInv, AnswersOK, Held, Holds
  <2> QED BY <2>1, <2>2, <2>3 DEF HInv, Good, IsArchive, NodesOK, Held, Holds
<1>6. CASE UNCHANGED vars
  BY <1>6 DEF vars, HInv, Good, IsArchive, NodesOK, AnswersOK, LeftOK, Held, Holds
<1> QED
  BY <1>1, <1>2, <1>3, <1>4, <1>5, <1>6, ServeKeeps, CrashKeeps DEF Next, Network, Faults

LEMMA InitHInv == Init => HInv
<1> SUFFICES ASSUME Init PROVE HInv
  OBVIOUS
<1>1. Good(archive) /\ IsIdentity(identity)
  BY DEF Init, NewArchive, NoUpload, NoIdentity, IsIdentity, Good, IsArchive, IsUpload
<1>2. PICK x \in Scenarios : left = x /\ node = x.nodes
  BY DEF Init
<1>3. LeftOK
  BY <1>2, ArchiveAssumption DEF LeftOK
<1>4. node \in [Nodes -> Disk]
  BY <1>2, ArchiveAssumption
<1>5. NodesOK
  BY <1>4 DEF NodesOK, IsDisk, Disk
<1> QED
  BY <1>1, <1>3, <1>5 DEF Init, HInv, AnswersOK

\* For every set of nodes and receipts, whatever nodes hold at the start and
\* wherever their crashes interrupt put: a node that is counted as a replica
\* holds the receipt and lists it for every player (finish_put_attempt, put).
THEOREM ReplicasAreComplete == Spec => []ConfirmedIsHeld
<1>1. HInv => ConfirmedIsHeld
  BY DEF HInv, Good, Held, ConfirmedIsHeld
<1> QED
  BY <1>1, InitHInv, HInvStep, PTL DEF Spec
=============================================================================
