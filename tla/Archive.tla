------------------------------- MODULE Archive -------------------------------
(***************************************************************************)
(* Receipts and encrypted identities kept by volunteer nodes               *)
(* (archive_runtime.rs), and the identity commands of the sidecar that     *)
(* rest on them (main.rs): one player's sidecar, the archive nodes it is   *)
(* configured with, and the requests and answers between them.             *)
(*                                                                         *)
(* A receipt stands for its content address and its content.  There is one *)
(* recovery secret, so an account determines the locator of its envelope;  *)
(* an envelope is the root identity it opens to.  Answers that do not      *)
(* verify (address, locator, expiry, signature, content hash, kind) are    *)
(* refusals: handle_response treats them like a Rejected response.         *)
(***************************************************************************)
EXTENDS Integers, Sequences, FiniteSets

CONSTANTS
  Nodes,            \* volunteer archive nodes
  Accounts,         \* Codex accounts (and locators of their envelopes)
  Receipts,         \* co-signed receipts, all of hands of Outcomes
  MaxRoots,         \* bound: root identities
  ArchiveCapacity,  \* MAX_ARCHIVE_ENTRIES
  Scenarios,        \* bound: how a behaviour starts and what may happen in it
  Nil

Roots    == 1 .. MaxRoots
Opponent == 0                  \* the other player of every hand
Outcomes == {1, Opponent}      \* a receipt has an outcome for each
Objects  == -1                 \* the directory of objects
Damaged  == MaxRoots + 1       \* an envelope that does not open

NoIdentity == [account |-> Nil, root |-> 0, replicas |-> 0]

\* A node: object files, an index file per player and object, an envelope
\* per locator, and the directories in which a crash left a temporary file.
Disk == [objects  : SUBSET Receipts,
         index    : [Roots \cup {Opponent} -> SUBSET Receipts],
         recovery : [Accounts -> Roots \cup {Damaged, Nil}],
         leftover : SUBSET (Outcomes \cup {Objects})]

ASSUME ArchiveAssumption ==
  /\ IsFiniteSet(Nodes) /\ Nodes # {}
  /\ MaxRoots \in Nat \ {0} /\ ArchiveCapacity \in Nat
  /\ Nil \notin Accounts
  /\ \A x \in Scenarios :
       /\ {"configurations", "nodes", "codes"} \subseteq DOMAIN x
       /\ x.nodes \in [Nodes -> Disk]
       /\ x.codes \subseteq Accounts \X Roots
       /\ \A c \in x.configurations :
            c[1] \subseteq Nodes /\ c[1] # {} /\ c[2] \in 1 .. Cardinality(c[1])

VARIABLES
  account,    \* the observed account (token_observation), or Nil
  identity,   \* ActiveIdentity: [account, root, replicas], or NoIdentity
  restore,    \* pending_remote_restore: the account it is for, or Nil
  busy,       \* in a pool, a room or a hand, or about to join one
  archive,    \* the ArchiveRuntime
  node,       \* node[n]: the VolunteerArchive of n on disk
  asked,      \* requests on their way to a node
  answers,    \* responses and failures on their way back
  codes,      \* <<account, root>>: recovery codes shown to the user
  left        \* what may still happen, of each kind, in this scenario

vars == <<account, identity, restore, busy, archive, node, asked, answers, codes, left>>

NoUpload == [remaining |-> 0, required |-> 0, confirmed |-> {}, finished |-> TRUE]

NewArchive ==
  [peers |-> {}, minimum |-> 1, calls |-> 0, requests |-> {},
   uploads          |-> [a \in Receipts |-> NoUpload],
   fetches          |-> [a \in Receipts |-> Nil],
   lists            |-> [r \in Roots |-> Nil],
   recovery_uploads |-> [l \in Accounts |-> Nil],
   recovery_fetches |-> [l \in Accounts |-> Nil],
   envelopes        |-> [l \in Accounts |-> <<>>],
   verified         |-> {},
   archived         |-> {}]

Empty == [objects |-> {}, index |-> [p \in Roots \cup {Opponent} |-> {}],
          recovery |-> [l \in Accounts |-> Nil], leftover |-> {}]

\* A behaviour starts with a fresh process.  The nodes may hold something from
\* earlier ones, and the user a recovery code.
Init ==
  /\ account = Nil /\ identity = NoIdentity /\ restore = Nil /\ busy = FALSE
  /\ archive = NewArchive
  /\ asked = {} /\ answers = {}
  /\ \E x \in Scenarios : left = x /\ node = x.nodes /\ codes = x.codes

-----------------------------------------------------------------------------
\* The archive runtime.  Every call that asks the nodes asks each configured
\* peer; a request is known by the call and the peer.
Ask(a, kind, key, root) ==
  [a EXCEPT !.calls = @ + 1,
            !.requests = @ \cup {[call |-> a.calls + 1, node |-> n, kind |-> kind,
                                  key |-> key, root |-> root] : n \in a.peers}]

Upload(a) == [remaining |-> Cardinality(a.peers), required |-> a.minimum,
              confirmed |-> {}, finished |-> FALSE]

Fetch(a) == [remaining |-> Cardinality(a.peers), finished |-> FALSE]

Drop(a, kind, key) ==
  [a EXCEPT !.requests = {r \in @ : ~(r.kind = kind /\ r.key = key)}]

ConfigurePeers(a, peers, minimum) ==
  [NewArchive EXCEPT !.peers = peers, !.minimum = minimum, !.calls = a.calls,
                     !.verified = a.verified, !.archived = a.archived]

PublishReceipt(a, address) ==
  LET known == [a EXCEPT !.verified = @ \cup {address}]
  IN  IF a.peers = {} THEN known
      ELSE [Ask(known, "put", address, 0) EXCEPT !.uploads[address] = Upload(a)]

SyncPlayer(a, root) ==
  IF a.peers = {} THEN a
  ELSE [Ask(a, "list", root, 0) EXCEPT
          !.lists[root] = [remaining |-> Cardinality(a.peers), received |-> {}]]

StartFetch(a, addresses) ==
  [a EXCEPT
     !.calls = @ + 1,
     !.requests = @ \cup {[call |-> a.calls + 1, node |-> n, kind |-> "fetch",
                           key |-> x, root |-> 0] : n \in a.peers, x \in addresses},
     !.fetches = [x \in Receipts |-> IF x \in addresses THEN Fetch(a) ELSE @[x]]]

FetchReceipt(a, address) ==
  IF address \in a.verified \/ a.fetches[address] # Nil \/ a.peers = {} THEN a
  ELSE StartFetch(a, {address})

\* Bug variant: requests for an earlier envelope of this locator still count.
PublishRecovery_Stale(a, locator, root) ==
  [Ask(a, "store", locator, root) EXCEPT !.recovery_uploads[locator] = Upload(a)]

PublishRecovery(a, locator, root) ==
  [Ask(Drop(a, "store", locator), "store", locator, root) EXCEPT
     !.recovery_uploads[locator] = Upload(a)]

FetchRecovery(a, locator) ==
  IF a.recovery_fetches[locator] # Nil /\ ~a.recovery_fetches[locator].finished THEN a
  ELSE [Ask(a, "restore", locator, 0) EXCEPT
          !.recovery_fetches[locator] = Fetch(a), !.envelopes[locator] = <<>>]

\* Bug variant: the requests stay pending.
CancelRecoveryFetch_Keeps(a, locator) ==
  [a EXCEPT !.recovery_fetches[locator] = Nil, !.envelopes[locator] = <<>>]

CancelRecoveryFetch(a, locator) ==
  [Drop(a, "restore", locator) EXCEPT
     !.recovery_fetches[locator] = Nil, !.envelopes[locator] = <<>>]

-----------------------------------------------------------------------------
\* The answer to a request.  Each handler yields the archive and the event
\* it reports to the command loop: "stored", "fetched" or "failed" with the
\* locator and a count of replicas, or nothing.
NoEvent == [type |-> "none", locator |-> Nil, replicas |-> 0]

Lower(n) == IF n = 0 THEN 0 ELSE n - 1

Confirm(upload, r, ok) ==
  [upload EXCEPT !.remaining = Lower(@),
                 !.confirmed = IF ok THEN @ \cup {r.node} ELSE @]

Enough(upload) == Cardinality(upload.confirmed) >= upload.required

Attempted(fetch) ==
  [remaining |-> Lower(fetch.remaining), finished |-> fetch.finished \/ fetch.remaining <= 1]

\* finish_put_attempt.  Bug variant: every answer counts.
FinishPut_Any(a, r, ok) ==
  LET u    == Confirm(a.uploads[r.key], r, TRUE)
      done == ~u.finished /\ Enough(u)
  IN  [a EXCEPT !.uploads[r.key] = [u EXCEPT !.finished = @ \/ done \/ u.remaining = 0],
                !.archived = IF done THEN @ \cup {r.key} ELSE @]

FinishPut(a, r, ok) ==
  LET u    == Confirm(a.uploads[r.key], r, ok)
      done == ~u.finished /\ Enough(u)
  IN  [a EXCEPT !.uploads[r.key] = [u EXCEPT !.finished = @ \/ done \/ u.remaining = 0],
                !.archived = IF done THEN @ \cup {r.key} ELSE @]

HandleFetch(a, r, content) ==
  IF content = {} THEN [a EXCEPT !.fetches[r.key] = Attempted(@)]
  ELSE [a EXCEPT !.verified = @ \cup content, !.archived = @ \cup content,
                 !.fetches[r.key].finished = TRUE]

\* A list that was asked for again counts the answers to both calls.
Listed(a, r, content) ==
  [a EXCEPT !.lists[r.key] = [remaining |-> Lower(@.remaining),
                              received  |-> @.received \cup content]]

\* Bug variant: fetching waits for the last node, which may have nothing.
HandleList_Last(a, r, content) ==
  LET b   == Listed(a, r, content)
      new == {x \in b.lists[r.key].received : x \notin a.verified /\ a.fetches[x] = Nil}
  IN  IF new = {} \/ b.lists[r.key].remaining # 0 \/ content = {} THEN b ELSE StartFetch(b, new)

HandleList(a, r, content) ==
  LET b   == Listed(a, r, content)
      new == {x \in content \ a.lists[r.key].received :
                x \notin a.verified /\ a.fetches[x] = Nil}
  IN  IF new = {} THEN b ELSE StartFetch(b, new)

FinishRecoveryPut(a, r, ok) ==
  LET u      == Confirm(a.recovery_uploads[r.key], r, ok)
      stored == ok /\ Enough(u)
      failed == ~stored /\ ~u.finished /\ u.remaining = 0
  IN  [archive |-> [a EXCEPT !.recovery_uploads[r.key] =
                      [u EXCEPT !.finished = @ \/ stored \/ failed]],
       event   |-> IF stored THEN [type |-> "stored", locator |-> r.key,
                                   replicas |-> Cardinality(u.confirmed)]
                   ELSE IF failed THEN [NoEvent EXCEPT !.type = "failed", !.locator = r.key]
                   ELSE NoEvent]

\* Bug variant: a candidate that did not open counts as found.
HandleRecoveryFetch_Any(a, r, content) ==
  LET f == Attempted(a.recovery_fetches[r.key])
  IN  [archive |-> [a EXCEPT !.recovery_fetches[r.key] = f,
                             !.envelopes[r.key] = IF content = {} THEN @
                                                  ELSE Append(@, CHOOSE e \in content : TRUE)],
       event   |-> IF content # {} THEN [NoEvent EXCEPT !.type = "fetched", !.locator = r.key]
                   ELSE NoEvent]

HandleRecoveryFetch(a, r, content) ==
  LET f == Attempted(a.recovery_fetches[r.key])
  IN  [archive |-> [a EXCEPT !.recovery_fetches[r.key] = f,
                             !.envelopes[r.key] = IF content = {} THEN @
                                                  ELSE Append(@, CHOOSE e \in content : TRUE)],
       event   |-> IF content # {} THEN [NoEvent EXCEPT !.type = "fetched", !.locator = r.key]
                   ELSE IF f.remaining = 0 /\ a.envelopes[r.key] = <<>>
                   THEN [NoEvent EXCEPT !.type = "failed", !.locator = r.key]
                   ELSE NoEvent]

\* handle_response and handle_failure, of a request that is pending.
Handle(b, r, ok, content) ==
  LET a == [b EXCEPT !.requests = @ \ {r}]
  IN  CASE r.kind = "put"     -> [archive |-> FinishPut(a, r, ok), event |-> NoEvent]
        [] r.kind = "fetch"   -> [archive |-> HandleFetch(a, r, content), event |-> NoEvent]
        [] r.kind = "list"    -> [archive |-> HandleList(a, r, content), event |-> NoEvent]
        [] r.kind = "store"   -> FinishRecoveryPut(a, r, ok)
        [] r.kind = "restore" -> HandleRecoveryFetch(a, r, content)

-----------------------------------------------------------------------------
\* What the command loop makes of it.  A state st holds the identity, the
\* pending restore and the archive while a handler runs.
Current == [identity |-> identity, restore |-> restore, archive |-> archive]

FailRemoteRestore(st) ==
  IF st.restore = Nil THEN st
  ELSE [st EXCEPT !.restore = Nil, !.archive = CancelRecoveryFetch(@, st.restore)]

PublishIdentityRecovery(st) ==
  IF st.archive.peers # {}
  THEN [st EXCEPT !.archive = PublishRecovery(@, st.identity.account, st.identity.root)]
  ELSE IF st.restore = st.identity.account THEN FailRemoteRestore(st)
  ELSE st

SyncStatistics(st) == [st EXCEPT !.archive = SyncPlayer(@, st.identity.root)]

Activate(st, l, root) ==
  SyncStatistics(PublishIdentityRecovery(
    [st EXCEPT !.identity = [account |-> l, root |-> root, replicas |-> 0]]))

\* Bug variant: the first envelope decides.
CompleteRemoteRestore_First(st) ==
  LET l       == st.restore
      payload == Head(st.archive.envelopes[l])
  IN  IF busy THEN st
      ELSE IF payload # Damaged /\ account = l
      THEN Activate([st EXCEPT !.restore = Nil, !.archive = CancelRecoveryFetch(@, l)], l, payload)
      ELSE FailRemoteRestore(st)

CompleteRemoteRestore(st) ==
  LET l       == st.restore
      payload == Head(st.archive.envelopes[l])
      taken   == [st EXCEPT !.archive.envelopes[l] = Tail(@)]
  IN  IF busy THEN st
      ELSE IF payload # Damaged /\ account = l
      THEN Activate([taken EXCEPT !.restore = Nil, !.archive = CancelRecoveryFetch(@, l)],
                    l, payload)
      ELSE IF st.archive.recovery_fetches[l].remaining = 0 THEN FailRemoteRestore(taken)
      ELSE taken

ProcessArchiveEvent(st, e) ==
  CASE e.type = "stored" /\ st.identity # NoIdentity /\ st.identity.account = e.locator ->
         [st EXCEPT !.identity.replicas = e.replicas]
    [] e.type = "fetched" /\ st.restore # Nil /\ st.restore = e.locator ->
         CompleteRemoteRestore(st)
    [] e.type = "failed" /\ st.restore # Nil /\ st.restore = e.locator ->
         FailRemoteRestore(st)
    [] OTHER -> st

\* A request that nobody waits for and that writes nothing needs no answer.
Live(requests, a) == {r \in requests : r \in a.requests \/ r.kind \in {"put", "store"}}

\* The end of every handler: the new state, and the requests it sent.
Ends(st) ==
  /\ identity' = st.identity
  /\ restore' = st.restore
  /\ archive' = st.archive
  /\ asked' = Live(asked \cup (st.archive.requests \ archive.requests), st.archive)

Spend(what) == left[what] > 0 /\ left' = [left EXCEPT ![what] = @ - 1]

-----------------------------------------------------------------------------
\* Commands of the user (handle_command).
Replaceable == ~busy      \* ensure_identity_replaceable

\* TokenSnapshot, with reconcile_account.  Bug variant: a restore for the
\* old account goes on.
TokenSnapshot_Keeps(l) ==
  /\ Spend("account")
  /\ account' = l
  /\ IF account \in {Nil, l} THEN Ends(Current)
     ELSE Replaceable /\ Ends([Current EXCEPT !.identity = NoIdentity])
  /\ UNCHANGED <<busy, node, answers, codes>>

TokenSnapshot(l) ==
  /\ Spend("account")
  /\ account' = l
  /\ IF account \in {Nil, l} THEN Ends(Current)
     ELSE Replaceable /\ Ends([FailRemoteRestore(Current) EXCEPT !.identity = NoIdentity])
  /\ UNCHANGED <<busy, node, answers, codes>>

\* CreateIdentity, and EnsureIdentity while there is none.
CreateIdentity ==
  /\ restore = Nil /\ identity = NoIdentity /\ account # Nil
  /\ Cardinality(codes) < MaxRoots
  /\ Spend("create")
  /\ Ends(Activate(Current, account, Cardinality(codes) + 1))
  /\ codes' = codes \cup {<<account, Cardinality(codes) + 1>>}
  /\ UNCHANGED <<account, busy, node, answers>>

\* RestoreIdentity: from a recovery code that this account can open.
\* Bug variant: at a table, too.
RestoreIdentity_Anytime(root) ==
  /\ restore = Nil
  /\ <<account, root>> \in codes
  /\ Spend("code")
  /\ Ends(Activate(Current, account, root))
  /\ UNCHANGED <<account, busy, node, answers, codes>>

RestoreIdentity(root) ==
  /\ Replaceable /\ restore = Nil
  /\ <<account, root>> \in codes
  /\ Spend("code")
  /\ Ends(Activate(Current, account, root))
  /\ UNCHANGED <<account, busy, node, answers, codes>>

RestoreRemoteIdentity ==
  /\ Replaceable /\ restore = Nil /\ account # Nil
  /\ Spend("restore")
  /\ IF archive.peers = {} THEN Ends(Current)
     ELSE Ends([Current EXCEPT !.restore = account, !.archive = FetchRecovery(@, account)])
  /\ UNCHANGED <<account, busy, node, answers, codes>>

ConfigureArchiveNodes(peers, minimum) ==
  /\ Spend("configure")
  /\ LET st == [Current EXCEPT !.archive = ConfigurePeers(@, peers, minimum)]
     IN  Ends(IF identity = NoIdentity THEN st ELSE SyncStatistics(PublishIdentityRecovery(st)))
  /\ UNCHANGED <<account, busy, node, answers, codes>>

\* SyncStatistics, and a connection to an archive peer coming up.
Synchronize ==
  /\ identity # NoIdentity /\ archive.peers # {}
  /\ Spend("sync")
  /\ Ends(SyncStatistics(Current))
  /\ UNCHANGED <<account, busy, node, answers, codes>>

FetchArchivedReceipt(address) ==
  /\ Spend("sync")
  /\ Ends([Current EXCEPT !.archive = FetchReceipt(@, address)])
  /\ UNCHANGED <<account, busy, node, answers, codes>>

\* Entering a pool or a room (validate_local_buy_in), and being back out.
EnterTable ==
  /\ ~busy /\ restore = Nil /\ identity # NoIdentity /\ identity.account = account
  /\ Spend("enter")
  /\ busy' = TRUE
  /\ UNCHANGED <<account, identity, restore, archive, node, asked, answers, codes>>

LeaveTable ==
  /\ busy /\ busy' = FALSE
  /\ UNCHANGED <<account, identity, restore, archive, node, asked, answers, codes, left>>

\* process_hand_events: a receipt of the local player is complete.
HandFinished(address) ==
  /\ busy /\ identity.root \in Outcomes
  /\ address \notin archive.verified
  /\ Ends([Current EXCEPT !.archive = PublishReceipt(@, address)])
  /\ UNCHANGED <<account, busy, node, answers, codes, left>>

\* Another player of the hand sends the same receipt to a node.
OpponentArchives(n, address) ==
  /\ Spend("opponent")
  /\ asked' = asked \cup {[call |-> 0, node |-> n, kind |-> "put", key |-> address, root |-> 0]}
  /\ UNCHANGED <<account, identity, restore, busy, archive, node, answers, codes>>

\* The process ends and a new one starts; only requests already sent live on.
Restart ==
  /\ Spend("restart")
  /\ account' = Nil /\ identity' = NoIdentity /\ restore' = Nil /\ busy' = FALSE
  /\ archive' = [NewArchive EXCEPT !.calls = archive.calls]
  /\ answers' = {}
  /\ asked' = Live(asked, archive')
  /\ UNCHANGED <<node, codes>>

-----------------------------------------------------------------------------
\* A volunteer node.  put writes the object, then one index file per player;
\* every file is written to a temporary one in its directory and renamed.
Reply(r, ok) ==
  /\ asked' = asked \ {r}
  /\ answers' = answers \cup {[request |-> q, ok |-> ok] : q \in {r} \cap archive.requests}

HasRoom(d, address) ==
  \/ address \in d.objects
  \/ Cardinality(d.objects) + Cardinality(d.leftover \cap {Objects}) < ArchiveCapacity

Indexed(d, address, players) ==
  [p \in DOMAIN d.index |-> IF p \in players THEN d.index[p] \cup {address} ELSE d.index[p]]

\* Bug variant: an object that is already there is not indexed again.
Put_Once(r) ==
  LET d == node[r.node]
  IN  /\ r.kind = "put"
      /\ IF HasRoom(d, r.key)
         THEN /\ node' = [node EXCEPT ![r.node] =
                   IF r.key \in d.objects THEN d
                   ELSE [d EXCEPT !.objects = @ \cup {r.key},
                                  !.index = Indexed(d, r.key, Outcomes)]]
              /\ Reply(r, TRUE)
         ELSE Reply(r, FALSE) /\ UNCHANGED node

Put(r) ==
  LET d == node[r.node]
  IN  /\ r.kind = "put"
      /\ IF HasRoom(d, r.key)
         THEN /\ node' = [node EXCEPT ![r.node] =
                   [d EXCEPT !.objects = @ \cup {r.key},
                             !.index = Indexed(d, r.key, Outcomes)]]
              /\ Reply(r, TRUE)
         ELSE Reply(r, FALSE) /\ UNCHANGED node

\* The node goes down in the middle of put: before the object was renamed, or
\* with only some index files written, perhaps leaving a temporary file.
CrashInPut(r) ==
  LET d == node[r.node]
  IN  /\ r.kind = "put" /\ HasRoom(d, r.key)
      /\ Spend("crash")
      /\ \/ /\ r.key \notin d.objects
            /\ node' = [node EXCEPT ![r.node].leftover = @ \cup {Objects}]
         \/ \E done \in SUBSET Outcomes : \E torn \in SUBSET (Outcomes \ done) :
              /\ done # Outcomes /\ Cardinality(torn) <= 1
              /\ \A p \in torn : r.key \notin d.index[p]
              /\ node' = [node EXCEPT ![r.node] =
                   [d EXCEPT !.objects = @ \cup {r.key},
                             !.index = Indexed(d, r.key, done),
                             !.leftover = @ \cup torn]]
      /\ Reply(r, FALSE)

\* put_recovery writes an envelope only where there is none yet.
PutRecovery(r) ==
  LET held == node[r.node].recovery[r.key]
  IN  /\ r.kind = "store"
      /\ node' = [node EXCEPT ![r.node].recovery[r.key] = IF held = Nil THEN r.root ELSE held]
      /\ Reply(r, held \in {Nil, r.root})

\* What a request that only reads finds: fetch, list, fetch_recovery.  A
\* temporary file in a player's directory is no content address: list fails.
Read(r) ==
  LET d == node[r.node]
  IN  CASE r.kind = "fetch"   -> d.objects \cap {r.key}
        [] r.kind = "list"    -> IF r.key \in d.leftover THEN {} ELSE d.index[r.key]
        [] r.kind = "restore" -> {d.recovery[r.key]} \ {Nil}

Serve(r) ==
  /\ Put(r) \/ PutRecovery(r)
  /\ UNCHANGED <<account, identity, restore, busy, archive, codes, left>>

Crash(r) ==
  /\ CrashInPut(r)
  /\ UNCHANGED <<account, identity, restore, busy, archive, codes>>

\* OutboundFailure: the request never arrived, or its answer did not.
FailRequest(r) ==
  /\ Spend("fail")
  /\ Reply(r, FALSE)
  /\ UNCHANGED <<account, identity, restore, busy, archive, node, codes>>

LoseAnswer(x) ==
  /\ x.ok
  /\ Spend("fail")
  /\ answers' = (answers \ {x}) \cup {[x EXCEPT !.ok = FALSE]}
  /\ UNCHANGED <<account, identity, restore, busy, archive, node, asked, codes>>

Answered(r, ok, content) ==
  \E h \in {Handle(archive, r, ok, content)} :
    Ends(ProcessArchiveEvent([Current EXCEPT !.archive = h.archive], h.event))

HandleResponse(x) ==
  /\ answers' = answers \ {x}
  /\ IF x.request \in archive.requests THEN Answered(x.request, x.ok, {}) ELSE Ends(Current)
  /\ UNCHANGED <<account, busy, node, codes, left>>

\* A read and its answer: nodes only grow, so an older answer says no more
\* than this one or a failed request.
HandleRead(r) ==
  /\ r.kind \in {"fetch", "list", "restore"}
  /\ Answered(r, TRUE, Read(r))
  /\ UNCHANGED <<account, busy, node, answers, codes, left>>

Commands ==
  \/ \E l \in Accounts : TokenSnapshot(l)
  \/ CreateIdentity
  \/ \E root \in Roots : RestoreIdentity(root)
  \/ RestoreRemoteIdentity
  \/ \E c \in left.configurations : ConfigureArchiveNodes(c[1], c[2])
  \/ Synchronize
  \/ \E address \in Receipts : FetchArchivedReceipt(address)
  \/ EnterTable
  \/ LeaveTable
  \/ \E address \in Receipts : HandFinished(address)
  \/ Restart
  \/ \E n \in Nodes, address \in Receipts : OpponentArchives(n, address)

\* What happens unasked: every request is answered or fails, and every answer
\* is handled (the request-response protocol has a timeout).
Network ==
  \/ \E r \in asked : Serve(r) \/ HandleRead(r)
  \/ \E x \in answers : HandleResponse(x)

Faults ==
  \/ \E r \in asked : FailRequest(r) \/ Crash(r)
  \/ \E x \in answers : LoseAnswer(x)

Next == Commands \/ Network \/ Faults

Spec == Init /\ [][Next]_vars

FairSpec == Spec /\ WF_vars(Network)

-----------------------------------------------------------------------------
Holds(n, address) ==
  /\ address \in node[n].objects
  /\ \A p \in Outcomes : address \in node[n].index[p]

Pending(kind, key) == {r \in archive.requests : r.kind = kind /\ r.key = key}

\* Type invariant.  Beyond types: every pending request has the record its
\* answer will be counted in, which is where the handlers would otherwise
\* fail with a missing state, and an upload waits for exactly the requests
\* that are pending for it.
TypeOK ==
  /\ account \in Accounts \cup {Nil} /\ restore \in Accounts \cup {Nil} /\ busy \in BOOLEAN
  /\ identity # NoIdentity => identity.account \in Accounts /\ identity.root \in Roots
  /\ archive.peers \subseteq Nodes /\ archive.minimum \in Nat \ {0}
  /\ \A r \in archive.requests :
       CASE r.kind = "put"     -> archive.uploads[r.key] # NoUpload
         [] r.kind = "fetch"   -> archive.fetches[r.key] # Nil
         [] r.kind = "list"    -> archive.lists[r.key] # Nil
         [] r.kind = "store"   -> archive.recovery_uploads[r.key] # Nil
         [] r.kind = "restore" -> archive.recovery_fetches[r.key] # Nil
  /\ \A a \in Receipts : archive.uploads[a] # NoUpload =>
       archive.uploads[a].remaining = Cardinality(Pending("put", a))
  /\ \A l \in Accounts : archive.recovery_fetches[l] # Nil =>
       archive.recovery_fetches[l].remaining = Cardinality(Pending("restore", l))

\* A confirmed replica is a complete one: a node that is counted for a receipt
\* holds it and lists it for every player of the hand, whatever crashes
\* interrupted put before (SECURITY.md:61).
ConfirmedIsHeld ==
  \A a \in Receipts : \A n \in archive.uploads[a].confirmed : Holds(n, a)

\* A receipt is shown as archived only if some node can give it back, and
\* one published to the current nodes only if as many as the user asked for
\* hold it, even after a node change (finish_put_attempt).
ArchivedIsHeld ==
  \A a \in archive.archived :
    /\ \E n \in Nodes : a \in node[n].objects
    /\ archive.uploads[a] # NoUpload /\ archive.fetches[a] = Nil =>
         Cardinality({n \in archive.peers : Holds(n, a)}) >= archive.minimum

\* The number of remote replicas shown for an identity is not larger than the
\* number of nodes that hold this identity's envelope, however often the
\* player created, switched or restored identities under one locator while
\* older uploads were still being answered (publish_recovery).
ReplicasAreOfThisIdentity ==
  identity # NoIdentity =>
    identity.replicas <= Cardinality({n \in Nodes : node[n].recovery[identity.account] = identity.root})

\* What the player is shown as archived or backed up is held by the nodes.
ShownIsHeld == ArchivedIsHeld /\ ReplicasAreOfThisIdentity

\* The identity in use, and one that is being restored, belong to the account
\* that is observed now, and nothing is restored for a player at a table
\* (reconcile_account, complete_remote_restore, validate_local_buy_in).
IdentityMatchesAccount ==
  /\ identity # NoIdentity => identity.account = account
  /\ restore # Nil => restore = account /\ ~busy

\* A player at a table keeps the identity it sat down with: neither a late
\* envelope nor a command replaces it (ensure_identity_replaceable,
\* validate_local_buy_in).
IdentityIsStable ==
  [][busy /\ busy' => /\ identity' # NoIdentity /\ identity'.root = identity.root]_vars

\* A remote restore ends: with an identity, or because every node has
\* answered or failed.  The exception is what configure_peers does: it
\* forgets the requests of a running restore, which then stays pending.
RestoreEnds ==
  restore # Nil ~> \/ restore = Nil
                   \/ archive.recovery_fetches[restore] = Nil

\* A restore on a device without an identity is given up only when its last
\* node has answered, however damaged the envelopes of the others are
\* (complete_remote_restore, finish_recovery_fetch_attempt).  With an identity
\* under the same locator, a failing backup of it also ends the restore.
RestoreTriesAllNodes ==
  [][restore # Nil /\ restore' = Nil /\ account' = account /\ identity = NoIdentity /\ identity' = NoIdentity
       => Cardinality(Pending("restore", restore)) = 1]_vars

\* A receipt that some node lists for the player is fetched, or every node
\* failed to deliver it, or the nodes were changed: two lists answered at once and
\* lists repeated while fetches run lose nothing (handle_list_response).
ListedIsFetched ==
  \A a \in Receipts :
    (\E r \in Roots : archive.lists[r] # Nil /\ a \in archive.lists[r].received) ~>
      \/ a \in archive.verified
      \/ archive.fetches[a] # Nil /\ archive.fetches[a].finished
      \/ \A r \in Roots : archive.lists[r] = Nil

\* Restores and downloads of the history come to an end.
DownloadsEnd == RestoreEnds /\ ListedIsFetched

=============================================================================
