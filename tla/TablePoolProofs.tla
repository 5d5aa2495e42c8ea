--------------------------- MODULE TablePoolProofs ---------------------------
(***************************************************************************)
(* No connection lease leaks, for any players, tables and capacities, any  *)
(* number of searches, leaves, hands, time-outs and crashes.               *)
(*                                                                         *)
(* Every handler is a function of what its process holds, so the invariant *)
(* is one of a process (Accounted), preserved by each of these functions.  *)
(***************************************************************************)
EXTENDS TablePool, TLAPS

\* The fields of a pool, of a session and of a process.  What the room itself
\* agrees on does not matter here.
IsPool(x) ==
  /\ DOMAIN x = {"phase", "table", "tables", "rejected", "explicit"}
  /\ DOMAIN x.tables = Tables
  /\ \A t \in Tables : x.tables[t] # Nil => x.tables[t].host \in Players

IsSession(x) ==
  /\ DOMAIN x = {"table", "via", "owns", "explicit", "room"}
  /\ x.owns \in BOOLEAN

IsProcess(st) ==
  /\ DOMAIN st = {"pool", "session", "hand", "retained", "claims"}
  /\ IsPool(st.pool)
  /\ IsSession(st.session)

\* Every lease of a process is its session's, its pool's or of a peer it has
\* met in a hand; and a session that was never given its leases has none.
Accounted(st, peers) ==
  /\ IsProcess(st)
  /\ st.retained \subseteq st.session.explicit \cup st.pool.explicit \cup peers
  /\ st.hand \subseteq peers
  /\ ~st.session.owns => st.session.explicit = {}

IInv ==
  /\ DOMAIN pool = Players /\ DOMAIN session = Players /\ DOMAIN hand = Players
  /\ DOMAIN retained = Players /\ DOMAIN claims = Players /\ DOMAIN met = Players
  /\ \A a \in adverts : a.host \in Players
  /\ \A p \in Players : Accounted(At(p), met[p])

-----------------------------------------------------------------------------
\* No pool and no session hold no lease.
LEMMA NothingHeld ==
  /\ IsPool(NoPool) /\ NoPool.explicit = {}
  /\ IsPool(Searching) /\ Searching.explicit = {}
  /\ IsSession(NoSession) /\ NoSession.explicit = {} /\ ~NoSession.owns
BY DEF NoPool, Searching, NoSession, IsPool, IsSession

\* close releases what the session leased.
LEMMA CloseAccounted ==
  ASSUME NEW st, NEW peers, Accounted(st, peers)
  PROVE  Accounted(Close(st), peers) /\ Close(st).session = NoSession
<1>1. CASE st.session = NoSession
  BY <1>1, NothingHeld DEF Close, Accounted, IsProcess
<1>2. CASE st.session # NoSession
  BY <1>2, NothingHeld DEF Close, Accounted, IsProcess, IsSession
<1> QED
  BY <1>1, <1>2

\* cancel releases what the pool leased.
LEMMA CancelAccounted ==
  ASSUME NEW st, NEW peers, Accounted(st, peers)
  PROVE  /\ Accounted(Cancel(st), peers)
         /\ Cancel(st).pool = NoPool /\ Cancel(st).session = st.session
BY NothingHeld DEF Cancel, Accounted, IsProcess

\* complete_local_leave releases both.
LEMMA CompleteLocalLeaveAccounted ==
  ASSUME NEW st, NEW peers, Accounted(st, peers)
  PROVE  Accounted(CompleteLocalLeave(st), peers)
<1>1. Accounted([st EXCEPT !.hand = {}], peers)
  BY DEF Accounted, IsProcess
<1> QED
  BY <1>1, CloseAccounted, CancelAccounted DEF CompleteLocalLeave

\* mark_joined hands the pool's leases to the session.
LEMMA MarkJoinedAccounted ==
  ASSUME NEW st, NEW peers, Accounted(st, peers)
  PROVE  Accounted(MarkJoined(st), peers)
BY DEF MarkJoined, Accounted, IsProcess, IsPool, IsSession

\* synchronize_explicit_session_peers leases what the session then wants.
LEMMA SynchronizeAccounted ==
  ASSUME NEW p, NEW st, NEW peers, Accounted(st, peers)
  PROVE  Accounted(SynchronizeExplicitSessionPeers(p, st), peers)
BY DEF SynchronizeExplicitSessionPeers, Accounted, IsProcess, IsSession

\* process_table_session_events keeps the account.
LEMMA ProcessAccounted ==
  ASSUME NEW p, NEW st, NEW peers, Accounted(st, peers)
  PROVE  Accounted(ProcessTableSessionEvents(p, st), peers)
<1>1. Accounted(MarkJoined(st), peers)
  BY MarkJoinedAccounted
<1>2. Accounted(CompleteLocalLeave(st), peers) /\ Accounted(CompleteLocalLeave(MarkJoined(st)), peers)
  BY <1>1, CompleteLocalLeaveAccounted
<1> QED
  BY <1>1, <1>2, Zenon DEF ProcessTableSessionEvents

\* migrate_to_pool hands the session's leases to the pool.
LEMMA MigrateAccounted ==
  ASSUME NEW st, NEW peers, Accounted(st, peers)
  PROVE  Accounted(MigrateToPool(st), peers) /\ MigrateToPool(st).session = NoSession
<1>1. CASE st.session = NoSession
  BY <1>1 DEF MigrateToPool
<1>2. CASE st.session # NoSession
  BY <1>2, NothingHeld DEF MigrateToPool, Accounted, IsProcess, IsPool, IsSession
<1> QED
  BY <1>1, <1>2

\* A session that is created leases nobody yet ...
LEMMA CreateSessionAccounted ==
  ASSUME NEW p, NEW t, NEW st, NEW peers, Accounted(st, peers), st.session = NoSession
  PROVE  Accounted(CreateSession(p, t, st), peers)
BY NothingHeld DEF CreateSession, NewSession, Accounted, IsProcess, IsSession

\* ... and one that joins leases the host it joins through.
LEMMA JoinSessionAccounted ==
  ASSUME NEW p, NEW t, NEW via, NEW st, NEW peers, Accounted(st, peers), st.session = NoSession
  PROVE  /\ Accounted(JoinSession(p, t, via, st), peers)
         /\ JoinSession(p, t, via, st).pool = st.pool
         /\ via # Nil => via \in JoinSession(p, t, via, st).session.explicit
<1> DEFINE new == [st EXCEPT !.claims = @ + 1, !.session = NewSession(p, t, via, st.claims + 1)]
<1>1. Accounted(new, peers)
  BY NothingHeld DEF NewSession, Accounted, IsProcess, IsSession
<1>2. new.pool = st.pool /\ new.session = NewSession(p, t, via, st.claims + 1)
  BY DEF Accounted, IsProcess
<1>3. ~LocalAdmissionAcknowledged(p, new.session.room)
  BY <1>2 DEF NewSession, LocalAdmissionAcknowledged, Room!NewSession
<1>4. new.session.via = via /\ new.session.owns = (via # Nil)
  BY <1>2 DEF NewSession
<1> HIDE DEF new
<1>5. SynchronizeExplicitSessionPeers(p, new).pool = new.pool
  BY <1>1 DEF SynchronizeExplicitSessionPeers, Accounted, IsProcess
<1>6. via # Nil => via \in SynchronizeExplicitSessionPeers(p, new).session.explicit
  BY <1>1, <1>3, <1>4 DEF SynchronizeExplicitSessionPeers, Accounted, IsProcess, IsSession
<1>7. JoinSession(p, t, via, st) = SynchronizeExplicitSessionPeers(p, new)
  BY DEF JoinSession, new
<1> QED
  BY <1>1, <1>2, <1>5, <1>6, <1>7, SynchronizeAccounted

\* A join attempt that runs out closes the session or leaves it alone.
LEMMA JoinAttemptExpiresAccounted ==
  ASSUME NEW p, NEW st, NEW peers, Accounted(st, peers)
  PROVE  Accounted(JoinAttemptExpires(p, st), peers)
<1> DEFINE expired == [st EXCEPT !.pool.phase = "searching", !.pool.table = Nil,
                                 !.pool.rejected = @ \cup {st.pool.table}]
<1>1. Accounted(expired, peers)
  BY DEF Accounted, IsProcess, IsPool
<1>2. Accounted(Close(expired), peers)
  BY <1>1, CloseAccounted
<1> QED
  BY <1>1, <1>2, Zenon DEF JoinAttemptExpires

\* ensure_roster_connections retains peers of the hand, whom the player has met.
LEMMA HandTickAccounted ==
  ASSUME NEW st, NEW peers, Accounted(st, peers)
  PROVE  Accounted(HandTick(st), peers)
BY DEF HandTick, Accounted, IsProcess

\* A player advertises its own table under its own name.
LEMMA AdvertisedAccounted ==
  ASSUME NEW p \in Players, NEW st, NEW peers, Accounted(st, peers)
  PROVE  Accounted(Advertised(p, st), peers)
<1> DEFINE ad == Advertisement(p, st.session)
<1>1. ad # Nil => ad.host = p
  BY DEF Advertisement
<1> HIDE DEF ad
<1>2. CASE ad # Nil
  BY <1>1, <1>2 DEF Advertised, ad, Accounted, IsProcess, IsPool
<1>3. CASE ad = Nil
  BY <1>3 DEF Advertised, ad
<1> QED
  BY <1>2, <1>3

\* A forced leave is complete_local_leave.
LEMMA ForceLocalLeaveAccounted ==
  ASSUME NEW due, NEW st, NEW peers, Accounted(st, peers)
  PROVE  Accounted(ForceLocalLeaveIfDue(due, st), peers)
BY CompleteLocalLeaveAccounted, Zenon DEF ForceLocalLeaveIfDue

\* A player only decides for a table another player advertises.
LEMMA DecisionHasHost ==
  ASSUME NEW p, NEW pl, NEW s, IsPool(pl), NEW a \in Decisions(p, pl, s)
  PROVE  a.host \in Players
<1>1. \A c \in Candidates(p, pl) : c.host \in Players
  BY DEF Candidates, IsPool
<1>2. \A ads : Selected(ads) \subseteq ads
  BY DEF Selected
<1>3. Convergence(p, pl, s) \subseteq Candidates(p, pl)
  BY <1>2 DEF Convergence
<1>4. Decisions(p, pl, s) \subseteq Candidates(p, pl)
  BY <1>2, <1>3 DEF Decisions
<1> QED
  BY <1>1, <1>4

-----------------------------------------------------------------------------
\* Process p changes, and its leases stay accounted for.
Settles(p) == \E new : Become(p, new) /\ Accounted(new, met[p])

\* The end of a tick.
LEMMA TicksSettle ==
  ASSUME NEW p, NEW due, NEW st, Accounted(st, met[p]), Ticks(p, due, st)
  PROVE  Settles(p)
<1>1. CASE st.session = NoSession
  BY <1>1, HandTickAccounted DEF Ticks, Settles
<1>2. CASE st.session # NoSession
  <2>1. PICK room, ticked, processed :
          /\ ticked = SynchronizeExplicitSessionPeers(p, [st EXCEPT !.session.room = room])
          /\ processed = ProcessTableSessionEvents(p, ticked)
          /\ Become(p, ForceLocalLeaveIfDue(due, HandTick(processed)))
    BY <1>2 DEF Ticks
  <2>2. Accounted([st EXCEPT !.session.room = room], met[p])
    BY DEF Accounted, IsProcess, IsSession
  <2>3. Accounted(ForceLocalLeaveIfDue(due, HandTick(processed)), met[p])
    BY <2>1, <2>2, SynchronizeAccounted, ProcessAccounted, HandTickAccounted,
       ForceLocalLeaveAccounted
  <2> QED
    BY <2>1, <2>3 DEF Settles
<1> QED
  BY <1>1, <1>2

\* A tick that joins a table: the lease of the host passes from the pool to
\* the session.
LEMMA FollowJoinSettles ==
  ASSUME NEW p, NEW a, NEW due, NEW st, Accounted(st, met[p]), a.host \in Players,
         FollowJoin(p, a, due, st)
  PROVE  Settles(p)
<1> DEFINE joining == [MigrateToPool(st) EXCEPT !.pool.phase = "joining", !.pool.table = a.table]
           joined == JoinSession(p, a.table, a.host, joining)
           moved == [joined EXCEPT !.pool.explicit = @ \ {a.host}]
<1>1. Accounted(MigrateToPool(st), met[p]) /\ MigrateToPool(st).session = NoSession
  BY MigrateAccounted
<1>2. Accounted(joining, met[p]) /\ joining.session = NoSession
  BY <1>1 DEF Accounted, IsProcess, IsPool
<1>3. Accounted(joined, met[p]) /\ a.host \in joined.session.explicit
  <2> HIDE DEF joining
  <2> QED
    BY <1>2, JoinSessionAccounted, PoolAssumption
<1>4. Accounted(moved, met[p])
  <2> HIDE DEF joined
  <2> QED
    BY <1>3 DEF Accounted, IsProcess, IsPool
<1>5. Ticks(p, due, ProcessTableSessionEvents(p, moved))
  BY Zenon DEF FollowJoin
<1> HIDE DEF moved
<1> QED
  BY <1>4, <1>5, ProcessAccounted, TicksSettle

\* A tick that creates a table, or fails to.
LEMMA FollowCreateSettles ==
  ASSUME NEW p, NEW t, NEW due, NEW st, Accounted(st, met[p]), FollowCreate(p, t, due, st)
  PROVE  Settles(p)
<1> DEFINE creating == [st EXCEPT !.pool.phase = "creating", !.pool.table = t]
<1>1. Accounted(creating, met[p]) /\ creating.session = st.session
  BY DEF Accounted, IsProcess, IsPool
<1>2. CASE st.session # NoSession
  <2>1. Become(p, creating)
    BY <1>2, Zenon DEF FollowCreate
  <2> QED
    BY <1>1, <2>1 DEF Settles
<1>3. CASE st.session = NoSession
  <2>1. Ticks(p, due, ProcessTableSessionEvents(p, CreateSession(p, t, creating)))
    BY <1>3, Zenon DEF FollowCreate
  <2> HIDE DEF creating
  <2>2. Accounted(CreateSession(p, t, creating), met[p])
    BY <1>1, <1>3, CreateSessionAccounted
  <2> QED
    BY <2>1, <2>2, ProcessAccounted, TicksSettle
<1> QED
  BY <1>2, <1>3

\* Every tick settles.
LEMMA FollowDecisionSettles ==
  ASSUME NEW p, NEW due, NEW st, Accounted(st, met[p]), FollowDecision(p, due, st)
  PROVE  Settles(p)
<1> DEFINE joins == IF st.pool = NoPool THEN {} ELSE Decisions(p, st.pool, st.session)
<1>1. \A a \in joins : a.host \in Players
  BY DecisionHasHost DEF Accounted, IsProcess
<1>2. \/ \E a \in joins : FollowJoin(p, a, due, st)
      \/ \E t \in left.tables : FollowCreate(p, t, due, st)
      \/ Ticks(p, due, st)
  BY Zenon DEF FollowDecision
<1> HIDE DEF joins
<1> QED
  BY <1>1, <1>2, FollowJoinSettles, FollowCreateSettles, TicksSettle

\* A step in which one process settles keeps the invariant.
LEMMA SettledInvariant ==
  ASSUME IInv, NEW p \in Players, Settles(p), met' = met,
         \A a \in adverts' : a.host \in Players
  PROVE  IInv'
<1>1. PICK new : Become(p, new) /\ Accounted(new, met[p])
  BY DEF Settles
<1>2. \A q \in Players \ {p} : At(q)' = At(q)
  BY <1>1 DEF Become, At, IInv
<1>3. /\ pool'[p] = new.pool /\ session'[p] = new.session /\ hand'[p] = new.hand
      /\ retained'[p] = new.retained /\ claims'[p] = new.claims
  BY <1>1 DEF Become, IInv
<1>4. Accounted(At(p)', met[p])
  BY <1>1, <1>3 DEF Accounted, IsProcess, At
<1>5. \A q \in Players : Accounted(At(q)', met'[q])
  BY <1>2, <1>4 DEF IInv
<1>6. /\ DOMAIN pool' = Players /\ DOMAIN session' = Players /\ DOMAIN hand' = Players
      /\ DOMAIN retained' = Players /\ DOMAIN claims' = Players /\ DOMAIN met' = Players
  BY <1>1 DEF Become, IInv
<1> QED
  BY <1>5, <1>6 DEF IInv, Accounted, At, IsProcess, IsPool, IsSession

\* What a player publishes names the player.
LEMMA PublishedHasHost ==
  ASSUME IInv, NEW p \in Players, Publish(p)
  PROVE  \A a \in adverts' : a.host \in Players
<1>1. Advertisement(p, session[p]) # Nil => Advertisement(p, session[p]).host = p
  BY DEF Advertisement
<1>2. PICK ads : /\ ads \subseteq {Advertisement(p, session[p])} \ {Nil}
                 /\ adverts' \subseteq adverts \cup ads
  BY DEF Publish
<1> QED
  BY <1>1, <1>2 DEF IInv

\* The invariant is inductive.
LEMMA InductiveInvariant == IInv /\ [Next]_vars => IInv'
<1> SUFFICES ASSUME IInv, [Next]_vars PROVE IInv'
  OBVIOUS
<1>a. \A p \in Players : Accounted(At(p), met[p])
  BY DEF IInv
<1>h. \A a \in adverts : a.host \in Players
  BY DEF IInv
<1>1. ASSUME NEW p \in Players, ProtocolTick(p) PROVE IInv'
  <2>1. Settles(p)
    BY <1>a, <1>1, AdvertisedAccounted, FollowDecisionSettles DEF ProtocolTick
  <2> QED
    BY <1>1, <2>1, SettledInvariant, PublishedHasHost DEF ProtocolTick
<1>2. ASSUME NEW p \in Players, ProtocolTickExpires(p) PROVE IInv'
  <2>1. Settles(p)
    BY <1>a, <1>2, AdvertisedAccounted, JoinAttemptExpiresAccounted, FollowDecisionSettles
       DEF ProtocolTickExpires
  <2> QED
    BY <1>2, <2>1, SettledInvariant, PublishedHasHost DEF ProtocolTickExpires
<1>3. ASSUME NEW p \in Players, ForceLocalLeave(p) PROVE IInv'
  <2>1. Settles(p)
    BY <1>a, <1>3, AdvertisedAccounted, FollowDecisionSettles DEF ForceLocalLeave
  <2> QED
    BY <1>3, <2>1, SettledInvariant, PublishedHasHost DEF ForceLocalLeave
<1>4. ASSUME NEW p \in Players, NEW a \in adverts, MergeAdvertisement(p, a) PROVE IInv'
  BY <1>4 DEF MergeAdvertisement, IInv, At, Accounted, IsProcess, IsPool
<1>5. ASSUME NEW p \in Players, NEW q \in Players, HandleMessages(p, q) PROVE IInv'
  <2>1. PICK room :
          Become(p, ProcessTableSessionEvents(p, [At(p) EXCEPT !.session.room = room]))
    BY <1>5 DEF HandleMessages
  <2>2. Accounted([At(p) EXCEPT !.session.room = room], met[p])
    BY <1>a DEF Accounted, IsProcess, IsSession
  <2>3. Settles(p)
    BY <2>1, <2>2, ProcessAccounted DEF Settles
  <2> QED
    BY <1>5, <1>h, <2>3, SettledInvariant DEF HandleMessages
<1>6. ASSUME NEW p \in Players, NEW q \in Players, JoinFriendRoom(p, q) PROVE IInv'
  <2>1. Accounted(Cancel(At(p)), met[p]) /\ Cancel(At(p)).session = NoSession
    BY <1>a, <1>6, CancelAccounted DEF JoinFriendRoom, At
  <2>2. Settles(p)
    BY <1>6, <2>1, JoinSessionAccounted, ProcessAccounted DEF JoinFriendRoom, Settles
  <2> QED
    BY <1>6, <1>h, <2>2, SettledInvariant DEF JoinFriendRoom
<1>7. ASSUME NEW p \in Players, JoinPublicPool(p) PROVE IInv'
  <2>1. Accounted(Cancel(At(p)), met[p]) /\ Cancel(At(p)).pool = NoPool
    BY <1>a, CancelAccounted
  <2>2. Accounted([Cancel(At(p)) EXCEPT !.pool = Searching], met[p])
    BY <2>1, NothingHeld DEF Accounted, IsProcess
  <2>3. Settles(p)
    BY <1>7, <2>2 DEF JoinPublicPool, Settles
  <2> QED
    BY <1>7, <1>h, <2>3, SettledInvariant DEF JoinPublicPool
<1>8. ASSUME NEW p \in Players, CancelPublicPool(p) PROVE IInv'
  <2>1. Settles(p)
    BY <1>8, <1>a, CancelAccounted DEF CancelPublicPool, Settles
  <2> QED
    BY <1>8, <1>h, <2>1, SettledInvariant DEF CancelPublicPool
<1>9. ASSUME NEW p \in Players, LeaveTable(p) PROVE IInv'
  <2>1. PICK room :
          Become(p, ProcessTableSessionEvents(p, [At(p) EXCEPT !.session.room = room]))
    BY <1>9 DEF LeaveTable
  <2>2. Accounted([At(p) EXCEPT !.session.room = room], met[p])
    BY <1>a DEF Accounted, IsProcess, IsSession
  <2>3. Settles(p)
    BY <2>1, <2>2, ProcessAccounted DEF Settles
  <2> QED
    BY <1>9, <1>h, <2>3, SettledInvariant DEF LeaveTable
<1>10. ASSUME NEW p \in Players, CreateFriendRoom(p) PROVE IInv'
  <2>1. Accounted(Cancel(At(p)), met[p]) /\ Cancel(At(p)).session = NoSession
    BY <1>a, <1>10, CancelAccounted DEF CreateFriendRoom, At
  <2>2. Settles(p)
    BY <1>10, <2>1, CreateSessionAccounted, ProcessAccounted DEF CreateFriendRoom, Settles
  <2> QED
    BY <1>10, <1>h, <2>2, SettledInvariant DEF CreateFriendRoom
<1>11. ASSUME NEW p \in Players, StartHand(p) PROVE IInv'
  <2> DEFINE peers == Room!Seated(session[p].room.membership) \ {p}
  <2>1. /\ UNCHANGED <<pool, session, retained, adverts, claims>>
        /\ hand' = [hand EXCEPT ![p] = peers]
        /\ met' = [met EXCEPT ![p] = @ \cup hand'[p]]
    BY <1>11 DEF StartHand
  <2> HIDE DEF peers
  <2>2. hand'[p] = peers /\ met'[p] = met[p] \cup peers
    BY <2>1 DEF IInv
  <2>3. \A q \in Players \ {p} : At(q)' = At(q) /\ met'[q] = met[q]
    BY <2>1 DEF At, IInv
  <2>4. Accounted(At(p), met[p])'
    <3>1. Accounted(At(p), met[p])
      BY DEF IInv
    <3> QED
      BY <2>1, <2>2, <3>1 DEF At, Accounted, IsProcess, IsPool, IsSession
  <2>5. \A q \in Players : Accounted(At(q), met[q])'
    <3>1. ASSUME NEW q \in Players, q # p PROVE Accounted(At(q), met[q])'
      <4>1. Accounted(At(q), met[q]) /\ At(q)' = At(q) /\ met'[q] = met[q]
        BY <2>3, <3>1 DEF IInv
      <4> QED
        BY <4>1 DEF Accounted, IsProcess, IsPool, IsSession
    <3> QED
      BY <2>4, <3>1
  <2> QED
    BY <2>1, <2>5 DEF IInv
<1>12. ASSUME NEW p \in Players, Crash(p) PROVE IInv'
  BY <1>12, NothingHeld DEF Crash, Become, IInv, At, Accounted, IsProcess
<1>13. ASSUME NEW t \in created, AdvertisementsExpire(t) PROVE IInv'
  BY <1>13, NothingHeld DEF AdvertisementsExpire, IInv, At, Accounted, IsProcess, IsPool
<1>14. CASE UNCHANGED vars
  BY <1>14 DEF vars, IInv, At, Accounted, IsProcess, IsPool, IsSession
<1> QED
  BY <1>1, <1>2, <1>3, <1>4, <1>5, <1>6, <1>7, <1>8, <1>9, <1>10, <1>11, <1>12, <1>13, <1>14
     DEF Next

\* No connection lease leaks, however often players search, move between
\* tables, leave, time out, crash and come back (LeasesAreOwned).
THEOREM NoLeaseLeaks == Spec => []LeasesAreOwned
<1>1. Init => IInv
  BY NothingHeld DEF Init, IInv, At, Accounted, IsProcess
<1>2. IInv => LeasesAreOwned
  BY DEF IInv, LeasesAreOwned, Accounted, At
<1> QED
  BY <1>1, <1>2, InductiveInvariant, PTL DEF Spec
==============================================================================
