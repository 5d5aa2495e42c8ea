------------------------------ MODULE TablePool ------------------------------
(***************************************************************************)
(* How players of one stake level find a table (table_pool_runtime.rs),    *)
(* composed with the table they sit down at (table_session_runtime.rs) by  *)
(* the protocol tick and the commands of the sidecar (main.rs).  A player  *)
(* searching the pool joins the fullest table it has an advertisement of,  *)
(* or creates one; a player alone at its own table moves to a better one.  *)
(*                                                                         *)
(* A table id is a number, since only the order of ids matters, and is     *)
(* fresh whenever one is derived.  The rank delay before a table is        *)
(* created is over whenever the network likes.  An advertisement reaches   *)
(* the others late or never and can be read until it expires; a message of *)
(* a room is read from what its sender currently publishes.  No hand is    *)
(* played: what is kept of one is whom the hand runtime stays connected to. *)
(***************************************************************************)
EXTENDS Integers, FiniteSets, FiniteSetsExt

CONSTANTS
  Players,           \* player numbers, in the order of their claim ids
  Tables,            \* table ids
  TableCapacity,     \* TABLE_CAPACITY
  WaitingCapacity,   \* WAITING_CAPACITY
  LastVersion,        \* bound: membership versions of a table
  Setups,            \* what may happen in a behaviour, and how often
  Nil

ASSUME PoolAssumption ==
  /\ Players \subseteq Nat \ {0} /\ IsFiniteSet(Players)
  /\ Tables \subseteq Nat /\ IsFiniteSet(Tables)
  /\ {TableCapacity, WaitingCapacity, LastVersion} \subseteq Nat
  /\ Nil \notin Players
  /\ Setups \subseteq
       [players : SUBSET Players, tables : SUBSET Tables, search : Nat, late : Nat,
        leave : Nat, friend : Nat, hand : Nat, crash : Nat]

VARIABLES
  pool,        \* pool[p]: the ActivePool of p, or NoPool
  session,     \* session[p]: the ActiveSession of p, or NoSession
  hand,        \* hand[p]: the peers of the hand in p's HandRuntime
  retained,    \* retained[p]: the peers p's connection leases keep
  adverts,     \* the last advertisement of each host and table, until it expires
  created,     \* the table ids derived so far
  claims,      \* claims[p]: join intents p has signed
  met,         \* met[p]: the peers p has been dealt a hand with (history)
  left         \* who plays, the table ids to derive, and how often each kind of
               \* event may still happen

vars == <<pool, session, hand, retained, adverts, created, claims, met, left>>

\* The agreement protocol inside a room.
Room == INSTANCE TableSession WITH
  messages <- {}, signed <- {}, receipts <- {}, forced <- {}, drops <- 0,
  down <- {}, hashOrder <- TRUE, Setups <- {}, setup <- [versions |-> LastVersion]

-----------------------------------------------------------------------------
\* What one process holds; a handler is a function of it.
At(p) == [pool |-> pool[p], session |-> session[p], hand |-> hand[p],
          retained |-> retained[p], claims |-> claims[p]]

Become(p, new) ==
  \E st \in {new} :
    /\ pool'     = [pool EXCEPT ![p] = st.pool]
    /\ session'  = [session EXCEPT ![p] = st.session]
    /\ hand'     = [hand EXCEPT ![p] = st.hand]
    /\ retained' = [retained EXCEPT ![p] = st.retained]
    /\ claims'   = [claims EXCEPT ![p] = st.claims]

Spend(what) ==
  /\ left[what] > 0
  /\ left' = [left EXCEPT ![what] = @ - 1]

NoPool == [phase |-> "none", table |-> Nil, tables |-> [t \in Tables |-> Nil],
           rejected |-> {}, explicit |-> {}]

Searching == [NoPool EXCEPT !.phase = "searching"]

NoSession == [table |-> Nil, via |-> Nil, owns |-> FALSE, explicit |-> {}, room |-> Nil]

Init ==
  /\ pool = [p \in Players |-> NoPool]
  /\ session = [p \in Players |-> NoSession]
  /\ hand = [p \in Players |-> {}]
  /\ retained = [p \in Players |-> {}]
  /\ adverts = {}
  /\ created = {}
  /\ claims = [p \in Players |-> 0]
  /\ met = [p \in Players |-> {}]
  /\ left \in Setups

-----------------------------------------------------------------------------
\* The room of one player, as the pool and the main loop see it.
NewSession(p, table, via, claim) ==
  [table |-> table, via |-> via, owns |-> via # Nil, explicit |-> {},
   room |-> Room!NewSession(p, claim)]

Alone(p, claim) ==
  [version |-> 1, previous |-> Nil, seats |-> [i \in {1} |-> [player |-> p, claim |-> claim]],
   waiting |-> {}, leaves |-> [q \in Players |-> Room!NoLeave]]

Role(p, s) ==
  CASE s.room.local_leave -> "leaving"
    [] ~s.room.local_leave /\ s.room.membership # Nil /\ Room!Present(s.room.membership, p) -> "member"
    [] OTHER -> "joining"

LocalAdmissionAcknowledged(p, room) ==
  LET m == IF room.pending_membership # Nil THEN room.pending_membership ELSE room.membership
  IN  m # Nil /\ Room!Present(m, p)

\* Looks at the certified membership only.
CanConvergeWhilePending(p, room) ==
  /\ ~room.local_leave
  /\ room.membership # Nil
  /\ room.membership.version = 1
  /\ Room!SeatClaims(room.membership) = {Room!ClaimOf(room, p)}
  /\ room.membership.waiting = {}

CanConvergeSingleton(p, room) ==
  /\ ~room.local_leave
  /\ room.pending_membership = Nil
  /\ Room!Joined(room) = {p}
  /\ Room!Leaving(room) = {}
  /\ room.membership # Nil
  /\ room.membership.version = 1
  /\ Room!SeatClaims(room.membership) = {Room!ClaimOf(room, p)}
  /\ room.membership.waiting = {}

\* TableSessionRuntime::advertisement: signed by the coordinator only.
Advertisement(p, s) ==
  IF \/ s = NoSession \/ s.room.membership = Nil
     \/ s.room.membership.seats[Min(DOMAIN s.room.membership.seats)] # Room!ClaimOf(s.room, p)
  THEN Nil
  ELSE [table |-> s.table, host |-> p, version |-> s.room.membership.version,
        members |-> Cardinality(DOMAIN s.room.membership.seats),
        waiting |-> Cardinality(s.room.membership.waiting)]

\* synchronize_explicit_session_peers: lease exactly the peers a player still
\* has to reach, unless the session was never given its leases.
SynchronizeExplicitSessionPeers(p, st) ==
  LET s == st.session
      m == {s.room.membership, s.room.pending_membership} \ {Nil}
      desired ==
        (IF LocalAdmissionAcknowledged(p, s.room) THEN {} ELSE {s.via} \ {Nil})
        \cup ({q \in Players : \E x \in m : Room!Present(x, q)} \ {p})
  IN  IF ~s.owns THEN st
      ELSE [st EXCEPT !.session.explicit = desired,
                      !.retained = (@ \ (s.explicit \ desired)) \cup desired]

\* Ends the session with its leases still held.
CloseKeepingLeases(st) == [st EXCEPT !.session = NoSession]

Close(st) ==
  [st EXCEPT !.session = NoSession,
             !.retained = IF st.session # NoSession /\ st.session.owns
                          THEN @ \ st.session.explicit ELSE @]

Cancel(st) ==
  [st EXCEPT !.pool = NoPool,
             !.retained = IF st.pool # NoPool THEN @ \ st.pool.explicit ELSE @]

CompleteLocalLeave(st) == Cancel(Close([st EXCEPT !.hand = {}]))

\* TablePoolRuntime::mark_joined and adopt_explicit_peers.
MarkJoined(st) ==
  IF \/ st.pool = NoPool
     \/ st.pool.phase \notin {"joining", "creating"}
     \/ st.pool.table # st.session.table
  THEN st
  ELSE [st EXCEPT !.pool.phase = "in_room",
                  !.pool.table = Nil,
                  !.pool.rejected = {},
                  !.pool.explicit = {},
                  !.session.explicit = @ \cup st.pool.explicit,
                  !.session.owns = TRUE]

\* process_table_session_events, which ends every handler of the session.
ProcessTableSessionEvents(p, st) ==
  IF st.session = NoSession THEN st
  ELSE LET joined == IF \/ LocalAdmissionAcknowledged(p, st.session.room)
                        \/ Role(p, st.session) = "member"
                     THEN MarkJoined(st) ELSE st
       IN  IF st.session.room.leave_completed THEN CompleteLocalLeave(joined) ELSE joined

-----------------------------------------------------------------------------
\* The choice of a table (select_table_advertisement).
Joinable(a) == a.members < TableCapacity /\ a.waiting < WaitingCapacity

Better(a, b) ==
  \/ a.members > b.members
  \/ a.members = b.members /\ a.waiting < b.waiting
  \/ a.members = b.members /\ a.waiting = b.waiting /\ a.table < b.table

Selected(ads) ==
  LET open == {a \in ads : Joinable(a)}
  IN  {a \in open : \A b \in open \ {a} : Better(a, b)}

Candidates(p, pl) ==
  {a \in {pl.tables[t] : t \in Tables} \ {Nil} : a.host # p /\ a.table \notin pl.rejected}

\* Moves to a fuller table only.
ConvergenceToFuller(p, pl, s) ==
  LET ad == Advertisement(p, s)
  IN  IF ad = Nil \/ ~CanConvergeSingleton(p, s.room) THEN {}
      ELSE Selected({a \in Candidates(p, pl) : a.table # ad.table /\ a.members >= 2})

\* decide_singleton_convergence: the tables a player alone at its own may move to.
Convergence(p, pl, s) ==
  LET ad == Advertisement(p, s)
  IN  IF ad = Nil \/ ~CanConvergeSingleton(p, s.room) THEN {}
      ELSE Selected({a \in Candidates(p, pl) :
                       a.table # ad.table /\ (a.members >= 2 \/ a.table < ad.table)})

\* The tables a tick may decide to join: decide_next_action while searching.
Decisions(p, pl, s) ==
  CASE pl.phase = "searching" -> Selected(Candidates(p, pl))
    [] pl.phase = "in_room"   -> Convergence(p, pl, s)
    [] OTHER                  -> {}

\* migrate_to_pool: the session ends and the pool takes over its leases.
MigrateToPool(st) ==
  IF st.session = NoSession THEN st
  ELSE [st EXCEPT !.session = NoSession,
                  !.pool.explicit = @ \cup IF st.session.owns THEN st.session.explicit ELSE {}]

\* TableSessionRuntime::create and ::join.
CreateSession(p, t, st) ==
  [st EXCEPT !.claims = @ + 1,
             !.session = [NewSession(p, t, Nil, st.claims + 1) EXCEPT
                            !.room.membership = Alone(p, st.claims + 1),
                            !.room.hand_clock_known = TRUE]]

JoinSession(p, t, via, st) ==
  SynchronizeExplicitSessionPeers(p,
    [st EXCEPT !.claims = @ + 1, !.session = NewSession(p, t, via, st.claims + 1)])

\* Searches again with the old session still open.
JoinAttemptExpiresInPool(p, st) ==
  [st EXCEPT !.pool.phase = "searching", !.pool.table = Nil,
             !.pool.rejected = @ \cup {st.pool.table}]

\* Keeps the table it was joining.
JoinAttemptExpiresInPhase(p, st) ==
  Close([st EXCEPT !.pool.phase = "searching", !.pool.rejected = @ \cup {st.pool.table}])

\* JOIN_ATTEMPT_TIMEOUT: the table is not tried again, and process_pool_events
\* closes a session that is still joining it.
JoinAttemptExpires(p, st) ==
  LET expired == [st EXCEPT !.pool.phase = "searching", !.pool.table = Nil,
                            !.pool.rejected = @ \cup {st.pool.table}]
  IN  IF /\ st.session # NoSession /\ Role(p, st.session) = "joining"
         /\ st.session.table = st.pool.table
      THEN Close(expired) ELSE expired

\* ensure_roster_connections, on every tick of the hand runtime.
HandTick(st) == [st EXCEPT !.retained = @ \cup st.hand]

-----------------------------------------------------------------------------
\* set_local_advertisement and the publication of it in TablePoolRuntime::tick.
Advertised(p, st) ==
  LET ad == Advertisement(p, st.session)
  IN  IF st.pool = NoPool \/ ad = Nil THEN st ELSE [st EXCEPT !.pool.tables[ad.table] = ad]

Publish(p) ==
  \E ads \in {IF pool[p] = NoPool THEN {} ELSE {Advertisement(p, session[p])} \ {Nil}} :
    adverts' = {a \in adverts : a.host = p => \A b \in ads : b.table # a.table} \cup ads

\* The player p is joining is no longer at that table.
HostIsGone(p) ==
  LET host == session[p].via
  IN  ~(session[host] # NoSession /\ session[host].table = session[p].table)

\* A join attempt runs out.  Without a slow network it does so only because
\* the host it waits for is gone.
AttemptRunsOut(p) ==
  /\ pool[p] # NoPool /\ pool[p].phase = "joining"
  /\ \/ HostIsGone(p) /\ UNCHANGED left
     \/ ~HostIsGone(p) /\ Spend("late")

\* force_local_leave_if_due, the last call of protocol_tick.
ForceLocalLeaveIfDue(due, st) ==
  IF due /\ st.session # NoSession /\ st.session.room.local_leave THEN CompleteLocalLeave(st) ELSE st

\* TableSessionRuntime::tick and what follows it in protocol_tick.
Ticks(p, due, st) ==
  IF st.session = NoSession THEN Become(p, HandTick(st))
  ELSE \E proposed \in {Room!MaybeProposeMembership(p, st.session.room)} :
       \E room \in {Room!FinalizeMembershipIfReady(p, proposed)} :
       \E ticked \in {SynchronizeExplicitSessionPeers(p, [st EXCEPT !.session.room = room])} :
       \E processed \in {ProcessTableSessionEvents(p, ticked)} :
         Become(p, ForceLocalLeaveIfDue(due, HandTick(processed)))

\* process_pool_decision for a table to join ...
FollowJoin(p, a, due, st) ==
  \E joining \in {[MigrateToPool(st) EXCEPT !.pool.phase = "joining", !.pool.table = a.table]} :
  \E joined \in {JoinSession(p, a.table, a.host, joining)} :
  \E processed \in {ProcessTableSessionEvents(p, [joined EXCEPT !.pool.explicit = @ \ {a.host}])} :
    Ticks(p, due, processed)

\* ... and for one to create, which fails while there is still a session, and
\* the tick with it.
FollowCreate(p, t, due, st) ==
  \E creating \in {[st EXCEPT !.pool.phase = "creating", !.pool.table = t]} :
    IF st.session # NoSession THEN Become(p, creating)
    ELSE \E processed \in {ProcessTableSessionEvents(p, CreateSession(p, t, creating))} :
           Ticks(p, due, processed)

FollowDecision(p, due, start) ==
  \E st \in {start} :
  \E joins \in {IF st.pool = NoPool THEN {} ELSE Decisions(p, st.pool, st.session)} :
    \/ \E a \in joins : FollowJoin(p, a, due, st) /\ UNCHANGED created
    \/ /\ joins = {} /\ st.pool # NoPool /\ st.pool.phase = "searching"
       /\ \E t \in left.tables \ created :
            FollowCreate(p, t, due, st) /\ created' = created \cup {t}
    \/ joins = {} /\ Ticks(p, due, st) /\ UNCHANGED created

\* protocol_tick of main.rs: as long as no timer is due, once a join attempt
\* has run out, and once a leave has waited long enough.
ProtocolTick(p) ==
  /\ FollowDecision(p, FALSE, Advertised(p, At(p)))
  /\ Publish(p)
  /\ UNCHANGED <<met, left>>

ProtocolTickExpires(p) ==
  /\ AttemptRunsOut(p)
  /\ FollowDecision(p, FALSE, JoinAttemptExpires(p, Advertised(p, At(p))))
  /\ Publish(p)
  /\ UNCHANGED met

ForceLocalLeave(p) ==
  /\ session[p] # NoSession /\ session[p].room.local_leave
  /\ FollowDecision(p, TRUE, Advertised(p, At(p)))
  /\ Publish(p)
  /\ UNCHANGED <<met, left>>

\* merge_pool_message: an advertisement arrives, by gossip or directly.
MergeAdvertisement(p, a) ==
  /\ pool[p] # NoPool
  /\ a.host # p
  /\ LET current == pool[p].tables[a.table]
     IN  current # Nil => a.version > current.version
  /\ pool' = [pool EXCEPT ![p].tables[a.table] = a]
  /\ UNCHANGED <<session, hand, retained, adverts, created, claims, met, left>>

\* The advertisements of a table that nobody renews pass their expiry time.
AdvertisementsExpire(t) ==
  /\ \E a \in adverts : a.table = t
  /\ \A p \in Players : pool[p] # NoPool =>
       LET ad == Advertisement(p, session[p]) IN ad # Nil => ad.table # t
  /\ adverts' = {a \in adverts : a.table # t}
  /\ pool' = [p \in Players |->
       IF pool[p] = NoPool THEN NoPool ELSE [pool[p] EXCEPT !.tables[t] = Nil]]
  /\ UNCHANGED <<session, hand, retained, created, claims, met, left>>

-----------------------------------------------------------------------------
\* TableSessionRuntime::handle_message for a message about the membership;
\* the session stays as it is when the message is dropped.
Handled(p, s, m) ==
  CASE m.type = "join" -> [s EXCEPT !.joins[m.player] = Max({@, m.claim})]
    [] m.type = "leave" /\ s.joins[m.player] > 0 -> [s EXCEPT !.leaves[m.player] = m.after]
    [] /\ m.type = "membership proposal" /\ m.proposal # s.membership
       /\ Room!ValidateMembershipScope(p, s, m.proposal) ->
         Room!AcceptMembershipProposal(p, Room!Remember(s, m.proposal), m.proposal)
    [] /\ m.type = "membership acceptance" /\ m.proposal # s.membership
       /\ m.proposal = s.pending_membership ->
         [s EXCEPT !.membership_accepted = @ \cup {m.player}]
    [] /\ m.type = "certified membership"
       /\ s.membership # Nil => m.proposal.version > s.membership.version
       /\ Room!ValidateMembershipScope(p, s, m.proposal) ->
         Room!ActivateMembership(p, Room!Remember(s, m.proposal), m.proposal)
    [] OTHER -> s

\* The message of one type among what another player publishes, handled.
After(p, s, published, type) ==
  LET ms == {m \in published : m.type = type}
  IN  IF ms = {} THEN s
      ELSE Room!FinalizeMembershipIfReady(p, Handled(p, s, CHOOSE m \in ms : TRUE))

\* Everything another player at the table publishes at once arrives.
HandleMessages(p, q) ==
  /\ p # q /\ session[p] # NoSession /\ session[q] # NoSession
  /\ session[p].table = session[q].table
  /\ \E published \in {Room!Published(q, session[q].room)} :
     \E s1 \in {After(p, session[p].room, published, "join")} :
     \E s2 \in {After(p, s1, published, "leave")} :
     \E s3 \in {After(p, s2, published, "certified membership")} :
     \E s4 \in {After(p, s3, published, "membership proposal")} :
     \E s5 \in {After(p, s4, published, "membership acceptance")} :
       /\ s5 # session[p].room
       /\ Become(p, ProcessTableSessionEvents(p, [At(p) EXCEPT !.session.room = s5]))
  /\ UNCHANGED <<adverts, created, met, left>>

-----------------------------------------------------------------------------
\* join_public_pool; a search already running is replaced.
JoinPublicPool(p) ==
  /\ p \in left.players /\ session[p] = NoSession /\ hand[p] = {}
  /\ Spend("search")
  /\ Become(p, [Cancel(At(p)) EXCEPT !.pool = Searching])
  /\ UNCHANGED <<adverts, created, met>>

\* CancelPublicPool, and leave_table without a session.
CancelPublicPool(p) ==
  /\ session[p] = NoSession /\ pool[p] # NoPool
  /\ Spend("leave")
  /\ Become(p, Cancel(At(p)))
  /\ UNCHANGED <<adverts, created, met>>

\* leave_table: TableSessionRuntime::request_leave between hands.
LeaveTable(p) ==
  /\ session[p] # NoSession /\ ~session[p].room.local_leave
  /\ Spend("leave")
  /\ Become(p, ProcessTableSessionEvents(p,
       [At(p) EXCEPT !.session.room =
          [@ EXCEPT !.leaves[p] = Room!Idle,
                    !.local_leave = TRUE,
                    !.pending_membership = Nil,
                    !.membership_accepted = {},
                    !.local_membership_acceptance = Nil,
                    !.leave_completed = Room!LocalIsOnlySeat(p, session[p].room)]]))
  /\ UNCHANGED <<adverts, created, met>>

\* create_friend_room.
CreateFriendRoom(p) ==
  /\ p \in left.players /\ session[p] = NoSession /\ hand[p] = {}
  /\ Spend("friend")
  /\ \E t \in left.tables \ created :
       /\ created' = created \cup {t}
       /\ Become(p, ProcessTableSessionEvents(p, CreateSession(p, t, Cancel(At(p)))))
  /\ UNCHANGED <<adverts, met>>

\* join_friend_room, with the invite of a room whose host is still there.
JoinFriendRoom(p, host) ==
  /\ p \in left.players /\ session[p] = NoSession /\ hand[p] = {}
  /\ session[host] # NoSession /\ session[host].via = Nil /\ pool[host] = NoPool
  /\ Spend("friend")
  /\ Become(p, ProcessTableSessionEvents(p,
       JoinSession(p, session[host].table, host, Cancel(At(p)))))
  /\ UNCHANGED <<adverts, created, met>>

\* HandRuntime::start, for a roster of the current membership.
StartHand(p) ==
  /\ session[p] # NoSession /\ session[p].room.membership # Nil /\ ~session[p].room.local_leave
  /\ p \in Room!Seated(session[p].room.membership)
  /\ Cardinality(Room!Seated(session[p].room.membership)) >= 2
  /\ hand[p] # Room!Seated(session[p].room.membership) \ {p}
  /\ Spend("hand")
  /\ hand' = [hand EXCEPT ![p] = Room!Seated(session[p].room.membership) \ {p}]
  /\ met'  = [met EXCEPT ![p] = @ \cup hand'[p]]
  /\ UNCHANGED <<pool, session, retained, adverts, created, claims>>

\* The process dies; what it published stays with the others.
Crash(p) ==
  /\ pool[p] # NoPool \/ session[p] # NoSession
  /\ Spend("crash")
  /\ Become(p, [pool |-> NoPool, session |-> NoSession, hand |-> {}, retained |-> {}, claims |-> claims[p]])
  /\ met' = [met EXCEPT ![p] = {}]
  /\ UNCHANGED <<adverts, created>>

Next ==
  \/ \E p \in Players :
       \/ ProtocolTick(p) \/ ProtocolTickExpires(p)
       \/ \E a \in adverts : MergeAdvertisement(p, a)
       \/ \E q \in Players : HandleMessages(p, q) \/ JoinFriendRoom(p, q)
       \/ JoinPublicPool(p) \/ CancelPublicPool(p)
       \/ LeaveTable(p) \/ ForceLocalLeave(p)
       \/ CreateFriendRoom(p) \/ StartHand(p) \/ Crash(p)
  \/ \E t \in created : AdvertisementsExpire(t)

Spec == Init /\ [][Next]_vars

\* What happens unasked.
Runs ==
  \/ \E t \in created : AdvertisementsExpire(t)
  \/ \E p \in Players :
       \/ \E a \in adverts : MergeAdvertisement(p, a)
       \/ ForceLocalLeave(p)
       \/ \E q \in Players : HandleMessages(p, q)
       \/ ProtocolTick(p) \/ ProtocolTickExpires(p)

FairSpec == Spec /\ WF_vars(Runs) /\ WF_vars(\E p \in Players : ForceLocalLeave(p))

-----------------------------------------------------------------------------
Open == {p \in Players : session[p] # NoSession}

Public == {p \in Players : pool[p] # NoPool}

\* Types; and no player knows a version of a table that its host has not
\* advertised, or a table that was never created.
TypeOK ==
  /\ adverts \subseteq [table : created, host : Players, version : 1 .. LastVersion,
                        members : 1 .. TableCapacity, waiting : 0 .. WaitingCapacity]
  /\ retained \in [Players -> SUBSET Players]
  /\ \A p \in Public :
       /\ pool[p].phase \in {"searching", "joining", "creating", "in_room"}
       /\ (pool[p].table # Nil) = (pool[p].phase \in {"joining", "creating"})
       /\ \A t \in Tables : pool[p].tables[t] # Nil =>
            \E a \in adverts : a.table = t /\ a.version >= pool[p].tables[t].version
       /\ pool[p].rejected \subseteq created
  /\ \A p \in Open : session[p].table \in created

\* The pool and the room of a player agree, although the pool gives a room up
\* (JOIN_ATTEMPT_TIMEOUT) or changes it (convergence) on its own: a player who
\* searches sits nowhere, one who joins waits at the table its pool is joining
\* (mark_joined would ignore any other), and one whose pool is in a room has
\* one.  A player who has asked to leave is left out: its session is not closed
\* when the attempt runs out, and a table it then decides to create is refused.
RoomMatchesPhase ==
  \A p \in Public :
    \/ p \in Open /\ session[p].room.local_leave
    \/ /\ pool[p].phase # "creating"
       /\ pool[p].phase = "searching" => session[p] = NoSession
       /\ pool[p].phase = "joining" => session[p] # NoSession /\ session[p].table = pool[p].table
       /\ pool[p].phase = "in_room" => session[p] # NoSession

\* No lease leaks: a connection is leased only while the pool or the room of a
\* player wants the peer, although leases change hands when a player moves
\* (migrate_to_pool, transfer_explicit_peer, adopt_explicit_peers) and end with
\* their owner (close, cancel).  The peers of a hand are the exception: the hand
\* runtime retains them on every tick and never gives them back.
LeasesAreOwned ==
  \A p \in Players :
    retained[p] \subseteq session[p].explicit \cup pool[p].explicit \cup met[p]

\* A player who moves to another table leaves nobody behind who has been
\* admitted to the old one: the check that it is alone (can_converge_singleton)
\* and the proposals still under way cannot cross.  A player who was leaving
\* anyway is left out: it moves when its join attempt has run out.
NobodyIsLeftBehind ==
  [][\A h \in Open :
       /\ LocalAdmissionAcknowledged(h, session[h].room) /\ ~session[h].room.local_leave
       /\ session'[h] # NoSession /\ session'[h].table # session[h].table
       => \A p \in Open \ {h} :
            session[p].table = session[h].table => ~LocalAdmissionAcknowledged(p, session[p].room)]_vars

\* The players of the pool sit at one table and know of each other.
Together ==
  \A p, q \in Public :
    /\ session[p] # NoSession /\ session[q] # NoSession
    /\ session[p].table = session[q].table
    /\ session[p].room.membership # Nil /\ Room!Present(session[p].room.membership, q)

AtTable(q, t) == q \in Open /\ session[q].table = t

\* p's table still counts with a player who has left it, or with the leave of
\* one who has come back.
RemembersGone(p) ==
  LET s == session[p]
  IN  \E q \in Room!Joined(s.room) \ {p} :
        ~ /\ AtTable(q, s.table)
          /\ session[q].room.joins[q] = s.room.joins[q]
          /\ q \in Room!Leaving(s.room) => session[q].room.local_leave

\* A bound of the model stops the search.
Exhausted ==
  \/ left.tables \subseteq created /\ \E p \in Public : pool[p].phase = "searching"
  \/ \E p \in Open : session[p].room.membership # Nil /\ session[p].room.membership.version = LastVersion

\* Players searching one pool end up at one table, in whatever order tables are
\* created and advertised: two players alone at theirs do not wait for each
\* other, and do not swap tables forever.  Not so while a table counts with a
\* player who is gone: its intents live for half an hour, and a proposal that
\* waits for its answer has no time-out.
PlayersMeet == []<>(Together \/ Exhausted \/ \E p \in Public \cap Open : RemembersGone(p))
==============================================================================
