----------------------------- MODULE TableSession -----------------------------
(***************************************************************************)
(* A table between hands (table_session_runtime.rs): players enter and     *)
(* leave by signed intents, a coordinator proposes the next membership     *)
(* version or the roster of the next hand, every player listed in it signs *)
(* an acceptance, and the proposal with all its signatures takes effect.   *)
(* Every player runs the same code on its own view; messages are           *)
(* delivered late, twice, in any order or never.                           *)
(*                                                                         *)
(* A hash stands for the content it was computed from, so a proposal is    *)
(* named by its content and "the previous hash" is the previous proposal.  *)
(* Signatures are the messages their owner published.  Intents do not      *)
(* expire within a behaviour (they live for thirty minutes).               *)
(***************************************************************************)
EXTENDS Membership, FiniteSetsExt

CONSTANTS
  Players,           \* player numbers, in the order of their claim ids
  Setups,            \* how a behaviour may start, and what is possible in it
  Nil

ASSUME TableAssumption ==
  /\ Players \subseteq Nat \ {0} /\ IsFiniteSet(Players)
  /\ TableCapacity \in Nat /\ WaitingCapacity \in Nat
  /\ \A x \in Setups :
       /\ x.founders \subseteq Players /\ x.founders # {}
       /\ Cardinality(x.founders) <= TableCapacity
       /\ x.guests \cup x.leavers \cup x.renewers \subseteq Players
       /\ {x.claims, x.hands, x.versions, x.drops} \subseteq Nat /\ x.claims # 0

VARIABLES
  session,     \* session[p]: the ActiveSession of p, or Nil
  hand,        \* hand[p]: the hand in p's HandRuntime, or Nil
  down,        \* down[p]: peers p has seen disconnected for the grace period
  messages,    \* everything ever published; delivery is up to the network
  claims,      \* claims[p]: join intents p has signed
  signed,      \* <<player, proposal>>: acceptances ever signed (history)
  receipts,    \* <<player, roster>>: the player signed the receipt of that hand
  forced,      \* the players whose leave a timer forced (history)
  drops,       \* connections lost so far
  hashOrder,   \* which way round the hashes of two proposals compare
  setup        \* the member of Setups this behaviour is of

vars == <<session, hand, down, messages, claims, signed, receipts, forced, drops, hashOrder, setup>>

Founders   == setup.founders    \* the players seated when a behaviour starts
Guests     == setup.guests      \* the players that may join (again)
Leavers    == setup.leavers     \* the players that may ask to leave
Renewers   == setup.renewers    \* the players whose join intent may come up for renewal
MaxClaims  == setup.claims      \* bound: join intents one player signs
MaxHands   == setup.hands       \* bound: hands a table plays
MaxVersion == setup.versions    \* bound: membership versions
MaxDrops   == setup.drops       \* bound: connections lost

NoLeave == -1    \* no LeaveIntent known
Idle    == 0     \* a LeaveIntent whose after_hand_number is None

-----------------------------------------------------------------------------
\* A membership proposal holds seats (a function from physical seats to
\* claims), a waiting list and the leave intents its coordinator knew.
SeatClaims(proposal) == {proposal.seats[i] : i \in DOMAIN proposal.seats}

Seated(proposal) == PlayersOf(SeatClaims(proposal))

Present(proposal, p) == p \in Seated(proposal) \cup PlayersOf(proposal.waiting)

Coordinator(proposal) == proposal.seats[Min(DOMAIN proposal.seats)].player

\* as_membership: the domain's view of a proposal.
AsMembership(proposal) ==
  [seats   |-> [i \in DOMAIN proposal.seats |-> proposal.seats[i].player],
   waiting |-> proposal.waiting]

\* validate_contents, without the checks of the intents themselves.
ValidateContents(proposal) ==
  /\ proposal.version # 0 /\ proposal.seats # <<>>
  /\ Cardinality({q \in Players : proposal.leaves[q] # NoLeave})
       <= TableCapacity + WaitingCapacity
  /\ Validate(AsMembership(proposal))

\* A roster is played by the seats of the membership it names.
Participants(roster) == Seated(roster.membership)

\* A number for a proposal, so that two proposals compare like their hashes:
\* arbitrarily, but the same way for everybody.
Fingerprint(proposal) ==
  MapThenSumSet(LAMBDA i : 10^i * proposal.seats[i].player, DOMAIN proposal.seats)
    + MapThenSumSet(LAMBDA i : proposal.seats[i].claim, DOMAIN proposal.seats)
    + MapThenSumSet(LAMBDA c : 100000 * c.player, proposal.waiting)
    + MapThenSumSet(LAMBDA q : IF proposal.leaves[q] = NoLeave THEN 0 ELSE 1000000 * q, Players)

RosterFingerprint(roster) ==
  10 * Fingerprint(roster.membership) + roster.dealer
    + IF roster.previous = Nil THEN 0 ELSE roster.previous.by

Below(a, b) == IF hashOrder THEN a < b ELSE b < a

-----------------------------------------------------------------------------
NewSession(p, claim) ==
  [joins               |-> [q \in Players |-> IF q = p THEN claim ELSE 0],
   leaves              |-> [q \in Players |-> NoLeave],
   membership          |-> Nil,
   pending_membership  |-> Nil,
   membership_accepted |-> {},
   local_membership_acceptance |-> Nil,
   pending_roster      |-> Nil,
   active_roster       |-> Nil,
   roster_accepted     |-> {},
   local_roster_acceptance |-> Nil,
   countdown           |-> "none",
   hand_active         |-> FALSE,
   hand_clock_known    |-> FALSE,
   next_hand_number    |-> 1,
   previous_receipt    |-> Nil,
   previous_dealer     |-> Nil,
   ready               |-> Nil,
   local_leave         |-> FALSE,
   leave_completed     |-> FALSE]

\* The membership the founders agreed on, one version per arrival.
Founded ==
  [version |-> Cardinality(Founders), previous |-> Nil,
   seats   |-> [i \in 1 .. Cardinality(Founders) |->
                  [player |-> CHOOSE p \in Founders :
                                Cardinality({q \in Founders : q < p}) = i - 1,
                   claim  |-> 1]],
   waiting |-> {}, leaves |-> [q \in Players |-> NoLeave]]

Init ==
  /\ setup \in Setups
  /\ session = [p \in Players |->
       IF p \in Founders
       THEN [NewSession(p, 1) EXCEPT
               !.joins = [q \in Players |-> IF q \in Founders THEN 1 ELSE 0],
               !.membership = Founded,
               !.countdown = IF Cardinality(Founders) >= 2 THEN "running" ELSE "none",
               !.hand_clock_known = p = Min(Founders)]
       ELSE Nil]
  /\ hand = [p \in Players |-> Nil]
  /\ down = [p \in Players |-> {}]
  /\ messages = {}
  /\ claims = [p \in Players |-> IF p \in Founders THEN 1 ELSE 0]
  /\ signed = {}
  /\ receipts = {}
  /\ forced = {}
  /\ drops = 0
  /\ hashOrder \in BOOLEAN

-----------------------------------------------------------------------------
\* next_membership_layout: keep the seats of players that stay, then admit
\* candidates in claim order, to a waiting list while a hand is played.
Joined(s)  == {q \in Players : s.joins[q] > 0}
Leaving(s) == {q \in Players : s.leaves[q] # NoLeave}

ClaimOf(s, q) == [player |-> q, claim |-> s.joins[q]]

\* Bug variant: a renewed intent costs its player the seat.
Kept_SameClaim(s) ==
  {i \in DOMAIN s.membership.seats :
     s.membership.seats[i] = ClaimOf(s, s.membership.seats[i].player)}

Kept(s) ==
  {i \in DOMAIN s.membership.seats :
     LET q == s.membership.seats[i].player
     IN  q \in Joined(s) /\ (s.hand_active \/ q \notin Leaving(s))}

\* Bug variant: seated players are candidates too.
Candidates_Seated(s) == Joined(s) \ IF s.hand_active THEN {} ELSE Leaving(s)

\* Bug variant: a player who left is a candidate at once.
Candidates_Leaving(s) == Joined(s) \ {s.membership.seats[i].player : i \in Kept(s)}

Candidates(s) ==
  Joined(s) \ ({s.membership.seats[i].player : i \in Kept(s)}
                \cup IF s.hand_active THEN {} ELSE Leaving(s))

Admitted(s) ==
  LET free == PhysicalSeats \ Kept(s)
  IN  IF s.hand_active THEN {}
      ELSE {q \in Candidates(s) : Place(Candidates(s), q) <= Cardinality(free)}

NextSeats(s) ==
  LET kept  == Kept(s)
      free  == PhysicalSeats \ kept
      added == Admitted(s)
      taken == {Nth(free, Place(added, q)) : q \in added}
  IN  [i \in kept \cup taken |->
         IF i \in kept THEN ClaimOf(s, s.membership.seats[i].player)
                       ELSE ClaimOf(s, Nth(added, Place(free, i)))]

NextWaiting(s) ==
  LET queue == Candidates(s) \ Admitted(s)
  IN  {ClaimOf(s, q) : q \in {x \in queue : Place(queue, x) <= WaitingCapacity}}

NextProposal(s) ==
  [version |-> s.membership.version + 1, previous |-> s.membership,
   seats |-> NextSeats(s), waiting |-> NextWaiting(s), leaves |-> s.leaves]

\* next_dealer: the first occupied seat clockwise from the previous dealer.
NextDealer(previous, occupied) ==
  IF previous = Nil THEN Min(occupied)
  ELSE LET after == {i \in occupied : i > previous}
       IN  IF after # {} THEN Min(after) ELSE Min(occupied)

\* ReadyHandRoster::from_membership: the next hand of everybody who has a seat.
FromMembership(membership, number, previous, dealer) ==
  [hand_number |-> number, membership |-> membership, previous |-> previous,
   dealer |-> NextDealer(dealer, DOMAIN membership.seats)]

-----------------------------------------------------------------------------
AcceptMembershipProposal(p, s, proposal) ==
  LET current == s.pending_membership
      replace == \/ current = Nil
                 \/ proposal.version > current.version
                 \/ /\ proposal.version = current.version
                    /\ Below(Fingerprint(proposal), Fingerprint(current))
      signs   == p \in Seated(proposal)
  IN  IF ~replace THEN s
      ELSE [s EXCEPT !.pending_membership = proposal,
                     !.membership_accepted = IF signs THEN {p} ELSE {},
                     !.local_membership_acceptance = IF signs THEN proposal ELSE Nil]

MaybeProposeMembership(p, s) ==
  IF s.pending_membership # Nil \/ s.membership = Nil THEN s
  ELSE LET next == NextProposal(s)
       IN  IF \/ DOMAIN next.seats = {}
              \/ s.membership.version = MaxVersion
              \/ Coordinator(next) # p
              \/ next.seats = s.membership.seats /\ next.waiting = s.membership.waiting
           THEN s
           ELSE AcceptMembershipProposal(p, s, next)

\* Bug variant: acceptances of the roster it withdraws are kept.
ActivateMembership_KeepsAccepted(p, s, proposal) ==
  [s EXCEPT !.membership = proposal,
            !.pending_membership = Nil,
            !.membership_accepted = {},
            !.pending_roster = Nil,
            !.local_roster_acceptance = Nil,
            !.countdown = IF ~s.hand_active /\ @ = "none" THEN "running" ELSE @,
            !.leave_completed = @ \/ (s.local_leave /\ ~Present(proposal, p))]

ActivateMembership(p, s, proposal) ==
  [s EXCEPT !.membership = proposal,
            !.pending_membership = Nil,
            !.membership_accepted = {},
            !.pending_roster = Nil,
            !.roster_accepted = {},
            !.local_roster_acceptance = Nil,
            !.countdown = IF /\ ~s.hand_active
                             /\ Cardinality(DOMAIN proposal.seats) >= 2
                             /\ s.countdown = "none"
                          THEN "running" ELSE @,
            !.leave_completed = @ \/ (s.local_leave /\ ~Present(proposal, p))]

\* Bug variant: a majority of the seats is enough.
FinalizeMembershipIfReady_Majority(p, s) ==
  IF /\ s.pending_membership # Nil
     /\ 2 * Cardinality(s.membership_accepted) > Cardinality(Seated(s.pending_membership))
  THEN ActivateMembership(p, s, s.pending_membership)
  ELSE s

FinalizeMembershipIfReady(p, s) ==
  IF s.pending_membership # Nil /\ s.membership_accepted = Seated(s.pending_membership)
  THEN ActivateMembership(p, s, s.pending_membership)
  ELSE s

AcceptRosterProposal(p, s, roster) ==
  LET current == s.pending_roster
      replace == \/ current = Nil
                 \/ roster.hand_number > current.hand_number
                 \/ /\ roster.hand_number = current.hand_number
                    /\ Below(RosterFingerprint(roster), RosterFingerprint(current))
  IN  IF p \notin Participants(roster) \/ ~replace THEN s
      ELSE [s EXCEPT !.pending_roster = roster,
                     !.roster_accepted = {p},
                     !.local_roster_acceptance = roster]

MaybeProposeRoster(p, s) ==
  IF \/ s.hand_active \/ s.pending_roster # Nil \/ s.pending_membership # Nil
     \/ s.membership = Nil
  THEN s
  ELSE IF Cardinality(DOMAIN s.membership.seats) < 2 THEN [s EXCEPT !.countdown = "none"]
  ELSE IF s.countdown = "none" THEN [s EXCEPT !.countdown = "running"]
  ELSE IF \/ s.countdown = "running" \/ Coordinator(s.membership) # p
          \/ s.next_hand_number > MaxHands
  THEN s
  ELSE AcceptRosterProposal(p, s, FromMembership(s.membership, s.next_hand_number,
                                                 s.previous_receipt, s.previous_dealer))

ActivateRoster(s, roster) ==
  [s EXCEPT !.ready = roster,
            !.active_roster = roster,
            !.pending_roster = Nil,
            !.roster_accepted = {},
            !.hand_active = TRUE,
            !.countdown = "none"]

\* Bug variant: a majority of the participants is enough.
FinalizeRosterIfReady_Majority(s) ==
  IF /\ s.pending_roster # Nil
     /\ 2 * Cardinality(s.roster_accepted) > Cardinality(Participants(s.pending_roster))
  THEN ActivateRoster(s, s.pending_roster)
  ELSE s

FinalizeRosterIfReady(s) ==
  IF s.pending_roster # Nil /\ s.roster_accepted = Participants(s.pending_roster)
  THEN ActivateRoster(s, s.pending_roster)
  ELSE s

LocalIsOnlySeat(p, s) == s.membership # Nil /\ Seated(s.membership) = {p}

\* The session after a hand: next hand number, and whether the room closes.
BoundaryAt(s, number, evidence, dealer, closes) ==
  [s EXCEPT !.hand_active = FALSE,
            !.hand_clock_known = TRUE,
            !.previous_receipt = evidence,
            !.previous_dealer = dealer,
            !.next_hand_number = number,
            !.pending_roster = Nil,
            !.active_roster = Nil,
            !.roster_accepted = {},
            !.local_roster_acceptance = Nil,
            !.pending_membership = Nil,
            !.membership_accepted = {},
            !.local_membership_acceptance = Nil,
            !.countdown = "running",
            !.leave_completed = @ \/ closes]

\* Bug variants: the hand number stands still; a leaver closes the room at
\* the end of the hand, before the others have certified it.
FinishHandBoundary_SameNumber(p, s, evidence, dealer) ==
  BoundaryAt(s, s.next_hand_number, evidence, dealer,
             s.local_leave /\ LocalIsOnlySeat(p, s))

FinishHandBoundary_Closes(p, s, evidence, dealer) ==
  BoundaryAt(s, s.next_hand_number + 1, evidence, dealer, s.local_leave)

FinishHandBoundary(p, s, evidence, dealer) ==
  BoundaryAt(s, s.next_hand_number + 1, evidence, dealer,
             s.local_leave /\ LocalIsOnlySeat(p, s))

-----------------------------------------------------------------------------
\* What a session publishes on a tick (publish_active_messages).
LeaveMessage(p, s) == [type |-> "leave", player |-> p, after |-> s.leaves[p]]

Published(p, s) ==
  {[type |-> "join", player |-> p, claim |-> s.joins[p]]}
  \cup {LeaveMessage(p, s) : x \in {TRUE} \cap {s.local_leave}}
  \cup {[type |-> "certified membership", proposal |-> m] : m \in {s.membership} \ {Nil}}
  \cup {[type |-> "certified roster", roster |-> r] : r \in {s.active_roster} \ {Nil}}
  \cup {[type |-> "membership proposal", proposal |-> m] :
          m \in {x \in {s.pending_membership} \ {Nil} : Coordinator(x) = p}}
  \cup {[type |-> "membership acceptance", proposal |-> m, player |-> p] :
          m \in ({s.local_membership_acceptance} \ {Nil})
                  \cap {s.pending_membership, s.membership}}
  \cup {[type |-> "roster proposal", roster |-> r] :
          r \in {x \in {s.pending_roster} \ {Nil} : Coordinator(x.membership) = p}}
  \cup {[type |-> "roster acceptance", roster |-> r, player |-> p] :
          r \in ({s.local_roster_acceptance} \ {Nil})
                  \cap {s.pending_roster, s.active_roster}}

\* process_table_session_events, which ends every handler: a completed leave
\* closes the table; a ready roster starts a hand, unless the player is
\* leaving.  HandRuntime::start gives up the hand it held before it fails
\* because that hand has no receipt.
StartHand(h, roster) ==
  IF h = Nil \/ h.done THEN [roster |-> roster, done |-> FALSE] ELSE Nil

Process(p, s, h) ==
  LET starts == s.ready # Nil /\ ~s.local_leave
  IN  /\ session' = [session EXCEPT ![p] =
           IF s.leave_completed THEN Nil
           ELSE IF starts THEN [s EXCEPT !.ready = Nil] ELSE s]
      /\ hand' = [hand EXCEPT ![p] =
           IF s.leave_completed THEN Nil
           ELSE IF starts THEN StartHand(h, s.ready) ELSE h]
      /\ signed' = signed \cup
           ({p} \X ({s.local_membership_acceptance, s.local_roster_acceptance} \ {Nil}))

\* The calls that end a tick and every handled message, each on the session
\* the one before it left behind.
Converge(p, start, h, publishes) ==
  \E s0 \in {start} :
  \E s1 \in {FinalizeMembershipIfReady(p, s0)} :
  \E s2 \in {MaybeProposeRoster(p, s1)} :
  \E s3 \in {FinalizeRosterIfReady(s2)} :
    /\ Process(p, s3, h)
    /\ messages' = IF publishes THEN messages \cup Published(p, s3) ELSE messages

-----------------------------------------------------------------------------
\* signed_disconnected_leaver: a seated player that signed its leave during
\* this hand and has been disconnected for the grace period.
\* Bug variant: a disconnected player needs no leave intent.
AbandonedBy_Unsigned(p, s) ==
  IF ~s.hand_active \/ s.membership = Nil \/ s.active_roster = Nil THEN {}
  ELSE Seated(s.membership) \cap down[p]

AbandonedBy(p, s) ==
  IF ~s.hand_active \/ s.membership = Nil \/ s.active_roster = Nil THEN {}
  ELSE {q \in Seated(s.membership) \cap down[p] : s.leaves[q] = s.next_hand_number}

Abandoned(p, s) ==
  LET q == Min(AbandonedBy(p, s))
  IN  FinishHandBoundary(p, s,
        [hand |-> s.next_hand_number, by |-> q, version |-> s.active_roster.membership.version],
        s.active_roster.dealer)

\* TableSessionRuntime::tick, with or without a renewal of the join intent.
Tick(p, renews) ==
  /\ session[p] # Nil
  /\ renews => p \in Renewers /\ claims[p] < MaxClaims /\ ~session[p].local_leave
  /\ \E s0 \in {IF renews THEN [session[p] EXCEPT !.joins[p] = claims[p] + 1] ELSE session[p]} :
     \E s1 \in {IF AbandonedBy(p, s0) # {} THEN Abandoned(p, s0) ELSE s0} :
       Converge(p, MaybeProposeMembership(p, s1),
                IF AbandonedBy(p, s0) # {} THEN Nil ELSE hand[p], TRUE)
  /\ claims' = [claims EXCEPT ![p] = IF renews THEN @ + 1 ELSE @]
  /\ UNCHANGED <<down, receipts, forced, drops, hashOrder, setup>>

\* HAND_START_DELAY passes.
CountdownElapses(p) ==
  /\ session[p] # Nil
  /\ session[p].countdown = "running"
  /\ session' = [session EXCEPT ![p].countdown = "over"]
  /\ UNCHANGED <<hand, down, messages, claims, signed, receipts, forced, drops, hashOrder, setup>>

\* TableSessionRuntime::join: sit down with nothing but one's own intent.
Join(p) ==
  /\ p \in Guests
  /\ session[p] = Nil
  /\ claims[p] < MaxClaims
  /\ session' = [session EXCEPT ![p] = NewSession(p, claims[p] + 1)]
  /\ claims' = [claims EXCEPT ![p] = @ + 1]
  /\ UNCHANGED <<hand, down, messages, signed, receipts, forced, drops, hashOrder, setup>>

\* TableSessionRuntime::request_leave.
RequestLeave(p) ==
  /\ p \in Leavers
  /\ session[p] # Nil
  /\ ~session[p].local_leave
  /\ LET s0 == session[p]
         s1 == [s0 EXCEPT !.leaves[p] = IF s0.hand_active THEN s0.next_hand_number ELSE Idle,
                          !.local_leave = TRUE,
                          !.ready = Nil]
         s2 == IF s0.hand_active THEN s1
               ELSE [s1 EXCEPT !.pending_membership = Nil,
                               !.membership_accepted = {},
                               !.local_membership_acceptance = Nil,
                               !.leave_completed = LocalIsOnlySeat(p, s0)]
     IN  /\ Process(p, s2, hand[p])
         /\ messages' = messages \cup {LeaveMessage(p, s2)}
  /\ UNCHANGED <<down, claims, receipts, forced, drops, hashOrder, setup>>

\* TableSessionRuntime::force_local_leave_if_due: one of its timers ran out.
ForceLeave(p) ==
  /\ session[p] # Nil
  /\ session[p].local_leave
  /\ Process(p, [session[p] EXCEPT !.leave_completed = TRUE], hand[p])
  /\ forced' = forced \cup {p}
  /\ UNCHANGED <<down, messages, claims, receipts, drops, hashOrder, setup>>

-----------------------------------------------------------------------------
\* TableSessionRuntime::handle_message.  A message that is stale, out of scope
\* or early is dropped before anything changes.
\* Bug variant: a newcomer only takes a first version.
ValidateMembershipScope_FirstOnly(p, s, proposal) ==
  IF s.membership = Nil THEN proposal.version = 1 /\ Present(proposal, p)
  ELSE proposal.version = s.membership.version + 1 /\ proposal.previous = s.membership

ValidateMembershipScope(p, s, proposal) ==
  IF s.membership = Nil THEN Present(proposal, p)
  ELSE /\ proposal.version = s.membership.version + 1
       /\ proposal.previous = s.membership
       /\ s.hand_active =>
            \A i \in DOMAIN s.membership.seats :
              /\ i \in DOMAIN proposal.seats
              /\ proposal.seats[i].player = s.membership.seats[i].player

\* Bug variants: a player with a fresh clock takes no roster; any hand number
\* will do.
ValidateRosterScope_KnownClock(p, s, roster) ==
  s.membership = roster.membership /\ roster.hand_number = s.next_hand_number /\ s.hand_clock_known

ValidateRosterScope_AnyNumber(p, s, roster) == s.membership = roster.membership

ValidateRosterScope(p, s, roster) ==
  /\ s.membership = roster.membership
  /\ \/ roster.hand_number = s.next_hand_number
     \/ /\ ~s.hand_clock_known
        /\ roster.hand_number > s.next_hand_number
        /\ roster.previous # Nil
        /\ p \in Participants(roster)

\* remember_embedded_joins; of two claims of a player the later one counts.
Remember(s, proposal) ==
  LET known == SeatClaims(proposal) \cup proposal.waiting
  IN  [s EXCEPT
        !.joins  = [q \in Players |-> Max({s.joins[q]} \cup {c.claim : c \in
                                          {d \in known : d.player = q}})],
        !.leaves = [q \in Players |-> IF proposal.leaves[q] = NoLeave
                                      THEN s.leaves[q] ELSE proposal.leaves[q]]]

Receive(p, s) ==
  /\ Converge(p, s, hand[p], FALSE)
  /\ UNCHANGED <<down, claims, receipts, forced, drops, hashOrder, setup>>

ReceiveJoinIntent(p, m) ==
  /\ m.type = "join" /\ m.player # p
  /\ Receive(p, [session[p] EXCEPT !.joins[m.player] = Max({@, m.claim})])

ReceiveLeaveIntent(p, m) ==
  /\ m.type = "leave" /\ m.player # p
  /\ session[p].joins[m.player] > 0
  /\ Receive(p, [session[p] EXCEPT !.leaves[m.player] = m.after])

ReceiveMembershipProposal(p, m) ==
  /\ m.type = "membership proposal" /\ Coordinator(m.proposal) # p
  /\ m.proposal # session[p].membership
  /\ ValidateMembershipScope(p, session[p], m.proposal)
  /\ Receive(p, AcceptMembershipProposal(p, Remember(session[p], m.proposal), m.proposal))

ReceiveMembershipAcceptance(p, m) ==
  /\ m.type = "membership acceptance" /\ m.player # p
  /\ m.proposal # session[p].membership
  /\ m.proposal = session[p].pending_membership
  /\ Receive(p, [session[p] EXCEPT !.membership_accepted = @ \cup {m.player}])

ReceiveCertifiedMembership(p, m) ==
  /\ m.type = "certified membership"
  /\ session[p].membership # Nil => m.proposal.version > session[p].membership.version
  /\ ValidateMembershipScope(p, session[p], m.proposal)
  /\ Receive(p, ActivateMembership(p, Remember(session[p], m.proposal), m.proposal))

ReceiveCertifiedRoster(p, m) ==
  /\ m.type = "certified roster"
  /\ m.roster # session[p].active_roster
  /\ p \in Participants(m.roster)
  /\ ValidateRosterScope(p, session[p], m.roster)
  /\ Receive(p, ActivateRoster(session[p], m.roster))

ReceiveRosterProposal(p, m) ==
  /\ m.type = "roster proposal" /\ Coordinator(m.roster.membership) # p
  /\ m.roster # session[p].active_roster
  /\ ValidateRosterScope(p, session[p], m.roster)
  /\ \E s \in {AcceptRosterProposal(p, session[p], m.roster)} :
       LET adopts == ~s.hand_clock_known /\ m.roster.hand_number > s.next_hand_number
       IN  Receive(p,
             IF p \notin Participants(m.roster) THEN s
             ELSE [s EXCEPT
                    !.next_hand_number = IF adopts THEN m.roster.hand_number ELSE @,
                    !.previous_receipt = IF adopts THEN m.roster.previous ELSE @,
                    !.hand_clock_known = TRUE])

ReceiveRosterAcceptance(p, m) ==
  /\ m.type = "roster acceptance" /\ m.player # p
  /\ m.roster # session[p].active_roster
  /\ m.roster = session[p].pending_roster
  /\ Receive(p, [session[p] EXCEPT !.roster_accepted = @ \cup {m.player}])

HandleMessage(p, m) ==
  /\ session[p] # Nil
  /\ \/ ReceiveJoinIntent(p, m)
     \/ ReceiveLeaveIntent(p, m)
     \/ ReceiveMembershipProposal(p, m)
     \/ ReceiveMembershipAcceptance(p, m)
     \/ ReceiveCertifiedMembership(p, m)
     \/ ReceiveCertifiedRoster(p, m)
     \/ ReceiveRosterProposal(p, m)
     \/ ReceiveRosterAcceptance(p, m)

-----------------------------------------------------------------------------
\* The hand runtime, as far as the table can see it.  A hand is dealt and
\* played only by all its participants together; at its end each signs the
\* receipt, and a player that holds every signature reports the boundary.
SignReceipt(p) ==
  /\ hand[p] # Nil
  /\ ~hand[p].done
  /\ \A q \in Participants(hand[p].roster) :
       \/ hand[q] # Nil /\ hand[q].roster = hand[p].roster
       \/ <<q, hand[p].roster>> \in receipts
  /\ receipts' = receipts \cup {<<p, hand[p].roster>>}
  /\ UNCHANGED <<session, hand, down, messages, claims, signed, forced, drops, hashOrder, setup>>

\* process_hand_events: take_hand_boundary, then on_hand_boundary.
HandBoundary(p) ==
  /\ session[p] # Nil
  /\ hand[p] # Nil
  /\ ~hand[p].done
  /\ \A q \in Participants(hand[p].roster) : <<q, hand[p].roster>> \in receipts
  /\ LET roster == hand[p].roster
         s == session[p]
     IN  Process(p,
           IF ~s.hand_active THEN s
           ELSE FinishHandBoundary(p, s,
                  [hand |-> roster.hand_number, by |-> 0, version |-> roster.membership.version],
                  roster.dealer),
           [hand[p] EXCEPT !.done = TRUE])
  /\ UNCHANGED <<down, messages, claims, receipts, forced, drops, hashOrder, setup>>

\* peer_disconnected and the grace period, and peer_connected.
PeerDown(p, q) ==
  /\ session[p] # Nil
  /\ q # p /\ claims[q] > 0
  /\ q \notin down[p]
  /\ drops < MaxDrops
  /\ down' = [down EXCEPT ![p] = @ \cup {q}]
  /\ drops' = drops + 1
  /\ UNCHANGED <<session, hand, messages, claims, signed, receipts, forced, hashOrder, setup>>

PeerUp(p, q) ==
  /\ q \in down[p]
  /\ session[q] # Nil
  /\ down' = [down EXCEPT ![p] = @ \ {q}]
  /\ UNCHANGED <<session, hand, messages, claims, signed, receipts, forced, drops, hashOrder, setup>>

Next ==
  \E p \in Players :
    \/ \E renews \in BOOLEAN : Tick(p, renews)
    \/ CountdownElapses(p)
    \/ Join(p)
    \/ RequestLeave(p)
    \/ ForceLeave(p)
    \/ \E m \in messages : HandleMessage(p, m)
    \/ SignReceipt(p)
    \/ HandBoundary(p)
    \/ \E q \in Players : PeerDown(p, q) \/ PeerUp(p, q)

Spec == Init /\ [][Next]_vars

\* What the runtime does unasked.
Runs ==
  \E p \in Players :
    \/ Tick(p, FALSE)
    \/ CountdownElapses(p)
    \/ \E m \in messages : HandleMessage(p, m)
    \/ SignReceipt(p)
    \/ HandBoundary(p)

\* The table does not stop while a tick, a timer, a delivery or the hand can
\* still change something: the runtime ticks four times a second, and a
\* message is republished every second until it is acknowledged or obsolete.
\* It is assumed only of tables founded by one player, which the liveness
\* properties are about.
Fairness == WF_vars(Cardinality(Founders) = 1 /\ Runs)

FairSpec == Spec /\ Fairness

-----------------------------------------------------------------------------
Open == {p \in Players : session[p] # Nil}

\* The players that work out a next layout on a tick.
Proposing == {p \in Open : session[p].membership # Nil /\ session[p].pending_membership = Nil}

Certified(m) == \A q \in Seated(m) : <<q, m>> \in signed

Complete(r) == \A q \in Participants(r) : <<q, r>> \in receipts

\* Type invariant.  Beyond types, acceptances are collected only for the
\* proposal that is pending (accept_membership_proposal, accept_roster_proposal
\* and the activations reset them together), a hand is active exactly while
\* there is an active roster, and nobody signs the receipt of a hand whose
\* roster it did not accept.
TypeOK ==
  /\ hashOrder \in BOOLEAN
  /\ drops \in 0 .. MaxDrops
  /\ claims \in [Players -> 0 .. MaxClaims]
  /\ down \in [Players -> SUBSET Players]
  /\ receipts \subseteq signed
  /\ \A p \in Open :
       LET s == session[p]
       IN  /\ s.joins \in [Players -> 0 .. MaxClaims]
           /\ s.leaves \in [Players -> NoLeave .. MaxHands]
           /\ s.next_hand_number \in 1 .. MaxHands + 1
           /\ s.countdown \in {"none", "running", "over"}
           /\ s.previous_dealer \in PhysicalSeats \cup {Nil}
           /\ s.hand_active = (s.active_roster # Nil)
           /\ s.membership_accepted \subseteq
                IF s.pending_membership = Nil THEN {} ELSE Seated(s.pending_membership)
           /\ s.roster_accepted \subseteq
                IF s.pending_roster = Nil THEN {} ELSE Participants(s.pending_roster)

\* Whatever stale joins and leaves a coordinator has heard of, the proposal
\* it would make next passes its own checks: within capacity, nobody in two
\* seats, nobody both seated and waiting.  Otherwise assemble would fail,
\* take the rest of the tick with it, and fail again on every tick.
LayoutIsValid ==
  \A p \in Proposing : LET next == NextProposal(session[p])
                       IN  DOMAIN next.seats # {} => ValidateContents(next)

\* The layout the runtime computes for itself (next_membership_layout) is the
\* one the domain defines: during a hand newcomers only queue, and at a hand
\* boundary the leaving go, the others keep their seats, and those who wait
\* move up in order (queue_joins, reconcile_at_hand_boundary).
LayoutFollowsDomain ==
  \A p \in Proposing :
    LET s      == session[p]
        queued == QueueJoins(AsMembership(s.membership), {ClaimOf(s, q) : q \in Joined(s)})
        domain == IF s.hand_active THEN queued ELSE ReconcileAtHandBoundary(queued, Leaving(s))
        layout == AsMembership(NextProposal(s))
    IN  Validate(queued) =>
          /\ layout.seats = domain.seats
          /\ PlayersOf(layout.waiting) = PlayersOf(domain.waiting)

\* The next layout is one that the checks accept and the domain defines.
LayoutIsSound == LayoutIsValid /\ LayoutFollowsDomain

\* A membership becomes local truth only after every player seated in it
\* signed it (SECURITY.md:75), however the acceptances and certificates of
\* competing proposals are interleaved.
CertifiedByAll ==
  \A p \in Open : session[p].membership \notin {Nil, Founded} => Certified(session[p].membership)

\* A hand runs at a player only if every participant signed the roster it
\* is played with (finalize_roster_if_ready, CertifiedRoster).
HandsAreAgreed ==
  \A p \in Players : hand[p] # Nil =>
    \A q \in Participants(hand[p].roster) : <<q, hand[p].roster>> \in signed

\* Nobody who was at the table once can sit down at it again.
NobodyReturns == Guests \cap (Founders \cup Leavers) = {}

\* A table that nobody returns to settles each hand number once: there are
\* never complete receipts of two different rosters with one number, although
\* a player may start another roster of the same number when the first was
\* given up.  Players who all leave and come back count from one again (join
\* starts a session with next_hand_number 1).
OneHandPerNumber ==
  NobodyReturns => \A x, y \in receipts :
    Complete(x[2]) /\ Complete(y[2]) /\ x[2].hand_number = y[2].hand_number => x[2] = y[2]

\* A hand is abandoned only for a player who signed a leave during that very
\* hand (signed_disconnected_leaver): a mere disconnection, or a leave signed
\* before the hand, never ends it.
AbandonmentIsSigned ==
  \A p \in Open :
    LET e == session[p].previous_receipt
    IN  e # Nil /\ e.by # 0 =>
          [type |-> "leave", player |-> e.by, after |-> e.hand] \in messages

\* No membership, hand or abandonment takes effect without the signatures it
\* needs, in whatever order they arrive.
EverythingIsSigned == CertifiedByAll /\ HandsAreAgreed /\ AbandonmentIsSigned

\* While a hand is active at one player, every participant that signed its
\* roster and has not left the table since is in that hand or one past it:
\* nobody is still behind, and nobody starts two hands ahead
\* (validate_roster_scope, finish_hand_boundary).
HandClocksAgree ==
  \A p, q \in Open :
    /\ session[p].hand_active
    /\ ClaimOf(session[q], q) \in SeatClaims(session[p].active_roster.membership)
    /\ <<q, session[p].active_roster>> \in signed
    => session[q].next_hand_number \in {session[p].next_hand_number, session[p].next_hand_number + 1}

\* The players stay in step: one settled hand per number, nobody far behind.
HandsStayInStep == OneHandPerNumber /\ HandClocksAgree

KeepsSeat(p, m, n) ==
  \A i \in DOMAIN m.seats :
    \/ i \in DOMAIN n.seats /\ n.seats[i].player = m.seats[i].player
    \/ m.seats[i].player \in Leaving(session'[p])

\* Nobody who did not ask to leave loses or changes the physical seat when
\* the membership changes (next_membership_layout), in or between hands,
\* renewed intents included.
SeatsSurvive ==
  [][\A p \in Open : session'[p] # Nil /\ session[p].membership # Nil =>
       KeepsSeat(p, session[p].membership, session'[p].membership)]_vars

\* A room closes for its player only when a leave timer forces it, when the
\* player was alone, or after a membership without the player was signed by
\* everybody seated in it (activate_membership, request_leave,
\* finish_hand_boundary).
LeaveIsCertified ==
  [][\A p \in Open : session'[p] = Nil =>
       \/ p \in forced'
       \/ LocalIsOnlySeat(p, session[p])
       \/ \E x \in signed' : x[1] # p /\ "seats" \in DOMAIN x[2] /\ ~Present(x[2], p)
            /\ \A q \in Seated(x[2]) : <<q, x[2]>> \in signed']_vars

\* Whoever enters a table of one ends up in its certified membership, seated
\* or waiting, whatever the other renews meanwhile.
JoinersAreAdmitted ==
  []<>(Cardinality(Founders) = 1 =>
         \A p \in Open : session[p].membership # Nil /\ Present(session[p].membership, p))

\* A player who joins a table of one is dealt into a hand.  The exception is
\* what the code does: a membership renewed between the two activations of a
\* roster leaves one player in a hand the other no longer accepts
\* (validate_roster_scope compares the membership hash).
JoinersPlay ==
  []<>(Cardinality(Founders) = 1 =>
         \/ \A p \in Open \ Founders : hand[p] # Nil
         \/ \E q \in Players : claims[q] > 1)

\* Whoever joins a table of one is admitted, and dealt in unless an intent is
\* renewed.
JoinersGetToPlay == JoinersAreAdmitted /\ JoinersPlay

-----------------------------------------------------------------------------
\* What the documents and the code's own checks say, and the code does not do.

\* A departing player who is in the active hand takes part in it
\* (HAND-PROTOCOL.md:37).
LeaverPlaysOn ==
  \A p \in Open : session[p].local_leave /\ session[p].hand_active => hand[p] # Nil

\* While the table counts a hand as active, the hand runtime does not lose
\* the unfinished hand (HAND-PROTOCOL.md:49: the next hand starts only after
\* the receipt of the last).
UnfinishedHandIsKept ==
  [][\A p \in Open : hand[p] # Nil /\ ~hand[p].done /\ session'[p] # Nil /\ session'[p].hand_active =>
       hand'[p] # Nil]_vars

\* Two players never hold different memberships of the same version
\* (MATCHMAKING.md:7).
MembershipAgreement ==
  \A p, q \in Open :
    LET m == session[p].membership
        n == session[q].membership
    IN  m # Nil /\ n # Nil /\ m # n => m.version # n.version

=============================================================================
