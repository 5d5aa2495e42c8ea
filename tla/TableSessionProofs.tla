------------------------- MODULE TableSessionProofs -------------------------
(***************************************************************************)
(* Proofs about a table between hands: whatever takes effect was signed,   *)
(* nobody loses a seat without asking to leave, a room closes only for a   *)
(* reason, and the next layout is the one the domain defines.              *)
(*                                                                         *)
(* The inductive invariant IInv follows signatures and intents through     *)
(* sessions, hands and messages.  Sealed says that whatever a session      *)
(* holds is vouched for by the signatures and messages there are; Sound    *)
(* says that it has the right form, that a pending membership succeeds the *)
(* current one, and that the session knows the intents behind both.  Both  *)
(* are stated of messages too, because any message may arrive at any time. *)
(* Each operation of the session is shown to keep the two, then each       *)
(* handler, which is a composition of operations.                          *)
(***************************************************************************)
EXTENDS TableSession, MembershipProofs, TLAPS

\* The fields of an ActiveSession.
IsSession(s) ==
  /\ DOMAIN s = {"joins", "leaves", "membership", "pending_membership", "membership_accepted",
                 "local_membership_acceptance", "pending_roster", "active_roster",
                 "roster_accepted", "local_roster_acceptance", "countdown", "hand_active",
                 "hand_clock_known", "next_hand_number", "previous_receipt", "previous_dealer",
                 "ready", "local_leave", "leave_completed"}
  /\ DOMAIN s.leaves = Players
  /\ s.next_hand_number \in Nat

\* S is a set of signatures, M a set of messages.
Unanimous(members, x, S) == \A q \in members : <<q, x>> \in S

Ratified(m, F, S) == m \in {Nil, F} \/ Unanimous(Seated(m), m, S)

Agreed(r, S) == r = Nil \/ Unanimous(Participants(r), r, S)

Signed(q, n, M) == [type |-> "leave", player |-> q, after |-> n] \in M

LeavesSigned(leaves, M) == \A q \in Players : leaves[q] # NoLeave => Signed(q, leaves[q], M)

EvidenceSigned(e, M) == e # Nil /\ e.by # 0 => Signed(e.by, e.hand, M)

\* What p has collected was signed, by p itself in the step it is taking.
Collected(p, s, S) ==
  /\ s.pending_membership # Nil => \A q \in s.membership_accepted :
       <<q, s.pending_membership>> \in S
         \/ (q = p /\ s.local_membership_acceptance = s.pending_membership)
  /\ s.pending_roster # Nil => \A q \in s.roster_accepted :
       <<q, s.pending_roster>> \in S
         \/ (q = p /\ s.local_roster_acceptance = s.pending_roster)

Heard(s, M) ==
  /\ LeavesSigned(s.leaves, M)
  /\ s.membership # Nil => LeavesSigned(s.membership.leaves, M)
  /\ s.pending_membership # Nil => LeavesSigned(s.pending_membership.leaves, M)
  /\ EvidenceSigned(s.previous_receipt, M)
  /\ s.pending_roster # Nil => /\ EvidenceSigned(s.pending_roster.previous, M)
                               /\ s.pending_roster.hand_number \in Nat

Playable(s, S) == Agreed(s.active_roster, S) /\ Agreed(s.ready, S)

Sealed(p, s, F, S, M) ==
  /\ IsSession(s)
  /\ Collected(p, s, S)
  /\ Ratified(s.membership, F, S)
  /\ Playable(s, S)
  /\ Heard(s, M)

SealedMessage(m, F, S, M) ==
  /\ m.type = "membership proposal" => LeavesSigned(m.proposal.leaves, M)
  /\ m.type = "certified membership" => LeavesSigned(m.proposal.leaves, M) /\ Ratified(m.proposal, F, S)
  /\ m.type = "membership acceptance" => <<m.player, m.proposal>> \in S
  /\ m.type = "certified roster" => Agreed(m.roster, S)
  /\ m.type = "roster proposal" => /\ EvidenceSigned(m.roster.previous, M)
                                   /\ m.roster.hand_number \in Nat
  /\ m.type = "roster acceptance" => <<m.player, m.roster>> \in S
  /\ m.type = "leave" => Signed(m.player, m.after, M)

\* Nil has none of the fields of a session, a membership proposal or a roster.
NilIsNoRecord == DOMAIN Nil \cap {"joins", "seats", "dealer"} = {}

Basis == [founded |-> Founded, claims |-> MaxClaims, hands |-> MaxHands]

IsBasis(B) == B.claims \in Nat \ {0} /\ B.hands \in Nat

ClaimsOf(B) == [player : Players, claim : 1 .. B.claims]

\* Nobody loses a seat of m in n without a leave intent.
Succeeds(n, m) ==
  \A i \in DOMAIN m.seats :
    \/ i \in DOMAIN n.seats /\ n.seats[i].player = m.seats[i].player
    \/ n.leaves[m.seats[i].player] # NoLeave

IsProposal(n, B) ==
  /\ "seats" \in DOMAIN n
  /\ n.version \in Nat
  /\ n.seats \in [DOMAIN n.seats -> ClaimsOf(B)]
  /\ DOMAIN n.seats \in SUBSET PhysicalSeats
  /\ DOMAIN n.seats # {}
  /\ n.waiting \in SUBSET ClaimsOf(B)
  /\ n.leaves \in [Players -> NoLeave .. B.hands]
  /\ \A i, j \in DOMAIN n.seats : n.seats[i].player = n.seats[j].player => i = j
  /\ n.previous # Nil => Succeeds(n, n.previous)

\* A session knows the intents a proposal rests on.
Known(s, n) ==
  /\ \A c \in SeatClaims(n) \cup n.waiting : s.joins[c.player] > 0
  /\ \A q \in Players : n.leaves[q] # NoLeave => s.leaves[q] # NoLeave

Plays(p, r, B) == r # Nil => /\ r.hand_number \in 1 .. B.hands
                             /\ r.dealer \in PhysicalSeats
                             /\ p \in Participants(r)

Counts(p, s, B) ==
  /\ s.joins \in [Players -> 0 .. B.claims]
  /\ s.joins[p] > 0
  /\ s.leaves \in [Players -> NoLeave .. B.hands]
  /\ s.local_leave => s.leaves[p] # NoLeave
  /\ s.next_hand_number \in 1 .. B.hands + 1
  /\ s.hand_active => s.next_hand_number <= B.hands
  /\ s.countdown \in {"none", "running", "over"}
  /\ s.previous_dealer \in PhysicalSeats \cup {Nil}

Memberships(p, s, B) ==
  /\ s.membership # Nil => IsProposal(s.membership, B) /\ Known(s, s.membership)
  /\ s.pending_membership # Nil =>
       /\ IsProposal(s.pending_membership, B) /\ Known(s, s.pending_membership)
       /\ s.membership # Nil => s.pending_membership.previous = s.membership
  /\ s.local_membership_acceptance # Nil => p \in Seated(s.local_membership_acceptance)

Rosters(p, s, B) ==
  /\ Plays(p, s.pending_roster, B) /\ Plays(p, s.active_roster, B) /\ Plays(p, s.ready, B)
  /\ s.pending_roster # Nil => s.next_hand_number <= s.pending_roster.hand_number
  /\ s.local_roster_acceptance # Nil => p \in Participants(s.local_roster_acceptance)

Paired(s) ==
  /\ s.hand_active = (s.active_roster # Nil)
  /\ s.membership_accepted \subseteq
       IF s.pending_membership = Nil THEN {} ELSE Seated(s.pending_membership)
  /\ s.roster_accepted \subseteq
       IF s.pending_roster = Nil THEN {} ELSE Participants(s.pending_roster)

Sound(p, s, B) ==
  /\ IsSession(s)
  /\ Counts(p, s, B)
  /\ Memberships(p, s, B)
  /\ Rosters(p, s, B)
  /\ NilIsNoRecord => Paired(s)

\* What a message carries is a proposal, a roster or an intent of the right form.
SoundMessage(m, B) ==
  /\ m.type = "join" => m.claim \in 1 .. B.claims
  /\ m.type = "leave" => m.after \in 0 .. B.hands
  /\ m.type \in {"membership proposal", "certified membership"} =>
       m.proposal # Nil /\ IsProposal(m.proposal, B)
  /\ m.type = "membership acceptance" => m.proposal # Nil /\ m.player \in Seated(m.proposal)
  /\ m.type \in {"roster proposal", "certified roster"} =>
       /\ m.roster # Nil
       /\ m.roster.hand_number \in 1 .. B.hands
       /\ m.roster.dealer \in PhysicalSeats
  /\ m.type = "roster acceptance" => m.roster # Nil /\ m.player \in Participants(m.roster)

Good(p, s, B, S, M) == Sealed(p, s, B.founded, S, M) /\ Sound(p, s, B)

GoodMessage(m, B, S, M) == SealedMessage(m, B.founded, S, M) /\ SoundMessage(m, B)

\* A hand p is in.
Underway(p, h, S) ==
  h # Nil => /\ Unanimous(Participants(h.roster), h.roster, S)
             /\ p \in Participants(h.roster)
             /\ h.roster.dealer \in PhysicalSeats

\* The inductive invariant.
IInv ==
  /\ setup \in Setups
  /\ claims \in [Players -> 0 .. MaxClaims]
  /\ DOMAIN session = Players /\ DOMAIN hand = Players
  /\ down \in [Players -> SUBSET Players]
  /\ receipts \subseteq signed
  /\ \A p \in Open : /\ Good(p, session[p], Basis, signed, messages)
                     /\ ~session[p].leave_completed
  /\ \A p \in Players : Underway(p, hand[p], signed)
  /\ \A m \in messages : GoodMessage(m, Basis, signed, messages)

-----------------------------------------------------------------------------
\* Signatures and messages only accumulate, so what they vouch for stays
\* vouched for.
LEMMA Grows ==
  ASSUME NEW F, NEW S, NEW T, S \subseteq T, NEW M, NEW N, M \subseteq N, NEW p, NEW s
  PROVE  /\ Sealed(p, s, F, S, M) => Sealed(p, s, F, T, N)
         /\ Agreed(s, S) => Agreed(s, T)
         /\ SealedMessage(s, F, S, M) => SealedMessage(s, F, T, N)
BY Zenon DEF Sealed, Collected, Ratified, Playable, Agreed, Unanimous, Heard, LeavesSigned, EvidenceSigned,
       Signed, SealedMessage

\* The same for the whole invariant of a session, a message or a hand.
LEMMA GrowsGood ==
  ASSUME NEW B, NEW S, NEW T, S \subseteq T, NEW M, NEW N, M \subseteq N, NEW p, NEW s
  PROVE  /\ Good(p, s, B, S, M) => Good(p, s, B, T, N)
         /\ Underway(p, s, S) => Underway(p, s, T)
         /\ GoodMessage(s, B, S, M) => GoodMessage(s, B, T, N)
BY Zenon, Grows DEF Good, GoodMessage, Underway, Unanimous

\* accept_membership_proposal counts nobody's acceptance but the player's
\* own.
LEMMA AcceptMembershipProposalSealed ==
  ASSUME NEW p, NEW s, NEW F, NEW S, NEW M, Sealed(p, s, F, S, M), NEW m, LeavesSigned(m.leaves, M)
  PROVE  Sealed(p, AcceptMembershipProposal(p, s, m), F, S, M)
BY DEF Sealed, IsSession, Collected, Playable, Heard, AcceptMembershipProposal

\* maybe_propose_membership proposes the leaves the session has heard of.
LEMMA MaybeProposeMembershipSealed ==
  ASSUME NEW p, NEW s, NEW F, NEW S, NEW M, Sealed(p, s, F, S, M)
  PROVE  Sealed(p, MaybeProposeMembership(p, s), F, S, M)
<1>1. LeavesSigned(NextProposal(s).leaves, M)
  BY DEF Sealed, Heard, NextProposal
<1> QED
  BY <1>1, AcceptMembershipProposalSealed DEF MaybeProposeMembership

\* activate_membership makes a ratified membership the current one.
LEMMA ActivateMembershipSealed ==
  ASSUME NEW p, NEW s, NEW F, NEW S, NEW M, Sealed(p, s, F, S, M),
         NEW m, Ratified(m, F, S), LeavesSigned(m.leaves, M)
  PROVE  Sealed(p, ActivateMembership(p, s, m), F, S, M)
BY DEF Sealed, IsSession, Collected, Playable, Heard, ActivateMembership

\* accept_roster_proposal counts nobody's acceptance but the player's own.
LEMMA AcceptRosterProposalSealed ==
  ASSUME NEW p, NEW s, NEW F, NEW S, NEW M, Sealed(p, s, F, S, M),
         NEW r, EvidenceSigned(r.previous, M), r.hand_number \in Nat
  PROVE  Sealed(p, AcceptRosterProposal(p, s, r), F, S, M)
BY DEF Sealed, IsSession, Collected, Playable, Heard, AcceptRosterProposal

\* activate_roster starts a hand with an agreed roster.
LEMMA ActivateRosterSealed ==
  ASSUME NEW p, NEW s, NEW F, NEW S, NEW M, Sealed(p, s, F, S, M), NEW r, Agreed(r, S)
  PROVE  Sealed(p, ActivateRoster(s, r), F, S, M)
BY DEF Sealed, IsSession, Collected, Playable, Heard, ActivateRoster

\* The leaves embedded in a proposal were signed (remember_embedded_joins).
LEMMA RememberSealed ==
  ASSUME NEW p, NEW s, NEW F, NEW S, NEW M, Sealed(p, s, F, S, M), NEW m, LeavesSigned(m.leaves, M)
  PROVE  Sealed(p, Remember(s, m), F, S, M)
<1> DEFINE known == SeatClaims(m) \cup m.waiting
           joins == [q \in Players |-> Max({s.joins[q]} \cup {c.claim : c \in
                                          {d \in known : d.player = q}})]
           leaves == [q \in Players |-> IF m.leaves[q] = NoLeave
                                        THEN s.leaves[q] ELSE m.leaves[q]]
<1>1. LeavesSigned(leaves, M)
  BY DEF Sealed, Heard, LeavesSigned
<1>2. Remember(s, m) = [s EXCEPT !.joins = joins, !.leaves = leaves]
  BY DEF Remember
<1> HIDE DEF joins
<1>3. DOMAIN leaves = Players
  OBVIOUS
<1> HIDE DEF leaves
<1> QED
  BY <1>1, <1>2, <1>3 DEF Sealed, IsSession, Collected, Playable, Heard

\* finish_hand_boundary keeps nothing pending, and evidence that was signed.
LEMMA FinishHandBoundarySealed ==
  ASSUME NEW p, NEW s, NEW F, NEW S, NEW M, Sealed(p, s, F, S, M), NEW e, EvidenceSigned(e, M), NEW d
  PROVE  Sealed(p, FinishHandBoundary(p, s, e, d), F, S, M)
<1> DEFINE t == FinishHandBoundary(p, s, e, d)
<1>1. DOMAIN t = DOMAIN s
  BY Zenon DEF FinishHandBoundary, BoundaryAt
<1>2. t.leaves = s.leaves /\ t.membership = s.membership /\ t.ready = s.ready
  BY Zenon DEF Sealed, IsSession, FinishHandBoundary, BoundaryAt
<1>3. t.next_hand_number = s.next_hand_number + 1 /\ t.previous_receipt = e
  BY Zenon DEF Sealed, IsSession, FinishHandBoundary, BoundaryAt
<1>4. t.pending_membership = Nil /\ t.pending_roster = Nil /\ t.active_roster = Nil
  BY Zenon DEF Sealed, IsSession, FinishHandBoundary, BoundaryAt
<1> SUFFICES Sealed(p, t, F, S, M)
  OBVIOUS
<1> HIDE DEF t
<1> QED
  BY <1>1, <1>2, <1>3, <1>4 DEF Sealed, IsSession, Collected, Playable, Agreed, Heard

\* finalize_membership_if_ready activates a membership only with all its
\* signatures.
LEMMA FinalizeMembershipIfReadySealed ==
  ASSUME NEW p, NEW s, NEW F, NEW S, NEW M, Sealed(p, s, F, S, M),
         s.local_membership_acceptance # Nil => <<p, s.local_membership_acceptance>> \in S
  PROVE  LET t == FinalizeMembershipIfReady(p, s)
         IN  /\ Sealed(p, t, F, S, M)
             /\ t.local_membership_acceptance = s.local_membership_acceptance
<1>1. CASE s.pending_membership # Nil /\ s.membership_accepted = Seated(s.pending_membership)
  <2>1. Ratified(s.pending_membership, F, S) /\ LeavesSigned(s.pending_membership.leaves, M)
    BY <1>1 DEF Sealed, Collected, Heard, Ratified, Unanimous
  <2>2. Sealed(p, ActivateMembership(p, s, s.pending_membership), F, S, M)
    BY <2>1, ActivateMembershipSealed
  <2>3. ActivateMembership(p, s, s.pending_membership).local_membership_acceptance
          = s.local_membership_acceptance
    BY DEF Sealed, IsSession, ActivateMembership
  <2> QED
    BY <1>1, <2>2, <2>3 DEF FinalizeMembershipIfReady
<1> QED
  BY <1>1 DEF FinalizeMembershipIfReady

\* maybe_propose_roster proposes on evidence that was signed.
LEMMA MaybeProposeRosterSealed ==
  ASSUME NEW p, NEW s, NEW F, NEW S, NEW M, Sealed(p, s, F, S, M)
  PROVE  LET t == MaybeProposeRoster(p, s)
         IN  /\ Sealed(p, t, F, S, M)
             /\ t.local_membership_acceptance = s.local_membership_acceptance
<1> DEFINE r == FromMembership(s.membership, s.next_hand_number, s.previous_receipt, s.previous_dealer)
<1>1. EvidenceSigned(r.previous, M) /\ r.hand_number \in Nat
  BY DEF Sealed, Heard, IsSession, FromMembership
<1> HIDE DEF r
<1>2. /\ Sealed(p, AcceptRosterProposal(p, s, r), F, S, M)
      /\ AcceptRosterProposal(p, s, r).local_membership_acceptance = s.local_membership_acceptance
  BY Zenon, <1>1, AcceptRosterProposalSealed DEF AcceptRosterProposal, Sealed, IsSession
<1>3. ASSUME NEW c
      PROVE  /\ Sealed(p, [s EXCEPT !.countdown = c], F, S, M)
             /\ [s EXCEPT !.countdown = c].local_membership_acceptance = s.local_membership_acceptance
  BY DEF Sealed, IsSession, Collected, Playable, Heard
<1> QED
  BY <1>2, <1>3 DEF MaybeProposeRoster, r

\* finalize_roster_if_ready activates a roster only with all its signatures.
LEMMA FinalizeRosterIfReadySealed ==
  ASSUME NEW p, NEW s, NEW F, NEW S, NEW M, Sealed(p, s, F, S, M),
         s.local_roster_acceptance # Nil => <<p, s.local_roster_acceptance>> \in S
  PROVE  LET t == FinalizeRosterIfReady(s)
         IN  /\ Sealed(p, t, F, S, M)
             /\ t.local_membership_acceptance = s.local_membership_acceptance
             /\ t.local_roster_acceptance = s.local_roster_acceptance
<1>1. CASE s.pending_roster # Nil /\ s.roster_accepted = Participants(s.pending_roster)
  <2>1. Agreed(s.pending_roster, S)
    BY <1>1 DEF Sealed, Collected, Agreed, Unanimous
  <2>2. Sealed(p, ActivateRoster(s, s.pending_roster), F, S, M)
    BY <2>1, ActivateRosterSealed
  <2>3. /\ ActivateRoster(s, s.pending_roster).local_membership_acceptance
             = s.local_membership_acceptance
        /\ ActivateRoster(s, s.pending_roster).local_roster_acceptance = s.local_roster_acceptance
    BY DEF Sealed, IsSession, ActivateRoster
  <2> QED
    BY <1>1, <2>2, <2>3 DEF FinalizeRosterIfReady
<1> QED
  BY <1>1 DEF FinalizeRosterIfReady

Own(p, s) == {p} \X ({s.local_membership_acceptance, s.local_roster_acceptance} \ {Nil})

\* What publish_active_messages publishes, message by message.
LEMMA PublishedIs ==
  ASSUME NEW p, NEW s, NEW m \in Published(p, s)
  PROVE  \/ m = [type |-> "join", player |-> p, claim |-> s.joins[p]]
         \/ s.local_leave /\ m = LeaveMessage(p, s)
         \/ /\ s.membership # Nil
            /\ m = [type |-> "certified membership", proposal |-> s.membership]
         \/ /\ s.active_roster # Nil
            /\ m = [type |-> "certified roster", roster |-> s.active_roster]
         \/ /\ s.pending_membership # Nil
            /\ m = [type |-> "membership proposal", proposal |-> s.pending_membership]
         \/ /\ s.local_membership_acceptance # Nil
            /\ m = [type |-> "membership acceptance",
                    proposal |-> s.local_membership_acceptance, player |-> p]
         \/ /\ s.pending_roster # Nil
            /\ m = [type |-> "roster proposal", roster |-> s.pending_roster]
         \/ /\ s.local_roster_acceptance # Nil
            /\ m = [type |-> "roster acceptance", roster |-> s.local_roster_acceptance, player |-> p]
BY Zenon DEF Published

\* Whatever a sealed session publishes is vouched for.
LEMMA PublishedSealed ==
  ASSUME NEW p, NEW s, NEW F, NEW S, NEW M, Sealed(p, s, F, S, M), Own(p, s) \subseteq S, NEW m \in Published(p, s)
  PROVE  SealedMessage(m, F, S, M \cup {m})
<1>1. CASE m = [type |-> "join", player |-> p, claim |-> s.joins[p]]
  BY <1>1 DEF SealedMessage
<1>2. CASE s.local_leave /\ m = LeaveMessage(p, s)
  BY <1>2 DEF SealedMessage, LeaveMessage, Signed
<1>3. CASE s.membership # Nil /\ m = [type |-> "certified membership", proposal |-> s.membership]
  BY Zenon, <1>3 DEF SealedMessage, Sealed, Heard, LeavesSigned, Signed
<1>4. CASE s.active_roster # Nil /\ m = [type |-> "certified roster", roster |-> s.active_roster]
  BY Zenon, <1>4 DEF SealedMessage, Sealed, Playable
<1>5. CASE /\ s.pending_membership # Nil
           /\ m = [type |-> "membership proposal", proposal |-> s.pending_membership]
  BY Zenon, <1>5 DEF SealedMessage, Sealed, Heard, LeavesSigned, Signed
<1>6. CASE /\ s.local_membership_acceptance # Nil
           /\ m = [type |-> "membership acceptance",
                   proposal |-> s.local_membership_acceptance, player |-> p]
  BY Zenon, <1>6 DEF SealedMessage, Own
<1>7. CASE s.pending_roster # Nil /\ m = [type |-> "roster proposal", roster |-> s.pending_roster]
  BY Zenon, <1>7 DEF SealedMessage, Sealed, Heard, EvidenceSigned, Signed
<1>8. CASE /\ s.local_roster_acceptance # Nil
           /\ m = [type |-> "roster acceptance", roster |-> s.local_roster_acceptance, player |-> p]
  BY Zenon, <1>8 DEF SealedMessage, Own
<1> QED
  BY <1>1, <1>2, <1>3, <1>4, <1>5, <1>6, <1>7, <1>8, PublishedIs, Zenon
-----------------------------------------------------------------------------
\* The seats of the next layout: the kept ones with their players, and for
\* every other seat the admitted player it was assigned to
\* (next_membership_layout).
LEMMA NextSeatsAre ==
  ASSUME NEW s, s.membership # Nil, DOMAIN s.membership.seats \in SUBSET PhysicalSeats
  PROVE  LET free == PhysicalSeats \ Kept(s)
         IN  /\ Kept(s) \subseteq DOMAIN NextSeats(s)
             /\ DOMAIN NextSeats(s) \subseteq PhysicalSeats
             /\ \A i \in Kept(s) : NextSeats(s)[i] = ClaimOf(s, s.membership.seats[i].player)
             /\ \A i \in DOMAIN NextSeats(s) \ Kept(s) :
                  \E q \in Admitted(s) : /\ i = Nth(free, Place(Admitted(s), q))
                                         /\ NextSeats(s)[i] = ClaimOf(s, q)
<1> DEFINE free  == PhysicalSeats \ Kept(s)
           added == Admitted(s)
           taken == {Nth(free, Place(added, q)) : q \in added}
<1>1. free \in SUBSET Nat /\ IsFiniteSet(free)
  <2>1. IsFiniteSet(PhysicalSeats) /\ PhysicalSeats \in SUBSET Nat
    BY TableAssumption, FS_Interval DEF PhysicalSeats
  <2> QED
    BY Zenon, <2>1, FS_Subset
<1>2. Candidates(s) \in SUBSET Nat /\ IsFiniteSet(Candidates(s)) /\ Candidates(s) \in SUBSET Players
  <2>1. Candidates(s) \in SUBSET Players
    BY DEF Candidates, Joined
  <2> QED
    BY Zenon, <2>1, TableAssumption, FS_Subset
<1>3. Cardinality(free) \in Nat
  BY <1>1, FS_CardinalityType
<1>4. added \in SUBSET Nat /\ IsFiniteSet(added) /\ Cardinality(added) <= Cardinality(free)
  <2>1. CASE s.hand_active
    <3>1. added = {}
      BY <2>1 DEF Admitted
    <3> QED
      BY <1>3, <3>1, FS_EmptySet
  <2>2. CASE ~s.hand_active
    <3>1. added = {q \in Candidates(s) : Place(Candidates(s), q) <= Cardinality(free)}
      BY <2>2 DEF Admitted
    <3> HIDE DEF added, free
    <3> QED
      BY <1>2, <1>3, <3>1, FirstMembers
  <2> QED
    BY <2>1, <2>2
<1>5. \A q \in added : LET i == Nth(free, Place(added, q))
                       IN  i \in free /\ Nth(added, Place(free, i)) = q
  <2> HIDE DEF added, free
  <2> QED
    BY <1>1, <1>4, Matching
<1>6. NextSeats(s) = [i \in Kept(s) \cup taken |->
                        IF i \in Kept(s) THEN ClaimOf(s, s.membership.seats[i].player)
                                         ELSE ClaimOf(s, Nth(added, Place(free, i)))]
  BY DEF NextSeats
<1>7. Kept(s) \subseteq PhysicalSeats
  BY DEF Kept
<1>8. taken \subseteq PhysicalSeats
  BY <1>5
<1>9. DOMAIN NextSeats(s) = Kept(s) \cup taken
  BY <1>6
<1>10. \A i \in Kept(s) : NextSeats(s)[i] = ClaimOf(s, s.membership.seats[i].player)
  BY <1>6
<1>11. ASSUME NEW i \in DOMAIN NextSeats(s) \ Kept(s)
       PROVE  \E q \in added : i = Nth(free, Place(added, q)) /\ NextSeats(s)[i] = ClaimOf(s, q)
  <2>1. PICK q \in added : i = Nth(free, Place(added, q))
    BY <1>9, <1>11
  <2>2. NextSeats(s)[i] = ClaimOf(s, Nth(added, Place(free, i)))
    BY Zenon, <1>6, <1>9, <1>11
  <2> QED
    BY <1>5, <2>1, <2>2
<1> QED
  BY Zenon, <1>7, <1>8, <1>9, <1>10, <1>11

\* The layout next_membership_layout computes gives everybody one seat, and
\* takes a seat from nobody who stays.
LEMMA NextProposalIs ==
  ASSUME NEW p, NEW s, NEW B, IsBasis(B), Sound(p, s, B), s.membership # Nil,
         DOMAIN NextProposal(s).seats # {}
  PROVE  IsProposal(NextProposal(s), B) /\ Known(s, NextProposal(s))
<1> DEFINE n == NextProposal(s)
           m == s.membership
           free == PhysicalSeats \ Kept(s)
<1>1. /\ n.version = m.version + 1 /\ n.previous = m
      /\ n.seats = NextSeats(s) /\ n.waiting = NextWaiting(s) /\ n.leaves = s.leaves
      /\ "seats" \in DOMAIN n
  BY DEF NextProposal
<1>2. IsProposal(m, B) /\ Known(s, m)
  BY DEF Sound, Memberships
<1>3. /\ DOMAIN m.seats \in SUBSET PhysicalSeats
      /\ \A i \in DOMAIN m.seats : m.seats[i].player \in Players
      /\ \A i, j \in DOMAIN m.seats : m.seats[i].player = m.seats[j].player => i = j
      /\ m.version \in Nat
  BY <1>2 DEF IsProposal, ClaimsOf
<1>4. /\ Kept(s) \subseteq DOMAIN NextSeats(s)
      /\ DOMAIN NextSeats(s) \subseteq PhysicalSeats
      /\ \A i \in Kept(s) : NextSeats(s)[i] = ClaimOf(s, m.seats[i].player)
      /\ \A i \in DOMAIN NextSeats(s) \ Kept(s) :
           \E q \in Admitted(s) : /\ i = Nth(free, Place(Admitted(s), q))
                                  /\ NextSeats(s)[i] = ClaimOf(s, q)
  BY Zenon, <1>3, NextSeatsAre
<1>5. /\ Kept(s) \subseteq DOMAIN m.seats
      /\ \A i \in Kept(s) : m.seats[i].player \in Joined(s)
      /\ Admitted(s) \subseteq Candidates(s)
      /\ Candidates(s) \subseteq Joined(s)
      /\ \A i \in Kept(s) : m.seats[i].player \notin Candidates(s)
  BY DEF Kept, Admitted, Candidates
<1>6. \A q \in Joined(s) : ClaimOf(s, q) \in ClaimsOf(B) /\ ClaimOf(s, q).player = q /\ s.joins[q] > 0
  <2>1. \A q \in Joined(s) : q \in Players /\ s.joins[q] \in 0 .. B.claims /\ s.joins[q] > 0
    BY DEF Joined, Sound, Counts
  <2>2. \A q \in Joined(s) : s.joins[q] \in 1 .. B.claims
    BY <2>1 DEF IsBasis
  <2> QED
    BY <2>1, <2>2 DEF ClaimOf, ClaimsOf
<1>7. \A i \in DOMAIN NextSeats(s) : \E q \in Joined(s) : NextSeats(s)[i] = ClaimOf(s, q)
  BY <1>4, <1>5
<1>8. NextSeats(s) \in [DOMAIN NextSeats(s) -> ClaimsOf(B)]
  <2>1. NextSeats(s) = [i \in DOMAIN NextSeats(s) |-> NextSeats(s)[i]]
    BY DEF NextSeats
  <2> QED
    BY <1>6, <1>7, <2>1
<1>9. \A c \in NextWaiting(s) : \E q \in Joined(s) : c = ClaimOf(s, q)
  BY <1>5 DEF NextWaiting
<1>10. ASSUME NEW i \in DOMAIN NextSeats(s), NEW j \in DOMAIN NextSeats(s),
              NextSeats(s)[i].player = NextSeats(s)[j].player
       PROVE  i = j
  <2>1. CASE i \in Kept(s) /\ j \in Kept(s)
    <3>1. m.seats[i].player = m.seats[j].player
      BY <1>4, <1>5, <1>6, <1>10, <2>1
    <3> QED
      BY <1>3, <1>5, <2>1, <3>1
  <2>2. CASE i \in Kept(s) /\ j \notin Kept(s)
    BY <1>4, <1>5, <1>6, <1>10, <2>2
  <2>3. CASE i \notin Kept(s) /\ j \in Kept(s)
    BY <1>4, <1>5, <1>6, <1>10, <2>3
  <2>4. CASE i \notin Kept(s) /\ j \notin Kept(s)
    <3>1. PICK q \in Admitted(s) : i = Nth(free, Place(Admitted(s), q)) /\ NextSeats(s)[i] = ClaimOf(s, q)
      BY <1>4, <2>4
    <3>2. PICK r \in Admitted(s) : j = Nth(free, Place(Admitted(s), r)) /\ NextSeats(s)[j] = ClaimOf(s, r)
      BY <1>4, <2>4
    <3>3. q = r
      BY <1>5, <1>6, <1>10, <3>1, <3>2
    <3> QED
      BY <3>1, <3>2, <3>3
  <2> QED
    BY <2>1, <2>2, <2>3, <2>4
<1>11. Succeeds(n, m)
  <2> SUFFICES ASSUME NEW i \in DOMAIN m.seats, i \notin Kept(s)
               PROVE  s.leaves[m.seats[i].player] # NoLeave
    BY <1>1, <1>4, <1>5, <1>6 DEF Succeeds
  <2>1. m.seats[i] \in SeatClaims(m)
    BY DEF SeatClaims
  <2>2. m.seats[i].player \in Joined(s)
    BY <1>2, <1>3, <2>1 DEF Known, Joined
  <2> QED
    BY <1>3, <2>2 DEF Kept, Leaving
<1>12. s.leaves \in [Players -> NoLeave .. B.hands]
  BY DEF Sound, Counts
<1>13. IsProposal(n, B)
  <2>1. n.version \in Nat
    BY <1>1, <1>3
  <2>2. n.waiting \in SUBSET ClaimsOf(B)
    BY <1>1, <1>6, <1>9
  <2> HIDE DEF n
  <2> QED
    BY <1>1, <1>4, <1>8, <1>10, <1>11, <1>12, <2>1, <2>2 DEF IsProposal, n
<1>14. Known(s, n)
  <2>1. \A c \in SeatClaims(n) \cup n.waiting : \E q \in Joined(s) : c = ClaimOf(s, q)
    BY <1>1, <1>7, <1>9 DEF SeatClaims
  <2> HIDE DEF n
  <2> QED
    BY <1>1, <1>6, <2>1 DEF Known
<1> QED
  BY <1>13, <1>14

-----------------------------------------------------------------------------
\* accept_membership_proposal keeps the form of a session.
LEMMA AcceptMembershipProposalSound ==
  ASSUME NEW p, NEW s, NEW B, Sound(p, s, B), NEW m, IsProposal(m, B), Known(s, m),
         s.membership # Nil => m.previous = s.membership,
         NilIsNoRecord => m # Nil
  PROVE  Sound(p, AcceptMembershipProposal(p, s, m), B)
<1> DEFINE t == [s EXCEPT !.pending_membership = m,
                          !.membership_accepted = IF p \in Seated(m) THEN {p} ELSE {},
                          !.local_membership_acceptance = IF p \in Seated(m) THEN m ELSE Nil]
<1>1. AcceptMembershipProposal(p, s, m) \in {s, t}
  BY DEF AcceptMembershipProposal
<1>2. IsSession(t) /\ Counts(p, t, B)
  BY DEF Sound, IsSession, Counts
<1>3. Memberships(p, t, B)
  BY DEF Sound, IsSession, Memberships, Known
<1>4. Rosters(p, t, B)
  BY DEF Sound, IsSession, Rosters
<1>5. NilIsNoRecord => Paired(t)
  BY DEF Sound, IsSession, Paired
<1> HIDE DEF t
<1> QED
  BY <1>1, <1>2, <1>3, <1>4, <1>5 DEF Sound

\* maybe_propose_membership keeps the form of a session.
LEMMA MaybeProposeMembershipSound ==
  ASSUME NEW p, NEW s, NEW B, IsBasis(B), Sound(p, s, B)
  PROVE  Sound(p, MaybeProposeMembership(p, s), B)
<1> SUFFICES ASSUME s.membership # Nil, DOMAIN NextProposal(s).seats # {}
             PROVE  Sound(p, AcceptMembershipProposal(p, s, NextProposal(s)), B)
  BY DEF MaybeProposeMembership
<1>1. IsProposal(NextProposal(s), B) /\ Known(s, NextProposal(s))
  BY NextProposalIs
<1>2. NextProposal(s).previous = s.membership
  BY DEF NextProposal
<1>3. NilIsNoRecord => NextProposal(s) # Nil
  BY DEF NilIsNoRecord, NextProposal
<1> QED
  BY <1>1, <1>2, <1>3, AcceptMembershipProposalSound

\* activate_membership keeps the form of a session.
LEMMA ActivateMembershipSound ==
  ASSUME NEW p, NEW s, NEW B, Sound(p, s, B), NEW m, IsProposal(m, B), Known(s, m)
  PROVE  Sound(p, ActivateMembership(p, s, m), B)
<1> DEFINE t == ActivateMembership(p, s, m)
<1>1. IsSession(t) /\ Counts(p, t, B)
  BY DEF Sound, IsSession, Counts, ActivateMembership
<1>2. Memberships(p, t, B)
  BY DEF Sound, IsSession, Memberships, Known, ActivateMembership
<1>3. Rosters(p, t, B)
  BY DEF Sound, IsSession, Rosters, Plays, ActivateMembership
<1>4. NilIsNoRecord => Paired(t)
  BY DEF Sound, IsSession, Paired, ActivateMembership
<1> QED
  BY <1>1, <1>2, <1>3, <1>4 DEF Sound

\* accept_roster_proposal keeps the form of a session.
LEMMA AcceptRosterProposalSound ==
  ASSUME NEW p, NEW s, NEW B, Sound(p, s, B), NEW r, r.hand_number \in 1 .. B.hands,
         r.dealer \in PhysicalSeats, s.next_hand_number <= r.hand_number,
         NilIsNoRecord => r # Nil
  PROVE  Sound(p, AcceptRosterProposal(p, s, r), B)
<1> DEFINE t == [s EXCEPT !.pending_roster = r, !.roster_accepted = {p}, !.local_roster_acceptance = r]
<1>1. \/ AcceptRosterProposal(p, s, r) = s
      \/ AcceptRosterProposal(p, s, r) = t /\ p \in Participants(r)
  BY DEF AcceptRosterProposal
<1> SUFFICES ASSUME p \in Participants(r) PROVE Sound(p, t, B)
  BY <1>1
<1>2. IsSession(t) /\ Counts(p, t, B)
  BY DEF Sound, IsSession, Counts
<1>3. Memberships(p, t, B)
  BY DEF Sound, IsSession, Memberships, Known
<1>4. Rosters(p, t, B)
  BY DEF Sound, IsSession, Rosters, Plays
<1>5. NilIsNoRecord => Paired(t)
  BY DEF Sound, IsSession, Paired
<1> QED
  BY <1>2, <1>3, <1>4, <1>5 DEF Sound

\* activate_roster keeps the form of a session.
LEMMA ActivateRosterSound ==
  ASSUME NEW p, NEW s, NEW B, Sound(p, s, B), NEW r, Plays(p, r, B), s.next_hand_number <= B.hands,
         NilIsNoRecord => r # Nil
  PROVE  Sound(p, ActivateRoster(s, r), B)
<1> DEFINE t == ActivateRoster(s, r)
<1>1. IsSession(t) /\ Counts(p, t, B)
  BY DEF Sound, IsSession, Counts, ActivateRoster
<1>2. Memberships(p, t, B)
  BY DEF Sound, IsSession, Memberships, Known, ActivateRoster
<1>3. Rosters(p, t, B)
  BY DEF Sound, IsSession, Rosters, Plays, ActivateRoster
<1>4. NilIsNoRecord => Paired(t)
  BY Zenon DEF Sound, IsSession, Paired, ActivateRoster
<1> QED
  BY <1>1, <1>2, <1>3, <1>4 DEF Sound

\* remember_embedded_joins keeps the form of a session, which then knows
\* every intent of the proposal.
LEMMA RememberSound ==
  ASSUME NEW p \in Players, NEW s, NEW B, IsBasis(B), Sound(p, s, B), NEW m, IsProposal(m, B)
  PROVE  Sound(p, Remember(s, m), B) /\ Known(Remember(s, m), m)
<1> DEFINE known == SeatClaims(m) \cup m.waiting
           T(q) == {s.joins[q]} \cup {c.claim : c \in {d \in known : d.player = q}}
           joins == [q \in Players |-> Max(T(q))]
           leaves == [q \in Players |-> IF m.leaves[q] = NoLeave
                                        THEN s.leaves[q] ELSE m.leaves[q]]
           t == [s EXCEPT !.joins = joins, !.leaves = leaves]
<1>1. Remember(s, m) = t
  BY DEF Remember
<1>2. \A c \in known : c.player \in Players /\ c.claim \in 1 .. B.claims
  BY DEF IsProposal, SeatClaims, ClaimsOf
<1>3. \A q \in Players : s.joins[q] \in 0 .. B.claims
  BY DEF Sound, Counts
<1>4. ASSUME NEW q \in Players
      PROVE  /\ joins[q] \in 0 .. B.claims
             /\ joins[q] >= s.joins[q]
             /\ \A c \in known : c.player = q => joins[q] >= c.claim
  <2>1. T(q) \in SUBSET (0 .. B.claims) /\ T(q) # {}
    BY <1>2, <1>3
  <2>2. joins[q] = Max(T(q))
    OBVIOUS
  <2>3. s.joins[q] \in T(q) /\ \A c \in known : c.player = q => c.claim \in T(q)
    OBVIOUS
  <2> HIDE DEF T, joins
  <2>4. Max(T(q)) \in T(q) /\ \A y \in T(q) : Max(T(q)) >= y
    <3>1. PICK x \in T(q) : \A y \in T(q) : y <= x
      BY Zenon, <2>1, GreatestNumber DEF IsBasis
    <3>2. \A y \in T(q) : x >= y
      BY <2>1, <3>1 DEF IsBasis
    <3> QED
      BY <3>2 DEF Max
  <2> QED
    BY <2>1, <2>2, <2>3, <2>4
<1>5. joins \in [Players -> 0 .. B.claims]
  BY <1>4
<1>6. \A q \in Players : s.joins[q] > 0 => joins[q] > 0
  BY <1>3, <1>4 DEF IsBasis
<1>7. \A c \in known : joins[c.player] > 0
  BY <1>2, <1>4 DEF IsBasis
<1>8. leaves \in [Players -> NoLeave .. B.hands]
  BY DEF Sound, Counts, IsProposal
<1>9. \A q \in Players : (m.leaves[q] # NoLeave \/ s.leaves[q] # NoLeave) => leaves[q] # NoLeave
  OBVIOUS
<1> HIDE DEF joins, leaves, known
<1>10. t.joins = joins /\ t.leaves = leaves
  BY DEF Sound, IsSession
<1>11. Known(t, m)
  BY <1>7, <1>9, <1>10 DEF Known, known
<1>12. \A n : IsProposal(n, B) /\ Known(s, n) => Known(t, n)
  <2> SUFFICES ASSUME NEW n, IsProposal(n, B), Known(s, n) PROVE Known(t, n)
    OBVIOUS
  <2>1. \A c \in SeatClaims(n) \cup n.waiting : c.player \in Players
    BY DEF IsProposal, SeatClaims, ClaimsOf
  <2> QED
    BY <1>6, <1>9, <1>10, <2>1 DEF Known
<1>13. IsSession(t) /\ Counts(p, t, B)
  BY <1>5, <1>6, <1>8, <1>9, <1>10 DEF Sound, IsSession, Counts
<1>14. Memberships(p, t, B)
  BY <1>12 DEF Sound, IsSession, Memberships
<1>15. Rosters(p, t, B)
  BY DEF Sound, IsSession, Rosters
<1>16. NilIsNoRecord => Paired(t)
  BY DEF Sound, IsSession, Paired
<1> QED
  BY <1>1, <1>11, <1>13, <1>14, <1>15, <1>16 DEF Sound

\* finish_hand_boundary keeps the form of a session; the hand number stays
\* within its bound because a hand was active.
LEMMA FinishHandBoundarySound ==
  ASSUME NEW p, NEW s, NEW B, IsBasis(B), Sound(p, s, B), s.hand_active, NEW e, NEW d \in PhysicalSeats
  PROVE  Sound(p, FinishHandBoundary(p, s, e, d), B)
<1> DEFINE t == FinishHandBoundary(p, s, e, d)
<1> SUFFICES Sound(p, t, B)
  OBVIOUS
<1> USE DEF Sound, IsSession, FinishHandBoundary, BoundaryAt
<1>1. DOMAIN t = DOMAIN s
  BY Zenon
<1>2. t.joins = s.joins /\ t.leaves = s.leaves /\ t.membership = s.membership /\ t.ready = s.ready
  BY Zenon
<1>3. t.local_leave = s.local_leave /\ t.next_hand_number = s.next_hand_number + 1
  BY Zenon
<1>4. t.countdown = "running" /\ t.previous_dealer = d /\ t.hand_active = FALSE
  BY Zenon
<1>5. t.pending_membership = Nil /\ t.membership_accepted = {} /\ t.local_membership_acceptance = Nil
  BY Zenon
<1>6. t.pending_roster = Nil /\ t.active_roster = Nil
  BY Zenon
<1>7. t.roster_accepted = {} /\ t.local_roster_acceptance = Nil
  BY Zenon
<1> USE DEF Sound, IsSession
<1> HIDE DEF t, FinishHandBoundary, BoundaryAt
<1>8. IsSession(t) /\ Counts(p, t, B)
  BY <1>1, <1>2, <1>3, <1>4 DEF Counts, IsBasis
<1>9. Memberships(p, t, B)
  BY <1>2, <1>5 DEF Memberships, Known
<1>10. Rosters(p, t, B)
  BY <1>2, <1>6, <1>7 DEF Rosters, Plays
<1>11. Paired(t)
  BY Zenon, <1>4, <1>5, <1>6, <1>7 DEF Paired
<1> QED
  BY <1>8, <1>9, <1>10, <1>11

\* finalize_membership_if_ready keeps the form of a session.
LEMMA FinalizeMembershipIfReadySound ==
  ASSUME NEW p, NEW s, NEW B, Sound(p, s, B)
  PROVE  Sound(p, FinalizeMembershipIfReady(p, s), B)
<1> SUFFICES ASSUME s.pending_membership # Nil
             PROVE  Sound(p, ActivateMembership(p, s, s.pending_membership), B)
  BY DEF FinalizeMembershipIfReady
<1>1. IsProposal(s.pending_membership, B) /\ Known(s, s.pending_membership)
  BY DEF Sound, Memberships
<1> QED
  BY <1>1, ActivateMembershipSound

\* The countdown is independent of everything else.
LEMMA CountdownSound ==
  ASSUME NEW p, NEW s, NEW B, Sound(p, s, B), NEW c \in {"none", "running", "over"}
  PROVE  Sound(p, [s EXCEPT !.countdown = c], B)
<1> DEFINE t == [s EXCEPT !.countdown = c]
<1>1. IsSession(t) /\ Counts(p, t, B)
  BY DEF Sound, IsSession, Counts
<1>2. Memberships(p, t, B)
  BY DEF Sound, IsSession, Memberships, Known
<1>3. Rosters(p, t, B) /\ (NilIsNoRecord => Paired(t))
  BY DEF Sound, IsSession, Rosters, Paired
<1> QED
  BY <1>1, <1>2, <1>3 DEF Sound

\* The next dealer sits at an occupied seat (next_dealer).
LEMMA NextDealerHasASeat ==
  ASSUME NEW T \in SUBSET PhysicalSeats, T # {}, NEW d
  PROVE  NextDealer(d, T) \in T
<1>1. PhysicalSeats \in SUBSET Nat
  BY TableAssumption DEF PhysicalSeats
<1>2. ASSUME NEW U \in SUBSET PhysicalSeats, U # {} PROVE Min(U) \in U
  <2>1. \E x \in U : \A y \in U : x <= y
    BY <1>1, <1>2, LeastNumber
  <2> QED
    BY <2>1 DEF Min
<1>3. {i \in T : i > d} \in SUBSET PhysicalSeats /\ {i \in T : i > d} \subseteq T
  OBVIOUS
<1> QED
  BY <1>2, <1>3, Zenon DEF NextDealer

\* maybe_propose_roster keeps the form of a session.
LEMMA MaybeProposeRosterSound ==
  ASSUME NEW p, NEW s, IsBasis(Basis), Sound(p, s, Basis)
  PROVE  Sound(p, MaybeProposeRoster(p, s), Basis)
<1> DEFINE r == FromMembership(s.membership, s.next_hand_number, s.previous_receipt, s.previous_dealer)
<1>1. Basis.hands = MaxHands
  BY DEF Basis
<1>2. ASSUME s.membership # Nil, ~(s.next_hand_number > MaxHands)
      PROVE  Sound(p, AcceptRosterProposal(p, s, r), Basis)
  <2>1. r.hand_number = s.next_hand_number /\ r.dealer = NextDealer(s.previous_dealer, DOMAIN s.membership.seats)
    BY DEF FromMembership
  <2>2. DOMAIN s.membership.seats \in SUBSET PhysicalSeats /\ DOMAIN s.membership.seats # {}
    BY <1>2 DEF Sound, Memberships, IsProposal
  <2>3. r.dealer \in PhysicalSeats
    BY <2>1, <2>2, NextDealerHasASeat
  <2>4. s.next_hand_number \in 1 .. Basis.hands + 1
    BY DEF Sound, Counts
  <2>5. r.hand_number \in 1 .. Basis.hands /\ s.next_hand_number <= r.hand_number
    BY <1>1, <1>2, <2>1, <2>4 DEF IsBasis
  <2>6. NilIsNoRecord => r # Nil
    BY DEF NilIsNoRecord, FromMembership
  <2> HIDE DEF r
  <2> QED
    BY <2>3, <2>5, <2>6, AcceptRosterProposalSound
<1>3. /\ Sound(p, [s EXCEPT !.countdown = "none"], Basis)
      /\ Sound(p, [s EXCEPT !.countdown = "running"], Basis)
  BY Zenon, CountdownSound
<1> QED
  BY <1>2, <1>3 DEF MaybeProposeRoster

\* finalize_roster_if_ready keeps the form of a session.
LEMMA FinalizeRosterIfReadySound ==
  ASSUME NEW p, NEW s, NEW B, IsBasis(B), Sound(p, s, B)
  PROVE  Sound(p, FinalizeRosterIfReady(s), B)
<1> SUFFICES ASSUME s.pending_roster # Nil
             PROVE  Sound(p, ActivateRoster(s, s.pending_roster), B)
  BY DEF FinalizeRosterIfReady
<1>1. Plays(p, s.pending_roster, B) /\ s.next_hand_number <= s.pending_roster.hand_number
  BY DEF Sound, Rosters
<1>2. s.next_hand_number <= B.hands
  BY <1>1 DEF Plays, IsBasis, Sound, Counts
<1> QED
  BY <1>1, <1>2, ActivateRosterSound


\* A join intent more keeps the form of a session.
LEMMA JoinsSound ==
  ASSUME NEW p \in Players, NEW s, NEW B, IsBasis(B), Sound(p, s, B), NEW q, NEW c \in 1 .. B.claims
  PROVE  Sound(p, [s EXCEPT !.joins[q] = c], B)
<1> DEFINE t == [s EXCEPT !.joins[q] = c]
<1>1. t.joins = [s.joins EXCEPT ![q] = c]
  BY DEF Sound, IsSession
<1>2. /\ t.joins \in [Players -> 0 .. B.claims]
      /\ \A x \in Players : s.joins[x] > 0 => t.joins[x] > 0
  <2>1. c \in 0 .. B.claims /\ c > 0
    BY DEF IsBasis
  <2>2. s.joins \in [Players -> 0 .. B.claims]
    BY DEF Sound, Counts
  <2> HIDE DEF t
  <2> QED
    BY Zenon, <1>1, <2>1, <2>2
<1>3. IsSession(t) /\ Counts(p, t, B)
  BY <1>2 DEF Sound, IsSession, Counts
<1>4. \A n : IsProposal(n, B) /\ Known(s, n) => Known(t, n)
  <2> SUFFICES ASSUME NEW n, IsProposal(n, B), Known(s, n) PROVE Known(t, n)
    OBVIOUS
  <2>1. \A x \in SeatClaims(n) \cup n.waiting : x.player \in Players
    BY DEF IsProposal, SeatClaims, ClaimsOf
  <2>2. t.leaves = s.leaves
    BY DEF Sound, IsSession
  <2> QED
    BY <1>2, <2>1, <2>2 DEF Known
<1>5. Memberships(p, t, B)
  BY <1>4 DEF Sound, IsSession, Memberships
<1>6. Rosters(p, t, B) /\ (NilIsNoRecord => Paired(t))
  BY DEF Sound, IsSession, Rosters, Paired
<1> QED
  BY <1>3, <1>5, <1>6 DEF Sound

\* A leave intent more keeps the form of a session.
LEMMA LeavesSound ==
  ASSUME NEW p \in Players, NEW s, NEW B, IsBasis(B), Sound(p, s, B), NEW q, NEW n \in 0 .. B.hands
  PROVE  Sound(p, [s EXCEPT !.leaves[q] = n], B)
<1> DEFINE t == [s EXCEPT !.leaves[q] = n]
<1>1. t.leaves = [s.leaves EXCEPT ![q] = n]
  BY DEF Sound, IsSession
<1>2. n # NoLeave /\ n \in NoLeave .. B.hands
  BY DEF NoLeave, IsBasis
<1>3. /\ t.leaves \in [Players -> NoLeave .. B.hands]
      /\ \A x \in Players : s.leaves[x] # NoLeave => t.leaves[x] # NoLeave
  BY Zenon, <1>1, <1>2 DEF Sound, Counts
<1>4. IsSession(t) /\ Counts(p, t, B)
  BY <1>3 DEF Sound, IsSession, Counts
<1>5. \A m : Known(s, m) => Known(t, m)
  BY <1>3 DEF Known, Sound, IsSession
<1>6. Memberships(p, t, B)
  BY <1>5 DEF Sound, IsSession, Memberships
<1>7. Rosters(p, t, B) /\ (NilIsNoRecord => Paired(t))
  BY DEF Sound, IsSession, Rosters, Paired
<1> QED
  BY <1>4, <1>6, <1>7 DEF Sound

\* Whatever a sound session publishes has the right form.
LEMMA PublishedSound ==
  ASSUME NEW p \in Players, NEW s, NEW B, IsBasis(B), Sound(p, s, B), NEW m \in Published(p, s)
  PROVE  SoundMessage(m, B)
<1>1. CASE m = [type |-> "join", player |-> p, claim |-> s.joins[p]]
  <2>1. s.joins[p] \in 1 .. B.claims
    BY DEF Sound, Counts, IsBasis
  <2> QED
    BY <1>1, <2>1 DEF SoundMessage
<1>2. CASE s.local_leave /\ m = LeaveMessage(p, s)
  <2>1. s.leaves[p] \in 0 .. B.hands
    BY <1>2 DEF Sound, Counts, IsBasis, NoLeave
  <2> QED
    BY <1>2, <2>1 DEF SoundMessage, LeaveMessage
<1>3. CASE s.membership # Nil /\ m = [type |-> "certified membership", proposal |-> s.membership]
  BY Zenon, <1>3 DEF SoundMessage, Sound, Memberships
<1>4. CASE s.active_roster # Nil /\ m = [type |-> "certified roster", roster |-> s.active_roster]
  BY Zenon, <1>4 DEF SoundMessage, Sound, Rosters, Plays
<1>5. CASE /\ s.pending_membership # Nil
           /\ m = [type |-> "membership proposal", proposal |-> s.pending_membership]
  BY Zenon, <1>5 DEF SoundMessage, Sound, Memberships
<1>6. CASE /\ s.local_membership_acceptance # Nil
           /\ m = [type |-> "membership acceptance",
                   proposal |-> s.local_membership_acceptance, player |-> p]
  BY Zenon, <1>6 DEF SoundMessage, Sound, Memberships
<1>7. CASE s.pending_roster # Nil /\ m = [type |-> "roster proposal", roster |-> s.pending_roster]
  BY Zenon, <1>7 DEF SoundMessage, Sound, Rosters, Plays
<1>8. CASE /\ s.local_roster_acceptance # Nil
           /\ m = [type |-> "roster acceptance", roster |-> s.local_roster_acceptance, player |-> p]
  BY Zenon, <1>8 DEF SoundMessage, Sound, Rosters
<1> QED
  BY <1>1, <1>2, <1>3, <1>4, <1>5, <1>6, <1>7, <1>8, PublishedIs, Zenon

\* The session of a player who just sat down has the right form.
LEMMA NewSessionSound ==
  ASSUME NEW p \in Players, NEW B, IsBasis(B), NEW c \in 1 .. B.claims
  PROVE  Sound(p, NewSession(p, c), B)
<1> DEFINE s == NewSession(p, c)
<1>1. IsSession(s)
  BY DEF NewSession, IsSession
<1>2. Counts(p, s, B)
  BY DEF NewSession, Counts, IsBasis, NoLeave
<1>3. Memberships(p, s, B) /\ Rosters(p, s, B) /\ Paired(s)
  BY Zenon DEF NewSession, Memberships, Rosters, Plays, Paired
<1> QED
  BY <1>1, <1>2, <1>3 DEF Sound

\* The membership a behaviour starts with gives every founder one seat.
LEMMA FoundedIsProposal ==
  ASSUME NEW B, IsBasis(B), setup \in Setups
  PROVE  IsProposal(Founded, B) /\ SeatClaims(Founded) \subseteq [player : Founders, claim : {1}]
<1> DEFINE N == Cardinality(Founders)
<1>1. /\ Founders \in SUBSET Players /\ Founders # {} /\ N <= TableCapacity
      /\ Founders \in SUBSET Nat /\ IsFiniteSet(Founders)
  BY Zenon, TableAssumption, FS_Subset DEF Founders
<1>2. N \in Nat /\ N # 0
  BY <1>1, FS_CardinalityType, FS_EmptySet
<1>3. 1 .. N # {} /\ 1 .. N \in SUBSET PhysicalSeats
  BY <1>1, <1>2, TableAssumption DEF PhysicalSeats
<1>4. /\ "seats" \in DOMAIN Founded
      /\ Founded.version = N /\ Founded.previous = Nil /\ Founded.waiting = {}
      /\ Founded.leaves = [q \in Players |-> NoLeave]
      /\ Founded.seats = [i \in 1 .. N |-> [player |-> Nth(Founders, i), claim |-> 1]]
  BY DEF Founded, Nth
<1>5. \A i \in 1 .. N : Nth(Founders, i) \in Founders /\ Place(Founders, Nth(Founders, i)) = i
  BY <1>1, NthHasPlace
<1>6. 1 \in 1 .. B.claims
  BY DEF IsBasis
<1>7. Founded.seats \in [1 .. N -> [player : Founders, claim : {1}]]
  BY <1>4, <1>5
<1>8. Founded.seats \in [DOMAIN Founded.seats -> ClaimsOf(B)] /\ DOMAIN Founded.seats = 1 .. N
  BY Zenon, <1>1, <1>6, <1>7 DEF ClaimsOf
<1>9. \A i, j \in 1 .. N : Founded.seats[i].player = Founded.seats[j].player => i = j
  BY <1>4, <1>5
<1>10. Founded.leaves \in [Players -> NoLeave .. B.hands]
  BY <1>4 DEF NoLeave, IsBasis
<1>11. IsProposal(Founded, B)
  <2>1. Founded.version \in Nat /\ Founded.waiting \in SUBSET ClaimsOf(B)
    BY <1>2, <1>4
  <2>2. DOMAIN Founded.seats \in SUBSET PhysicalSeats /\ DOMAIN Founded.seats # {}
    BY <1>3, <1>8
  <2>3. \A i, j \in DOMAIN Founded.seats :
          Founded.seats[i].player = Founded.seats[j].player => i = j
    BY <1>8, <1>9
  <2> QED
    BY <1>4, <1>8, <1>10, <2>1, <2>2, <2>3, Zenon DEF IsProposal
<1> QED
  BY Zenon, <1>7, <1>8, <1>11 DEF SeatClaims

-----------------------------------------------------------------------------
\* The bounds of a setup are numbers.
LEMMA BasisHolds ==
  ASSUME setup \in Setups
  PROVE  IsBasis(Basis)
BY TableAssumption DEF IsBasis, Basis, MaxClaims, MaxHands

\* No step changes the setup.
LEMMA BasisStays ==
  ASSUME UNCHANGED setup
  PROVE  Basis' = Basis /\ MaxClaims' = MaxClaims
BY DEF Basis, Founded, Founders, MaxClaims, MaxHands

\* process_table_session_events keeps the invariant, given a good session and
\* hand.
LEMMA ProcessKeeps ==
  ASSUME IInv, UNCHANGED <<down, setup, receipts>>, messages \subseteq messages',
         claims' \in [Players -> 0 .. MaxClaims],
         NEW p \in Players, NEW s, NEW h, Process(p, s, h),
         Good(p, s, Basis, signed', messages'),
         Underway(p, h, signed),
         \A m \in messages' \ messages : GoodMessage(m, Basis, signed', messages')
  PROVE  IInv'
<1>1. signed \subseteq signed' /\ Basis' = Basis /\ MaxClaims' = MaxClaims
  BY BasisStays DEF Process
<1>2. /\ DOMAIN session' = Players /\ DOMAIN hand' = Players /\ down' \in [Players -> SUBSET Players]
      /\ setup' \in Setups /\ receipts' \subseteq signed'
  BY <1>1 DEF IInv, Process
<1>3. ASSUME NEW q \in Players, session'[q] # Nil
      PROVE  Good(q, session'[q], Basis, signed', messages') /\ ~session'[q].leave_completed
  <2>1. CASE q # p
    <3>1. session'[q] = session[q]
      BY <2>1 DEF Process, IInv
    <3>2. q \in Open
      BY <1>3, <3>1 DEF Open
    <3> QED
      BY <1>1, <3>1, <3>2, GrowsGood DEF IInv
  <2>2. CASE q = p
    <3>1. ~s.leave_completed /\ session'[p] \in {s, [s EXCEPT !.ready = Nil]}
      BY <1>3, <2>2 DEF Process, IInv
    <3> DEFINE t == [s EXCEPT !.ready = Nil]
    <3>2. IsSession(s)
      BY DEF Good, Sound
    <3>3. t.leave_completed = s.leave_completed
      BY <3>2 DEF IsSession
    <3>4. Sealed(p, t, Basis.founded, signed', messages')
      BY DEF Good, Sealed, IsSession, Collected, Playable, Agreed, Heard
    <3>5. IsSession(t) /\ Counts(p, t, Basis) /\ Memberships(p, t, Basis)
      BY <3>2 DEF Good, Sound, IsSession, Counts, Memberships, Known
    <3>6. Rosters(p, t, Basis) /\ (NilIsNoRecord => Paired(t))
      BY <3>2 DEF Good, Sound, IsSession, Rosters, Plays, Paired
    <3>7. Good(p, t, Basis, signed', messages')
      BY <3>4, <3>5, <3>6 DEF Good, Sound
    <3> QED
      BY Zenon, <2>2, <3>1, <3>3, <3>7
  <2> QED
    BY <2>1, <2>2
<1>4. ASSUME NEW q \in Players
      PROVE  Underway(q, hand'[q], signed')
  <2>1. CASE q # p
    <3>1. hand'[q] = hand[q]
      BY <2>1 DEF Process, IInv
    <3> QED
      BY Zenon, <1>1, <3>1, GrowsGood DEF IInv
  <2>2. CASE q = p
    <3>1. \/ hand'[p] \in {Nil, h}
          \/ hand'[p] = [roster |-> s.ready, done |-> FALSE] /\ s.ready # Nil
      BY DEF Process, IInv, StartHand
    <3>2. Agreed(s.ready, signed') /\ Plays(p, s.ready, Basis)
      BY DEF Good, Sealed, Playable, Sound, Rosters
    <3>3. Underway(p, h, signed')
      BY <1>1, GrowsGood
    <3> QED
      BY <2>2, <3>1, <3>2, <3>3 DEF Agreed, Plays, Underway
  <2> QED
    BY <2>1, <2>2
<1>5. ASSUME NEW m \in messages'
      PROVE  GoodMessage(m, Basis, signed', messages')
  BY <1>1, GrowsGood DEF IInv
<1> QED
  BY Zenon, <1>1, <1>2, <1>3, <1>4, <1>5 DEF IInv, Open

\* The calls that end a tick and every handled message keep the invariant.
LEMMA ConvergeKeeps ==
  ASSUME IInv, UNCHANGED <<down, setup, receipts>>, claims' \in [Players -> 0 .. MaxClaims],
         NEW p \in Players, NEW s, NEW h, NEW publishes, Converge(p, s, h, publishes),
         Good(p, s, Basis, signed, messages),
         Underway(p, h, signed)
  PROVE  IInv'
<1> DEFINE F == Basis.founded
           s1 == FinalizeMembershipIfReady(p, s)
           s2 == MaybeProposeRoster(p, s1)
           s3 == FinalizeRosterIfReady(s2)
           S1 == signed \cup ({p} \X ({s.local_membership_acceptance} \ {Nil}))
           S2 == signed \cup Own(p, s3)
           S3 == S1 \cup Own(p, s2)
<1>1. /\ Process(p, s3, h)
      /\ messages' = IF publishes THEN messages \cup Published(p, s3) ELSE messages
  BY DEF Converge
<1>2. signed' = S2
  BY <1>1 DEF Process, Own
<1>3. Sealed(p, s, F, S1, messages)
  BY Grows DEF Good
<1>4. /\ Sealed(p, s1, F, S1, messages)
      /\ s1.local_membership_acceptance = s.local_membership_acceptance
  BY Zenon, <1>3, FinalizeMembershipIfReadySealed
<1>5. /\ Sealed(p, s2, F, S1, messages)
      /\ s2.local_membership_acceptance = s.local_membership_acceptance
  BY <1>4, MaybeProposeRosterSealed
<1>6. Sealed(p, s2, F, S3, messages)
  BY <1>5, Grows
<1>7. /\ Sealed(p, s3, F, S3, messages)
      /\ s3.local_membership_acceptance = s2.local_membership_acceptance
      /\ s3.local_roster_acceptance = s2.local_roster_acceptance
  <2>1. s2.local_roster_acceptance # Nil => <<p, s2.local_roster_acceptance>> \in S3
    BY DEF Own
  <2> HIDE DEF S3, s2
  <2> QED
    BY <1>6, <2>1, FinalizeRosterIfReadySealed
<1>8. S3 = S2
  BY <1>5, <1>7 DEF Own
<1>9. messages \subseteq messages'
  BY <1>1
<1>10. IsBasis(Basis)
  BY BasisHolds DEF IInv
<1>11. Sound(p, s1, Basis)
  BY FinalizeMembershipIfReadySound DEF Good
<1>12. Sound(p, s2, Basis)
  BY <1>10, <1>11, MaybeProposeRosterSound
<1>13. Sound(p, s3, Basis)
  BY <1>10, <1>12, FinalizeRosterIfReadySound
<1>14. Good(p, s3, Basis, signed', messages')
  BY <1>2, <1>7, <1>8, <1>9, <1>13, Grows DEF Good
<1>15. ASSUME NEW m \in messages' \ messages
       PROVE  GoodMessage(m, Basis, signed', messages')
  <2>1. m \in Published(p, s3)
    BY <1>1, <1>15
  <2>2. SealedMessage(m, F, signed', messages' \cup {m})
    BY <1>2, <1>14, <2>1, PublishedSealed DEF Good
  <2>3. messages' \cup {m} = messages'
    BY <1>15
  <2>4. SoundMessage(m, Basis)
    BY <1>10, <1>13, <2>1, PublishedSound
  <2> QED
    BY <2>2, <2>3, <2>4 DEF GoodMessage
<1> HIDE DEF s3
<1> QED
  BY <1>1, <1>9, <1>14, <1>15, ProcessKeeps

-----------------------------------------------------------------------------
\* A membership without p that everybody seated in it signed.
CertifiedWithout(p, S) ==
  \E x \in S : x[1] # p /\ "seats" \in DOMAIN x[2] /\ ~Present(x[2], p)
                 /\ \A q \in Seated(x[2]) : <<q, x[2]>> \in S

\* The session that a handler of p hands on is the old one, or has moved to
\* the next membership; a leave is completed for a reason.
Starts(p, s, S) ==
  LET m == session[p].membership
  IN  /\ m # Nil => \/ s.membership = m
                    \/ /\ s.membership # Nil /\ s.membership.previous = m
                       /\ s.pending_membership = Nil
      /\ s.leave_completed => LocalIsOnlySeat(p, session[p]) \/ CertifiedWithout(p, S)

\* A step of p that ends in the calls of Converge.
Handled(p) ==
  /\ \E x, h, b : /\ Converge(p, x, h, b) /\ Good(p, x, Basis, signed, messages)
                  /\ Starts(p, x, signed) /\ Underway(p, h, signed)
  /\ UNCHANGED <<down, setup, receipts>>
  /\ claims' \in [Players -> 0 .. MaxClaims]

\* A step that ends in those calls keeps the invariant.
LEMMA HandledKeeps ==
  ASSUME IInv, NEW p \in Players, Handled(p)
  PROVE  IInv'
BY ConvergeKeeps DEF Handled

\* A handler that leaves membership and leave alone hands on such a session.
LEMMA StartsUnmoved ==
  ASSUME IInv, NEW p \in Open, NEW t, t.membership = session[p].membership,
         t.leave_completed = session[p].leave_completed
  PROVE  Starts(p, t, signed)
BY DEF Starts, IInv

\* When everybody seated in a membership without p signed it, p may go.
LEMMA SignedWithout ==
  ASSUME NEW p, NEW n, NEW B, NEW S, IsProposal(n, B), ~Present(n, p),
         Unanimous(Seated(n), n, S)
  PROVE  CertifiedWithout(p, S)
<1>1. PICK q \in Seated(n) : TRUE
  BY DEF IsProposal, Seated, SeatClaims, PlayersOf
<1>2. <<q, n>> \in S /\ q # p /\ "seats" \in DOMAIN n
  BY <1>1 DEF Unanimous, Present, IsProposal
<1> QED
  BY <1>2 DEF CertifiedWithout, Unanimous

\* Min is the least member.
LEMMA LeastMember ==
  ASSUME NEW T \in SUBSET Nat, T # {}
  PROVE  Min(T) \in T
<1>1. \E x \in T : \A y \in T : x <= y
  BY LeastNumber
<1> QED
  BY Zenon, <1>1 DEF Min

\* A renewed or newly heard join intent keeps a session good.
LEMMA RenewedGood ==
  ASSUME NEW p \in Players, NEW s, NEW B, NEW S, NEW M, IsBasis(B), Good(p, s, B, S, M),
         NEW q, NEW c \in 1 .. B.claims
  PROVE  Good(p, [s EXCEPT !.joins[q] = c], B, S, M)
<1> DEFINE t == [s EXCEPT !.joins[q] = c]
<1>1. Sound(p, t, B)
  BY JoinsSound DEF Good
<1>2. Sealed(p, t, B.founded, S, M)
  BY DEF Good, Sealed, IsSession, Collected, Playable, Heard
<1> QED
  BY <1>1, <1>2 DEF Good

\* A hand is abandoned only on a leave signed during it
\* (signed_disconnected_leaver).
LEMMA AbandonedGood ==
  ASSUME IInv, NEW p \in Players, NEW s, Good(p, s, Basis, signed, messages), AbandonedBy(p, s) # {}
  PROVE  Good(p, Abandoned(p, s), Basis, signed, messages)
<1> DEFINE q == Min(AbandonedBy(p, s))
           e == [hand |-> s.next_hand_number, by |-> q,
                 version |-> s.active_roster.membership.version]
<1>1. AbandonedBy(p, s) \in SUBSET Players
  BY DEF AbandonedBy, IInv
<1>2. q \in AbandonedBy(p, s)
  <2>1. AbandonedBy(p, s) \in SUBSET Nat
    BY Zenon, <1>1, TableAssumption
  <2> QED
    BY <2>1, LeastMember
<1>3. s.leaves[q] = s.next_hand_number /\ q \in Players
  BY <1>1, <1>2 DEF AbandonedBy
<1>4. s.leaves[q] # NoLeave
  BY <1>3 DEF Good, Sealed, IsSession, NoLeave
<1>5. EvidenceSigned(e, messages)
  BY <1>3, <1>4 DEF EvidenceSigned, Good, Sealed, Heard, LeavesSigned
<1>6. s.hand_active /\ s.active_roster # Nil
  BY DEF AbandonedBy
<1>7. s.active_roster.dealer \in PhysicalSeats
  BY <1>6 DEF Good, Sound, Rosters, Plays
<1>8. IsBasis(Basis)
  BY BasisHolds DEF IInv
<1> HIDE DEF e
<1>9. Sealed(p, FinishHandBoundary(p, s, e, s.active_roster.dealer), Basis.founded, signed, messages)
  BY <1>5, FinishHandBoundarySealed DEF Good
<1>10. Sound(p, FinishHandBoundary(p, s, e, s.active_roster.dealer), Basis)
  BY <1>6, <1>7, <1>8, FinishHandBoundarySound DEF Good
<1> QED
  BY <1>9, <1>10 DEF Abandoned, Good, e

\* What a tick does before it ends in Converge.
LEMMA TickHandled ==
  ASSUME IInv, NEW p \in Players, NEW renews \in BOOLEAN, Tick(p, renews)
  PROVE  Handled(p)
<1>1. PICK s0 \in {IF renews THEN [session[p] EXCEPT !.joins[p] = claims[p] + 1] ELSE session[p]} :
        \E s1 \in {IF AbandonedBy(p, s0) # {} THEN Abandoned(p, s0) ELSE s0} :
          Converge(p, MaybeProposeMembership(p, s1),
                   IF AbandonedBy(p, s0) # {} THEN Nil ELSE hand[p], TRUE)
  BY Zenon DEF Tick
<1>2. PICK s1 \in {IF AbandonedBy(p, s0) # {} THEN Abandoned(p, s0) ELSE s0} :
        Converge(p, MaybeProposeMembership(p, s1),
                 IF AbandonedBy(p, s0) # {} THEN Nil ELSE hand[p], TRUE)
  BY Zenon, <1>1
<1>3. UNCHANGED <<down, setup, receipts>> /\ p \in Open
  BY DEF Tick, Open
<1>4. IsBasis(Basis) /\ Basis.claims = MaxClaims
  BY BasisHolds DEF IInv, Basis
<1>5. renews => claims[p] + 1 \in 1 .. MaxClaims
  BY <1>4 DEF Tick, IInv, IsBasis
<1>6. claims' \in [Players -> 0 .. MaxClaims]
  <2>1. claims' = [claims EXCEPT ![p] = IF renews THEN @ + 1 ELSE @]
    BY DEF Tick
  <2> QED
    BY <1>4, <1>5, <2>1 DEF IInv, IsBasis
<1>7. Good(p, s0, Basis, signed, messages)
  <2>1. Good(p, session[p], Basis, signed, messages)
    BY <1>3 DEF IInv
  <2>2. renews => Good(p, [session[p] EXCEPT !.joins[p] = claims[p] + 1], Basis, signed, messages)
    BY Zenon, <1>4, <1>5, <2>1, RenewedGood
  <2> QED
    BY <1>1, <2>1, <2>2
<1>8. Good(p, s1, Basis, signed, messages)
  BY <1>2, <1>7, AbandonedGood
<1>9. Good(p, MaybeProposeMembership(p, s1), Basis, signed, messages)
  BY <1>4, <1>8, MaybeProposeMembershipSealed, MaybeProposeMembershipSound DEF Good
<1>10. Underway(p, IF AbandonedBy(p, s0) # {} THEN Nil ELSE hand[p], signed)
  BY DEF IInv, Underway
<1>11. IsSession(session[p]) /\ IsSession(s0) /\ IsSession(s1) /\ ~session[p].leave_completed
  BY <1>3, <1>7, <1>8 DEF IInv, Good, Sound
<1>12. /\ s0.membership = session[p].membership
       /\ s0.leave_completed = session[p].leave_completed
  BY <1>1, <1>11 DEF IsSession
<1>13. /\ s1.membership = s0.membership
       /\ s1.leave_completed => s0.leave_completed \/ LocalIsOnlySeat(p, s0)
  BY Zenon, <1>2, <1>11 DEF IsSession, Abandoned, FinishHandBoundary, BoundaryAt
<1>14. /\ MaybeProposeMembership(p, s1).membership = s1.membership
       /\ MaybeProposeMembership(p, s1).leave_completed = s1.leave_completed
  BY <1>11 DEF IsSession, MaybeProposeMembership, AcceptMembershipProposal
<1>15. Starts(p, MaybeProposeMembership(p, s1), signed)
  BY <1>11, <1>12, <1>13, <1>14 DEF Starts, LocalIsOnlySeat
<1> QED
  BY Zenon, <1>2, <1>3, <1>6, <1>9, <1>10, <1>15 DEF Handled

\* request_leave keeps the invariant: it publishes the leave it records.
LEMMA RequestLeaveKeeps ==
  ASSUME IInv, NEW p \in Players, RequestLeave(p)
  PROVE  IInv'
<1> DEFINE s0 == session[p]
           after == IF s0.hand_active THEN s0.next_hand_number ELSE Idle
           l  == [s0 EXCEPT !.leaves[p] = after]
           s1 == [s0 EXCEPT !.leaves[p] = after, !.local_leave = TRUE, !.ready = Nil]
           s2 == IF s0.hand_active THEN s1
                 ELSE [s1 EXCEPT !.pending_membership = Nil,
                                 !.membership_accepted = {},
                                 !.local_membership_acceptance = Nil,
                                 !.leave_completed = LocalIsOnlySeat(p, s0)]
           F  == Basis.founded
<1>1. /\ Process(p, s2, hand[p])
      /\ messages' = messages \cup {LeaveMessage(p, s2)}
      /\ UNCHANGED <<down, setup, receipts, claims>>
      /\ p \in Open
  BY DEF RequestLeave, Open
<1>2. signed \subseteq signed' /\ messages \subseteq messages'
  BY <1>1 DEF Process
<1>3. Sealed(p, s0, F, signed', messages') /\ Sound(p, s0, Basis)
  BY <1>1, <1>2, Grows DEF IInv, Good
<1>4. IsBasis(Basis)
  BY BasisHolds DEF IInv
<1>5. after \in 0 .. Basis.hands
  BY <1>3, <1>4 DEF Sound, Counts, IsBasis, Idle
<1> HIDE DEF after
<1>6. Sound(p, l, Basis) /\ s1 = [l EXCEPT !.local_leave = TRUE, !.ready = Nil]
  BY Zenon, <1>3, <1>4, <1>5, LeavesSound
<1>7. l.leaves = [s0.leaves EXCEPT ![p] = after] /\ l.leaves[p] # NoLeave
  <2>1. l.leaves = [s0.leaves EXCEPT ![p] = after] /\ DOMAIN s0.leaves = Players
    BY <1>3 DEF Sound, IsSession
  <2> HIDE DEF l
  <2> QED
    BY <1>4, <1>5, <2>1 DEF NoLeave, IsBasis
<1>8. /\ s1.leaves = l.leaves
      /\ s2.leaves = l.leaves
  BY <1>3 DEF Sound, IsSession
<1>9. Sound(p, s1, Basis)
  <2> HIDE DEF l, s1
  <2>1. IsSession(s1) /\ Counts(p, s1, Basis)
    BY <1>6, <1>7 DEF Sound, IsSession, Counts
  <2>2. Memberships(p, s1, Basis)
    BY <1>6 DEF Sound, IsSession, Memberships, Known
  <2>3. Rosters(p, s1, Basis) /\ (NilIsNoRecord => Paired(s1))
    BY <1>6 DEF Sound, IsSession, Rosters, Plays, Paired
  <2> QED
    BY <2>1, <2>2, <2>3 DEF Sound
<1>10. Signed(p, s2.leaves[p], messages')
  BY <1>1 DEF Signed, LeaveMessage
<1>11. LeavesSigned(s1.leaves, messages') /\ DOMAIN s1.leaves = Players
  BY <1>3, <1>7, <1>8, <1>10 DEF Sealed, IsSession, Heard, LeavesSigned
<1>12. Sealed(p, s1, F, signed', messages')
  BY <1>3, <1>11 DEF Sealed, IsSession, Heard, Collected, Playable, Agreed
<1>13. Good(p, s2, Basis, signed', messages')
  <2>1. CASE s0.hand_active
    BY <1>9, <1>12, <2>1 DEF Good
  <2>2. CASE ~s0.hand_active
    <3> HIDE DEF s1
    <3>1. s2 = [s1 EXCEPT !.pending_membership = Nil,
                          !.membership_accepted = {},
                          !.local_membership_acceptance = Nil,
                          !.leave_completed = LocalIsOnlySeat(p, s0)]
      BY <2>2
    <3> HIDE DEF s2
    <3>2. Sealed(p, s2, F, signed', messages')
      BY <1>12, <3>1 DEF Sealed, IsSession, Heard, Collected, Playable
    <3>3. IsSession(s2) /\ Counts(p, s2, Basis)
      BY <1>9, <3>1 DEF Sound, IsSession, Counts
    <3>4. Memberships(p, s2, Basis)
      BY <1>9, <3>1 DEF Sound, IsSession, Memberships, Known
    <3>5. Rosters(p, s2, Basis) /\ (NilIsNoRecord => Paired(s2))
      BY <1>9, <3>1 DEF Sound, IsSession, Rosters, Paired
    <3> QED
      BY <3>2, <3>3, <3>4, <3>5 DEF Good, Sound
  <2> QED
    BY <2>1, <2>2
<1>14. s2.leaves[p] \in 0 .. Basis.hands
  <2>1. DOMAIN s0.leaves = Players
    BY <1>3 DEF Sound, IsSession
  <2> HIDE DEF l, s2
  <2> QED
    BY <1>5, <1>7, <1>8, <2>1
<1> HIDE DEF s2
<1>15. ASSUME NEW m \in messages' \ messages
       PROVE  GoodMessage(m, Basis, signed', messages')
  <2>1. m = [type |-> "leave", player |-> p, after |-> s2.leaves[p]]
    BY <1>1, <1>15 DEF LeaveMessage
  <2> QED
    BY <1>10, <1>14, <2>1 DEF GoodMessage, SealedMessage, SoundMessage
<1>16. Underway(p, hand[p], signed) /\ claims' \in [Players -> 0 .. MaxClaims]
  BY <1>1 DEF IInv
<1> QED
  BY <1>1, <1>2, <1>13, <1>15, <1>16, ProcessKeeps

\* A handler of a message ends in Converge.
LEMMA ReceiveHandled ==
  ASSUME IInv, NEW p \in Players, NEW s, Receive(p, s), Good(p, s, Basis, signed, messages),
         Starts(p, s, signed)
  PROVE  Handled(p)
<1>1. /\ Converge(p, s, hand[p], FALSE)
      /\ UNCHANGED <<down, setup, receipts>>
      /\ claims' \in [Players -> 0 .. MaxClaims]
  BY Zenon DEF Receive, IInv
<1>2. Underway(p, hand[p], signed)
  BY DEF IInv
<1> QED
  BY Zenon, <1>1, <1>2 DEF Handled

\* A join intent: the later claim of a player counts.
LEMMA ReceiveJoinIntentHandled ==
  ASSUME IInv, NEW p \in Open, NEW m \in messages, ReceiveJoinIntent(p, m)
  PROVE  Handled(p)
<1> DEFINE s == session[p]
           c == Max({s.joins[m.player], m.claim})
           t == [s EXCEPT !.joins[m.player] = c]
<1>1. Good(p, s, Basis, signed, messages) /\ IsBasis(Basis) /\ p \in Players
  BY BasisHolds DEF IInv, Open
<1>2. m.claim \in 1 .. Basis.claims
  BY Zenon DEF IInv, GoodMessage, SoundMessage, ReceiveJoinIntent
<1>3. Receive(p, t)
  BY DEF ReceiveJoinIntent
<1>6. Starts(p, t, signed)
  BY <1>1, StartsUnmoved DEF Good, Sound, IsSession
<1>4. CASE m.player \in Players
  <2> DEFINE T == {s.joins[m.player], m.claim}
  <2>1. T \in SUBSET (0 .. Basis.claims) /\ T # {} /\ m.claim \in T
    BY <1>1, <1>2, <1>4 DEF Good, Sound, Counts, IsBasis
  <2> HIDE DEF T
  <2>2. PICK x \in T : \A y \in T : y <= x
    BY Zenon, <1>1, <2>1, GreatestNumber DEF IsBasis
  <2>3. \A y \in T : x >= y
    BY <1>1, <2>1, <2>2 DEF IsBasis
  <2>4. Max(T) \in T /\ Max(T) >= m.claim
    BY Zenon, <2>1, <2>3 DEF Max
  <2>5. Max(T) \in 1 .. Basis.claims
    <3>1. Basis.claims \in Nat
      BY <1>1 DEF IsBasis
    <3>2. \A a \in 0 .. Basis.claims, b \in 1 .. Basis.claims : a >= b => a \in 1 .. Basis.claims
      BY <3>1
    <3>3. Max(T) \in 0 .. Basis.claims
      BY Zenon, <2>1, <2>4
    <3> QED
      BY <1>2, <2>4, <3>2, <3>3
  <2>6. c \in 1 .. Basis.claims
    BY <2>5 DEF T
  <2> HIDE DEF c
  <2>7. Good(p, t, Basis, signed, messages)
    BY <1>1, <2>6, RenewedGood
  <2> QED
    BY <1>1, <1>3, <1>6, <2>7, ReceiveHandled
<1>5. CASE m.player \notin Players
  <2>1. DOMAIN s.joins = Players
    BY <1>1 DEF Good, Sound, Counts
  <2>2. [s.joins EXCEPT ![m.player] = c] = [s.joins EXCEPT ![m.player] = m.claim]
    BY <1>5, <2>1, Zenon
  <2>3. t = [s EXCEPT !.joins[m.player] = m.claim]
    BY <2>2
  <2>4. Good(p, t, Basis, signed, messages)
    BY <1>1, <1>2, <2>3, RenewedGood
  <2> QED
    BY <1>1, <1>3, <1>6, <2>4, ReceiveHandled
<1> QED
  BY <1>4, <1>5

\* A leave intent: its owner signed it.
LEMMA ReceiveLeaveIntentHandled ==
  ASSUME IInv, NEW p \in Open, NEW m \in messages, ReceiveLeaveIntent(p, m)
  PROVE  Handled(p)
<1> DEFINE s == session[p]
           t == [s EXCEPT !.leaves[m.player] = m.after]
<1>1. Good(p, s, Basis, signed, messages) /\ IsBasis(Basis) /\ p \in Players
  BY BasisHolds DEF IInv, Open
<1>2. Signed(m.player, m.after, messages) /\ m.after \in 0 .. Basis.hands
  BY Zenon DEF IInv, GoodMessage, SoundMessage, SealedMessage, ReceiveLeaveIntent
<1>3. t.leaves = [s.leaves EXCEPT ![m.player] = m.after]
  BY <1>1 DEF Good, Sealed, IsSession
<1>4. LeavesSigned(t.leaves, messages) /\ DOMAIN t.leaves = Players
  BY <1>1, <1>2, <1>3 DEF Good, Sealed, IsSession, Heard, LeavesSigned
<1>5. Sealed(p, t, Basis.founded, signed, messages)
  BY <1>1, <1>4 DEF Good, Sealed, IsSession, Collected, Playable, Heard
<1>6. Sound(p, t, Basis)
  BY <1>1, <1>2, LeavesSound DEF Good
<1>7. Good(p, t, Basis, signed, messages)
  BY <1>5, <1>6 DEF Good
<1>8. Starts(p, t, signed)
  BY <1>1, StartsUnmoved DEF Good, Sound, IsSession
<1> QED
  BY <1>1, <1>7, <1>8, ReceiveHandled DEF ReceiveLeaveIntent

\* A membership proposal in scope.
LEMMA ReceiveMembershipProposalHandled ==
  ASSUME IInv, NEW p \in Open, NEW m \in messages, ReceiveMembershipProposal(p, m)
  PROVE  Handled(p)
<1> DEFINE s == session[p]
           r == Remember(s, m.proposal)
           t == AcceptMembershipProposal(p, r, m.proposal)
<1>1. Good(p, s, Basis, signed, messages) /\ IsBasis(Basis) /\ p \in Players
  BY BasisHolds DEF IInv, Open
<1>2. LeavesSigned(m.proposal.leaves, messages) /\ IsProposal(m.proposal, Basis) /\ m.proposal # Nil
  BY Zenon DEF IInv, GoodMessage, SoundMessage, SealedMessage, ReceiveMembershipProposal
<1>3. Sealed(p, t, Basis.founded, signed, messages)
  BY <1>1, <1>2, RememberSealed, AcceptMembershipProposalSealed DEF Good
<1>4. Sound(p, r, Basis) /\ Known(r, m.proposal) /\ r.membership = s.membership
  <2>1. Sound(p, r, Basis) /\ Known(r, m.proposal)
    BY <1>1, <1>2, RememberSound DEF Good
  <2>2. r.membership = s.membership
    BY <1>1 DEF Good, Sound, IsSession, Remember
  <2> QED
    BY <2>1, <2>2
<1>5. s.membership # Nil => m.proposal.previous = s.membership
  BY Zenon DEF ReceiveMembershipProposal, ValidateMembershipScope
<1>6. Sound(p, t, Basis)
  <2> HIDE DEF r
  <2> QED
    BY <1>2, <1>4, <1>5, AcceptMembershipProposalSound
<1>7. Good(p, t, Basis, signed, messages)
  BY <1>3, <1>6 DEF Good
<1>8. Starts(p, t, signed)
  BY Zenon, <1>1, StartsUnmoved DEF Good, Sound, IsSession, Remember, AcceptMembershipProposal
<1> QED
  BY Zenon, <1>1, <1>7, <1>8, ReceiveHandled DEF ReceiveMembershipProposal

\* The acceptance of the pending membership.
LEMMA ReceiveMembershipAcceptanceHandled ==
  ASSUME IInv, NEW p \in Open, NEW m \in messages, ReceiveMembershipAcceptance(p, m)
  PROVE  Handled(p)
<1> DEFINE s == session[p]
           t == [s EXCEPT !.membership_accepted = @ \cup {m.player}]
<1>1. Good(p, s, Basis, signed, messages) /\ p \in Players
  BY DEF IInv, Open
<1>2. /\ <<m.player, s.pending_membership>> \in signed
      /\ s.pending_membership # Nil /\ m.player \in Seated(s.pending_membership)
  BY Zenon DEF IInv, GoodMessage, SoundMessage, SealedMessage, ReceiveMembershipAcceptance
<1>3. Sealed(p, t, Basis.founded, signed, messages)
  BY <1>1, <1>2 DEF Good, Sealed, IsSession, Collected, Playable, Heard
<1>4. IsSession(t) /\ Counts(p, t, Basis) /\ Memberships(p, t, Basis)
  BY <1>1 DEF Good, Sound, IsSession, Counts, Memberships, Known
<1>5. Rosters(p, t, Basis) /\ (NilIsNoRecord => Paired(t))
  BY <1>1, <1>2 DEF Good, Sound, IsSession, Rosters, Paired
<1>6. Good(p, t, Basis, signed, messages)
  BY <1>3, <1>4, <1>5 DEF Good, Sound
<1>7. Starts(p, t, signed)
  BY <1>1, StartsUnmoved DEF Good, Sound, IsSession
<1> QED
  BY Zenon, <1>1, <1>6, <1>7, ReceiveHandled DEF ReceiveMembershipAcceptance

\* A certified membership: it succeeds the current one, and when it closes
\* the room of the receiver, everybody seated in it signed it.
LEMMA ReceiveCertifiedMembershipHandled ==
  ASSUME IInv, NEW p \in Open, NEW m \in messages, ReceiveCertifiedMembership(p, m)
  PROVE  Handled(p)
<1> DEFINE s == session[p]
           r == Remember(s, m.proposal)
           t == ActivateMembership(p, r, m.proposal)
<1>1. Good(p, s, Basis, signed, messages) /\ IsBasis(Basis) /\ p \in Players
  BY BasisHolds DEF IInv, Open
<1>2. /\ LeavesSigned(m.proposal.leaves, messages) /\ Ratified(m.proposal, Basis.founded, signed)
      /\ IsProposal(m.proposal, Basis)
  BY Zenon DEF IInv, GoodMessage, SoundMessage, SealedMessage, ReceiveCertifiedMembership
<1>3. Sealed(p, t, Basis.founded, signed, messages)
  BY <1>1, <1>2, RememberSealed, ActivateMembershipSealed DEF Good
<1>4. Sound(p, t, Basis)
  BY <1>1, <1>2, RememberSound, ActivateMembershipSound DEF Good
<1>5. Good(p, t, Basis, signed, messages)
  BY <1>3, <1>4 DEF Good
<1>6. /\ m.proposal # Nil
      /\ IF s.membership = Nil THEN Present(m.proposal, p) ELSE m.proposal.previous = s.membership
  BY Zenon DEF IInv, GoodMessage, SoundMessage, ReceiveCertifiedMembership, ValidateMembershipScope
<1>7. /\ t.membership = m.proposal /\ t.pending_membership = Nil
      /\ t.leave_completed => s.leave_completed \/ ~Present(m.proposal, p)
  BY Zenon, <1>1 DEF Good, Sound, IsSession, Remember, ActivateMembership
<1>8. t.leave_completed => CertifiedWithout(p, signed)
  <2>1. SUFFICES ASSUME t.leave_completed PROVE CertifiedWithout(p, signed)
    OBVIOUS
  <2>2. ~Present(m.proposal, p) /\ s.membership # Nil /\ m.proposal.previous # Nil
    BY <1>6, <1>7, <2>1 DEF IInv
  <2>3. Unanimous(Seated(m.proposal), m.proposal, signed)
    BY <1>2, <1>6, <2>2 DEF Ratified, Basis, Founded
  <2> QED
    BY <1>2, <2>2, <2>3, SignedWithout
<1>9. Starts(p, t, signed)
  BY Zenon, <1>6, <1>7, <1>8 DEF Starts
<1> QED
  BY Zenon, <1>1, <1>5, <1>9, ReceiveHandled DEF ReceiveCertifiedMembership

\* A certified roster in scope.
LEMMA ReceiveCertifiedRosterHandled ==
  ASSUME IInv, NEW p \in Open, NEW m \in messages, ReceiveCertifiedRoster(p, m)
  PROVE  Handled(p)
<1> DEFINE s == session[p]
           t == ActivateRoster(s, m.roster)
<1>1. Good(p, s, Basis, signed, messages) /\ IsBasis(Basis) /\ p \in Players
  BY BasisHolds DEF IInv, Open
<1>2. /\ Agreed(m.roster, signed) /\ m.roster # Nil
      /\ m.roster.hand_number \in 1 .. Basis.hands /\ m.roster.dealer \in PhysicalSeats
  BY Zenon DEF IInv, GoodMessage, SoundMessage, SealedMessage, ReceiveCertifiedRoster
<1>3. p \in Participants(m.roster) /\ ValidateRosterScope(p, s, m.roster)
  BY Zenon DEF ReceiveCertifiedRoster
<1>4. s.next_hand_number <= Basis.hands
  BY <1>1, <1>2, <1>3 DEF ValidateRosterScope, Good, Sound, Counts, IsBasis
<1>5. Sealed(p, t, Basis.founded, signed, messages)
  BY <1>1, <1>2, ActivateRosterSealed DEF Good
<1>6. Sound(p, t, Basis)
  BY <1>1, <1>2, <1>3, <1>4, ActivateRosterSound DEF Good, Plays
<1>7. Good(p, t, Basis, signed, messages)
  BY <1>5, <1>6 DEF Good
<1>8. Starts(p, t, signed)
  BY Zenon, <1>1, StartsUnmoved DEF Good, Sound, IsSession, ActivateRoster
<1> QED
  BY Zenon, <1>1, <1>7, <1>8, ReceiveHandled DEF ReceiveCertifiedRoster

\* A roster proposal in scope, from which a newcomer takes the hand number.
LEMMA ReceiveRosterProposalHandled ==
  ASSUME IInv, NEW p \in Open, NEW m \in messages, ReceiveRosterProposal(p, m)
  PROVE  Handled(p)
<1> DEFINE s == session[p]
           r == m.roster
           t == AcceptRosterProposal(p, s, r)
           adopts == ~t.hand_clock_known /\ r.hand_number > t.next_hand_number
           u == [t EXCEPT
                  !.next_hand_number = IF adopts THEN r.hand_number ELSE @,
                  !.previous_receipt = IF adopts THEN r.previous ELSE @,
                  !.hand_clock_known = TRUE]
<1>1. Good(p, s, Basis, signed, messages) /\ IsBasis(Basis) /\ p \in Players
  BY BasisHolds DEF IInv, Open
<1>2. /\ EvidenceSigned(r.previous, messages) /\ r # Nil
      /\ r.hand_number \in 1 .. Basis.hands /\ r.dealer \in PhysicalSeats
  BY Zenon DEF IInv, GoodMessage, SoundMessage, SealedMessage, ReceiveRosterProposal
<1>3. Receive(p, IF p \notin Participants(r) THEN t ELSE u)
  BY Zenon DEF ReceiveRosterProposal
<1>4. s.next_hand_number <= r.hand_number
  <2>1. s.next_hand_number \in Nat /\ r.hand_number \in Nat
    BY <1>1, <1>2 DEF Good, Sound, IsSession, IsBasis
  <2>2. r.hand_number = s.next_hand_number \/ r.hand_number > s.next_hand_number
    BY Zenon DEF ReceiveRosterProposal, ValidateRosterScope
  <2> QED
    BY <2>1, <2>2
<1>5. Sealed(p, t, Basis.founded, signed, messages)
  <2>1. r.hand_number \in Nat
    BY <1>1, <1>2 DEF IsBasis
  <2> QED
    BY <1>1, <1>2, <2>1, AcceptRosterProposalSealed DEF Good
<1>6. Sound(p, t, Basis)
  BY <1>1, <1>2, <1>4, AcceptRosterProposalSound DEF Good
<1>9. t.membership = s.membership /\ t.leave_completed = s.leave_completed /\ Starts(p, t, signed)
  BY Zenon, <1>1, StartsUnmoved DEF Good, Sound, IsSession, AcceptRosterProposal
<1>7. CASE p \notin Participants(r)
  BY <1>1, <1>3, <1>5, <1>6, <1>7, <1>9, ReceiveHandled DEF Good
<1>8. CASE p \in Participants(r)
  <2>1. t.pending_roster # Nil => r.hand_number <= t.pending_roster.hand_number
    <3>1. \/ t.pending_roster = r
          \/ /\ t.pending_roster = s.pending_roster
             /\ s.pending_roster # Nil => ~(r.hand_number > s.pending_roster.hand_number)
      BY <1>1, <1>8 DEF AcceptRosterProposal, Good, Sound, IsSession
    <3>2. s.pending_roster # Nil => s.pending_roster.hand_number \in 1 .. Basis.hands
      BY <1>1 DEF Good, Sound, Rosters, Plays
    <3> QED
      BY <1>1, <1>2, <3>1, <3>2 DEF IsBasis
  <2> HIDE DEF t
  <2>2. u.next_hand_number \in {t.next_hand_number, r.hand_number}
    BY <1>6 DEF Sound, IsSession
  <2>3. Sealed(p, u, Basis.founded, signed, messages)
    BY <1>1, <1>2, <1>5 DEF Sealed, IsSession, Collected, Playable, Heard, IsBasis
  <2>4. IsSession(u) /\ Counts(p, u, Basis)
    BY <1>1, <1>2, <1>6 DEF Sound, IsSession, Counts, IsBasis
  <2>5. Memberships(p, u, Basis)
    BY <1>6 DEF Sound, IsSession, Memberships, Known
  <2>6. Rosters(p, u, Basis) /\ (NilIsNoRecord => Paired(u))
    BY <1>6, <2>1 DEF Sound, IsSession, Rosters, Paired
  <2>7. Good(p, u, Basis, signed, messages)
    BY <2>3, <2>4, <2>5, <2>6 DEF Good, Sound
  <2>8. Starts(p, u, signed)
    BY Zenon, <1>6, <1>9, StartsUnmoved DEF Sound, IsSession
  <2> HIDE DEF u
  <2> QED
    BY <1>1, <1>3, <1>8, <2>7, <2>8, ReceiveHandled
<1> QED
  BY <1>7, <1>8

\* The acceptance of the pending roster.
LEMMA ReceiveRosterAcceptanceHandled ==
  ASSUME IInv, NEW p \in Open, NEW m \in messages, ReceiveRosterAcceptance(p, m)
  PROVE  Handled(p)
<1> DEFINE s == session[p]
           t == [s EXCEPT !.roster_accepted = @ \cup {m.player}]
<1>1. Good(p, s, Basis, signed, messages) /\ p \in Players
  BY DEF IInv, Open
<1>2. /\ <<m.player, s.pending_roster>> \in signed
      /\ s.pending_roster # Nil /\ m.player \in Participants(s.pending_roster)
  BY Zenon DEF IInv, GoodMessage, SoundMessage, SealedMessage, ReceiveRosterAcceptance
<1>3. Sealed(p, t, Basis.founded, signed, messages)
  BY <1>1, <1>2 DEF Good, Sealed, IsSession, Collected, Playable, Heard
<1>4. IsSession(t) /\ Counts(p, t, Basis) /\ Memberships(p, t, Basis)
  BY <1>1 DEF Good, Sound, IsSession, Counts, Memberships, Known
<1>5. Rosters(p, t, Basis) /\ (NilIsNoRecord => Paired(t))
  BY <1>1, <1>2 DEF Good, Sound, IsSession, Rosters, Paired
<1>6. Good(p, t, Basis, signed, messages)
  BY <1>3, <1>4, <1>5 DEF Good, Sound
<1>7. Starts(p, t, signed)
  BY <1>1, StartsUnmoved DEF Good, Sound, IsSession
<1> QED
  BY Zenon, <1>1, <1>6, <1>7, ReceiveHandled DEF ReceiveRosterAcceptance

\* All of handle_message.
LEMMA MessageHandled ==
  ASSUME IInv, NEW p \in Players, NEW m \in messages, HandleMessage(p, m)
  PROVE  Handled(p) /\ p \in Open
<1>1. p \in Open
  BY DEF HandleMessage, Open
<1> QED
  BY <1>1, ReceiveJoinIntentHandled, ReceiveLeaveIntentHandled, ReceiveMembershipProposalHandled,
     ReceiveMembershipAcceptanceHandled, ReceiveCertifiedMembershipHandled,
     ReceiveCertifiedRosterHandled, ReceiveRosterProposalHandled, ReceiveRosterAcceptanceHandled
     DEF HandleMessage

\* on_hand_boundary keeps the invariant.
LEMMA HandBoundaryKeeps ==
  ASSUME IInv, NEW p \in Players, HandBoundary(p)
  PROVE  IInv'
<1> DEFINE r == hand[p].roster
           e == [hand |-> r.hand_number, by |-> 0, version |-> r.membership.version]
           f == FinishHandBoundary(p, session[p], e, r.dealer)
           t == IF ~session[p].hand_active THEN session[p] ELSE f
           h == [hand[p] EXCEPT !.done = TRUE]
<1>1. /\ Process(p, t, h)
      /\ UNCHANGED <<down, setup, messages, receipts, claims>>
      /\ p \in Open /\ hand[p] # Nil
  BY DEF HandBoundary, Open
<1>2. Good(p, session[p], Basis, signed, messages) /\ IsBasis(Basis) /\ Underway(p, hand[p], signed)
  BY <1>1, BasisHolds DEF IInv
<1>3. EvidenceSigned(e, messages)
  BY DEF EvidenceSigned
<1> HIDE DEF e
<1>4. Sealed(p, f, Basis.founded, signed, messages)
  BY <1>2, <1>3, FinishHandBoundarySealed DEF Good
<1>5. session[p].hand_active => Sound(p, f, Basis)
  BY <1>1, <1>2, FinishHandBoundarySound DEF Good, Underway
<1>6. Good(p, t, Basis, signed, messages)
  BY <1>2, <1>4, <1>5 DEF Good
<1>7. Good(p, t, Basis, signed', messages')
  BY <1>1, <1>6, GrowsGood DEF Process
<1>8. h.roster = r
  OBVIOUS
<1>9. Underway(p, h, signed)
  BY <1>1, <1>2, <1>8 DEF Underway
<1>10. claims' \in [Players -> 0 .. MaxClaims]
  BY <1>1 DEF IInv
<1> HIDE DEF t, h
<1> QED
  BY <1>1, <1>7, <1>9, <1>10, ProcessKeeps

\* force_local_leave_if_due keeps the invariant.
LEMMA ForceLeaveKeeps ==
  ASSUME IInv, NEW p \in Players, ForceLeave(p)
  PROVE  IInv'
<1> DEFINE s == session[p]
           t == [s EXCEPT !.leave_completed = TRUE]
<1>1. /\ Process(p, t, hand[p])
      /\ UNCHANGED <<down, setup, messages, receipts, claims>>
      /\ p \in Open
  BY DEF ForceLeave, Open
<1>2. Good(p, s, Basis, signed, messages)
  BY <1>1 DEF IInv
<1>3. Sealed(p, t, Basis.founded, signed, messages)
  BY <1>2 DEF Good, Sealed, IsSession, Collected, Playable, Heard
<1>4. IsSession(t) /\ Counts(p, t, Basis) /\ Memberships(p, t, Basis)
  BY <1>2 DEF Good, Sound, IsSession, Counts, Memberships, Known
<1>5. Rosters(p, t, Basis) /\ (NilIsNoRecord => Paired(t))
  BY <1>2 DEF Good, Sound, IsSession, Rosters, Paired
<1>6. Good(p, t, Basis, signed', messages')
  BY <1>1, <1>3, <1>4, <1>5, Grows DEF Process, Good, Sound
<1>7. Underway(p, hand[p], signed) /\ claims' \in [Players -> 0 .. MaxClaims]
  BY <1>1 DEF IInv
<1> HIDE DEF t
<1> QED
  BY <1>1, <1>6, <1>7, ProcessKeeps

\* The session of a player who just sat down is good.
LEMMA NewSessionGood ==
  ASSUME NEW p \in Players, NEW B, IsBasis(B), NEW c \in 1 .. B.claims, NEW S, NEW M
  PROVE  Good(p, NewSession(p, c), B, S, M)
<1> DEFINE s == NewSession(p, c)
<1>1. IsSession(s)
  BY DEF NewSession, IsSession
<1>2. Collected(p, s, S) /\ Ratified(s.membership, B.founded, S) /\ Playable(s, S)
  BY DEF NewSession, Collected, Ratified, Playable, Agreed
<1>3. Heard(s, M)
  BY DEF NewSession, Heard, LeavesSigned, EvidenceSigned
<1> QED
  BY <1>1, <1>2, <1>3, NewSessionSound DEF Good, Sealed

\* Every initial state satisfies the invariant.
LEMMA InitIsGood == Init => IInv
<1> SUFFICES ASSUME Init PROVE IInv
  OBVIOUS
<1>1. /\ setup \in Setups
      /\ DOMAIN session = Players /\ DOMAIN hand = Players /\ down \in [Players -> SUBSET Players]
      /\ receipts \subseteq signed /\ messages = {}
  BY Zenon DEF Init
<1>2. IsBasis(Basis) /\ Basis.claims = MaxClaims /\ Basis.founded = Founded
  BY <1>1, BasisHolds DEF Basis
<1>3. 1 \in 1 .. Basis.claims
  BY <1>2 DEF IsBasis
<1>4. claims \in [Players -> 0 .. MaxClaims]
  <2>1. MaxClaims \in Nat \ {0}
    BY <1>2 DEF IsBasis
  <2>2. 0 \in 0 .. MaxClaims /\ 1 \in 0 .. MaxClaims
    BY <2>1
  <2>3. claims = [p \in Players |-> IF p \in Founders THEN 1 ELSE 0]
    BY Zenon DEF Init
  <2> QED
    BY <2>2, <2>3
<1>5. ASSUME NEW p \in Open
      PROVE  Good(p, session[p], Basis, signed, messages) /\ ~session[p].leave_completed
  <2> DEFINE n == NewSession(p, 1)
             j == [q \in Players |-> IF q \in Founders THEN 1 ELSE 0]
             c == IF Cardinality(Founders) >= 2 THEN "running" ELSE "none"
             k == p = Min(Founders)
             s == [n EXCEPT !.joins = j, !.membership = Founded, !.countdown = c,
                            !.hand_clock_known = k]
  <2>1. session[p] = s /\ p \in Players /\ p \in Founders
    BY Zenon DEF Init, Open
  <2>2. Good(p, n, Basis, signed, messages)
    BY <1>2, <1>3, <2>1, NewSessionGood
  <2>3. /\ IsProposal(Founded, Basis)
        /\ SeatClaims(Founded) \subseteq [player : Founders, claim : {1}]
    BY <1>1, <1>2, FoundedIsProposal
  <2>4. Founded.waiting = {} /\ Founded.leaves = [q \in Players |-> NoLeave]
    BY DEF Founded
  <2>5. Founders \subseteq Players
    BY <1>1, TableAssumption DEF Founders
  <2>6. j \in [Players -> 0 .. Basis.claims] /\ \A q \in Founders : j[q] > 0
    BY <1>2, <1>3, <2>5 DEF IsBasis
  <2>7. c \in {"none", "running", "over"}
    OBVIOUS
  <2>8. n.leaves = [q \in Players |-> NoLeave] /\ n.pending_membership = Nil /\ ~n.leave_completed
    BY DEF NewSession
  <2> HIDE DEF n, j, c, k
  <2>9. IsSession(n)
    BY <2>2 DEF Good, Sound
  <2>10. s.joins = j /\ s.leaves = n.leaves /\ s.membership = Founded /\ s.pending_membership = Nil
    BY <2>8, <2>9 DEF IsSession
  <2>11. Known(s, Founded)
    BY <2>3, <2>4, <2>6, <2>10 DEF Known
  <2>12. Memberships(p, s, Basis)
    BY <2>2, <2>3, <2>10, <2>11 DEF Good, Sound, IsSession, Memberships
  <2>13. IsSession(s) /\ Counts(p, s, Basis)
    BY <2>1, <2>2, <2>6, <2>7 DEF Good, Sound, IsSession, Counts
  <2>14. Rosters(p, s, Basis) /\ (NilIsNoRecord => Paired(s))
    BY <2>2 DEF Good, Sound, IsSession, Rosters, Paired
  <2>15. LeavesSigned(Founded.leaves, messages)
    BY <2>4 DEF LeavesSigned
  <2>16. Sealed(p, s, Basis.founded, signed, messages)
    BY <1>2, <2>2, <2>15 DEF Good, Sealed, IsSession, Collected, Playable, Heard, Ratified
  <2>17. ~s.leave_completed
    BY <2>8, <2>9 DEF IsSession
  <2> QED
    BY <2>1, <2>12, <2>13, <2>14, <2>16, <2>17 DEF Good, Sound
<1>6. \A p \in Players : Underway(p, hand[p], signed)
  BY Zenon DEF Init, Underway
<1> QED
  BY <1>1, <1>4, <1>5, <1>6 DEF IInv

\* Every step keeps the invariant.
LEMMA NextKeeps == IInv /\ [Next]_vars => IInv'
<1> SUFFICES ASSUME IInv, [Next]_vars PROVE IInv'
  OBVIOUS
<1> USE DEF Open
<1>1. ASSUME NEW p \in Players, NEW renews \in BOOLEAN, Tick(p, renews) PROVE IInv'
  BY <1>1, TickHandled, HandledKeeps
<1>2. ASSUME NEW p \in Players, CountdownElapses(p) PROVE IInv'
  <2> DEFINE t == [session[p] EXCEPT !.countdown = "over"]
  <2>1. /\ session' = [session EXCEPT ![p] = t]
        /\ UNCHANGED <<hand, down, messages, claims, signed, receipts, setup>>
    BY <1>2 DEF CountdownElapses
  <2>2. Good(p, session[p], Basis, signed, messages) /\ ~session[p].leave_completed
    BY <1>2 DEF CountdownElapses, IInv
  <2>3. Sound(p, t, Basis)
    BY Zenon, <2>2, CountdownSound DEF Good
  <2>4. Sealed(p, t, Basis.founded, signed, messages) /\ ~t.leave_completed
    BY <2>2 DEF Good, Sealed, IsSession, Collected, Playable, Heard
  <2>5. Basis' = Basis /\ MaxClaims' = MaxClaims
    BY <2>1, BasisStays
  <2>6. Good(p, t, Basis, signed, messages)
    BY <2>3, <2>4 DEF Good
  <2> HIDE DEF t
  <2> QED
    BY <2>1, <2>4, <2>5, <2>6 DEF IInv
<1>3. ASSUME NEW p \in Players, Join(p) PROVE IInv'
  <2> DEFINE t == NewSession(p, claims[p] + 1)
  <2>1. /\ session' = [session EXCEPT ![p] = t]
        /\ claims' = [claims EXCEPT ![p] = @ + 1]
        /\ UNCHANGED <<hand, down, messages, signed, receipts, setup>>
        /\ claims[p] < MaxClaims
    BY <1>3 DEF Join
  <2>2. IsBasis(Basis) /\ Basis.claims = MaxClaims
    BY BasisHolds DEF IInv, Basis
  <2>3. claims[p] + 1 \in 1 .. MaxClaims /\ claims' \in [Players -> 0 .. MaxClaims]
    BY <2>1, <2>2 DEF IInv, IsBasis
  <2>4. Good(p, t, Basis, signed, messages)
    BY <2>2, <2>3, NewSessionGood
  <2>5. ~t.leave_completed
    BY DEF NewSession
  <2>6. Basis' = Basis /\ MaxClaims' = MaxClaims
    BY <2>1, BasisStays
  <2> HIDE DEF t
  <2> QED
    BY <2>1, <2>3, <2>4, <2>5, <2>6 DEF IInv
<1>4. ASSUME NEW p \in Players, RequestLeave(p) PROVE IInv'
  BY <1>4, RequestLeaveKeeps
<1>5. ASSUME NEW p \in Players, ForceLeave(p) PROVE IInv'
  BY <1>5, ForceLeaveKeeps
<1>6. ASSUME NEW p \in Players, NEW m \in messages, HandleMessage(p, m) PROVE IInv'
  BY <1>6, MessageHandled, HandledKeeps
<1>7. ASSUME NEW p \in Players, SignReceipt(p) PROVE IInv'
  <2>1. /\ UNCHANGED <<session, hand, down, messages, claims, signed, setup>>
        /\ receipts' = receipts \cup {<<p, hand[p].roster>>}
        /\ hand[p] # Nil
    BY <1>7 DEF SignReceipt
  <2>2. <<p, hand[p].roster>> \in signed
    BY <2>1 DEF IInv, Underway, Unanimous
  <2>3. Basis' = Basis /\ MaxClaims' = MaxClaims
    BY <2>1, BasisStays
  <2> QED
    BY <2>1, <2>2, <2>3 DEF IInv
<1>8. ASSUME NEW p \in Players, HandBoundary(p) PROVE IInv'
  BY <1>8, HandBoundaryKeeps
<1>9. ASSUME NEW p \in Players, NEW q \in Players, PeerDown(p, q) \/ PeerUp(p, q) PROVE IInv'
  <2>1. down' \in [Players -> SUBSET Players]
    BY <1>9 DEF PeerDown, PeerUp, IInv
  <2>2. UNCHANGED <<session, hand, messages, claims, signed, receipts, setup>>
    BY <1>9 DEF PeerDown, PeerUp
  <2>3. Basis' = Basis /\ MaxClaims' = MaxClaims
    BY <2>2, BasisStays
  <2> QED
    BY <2>1, <2>2, <2>3 DEF IInv
<1>10. CASE UNCHANGED vars
  <2>1. Basis' = Basis /\ MaxClaims' = MaxClaims
    BY <1>10, BasisStays DEF vars
  <2> QED
    BY <1>10, <2>1 DEF vars, IInv
<1> QED
  BY <1>1, <1>2, <1>3, <1>4, <1>5, <1>6, <1>7, <1>8, <1>9, <1>10 DEF Next

-----------------------------------------------------------------------------
\* The invariant says that everything in effect was signed.
LEMMA GoodMeansSigned == IInv => EverythingIsSigned
<1> SUFFICES ASSUME IInv PROVE EverythingIsSigned
  OBVIOUS
<1>1. CertifiedByAll
  BY Zenon DEF IInv, CertifiedByAll, Open, Certified, Good, Sealed, Ratified, Unanimous, Basis
<1>2. HandsAreAgreed
  BY DEF IInv, HandsAreAgreed, Underway, Unanimous
<1>3. AbandonmentIsSigned
  BY Zenon DEF IInv, AbandonmentIsSigned, Open, Good, Sealed, Heard, EvidenceSigned, Signed
<1> QED
  BY <1>1, <1>2, <1>3 DEF EverythingIsSigned

\* No membership takes effect without the signature of everybody seated in
\* it, no hand without those of its participants, no abandonment without the
\* leave of the abandoned player, however messages are lost, repeated and
\* reordered (activate_membership, finalize_roster_if_ready,
\* signed_disconnected_leaver).
THEOREM SessionsAreSigned == Spec => []EverythingIsSigned
BY InitIsGood, NextKeeps, GoodMeansSigned, PTL DEF Spec

\* The invariant implies the types.
LEMMA GoodMeansTyped ==
  ASSUME NilIsNoRecord, IInv, hashOrder \in BOOLEAN, drops \in 0 .. MaxDrops
  PROVE  TypeOK
<1>1. \A p \in Open : Sound(p, session[p], Basis)
  BY DEF IInv, Good
<1>2. Basis.claims = MaxClaims /\ Basis.hands = MaxHands
  BY DEF Basis
<1>3. ASSUME NEW p \in Open
      PROVE  LET s == session[p]
             IN  /\ s.joins \in [Players -> 0 .. MaxClaims]
                 /\ s.leaves \in [Players -> NoLeave .. MaxHands]
                 /\ s.next_hand_number \in 1 .. MaxHands + 1
                 /\ s.countdown \in {"none", "running", "over"}
                 /\ s.previous_dealer \in PhysicalSeats \cup {Nil}
                 /\ s.hand_active = (s.active_roster # Nil)
                 /\ s.membership_accepted \subseteq
                      IF s.pending_membership = Nil THEN {} ELSE Seated(s.pending_membership)
                 /\ s.roster_accepted \subseteq
                      IF s.pending_roster = Nil THEN {} ELSE Participants(s.pending_roster)
  <2>1. Counts(p, session[p], Basis) /\ Paired(session[p])
    BY <1>1 DEF Sound
  <2> QED
    BY <1>2, <2>1 DEF Counts, Paired
<1> QED
  BY Zenon, <1>3 DEF TypeOK, IInv

\* The hash order never changes, and connections are lost within their bound.
LEMMA BoundsKeep ==
  /\ Init => hashOrder \in BOOLEAN /\ drops \in 0 .. MaxDrops
  /\ IInv /\ hashOrder \in BOOLEAN /\ drops \in 0 .. MaxDrops /\ [Next]_vars
       => (hashOrder \in BOOLEAN /\ drops \in 0 .. MaxDrops)'
<1>1. setup \in Setups => MaxDrops \in Nat
  BY TableAssumption DEF MaxDrops
<1>2. Init => hashOrder \in BOOLEAN /\ drops \in 0 .. MaxDrops
  <2>1. Init => hashOrder \in BOOLEAN /\ drops = 0 /\ setup \in Setups
    BY Zenon DEF Init
  <2> QED
    BY <1>1, <2>1
<1>3. ASSUME IInv, hashOrder \in BOOLEAN, drops \in 0 .. MaxDrops, [Next]_vars
      PROVE  (hashOrder \in BOOLEAN /\ drops \in 0 .. MaxDrops)'
  <2> USE <1>1, <1>3 DEF IInv
  <2>1. ASSUME NEW p \in Players, NEW q \in Players, PeerDown(p, q)
        PROVE  (hashOrder \in BOOLEAN /\ drops \in 0 .. MaxDrops)'
    <3>1. drops < MaxDrops /\ drops' = drops + 1 /\ UNCHANGED <<hashOrder, setup>>
      BY Zenon, <2>1 DEF PeerDown
    <3>2. MaxDrops' = MaxDrops
      BY Zenon, <3>1 DEF MaxDrops
    <3>3. MaxDrops \in Nat
      BY Zenon, <1>1, <1>3 DEF IInv
    <3> HIDE <1>1, <1>3 DEF IInv
    <3>4. drops' \in 0 .. MaxDrops
      BY <1>3, <3>1, <3>3
    <3> QED
      BY Zenon, <1>3, <3>1, <3>2, <3>4
  <2>2. ASSUME UNCHANGED <<drops, hashOrder, setup>>
        PROVE  (hashOrder \in BOOLEAN /\ drops \in 0 .. MaxDrops)'
    BY Zenon, <2>2 DEF MaxDrops
  <2>3. ASSUME NEW p \in Players, NEW m \in messages, HandleMessage(p, m)
        PROVE  UNCHANGED <<drops, hashOrder, setup>>
    BY Zenon, <2>3 DEF HandleMessage, ReceiveJoinIntent, ReceiveLeaveIntent, ReceiveMembershipProposal,
         ReceiveMembershipAcceptance, ReceiveCertifiedMembership, ReceiveCertifiedRoster,
         ReceiveRosterProposal, ReceiveRosterAcceptance, Receive
  <2> QED
    BY Zenon, <2>1, <2>2, <2>3 DEF Next, vars, Tick, CountdownElapses, Join, RequestLeave, ForceLeave,
         SignReceipt, HandBoundary, PeerUp
<1> QED
  BY <1>2, <1>3

\* Every field of a session has its type, acceptances are collected only for
\* the pending proposal, and a hand is active exactly while there is an
\* active roster (accept_*_proposal, activate_*, finish_hand_boundary reset
\* them together).
THEOREM TypeCorrect ==
  ASSUME NilIsNoRecord
  PROVE  Spec => []TypeOK
<1> DEFINE J == IInv /\ hashOrder \in BOOLEAN /\ drops \in 0 .. MaxDrops
<1>1. Init => J
  BY InitIsGood, BoundsKeep
<1>2. J /\ [Next]_vars => J'
  BY NextKeeps, BoundsKeep
<1>3. J => TypeOK
  BY GoodMeansTyped
<1> QED
  BY <1>1, <1>2, <1>3, PTL DEF Spec

-----------------------------------------------------------------------------
\* What a step of p does to its membership and its room.
Moves(p) ==
  LET m == session[p].membership
  IN  /\ session'[p] # Nil /\ m # Nil =>
           \/ session'[p].membership = m
           \/ session'[p].membership # Nil /\ session'[p].membership.previous = m
      /\ NilIsNoRecord /\ session'[p] = Nil =>
           p \in forced' \/ LocalIsOnlySeat(p, session[p]) \/ CertifiedWithout(p, signed')

\* process_table_session_events closes a room only for a completed leave, and
\* changes no other session.
LEMMA ProcessMoves ==
  ASSUME IInv, NEW p \in Open, NEW s, NEW h, Process(p, s, h), IsSession(s)
  PROVE  /\ signed \subseteq signed'
         /\ \A q \in Open \ {p} : session'[q] = session[q]
         /\ session'[p] # Nil => session'[p].membership = s.membership
         /\ NilIsNoRecord /\ session'[p] = Nil => s.leave_completed
<1>1. signed \subseteq signed' /\ \A q \in Open \ {p} : session'[q] = session[q]
  BY DEF Process, IInv, Open
<1>2. IF s.leave_completed THEN session'[p] = Nil
      ELSE session'[p] \in {s, [s EXCEPT !.ready = Nil]}
  BY DEF Process, IInv, Open
<1>3. [s EXCEPT !.ready = Nil].membership = s.membership
  BY DEF IsSession
<1>4. "joins" \in DOMAIN s /\ "joins" \in DOMAIN [s EXCEPT !.ready = Nil]
  BY DEF IsSession
<1> QED
  BY Zenon, <1>1, <1>2, <1>3, <1>4 DEF NilIsNoRecord

\* A certificate stays one.
LEMMA CertificatesStay ==
  ASSUME NEW p, NEW S, NEW T, S \subseteq T, CertifiedWithout(p, S)
  PROVE  CertifiedWithout(p, T)
BY DEF CertifiedWithout

\* What Converge does to the membership: it leaves it alone or moves to the
\* pending one, which succeeds it.
LEMMA HandledMoves ==
  ASSUME IInv, NEW p \in Open, Handled(p)
  PROVE  Moves(p) /\ \A q \in Open \ {p} : session'[q] = session[q]
<1>1. PICK s, h, b : /\ Converge(p, s, h, b) /\ Good(p, s, Basis, signed, messages)
                     /\ Starts(p, s, signed)
  BY DEF Handled
<1> DEFINE n  == s.pending_membership
           s1 == FinalizeMembershipIfReady(p, s)
           s2 == MaybeProposeRoster(p, s1)
           s3 == FinalizeRosterIfReady(s2)
<1>2. Process(p, s3, h)
  BY <1>1 DEF Converge
<1>3. IsSession(s)
  BY <1>1 DEF Good, Sound
<1>4. \/ s1 = s
      \/ /\ n # Nil /\ s1.membership = n /\ s.membership_accepted = Seated(n)
         /\ s1.leave_completed => s.leave_completed \/ ~Present(n, p)
  BY Zenon, <1>3 DEF FinalizeMembershipIfReady, ActivateMembership, IsSession
<1>5. IsSession(s1)
  BY <1>3, FinalizeMembershipIfReadySound, <1>1 DEF Good, Sound
<1> HIDE DEF s1
<1>6. /\ IsSession(s2) /\ s2.membership = s1.membership
      /\ s2.leave_completed = s1.leave_completed
  BY <1>5 DEF MaybeProposeRoster, AcceptRosterProposal, IsSession, FromMembership
<1> HIDE DEF s2
<1>7. /\ IsSession(s3) /\ s3.membership = s2.membership
      /\ s3.leave_completed = s2.leave_completed
  BY <1>6 DEF FinalizeRosterIfReady, ActivateRoster, IsSession
<1> HIDE DEF s3
<1>8. /\ signed \subseteq signed' /\ \A q \in Open \ {p} : session'[q] = session[q]
      /\ session'[p] # Nil => session'[p].membership = s1.membership
      /\ NilIsNoRecord /\ session'[p] = Nil => s1.leave_completed
  BY <1>2, <1>6, <1>7, ProcessMoves
<1>9. n # Nil /\ s.membership # Nil => n.previous = s.membership
  BY <1>1 DEF Good, Sound, Memberships
<1>10. s1.leave_completed => LocalIsOnlySeat(p, session[p]) \/ CertifiedWithout(p, signed)
  <2>1. CASE s1 = s
    BY <1>1, <2>1 DEF Starts
  <2>2. CASE n # Nil /\ s.membership_accepted = Seated(n) /\ ~Present(n, p)
    <3>1. Unanimous(Seated(n), n, signed)
      BY <1>1, <2>2 DEF Good, Sealed, Collected, Unanimous, Present
    <3>2. IsProposal(n, Basis)
      BY Zenon, <1>1, <2>2 DEF Good, Sound, Memberships
    <3> QED
      BY <2>2, <3>1, <3>2, SignedWithout
  <2> QED
    BY Zenon, <1>1, <1>4, <2>1, <2>2 DEF Starts
<1> QED
  BY Zenon, <1>1, <1>4, <1>8, <1>9, <1>10, CertificatesStay DEF Moves, Starts

\* Only p's own step changes p's session.
LEMMA StepMoves ==
  ASSUME IInv, [Next]_vars, NEW p \in Open
  PROVE  Moves(p)
<1> DEFINE Same(q) == \A x \in Open \ {q} : session'[x] = session[x]
<1>1. session'[p] = session[p] => Moves(p)
  BY DEF Moves, Open
<1>2. ASSUME NEW q \in Players, NEW renews \in BOOLEAN, Tick(q, renews)
      PROVE  Moves(p)
  <2>1. q \in Open /\ Handled(q)
    BY Zenon, <1>2, TickHandled DEF Tick, Open
  <2> QED
    BY <1>1, <2>1, HandledMoves
<1>3. ASSUME NEW q \in Players, NEW m \in messages, HandleMessage(q, m)
      PROVE  Moves(p)
  BY <1>1, <1>3, MessageHandled, HandledMoves
<1>4. ASSUME NEW q \in Players, CountdownElapses(q)
      PROVE  Moves(p)
  <2> DEFINE t == [session[q] EXCEPT !.countdown = "over"]
  <2>1. session' = [session EXCEPT ![q] = t] /\ q \in Open
    BY <1>4 DEF CountdownElapses, Open
  <2>2. IsSession(session[q])
    BY <2>1 DEF IInv, Good, Sound
  <2>3. t.membership = session[q].membership /\ "joins" \in DOMAIN t
    BY <2>2 DEF IsSession
  <2> HIDE DEF t
  <2>4. p # q => session'[p] = session[p]
    BY <2>1 DEF IInv
  <2>5. p = q => session'[p] = t
    BY <2>1 DEF IInv, Open
  <2> QED
    BY <1>1, <2>3, <2>4, <2>5 DEF Moves, NilIsNoRecord
<1>5. ASSUME NEW q \in Players, Join(q)
      PROVE  Moves(p)
  BY <1>1, <1>5 DEF Join, Open
<1>6. ASSUME NEW q \in Open, NEW s, NEW h, Process(q, s, h), IsSession(s),
             s.membership = session[q].membership,
             s.leave_completed => q \in forced' \/ LocalIsOnlySeat(q, session[q])
      PROVE  Moves(p)
  BY <1>1, <1>6, ProcessMoves DEF Moves
<1>7. ASSUME NEW q \in Players, RequestLeave(q)
      PROVE  Moves(p)
  <2> DEFINE s0 == session[q]
             s1 == [s0 EXCEPT !.leaves[q] = IF s0.hand_active THEN s0.next_hand_number ELSE Idle,
                              !.local_leave = TRUE,
                              !.ready = Nil]
             s2 == IF s0.hand_active THEN s1
                   ELSE [s1 EXCEPT !.pending_membership = Nil,
                                   !.membership_accepted = {},
                                   !.local_membership_acceptance = Nil,
                                   !.leave_completed = LocalIsOnlySeat(q, s0)]
  <2>1. Process(q, s2, hand[q]) /\ q \in Open
    BY <1>7 DEF RequestLeave, Open
  <2>2. Sealed(q, s0, Basis.founded, signed, messages) /\ ~s0.leave_completed
    BY <2>1 DEF IInv, Good
  <2>3. IsSession(s1) /\ s1.membership = s0.membership /\ s1.leave_completed = s0.leave_completed
    BY <2>2 DEF Sealed, IsSession
  <2> HIDE DEF s1
  <2>4. /\ IsSession(s2) /\ s2.membership = s0.membership
        /\ s2.leave_completed => LocalIsOnlySeat(q, s0)
    BY <2>2, <2>3 DEF IsSession
  <2> HIDE DEF s2
  <2> QED
    BY <1>6, <2>1, <2>4
<1>8. ASSUME NEW q \in Players, ForceLeave(q)
      PROVE  Moves(p)
  <2> DEFINE s == [session[q] EXCEPT !.leave_completed = TRUE]
  <2>1. Process(q, s, hand[q]) /\ q \in forced' /\ q \in Open
    BY <1>8 DEF ForceLeave, Open
  <2>2. IsSession(session[q])
    BY <2>1 DEF IInv, Good, Sound
  <2>3. IsSession(s) /\ s.membership = session[q].membership
    BY <2>2 DEF IsSession
  <2> HIDE DEF s
  <2> QED
    BY <1>6, <2>1, <2>3
<1>9. ASSUME NEW q \in Players, HandBoundary(q)
      PROVE  Moves(p)
  <2> DEFINE r == hand[q].roster
             e == [hand |-> r.hand_number, by |-> 0, version |-> r.membership.version]
             s == IF ~session[q].hand_active THEN session[q]
                  ELSE FinishHandBoundary(q, session[q], e, r.dealer)
  <2>1. Process(q, s, [hand[q] EXCEPT !.done = TRUE]) /\ q \in Open
    BY <1>9 DEF HandBoundary, Open
  <2>2. IsSession(session[q]) /\ ~session[q].leave_completed
    BY <2>1 DEF IInv, Good, Sound
  <2>6. EvidenceSigned(e, messages)
    BY DEF EvidenceSigned
  <2> HIDE DEF e
  <2> DEFINE f == FinishHandBoundary(q, session[q], e, r.dealer)
  <2>4. /\ f.membership = session[q].membership
        /\ f.leave_completed => session[q].leave_completed \/ LocalIsOnlySeat(q, session[q])
    BY Zenon, <2>2 DEF IsSession, FinishHandBoundary, BoundaryAt
  <2>5. IsSession(f)
    BY Zenon, <2>1, <2>6, FinishHandBoundarySealed DEF IInv, Good, Sealed
  <2> HIDE DEF f
  <2>3. /\ IsSession(s) /\ s.membership = session[q].membership
        /\ s.leave_completed => LocalIsOnlySeat(q, session[q])
    BY <2>2, <2>4, <2>5 DEF f
  <2> HIDE DEF s
  <2> QED
    BY <1>6, <2>1, <2>3
<1>10. ASSUME UNCHANGED session
       PROVE  Moves(p)
  BY <1>1, <1>10
<1> QED
  BY Zenon, <1>2, <1>3, <1>4, <1>5, <1>7, <1>8, <1>9, <1>10
     DEF Next, vars, SignReceipt, PeerDown, PeerUp

\* Who has a seat in a membership and no leave intent has it in the next.
LEMMA MovesKeepSeats ==
  ASSUME IInv, IInv', NEW p \in Open, Moves(p), session'[p] # Nil, session[p].membership # Nil
  PROVE  KeepsSeat(p, session[p].membership, session'[p].membership)
<1> DEFINE m == session[p].membership
           n == session'[p].membership
<1>1. CASE n = m
  BY <1>1 DEF KeepsSeat
<1>2. CASE n # Nil /\ n.previous = m
  <2>1. p \in Open'
    BY DEF Open
  <2>2. IsProposal(n, Basis') /\ Known(session'[p], n)
    BY Zenon, <1>2, <2>1 DEF IInv, Good, Sound, Memberships
  <2>3. Succeeds(n, m)
    BY Zenon, <1>2, <2>2 DEF IsProposal
  <2>4. IsProposal(m, Basis)
    BY Zenon DEF IInv, Good, Sound, Memberships
  <2>5. \A i \in DOMAIN m.seats : m.seats[i].player \in Players
    BY <2>4 DEF IsProposal, ClaimsOf
  <2>6. \A i \in DOMAIN m.seats :
          \/ i \in DOMAIN n.seats /\ n.seats[i].player = m.seats[i].player
          \/ n.leaves[m.seats[i].player] # NoLeave
    BY Zenon, <2>3 DEF Succeeds
  <2>7. \A q \in Players : n.leaves[q] # NoLeave => session'[p].leaves[q] # NoLeave
    BY <2>2 DEF Known
  <2>8. \A i \in DOMAIN m.seats :
          \/ i \in DOMAIN n.seats /\ n.seats[i].player = m.seats[i].player
          \/ m.seats[i].player \in Leaving(session'[p])
    BY Zenon, <2>5, <2>6, <2>7 DEF Leaving
  <2> QED
    BY <2>8 DEF KeepsSeat
<1> QED
  BY <1>1, <1>2 DEF Moves

\* Nobody who did not ask to leave loses or changes the physical seat when
\* the membership changes: every membership that takes effect succeeds the
\* one before it, and keeps the seats of those without a leave intent
\* (next_membership_layout, validate_membership_scope, activate_membership).
THEOREM SeatsAreKept == Spec => SeatsSurvive
<1>1. IInv /\ IInv' /\ [Next]_vars =>
        [\A p \in Open : session'[p] # Nil /\ session[p].membership # Nil =>
           KeepsSeat(p, session[p].membership, session'[p].membership)]_vars
  BY StepMoves, MovesKeepSeats
<1> QED
  BY <1>1, InitIsGood, NextKeeps, PTL DEF Spec, SeatsSurvive

\* A room closes for its player only when a leave timer forces it, when the
\* player was alone, or after everybody seated in a membership without the
\* player signed it (activate_membership, request_leave,
\* finish_hand_boundary, force_local_leave_if_due).
THEOREM LeavesAreCertified ==
  ASSUME NilIsNoRecord
  PROVE  Spec => LeaveIsCertified
<1>1. IInv /\ [Next]_vars =>
        [\A p \in Open : session'[p] = Nil =>
           \/ p \in forced'
           \/ LocalIsOnlySeat(p, session[p])
           \/ \E x \in signed' : x[1] # p /\ "seats" \in DOMAIN x[2] /\ ~Present(x[2], p)
                /\ \A q \in Seated(x[2]) : <<q, x[2]>> \in signed']_vars
  BY StepMoves DEF Moves, CertifiedWithout
<1> QED
  BY <1>1, InitIsGood, NextKeeps, PTL DEF Spec, LeaveIsCertified

-----------------------------------------------------------------------------
\* The seats and the queue of a session that works out a next layout.
LEMMA SeatingIs ==
  ASSUME NEW p, NEW s, NEW B, Sound(p, s, B), s.membership # Nil
  PROVE  LET m == s.membership
             free == PhysicalSeats \ Kept(s)
         IN  /\ DOMAIN m.seats \in SUBSET PhysicalSeats
             /\ \A i \in DOMAIN m.seats : m.seats[i].player \in Joined(s)
             /\ Kept(s) = {i \in DOMAIN m.seats :
                             s.hand_active \/ m.seats[i].player \notin Leaving(s)}
             /\ free \in SUBSET Nat /\ IsFiniteSet(free) /\ Cardinality(free) \in Nat
             /\ Candidates(s) \in SUBSET Nat /\ IsFiniteSet(Candidates(s))
             /\ Admitted(s) \in SUBSET Candidates(s) /\ IsFiniteSet(Admitted(s))
             /\ Cardinality(Admitted(s)) <= Cardinality(free)
<1> DEFINE m == s.membership
           free == PhysicalSeats \ Kept(s)
<1>1. IsProposal(m, B) /\ Known(s, m)
  BY DEF Sound, Memberships
<1>2. DOMAIN m.seats \in SUBSET PhysicalSeats /\ \A i \in DOMAIN m.seats : m.seats[i].player \in Players
  BY <1>1 DEF IsProposal, ClaimsOf
<1>3. \A i \in DOMAIN m.seats : m.seats[i].player \in Joined(s)
  BY <1>1, <1>2 DEF Known, SeatClaims, Joined
<1>4. Kept(s) = {i \in DOMAIN m.seats : s.hand_active \/ m.seats[i].player \notin Leaving(s)}
  BY <1>3 DEF Kept
<1>5. free \in SUBSET Nat /\ IsFiniteSet(free)
  <2>1. IsFiniteSet(PhysicalSeats) /\ PhysicalSeats \in SUBSET Nat
    BY TableAssumption, FS_Interval DEF PhysicalSeats
  <2> QED
    BY Zenon, <2>1, FS_Subset
<1>6. Candidates(s) \in SUBSET Nat /\ IsFiniteSet(Candidates(s))
  <2>1. Candidates(s) \in SUBSET Players
    BY DEF Candidates, Joined
  <2> QED
    BY Zenon, <2>1, TableAssumption, FS_Subset
<1>7. Cardinality(free) \in Nat
  BY <1>5, FS_CardinalityType
<1>8. /\ Admitted(s) \in SUBSET Candidates(s) /\ IsFiniteSet(Admitted(s))
      /\ Cardinality(Admitted(s)) <= Cardinality(free)
  <2>1. CASE s.hand_active
    <3>1. Admitted(s) = {}
      BY <2>1 DEF Admitted
    <3> QED
      BY <1>7, <3>1, FS_EmptySet
  <2>2. CASE ~s.hand_active
    <3>1. Admitted(s) = {q \in Candidates(s) : Place(Candidates(s), q) <= Cardinality(free)}
      BY <2>2 DEF Admitted
    <3> HIDE DEF free
    <3> QED
      BY <1>6, <1>7, <3>1, FirstMembers
  <2> QED
    BY <2>1, <2>2
<1> QED
  BY Zenon, <1>2, <1>3, <1>4, <1>5, <1>6, <1>7, <1>8

\* The next layout fits the table, and lists nobody twice.
LEMMA LayoutFits ==
  ASSUME NEW p, NEW s, NEW B, IsBasis(B), Sound(p, s, B), s.membership # Nil,
         DOMAIN NextProposal(s).seats # {}
  PROVE  Validate(AsMembership(NextProposal(s)))
<1> DEFINE n == NextProposal(s)
           a == AsMembership(n)
           queue == Candidates(s) \ Admitted(s)
           W == {x \in queue : Place(queue, x) <= WaitingCapacity}
<1>1. n.seats = NextSeats(s) /\ n.waiting = NextWaiting(s)
  BY DEF NextProposal
<1>2. IsProposal(n, B)
  BY NextProposalIs
<1>3. a.seats = [i \in DOMAIN NextSeats(s) |-> NextSeats(s)[i].player] /\ a.waiting = NextWaiting(s)
  BY <1>1 DEF AsMembership
<1>4. /\ DOMAIN a.seats = DOMAIN NextSeats(s)
      /\ \A i \in DOMAIN a.seats : a.seats[i] = NextSeats(s)[i].player
  BY <1>3
<1>5. DOMAIN a.seats \in SUBSET PhysicalSeats /\ IsFiniteSet(DOMAIN a.seats)
  <2>1. DOMAIN a.seats \in SUBSET PhysicalSeats
    BY Zenon, <1>1, <1>2, <1>4 DEF IsProposal
  <2>2. IsFiniteSet(PhysicalSeats)
    BY TableAssumption, FS_Interval DEF PhysicalSeats
  <2> QED
    BY <2>1, <2>2, FS_Subset
<1>6. \A i, j \in DOMAIN a.seats : a.seats[i] = a.seats[j] => i = j
  BY Zenon, <1>1, <1>2, <1>4 DEF IsProposal
<1> SUFFICES Validate(a)
  OBVIOUS
<1> HIDE DEF a, n
<1>7. Cardinality(Members(a)) = Cardinality(DOMAIN a.seats)
  <2>1. Members(a) = {a.seats[i] : i \in DOMAIN a.seats}
    BY DEF Members
  <2> QED
    BY <1>5, <1>6, <2>1, ValuesCount
<1>8. queue \in SUBSET Nat /\ IsFiniteSet(queue) /\ queue \subseteq Candidates(s)
  BY Zenon, SeatingIs, FS_Subset
<1>9. NextWaiting(s) = {ClaimOf(s, q) : q \in W}
  BY DEF NextWaiting
<1>10. IsFiniteSet(W) /\ Cardinality(W) <= WaitingCapacity /\ W \subseteq queue
  <2>1. WaitingCapacity \in Nat
    BY TableAssumption
  <2> HIDE DEF queue
  <2> QED
    BY <1>8, <2>1, FirstMembers
<1>11. Cardinality(NextWaiting(s)) = Cardinality(W)
  <2> DEFINE f == [q \in W |-> ClaimOf(s, q)]
  <2>1. DOMAIN f = W /\ \A x, y \in W : f[x] = f[y] => x = y
    BY DEF ClaimOf
  <2>2. NextWaiting(s) = {f[x] : x \in W}
    BY <1>9
  <2> HIDE DEF f, W
  <2> QED
    BY <1>10, <2>1, <2>2, ValuesCount
<1>12. PlayersOf(NextWaiting(s)) = W
  <2>1. \A q \in W : ClaimOf(s, q).player = q
    BY DEF ClaimOf
  <2> HIDE DEF W
  <2> QED
    BY <1>9, <2>1 DEF PlayersOf
<1>13. Members(a) \cap PlayersOf(NextWaiting(s)) = {}
  <2>1. \A i \in DOMAIN NextSeats(s) : NextSeats(s)[i].player \notin queue
    <3>1. /\ \A i \in Kept(s) : NextSeats(s)[i] = ClaimOf(s, s.membership.seats[i].player)
          /\ \A i \in DOMAIN NextSeats(s) \ Kept(s) :
               \E q \in Admitted(s) : NextSeats(s)[i] = ClaimOf(s, q)
      <4>1. DOMAIN s.membership.seats \in SUBSET PhysicalSeats
        BY Zenon, SeatingIs
      <4> QED
        BY Zenon, <4>1, NextSeatsAre
    <3>2. ASSUME NEW i \in Kept(s)
          PROVE  NextSeats(s)[i].player \notin Candidates(s)
      <4>1. NextSeats(s)[i] = ClaimOf(s, s.membership.seats[i].player)
        BY <3>1, <3>2
      <4>2. ClaimOf(s, s.membership.seats[i].player).player = s.membership.seats[i].player
        BY DEF ClaimOf
      <4> QED
        BY <4>1, <4>2 DEF Candidates
    <3>3. ASSUME NEW i \in DOMAIN NextSeats(s) \ Kept(s)
          PROVE  NextSeats(s)[i].player \in Admitted(s)
      BY <3>1, <3>3 DEF ClaimOf
    <3> QED
      BY <3>2, <3>3
  <2> HIDE DEF W, queue
  <2> QED
    BY <1>4, <1>10, <1>12, <2>1 DEF Members
<1> HIDE DEF W
<1> QED
  BY <1>3, <1>5, <1>7, <1>10, <1>11, <1>12, <1>13 DEF Validate

Queued(s) == QueueJoins(AsMembership(s.membership), {ClaimOf(s, q) : q \in Joined(s)})

\* Who waits after queue_joins: everybody known who has no seat.
LEMMA QueueIs ==
  ASSUME NEW p, NEW s, NEW B, Sound(p, s, B), IsBasis(B), s.membership # Nil
  PROVE  LET m == s.membership
         IN  /\ Queued(s).seats = [i \in DOMAIN m.seats |-> m.seats[i].player]
             /\ PlayersOf(Queued(s).waiting)
                  = Joined(s) \ {m.seats[i].player : i \in DOMAIN m.seats}
<1> DEFINE m == s.membership
           a == AsMembership(m)
           J == {ClaimOf(s, q) : q \in Joined(s)}
           all == m.waiting \cup J
           b == [a EXCEPT !.waiting = @ \cup J]
           queued == QueueJoins(a, J)
           X == {m.seats[i].player : i \in DOMAIN m.seats}
<1>1. IsProposal(m, B) /\ Known(s, m)
  BY Zenon DEF Sound, Memberships
<1>2. /\ b.seats = [i \in DOMAIN m.seats |-> m.seats[i].player] /\ b.waiting = all
      /\ DOMAIN b = {"seats", "waiting"}
  BY DEF AsMembership
<1>3. Members(b) = X
  BY <1>2 DEF Members
<1>4. queued = [b EXCEPT !.waiting = {c \in @ : /\ c.player \notin Members(b)
                                   /\ \A d \in @ : d.player = c.player => c.claim <= d.claim}]
  BY DEF QueueJoins, DeduplicateWaiting
<1> HIDE DEF b, queued
<1>5. /\ queued.seats = b.seats
      /\ queued.waiting = {c \in all : /\ c.player \notin X
                                       /\ \A d \in all : d.player = c.player => c.claim <= d.claim}
  BY <1>2, <1>3, <1>4
<1>6. \A c \in all : c.player \in Joined(s) /\ c.claim \in Nat
  <2>1. ASSUME NEW c \in m.waiting PROVE c.player \in Joined(s) /\ c.claim \in Nat
    BY <1>1, <2>1 DEF IsProposal, ClaimsOf, Known, Joined, IsBasis
  <2>2. ASSUME NEW q \in Joined(s) PROVE ClaimOf(s, q).player = q /\ ClaimOf(s, q).claim \in Nat
    <3>1. s.joins \in [Players -> 0 .. B.claims] /\ B.claims \in Nat /\ q \in Players
      BY <2>2 DEF Sound, Counts, IsBasis, Joined
    <3> QED
      BY <3>1 DEF ClaimOf
  <2> QED
    BY <2>1, <2>2
<1>7. \A q \in Joined(s) : \E c \in all : c.player = q
  <2>1. \A q \in Joined(s) : ClaimOf(s, q).player = q
    BY DEF ClaimOf
  <2> QED
    BY <2>1
<1> HIDE DEF all
<1>8. ASSUME NEW q \in Joined(s), q \notin X
      PROVE  \E c \in queued.waiting : c.player = q
  <2> DEFINE T == {c.claim : c \in {d \in all : d.player = q}}
  <2>1. T \in SUBSET Nat /\ T # {}
    BY <1>6, <1>7, <1>8
  <2>2. PICK k \in T : \A l \in T : k <= l
    BY Zenon, <2>1, LeastNumber
  <2>3. PICK c \in all : c.player = q /\ c.claim = k
    BY <2>2
  <2>4. \A d \in all : d.player = c.player => c.claim <= d.claim
    BY <2>2, <2>3
  <2> QED
    BY <1>5, <1>8, <2>3, <2>4
<1>9. PlayersOf(queued.waiting) = Joined(s) \ X
  <2> HIDE DEF X
  <2>1. ASSUME NEW c \in queued.waiting PROVE c.player \in Joined(s) \ X
    BY <1>5, <1>6, <2>1
  <2> QED
    BY <1>8, <2>1 DEF PlayersOf
<1> QED
  BY Zenon, <1>2, <1>5, <1>9 DEF queued, Queued

\* What next_membership_layout computes is the layout of the domain.
LEMMA LayoutIsTheDomains ==
  ASSUME NEW p, NEW s, NEW B, Sound(p, s, B), IsBasis(B), s.membership # Nil
  PROVE  LET domain == IF s.hand_active THEN Queued(s)
                       ELSE ReconcileAtHandBoundary(Queued(s), Leaving(s))
             layout == AsMembership(NextProposal(s))
         IN  Validate(Queued(s)) => /\ layout.seats = domain.seats
                                 /\ PlayersOf(layout.waiting) = PlayersOf(domain.waiting)
<1> DEFINE m == s.membership
           queued == Queued(s)
           layout == AsMembership(NextProposal(s))
           domain == ReconcileAtHandBoundary(queued, Leaving(s))
           X == {m.seats[i].player : i \in DOMAIN m.seats}
           kept == Kept(s)
           free == PhysicalSeats \ kept
           added == Admitted(s)
           queue == Candidates(s)
           rest == queue \ added
           W == {x \in rest : Place(rest, x) <= WaitingCapacity}
           taken == {Nth(free, Place(added, q)) : q \in added}
<1>1. /\ queued.seats = [i \in DOMAIN m.seats |-> m.seats[i].player]
      /\ PlayersOf(queued.waiting) = Joined(s) \ X
  BY QueueIs
<1>2. /\ \A i \in DOMAIN m.seats : m.seats[i].player \in Joined(s)
      /\ kept = {i \in DOMAIN m.seats : s.hand_active \/ m.seats[i].player \notin Leaving(s)}
      /\ free \in SUBSET Nat /\ IsFiniteSet(free) /\ Cardinality(free) \in Nat
      /\ queue \in SUBSET Nat /\ IsFiniteSet(queue)
      /\ added \in SUBSET queue /\ IsFiniteSet(added)
      /\ Cardinality(added) <= Cardinality(free)
  BY Zenon, SeatingIs
<1>3. layout.seats = [i \in kept \cup taken |->
                        IF i \in kept THEN m.seats[i].player ELSE Nth(added, Place(free, i))]
  <2> DEFINE n == NextSeats(s)
  <2>1. n = [i \in kept \cup taken |->
               IF i \in kept THEN ClaimOf(s, m.seats[i].player)
                             ELSE ClaimOf(s, Nth(added, Place(free, i)))]
    BY DEF NextSeats
  <2>2. layout.seats = [i \in DOMAIN n |-> n[i].player]
    BY DEF AsMembership, NextProposal
  <2>3. \A q : ClaimOf(s, q).player = q
    BY DEF ClaimOf
  <2> HIDE DEF n, layout, kept, taken, free, added, m
  <2>4. DOMAIN n = kept \cup taken
    BY <2>1
  <2>5. \A i \in kept \cup taken :
          n[i].player = IF i \in kept THEN m.seats[i].player ELSE Nth(added, Place(free, i))
    BY <2>1, <2>3
  <2> QED
    BY <2>2, <2>4, <2>5
<1>4. PlayersOf(layout.waiting) = W
  <2>1. layout.waiting = {ClaimOf(s, q) : q \in W}
    BY Zenon DEF AsMembership, NextProposal, NextWaiting
  <2>2. \A q : ClaimOf(s, q).player = q
    BY DEF ClaimOf
  <2> HIDE DEF layout, W
  <2> QED
    BY <2>1, <2>2 DEF PlayersOf
<1>5. rest \in SUBSET Nat /\ IsFiniteSet(rest) /\ WaitingCapacity \in Nat
  BY Zenon, <1>2, FS_Subset, TableAssumption
<1>6. ASSUME s.hand_active, Validate(queued)
      PROVE  layout.seats = queued.seats /\ PlayersOf(layout.waiting) = PlayersOf(queued.waiting)
  <2>1. kept = DOMAIN m.seats /\ added = {}
    BY Zenon, <1>2, <1>6 DEF Admitted
  <2>2. taken = {}
    BY <2>1
  <2>3. layout.seats = [i \in DOMAIN m.seats |-> m.seats[i].player]
    <3> HIDE DEF layout, kept, taken, m, free, added
    <3> QED
      BY <1>3, <2>1, <2>2
  <2>4. rest = Joined(s) \ X
    <3>1. queue = Joined(s) \ X
      BY <1>6, <2>1 DEF Candidates
    <3> QED
      BY <2>1, <3>1
  <2>5. Cardinality(rest) <= WaitingCapacity
    <3> HIDE DEF queued, rest
    <3>1. /\ Cardinality(queued.waiting) <= WaitingCapacity
          /\ Cardinality(PlayersOf(queued.waiting)) = Cardinality(queued.waiting)
      BY <1>6 DEF Validate
    <3> QED
      BY <1>1, <2>4, <3>1
  <2>6. W = rest
    <3> HIDE DEF rest
    <3> QED
      BY Zenon, <1>5, <2>5, FirstMembers
  <2> HIDE DEF layout, queued, W, rest, X
  <2> QED
    BY <1>1, <1>4, <2>3, <2>4, <2>6
<1>7. ASSUME ~s.hand_active
      PROVE  layout.seats = domain.seats /\ PlayersOf(layout.waiting) = PlayersOf(domain.waiting)
  <2> DEFINE stay == {i \in DOMAIN queued.seats : queued.seats[i] \notin Leaving(s)}
             q0 == PlayersOf(queued.waiting) \ (Leaving(s) \cup {queued.seats[i] : i \in stay})
             first == {q \in queue : Place(queue, q) <= Cardinality(free)}
             there == {Nth(free, Place(queue, q)) : q \in added}
  <2>1. /\ DOMAIN queued.seats = DOMAIN m.seats
        /\ \A i \in DOMAIN m.seats : queued.seats[i] = m.seats[i].player
    <3> HIDE DEF queued
    <3> QED
      BY <1>1
  <2>2. stay = kept
    <3> HIDE DEF queued, kept, m
    <3> QED
      BY <1>2, <1>7, <2>1
  <2>3. q0 = queue
    <3>1. queue = Joined(s) \ ({m.seats[i].player : i \in kept} \cup Leaving(s))
      BY <1>7 DEF Candidates
    <3>2. {queued.seats[i] : i \in stay} = {m.seats[i].player : i \in kept}
      <4>1. kept \subseteq DOMAIN m.seats
        BY <1>2
      <4> HIDE DEF queued, stay, kept, m
      <4> QED
        BY <2>1, <2>2, <4>1
    <3>3. \A x \in X : x \in Leaving(s) \/ x \in {m.seats[i].player : i \in kept}
      BY Zenon, <1>2
    <3>4. {m.seats[i].player : i \in kept} \subseteq X
      BY Zenon, <1>2
    <3> HIDE DEF queued, stay, kept, queue, X
    <3> QED
      BY Zenon, <1>1, <3>1, <3>2, <3>3, <3>4
  <2>4. added = first
    BY <1>7 DEF Admitted
  <2>5. domain = [seats   |-> [i \in stay \cup {Nth(PhysicalSeats \ stay, Place(q0, q)) :
                                      q \in {x \in q0 : Place(q0, x) <= Cardinality(PhysicalSeats \ stay)}} |->
                                 IF i \in stay THEN queued.seats[i]
                                 ELSE Nth(q0, Place(PhysicalSeats \ stay, i))],
                  waiting |-> LET r == q0 \ {x \in q0 : Place(q0, x) <= Cardinality(PhysicalSeats \ stay)}
                              IN  {c \in queued.waiting : /\ c.player \in r
                                                          /\ Place(r, c.player) <= WaitingCapacity}]
    BY Zenon DEF ReconcileAtHandBoundary
  <2>6. domain.seats = [i \in kept \cup there |->
                          IF i \in kept THEN queued.seats[i] ELSE Nth(queue, Place(free, i))]
    <3> HIDE DEF queued, stay, q0, queue, kept, added, domain
    <3> QED
      BY Zenon, <2>2, <2>3, <2>4, <2>5
  <2>7. domain.waiting = {c \in queued.waiting : /\ c.player \in rest
                                                 /\ Place(rest, c.player) <= WaitingCapacity}
    <3> HIDE DEF queued, stay, q0, queue, kept, added, domain
    <3> QED
      BY <2>2, <2>3, <2>4, <2>5
  <2>8. PlayersOf(domain.waiting) = W
    <3>1. rest \subseteq PlayersOf(queued.waiting)
      BY <2>3
    <3> HIDE DEF queued, domain, rest
    <3> QED
      BY <2>7, <3>1 DEF PlayersOf
  <2>9. /\ \A x \in added : Place(added, x) = Place(queue, x)
        /\ \A k \in 1 .. Cardinality(added) : Nth(added, k) = Nth(queue, k)
    <3> HIDE DEF queue, free, added
    <3> QED
      BY <1>2, <2>4, FirstMembers
  <2>10. there = taken
    <3> HIDE DEF queue, free, added
    <3> QED
      BY <2>9
  <2>11. \A i \in taken : Nth(added, Place(free, i)) = Nth(queue, Place(free, i))
    <3> SUFFICES ASSUME NEW q \in added
                 PROVE  LET i == Nth(free, Place(added, q))
                        IN  Nth(added, Place(free, i)) = Nth(queue, Place(free, i))
      OBVIOUS
    <3>1. added \in SUBSET Nat
      BY Zenon, <1>2
    <3> HIDE DEF queue, free, added
    <3>2. Place(free, Nth(free, Place(added, q))) = Place(added, q)
      BY <1>2, <3>1, Matching
    <3>3. Place(added, q) \in 1 .. Cardinality(added)
      BY <1>2, <3>1, PlaceCounts
    <3> QED
      BY <2>9, <3>2, <3>3
  <2>12. layout.seats = domain.seats
    <3>1. kept \subseteq DOMAIN m.seats
      BY <1>2
    <3> HIDE DEF queued, domain, layout, kept, taken, there, queue, free, added, m
    <3>2. \A i \in kept : m.seats[i].player = queued.seats[i]
      BY <2>1, <3>1
    <3>3. \A i \in kept \cup taken :
            (IF i \in kept THEN m.seats[i].player ELSE Nth(added, Place(free, i)))
            = IF i \in kept THEN queued.seats[i] ELSE Nth(queue, Place(free, i))
      BY <2>11, <3>2
    <3> QED
      BY <1>3, <2>6, <2>10, <3>3
  <2> QED
    BY Zenon, <1>4, <2>8, <2>12
<1> QED
  BY Zenon, <1>6, <1>7

\* The invariant says what a coordinator needs to know for its next layout.
LEMMA GoodMeansLaidOut ==
  ASSUME IInv
  PROVE  /\ LayoutFollowsDomain
         /\ Cardinality(Players) <= TableCapacity + WaitingCapacity => LayoutIsValid
<1>1. IsBasis(Basis)
  BY BasisHolds DEF IInv
<1>2. ASSUME NEW p \in Proposing
      PROVE  Sound(p, session[p], Basis) /\ session[p].membership # Nil
  BY <1>2 DEF Proposing, IInv, Good
<1>3. LayoutFollowsDomain
  BY <1>1, <1>2, LayoutIsTheDomains, Zenon DEF LayoutFollowsDomain, Queued
<1>4. ASSUME Cardinality(Players) <= TableCapacity + WaitingCapacity, NEW p \in Proposing,
             DOMAIN NextProposal(session[p]).seats # {}
      PROVE  ValidateContents(NextProposal(session[p]))
  <2> DEFINE n == NextProposal(session[p])
             L == {q \in Players : n.leaves[q] # NoLeave}
  <2>1. n.version = session[p].membership.version + 1
    BY DEF NextProposal
  <2>2. session[p].membership.version \in Nat
    BY Zenon, <1>2, <1>4 DEF Sound, Memberships, IsProposal
  <2>3. n.version # 0
    BY <2>1, <2>2
  <2>4. n.seats # <<>>
    <3>1. DOMAIN <<>> = {}
      OBVIOUS
    <3> QED
      BY <1>4, <3>1, Zenon
  <2>5. Cardinality(L) <= TableCapacity + WaitingCapacity
    <3>1. IsFiniteSet(Players) /\ TableCapacity + WaitingCapacity \in Nat
      BY TableAssumption
    <3>2. IsFiniteSet(L) /\ Cardinality(L) <= Cardinality(Players)
      BY <3>1, FS_Subset
    <3>3. Cardinality(L) \in Nat /\ Cardinality(Players) \in Nat
      BY <3>1, <3>2, FS_CardinalityType
    <3> HIDE DEF L
    <3> QED
      BY <1>4, <3>1, <3>2, <3>3
  <2>6. Validate(AsMembership(n))
    BY <1>1, <1>2, <1>4, LayoutFits
  <2> SUFFICES ValidateContents(n)
    OBVIOUS
  <2> HIDE DEF n
  <2> QED
    BY <2>3, <2>4, <2>5, <2>6 DEF ValidateContents
<1> QED
  BY <1>3, <1>4 DEF LayoutIsValid

\* The layout the runtime computes for itself is the one the domain defines
\* (next_membership_layout against queue_joins and
\* reconcile_at_hand_boundary), whatever intents a coordinator has heard of.
THEOREM LayoutsFollowTheDomain == Spec => []LayoutFollowsDomain
<1>1. IInv => LayoutFollowsDomain
  BY GoodMeansLaidOut
<1> QED
  BY <1>1, InitIsGood, NextKeeps, PTL DEF Spec

\* When no more players than the table and its queue hold ever sign an
\* intent, the next proposal also passes the checks of assemble.
THEOREM LayoutsAreSound ==
  ASSUME Cardinality(Players) <= TableCapacity + WaitingCapacity
  PROVE  Spec => []LayoutIsSound
<1>1. IInv => LayoutIsSound
  BY GoodMeansLaidOut DEF LayoutIsSound
<1> QED
  BY <1>1, InitIsGood, NextKeeps, PTL DEF Spec
=============================================================================
