----------------------------- MODULE HandProtocol -----------------------------
(***************************************************************************)
(* One hand played over the network (hand_runtime.rs).  Every participant  *)
(* holds an ActiveHand: it deals with the others by exchanging keys,       *)
(* shuffles and decryption shares, replays the signed actions of all on    *)
(* its own HoldemHand, opens the public cards with a share of everybody,   *)
(* and co-signs the receipt.  Messages arrive late, twice, in any order or *)
(* never; there is no sequencer.                                           *)
(*                                                                         *)
(* A share, key or shuffle is named by its seat and card, a hash by what   *)
(* it was computed from.  Proofs and signatures of messages in the model   *)
(* are valid.                                                              *)
(***************************************************************************)
EXTENDS HoldemHand, Sequences, SequencesExt

CONSTANTS
  HoleSize,    \* hole cards of a seat (the code's 2)
  FlopSize,    \* cards of the flop (the code's 3)
  HandRanks,   \* the strengths seven cards can have
  Dealers,     \* the seats that may have the button
  Profiles,    \* the starting stacks considered
  Moves,       \* the kinds of move considered, of "Fold", "Check", "Call", "RaiseTo"
  Twins,       \* seats whose device may sign two actions for one turn
  Leavers,     \* seats that may ask to leave after the hand
  Quitters,    \* seats that may drop the hand
  MaxDrops,    \* bound: connections lost
  MaxEarly,    \* MAX_EARLY_HAND_MESSAGES
  FromDealt,   \* whether a behaviour starts after the deal, to bound three-seat models
  Batched,     \* whether the shares a peer gives at once arrive together (likewise)
  Nil, Gone

ASSUME ProtocolAssumption ==
  /\ {HoleSize, FlopSize} \subseteq Nat \ {0}
  /\ HandRanks # {} /\ HandRanks \subseteq Nat
  /\ Dealers # {} /\ Dealers \subseteq Seats
  /\ Profiles # {} /\ Profiles \subseteq [Seats -> MinimumBuyIn .. MaximumBuyIn]
  /\ Twins \cup Leavers \cup Quitters \subseteq Seats
  /\ Moves \subseteq {"Fold", "Check", "Call", "RaiseTo"}
  /\ {MaxDrops, MaxEarly} \subseteq Nat
  /\ {FromDealt, Batched} \subseteq BOOLEAN
  /\ {Nil, Gone} \cap Seats = {}

VARIABLES
  active,     \* active[p]: the ActiveHand of seat p, Nil before and Gone after it
  early,      \* early[p]: messages that came before the hand started
  messages,   \* everything ever sent; delivery is up to the network
  table,      \* what the roster fixes: the dealer and the starting stacks
  ranks,      \* the strength of each seat's cards, fixed by the shuffled deck
  drops       \* connections lost so far

vars == <<active, early, messages, table, ranks, drops>>

Playing(p) == active[p] \notin {Nil, Gone}

-----------------------------------------------------------------------------
\* Positions in the deck, with one burned card before each street.
HoleIndices(i) == HoleSize * i .. HoleSize * i + HoleSize - 1

BoardBase == HoleSize * NumSeats
FlopIndices == BoardBase + 1 .. BoardBase + FlopSize
TurnIndex   == BoardBase + FlopSize + 2
RiverIndex  == BoardBase + FlopSize + 4
BoardIndices == FlopIndices \cup {TurnIndex, RiverIndex}

StreetIndices(street) ==
  CASE street = "Flop" -> FlopIndices
    [] street = "Turn" -> {TurnIndex}
    [] OTHER           -> {RiverIndex}

\* Bug variant: the cards of folded seats are opened too.
ShowdownIndices_Everybody(h) == BoardIndices \cup UNION {HoleIndices(i) : i \in Seats}

ShowdownIndices(h) == BoardIndices \cup UNION {HoleIndices(i) : i \in RemainingContenders(h)}

-----------------------------------------------------------------------------
\* A move of a player on its own betting state (HoldemHand::act).
PlayerActions ==
  [kind : Moves \ {"RaiseTo"}, to : {0}]
    \cup [kind : Moves \cap {"RaiseTo"}, to : 1 .. MaximumBuyIn]

\* Bug variant: a check is allowed when there is a bet to call.
Legal_FreeCheck(h, move) ==
  CASE move.kind \in {"Fold", "Check"} -> TRUE
    [] move.kind = "Call" -> CanCall(h)
    [] OTHER              -> CanRaiseTo(h, h.next_to_act, move.to)

Legal(h, move) ==
  CASE move.kind = "Fold"  -> TRUE
    [] move.kind = "Check" -> CanCheck(h)
    [] move.kind = "Call"  -> CanCall(h)
    [] OTHER               -> CanRaiseTo(h, h.next_to_act, move.to)

Act(h, move) ==
  CASE move.kind = "Fold"  -> ActFold(h)
    [] move.kind = "Check" -> ActCheck(h)
    [] move.kind = "Call"  -> ActCall(h)
    [] OTHER               -> ActRaiseTo(h, move.to)

TimeoutAction(h, p) == [kind |-> IF AmountToCall(h, p) = 0 THEN "Check" ELSE "Fold", to |-> 0]

\* public_state_hash.  The betting state is a function of the actions.
PublicState(a) == [actions |-> a.committed, cards |-> a.transcript]

\* What a peer signs: transcript, last action and final stacks (build_receipt).
Receipt(a) ==
  [actions |-> a.committed, cards |-> a.transcript, ending |-> a.hand.stack]

-----------------------------------------------------------------------------
NewHand(p) ==
  [announcements   |-> {p},
   shuffle_packets |-> {},
   hole_distribution_started |-> FALSE,
   hole_shares     |-> {},        \* <<card, seat>>
   ready_seats     |-> {},
   hand            |-> Nil,
   committed       |-> <<>>,      \* committed_actions; its length is sequence
   pending_actions |-> {},
   action_conflict |-> FALSE,
   public_shares   |-> {},        \* <<card, seat>>
   transcript      |-> <<>>,      \* public_cards in the order they were opened
   pending_reveal  |-> Nil,
   outcome         |-> "WaitingFor",
   settled         |-> FALSE,
   receipt_signatures |-> {},     \* of receipt_consensus, once settled
   pending_receipt_signatures |-> {},
   finalized       |-> FALSE,
   safe_leave_requested |-> FALSE,
   disconnected    |-> {},
   sent            |-> {[type |-> "KeyAnnouncement", seat |-> p]}]

Send(a, ms) == [a EXCEPT !.sent = @ \cup ms]

\* The first part of drive: once all keys are known each seat adds its shuffle
\* after the seats before it.
EnsureLocalShuffle(p, a) ==
  IF a.announcements = Seats /\ 0 .. p - 1 \subseteq a.shuffle_packets /\ p \notin a.shuffle_packets
  THEN Send([a EXCEPT !.shuffle_packets = @ \cup {p}], {[type |-> "Shuffle", seat |-> p]})
  ELSE a

\* Everybody sends a share of every hole card to the card's owner only.
HoleShares(p, owner) ==
  {[type |-> "HoleRevealShare", seat |-> p, to |-> owner, card |-> card] :
     card \in HoleIndices(owner)}

BeginHoleDistribution(p, a) ==
  IF a.announcements = Seats /\ a.shuffle_packets = Seats /\ ~a.hole_distribution_started
  THEN Send([a EXCEPT !.hole_distribution_started = TRUE,
                      !.hole_shares = @ \cup (HoleIndices(p) \X {p})],
            UNION {HoleShares(p, owner) : owner \in Seats \ {p}})
  ELSE a

\* Bug variant: a seat is ready as soon as it has dealt to the others.
RevealLocalHoleCards_Early(p, a) ==
  IF a.hand = Nil /\ a.hole_distribution_started
  THEN Send([a EXCEPT !.ready_seats = @ \cup {p},
                      !.hand = IF HoleIndices(p) \X Seats \subseteq a.hole_shares
                               THEN Start(table.dealer, table.stacks) ELSE Nil],
            {[type |-> "DealReady", seat |-> p]})
  ELSE a

\* With a share of everybody the seat sees its cards, starts its betting state
\* and tells the others.
RevealLocalHoleCards(p, a) ==
  IF /\ a.hand = Nil
     /\ a.hole_distribution_started
     /\ HoleIndices(p) \X Seats \subseteq a.hole_shares
  THEN Send([a EXCEPT !.hand = Start(table.dealer, table.stacks),
                      !.ready_seats = @ \cup {p}],
            {[type |-> "DealReady", seat |-> p]})
  ELSE a

-----------------------------------------------------------------------------
TryFinalizeReceipt(a) == [a EXCEPT !.finalized = a.settled /\ a.receipt_signatures = Seats]

\* finish_settlement: sign the receipt, then count the signatures that came
\* early; those over another receipt are dropped with a warning.
FinishSettlement(p, a) ==
  LET receipt == Receipt(a)
      agreeing == {x \in a.pending_receipt_signatures : x.receipt = receipt}
  IN  TryFinalizeReceipt(
        Send([a EXCEPT !.settled = TRUE,
                       !.receipt_signatures = {p} \cup {x.seat : x \in agreeing},
                       !.pending_receipt_signatures = {}],
             {[type |-> "ReceiptSignature", seat |-> p, receipt |-> receipt]}))

ShareMessages(p, cards) ==
  {[type |-> "CommunityRevealShare", seat |-> p, cards |-> group] :
     group \in IF Batched THEN {cards} \ {{}} ELSE {{card} : card \in cards}}

\* request_public_reveal: add and send the shares not yet given.
RequestPublicReveal(p, a, indices, reason) ==
  LET new == {card \in indices : <<card, p>> \notin a.public_shares}
  IN  Send([a EXCEPT !.public_shares = @ \cup (new \X {p}),
                     !.pending_reveal = [reason |-> reason, indices |-> indices]],
           ShareMessages(p, new))

HandleActionOutcome(p, a) ==
  CASE a.outcome = "StreetAdvanced" ->
         RequestPublicReveal(p, a, StreetIndices(a.hand.street), "Street")
    [] a.outcome = "ShowdownReady" ->
         RequestPublicReveal(p, a, ShowdownIndices(a.hand), "Showdown")
    [] a.outcome = "HandComplete" -> FinishSettlement(p, a)
    [] OTHER -> a

\* Bug variant: one missing share does not matter.
Openable_OneMissing(a) ==
  {card \in a.pending_reveal.indices :
     Cardinality({s \in Seats : <<card, s>> \in a.public_shares}) >= NumSeats - 1}

\* try_complete_public_reveal: cards are opened in the order of their indices,
\* up to the first that lacks a share.  pending_reveal is cleared before the
\* showdown is settled; a settlement that fails leaves the pots half paid.
Openable(a) ==
  {card \in a.pending_reveal.indices :
     \A c \in a.pending_reveal.indices :
       c <= card => c \in ToSet(a.transcript) \/ {c} \X Seats \subseteq a.public_shares}

\* Bug variant: a street counts as revealed when one of its cards is.
TryCompletePublicReveal_Partly(p, a) ==
  IF a.pending_reveal = Nil THEN a
  ELSE LET open   == Openable(a)
           opened == [a EXCEPT !.transcript =
                        @ \o SetToSortSeq(open \ ToSet(@), LAMBDA c, d : c < d)]
       IN  IF a.pending_reveal.reason = "Street" /\ open # {}
           THEN [opened EXCEPT !.pending_reveal = Nil] ELSE opened

TryCompletePublicReveal(p, a) ==
  IF a.pending_reveal = Nil THEN a
  ELSE LET open   == Openable(a)
           opened == [a EXCEPT !.transcript =
                        @ \o SetToSortSeq(open \ ToSet(@), LAMBDA c, d : c < d)]
           done   == [opened EXCEPT !.pending_reveal = Nil]
           hand   == SettleShowdown(a.hand, ranks)
       IN  IF open # a.pending_reveal.indices THEN opened
           ELSE IF a.pending_reveal.reason = "Street" THEN done
           ELSE IF hand.street = "Complete"
           THEN FinishSettlement(p, [done EXCEPT !.hand = hand, !.outcome = "HandComplete"])
           ELSE [done EXCEPT !.hand = hand, !.outcome = "StateInvariant"]

\* Bug variant: a conflict does not stop the hand.
Drive_IgnoresConflict(p, a) ==
  TryCompletePublicReveal(p,
    RevealLocalHoleCards(p, BeginHoleDistribution(p, EnsureLocalShuffle(p, a))))

Drive(p, a) ==
  IF a.action_conflict THEN a
  ELSE TryCompletePublicReveal(p,
         RevealLocalHoleCards(p, BeginHoleDistribution(p, EnsureLocalShuffle(p, a))))

-----------------------------------------------------------------------------
\* The handlers below return the hand they leave behind, or Nil for an error
\* (the message is dropped and nothing changes).

\* A second action for a turn that is already committed: harmless when it is
\* the same, evidence of a conflict when the same seat signed another one over
\* the same state.
ResolveReplayedAction(a, m) ==
  CASE a.committed[m.sequence] = m.action -> a
    [] /\ a.committed[m.sequence] # m.action
       /\ m.action.seat = a.committed[m.sequence].seat
       /\ m.expected.actions = SubSeq(a.committed, 1, m.sequence - 1)
       -> [a EXCEPT !.action_conflict = TRUE]
    [] OTHER -> Nil

CanCommit(a, m) ==
  /\ ~a.action_conflict
  /\ m.sequence = Len(a.committed) + 1
  /\ m.expected = PublicState(a)
  /\ a.pending_reveal = Nil
  /\ ~a.settled
  /\ a.hand.next_to_act = m.action.seat
  /\ Legal(a.hand, m.action.move)

\* Bug variant: the number of an action is not looked at, so that an action
\* delivered again counts as the seat's next.
CommitAction_NoSequence(p, a, m) ==
  IF ~(/\ a.pending_reveal = Nil /\ ~a.settled
       /\ a.hand.next_to_act = m.action.seat
       /\ Legal(a.hand, m.action.move)) THEN Nil
  ELSE LET hand == Act(a.hand, m.action.move)
       IN  HandleActionOutcome(p,
             Send([a EXCEPT !.hand = hand,
                            !.outcome = OutcomeOf(a.hand, hand),
                            !.committed = Append(@, m.action)],
                  IF m.action.seat = p THEN {m} ELSE {}))

CommitAction(p, a, m) ==
  IF m.sequence <= Len(a.committed) THEN ResolveReplayedAction(a, m)
  ELSE IF ~CanCommit(a, m) THEN Nil
  ELSE LET hand == Act(a.hand, m.action.move)
       IN  HandleActionOutcome(p,
             Send([a EXCEPT !.hand = hand,
                            !.outcome = OutcomeOf(a.hand, hand),
                            !.committed = Append(@, m.action)],
                  IF m.action.seat = p THEN {m} ELSE {}))

\* accept_or_defer_remote_action: the next action, if it was signed over cards
\* this peer has not opened yet, waits for them.
AcceptOrDeferRemoteAction(p, a, m) ==
  IF m.sequence <= Len(a.committed) THEN CommitAction(p, a, m)
  ELSE IF m.sequence # Len(a.committed) + 1 \/ a.hand = Nil THEN Nil
  ELSE IF a.hand.next_to_act # m.action.seat THEN Nil
  ELSE IF a.pending_reveal = Nil /\ m.expected = PublicState(a) THEN CommitAction(p, a, m)
  ELSE IF \E x \in a.pending_actions : x.sequence = m.sequence /\ x # m THEN Nil
  ELSE [a EXCEPT !.pending_actions = @ \cup {m}]

\* Bug variant: the signature of another receipt is counted.
AcceptReceiptSignature_Any(a, m) ==
  IF ~a.settled
  THEN [a EXCEPT !.pending_receipt_signatures = @ \cup {m}]
  ELSE TryFinalizeReceipt([a EXCEPT !.receipt_signatures = @ \cup {m.seat}])

\* accept_receipt_signature.
AcceptReceiptSignature(a, m) ==
  IF ~a.settled
  THEN IF \E x \in a.pending_receipt_signatures : x.seat = m.seat /\ x # m THEN Nil
       ELSE [a EXCEPT !.pending_receipt_signatures = @ \cup {m}]
  ELSE IF m.receipt # Receipt(a) THEN Nil
  ELSE TryFinalizeReceipt([a EXCEPT !.receipt_signatures = @ \cup {m.seat}])

Accept(p, a, m) ==
  CASE m.type = "KeyAnnouncement" -> [a EXCEPT !.announcements = @ \cup {m.seat}]
    [] m.type = "Shuffle"         -> [a EXCEPT !.shuffle_packets = @ \cup {m.seat}]
    [] m.type = "HoleRevealShare" -> [a EXCEPT !.hole_shares = @ \cup {<<m.card, m.seat>>}]
    [] m.type = "DealReady"       -> [a EXCEPT !.ready_seats = @ \cup {m.seat}]
    [] m.type = "CommunityRevealShare" ->
         IF a.announcements = Seats /\ a.shuffle_packets = Seats
         THEN [a EXCEPT !.public_shares = @ \cup (m.cards \X {m.seat})] ELSE Nil
    [] m.type = "ActionCommitted"  -> AcceptOrDeferRemoteAction(p, a, m)
    [] m.type = "ReceiptSignature" -> AcceptReceiptSignature(a, m)

\* Bug variant: nobody looks for actions held back after a reveal.
CommitDeferredActions_Never(p, a) == a

\* commit_deferred_actions.  The loop runs at most once, because only an
\* action with the next number is ever held back.
CommitDeferredActions(p, a) ==
  LET due == {x \in a.pending_actions : x.sequence = Len(a.committed) + 1
                                        /\ x.expected = PublicState(a)}
  IN  IF a.pending_reveal # Nil \/ a.settled \/ due = {} THEN a
      ELSE LET x     == CHOOSE x \in due : TRUE
               taken == [a EXCEPT !.pending_actions = @ \ {x}]
               after == CommitAction(p, taken, x)
           IN  IF after = Nil THEN taken ELSE after

\* handle_public_message and handle_private: what follows every accepted
\* message.  Only the public handler looks at the actions held back.
Handled(p, a, m) ==
  IF m.type = "HoleRevealShare" THEN Drive(p, Accept(p, a, m))
  ELSE CommitDeferredActions(p, Drive(p, Accept(p, a, m)))

-----------------------------------------------------------------------------
\* The hand of a seat once everybody is known to be ready.
DealtHand(p, t) ==
  [NewHand(p) EXCEPT !.announcements = Seats,
                     !.shuffle_packets = Seats,
                     !.hole_distribution_started = TRUE,
                     !.hole_shares = HoleIndices(p) \X Seats,
                     !.ready_seats = Seats,
                     !.hand = Start(t.dealer, t.stacks),
                     !.sent = {}]

Init ==
  /\ table \in [dealer : Dealers, stacks : Profiles]
  /\ active = [p \in Seats |-> IF FromDealt THEN DealtHand(p, table) ELSE Nil]
  /\ early = [p \in Seats |-> <<>>]
  /\ messages = {}
  /\ ranks \in [Seats -> HandRanks]
  /\ drops = 0

\* A handler of p ends with the hand a.
Becomes(p, a) ==
  /\ active' = [active EXCEPT ![p] = [a EXCEPT !.sent = {}]]
  /\ messages' = messages \cup a.sent

\* HandRuntime::start, which replays what came early.
StartHand(p) ==
  /\ active[p] = Nil
  /\ Becomes(p, FoldLeft(LAMBDA a, m : IF Accept(p, a, m) = Nil THEN a ELSE Handled(p, a, m),
                         Drive(p, NewHand(p)), early[p]))
  /\ early' = [early EXCEPT ![p] = <<>>]
  /\ UNCHANGED <<table, ranks, drops>>

ForMe(p, m) ==
  IF m.type = "HoleRevealShare" THEN m.to = p
  ELSE m.seat # p \/ m.type \in {"CommunityRevealShare", "ActionCommitted", "ReceiptSignature"}

\* A message before the hand: buffered, up to a limit.
BufferEarlyMessage(p, m) ==
  /\ active[p] = Nil
  /\ ForMe(p, m)
  /\ ~Contains(early[p], m)
  /\ Len(early[p]) < MaxEarly
  /\ early' = [early EXCEPT ![p] = Append(@, m)]
  /\ UNCHANGED <<active, messages, table, ranks, drops>>

HandleMessage(p, m) ==
  /\ Playing(p)
  /\ ForMe(p, m)
  /\ Accept(p, active[p], m) # Nil
  /\ Becomes(p, Handled(p, active[p], m))
  /\ UNCHANGED <<early, table, ranks, drops>>

\* Bug variant: no barrier before the betting.
MayAct_NoBarrier(p, a) ==
  /\ a.disconnected = {}
  /\ ~a.action_conflict
  /\ a.pending_reveal = Nil
  /\ ~a.settled
  /\ a.hand # Nil
  /\ a.hand.next_to_act = p

\* The conditions of commit_local_action and automatic_local_action.
MayAct(p, a) ==
  /\ a.disconnected = {}
  /\ ~a.action_conflict
  /\ a.pending_reveal = Nil
  /\ ~a.settled
  /\ a.ready_seats = Seats
  /\ a.hand # Nil
  /\ a.hand.next_to_act = p

Signed(p, a, move, issue) ==
  [type |-> "ActionCommitted", seat |-> p, sequence |-> Len(a.committed) + 1,
   expected |-> PublicState(a), action |-> [seat |-> p, move |-> move, issue |-> issue]]

CommitLocalAction(p, a, move) == CommitAction(p, a, Signed(p, a, move, 1))

\* submit_action, with the precondition that the player saw the latest state.
SubmitAction(p, move) ==
  /\ Playing(p)
  /\ ~active[p].safe_leave_requested
  /\ MayAct(p, active[p])
  /\ Legal(active[p].hand, move)
  /\ Becomes(p, Drive(p, CommitLocalAction(p, active[p], move)))
  /\ UNCHANGED <<early, table, ranks, drops>>

\* The device of p signs a second action for the same turn.
SignTwice(p, move, second) ==
  /\ p \in Twins
  /\ Playing(p)
  /\ MayAct(p, active[p])
  /\ Legal(active[p].hand, move)
  /\ Legal(active[p].hand, second)
  /\ Becomes(p, Send(Drive(p, CommitLocalAction(p, active[p], move)),
                     {Signed(p, active[p], second, 2)}))
  /\ UNCHANGED <<early, table, ranks, drops>>

\* HandRuntime::tick, with the turn's time over or not.  A seat that asked to
\* leave folds at once.
Ticked(p, expired) ==
  LET a    == Drive(p, active[p])
      move == IF a.safe_leave_requested THEN [kind |-> "Fold", to |-> 0]
              ELSE TimeoutAction(a.hand, p)
  IN  IF MayAct(p, a) /\ (expired \/ a.safe_leave_requested)
      THEN Drive(p, CommitLocalAction(p, a, move))
      ELSE a

Tick(p, expired) ==
  /\ Playing(p)
  /\ Becomes(p, Ticked(p, expired))
  /\ UNCHANGED <<early, table, ranks, drops>>

RequestSafeLeave(p) ==
  /\ p \in Leavers
  /\ Playing(p)
  /\ active' = [active EXCEPT ![p].safe_leave_requested = TRUE]
  /\ UNCHANGED <<early, messages, table, ranks, drops>>

\* HandRuntime::leave and abort_for_signed_leave: the hand is dropped.
Leave(p) ==
  /\ p \in Quitters
  /\ Playing(p)
  /\ active' = [active EXCEPT ![p] = Gone]
  /\ UNCHANGED <<early, messages, table, ranks, drops>>

PeerDisconnected(p, q) ==
  /\ Playing(p)
  /\ q # p /\ q \notin active[p].disconnected
  /\ drops < MaxDrops
  /\ active' = [active EXCEPT ![p].disconnected = @ \cup {q}]
  /\ drops' = drops + 1
  /\ UNCHANGED <<early, messages, table, ranks>>

PeerConnected(p, q) ==
  /\ Playing(p)
  /\ q \in active[p].disconnected
  /\ active' = [active EXCEPT ![p].disconnected = @ \ {q}]
  /\ UNCHANGED <<early, messages, table, ranks, drops>>

Finished == \A p \in Seats : Playing(p) /\ active[p].finalized

\* The hand is over everywhere.
Rest == Finished /\ UNCHANGED vars

\* An action that p holds back was accepted: nobody sends it again.
Unacknowledged(p, m) == ~(Playing(p) /\ m \in active[p].pending_actions)

\* What the runtime does unasked.
Runs ==
  \E p \in Seats :
    \/ StartHand(p)
    \/ \E m \in messages : Unacknowledged(p, m) /\ HandleMessage(p, m)
    \/ Tick(p, TRUE)
    \/ \E q \in Seats : PeerConnected(p, q)

Next ==
  \/ \E p \in Seats :
       \/ StartHand(p)
       \/ \E m \in messages : BufferEarlyMessage(p, m) \/ HandleMessage(p, m)
       \/ \E move \in PlayerActions : SubmitAction(p, move)
       \/ \E move, second \in PlayerActions : SignTwice(p, move, second)
       \/ \E expired \in BOOLEAN : Tick(p, expired)
       \/ RequestSafeLeave(p)
       \/ Leave(p)
       \/ \E q \in Seats : PeerDisconnected(p, q) \/ PeerConnected(p, q)
  \/ Rest

Spec == Init /\ [][Next]_vars

\* Nothing is left for Runs to do: ~ENABLED <<Runs>>_vars, written out because
\* TLC is slow on ENABLED of nested operators.
Idle ==
  \A p \in Seats :
    /\ active[p] # Nil
    /\ Playing(p) =>
         /\ active[p].disconnected = {}
         /\ Ticked(p, TRUE) = active[p]
         /\ \A m \in messages :
              ForMe(p, m) /\ Unacknowledged(p, m) /\ Accept(p, active[p], m) # Nil
                => Handled(p, active[p], m) = active[p]

\* Weak fairness of Runs: every participant starts the hand, a message is sent
\* again until it is accepted, a turn's time runs out and lost connections are
\* dialled again.
Fairness == []<>Idle \/ []<><<Runs>>_vars

FairSpec == Spec /\ Fairness

-----------------------------------------------------------------------------
InHand == {p \in Seats : Playing(p)}

Dealt == {p \in InHand : active[p].hand # Nil}

Actions(p) == active[p].committed

\* Type invariant.  Beyond types: the betting state starts with the first sight
\* of the own cards, a settled hand waits for nothing, and only settled hands
\* have signatures.
TypeOK ==
  /\ drops \in 0 .. MaxDrops
  /\ \A p \in Seats : Len(early[p]) <= MaxEarly
  /\ \A p \in InHand :
       LET a == active[p]
       IN  /\ p \in a.announcements /\ a.announcements \subseteq Seats
           /\ a.shuffle_packets \subseteq Seats
           /\ (a.hand # Nil) = (p \in a.ready_seats)
           /\ a.hand = Nil => a.committed = <<>> /\ a.pending_reveal = Nil
           /\ a.settled => a.pending_reveal = Nil /\ p \in a.receipt_signatures
           /\ ~a.settled => a.receipt_signatures = {} /\ ~a.finalized
           /\ a.sent = {}

\* No two peers disagree about an action both have committed: without a
\* sequencer, the logs are prefixes of one another (commit_action).
LogsAgree ==
  \A p, q \in InHand : IsPrefix(Actions(p), Actions(q)) \/ IsPrefix(Actions(q), Actions(p))

\* Peers that have committed the same actions and wait for no card are in the
\* same public state, cards in the same order included, so what one signs the
\* others can verify (public_state_hash).
StatesAgree ==
  \A p, q \in Dealt :
    /\ Actions(p) = Actions(q)
    /\ active[p].pending_reveal = Nil /\ active[q].pending_reveal = Nil
    => active[p].transcript = active[q].transcript /\ active[p].hand = active[q].hand

\* An action that was held back is the next one and still waits for a card to
\* be opened: none is forgotten, although only the public handler looks for
\* them and the loop never finds two (commit_deferred_actions).
DeferredAwaitsReveal ==
  \A p \in InHand : \A x \in active[p].pending_actions :
    /\ x.sequence = Len(Actions(p)) + 1
    /\ active[p].pending_reveal # Nil

\* The logs agree, and an action held back will be the next one in them.
ActionsAgree == LogsAgree /\ DeferredAwaitsReveal

\* Nobody bets before everybody has seen their own cards (HAND-PROTOCOL.md:15),
\* so an action never meets a participant without a betting state.
DealtBeforeBetting ==
  (\E m \in messages : m.type = "ActionCommitted")
    => \A p \in Seats : active[p] # Nil /\ (Playing(p) => active[p].hand # Nil)

StreetOrder(street) ==
  CASE street = "Preflop" -> 0 [] street = "Flop" -> 1 [] street = "Turn" -> 2
    [] street = "River" -> 3 [] OTHER -> 4

StreetOf(card) == IF card \in FlopIndices THEN 1 ELSE IF card = TurnIndex THEN 2 ELSE 3

\* A board card is opened for anybody only when every participant has reached
\* its street: nobody bets on a street whose next card another already sees.
NobodySeesAhead ==
  \A p, q \in InHand : \A card \in ToSet(active[p].transcript) \cap BoardIndices :
    active[q].hand # Nil /\ StreetOrder(active[q].hand.street) >= StreetOf(card)

\* The hole cards of a seat are opened only if the owner itself went to the
\* showdown without folding (HAND-PROTOCOL.md:16), also when devices sign twice.
HoleCardsStayPrivate ==
  \A p, q \in InHand :
    HoleIndices(q) \cap ToSet(active[p].transcript) # {} =>
      /\ active[q].hand.status[q] # "Folded"
      /\ active[q].hand.street \in {"Showdown", "Complete"}

\* Two final receipts of a hand are the same, also when devices sign twice and
\* peers commit different actions (accept_receipt_signature).
ReceiptsAgree ==
  \A p, q \in InHand :
    active[p].finalized /\ active[q].finalized => Receipt(active[p]) = Receipt(active[q])

\* A peer that has seen two actions for one turn commits nothing more, opens
\* no card and settles nothing (HAND-PROTOCOL.md:28).
ConflictFreezes ==
  [][\A p \in InHand : active[p].action_conflict /\ active'[p] # Gone =>
       /\ active'[p].committed = active[p].committed
       /\ active'[p].transcript = active[p].transcript
       /\ active'[p].settled = active[p].settled]_vars

\* While no device signs twice and nobody drops the hand, everybody ends with
\* the receipt signed by all, whoever stops answering (automatic_local_action),
\* asks to leave or loses connections for a while.
HandCompletes == <>Finished

-----------------------------------------------------------------------------
\* The peers together play one hand of Holdem: the hand of the peer that has
\* committed most, and settled if one has.
Progress(p) ==
  2 * Len(Actions(p)) + IF active[p].outcome \in {"HandComplete", "StateInvariant"} THEN 1 ELSE 0

Leader == CHOOSE p \in Dealt : \A q \in Dealt : Progress(q) <= Progress(p)

AgreedHand == IF Dealt = {} THEN Start(table.dealer, table.stacks) ELSE active[Leader].hand

AgreedOutcome == IF Dealt = {} THEN "WaitingFor" ELSE active[Leader].outcome

ShownDown ==
  /\ AgreedOutcome \in {"HandComplete", "StateInvariant"}
  /\ ~FewerThanTwo(RemainingContenders(AgreedHand))

Table == INSTANCE Holdem WITH
  hand    <- AgreedHand,
  outcome <- AgreedOutcome,
  ranks   <- IF ShownDown THEN ranks ELSE [s \in Seats |-> 0]

\* However the messages are delivered, the participants play a hand the rules
\* allow: Holdem, step by step.
PlaysHoldem == Table!Spec

=============================================================================
