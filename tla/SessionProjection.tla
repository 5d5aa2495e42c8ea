--------------------------- MODULE SessionProjection ---------------------------
(***************************************************************************)
(* What the runtime keeps of the worker's events, so that a client that    *)
(* attaches late can be shown the current session (SessionEventProjection  *)
(* in runtime_protocol.rs, and its twin in session-event-projection.mjs):  *)
(* one event per slot, replaced or withdrawn by later events.              *)
(***************************************************************************)
EXTENDS Integers

CONSTANT Nil

\* Which events each slot holds.
SlotTypes ==
  [identity       |-> {"identity_ready"},
   statistics     |-> {"statistics_updated"},
   pool           |-> {"pool_joined"},
   pool_directory |-> {"pool_directory_updated"},
   pool_phase     |-> {"pool_joining_table", "pool_join_attempt_expired",
                       "pool_creating_table", "pool_table_joined"},
   friend_room    |-> {"friend_room_created", "friend_room_joining", "friend_room_joined"},
   room_entered   |-> {"room_entered"},
   room_snapshot  |-> {"room_snapshot"},
   membership     |-> {"membership_confirmation"},
   roster         |-> {"hand_roster_confirmation"},
   next_hand      |-> {"next_hand_ready"},
   safe_leave     |-> {"safe_leave_requested", "safe_leave_forced"},
   hand_started   |-> {"hand_protocol_started"},
   hand_progress  |-> {"hand_protocol_progress"},
   hand_ready     |-> {"hand_ready"},
   hand_state     |-> {"hand_state"},
   hand_terminal  |-> {"hand_action_conflict", "hand_settled"},
   receipt        |-> {"receipt_consensus_progress", "receipt_finalized"},
   interruption   |-> {"hand_session_interrupted", "hand_session_resumed"}]

Slots == DOMAIN SlotTypes

PoolSlots == {"pool", "pool_directory", "pool_phase"}
RoomSlots == {"friend_room", "room_entered", "room_snapshot", "membership", "roster",
              "next_hand", "safe_leave"}
HandSlots == {"hand_started", "hand_progress", "hand_ready", "hand_state", "hand_terminal",
              "receipt", "interruption"}

NoSlots == [s \in Slots |-> Nil]

\* An event body: its type and what the projection reads of it.
Body(type) ==
  [type |-> type, player |-> 0, leaving |-> FALSE, scope |-> <<0, 0>>, phase |-> 0, completed |-> 0]

OfHand(type, table, hand) == [Body(type) EXCEPT !.scope = <<table, hand>>]

-----------------------------------------------------------------------------
\* hand_scope: the table and the number of the hand an event is about.
InScope(slots, slot, event) == slots[slot] # Nil /\ slots[slot].body.scope = event.body.scope

ShouldReplaceHand(slots, event) ==
  LET current == slots["hand_started"]
  IN  \/ current = Nil
      \/ /\ event.body.scope[1] = current.body.scope[1]
         /\ event.body.scope[2] > current.body.scope[2]

BelongsToProjectedHand(slots, event) ==
  slots["hand_started"] = Nil \/ InScope(slots, "hand_started", event)

ShouldStoreHandProgress(slots, event) ==
  LET current == slots["hand_progress"]
  IN  /\ BelongsToProjectedHand(slots, event)
      /\ \A slot \in {"hand_ready", "hand_state", "hand_terminal"} : ~InScope(slots, slot, event)
      /\ InScope(slots, "hand_progress", event) =>
           \/ event.body.phase > current.body.phase
           \/ event.body.phase = current.body.phase /\ event.body.completed >= current.body.completed

\* An event the projection takes no notice of: it is about another hand.
Ignored(slots, event) ==
  LET holds(set) == \E s \in set : event.body.type \in SlotTypes[s]
  IN  \/ holds({"hand_started"}) /\ ~ShouldReplaceHand(slots, event)
      \/ holds({"hand_progress"}) /\ ~ShouldStoreHandProgress(slots, event)
      \/ holds(HandSlots \ {"hand_started", "hand_progress"}) /\ ~BelongsToProjectedHand(slots, event)

Cleared(slots, event) ==
  LET type == event.body.type
  IN  {s \in Slots :
         \/ s \in {"identity", "statistics"} /\ type = "identity_cleared"
         \/ /\ s = "statistics" /\ type = "identity_ready"
            /\ slots["identity"] = Nil \/ slots["identity"].body.player # event.body.player
         \/ s \in PoolSlots /\ type \in {"pool_joined", "pool_cancelled", "safe_leave_completed"}
         \/ s \in RoomSlots /\ type \in {"room_entered", "room_closed", "safe_leave_completed"}
         \/ s \in HandSlots /\ type \in {"room_entered", "room_closed", "safe_leave_completed",
                                         "hand_protocol_started", "hand_left",
                                         "hand_aborted_for_leave"}
         \/ s = "safe_leave" /\ type = "room_snapshot" /\ ~event.body.leaving
         \/ s = "hand_progress" /\ type \in {"hand_ready", "hand_state", "hand_settled",
                                             "hand_action_conflict"}}

Observe(slots, event) ==
  IF Ignored(slots, event) THEN slots
  ELSE [s \in Slots |-> IF event.body.type \in SlotTypes[s] THEN event
                        ELSE IF s \in Cleared(slots, event) THEN Nil
                        ELSE slots[s]]

-----------------------------------------------------------------------------
\* pool_active, room_active and hand_active.
NotBusy == [pool |-> FALSE, room |-> FALSE, hand |-> FALSE]

UpdateBusyState(busy, type) ==
  LET flag(f, on, off) == type \in on \/ (busy[f] /\ type \notin off)
      play == {"hand_protocol_started", "hand_ready", "hand_state"}
  IN  [pool |-> flag("pool", {"pool_joined"}, {"pool_cancelled", "safe_leave_completed"}),
       room |-> flag("room", play \cup SlotTypes["friend_room"] \cup {"room_entered", "room_snapshot"},
                     {"room_closed", "safe_leave_completed"}),
       hand |-> flag("hand", play, {"room_closed", "safe_leave_completed", "hand_left",
                                    "hand_aborted_for_leave"})]

IsBusy(busy) == busy.pool \/ busy.room \/ busy.hand

=============================================================================
