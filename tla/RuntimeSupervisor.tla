--------------------------- MODULE RuntimeSupervisor ---------------------------
(***************************************************************************)
(* The shared runtime and its clients (runtime_supervisor.rs, EventJournal *)
(* in runtime_protocol.rs, sidecar-runtime.mjs).  An actor owns the worker *)
(* process and the journal of its events; each client connection replays   *)
(* a snapshot of the journal and then follows the live events; a client    *)
(* keeps its own projection of the session across connections.             *)
(*                                                                         *)
(* The actor, the connections and the clients interleave at every await:   *)
(* what the actor still has to do is the sequence todo.  The worker plays  *)
(* one of a set of scripts; commands reach it but do not matter here.      *)
(***************************************************************************)
EXTENDS SessionProjection, Sequences, SequencesExt, FiniteSets

CONSTANTS
  Clients,            \* MCP processes
  Scripts,            \* what a worker may print: a set of sequences of event bodies
  EventLimit,         \* EVENT_LIMIT
  BroadcastCapacity,  \* EVENT_BROADCAST_CAPACITY
  OutputCapacity,     \* WORKER_EVENT_CHANNEL_CAPACITY
  PipeCapacity,       \* frames a pipe holds before the writer has to wait
  MaxFaults           \* bound: connections cut, worker exits, restarts, idle shutdowns,
                      \*        spawns and stops that fail, all together

ASSUME SupervisorAssumption ==
  /\ IsFiniteSet(Clients)
  /\ {EventLimit, BroadcastCapacity, OutputCapacity, PipeCapacity} \subseteq Nat \ {0}
  /\ MaxFaults \in Nat

VARIABLES
  runtime,      \* number of supervisors started, the last one is runtime_id
  up,           \* the supervisor is running
  journal,      \* EventJournal
  worker,       \* the ManagedWorker, or Nil
  processes,    \* worker processes: [generation, script, printed]
  outputs,      \* worker_outputs channel
  requests,     \* ActorRequest channel
  todo,         \* what is left of the branch of select! the actor is in
  idle,         \* idle_monitor: watching, decided to shut down, done
  connection,   \* connection[c]: the pipe of client c, or Nil
  view,         \* view[c]: the SidecarRuntime object of client c
  faults

vars == <<runtime, up, journal, worker, processes, outputs, requests, todo, idle, connection, view,
          faults>>

Fault == faults < MaxFaults /\ faults' = faults + 1

Step(do) == [do |-> do, body |-> Body("none"), source |-> 0, client |-> Nil]

Publish(body, source) == [Step("append") EXCEPT !.body = body, !.source = source]

-----------------------------------------------------------------------------
\* EventJournal.
NewJournal ==
  [generation |-> 1, first |-> 1, latest |-> 0, events |-> <<>>, slots |-> NoSlots, busy |-> NotBusy]

\* source is the generation of the worker that printed the event, 0 for the
\* supervisor's own.
NextEvent(j, body, source) ==
  [generation |-> j.generation, sequence |-> j.latest + 1, body |-> body, source |-> source]

\* Bug variant: the limit is exceeded by one.
Retained_OneMore(events) ==
  IF Len(events) > EventLimit + 1 THEN Tail(events) ELSE events

Retained(events) ==
  IF Len(events) > EventLimit THEN SubSeq(events, Len(events) - EventLimit + 1, Len(events))
  ELSE events

JournalAppend(j, event) ==
  [j EXCEPT !.latest = event.sequence,
            !.busy   = UpdateBusyState(@, event.body.type),
            !.slots  = Observe(@, event),
            !.events = Retained(Append(@, event))]

ResetGeneration(j) ==
  [NewJournal EXCEPT !.generation = j.generation + 1,
                     !.first      = j.latest + 1,
                     !.latest     = j.latest]

Earliest(j) == IF j.events = <<>> THEN j.latest + 1 ELSE Head(j.events).sequence

\* Bug variant: only the retained events are replayed.
Snapshot_EventsOnly(j) == j.events

\* The retained events and the projected ones, each once, in order.
Snapshot(j) ==
  SetToSortSeq(({j.slots[s] : s \in Slots} \ {Nil}) \cup Range(j.events),
               LAMBDA a, b : a.sequence < b.sequence)

-----------------------------------------------------------------------------
\* SidecarRuntime of a client, before it has ever been attached.
\* missed is a history of whether it came back to the same generation after
\* events it had not seen were dropped from the journal.
NewView ==
  [runtime |-> 0, generation |-> 0, sequence |-> 0, slots |-> NoSlots, busy |-> NotBusy,
   attached |-> FALSE, missed |-> FALSE]

Init ==
  /\ runtime = 0
  /\ up = FALSE
  /\ journal = NewJournal
  /\ worker = Nil
  /\ processes = {}
  /\ outputs = <<>>
  /\ requests = <<>>
  /\ todo = <<>>
  /\ idle = "done"
  /\ connection = [c \in Clients |-> Nil]
  /\ view = [c \in Clients |-> NewView]
  /\ faults = 0

-----------------------------------------------------------------------------
\* The worker process prints a line, or ends (its reader reports the end
\* after the lines before it).
WorkerPrints(w) ==
  /\ w \in processes
  /\ w.printed < Len(w.script)
  /\ Len(outputs) < OutputCapacity
  /\ outputs' = Append(outputs, [generation |-> w.generation, body |-> w.script[w.printed + 1]])
  /\ processes' = (processes \ {w}) \cup {[w EXCEPT !.printed = @ + 1]}
  /\ UNCHANGED <<runtime, up, journal, worker, requests, todo, idle, connection, view, faults>>

Closed(generation) == [generation |-> generation, body |-> Body("closed")]

WorkerExits(w) ==
  /\ w \in processes
  /\ Fault
  /\ processes' = processes \ {w}
  /\ outputs' = Append(outputs, Closed(w.generation))
  /\ UNCHANGED <<runtime, up, journal, worker, requests, todo, idle, connection, view>>

-----------------------------------------------------------------------------
\* runtime_actor.  A worker's output: an event of another generation is
\* dropped, and so is the end of a worker that was replaced.
\* Bug variant: whatever arrives is published.
HandleOutput_AnyGeneration(output) ==
  IF output.body.type = "closed" THEN UNCHANGED <<worker, todo, faults>>
  ELSE todo' = <<Publish(output.body, output.generation)>> /\ UNCHANGED <<worker, faults>>

HandleOutput(output) ==
  LET current == worker # Nil /\ worker.generation = output.generation
      boots   == current /\ output.body.type = "ready" /\ ~worker.bootstrapped
      publish == Publish(output.body, output.generation)
  IN  \/ /\ output.body.type = "closed"
         /\ IF current THEN worker' = Nil /\ todo' = <<Step("reset"), Publish(Body("warning"), 0)>>
            ELSE UNCHANGED <<worker, todo>>
         /\ UNCHANGED faults
      \/ /\ output.body.type # "closed"
         /\ output.generation # journal.generation
         /\ UNCHANGED <<worker, todo, faults>>
      \/ /\ output.body.type # "closed"
         /\ output.generation = journal.generation
         /\ worker' = IF boots THEN [worker EXCEPT !.bootstrapped = TRUE] ELSE worker
         /\ todo' = <<publish>>
         /\ UNCHANGED faults
      \/ /\ boots                                  \* write_bootstrap_commands fails
         /\ output.generation = journal.generation
         /\ Fault
         /\ todo' = <<publish, Publish(Body("warning"), 0)>>
         /\ UNCHANGED worker

ActorReceivesOutput ==
  /\ up
  /\ todo = <<>>
  /\ outputs # <<>>
  /\ HandleOutput(Head(outputs))
  /\ outputs' = Tail(outputs)
  /\ UNCHANGED <<runtime, up, journal, processes, requests, idle, connection, view>>

Reply(request) == [Step("reply") EXCEPT !.client = request.client]

ActorReceivesRequest ==
  /\ up
  /\ todo = <<>>
  /\ requests # <<>>
  /\ LET request == Head(requests)
     IN  todo' = CASE request.type = "ensure"   -> <<Step("spawn"), Reply(request)>>
                   [] request.type = "restart"  ->
                        <<Step("reset"), Publish(Body("sidecar_restarting"), 0), Step("stop"),
                          Step("spawn"), Reply(request)>>
                   [] request.type = "shutdown" -> <<Step("stop"), Step("exit")>>
  /\ requests' = Tail(requests)
  /\ UNCHANGED <<runtime, up, journal, worker, processes, outputs, idle, connection, view, faults>>

ActorAt(do) == up /\ todo # <<>> /\ Head(todo).do = do

ActorResets ==
  /\ ActorAt("reset")
  /\ journal' = ResetGeneration(journal)
  /\ todo' = Tail(todo)
  /\ UNCHANGED <<runtime, up, worker, processes, outputs, requests, idle, connection, view, faults>>

\* publish_event: append to the journal, then, the lock released, broadcast.
ActorAppends ==
  /\ ActorAt("append")
  /\ LET event == NextEvent(journal, Head(todo).body, Head(todo).source)
     IN  journal' = JournalAppend(journal, event)
  /\ todo' = <<[Head(todo) EXCEPT !.do = "send"]>> \o Tail(todo)
  /\ UNCHANGED <<runtime, up, worker, processes, outputs, requests, idle, connection, view, faults>>

\* A subscriber that is behind by more than the capacity of the channel has
\* lost its oldest event and will be told so.
Subscribed(c) == connection[c] # Nil /\ connection[c].phase \notin {"handshake", "closed"}

Offer(conn, event) ==
  IF Len(conn.live) < BroadcastCapacity THEN [conn EXCEPT !.live = Append(@, event)]
  ELSE [conn EXCEPT !.live = Append(Tail(@), event), !.lagged = TRUE]

ActorSends ==
  /\ ActorAt("send")
  /\ LET event == Last(journal.events)
     IN  connection' = [c \in Clients |->
           IF Subscribed(c) THEN Offer(connection[c], event) ELSE connection[c]]
  /\ todo' = Tail(todo)
  /\ UNCHANGED <<runtime, up, journal, worker, processes, outputs, requests, idle, view, faults>>

\* ensure_worker, spawn_worker.
ActorSpawns ==
  /\ ActorAt("spawn")
  /\ \/ /\ worker # Nil
        /\ todo' = Tail(todo)
        /\ UNCHANGED <<worker, processes, faults>>
     \/ /\ worker = Nil
        /\ worker' = [generation |-> journal.generation, bootstrapped |-> FALSE]
        /\ \E script \in Scripts :
             processes' = processes \cup
               {[generation |-> journal.generation, script |-> script, printed |-> 0]}
        /\ todo' = Tail(todo)
        /\ UNCHANGED faults
     \/ /\ worker = Nil
        /\ Fault
        /\ todo' = IF Tail(todo) = <<>> THEN <<Publish(Body("warning"), 0)>>
                   ELSE <<[todo[2] EXCEPT !.do = "refuse"]>>
        /\ UNCHANGED <<worker, processes>>
  /\ UNCHANGED <<runtime, up, journal, outputs, requests, idle, connection, view>>

\* stop_worker; when it fails, a restart is refused and a shutdown goes on.
ActorStops ==
  /\ ActorAt("stop")
  /\ worker' = Nil
  /\ \/ /\ processes' = processes \ {w \in processes : worker # Nil /\ w.generation = worker.generation}
        /\ outputs' = outputs \o [i \in 1 .. Cardinality(processes \ processes') |->
                                     Closed(worker.generation)]
        /\ todo' = Tail(todo)
        /\ UNCHANGED faults
     \/ /\ worker # Nil
        /\ Fault
        /\ todo' = IF todo[2].do = "exit" THEN Tail(todo)
                   ELSE <<[Last(todo) EXCEPT !.do = "refuse"]>>
        /\ UNCHANGED <<processes, outputs>>
  /\ UNCHANGED <<runtime, up, journal, requests, idle, connection, view>>

\* The answer to a request reaches the connection that waits for it.  A client
\* that attaches and gets no worker is disconnected.
ActorReplies ==
  /\ ActorAt("reply") \/ ActorAt("refuse")
  /\ LET c == Head(todo).client
     IN  connection' = IF c = Nil THEN connection
                       ELSE [connection EXCEPT ![c].phase =
                               IF @ = "asking" THEN "live"
                               ELSE IF Head(todo).do = "reply" THEN "ensured" ELSE "closed"]
  /\ todo' = Tail(todo)
  /\ UNCHANGED <<runtime, up, journal, worker, processes, outputs, requests, idle, view, faults>>

\* The supervisor's process ends; its clients read what was sent before.
ActorExits ==
  /\ ActorAt("exit")
  /\ up' = FALSE
  /\ worker' = Nil
  /\ processes' = {}
  /\ outputs' = <<>>
  /\ requests' = <<>>
  /\ todo' = <<>>
  /\ idle' = "done"
  /\ connection' = [c \in Clients |-> IF connection[c] = Nil THEN Nil
                                      ELSE [connection[c] EXCEPT !.phase = "closed"]]
  /\ UNCHANGED <<runtime, journal, view, faults>>

\* idle_monitor: nobody attached and nothing going on; then the request.
IdleDecides ==
  /\ up
  /\ idle = "watching"
  /\ Fault
  /\ ~\E c \in Clients : Subscribed(c)
  /\ ~IsBusy(journal.busy)
  /\ idle' = "decided"
  /\ UNCHANGED <<runtime, up, journal, worker, processes, outputs, requests, todo, connection, view>>

IdleRequests ==
  /\ up
  /\ idle = "decided"
  /\ requests' = Append(requests, [type |-> "shutdown", client |-> Nil])
  /\ idle' = "done"
  /\ UNCHANGED <<runtime, up, journal, worker, processes, outputs, todo, connection, view, faults>>

-----------------------------------------------------------------------------
\* handle_client_inner.  The live events are subscribed to before the snapshot
\* is taken, so that between them they hold every event.
HandlerSubscribes(c) ==
  /\ up
  /\ connection[c] # Nil
  /\ connection[c].phase = "handshake"
  /\ connection' = [connection EXCEPT ![c].phase = "attaching"]
  /\ requests' = Append(requests, [type |-> "ensure", client |-> c])
  /\ UNCHANGED <<runtime, up, journal, worker, processes, outputs, todo, idle, view, faults>>

Frame(type) == [type |-> type, event |-> NextEvent(NewJournal, Body("none"), 0),
                runtime |-> 0, generation |-> 0, earliest |-> 0]

EventFrame(event) == [Frame("event") EXCEPT !.event = event]

HandlerReplays(c) ==
  /\ connection[c] # Nil
  /\ connection[c].phase = "ensured"
  /\ LET replay == Snapshot(journal)
         frames == <<[Frame("attached") EXCEPT !.runtime = runtime,
                                               !.generation = journal.generation,
                                               !.earliest = Earliest(journal)]>>
                   \o [i \in 1 .. Len(replay) |-> EventFrame(replay[i])]
                   \o <<[Frame("replay_complete") EXCEPT !.generation = journal.generation]>>
     IN  connection' = [connection EXCEPT ![c].phase = "live",
                                          ![c].pipe = @ \o frames,
                                          ![c].delivered = journal.latest]
  /\ UNCHANGED <<runtime, up, journal, worker, processes, outputs, requests, todo, idle, view, faults>>

\* Bug variants: the cursor is off by one; a subscriber that lags is kept.
Forward_SkipsOne(conn) ==
  LET event == Head(conn.live)
      new   == event.sequence > conn.delivered + 1
  IN  IF conn.lagged THEN [conn EXCEPT !.phase = "closed", !.pipe = Append(@, Frame("error"))]
      ELSE [conn EXCEPT !.live = Tail(@),
                        !.delivered = event.sequence,
                        !.pipe = IF new THEN Append(@, EventFrame(event)) ELSE @]

Forward_Lags(conn) ==
  LET event == Head(conn.live)
  IN  [conn EXCEPT !.live = Tail(@), !.delivered = event.sequence, !.pipe = Append(@, EventFrame(event))]

\* One live event; what the snapshot already held is skipped.
Forward(conn) ==
  LET event == Head(conn.live)
      new   == event.sequence > conn.delivered
  IN  IF conn.lagged THEN [conn EXCEPT !.phase = "closed", !.pipe = Append(@, Frame("error"))]
      ELSE [conn EXCEPT !.live = Tail(@),
                        !.delivered = IF new THEN event.sequence ELSE @,
                        !.pipe = IF new THEN Append(@, EventFrame(event)) ELSE @]

HandlerForwards(c) ==
  /\ connection[c] # Nil
  /\ connection[c].phase = "live"
  /\ connection[c].live # <<>>
  /\ Len(connection[c].pipe) < PipeCapacity
  /\ connection' = [connection EXCEPT ![c] = Forward(@)]
  /\ UNCHANGED <<runtime, up, journal, worker, processes, outputs, requests, todo, idle, view, faults>>

\* A request of an attached client: a worker command, which matters here when
\* there is no worker and it has to be started first, or a restart.  The client
\* asks for a restart when it believes the runtime idle, but may be long out of
\* date when it arrives.
HandlerAsks(c, type) ==
  /\ connection[c] # Nil
  /\ connection[c].phase = "live"
  /\ view[c].attached
  /\ IF type = "restart" THEN Fault ELSE worker = Nil /\ UNCHANGED faults
  /\ connection' = [connection EXCEPT ![c].phase = "asking"]
  /\ requests' = Append(requests, [type |-> type, client |-> c])
  /\ UNCHANGED <<runtime, up, journal, worker, processes, outputs, todo, idle, view>>

-----------------------------------------------------------------------------
\* SidecarRuntime: start a supervisor if there is none, connect, attach.
ClientStartsRuntime(c) ==
  /\ ~up
  /\ connection[c] = Nil
  /\ up' = TRUE
  /\ runtime' = runtime + 1
  /\ journal' = NewJournal
  /\ todo' = <<Step("spawn")>>
  /\ idle' = "watching"
  /\ UNCHANGED <<worker, processes, outputs, requests, connection, view, faults>>

ClientConnects(c) ==
  /\ up
  /\ connection[c] = Nil
  /\ connection' = [connection EXCEPT ![c] =
       [phase |-> "handshake", live |-> <<>>, lagged |-> FALSE, delivered |-> 0, pipe |-> <<>>]]
  /\ UNCHANGED <<runtime, up, journal, worker, processes, outputs, requests, todo, idle, view, faults>>

ResetProjection(v) ==
  [v EXCEPT !.sequence = 0, !.slots = NoSlots, !.busy = NotBusy, !.missed = FALSE]

AcceptAttachedFrame(v, frame) ==
  LET changed == \/ v.runtime # 0 /\ v.runtime # frame.runtime
                 \/ v.generation # 0 /\ v.generation # frame.generation
      w       == IF changed THEN ResetProjection(v) ELSE v
  IN  [w EXCEPT !.runtime = frame.runtime,
                !.generation = frame.generation,
                !.missed = @ \/ (w.sequence > 0 /\ frame.earliest > w.sequence + 1)]

ConsumeSidecarEvent(v, event) ==
  [v EXCEPT !.sequence = event.sequence,
            !.busy     = UpdateBusyState(@, event.body.type),
            !.slots    = Observe(@, event)]

\* Bug variant: a new generation does not reset the projection.
AcceptRuntimeEvent_KeepsOld(v, event) ==
  IF event.sequence <= v.sequence THEN v
  ELSE ConsumeSidecarEvent([v EXCEPT !.generation = event.generation], event)

AcceptRuntimeEvent(v, event) ==
  IF event.generation < v.generation THEN v
  ELSE LET w == IF event.generation = v.generation THEN v
                ELSE [ResetProjection(v) EXCEPT !.generation = event.generation]
       IN  IF event.sequence <= w.sequence THEN w ELSE ConsumeSidecarEvent(w, event)

ClientReceives(c) ==
  /\ connection[c] # Nil
  /\ connection[c].pipe # <<>>
  /\ LET frame == Head(connection[c].pipe)
     IN  view' = [view EXCEPT ![c] =
           CASE frame.type = "attached"        -> AcceptAttachedFrame(@, frame)
             [] frame.type = "event"           -> AcceptRuntimeEvent(@, frame.event)
             [] frame.type = "replay_complete" -> [@ EXCEPT !.attached = frame.generation = view[c].generation]
             [] frame.type = "error"           -> @]
  /\ connection' = [connection EXCEPT ![c].pipe = Tail(@)]
  /\ UNCHANGED <<runtime, up, journal, worker, processes, outputs, requests, todo, idle, faults>>

Detach(c) ==
  /\ connection' = [connection EXCEPT ![c] = Nil]
  /\ view' = [view EXCEPT ![c].attached = FALSE]

ClientSeesClose(c) ==
  /\ connection[c] # Nil
  /\ connection[c].phase = "closed"
  /\ connection[c].pipe = <<>>
  /\ Detach(c)
  /\ UNCHANGED <<runtime, up, journal, worker, processes, outputs, requests, todo, idle, faults>>

\* The connection breaks or the client gives up waiting for the replay; what
\* is in the pipe is lost, and an answer still to come goes nowhere.
Forget(seq, c) ==
  [i \in DOMAIN seq |-> IF seq[i].client = c THEN [seq[i] EXCEPT !.client = Nil] ELSE seq[i]]

ConnectionBreaks(c) ==
  /\ connection[c] # Nil
  /\ Fault
  /\ Detach(c)
  /\ requests' = Forget(requests, c)
  /\ todo' = Forget(todo, c)
  /\ UNCHANGED <<runtime, up, journal, worker, processes, outputs, idle>>

-----------------------------------------------------------------------------
\* What goes on by itself: the actor, the worker, the connections, and the
\* client, whose next poll attaches again.
Runs ==
  \/ ActorReceivesOutput \/ ActorReceivesRequest
  \/ ActorResets \/ ActorAppends \/ ActorSends \/ ActorSpawns \/ ActorStops \/ ActorReplies
  \/ ActorExits \/ IdleRequests
  \/ \E w \in processes : WorkerPrints(w)
  \/ \E c \in Clients :
       \/ HandlerSubscribes(c) \/ HandlerReplays(c) \/ HandlerForwards(c)
       \/ ClientStartsRuntime(c) \/ ClientConnects(c) \/ ClientReceives(c) \/ ClientSeesClose(c)

Next ==
  \/ Runs
  \/ IdleDecides
  \/ \E w \in processes : WorkerExits(w)
  \/ \E c \in Clients :
       \/ \E type \in {"ensure", "restart"} : HandlerAsks(c, type)
       \/ ConnectionBreaks(c)

Spec == Init /\ [][Next]_vars

Fairness == WF_vars(Runs)

FairSpec == Spec /\ Fairness

-----------------------------------------------------------------------------
Numbers(events) == {e.sequence : e \in Range(events)}

\* Type invariant.  Beyond types, the journal holds the last events of its
\* generation, as many as its limit allows and without a gap (append,
\* reset_generation), and no connection is ahead of it.
TypeOK ==
  /\ runtime \in 0 .. MaxFaults + 1 /\ up \in BOOLEAN /\ faults \in 0 .. MaxFaults
  /\ idle \in {"watching", "decided", "done"}
  /\ Len(journal.events) <= EventLimit
  /\ Numbers(journal.events) = Earliest(journal) .. journal.latest
  /\ Earliest(journal) >= journal.first
  /\ \A e \in Range(journal.events) : e.generation = journal.generation
  /\ worker # Nil => worker.generation <= journal.generation
  /\ \A c \in Clients : connection[c] # Nil =>
       /\ connection[c].phase \in {"handshake", "attaching", "ensured", "live", "asking", "closed"}
       /\ Len(connection[c].live) <= BroadcastCapacity
       /\ connection[c].delivered <= journal.latest
       /\ view[c].attached => connection[c].phase \in {"live", "asking", "closed"}

\* Nothing a worker of an earlier generation prints, or its late end, gets into
\* the journal of its successor (runtime_actor compares the generations).
JournalOfOneWorker ==
  \A e \in Range(journal.events) \cup ({journal.slots[s] : s \in Slots} \ {Nil}) :
    e.source \in {0, journal.generation}

Following(c) ==
  /\ connection[c] # Nil
  /\ connection[c].phase \in {"live", "asking"}
  /\ ~connection[c].lagged
  /\ view[c].attached

Unsent == IF ActorAt("send") THEN {journal.latest} ELSE {}

InPipe(c) == {f.event.sequence : f \in {x \in Range(connection[c].pipe) : x.type = "event"}}

Undelivered(c) == {n \in Numbers(connection[c].live) \cup Unsent : n > connection[c].delivered}

\* Between the snapshot and the live stream no event is lost: whatever a
\* client that follows the runtime has not seen of this generation is on its
\* way to it (subscribe before snapshot, delivered_sequence).
EveryEventArrives ==
  \A c \in Clients : Following(c) =>
    \A n \in journal.first .. journal.latest :
      n > view[c].sequence => n \in InPipe(c) \cup Undelivered(c)

CaughtUp(c) ==
  /\ Following(c)
  /\ view[c].runtime = runtime
  /\ view[c].generation = journal.generation
  /\ connection[c].pipe = <<>>
  /\ Undelivered(c) = {}

\* A client that has read everything shows exactly the session the journal
\* projects, and agrees on whether the runtime is busy, however it came to
\* attach, restart or replay; unless it came back to find events dropped.  The
\* statistics are left out: replayed alone, they come before the identity that
\* is newer than they are, which withdraws them.
MirrorsSession ==
  \A c \in Clients : CaughtUp(c) /\ ~view[c].missed =>
    /\ \A s \in Slots \ {"statistics"} : view[c].slots[s] = journal.slots[s]
    /\ view[c].busy = journal.busy

\* Even a client that came back to find events dropped lacks nothing that is
\* current: the snapshot replays the projected events besides the retained ones.
MissesNothing ==
  \A c \in Clients : CaughtUp(c) =>
    /\ \A s \in Slots \ {"statistics"} :
         journal.slots[s] # Nil => view[c].slots[s] = journal.slots[s]
    /\ IsBusy(journal.busy) => IsBusy(view[c].busy)

\* A client that has read everything shows the session: exactly, or, when events
\* were dropped while it was away, at least all that is current.
ShowsTheSession == MirrorsSession /\ MissesNothing

\* Whatever crashes, restarts, lags or is cut off, in the end every client that
\* keeps polling follows the last runtime and has read everything (handle_client
\* ends a connection that lags, and the client attaches again).
EndsUpCurrent == \A c \in Clients : <>[](Following(c) /\ InPipe(c) \cup Undelivered(c) = {})

=============================================================================
