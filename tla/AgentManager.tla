---------------------------- MODULE AgentManager ----------------------------
(***************************************************************************)
(* The agent manager of the daemon for ONE agent:                          *)
(*   daemon/src/manager/managerRuntime.ts    class AgentProcessManager     *)
(*   daemon/src/manager/managerPolicy.ts     its reducer (ManagerPolicy)   *)
(* and, as far as the manager can see it, the session it manages:          *)
(*   daemon/agent-driver/src/controller/logical-session.ts                 *)
(*                                                                         *)
(* An owner is an ActiveSpawnState with its session: one launch of the     *)
(* backend.  `current` is the owner activeSpawnState holds.  The events of *)
(* a session are consumed in order and before the next timer or frame, so  *)
(* they are handled in the step of the session that emits them; receipts,  *)
(* the factory, the end of a stop and every timeout are steps of their own.*)
(*                                                                         *)
(* Left out: runtime configuration updates, shutdown, interrupt, tools and *)
(* deadlines (a timeout may come at any time), which backend session is    *)
(* resumed, audits other than the fact that a lost message was reported,   *)
(* and the receipts of send: the controller rejects a command only after   *)
(* it has emitted its failure.                                             *)
(***************************************************************************)
EXTENDS ManagerPolicy, Integers

CONSTANTS
    NumMessages,    \* bound: messages that may be delivered
    Deliveries,     \* how the backends take a message during a turn
    Unhealthy,      \* the runtime may be found unusable when it is launched
    MaxRestarts,    \* bound: resets, naps and model switches
    MaxStops,       \* bound: agent:stop commands
    MaxReturns      \* bound: messages the backend gives back

ASSUME BoundsAssumption ==
    /\ NumMessages \in Nat /\ MaxRestarts \in Nat /\ MaxStops \in Nat /\ MaxReturns \in Nat

ASSUME BackendAssumption ==
    /\ Deliveries # {} /\ Deliveries \subseteq {"steer", "boundary", "next_turn"}
    /\ Unhealthy \in BOOLEAN

VARIABLES
    agent,      \* the AgentState of the reducer
    owners,     \* every ActiveSpawnState there has been, in order
    current,    \* index of the owner in activeSpawnState; 0: none
    fate,       \* per message: who answers for it (a ghost)
    healthy,    \* the router believes the runtime can be launched
    returned,   \* messages that were returned: they wait for a turn of their own
    restarts, stops

vars == <<agent, owners, current, fate, healthy, returned, restarts, stops>>

\* Messages are numbered in the order in which they are delivered.
Messages == 1..NumMessages
None     == 0

Fates == {"new", "held", "accepted", "reported", "refused", "abandoned"}

World == [agent |-> agent, owners |-> owners, current |-> current, fate |-> fate]

Becomes(w) ==
    agent' = w.agent /\ owners' = w.owners /\ current' = w.current /\ fate' = w.fate
-----------------------------------------------------------------------------
(* Owners and sessions.                                                    *)

\* What a session holds: its turn, the message that opens it until it is taken,
\* the queue, the messages on their way into the turn, and those it has taken.
Empty == [turn |-> "none", root |-> None, queue |-> <<>>, steering |-> {}, taken |-> {}]

NewOwner(m) ==
    [phase |-> "opening", first |-> m, delivery |-> "next_turn", established |-> FALSE,
     reported |-> FALSE, superseded |-> FALSE, discard |-> FALSE, torndown |-> FALSE,
     receipt |-> "none", ended |-> FALSE, held |-> Empty]

\* What is left of an owner nothing will look at again; `discard` says that it was
\* given up while its events were discarded.
Over(o) == [NewOwner(1) EXCEPT !.phase = "gone", !.torndown = TRUE,
                               !.discard = o.discard /\ o.torndown]

Held(h) == ({h.root} \ {None}) \cup ToSet(h.queue) \cup h.steering

\* onEvent and onAgentEvent: whose events reach the reducer.
Listens(w, i) ==
    LET o == w.owners[i]
    IN  ~o.torndown /\ ~o.discard /\ (o.superseded => w.agent.epoch = i)

CanSend(w) ==
    /\ w.current # 0
    /\ LET o == w.owners[w.current]
       IN  /\ o.phase = "open" /\ ~o.torndown /\ ~o.superseded
           /\ w.agent.status = "running" /\ ~w.agent.resetting
           /\ w.agent.epoch = w.current
-----------------------------------------------------------------------------
(* Spawning.                                                               *)

\* doSpawn: all but the first message wait in the inbox; driverFor throws for a
\* runtime the router found unusable, which leaves everything else as it is and
\* the first message nowhere.
Spawn(w, msgs) ==
    LET v == [w EXCEPT !.agent = QueueDelivery(@, Tail(msgs))]
        before == [i \in DOMAIN v.owners |->
                      [v.owners[i] EXCEPT !.superseded = @ \/ i = v.current]]
    IN  IF ~healthy
        THEN [v EXCEPT !.fate[Head(msgs)] = IF @ = "held" THEN "abandoned" ELSE @]
        ELSE [v EXCEPT !.owners = Append(before, NewOwner(Head(msgs))),
                       !.current = Len(w.owners) + 1]

\* The exit event of the reducer and its effects.
Exit(w) ==
    LET v == [w EXCEPT !.agent = Exited(@)]
    IN  IF ExitSpawns(w.agent) THEN Spawn(v, w.agent.inbox) ELSE v

\* The fates when messages that nobody will try again are given up.
Told(w, msgs, what) ==
    [m \in Messages |->
        IF m \in msgs \ Kept(w.agent) /\ w.fate[m] = "held" THEN what ELSE w.fate[m]]

\* reportSpawnFailure: the loss of the first message is reported, unless the
\* session was established or the owner is no longer the current one.
ReportSpawnFailure(w, i) ==
    LET o == w.owners[i]
        fails == ~o.established /\ ~o.reported
    IN  [w EXCEPT !.owners[i].reported = @ \/ fails,
                  !.fate = IF fails /\ w.current = i THEN Told(w, {o.first}, "reported") ELSE @]
-----------------------------------------------------------------------------
(* Delivery.                                                               *)

\* session.send, of a session that can be sent to: a turn of its own when the
\* session is idle, else into the turn or onto the queue, which is told at once.
Admit(w, msgs) ==
    LET i == w.current
        h == w.owners[i].held
        opens == h.turn = "none" /\ h.queue = <<>> /\ msgs # <<>>
        rest == IF opens THEN Tail(msgs) ELSE msgs
        steered == IF w.owners[i].delivery = "steer" /\ (opens \/ h.turn # "none")
                   THEN ToSet(rest) \ returned ELSE {}
        queued == Minus(rest, steered)
    IN  [w EXCEPT !.agent = AdmissionsStarted(@, msgs, ToSet(queued), TRUE),
                  !.owners[i].held =
                      [h EXCEPT !.turn = IF opens THEN "starting" ELSE @,
                                !.root = IF opens THEN Head(msgs) ELSE @,
                                !.steering = @ \cup steered,
                                !.queue = @ \o queued]]

\* The send effects of one event: all are sent, or the batch goes back.
Send(w, msgs) ==
    IF CanSend(w) THEN Admit(w, msgs)
    ELSE [w EXCEPT !.agent = QueueDelivery(@, msgs)]

\* settlePendingDelivery of commands that did not fail.
Settle(w, i, msgs) ==
    IF w.agent.epoch = i THEN [w EXCEPT !.agent = AdmissionsSettled(@, msgs)] ELSE w

\* command_accepted
Accept(w, i, m) ==
    LET v == [w EXCEPT !.fate[m] = "accepted"]
    IN  IF Listens(w, i) THEN Settle(v, i, {m}) ELSE v

\* command_failed of messages meant for the running turn: reported, not kept.
InputsFail(w, i, msgs) ==
    IF ~Listens(w, i) THEN w
    ELSE LET v == Settle(w, i, msgs)
         IN  [v EXCEPT !.fate = Told(v, msgs, "reported")]

\* command_failed of messages that were to open a turn: given back.
TurnsFail(w, i, msgs) ==
    IF Listens(w, i) /\ w.agent.epoch = i
    THEN [w EXCEPT !.agent = AdmissionsFailed(@, msgs)] ELSE w

\* Everything a session has not accepted fails when it stops or ends.
FailHeld(w, i) ==
    LET h    == w.owners[i].held
        root == IF h.root = None THEN <<>> ELSE <<h.root>>
        v    == [w EXCEPT !.owners[i].held =
                    [h EXCEPT !.root = None, !.queue = <<>>, !.steering = {},
                              !.turn = IF @ = "starting" THEN "none" ELSE @]]
    IN  TurnsFail(InputsFail(TurnsFail(v, i, root), i, h.steering), i, h.queue)

\* session.stop: what it holds fails at once; how it ends is Finishes and Closes.
StopSession(w, i) ==
    IF i = 0 THEN w
    ELSE IF w.owners[i].phase # "open" THEN w
    ELSE FailHeld([w EXCEPT !.owners[i].phase = "stopping"], i)

Complete_SendsNothing(w, i) ==
    IF ~Listens(w, i) \/ w.agent.epoch # i THEN w ELSE [w EXCEPT !.agent = TurnCompleted(@)]

\* turn_completed: what waited in the inbox is sent.
Complete(w, i) ==
    IF ~Listens(w, i) \/ w.agent.epoch # i THEN w
    ELSE LET v == [w EXCEPT !.agent = TurnCompleted(@)]
         IN  IF CompletionSends(w.agent) THEN Send(v, w.agent.inbox) ELSE v
-----------------------------------------------------------------------------
(* Commands of the server.                                                 *)

\* deliver: the wake event of the reducer and its effects.  A throw of doSpawn
\* is the answer to the server if it is this message that is lost by it.
Deliver(w, m) ==
    LET v == [w EXCEPT !.fate[m] = "held", !.agent = Wakes(@, m)]
        a == v.agent
        refused == ~healthy /\ Head(a.inbox) = m
    IN  IF WakeSpawns(w.agent)
        THEN Spawn([v EXCEPT !.agent = Drained([a EXCEPT !.status = "starting"]),
                             !.fate[m] = IF refused THEN "refused" ELSE @], a.inbox)
        ELSE IF WakeSends(w.agent, m, returned) THEN Send([v EXCEPT !.agent = Drained(a)], a.inbox)
        ELSE v

IsNext(m) == fate[m] = "new" /\ \A k \in 1..(m - 1) : fate[k] # "new"

\* agent:wake, or the memory maintenance prompt of an idle agent.
Wake(m) ==
    /\ IsNext(m)
    /\ Becomes(Deliver(World, m))
    /\ UNCHANGED <<healthy, returned, restarts, stops>>

\* agent:stop: an owner that has no session yet is not told.
Stop ==
    /\ stops < MaxStops
    /\ Becomes(StopSession(World, current))
    /\ stops' = stops + 1
    /\ UNCHANGED <<healthy, returned, restarts>>

\* markResetting; a reset or a nap discards the events of the old owner too.
Supersede(w, discards) ==
    LET v == [w EXCEPT !.agent = BeginReset(IF discards THEN ResetSession(@) ELSE @)]
    IN  IF w.current = 0 THEN v
        ELSE [v EXCEPT !.owners[w.current].superseded = TRUE,
                       !.owners[w.current].discard = @ \/ discards]

\* restartAgent: reset and nap (discards), or a model switch.  `m` is the rewake
\* prompt, if there is one.  A throw of the spawn is followed by an exit.
Restart(discards, m) ==
    /\ restarts < MaxRestarts
    /\ m # None => IsNext(m)
    /\ LET v == Supersede(World, discards)
       IN  Becomes(
             IF agent.status = "idle"
             THEN IF m = None THEN Exit(v)
                  ELSE IF healthy THEN Deliver(v, m) ELSE Exit(Deliver(v, m))
             ELSE StopSession(IF m = None THEN v
                              ELSE [v EXCEPT !.agent = Rewake(@, m), !.fate[m] = "held"], current))
    /\ restarts' = restarts + 1
    /\ UNCHANGED <<healthy, returned, stops>>

\* markRuntimeUnhealthy and markRuntimeHealthy, on what other agents met.
HealthChanges ==
    /\ Unhealthy
    /\ healthy' = ~healthy
    /\ UNCHANGED <<agent, owners, current, fate, returned, restarts, stops>>
-----------------------------------------------------------------------------
(* Steps of a session.                                                     *)

Quietly == UNCHANGED <<healthy, returned, restarts, stops>>

\* The factory answers.  An owner that was replaced or given up is stopped
\* without a start; any other one starts with its first message.
FactoryOpens(i, delivery) ==
    /\ owners[i].phase = "opening"
    /\ LET o == owners[i]
           started == [World EXCEPT
               !.agent = AdmissionsStarted(AttachSession(@, i), <<o.first>>, {}, FALSE),
               !.owners[i] = [o EXCEPT !.phase = "open", !.delivery = delivery, !.receipt = "due",
                                       !.held.turn = "starting", !.held.root = o.first]]
       IN  Becomes(IF o.torndown \/ current # i THEN [World EXCEPT !.owners[i].phase = "stopping"]
                   ELSE started)
    /\ Quietly

FactoryFails_KeepsOwner(i) ==
    /\ owners[i].phase = "opening"
    /\ LET v == [ReportSpawnFailure(World, i) EXCEPT !.owners[i] = Over(@)]
       IN  Becomes(IF current = i THEN Exit(v) ELSE v)
    /\ Quietly

FactoryFails(i) ==
    /\ owners[i].phase = "opening"
    /\ LET w == ReportSpawnFailure(World, i)
           v == [w EXCEPT !.owners[i] = Over(@)]
       IN  Becomes(IF current = i THEN Exit([v EXCEPT !.current = 0]) ELSE v)
    /\ Quietly

\* The backend admits the turn: command_accepted, then turn_started.
TurnStarts(i) ==
    /\ owners[i].phase = "open" /\ owners[i].held.turn = "starting"
    /\ LET m == owners[i].held.root
           w == Accept([World EXCEPT !.owners[i].held =
                           [@ EXCEPT !.turn = "working", !.root = None, !.taken = {m}]], i, m)
       IN  Becomes(IF Listens(w, i) /\ agent.epoch = i
                   THEN [w EXCEPT !.agent = TurnStarted(@)] ELSE w)
    /\ Quietly

\* The backend refuses the turn: command_failed, session_failed, and the session
\* ends; a running agent's session is told to stop as well.
TurnRefused(i) ==
    /\ owners[i].phase = "open" /\ owners[i].held.turn = "starting"
    /\ Becomes(StopSession(IF Listens(World, i) THEN ReportSpawnFailure(World, i) ELSE World, i))
    /\ Quietly

\* The receipt of start: the agent runs, and what waited is sent.
StartReceipt(i) ==
    /\ owners[i].receipt = "due" /\ owners[i].held.turn # "starting"
    /\ LET o == owners[i]
           waits == ~o.established /\ ~o.reported
           w == [World EXCEPT !.owners[i].receipt = IF waits THEN "timed" ELSE "none"]
       IN  Becomes(IF /\ current = i /\ ~o.superseded /\ o.phase = "open"
                      /\ agent.status = "starting"
                   THEN Send([w EXCEPT !.agent = Spawned(@)], agent.inbox)
                   ELSE [World EXCEPT !.owners[i].receipt = "none"])
    /\ Quietly

\* session_started: the owner is established if that can be written to the
\* control file, and given up if not.
SessionStarts(i, saved) ==
    /\ owners[i].phase = "open" /\ owners[i].held.turn # "starting"
    /\ ~owners[i].established /\ Listens(World, i)
    /\ LET w == ReportSpawnFailure(World, i)
       IN  Becomes(IF saved
                   THEN [World EXCEPT !.owners[i].established = TRUE,
                                      !.owners[i].receipt = IF @ = "timed" THEN "none" ELSE @]
                   ELSE StopSession([w EXCEPT !.owners[i].discard = TRUE], i))
    /\ Quietly

HandshakeTimeout(i) ==
    /\ owners[i].receipt = "timed" /\ owners[i].phase = "open" /\ ~owners[i].torndown
    /\ Becomes(StopSession([ReportSpawnFailure(World, i) EXCEPT !.owners[i].receipt = "none"], i))
    /\ Quietly

Unqueued(h, m) == [h EXCEPT !.steering = @ \ {m}, !.queue = Minus(@, {m})]

\* drainSafeBoundaryQueue: the head of the queue is offered to the running turn,
\* unless that message waits for a turn of its own.
BoundaryOffer(i) ==
    LET h == owners[i].held
    IN  /\ owners[i].phase = "open" /\ owners[i].delivery = "boundary"
        /\ h.turn = "working" /\ h.steering = {}
        /\ h.queue # <<>> /\ Head(h.queue) \notin returned
        /\ Becomes([World EXCEPT !.owners[i].held =
                       [h EXCEPT !.steering = {Head(h.queue)}, !.queue = Tail(@)]])
        /\ Quietly

\* The running turn takes a message on its way, refuses it, or is too busy.
MayTake(i, m) ==
    owners[i].phase = "open" /\ owners[i].held.turn = "working" /\ m \in owners[i].held.steering

Took(h, m) == [Unqueued(h, m) EXCEPT !.taken = @ \cup {m}]

TurnTakes(i, m) ==
    /\ MayTake(i, m)
    /\ Becomes(Accept([World EXCEPT !.owners[i].held = Took(@, m)], i, m))
    /\ Quietly

InputRefused(i, m) ==
    /\ MayTake(i, m)
    /\ Becomes(InputsFail([World EXCEPT !.owners[i].held = Unqueued(@, m)], i, {m}))
    /\ Quietly

Requeued(h, m, last) ==
    [Unqueued(h, m) EXCEPT !.queue = IF last THEN Append(@, m) ELSE <<m>> \o @]

TurnBusy(i, m) ==
    /\ MayTake(i, m)
    /\ LET steers == owners[i].delivery = "steer"
           w == [World EXCEPT !.owners[i].held = Requeued(@, m, steers)]
       IN  Becomes(IF steers /\ Listens(w, i) /\ agent.epoch = i
                   THEN [w EXCEPT !.agent = AdmissionAcknowledged(@, m)] ELSE w)
    /\ Quietly

\* startNextQueued, when the last turn is over.
Opens(h) == [h EXCEPT !.turn = "starting", !.root = Head(h.queue), !.queue = Tail(@)]

NextQueued(i) ==
    /\ owners[i].phase = "open" /\ owners[i].held.turn = "none" /\ owners[i].held.queue # <<>>
    /\ Becomes([World EXCEPT !.owners[i].held = Opens(@)])
    /\ Quietly

\* input_returned: the backend gives back a message it has taken.  If it may be
\* tried again it goes to the front of the inbox, with a turn of its own.
CommandReturned(i, m, retryable) ==
    /\ owners[i].phase = "open" /\ owners[i].held.turn = "working"
    /\ m \in owners[i].held.taken
    /\ Cardinality(returned) < MaxReturns
    /\ LET listens == Listens(World, i) /\ ~owners[i].superseded
           w == [World EXCEPT !.owners[i].held.taken = @ \ {m}]
       IN  Becomes(IF ~listens THEN [w EXCEPT !.fate[m] = "abandoned"]
                   ELSE IF retryable
                   THEN [w EXCEPT !.agent = QueueDelivery(@, <<m>>), !.fate[m] = "held"]
                   ELSE [w EXCEPT !.fate[m] = "reported"])
    /\ returned' = returned \cup {m}
    /\ UNCHANGED <<healthy, restarts, stops>>

\* completeTurn: what was on its way into the turn fails.
TurnCompletes(i) ==
    /\ owners[i].phase = "open" /\ owners[i].held.turn = "working"
    /\ LET h == owners[i].held
           w == [World EXCEPT !.owners[i].ended = TRUE,
                              !.owners[i].held = [h EXCEPT !.turn = "none", !.steering = {}, !.taken = {}]]
       IN  Becomes(Complete(InputsFail(w, i, h.steering), i))
    /\ Quietly

\* reopenClosedLaneForWork: work after the end of the turn reopens it.
WorkAfterTerminal(i) ==
    /\ owners[i].phase = "open" /\ owners[i].held.turn = "none" /\ owners[i].ended
    /\ LET w == [World EXCEPT !.owners[i].held.turn = "working"]
       IN  Becomes(IF Listens(w, i) /\ agent.epoch = i
                   THEN [w EXCEPT !.agent = ReopenedByWork(@)] ELSE w)
    /\ Quietly

\* onLaneExit: the backend process ends by itself; the lane is given a few seconds.
Crash(i) ==
    /\ owners[i].phase = "open"
    /\ Becomes([World EXCEPT !.owners[i].phase = "crashed"])
    /\ Quietly

\* finish: what is still held fails and the turn ends, before the resources are
\* released.
Finishes(i) ==
    /\ owners[i].phase \in {"stopping", "crashed"}
    /\ LET w == FailHeld(World, i)
           v == [w EXCEPT !.owners[i].phase = "ended", !.owners[i].held = Empty]
       IN  Becomes(IF owners[i].held.turn = "working" THEN Complete(v, i) ELSE v)
    /\ Quietly

\* teardown, when the session is closed and its events are exhausted.
Closes(i) ==
    /\ owners[i].phase = "ended"
    /\ LET w == ReportSpawnFailure(World, i)
           v == [w EXCEPT !.current = 0, !.owners[i] = Over(@),
                          !.agent = IF @.epoch = i THEN SessionClosed(@) ELSE @]
       IN  Becomes(IF owners[i].torndown \/ current # i THEN [World EXCEPT !.owners[i] = Over(@)]
                   ELSE Exit(v))
    /\ Quietly
-----------------------------------------------------------------------------
(* The tick.                                                               *)

\* A silent turn.  The second stall of a session, which is known once it started
\* or from the owner before, fences it and discards the rest of its events.  (A
\* transition that cannot be written leaves all as it was.)
TickStalled(again) ==
    /\ Stallable(agent)
    /\ again => current > 1 \/ owners[current].established
    /\ LET w == [World EXCEPT !.agent = Stalls(@)]
       IN  Becomes(StopSession(IF again THEN [w EXCEPT !.owners[current].discard = TRUE]
                               ELSE w, current))
    /\ Quietly

\* Admissions the session never answered.
TickExpires(msgs) ==
    /\ msgs # {} /\ msgs \subseteq Expirable(agent)
    /\ LET w == [World EXCEPT !.agent = Expires(@, msgs)]
       IN  Becomes(IF current = agent.epoch THEN StopSession(w, current) ELSE w)
    /\ Quietly

TickResetStuck ==
    /\ ResetStuck(agent)
    /\ Becomes(StopSession([World EXCEPT !.agent = Stalls(@)], current))
    /\ Quietly

\* force_exit: the owner is given up, whatever becomes of its session, and the
\* first message of a session that never opened with it.  (The end of a lane that
\* crashed is bounded well below this timeout.)
TickStoppingStuck ==
    /\ StoppingStuck(agent)
    /\ current # 0 => owners[current].phase # "crashed"
    /\ LET o == owners[current]
           lost == IF o.reported THEN {} ELSE {o.first}
           w == IF current = 0 THEN World
                ELSE [World EXCEPT !.current = 0,
                          !.owners[current] =
                             [o EXCEPT !.torndown = TRUE,
                                       !.phase = IF @ = "open" THEN "stopping" ELSE @],
                          !.fate = Told(World, lost, "abandoned")]
       IN  Becomes(Exit(w))
    /\ Quietly

TickIdleStop ==
    /\ IdleStoppable(agent)
    /\ Becomes(StopSession([World EXCEPT !.agent = Stops(@)], current))
    /\ Quietly
-----------------------------------------------------------------------------
Init ==
    /\ agent = Fresh /\ owners = <<>> /\ current = 0
    /\ fate = [m \in Messages |-> "new"]
    /\ healthy = TRUE /\ returned = {} /\ restarts = 0 /\ stops = 0

Commands ==
    \/ \E m \in Messages : Wake(m)
    \/ Stop
    \/ \E discards \in BOOLEAN, m \in Messages \cup {None} : Restart(discards, m)
    \/ HealthChanges

Session(i) ==
    \/ \E d \in Deliveries : FactoryOpens(i, d)
    \/ FactoryFails(i)
    \/ TurnStarts(i) \/ TurnRefused(i)
    \/ StartReceipt(i)
    \/ \E saved \in BOOLEAN : SessionStarts(i, saved)
    \/ HandshakeTimeout(i)
    \/ BoundaryOffer(i) \/ NextQueued(i)
    \/ \E m \in Messages : TurnTakes(i, m) \/ InputRefused(i, m) \/ TurnBusy(i, m)
    \/ \E m \in Messages, retryable \in BOOLEAN : CommandReturned(i, m, retryable)
    \/ TurnCompletes(i) \/ WorkAfterTerminal(i)
    \/ Crash(i) \/ Finishes(i) \/ Closes(i)

Tick ==
    \/ \E again \in BOOLEAN : TickStalled(again)
    \/ \E msgs \in SUBSET Messages : TickExpires(msgs)
    \/ TickResetStuck
    \/ TickStoppingStuck
    \/ TickIdleStop

Next == Commands \/ (\E i \in DOMAIN owners : Session(i)) \/ Tick

Spec == Init /\ [][Next]_vars

\* Steps that happen a bounded number of times, whatever the others do.
Ends(i) ==
    \/ FactoryFails(i) \/ (\E d \in Deliveries : FactoryOpens(i, d))
    \/ TurnStarts(i) \/ TurnRefused(i) \/ StartReceipt(i)
    \/ Finishes(i) \/ Closes(i)

\* Factories and backends answer and turns end; a session takes up what it has
\* queued although late work may reopen a turn in between; the clock ticks.
Fairness ==
    /\ WF_vars(\E i \in DOMAIN owners : Ends(i))
    /\ WF_vars(\E i \in DOMAIN owners : TurnCompletes(i))
    /\ SF_vars(\E i \in DOMAIN owners : NextQueued(i))
    /\ WF_vars(TickResetStuck \/ TickStoppingStuck)

FairSpec == Spec /\ Fairness
-----------------------------------------------------------------------------
\* TypeOK: types and shape of the reducer's and the runtime's state.
TypeOK ==
    /\ agent.status \in {"idle", "starting", "running", "stopping"}
    /\ agent.lease \in {"detached", "none", "terminal", "active", "suspect"}
    /\ agent.epoch \in 0..Len(owners) /\ current \in 0..Len(owners)
    /\ agent.lease = "detached" <=> agent.epoch = NoSession
    /\ IsInjective(agent.inbox)
    /\ ToSet(agent.inbox) \cup Admissions(agent) \subseteq Messages
    /\ Len(agent.pending) <= NumMessages
    /\ \A i \in DOMAIN owners :
          /\ owners[i].phase \in {"opening", "open", "stopping", "crashed", "ended", "gone"}
          /\ owners[i].first \in Messages
    /\ fate \in [Messages -> Fates]
    /\ returned \subseteq Messages

\* Custody: a message the daemon has taken over and nobody has answered for is
\* in the inbox, admitted to the session and given back if it fails, or the first
\* message of the current owner, whose failure will still be reported.
Custody ==
    \A m \in Messages : fate[m] = "held" =>
        \/ m \in Kept(agent)
        \/ current # 0 /\ owners[current].first = m /\ ~owners[current].reported

\* DeliveredOnce: what will be delivered is not in the hands of a session, and has
\* not been answered for.
DeliveredOnce ==
    /\ ToSet(agent.inbox) \cap Admissions(agent) = {}
    /\ \A m \in ToSet(agent.inbox) : fate[m] = "held"

\* Nothing waits in the inbox of an idle agent, where no event would look at it,
\* unless an owner was given up by force_exit while its events were discarded.
IdleIsEmpty ==
    agent.status = "idle" /\ agent.inbox # <<>> =>
        \E i \in DOMAIN owners : owners[i].torndown /\ owners[i].discard

\* A failed admission is retained up to the replacement spawn: it is never left
\* behind with an agent that is idle.  It does not hold (README, Divergences).
RetainedUntilSpawn == agent.status = "idle" => agent.inbox = <<>>

\* While the manager hears the session of the current epoch, what it believes of
\* the turn and of the messages in flight is what the session has: a working
\* turn is never taken for an idle session, and no admission is forgotten.
ViewsAgree ==
    \A i \in DOMAIN owners :
        owners[i].phase = "open" /\ agent.epoch = i /\ Listens(World, i) =>
            /\ Working(agent) <=> owners[i].held.turn = "working"
            /\ Admissions(agent) = Held(owners[i].held)

\* A second backend is never started beside one that has not been told to stop.
OneLiveSession ==
    \A i, j \in DOMAIN owners :
        owners[i].phase \in {"opening", "open"} /\ owners[j].phase \in {"opening", "open"}
            /\ ~owners[i].torndown /\ ~owners[j].torndown => i = j

\* An idle agent has no owner, and a running one an attached session.
StatusMatchesOwner ==
    /\ agent.status = "idle" => current = 0
    /\ agent.status = "running" => current # 0 /\ agent.epoch = current

\* A batch that is given back keeps its order, ahead of newer work.  It does not hold
\* (README, Divergences).
InboxInOrder ==
    \A i, j \in DOMAIN agent.inbox : i < j => agent.inbox[i] < agent.inbox[j]

\* A wake that meets an unusable runtime, with no session that could take it, is
\* refused, so that the server knows.  It does not hold (README, Divergences).
RefusedWhileUnusable ==
    [][~healthy /\ current = 0 =>
          \A m \in Messages : fate[m] = "new" => fate'[m] \in {"new", "refused"}]_vars

\* Every message that was taken over is answered for in the end: the turn that
\* has it starts or its loss is reported, through every stop, restart, crash,
\* stall and timeout, unless it is stranded as in RetainedUntilSpawn.
MessagesSettle ==
    \A m \in Messages :
        fate[m] = "held" ~> fate[m] # "held" \/ (agent.status = "idle" /\ agent.inbox # <<>>)
=============================================================================
