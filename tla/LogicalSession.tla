--------------------------- MODULE LogicalSession ---------------------------
(***************************************************************************)
(* A logical session of the agent driver,                                  *)
(* daemon/agent-driver/src/controller/logical-session.ts: it turns the     *)
(* commands of its client into turns of a backend, into steering of the    *)
(* running turn, or into entries of its queue.                             *)
(*                                                                         *)
(* The backend is a lane: it is opened once, admits or refuses what it is  *)
(* sent, emits events, and is stopped.  Every await of the code is a gap   *)
(* between actions; what the code does from one await to the next is one   *)
(* action, made of operators from session to session.  Only lanes that     *)
(* live as long as their session are modelled (all built-in ones do).      *)
(* A turn is a number; it stands for its terminal owner as well.           *)
(***************************************************************************)
EXTENDS SequencesExt, Integers

CONSTANTS
    Commands,      \* the ids of the client's messages
    Deliveries,    \* kinds of backends: "steer", "boundary" or "next_turn"
    MaxUpdates,    \* bound: settings updates asked for
    MaxReturns     \* bound: commands the backend gives back

ASSUME DeliveriesAssumption == Deliveries \subseteq {"steer", "boundary", "next_turn"}
ASSUME BoundsAssumption == MaxUpdates \in Nat /\ MaxReturns \in Nat
ASSUME NobodyAssumption == "none" \notin Commands

VARIABLES
    session,    \* the fields of LogicalAgentSession
    lane,       \* the physical lane: none, opening, live, stopping, dead
    told        \* ghost: the last thing the events said of each command

vars == <<session, lane, told>>

NoTurn == 0
Nobody == [cmd |-> "none", turn |-> NoTurn]
Closed(turn, members) == [turn |-> turn, members |-> members]

Settled == {"accepted", "failed", "twice"}

Fresh(d) ==
    [delivery |-> d,          \* capabilities.midTurnDelivery
     state |-> "new",
     turn |-> NoTurn,         \* activeTurn
     members |-> {},          \* its commandIds
     last |-> Closed(NoTurn, {}),   \* closedLaneTombstone
     turns |-> 0,             \* turn ids given out
     queue |-> <<>>,          \* queued
     later |-> {},            \* commands sent with delivery "next_turn"
     fifo |-> <<>>,           \* laneAdmissionTail: prompts and steers, in order
     stage |-> "waiting",     \* how far the first of them is
     admission |-> Nobody,    \* turnAdmission, until it is finalized
     early |-> FALSE,         \* its pendingEvents hold the end of the turn
     flush |-> Nobody,        \* the safeBoundaryDelivery the lane has
     final |-> FALSE,         \* that delivery was settled meanwhile
     gate |-> TRUE,           \* no tool, compaction or review is in the way
     off |-> FALSE,           \* toolBoundaryFlushDisabled
     updates |-> 0,           \* settings updates not answered yet
     asked |-> 0,             \* settings updates asked for
     holds |-> FALSE,         \* settingsUpdatePending
     refused |-> FALSE,       \* settingsUpdateTail will never resolve
     chains |-> {},           \* continuations of completeTurn
     returns |-> {},          \* commands whose pendingReturn is set
     given |-> 0,             \* commands given back
     attached |-> FALSE,      \* this.lane is set
     closers |-> {},          \* who waits for the lane to stop and then finishes
     finishing |-> FALSE]     \* the host's resources are being released

Init ==
    /\ \E d \in Deliveries : session = Fresh(d)
    /\ lane = "none"
    /\ told = [c \in Commands |-> "new"]

\* Operators map worlds to worlds; an action composes those its handler calls.
World == [s |-> session, lane |-> lane, told |-> told]
Becomes(w) == session' = w.s /\ lane' = w.lane /\ told' = w.told

Ended(s) == s.state \in {"stopping", "closed"}

\* emit: an event that settles a command; one that comes again is remembered.
Tell(w, C, what) ==
    [w EXCEPT !.told = [c \in Commands |->
        IF c \notin C \/ @[c] = "twice" THEN @[c]
        ELSE IF @[c] \in Settled /\ what \in Settled THEN "twice" ELSE what]]

\* returnInput of a command that was accepted.
GiveBack(w, c) ==
    Tell([w EXCEPT !.s.members = @ \ {c}, !.s.returns = @ \ {c}], {c}, "returned")

\* command_accepted, after which a return that came too early is made up for.
Accepted(w, c) ==
    LET said == Tell(w, {c}, "accepted")
    IN  IF c \in w.s.returns THEN GiveBack(said, c) ELSE said

FailTurnAdmission(w) ==
    IF w.s.admission = Nobody THEN w
    ELSE Tell([w EXCEPT !.s.admission = Nobody, !.s.early = FALSE],
              {w.s.admission.cmd}, "failed")

FailSafeBoundaryDelivery(w) ==
    IF w.s.flush = Nobody \/ w.s.final THEN w
    ELSE Tell([w EXCEPT !.s.final = TRUE], {w.s.flush.cmd}, "failed")

FailSteeringDeliveries(w) ==
    LET Open(op) == op.kind = "steer" /\ ~op.final
        fifo == w.s.fifo
    IN  Tell([w EXCEPT !.s.fifo = [i \in DOMAIN fifo |->
                            IF Open(fifo[i]) THEN [fifo[i] EXCEPT !.final = TRUE]
                                             ELSE fifo[i]]],
             {fifo[i].cmd : i \in {j \in DOMAIN fifo : Open(fifo[j])}}, "failed")

FailQueued(w) == Tell([w EXCEPT !.s.queue = <<>>], ToSet(w.s.queue), "failed")

FailInFlight(w) == FailSteeringDeliveries(FailSafeBoundaryDelivery(FailTurnAdmission(w)))

Queue(w, c) == Tell([w EXCEPT !.s.queue = Append(@, c)], {c}, "queued")

\* The continuations of a session that ends do nothing.
EnterStopping(w) ==
    [w EXCEPT !.s.state = "stopping", !.s.last = Closed(NoTurn, {}), !.s.chains = {}]

StopLane(w) == [w EXCEPT !.lane = IF @ = "live" THEN "stopping" ELSE @]

\* finish: the first caller settles what is left and releases the resources.
Finish(w) ==
    IF w.s.finishing \/ w.s.state = "closed" THEN w
    ELSE LET f == FailQueued(FailInFlight(EnterStopping(w)))
         IN  [f EXCEPT !.s.finishing = TRUE, !.s.turn = NoTurn, !.s.members = {}]

(* The safe-boundary queue. *)

CanFlush(s) ==
    /\ s.state = "working" /\ s.delivery = "boundary"
    /\ s.gate /\ ~s.off
    /\ s.turn # NoTurn /\ s.attached
    /\ s.queue # <<>> /\ Head(s.queue) \notin s.later

FlushEnds(w) == [w EXCEPT !.s.flush = Nobody, !.s.final = FALSE]

\* drainSafeBoundaryQueue: the next command goes to the lane, or the flush ends.
Drain(w) ==
    IF CanFlush(w.s)
    THEN [w EXCEPT !.s.flush = [cmd |-> Head(w.s.queue), turn |-> w.s.turn],
                   !.s.final = FALSE,
                   !.s.queue = Tail(@)]
    ELSE FlushEnds(w)

FlushSafeBoundaryQueue(w) == IF w.s.flush # Nobody THEN w ELSE Drain(w)

(* Turns. *)

\* completeTurn: what was offered to the turn and not accepted yet fails.  The next
\* queued command is started by a continuation that waits for the flush, and then
\* for the settings updates of that moment: it is Flushing, or a number of updates.
Flushing == -1

CompleteTurn(w) ==
    LET f == FailInFlight(w)
    IN  [f EXCEPT !.s.last = Closed(w.s.turn, w.s.members),
                  !.s.turn = NoTurn, !.s.members = {},
                  !.s.gate = TRUE, !.s.off = FALSE,
                  !.s.state = "idle",
                  !.s.chains = @ \cup {Flushing}]

\* A command leaves the lane's admission queue.
Done(w) == [w EXCEPT !.s.fifo = Tail(@), !.s.stage = "waiting"]

\* startTurn failed, or was overtaken by a stop that settled its command.
FailedStart(w) ==
    LET op == Head(w.s.fifo)
        f == [FailTurnAdmission(w) EXCEPT !.s.turn = NoTurn, !.s.members = {}, !.s.stage = "over"]
    IN  IF w.s.state # "starting" \/ w.s.turn # op.turn \/ w.s.admission.turn # op.turn THEN Done(w)
        ELSE IF w.s.attached
             THEN StopLane([f EXCEPT !.s.attached = FALSE, !.s.closers = @ \cup {"start"}])
        ELSE Finish(f)

\* The first operation of the lane's admission queue begins.
Begin(w) ==
    LET op == Head(w.s.fifo)
    IN  IF op.kind = "prompt"
        THEN IF op.opens THEN [w EXCEPT !.s.stage = "opening", !.lane = "opening"]
             ELSE IF w.s.attached THEN [w EXCEPT !.s.stage = "sending"]
             ELSE FailedStart(w)
        ELSE IF op.final THEN Done(w)
        ELSE IF w.s.attached /\ w.s.turn = op.turn THEN [w EXCEPT !.s.stage = "sending"]
        ELSE Done(Tell(w, {op.cmd}, "failed"))

EnqueueLaneAdmission(w, op) ==
    LET q == [w EXCEPT !.s.fifo = Append(@, op)]
    IN  IF w.s.fifo = <<>> THEN Begin(q) ELSE q

\* Mutant: the turn id is not counted.
StartTurn_Bug(w, c) ==
    LET t == w.s.turns + 1
    IN  EnqueueLaneAdmission(
            [w EXCEPT !.s.turn = t, !.s.members = {c}, !.s.state = "starting",
                      !.s.admission = [cmd |-> c, turn |-> t]],
            [kind |-> "prompt", cmd |-> c, turn |-> t, opens |-> ~w.s.attached, final |-> FALSE])

StartTurn(w, c) ==
    LET t == w.s.turns + 1
    IN  EnqueueLaneAdmission(
            [w EXCEPT !.s.turns = t, !.s.turn = t, !.s.members = {c},
                      !.s.gate = TRUE, !.s.off = FALSE,
                      !.s.state = "starting",
                      !.s.admission = [cmd |-> c, turn |-> t], !.s.early = FALSE],
            [kind |-> "prompt", cmd |-> c, turn |-> t, opens |-> ~w.s.attached, final |-> FALSE])

DeliverSteer(w, c) ==
    EnqueueLaneAdmission(w, [kind |-> "steer", cmd |-> c, turn |-> w.s.turn,
                             opens |-> FALSE, final |-> FALSE])

\* acceptTurnAdmission, with the events that came before it.
AcceptTurn(w) ==
    LET a == [Accepted([w EXCEPT !.s.state = "working"], w.s.admission.cmd)
                EXCEPT !.s.admission = Nobody, !.s.early = FALSE]
    IN  FlushSafeBoundaryQueue(Done(IF w.s.early THEN CompleteTurn(a) ELSE a))

(* The client. *)

Pending(w, c) == Tell(w, {c}, "pending")

Start(c) ==
    /\ session.state = "new" /\ told[c] = "new"
    /\ Becomes(StartTurn(Pending(World, c), c))

\* admitFresh of a send.  A command that was given back comes again, as a new
\* attempt that asks for a turn of its own.
Admit(w, c) ==
    LET s == w.s
    IN  IF Ended(s) \/ s.finishing THEN Tell(w, {c}, "rejected")
        ELSE IF s.state = "idle"
             THEN IF s.queue # <<>> \/ s.flush # Nobody \/ s.holds
                  THEN Queue(w, c) ELSE StartTurn(Pending(w, c), c)
        ELSE IF c \in s.later THEN Queue(w, c)
        ELSE IF s.delivery = "steer" /\ s.turn # NoTurn /\ s.attached
             THEN DeliverSteer(Pending(w, c), c)
        ELSE FlushSafeBoundaryQueue(Queue(w, c))

Send(c) ==
    /\ session.state # "new"
    /\ \/ /\ told[c] = "new"
          /\ Becomes(Admit(World, c))
       \/ /\ told[c] = "returned"
          /\ Becomes(Admit([World EXCEPT !.s.later = @ \cup {c}], c))

\* updateSettings: an update waits for those before it, after a refusal for ever;
\* without a lane it is refused.
UpdateSettings ==
    /\ ~Ended(session) /\ ~session.finishing
    /\ session.asked < MaxUpdates
    /\ LET w == [World EXCEPT !.s.asked = @ + 1, !.s.holds = TRUE]
       IN  Becomes(CASE session.refused -> w
                     [] ~session.refused /\ session.attached -> [w EXCEPT !.s.updates = @ + 1]
                     [] ~session.refused /\ ~session.attached -> [w EXCEPT !.s.refused = TRUE])

Stop ==
    /\ ~Ended(session) /\ ~session.finishing
    /\ LET f == FailQueued(FailInFlight(EnterStopping(World)))
       IN  Becomes(IF session.attached
                   THEN StopLane([f EXCEPT !.s.closers = @ \cup {"stop"}])
                   ELSE Finish(f))

(* The controller's continuations. *)

NextBegins ==
    /\ session.fifo # <<>> /\ session.stage = "waiting"
    /\ Becomes(Begin(World))

\* Mutant: the delivery at the lane is not waited for.
FlushAwaited_Bug ==
    /\ Flushing \in session.chains
    /\ Becomes([World EXCEPT !.s.chains = (@ \ {Flushing}) \cup
                    (IF session.refused THEN {} ELSE {session.updates})])

\* Behind an update that was refused a continuation waits for ever.
FlushAwaited ==
    /\ Flushing \in session.chains /\ session.flush = Nobody
    /\ Becomes([World EXCEPT !.s.chains = (@ \ {Flushing}) \cup
                    (IF session.refused THEN {} ELSE {session.updates})])

StartNextQueued ==
    /\ 0 \in session.chains
    /\ session.state = "idle" /\ session.queue # <<>>
    /\ Becomes(StartTurn([World EXCEPT !.s.chains = @ \ {0}, !.s.queue = Tail(@)],
                         Head(session.queue)))

NothingQueued ==
    /\ 0 \in session.chains
    /\ session.state # "idle" \/ session.queue = <<>>
    /\ Becomes([World EXCEPT !.s.chains = @ \ {0}])

\* The lane stopped, or its time is up: the session finishes.
Settles(c) ==
    /\ c \in session.closers
    /\ Becomes(Finish([World EXCEPT !.s.closers = @ \ {c},
                                    !.s.attached = IF c = "exit" THEN FALSE ELSE @]))

\* The resources are released: session_closed.  Only an opening lane is left.
CleanupDone ==
    /\ session.finishing
    /\ Becomes([World EXCEPT !.s.state = "closed", !.s.finishing = FALSE,
                             !.s.fifo = IF session.stage = "opening" THEN <<Head(@)>> ELSE <<>>,
                             !.s.stage = IF @ = "opening" THEN @ ELSE "waiting"])

(* The lane.  Its events count while it is attached and the session goes on; they
   come one after the other, and never before a continuation that is ready to run. *)

Listening == session.attached /\ lane = "live" /\ ~Ended(session) /\ 0 \notin session.chains
Running == Listening /\ session.turn # NoTurn /\ session.admission = Nobody

\* Mutant: a lane that opens after the session was stopped stays.
LaneOpens_Bug ==
    /\ lane = "opening"
    /\ Becomes(IF session.state = "starting"
               THEN [World EXCEPT !.lane = "live", !.s.attached = TRUE, !.s.stage = "starting"]
               ELSE Done([World EXCEPT !.lane = "live"]))

LaneOpens ==
    /\ lane = "opening"
    /\ Becomes(IF session.state = "starting"
               THEN [World EXCEPT !.lane = "live", !.s.attached = TRUE, !.s.stage = "starting"]
               ELSE Done([World EXCEPT !.lane = "stopping"]))

LaneFails ==
    /\ lane = "opening"
    /\ Becomes(FailedStart([World EXCEPT !.lane = "dead"]))

\* The answer to a prompt; a lane that answers a start nobody waits for is stopped.
PromptAnswered(ok) ==
    /\ session.stage \in {"starting", "sending"} /\ Head(session.fifo).kind = "prompt"
    /\ LET current == session.state = "starting" /\ session.turn = Head(session.fifo).turn
       IN  Becomes(IF ~ok THEN FailedStart(World)
                   ELSE IF current THEN AcceptTurn(World)
                   ELSE Done(IF session.stage = "starting" THEN StopLane(World) ELSE World))

\* Mutant: a steer that was settled meanwhile is settled again.
SteerAnswered_Bug(answer) ==
    /\ session.stage = "sending" /\ Head(session.fifo).kind = "steer"
    /\ LET op == Head(session.fifo)
           w == Done(World)
       IN  Becomes(CASE answer = "ok" ->
                          Accepted([w EXCEPT !.s.members = @ \cup {op.cmd}], op.cmd)
                     [] answer = "busy" -> Queue(w, op.cmd)
                     [] answer = "refused" -> Tell(w, {op.cmd}, "failed"))

\* The answer to a steer.  One that was settled meanwhile says nothing any more.
SteerAnswered(answer) ==
    /\ session.stage = "sending" /\ Head(session.fifo).kind = "steer"
    /\ LET op == Head(session.fifo)
           w == Done(World)
       IN  Becomes(IF op.final THEN w
                   ELSE CASE answer = "ok" ->
                               Accepted([w EXCEPT !.s.members = @ \cup {op.cmd}], op.cmd)
                          [] answer = "busy" -> Queue(w, op.cmd)
                          [] answer = "refused" -> Tell(w, {op.cmd}, "failed"))

\* The answer to a command of the safe-boundary queue.  A lane that is busy says so
\* before anything else happens.
BoundaryAnswered(answer) ==
    /\ session.flush # Nobody /\ session.state # "closed"
    /\ answer = "busy" => ~session.final
    /\ LET c == session.flush.cmd
       IN  Becomes(
             CASE answer = "busy" ->
                    FlushEnds([World EXCEPT !.s.queue = <<c>> \o @, !.s.off = TRUE])
               [] answer = "ok" /\ ~session.final ->
                    Drain(Accepted([World EXCEPT !.s.members = @ \cup {c}], c))
               [] answer = "refused" /\ ~session.final -> Drain(Tell(World, {c}, "failed"))
               [] OTHER -> Drain(World))

\* Mutant: a continuation does not notice that its update was granted.
UpdateAnswered_Bug(ok) ==
    /\ session.updates > 0 /\ ~Ended(session)
    /\ Becomes(IF ok THEN [World EXCEPT !.s.updates = @ - 1, !.s.holds = FALSE]
               ELSE [World EXCEPT !.s.updates = 0, !.s.refused = TRUE,
                                  !.s.chains = {n \in @ : n <= 0}])

\* A refusal leaves settingsUpdateTail pending for ever.
UpdateAnswered(ok) ==
    /\ session.updates > 0 /\ ~Ended(session)
    /\ Becomes(IF ok
               THEN [World EXCEPT !.s.updates = @ - 1, !.s.holds = FALSE,
                                  !.s.chains = {IF n > 0 THEN n - 1 ELSE n : n \in @}]
               ELSE [World EXCEPT !.s.updates = 0, !.s.refused = TRUE,
                                  !.s.chains = {n \in @ : n <= 0}])

\* turn_end with the terminal owner of the turn.
TurnEnds ==
    /\ Listening /\ session.turn # NoTurn
    /\ \/ /\ session.admission = Nobody
          /\ Becomes(CompleteTurn(World))
       \/ /\ session.admission # Nobody /\ session.stage \in {"starting", "sending"}
          /\ Becomes([World EXCEPT !.s.early = TRUE])

\* Late work of the last turn reopens it.
WorkAfterTerminal ==
    /\ Listening /\ session.turn = NoTurn /\ session.last.turn # NoTurn
    /\ \E free, flushes \in BOOLEAN :
         LET w == [World EXCEPT !.s.turn = session.last.turn,
                                !.s.members = session.last.members,
                                !.s.state = "working", !.s.gate = free]
         IN  Becomes(IF flushes THEN FlushSafeBoundaryQueue(w) ELSE w)

\* A tool starts, or answers; so do compaction and review.
GateCloses ==
    /\ Running /\ session.gate
    /\ Becomes([World EXCEPT !.s.gate = FALSE])

GateOpens ==
    /\ Running /\ ~session.gate
    /\ Becomes(FlushSafeBoundaryQueue([World EXCEPT !.s.gate = TRUE]))

RuntimeError ==
    /\ Running
    /\ Becomes([World EXCEPT !.s.off = TRUE])

\* input_returned: at once, or as soon as the command is accepted.
InputReturned(c) ==
    /\ Listening /\ session.given < MaxReturns
    /\ LET w == [World EXCEPT !.s.given = @ + 1]
           offered == \/ session.flush.cmd = c
                      \/ /\ session.stage \in {"starting", "sending"}
                         /\ Head(session.fifo).cmd = c
       IN  \/ /\ session.admission = Nobody /\ told[c] = "accepted"
              /\ Becomes(GiveBack(w, c))
           \/ /\ offered /\ told[c] \in {"pending", "queued"}
              /\ Becomes([w EXCEPT !.s.returns = @ \cup {c}])

\* Mutant: nobody finishes the session whose lane is gone.
LaneExits_Bug ==
    /\ session.attached /\ lane = "live"
    /\ Becomes([EnterStopping(World) EXCEPT !.lane = "dead", !.s.attached = FALSE])

LaneExits ==
    /\ session.attached /\ lane = "live"
    /\ Becomes(IF Ended(session) THEN [World EXCEPT !.lane = "dead", !.s.attached = FALSE]
               ELSE [EnterStopping(World) EXCEPT !.lane = "dead",
                                                 !.s.closers = @ \cup {"exit"}])

LaneStops ==
    /\ lane = "stopping"
    /\ lane' = "dead"
    /\ UNCHANGED <<session, told>>

LaneAnswers ==
    \/ LaneOpens \/ LaneFails
    \/ \E ok \in BOOLEAN : PromptAnswered(ok) \/ UpdateAnswered(ok)
    \/ \E answer \in {"ok", "busy", "refused"} : SteerAnswered(answer) \/ BoundaryAnswered(answer)

Next ==
    \/ \E c \in Commands : Start(c) \/ Send(c) \/ InputReturned(c)
    \/ UpdateSettings \/ Stop
    \/ NextBegins \/ FlushAwaited \/ StartNextQueued \/ NothingQueued
    \/ \E c \in session.closers : Settles(c)
    \/ CleanupDone
    \/ LaneAnswers
    \/ TurnEnds \/ WorkAfterTerminal \/ GateCloses \/ GateOpens \/ RuntimeError
    \/ LaneExits \/ LaneStops

Spec == Init /\ [][Next]_vars

\* The lane answers what it was sent, turns end (the manager's watchdog stops one
\* that does not), and the controller goes on.  Late work may reopen a turn in the
\* batch of events that ended it, but not for ever: hence the strong fairness.
Fairness ==
    /\ WF_vars(LaneOpens \/ LaneFails)
    /\ WF_vars(\E ok \in BOOLEAN : PromptAnswered(ok))
    /\ WF_vars(\E ok \in BOOLEAN : UpdateAnswered(ok))
    /\ WF_vars(\E answer \in {"ok", "busy", "refused"} : SteerAnswered(answer))
    /\ WF_vars(\E answer \in {"ok", "busy", "refused"} : BoundaryAnswered(answer))
    /\ WF_vars(TurnEnds)
    /\ WF_vars(NextBegins)
    /\ WF_vars(FlushAwaited) /\ SF_vars(session.state = "idle" /\ FlushAwaited)
    /\ WF_vars(StartNextQueued) /\ WF_vars(NothingQueued)
    /\ WF_vars(\E c \in session.closers : Settles(c))
    /\ WF_vars(CleanupDone)
    /\ WF_vars(LaneStops)

FairSpec == Spec /\ Fairness

(* Properties. *)

TypeOK ==
    /\ session.state \in {"new", "starting", "working", "idle", "stopping", "closed"}
    /\ session.turn \in 0..session.turns
    /\ session.members \subseteq Commands
    /\ session.queue \in Seq(Commands)
    /\ session.stage \in {"waiting", "opening", "starting", "sending", "over"}
    /\ session.closers \subseteq {"stop", "start", "exit"}
    /\ session.chains \subseteq Flushing..MaxUpdates
    /\ lane \in {"none", "opening", "live", "stopping", "dead"}
    /\ told \in [Commands -> {"new", "pending", "queued", "accepted", "failed",
                              "returned", "rejected", "twice"}]

\* The queue as the client knows it: with a queued command that is on its way.
Line ==
    LET s == session
        Known(x) == IF x.cmd \in Commands /\ told[x.cmd] = "queued" THEN <<x.cmd>> ELSE <<>>
    IN  (IF s.final THEN <<>> ELSE Known(s.flush)) \o Known(s.admission) \o s.queue

\* Every command is settled once, in order, before the session closes.
Contract == INSTANCE SessionContract WITH status <- told, line <- Line,
                                          open <- session.state # "closed"
ImplementsContract == Contract!Spec

\* logical-session.test.ts:1821 "does not start the next turn while a cancelled
\* boundary send is still physically in flight": the lane is never given a prompt
\* while it still has a command of the safe-boundary queue.
PromptIsAlone ==
    session.stage = "sending" /\ Head(session.fifo).kind = "prompt" => session.flush = Nobody

\* It holds until the first settings update is asked for.
PromptWaits == session.asked = 0 => PromptIsAlone

\* A closed session leaves no lane behind that was not told to stop.
NoLaneLeft == session.state = "closed" => lane # "live"

\* A settings update that is refused holds the queue of an idle session for ever.  So
\* does one that is granted, if a command is queued behind it with no continuation of
\* completeTurn under way: its answer starts nothing.
Stranded ==
    session.state = "idle" /\ session.holds /\ session.queue # <<>> /\ session.chains = {}

\* Every admitted command is settled in the end, unless a settings update strands the
\* queue; one that is granted while a continuation waits for it does not.
CommandsSettle ==
    []~Stranded => \A c \in Commands :
        told[c] \in {"pending", "queued"} ~> told[c] \notin {"pending", "queued"}

\* A session that begins to stop closes, and its lane is gone.
StoppingEnds == session.state = "stopping" ~> session.state = "closed" /\ lane \in {"none", "dead"}
=============================================================================
