-------------------------- MODULE WakeCoordinator --------------------------
(***************************************************************************)
(* The wake ingress of the daemon for ONE agent:                           *)
(*   daemon/src/manager/wakeCoordinator.ts   class WakeCoordinator         *)
(*   daemon/src/server/wsControlChannel.ts   dispatchIngressCommand        *)
(* Agents share nothing in the coordinator, so one agent is modelled.      *)
(*                                                                         *)
(* A wake command says "channel has unread messages up to seq".  At most   *)
(* one admission is outstanding: it covers every channel whose desired     *)
(* watermark is ahead, and later commands coalesce behind it.  Dispatch is *)
(* asynchronous: it is a frame of `dispatches` from the call to the        *)
(* continuation after the await, and everything else may run in between.   *)
(*                                                                         *)
(* Left out: `active`/`whileActive` (written, copied, never tested by a    *)
(* decision), `dispatch` (set by the run that stores the first command and *)
(* never cleared), the observer onDesiredAdvance and logging.              *)
(***************************************************************************)
EXTENDS Integers, FiniteSets

CONSTANTS
    Channels,       \* channel references of the agent
    Launches,       \* launch ids of wake commands
    Commands,       \* the wake commands the server may send, and re-send
    None,           \* null
    MaxGeneration,  \* bound: lifecycle commands (stop, reset, ...) handled
    MaxAcks         \* bound: suppressed acks waiting for their turn of the loop

ASSUME CommandsAssumption ==
    Commands \subseteq [launch : Launches, channel : Channels, seq : Nat \ {0}]

ASSUME BoundsAssumption == MaxGeneration \in Nat /\ MaxAcks \in Nat

VARIABLES
    agent,          \* the AgentState of the coordinator
    dispatches,     \* calls of admit that are awaiting state.dispatch
    acks,           \* launches whose suppressed "ok" ack is not yet reported
    pulls           \* generations captured by inbox acks still in flight

vars == <<agent, dispatches, acks, pulls>>
-----------------------------------------------------------------------------
Scope == [desired : Nat, admitted : Nat, seen : Nat, command : Commands \cup {None}]

\* The Map of an admission, as a function: None on a channel it does not cover.
Coverage == [Channels -> [previous : Nat, admitted : Nat] \cup {None}]

Admission == [launch : Launches, coverage : Coverage, acked : BOOLEAN, observed : BOOLEAN]

ASSUME NoneAssumption ==
    None \notin Launches \cup Commands \cup [previous : Nat, admitted : Nat] \cup Admission

AgentState ==
    [generation : Nat,
     admitting  : BOOLEAN,
     admission  : Admission \cup {None},
     failed     : Launches \cup {None},
     coalesced  : Commands \cup {None},
     retry      : Commands \cup {None},
     scopes     : [Channels -> Scope]]

\* One `await state.dispatch(command)`: what admit closed over, whether the
\* router has reported its ack, and whether a caller of this admit still has
\* a reconcile to run after it (`await retryFailedAdmission; await reconcile`).
Dispatch ==
    [generation : Nat, launch : Launches, coverage : Coverage,
     acked : BOOLEAN, outer : BOOLEAN]

TypeOK ==
    /\ agent \in AgentState
    /\ dispatches \subseteq Dispatch
    /\ acks \subseteq Launches
    /\ pulls \subseteq Nat

\* An absent scope behaves as one whose watermarks are all zero.
NoScope == [desired |-> 0, admitted |-> 0, seen |-> 0, command |-> None]

Init ==
    /\ agent = [generation |-> 0, admitting |-> FALSE, admission |-> None,
                failed |-> None, coalesced |-> None, retry |-> None,
                scopes |-> [c \in Channels |-> NoScope]]
    /\ dispatches = {}
    /\ acks = {}
    /\ pulls = {}
-----------------------------------------------------------------------------
(* Watermarks. *)

Larger(m, n) == IF m >= n THEN m ELSE n

Covered(scope) == Larger(scope.seen, scope.admitted)

IsPending(scope) == scope.desired > Covered(scope)

Pending(scopes) == {c \in Channels : IsPending(scopes[c])}

Busy(st) == st.admitting \/ st.admission # None

\* Mutant: nextPending forgets which launch failed.
Unfenced_NoFence(st) == {c \in Pending(st.scopes) : st.scopes[c].command # None}

\* Commands nextPending may pick: a highest pending watermark whose command
\* is not fenced.  The code breaks ties by Map order, the model by choice.
Unfenced(st) ==
    {c \in Pending(st.scopes) :
        /\ st.scopes[c].command # None
        /\ st.scopes[c].command.launch # st.failed}

NextPending(st) ==
    {st.scopes[c].command : c \in {d \in Unfenced(st) :
        \A e \in Unfenced(st) : st.scopes[e].desired <= st.scopes[d].desired}}

\* Coverage that the model has not seen stops suppressing wakes.
ReleaseUnobserved(st) ==
    [st EXCEPT !.scopes = [c \in Channels |->
        LET s == st.scopes[c] IN
        IF /\ st.admission.coverage[c] # None
           /\ s.admitted = st.admission.coverage[c].admitted
           /\ s.seen < s.admitted
        THEN [s EXCEPT !.admitted = Larger(st.admission.coverage[c].previous, s.seen)]
        ELSE s]]

\* A failed delivery gives its coverage back.
RollBack(scopes, coverage) ==
    [c \in Channels |->
        IF coverage[c] # None /\ scopes[c].admitted = coverage[c].admitted
        THEN [scopes[c] EXCEPT !.admitted = coverage[c].previous]
        ELSE scopes[c]]

\* Mutant: a fenced admission stays outstanding.
Fence_KeepsAdmission(st, launch) ==
    [st EXCEPT !.failed = launch, !.retry = st.coalesced, !.coalesced = None]

\* The launch is fenced; what coalesced behind it becomes the retry.
Fence(st, launch) ==
    [st EXCEPT !.failed = launch, !.retry = st.coalesced,
               !.coalesced = None, !.admission = None]

\* Only a command at its channel's current watermark may replace an admission.
RememberReplacement(st, cmd) ==
    LET holder == IF st.admission # None THEN st.admission.launch ELSE st.failed IN
    IF \/ holder \in {None, cmd.launch}
       \/ cmd.seq < st.scopes[cmd.channel].desired
    THEN st
    ELSE [st EXCEPT !.coalesced = cmd,
                    !.retry = IF st.failed # None THEN cmd ELSE @]
-----------------------------------------------------------------------------
(* admit, retryFailedAdmission and reconcile.  Each sets agent' and          *)
(* dispatches' from a coordinator state `st` and the frames still awaiting.  *)

\* The scopes admit leaves: the preferred command is noted on its channel when
\* it is at the watermark, and every pending channel is covered under it.
NotedScopes(st, cmd) ==
    IF cmd.seq >= st.scopes[cmd.channel].desired
    THEN [st.scopes EXCEPT ![cmd.channel].command = cmd]
    ELSE st.scopes

AdmittedScopes(st, cmd) ==
    [c \in Channels |->
        IF IsPending(st.scopes[c])
        THEN [st.scopes[c] EXCEPT !.admitted = st.scopes[c].desired, !.command = cmd]
        ELSE NotedScopes(st, cmd)[c]]

\* Mutant: an admission leaves a fenced channel out of its coverage.
NewCoverage_SkipsFenced(st) ==
    [c \in Channels |->
        IF IsPending(st.scopes[c]) /\ c \in Unfenced(st)
        THEN [previous |-> st.scopes[c].admitted, admitted |-> st.scopes[c].desired]
        ELSE None]

\* Mutant: the watermark to roll back to is one below the one replaced.
NewCoverage_OffByOne(st) ==
    [c \in Channels |->
        IF IsPending(st.scopes[c])
        THEN [previous |-> st.scopes[c].admitted - 1, admitted |-> st.scopes[c].desired]
        ELSE None]

NewCoverage(st) ==
    [c \in Channels |->
        IF IsPending(st.scopes[c])
        THEN [previous |-> st.scopes[c].admitted, admitted |-> st.scopes[c].desired]
        ELSE None]

Admit(st, cmd, frames, outer) ==
    IF Busy(st) THEN agent' = st /\ dispatches' = frames
    ELSE IF Pending(st.scopes) = {}
    THEN agent' = [st EXCEPT !.scopes = NotedScopes(st, cmd)] /\ dispatches' = frames
    ELSE /\ agent' = [st EXCEPT !.admitting = TRUE, !.failed = None, !.coalesced = None,
                                !.scopes = AdmittedScopes(st, cmd),
                                !.admission = [launch |-> cmd.launch,
                                               coverage |-> NewCoverage(st),
                                               acked |-> FALSE, observed |-> FALSE]]
         /\ dispatches' = frames \cup
                {[generation |-> st.generation, launch |-> cmd.launch,
                  coverage |-> NewCoverage(st), acked |-> FALSE, outer |-> outer]}

Reconcile(st, frames, outer) ==
    IF Busy(st) \/ Unfenced(st) = {}
    THEN agent' = st /\ dispatches' = frames
    ELSE \E cmd \in NextPending(st) : Admit(st, cmd, frames, outer)

RetryFailed(st, frames, outer) ==
    IF Busy(st) \/ st.retry = None
    THEN agent' = st /\ dispatches' = frames
    ELSE Admit([st EXCEPT !.retry = None, !.failed = None], st.retry, frames, outer)

\* finishObservedAdmission, then the reconcile its caller starts.
FinishObserved(st, frames) ==
    IF st.admission # None /\ st.admission.acked /\ st.admission.observed
    THEN Reconcile([ReleaseUnobserved(st) EXCEPT !.admission = None], frames, FALSE)
    ELSE agent' = st /\ dispatches' = frames

DeliveryAck(launch, status, frames) ==
    IF agent.admission = None \/ agent.admission.launch # launch
    THEN agent' = agent /\ dispatches' = frames
    ELSE IF status = "ok"
    THEN FinishObserved([agent EXCEPT !.admission.acked = TRUE], frames)
    ELSE RetryFailed(
            Fence([agent EXCEPT !.scopes = RollBack(agent.scopes, agent.admission.coverage)],
                  launch),
            frames, FALSE)
-----------------------------------------------------------------------------
(* Ingress: frames from the server. *)

\* Mutant: the watermark is raised but the command that raised it is not kept.
Wanted_DropsCommand(cmd) ==
    IF cmd.seq >= agent.scopes[cmd.channel].desired
    THEN [agent EXCEPT !.scopes[cmd.channel].desired = cmd.seq]
    ELSE agent

\* The scope after a command ahead of its channel's coverage has been noted.
Wanted(cmd) ==
    IF cmd.seq >= agent.scopes[cmd.channel].desired
    THEN [agent EXCEPT !.scopes[cmd.channel].desired = cmd.seq,
                       !.scopes[cmd.channel].command = cmd]
    ELSE agent

\* A suppressed wake is answered "ok" later (SuppressedAck).
OweAck(cmd) ==
    /\ Cardinality(acks \cup {cmd.launch}) <= MaxAcks
    /\ acks' = acks \cup {cmd.launch}

\* A wake the model has seen or that an admission covers: suppressed.
RunCovered(cmd) ==
    /\ cmd.seq <= Covered(agent.scopes[cmd.channel])
    /\ agent' = RememberReplacement(agent, cmd)
    /\ OweAck(cmd)
    /\ UNCHANGED <<dispatches, pulls>>

\* A wake ahead of its coverage while an admission is outstanding: coalesced.
RunCoalesced(cmd) ==
    /\ cmd.seq > Covered(agent.scopes[cmd.channel])
    /\ Busy(agent)
    /\ agent' = RememberReplacement(Wanted(cmd), cmd)
    /\ OweAck(cmd)
    /\ UNCHANGED <<dispatches, pulls>>

\* A wake ahead of its coverage with nothing outstanding: admitted.
RunAdmitted(cmd) ==
    /\ cmd.seq > Covered(agent.scopes[cmd.channel])
    /\ ~ Busy(agent)
    /\ Admit(Wanted(cmd), cmd, dispatches, FALSE)
    /\ UNCHANGED <<acks, pulls>>

Run(cmd) == RunCovered(cmd) \/ RunCoalesced(cmd) \/ RunAdmitted(cmd)

\* dispatchIngressCommand reports "ok" for a suppressed command once the await
\* of run returns: a turn of the event loop after the suppression.
SuppressedAck(launch) ==
    /\ launch \in acks
    /\ acks' = acks \ {launch}
    /\ DeliveryAck(launch, "ok", dispatches)
    /\ UNCHANGED pulls

\* agent:stop and agent:model_switch keep what the model saw (clearSeen is
\* FALSE); agent:reset, agent:nap, machine:reset_all and bot:removed do not.
Invalidate(clearSeen) ==
    /\ agent.generation < MaxGeneration
    /\ agent' = [generation |-> agent.generation + 1, admitting |-> FALSE,
                 admission |-> None, failed |-> None, coalesced |-> None, retry |-> None,
                 scopes |-> [c \in Channels |->
                    LET s == agent.scopes[c] IN
                    IF clearSeen THEN NoScope
                    ELSE [s EXCEPT !.desired = s.seen, !.admitted = s.seen]]]
    /\ UNCHANGED <<dispatches, acks, pulls>>
-----------------------------------------------------------------------------
(* The dispatch of an admission: AgentRouter.onCommand behind the channel. *)

\* The router handled the wake and reports its outcome.
RouterAck(frame, status) ==
    /\ frame \in dispatches
    /\ ~ frame.acked
    /\ DeliveryAck(frame.launch, status,
                   (dispatches \ {frame}) \cup {[frame EXCEPT !.acked = TRUE]})
    /\ UNCHANGED <<acks, pulls>>

\* Mutant: the continuation does not look for what became pending meanwhile.
DispatchReturns_NoReconcile(frame) ==
    /\ frame \in dispatches
    /\ frame.acked
    /\ LET rest == dispatches \ {frame}
           st   == [agent EXCEPT !.admitting = FALSE]
       IN IF frame.generation = agent.generation /\ st.retry # None
          THEN RetryFailed(st, rest, TRUE)
          ELSE /\ agent' = IF frame.generation = agent.generation THEN st ELSE agent
               /\ dispatches' = rest
    /\ UNCHANGED <<acks, pulls>>

\* Mutant: the continuation releases the lock of whatever lifecycle it finds.
DispatchReturns_AnyGeneration(frame) ==
    /\ frame \in dispatches
    /\ frame.acked
    /\ LET rest == dispatches \ {frame}
           st   == [agent EXCEPT !.admitting = FALSE]
       IN IF st.retry # None THEN RetryFailed(st, rest, TRUE)
          ELSE Reconcile(st, rest, frame.outer)
    /\ UNCHANGED <<acks, pulls>>

\* The continuation of admit after its dispatch returned.  In the generation
\* that started it, it retries what coalesced behind a failure, else
\* reconciles; in a later one only a caller's own reconcile is left to run.
DispatchReturns(frame) ==
    /\ frame \in dispatches
    /\ frame.acked
    /\ LET rest == dispatches \ {frame}
           st   == [agent EXCEPT !.admitting = FALSE]
       IN IF frame.generation = agent.generation
          THEN IF st.retry # None THEN RetryFailed(st, rest, TRUE)
               ELSE Reconcile(st, rest, frame.outer)
          ELSE IF frame.outer THEN Reconcile(agent, rest, FALSE)
          ELSE agent' = agent /\ dispatches' = rest
    /\ UNCHANGED <<acks, pulls>>

\* The dispatch rejects: its coverage is rolled back if the lifecycle is still
\* its own, and the rejection skips the reconcile of a caller.
DispatchThrows(frame) ==
    /\ frame \in dispatches
    /\ ~ frame.acked
    /\ LET rest == dispatches \ {frame}
           st   == [Fence([agent EXCEPT !.scopes = RollBack(agent.scopes, frame.coverage)],
                          frame.launch)
                    EXCEPT !.admitting = FALSE]
       IN IF frame.generation = agent.generation
          THEN IF st.retry # None THEN RetryFailed(st, rest, TRUE)
               ELSE Reconcile(st, rest, FALSE)
          ELSE agent' = agent /\ dispatches' = rest
    /\ UNCHANGED <<acks, pulls>>
-----------------------------------------------------------------------------
(* The runtime: activity edges, and inbox acks that prove what it has seen. *)

\* "starting" and "running" only reconcile.
AgentWorks ==
    /\ Reconcile(agent, dispatches, FALSE)
    /\ UNCHANGED <<acks, pulls>>

\* Mutant: the end of a turn fences the launch but keeps its coverage.
AgentIdle_KeepsCoverage ==
    /\ LET st == IF agent.admission = None THEN agent
                 ELSE Fence(agent, agent.admission.launch)
       IN IF ~ st.admitting /\ st.retry # None
          THEN RetryFailed(st, dispatches, FALSE)
          ELSE Reconcile(st, dispatches, FALSE)
    /\ UNCHANGED <<acks, pulls>>

\* The logical turn ended: unobserved coverage is released, its launch fenced.
AgentIdle ==
    /\ LET st == IF agent.admission = None THEN agent
                 ELSE Fence(ReleaseUnobserved(agent), agent.admission.launch)
       IN IF ~ st.admitting /\ st.retry # None
          THEN RetryFailed(st, dispatches, FALSE)
          ELSE Reconcile(st, dispatches, FALSE)
    /\ UNCHANGED <<acks, pulls>>

\* The proxy captures the generation before it forwards an inbox ack.
PullStarts ==
    /\ pulls' = pulls \cup {agent.generation}
    /\ UNCHANGED <<agent, dispatches, acks>>

\* What an inbox ack may report as applied: a cursor on some channels, at the
\* seq of a message there (0: no cursor).
Cursors ==
    {f \in [Channels -> {0} \cup {cmd.seq : cmd \in Commands}] :
        \A c \in Channels : f[c] # 0 => \E cmd \in Commands : cmd.channel = c /\ cmd.seq = f[c]}

\* The coordinator after the cursors of an inbox ack are recorded: any cursor
\* on a covered channel marks the admission observed.
Observe(cursors) ==
    [agent EXCEPT
        !.admission =
            IF @ # None /\ \E c \in Channels : @.coverage[c] # None /\ cursors[c] # 0
            THEN [@ EXCEPT !.observed = TRUE] ELSE @,
        !.scopes = [c \in Channels |->
            [agent.scopes[c] EXCEPT !.seen = Larger(@, cursors[c])]]]

\* Mutant: an inbox ack counts in whatever lifecycle it comes back to.
PullReturns_AnyGeneration(generation, cursors) ==
    /\ generation \in pulls
    /\ pulls' = pulls \ {generation}
    /\ FinishObserved(Observe(cursors), dispatches)
    /\ UNCHANGED acks

\* The applied cursors of an inbox ack; ignored when the lifecycle has changed.
PullReturns(generation, cursors) ==
    /\ generation \in pulls
    /\ pulls' = pulls \ {generation}
    /\ IF generation = agent.generation
       THEN FinishObserved(Observe(cursors), dispatches)
       ELSE UNCHANGED <<agent, dispatches>>
    /\ UNCHANGED acks
-----------------------------------------------------------------------------
Next ==
    \/ \E cmd \in Commands : Run(cmd)
    \/ \E launch \in Launches : SuppressedAck(launch)
    \/ \E clearSeen \in BOOLEAN : Invalidate(clearSeen)
    \/ \E frame \in dispatches, status \in {"ok", "error"} : RouterAck(frame, status)
    \/ \E frame \in dispatches : DispatchReturns(frame)
    \/ \E frame \in dispatches : DispatchThrows(frame)
    \/ AgentWorks
    \/ AgentIdle
    \/ PullStarts
    \/ \E generation \in pulls, cursors \in Cursors : PullReturns(generation, cursors)

Spec == Init /\ [][Next]_vars

\* The router answers and returns, the event loop runs its microtasks, and a
\* logical turn ends: the manager's tick stops a turn that stalls.  The model
\* need not pull and the server need not send a wake again.
Fairness ==
    /\ WF_vars(\E frame \in dispatches, status \in {"ok", "error"} : RouterAck(frame, status))
    /\ WF_vars(\E frame \in dispatches : DispatchReturns(frame))
    /\ WF_vars(\E launch \in Launches : SuppressedAck(launch))
    /\ WF_vars(AgentIdle)

\* New wakes and inbox acks re-arm an admission without end, so what settles
\* is asked once they have stopped coming.
External ==
    \/ \E cmd \in Commands : Run(cmd)
    \/ \E generation \in pulls, cursors \in Cursors : PullReturns(generation, cursors)

Quiet == <>[][~ External]_vars

FairSpec == Spec /\ Fairness /\ Quiet
-----------------------------------------------------------------------------
(* Properties. *)

\* One dispatch of the current lifecycle is awaited exactly while the agent is
\* admitting: the lock can neither be lost nor held twice, whatever dispatches
\* an earlier lifecycle left behind.
OneDispatch ==
    /\ \A f, g \in dispatches : f.generation = g.generation => f = g
    /\ agent.admitting <=> \E f \in dispatches : f.generation = agent.generation

\* Coverage never outlives its admission: a watermark the model has not seen
\* suppresses wakes only while the outstanding admission still covers it.
CoverageIsHeld ==
    \A c \in Channels :
        agent.scopes[c].admitted > agent.scopes[c].seen =>
            /\ agent.admission # None
            /\ agent.admission.coverage[c] # None
            /\ agent.scopes[c].admitted = agent.admission.coverage[c].admitted

\* A pending watermark rests only behind its own failed launch: with nothing
\* outstanding, every channel that wants a wake has one the fence holds back.
NothingForgotten ==
    ~ Busy(agent) => Unfenced(agent) = {}

\* An admission or a fence that a wake hands over to: what Run leaves behind
\* must be able to deliver it without the server sending it again.
Carried(cmd) ==
    LET s == agent.scopes[cmd.channel] IN
    \/ cmd.seq <= Covered(s)
    \/ s.command # None /\ s.command.launch # agent.failed
    \/ agent.retry # None

\* A wake at its channel's watermark, other than the fenced launch itself, is
\* never answered and then stranded behind the fence.
NewWakeIsCarried ==
    [][\A cmd \in Commands :
        /\ Run(cmd)
        /\ cmd.launch # agent.failed
        /\ cmd.seq >= agent.scopes[cmd.channel].desired
        => Carried(cmd)']_vars

\* "a newer coalesced command or durable replay may take responsibility"
\* (wakeCoordinator.ts:141): a replay of the fenced launch is carried too.  It does not
\* hold (README, Divergences).
ReplayTakesResponsibility ==
    [][\A cmd \in Commands : Run(cmd) => Carried(cmd)']_vars

\* A launch that failed is admitted again only because its frame came again.
NoSpontaneousRetry ==
    [][\A launch \in Launches :
        (/\ agent'.admission # None /\ agent'.admission.launch = launch
         /\ dispatches' \ dispatches # {}
         /\ launch = agent.failed)
        => \E cmd \in Commands : cmd.launch = launch /\ Run(cmd)]_vars

\* The model's inbox ack counts only in the lifecycle that began it: a pull
\* that a reset overtook cannot mark messages of the new session seen.
StaleAckNeverCounts ==
    [][\A c \in Channels :
        agent'.scopes[c].seen > agent.scopes[c].seen => agent.generation \in pulls]_vars

\* The coordinator implements the lane it documents.
Lane == INSTANCE WakeLane WITH
    desired  <- [c \in Channels |-> agent.scopes[c].desired],
    seen     <- [c \in Channels |-> agent.scopes[c].seen],
    promised <- [c \in Channels |->
                    IF agent.admission = None THEN 0
                    ELSE IF agent.admission.coverage[c] = None THEN 0
                    ELSE agent.admission.coverage[c].admitted]

ImplementsLane == Lane!Spec

\* A dispatch that an earlier lifecycle left behind cannot fail the admission
\* of a later one ("fences a rejected old admission from a new lifecycle
\* admission", wakeCoordinator.test.ts:443).  It does not hold (README, Divergences).
OldLifecycleFenced ==
    [][\A frame \in dispatches :
        /\ frame.generation # agent.generation
        /\ RouterAck(frame, "error")
        => agent' = agent]_vars

\* A wake the model has not seen is eventually seen, or waits for the server
\* behind the fence of a launch that failed.
Unseen(c) == agent.scopes[c].desired > agent.scopes[c].seen

Fenced(c) ==
    /\ ~ Busy(agent)
    /\ agent.retry = None
    /\ agent.scopes[c].command # None
    /\ agent.scopes[c].command.launch = agent.failed

WakesSettle == \A c \in Channels : Unseen(c) ~> (~ Unseen(c) \/ Fenced(c))
=============================================================================
