# Alook in TLA+

Alook connects coding-agent runtimes on a user's machine to chat channels in the cloud. A daemon on the machine keeps one WebSocket to the cloud, turns "unread" notifications (wakes) into turns of an agent runtime, and lets the agent pull and acknowledge its messages over HTTP. This directory holds TLA+ modules of that code, the TLC configurations that check them, and proofs that the TLA+ proof system checks.

Paths below are relative to `src/src/` of the repository (the monorepo's packages).

## 1. Inventory

### 1.1 The path of a message

1. A message is written to D1 with a per-channel sequence number (`shared/src/db/queries/community/message.ts`).
2. For every bot that should see it, `shared/src/community/wake-dispatch.ts` queues a *wake*: "channel C has unread messages up to seq N", with a launch id that is a function of bot and message. The queue worker (`queue-worker/src`) posts it to the machine's durable object, and retries.
3. The durable object (`ws-do/src`) writes it to the socket of the daemon that holds the machine's session epoch.
4. The daemon's control channel (`daemon/src/server/wsControlChannel.ts`) passes it through the *wake coordinator* (`daemon/src/manager/wakeCoordinator.ts`), which admits at most one wake per agent at a time.
5. An admitted wake goes to the *agent router* (`agentRouter.ts`), which answers it with an ok or error ack, and to the *agent manager* of that agent (`managerRuntime.ts` over the pure reducer `managerPolicy.ts`), which starts a backend, sends to the running one, or keeps the message in its inbox.
6. The *logical session* (`daemon/agent-driver/src/controller/logical-session.ts`) turns it into a turn of a backend process, into steering of the running turn, or into an entry of its queue.
7. The model pulls its inbox and acknowledges what it has read through the credential proxy (`daemon/src/credentials/credentialProxy.ts`); the acknowledged cursors go back to the coordinator.

### 1.2 Components

| Component | State | Operations | Interacts with | Hard behaviour | Correct when |
|---|---|---|---|---|---|
| Wake coordinator | per agent: generation, lock, admission and its coverage, failed launch, coalesced and retry commands, three watermarks per channel | run, acks, activity edges, inbox acks, invalidate, async admit with retry and reconcile | control channel, router, proxy, manager's activity | everything may run while a dispatch is awaited; acks are early, late, doubled, of an older lifecycle | one dispatch at a time; no channel is suppressed by coverage nobody holds; nothing wanted is forgotten; a failed launch does not spin |
| Agent manager | reducer: status, inbox, epoch, turn lease, pending admissions, idle clock, reset flag; runtime: the owner (one launch of a backend) and its flags | wake, stop, reset, nap, model switch, spawn, attach, handshake, settle, return, exit, tick | router, logical session, timeline, audits | the owner of yesterday still emits events; every await may be overtaken; ticks give owners up | one live backend; no message lost unaccounted or kept twice; the belief about the turn is right; every message is answered for |
| Logical session | state, active turn, queue, steering and safe-boundary deliveries, lane, tombstone of the last turn, settings update tail | start, send, interrupt, updateSettings, stop, lane events | adapters' lanes, event queue, manager | turns end while inputs are in flight; late work reopens a turn; stop overtakes everything | each command is accepted or failed once; FIFO; always ends |
| Runtime configuration | per agent: the newest revision accepted, the pending one, the one believed applied; the update a session was asked for | register, update, converge, apply at the end of a turn | agent manager, logical session | revisions arrive while a session opens, works, or takes an earlier one; an update may fail after it was taken | what is believed applied is what runs; nothing waits behind a revision for ever |
| Driver event queue | buffered events, waiting reader, terminal event | push, next, close | logical session, manager | overflow at 4 MiB | the consumer sees the end |
| Control channel | socket, heartbeat, ingress queue, outbox of turn audits | connect, reconnect, ingress, ack, audit outbox | durable object, coordinator, timeline | loss of the socket between write and ack | an audit is sent until acked; nothing is dropped |
| Timeline, recorder, lock | session history, resume control, pending audits, behind a lock directory | append, control transitions, resolve, forget, lock | manager | crash between two writes; lock stolen by age | a forgotten or fenced session is never resumed |
| Message reminders | one timer per channel | sent, observed, fires | manager, proxy | timer against newer message | never reminds of a conversation that moved on |
| Wake queue (cloud) | queued wakes, attempts, dead letters | send, retry, resync | durable object | duplicates | an unread message is woken or dead-lettered |
| Machine session and durable object | session epochs, token claims, sockets, ready and restart state | claim, rotate, report, ready, restart | daemon, web | two daemons of one machine; crash between claim and commit | the older epoch changes nothing |
| Messages and read state | sequence numbers, read cursors | send, ack, pull | proxy, web | concurrent writers | cursors only grow; unread is exact |
| Task queue | tasks and their states | claim, supersede, complete | daemon (legacy) | two claimers | one runtime per task |

The other parts (web application, browser cache, community CRUD, desktop and mobile shells, CLI, adapters for third-party runtimes, PII filters, push and e-mail, telemetry) are listed in `PROJECT.json` with the reason they are not modelled: I/O, data transformation, row-level CRUD, or third-party behaviour that is the environment of a modelled part.

### 1.3 What is hard

`PROJECT.json` lists the hazards line by line. They come in these groups, and the properties are chosen against them:

* *State read before an await and used after it*: the continuation of `admit` (wakeCoordinator.ts:282), the factory's answer in `doSpawn` (managerRuntime.ts:1805), the receipt of `start` (1870).
* *Events of an owner that was replaced*: superseded, given up or discarded owners go on emitting (managerRuntime.ts:1771).
* *Answers that arrive twice, late, or in another lifecycle*: router acks and suppressed acks (wakeCoordinator.ts:158), inbox acks after a reset (99).
* *A failure with messages in every stage*: opening, queued, steering, offered, returned (logical-session.ts:387, managerPolicy.ts:989).
* *Requests of a revoked epoch that are still under way*: the socket was looked up before the rotation and is accepted after it (machine-control.ts:255); a write to D1 was sent before it and lands after it (machine-session-epoch.ts:163); an object forgets a machine that went online again meanwhile (machine-lifecycle.ts:130).
* *A crash or an unknown outcome between two writes*: the token is claimed before the batch commits (machine-session-epoch.ts:227); the control file is written before the row of the timeline (recorder.ts:571).
* *Something must eventually happen*: wakes that coalesced are never sent again by the server; a restart that was requested while the factory was opening tells nobody to stop.

## 2. Modules

```
WakeLane               what the wake coordinator promises             (abstract)
WakeCoordinator        the coordinator, for one agent                 implements WakeLane
MCWakeCoordinator      instances for TLC
WakeCoordinator_proofs safety of the coordinator
WakeLane_proofs        refinement of WakeLane, and steps of the coordinator

ManagerPolicy          the pure reducer: an operator per event
AgentManager           manager runtime + session, for one agent       EXTENDS ManagerPolicy
MCAgentManager         instances for TLC
AgentManager_proofs    owners and status
Custody_proofs         messages: types, custody, and what the manager knows of a session

SessionContract        what a session promises about its commands     (abstract)
LogicalSession         one session over one lane (backend)            implements SessionContract
MCLogicalSession       instances for TLC
LogicalSession_proofs  types, lanes, prompts, refinement of SessionContract

RuntimeConfig          configuration revisions of one agent
RuntimeConfig_proofs
ResumeControl          which backend session a launch resumes
ResumeControl_proofs
MachineSession         epochs, tokens, durable object and sockets of one machine
MachineSession_proofs
```

How they meet. A wake reaches `WakeCoordinator` over a socket of `MachineSession`; whatever that socket loses, delays or repeats is there a wake that comes at any time. An admitted wake is `Wake` of `AgentManager`, whose `owners` are sessions; `AgentManager` has of a session what its events tell the manager, with the interleavings of manager and session, and `LogicalSession` has the session in full, against `SessionContract`, the part of those events that says what became of a command. `RuntimeConfig` and `ResumeControl` are the two concerns of the manager that do not touch its other state: a revision decides when a session is replaced, a resume control decides what the next session continues. They take the life of a session as a few steps (open, start, work, end) that may come at any time, which is more than `AgentManager` lets happen.

### 2.1 WakeCoordinator

The coordinator keeps nothing that two agents share, so one agent is modelled. `agent` is the `AgentState` record of the code. An `await state.dispatch(command)` is a *frame* of `dispatches`, from the call to the continuation: everything else may happen while a frame exists. `acks` are the ok acks of suppressed wakes, reported one turn of the event loop later, and `pulls` the generations that inbox acks captured before they were forwarded (credentialProxy).

| Action | Code |
|---|---|
| `Run` (`RunCovered`, `RunCoalesced`, `RunAdmitted`) | `run`, wakeCoordinator.ts:49-87 |
| `SuppressedAck`, `RouterAck` | `recordDeliveryAck` 155-182, called from wsControlChannel.ts:368-376 and 573-597 |
| `Invalidate` | `invalidate` 184-203 |
| `DispatchReturns`, `DispatchThrows` | the continuation of `admit` 269-295 |
| `AgentWorks`, `AgentIdle` | `recordAgentActivity` 126-152 |
| `PullStarts`, `PullReturns` | `modelSeenGeneration` 89-91, `recordModelSeen` 93-124 |

`admit`, `retryFailedAdmission`, `reconcile` and `finishObservedAdmission` are operators that take a coordinator state and leave one, so that each action is the whole handler. Choices worth knowing: ties in `nextPending` are broken nondeterministically where the code follows the order of a Map; an inbox ack may report any cursor of a message on any channel, also one the daemon knew already, because any applied cursor on a covered channel marks an admission observed; the server may send any wake again at any time (queue retry, resync), with the same launch id. As the daemon is wired, `dispatchListeners` catches every error, so `DispatchThrows` is the component's contract rather than something production code does; its tests exercise it. `active`, `whileActive`, `dispatch` and the observer `onDesiredAdvance` are left out: no decision reads them.

### 2.2 ManagerPolicy and AgentManager

`ManagerPolicy` translates the reducer: an operator per event from the old `AgentState` to the new one, and an operator for each effect that depends on the old state (`WakeSpawns`, `WakeSends`, `CompletionSends`, `ExitSpawns`). `AgentManager` is the runtime that applies the effects, together with the session as far as the manager can see it.

The state the handlers share is the record `World`: the agent, all owners there have been, the current one (`activeSpawnState`) and `fate`. The helpers (`Spawn`, `Exit`, `Send`, `Deliver`, `StopSession`, `FailHeld`, ...) go from world to world, an action composes the ones its handler calls, and `Becomes` makes the result the next state. Events of a session are consumed in order before the next timer or frame is handled, so they are handled in the step of the session that emits them. Separate steps are: the factory's answer, the receipt of `start`, `session_started`, every answer of a backend, the end of a stop (`Finishes`, `Closes`), and each rule of the tick.

| Actions | Code |
|---|---|
| `Wake`, `Stop`, `Restart` | managerRuntime.ts `deliver` 706-726, `stop` 874-880, `resetSession`, `nap`, `switchModel` and `restartAgent` 764-859 |
| `FactoryOpens`, `FactoryFails`, `StartReceipt`, `HandshakeTimeout` | `doSpawn` 1599-1936 |
| `SessionStarts`, `Closes` | `onEvent`, `teardown` 1722-1803 |
| `TurnStarts`, `TurnRefused`, `TurnTakes`, `InputRefused`, `TurnBusy`, `BoundaryOffer`, `NextQueued`, `CommandReturned`, `TurnCompletes`, `WorkAfterTerminal`, `Crash`, `Finishes` | logical-session.ts `startTurn`, `acceptTurnAdmission`, `deliverSteer`, `drainSafeBoundaryQueue`, `startNextQueued`, `completeTurn`, `reopenClosedLaneForWork`, `onLaneExit`, `finish`, with the handler of each event in `onAgentEvent` (managerRuntime.ts 2080-2254) |
| `TickStalled`, `TickExpires`, `TickResetStuck`, `TickStoppingStuck`, `TickIdleStop` | `onTick`, managerPolicy.ts 786-892, and `applyEffect`, managerRuntime.ts 1430-1590 |
| `HealthChanges` | agentRouter.ts 284-345 |

`fate` is a ghost: who answers for a message. *new* (not delivered), *held* (the daemon answered ok and has it), *accepted* (a backend took it), *reported* (its loss was reported), *refused* (the wake was answered with an error), *abandoned*. The last is for three losses nobody reports, which the code does not claim to report either: the first message of a session that never opened and is given up by `force_exit`; a message given back by a superseded owner; and the first message of a respawn that meets an unusable runtime.

Abstractions: clocks are nondeterministic (a timeout may fire whenever its rule's state condition holds), a turn is not named because a session runs one at a time and its events come in order, a message is its number. A late `runtime_busy` to a safe-boundary offer whose turn has ended is not modelled: the only adapter with safe boundaries that answers busy (`adapters/grok/acp-lane.ts:211`) does so in a microtask. Left out: interrupt, shutdown, tool accounting and deadline extension. Runtime-configuration updates are in RuntimeConfig, the choice of the session that a launch resumes in ResumeControl.

### 2.3 SessionContract and LogicalSession

`SessionContract` knows of each command what the client was told (new, pending, queued, accepted, failed, returned, rejected), the line of the queued ones, and whether the session is open. It lets a session settle a command once, accept queued commands only from the head of the line, give back only what was accepted, and close only when everything is settled.

`LogicalSession` has the fields of `LogicalAgentSession` in the record `session`, the lane, and the ghost `told`, which is made from the emitted events alone (`Tell`; a command settled again becomes `twice`). Every `await` of the code is a gap between two actions. Which continuation waits is state: `fifo` and `stage` for the lane's admission queue, `flush` for the safe-boundary delivery the lane has, `chains` for what `completeTurn` leaves behind, `updates` for the settings updates, `closers` for those who wait for the lane to stop.

| Actions | Code (logical-session.ts) |
|---|---|
| `Start`, `Send` (`Admit`) | `admit`, `admitFresh` 480-566 |
| `UpdateSettings`, `UpdateAnswered` | `updateSettings` 318-352 |
| `Stop` | `stopWithRelease` 375-436 |
| `NextBegins`, `LaneOpens`, `LaneFails`, `PromptAnswered` | `startTurn` 579-668, `openLane` 710-724, `enqueueLaneAdmission` 1443-1464, `acceptTurnAdmission` 1240-1273 |
| `SteerAnswered` | `deliverSteer` 1466-1513 |
| `BoundaryAnswered`, `GateCloses`, `GateOpens`, `RuntimeError` | the safe-boundary queue 1139-1202 and the events that open and close it |
| `TurnEnds`, `FlushAwaited`, `StartNextQueued`, `NothingQueued` | `completeTurn` 1063-1137, `startNextQueued` 1275-1280 |
| `WorkAfterTerminal`, `InputReturned` | `reopenClosedLaneForWork` 1026-1061, `returnInput` 1354-1362 |
| `LaneExits`, `LaneStops`, `Settles`, `CleanupDone` | `onLaneExit` 1291-1318, `settleLaneStop` 1719-1753, `finish` 1595-1652 |

Left out: lanes that end with their turn (no built-in adapter has one), replays of one attempt and their receipts, interrupt, tool counters (the gate of the safe-boundary queue opens and closes at any time instead), turn results, the overflow of the event queue. A command that was given back comes again as a new attempt for a turn of its own, as the manager sends it.

### 2.4 RuntimeConfig

Revisions are numbers; `launch` (chosen at the start) says which of them a running backend can be switched to. `desired`, `pending` and `applied` are the three maps of the manager for its one agent, `apply` is the run of `convergeRuntimeConfig` that waits for `session.updateSettings`.

| Actions | Code (managerRuntime.ts unless named) |
|---|---|
| `Wake`, `Remind` (`Accept`, `Deliver`) | `register` 549-573, `acceptRuntimeConfig` 589-607, `deliver` 706-726 |
| `UpdateRuntimeConfig` | 575-587 |
| `Converge`, `UpdateAnswered` (`Taken`, `Refused`) | `convergeRuntimeConfig` 636-698 |
| `FactoryOpens`, `FactoryFails`, `StartAnswered`, `Closed` | `doSpawn` 1599-1914 with its `teardown` |
| `FirstTurnStarts`, `TurnEnds` (`Complete`, `Drain`, `Exits`) | `onAgentEvent` 2237-2254; managerPolicy.ts 439-470, 642-680, 762-784, 926-936 |

### 2.5 ResumeControl

On disk are the control file (`control`) and the rows of the timeline (`rows`), of which the model keeps turns and barriers; in memory the reducer's `known` and `stalled` session and the launched `owner`. `forgotten`, `fencedRow` and `streak` are ghosts: what a reset or a second stall gave up, for which of it the row of the barrier was written, and the stalls of the last session since a turn of it ended well. `saved` says whether the control file could be replaced and `kept` whether the row was appended; since a transition writes the file first, a crash between the two writes is a transition with `kept` FALSE followed by `Restart`.

| Actions | Code |
|---|---|
| `Launch` (`Recent`, `Resolution`, `Resumed`) | `doSpawn` managerRuntime.ts 1625-1655, `resolveForAgent` recorder.ts 202-241, `resolveResumableSession` timeline.ts 1023-1079 |
| `SessionStarted` | `setSession` recorder.ts 523-540, `backend_session` |
| `TurnStarts`, `TurnRecorded`, `TurnCompletes`, `TurnFails` | managerPolicy.ts 439-470 and 664-672, recorder.ts 380-430, managerRuntime.ts 1508-1527 |
| `FirstStall`, `SecondStall` | `appendStallMarker` recorder.ts 625-638, `forgetSession` 556-608 |
| `Reset`, `Exit`, `Restart` | `resetSession` managerRuntime.ts 727-760, `teardown` 1752-1765 |

Left out: the provider (one), rows older than the days that are read, a corrupt control file, and the rows that mark a stall, which are skipped once there is a control file.

### 2.6 MachineSession

One machine that is paired already. A credential is named after the activation that minted it, and each credential (epoch) has its durable object `node`. `request` is where an activation is; `row` is the machine's row in D1 with the ghost `by`, the epoch that wrote it; `socket` has, besides the socket, how far the handler of its ready frame and of its close are, because each of them waits for D1 while others run; `node.task` is the same for the alarm. The alarm renews once for each live socket (`node.left` counts what remains, `node.kept` says whether one was not refused), and whether it goes on to the row with an identity is decided before the row is read (`reading` or `looking`). A daemon may say ready again, but only when its last ready frame was answered: one handler of ready frames at a time per socket is a bound of the model.

| Actions | Code |
|---|---|
| `Claim`, `GivesUp`, `ReadPrior`, `Commit`, `BatchFails`, `Answered` | `rotateMachineSessionEpoch`, shared/.../machine-session-epoch.ts 179-388, and web/.../daemon/activate/route.ts 28-108 |
| `ForceClose` | `forceCloseCommunityMachine`, machine-control.ts 266-290 |
| `LookUp`, `Accept` | `acceptCommunityMachineWebSocket`, machine-control.ts 207-264 |
| `Ready`, `ReadyWrites`, `ReadyFails`, `ReadyDone` | `handleReadyFrame`, machine-ready.ts 67-213 |
| `Acknowledges` | `handleMachineHeartbeatAck`, machine-lifecycle.ts 66-93 |
| `Closes`, `CloseWrites`, `CloseFails`, `CloseDone` | `handleCommunityMachineClose` and `markIdentityOffline`, machine-lifecycle.ts 113-194 |
| `AlarmFires`, `Renews`, `RenewalFails` (`Renewed`, `Tail`), `ReadsRow`, `Expires`, `ExpiryDone`, `AlarmFails` | `handleMachineAlarm`, machine-lifecycle.ts 197-332 |
| `Online`, `Offline` in these | `transitionLiveLease`, machine-session-epoch.ts 99-152 |
| `Vanishes`, `LeaseAges`, `RowAges` | the network and the clock |

Left out: the first pairing, removal of the machine, the limit of online machines, expiry of tokens (each of these only refuses), restart attribution, diagnostics and forwarded commands, daemons without heartbeats.

## 3. Runs

| Run | Configuration | Expect | States | Asks |
|---|---|---|---|---|
| `wake` | Wake.cfg | pass | 134,790 | safety and liveness of one lifecycle |
| `wake_lifecycle` | WakeLifecycle.cfg | pass | 573,832 | stops and resets with work in flight; refinement of WakeLane |
| `manager` | Manager.cfg | pass | 1,149,412 | safety of the manager with one restart, one stop and changing health |
| `manager_returns` | ManagerReturns.cfg | pass | 404,256 | the same with a message the backend gives back |
| `manager_live` | ManagerLive.cfg | pass | 74,136 | every message is answered for |
| `session` | Session.cfg | pass | 971,543 | refinement of SessionContract; no backend is left running |
| `session_live` | SessionLive.cfg | pass | 86,792 | every command settles, a stop closes, prompts are alone at the lane |
| `config` | Config.cfg | pass | 48,991 | what is applied runs, the newest wins, nothing waits for ever |
| `resume` | Resume.cfg | pass | 355,219 | what is resumed over stalls, resets, failed writes and restarts |
| `machine` | Machine.cfg | pass | 1,659,374 | fencing of the epochs with D1 requests in flight |
| `machine_live` | MachineLive.cfg | pass | 362,888 | two overlapping activations; sockets and rows settle |
| `machine_stranded` | MachineStranded.cfg | violation | | a machine without a socket is marked offline |

### 3.1 Properties

*Wake coordinator*: `CoverageIsHeld` (a channel is suppressed only by the outstanding admission), `NothingForgotten` (with nothing outstanding, what is pending is behind the fence of its own failed launch), `OneDispatch` (the lock is exact), `NewWakeIsCarried` (no new wake is answered ok and then stranded), `NoSpontaneousRetry` (a fenced launch is admitted again only because it came again), `StaleAckNeverCounts`, `ImplementsLane`, and `WakesSettle`: an unseen message is eventually seen or waits behind the fence for the server.

*Agent manager*: `Custody` (a message that is held is in the inbox, admitted and recoverable, or the first message of the current owner), `DeliveredOnce` (what will be delivered is not also in the hands of a session and was not answered for), `ViewsAgree` (what the manager believes of the turn and of the messages in flight is what the session it listens to has), `IdleIsEmpty`, `OneLiveSession`, `StatusMatchesOwner`, and `MessagesSettle`.

*Logical session*: `ImplementsContract`, whose content is that no interleaving of steering, queueing, return, end of turn, crash and stop settles a command twice, out of order or after the close; `NoLaneLeft` (a lane that opens while its session is stopped is stopped too); `PromptWaits` (until a settings update is asked for, the lane is given no prompt while it still has a command of the safe-boundary queue); `CommandsSettle` (every admitted command is settled, unless a settings update strands the queue: `Stranded`) and `StoppingEnds`.

*Runtime configuration*: `AppliedIsEffective` (the decision native or not is taken from what the backend really runs with), `SettlesOnNewest`, `HeldIsSent`.

*Resume control*: `ForgottenForGood`, `NoThirdChance` (the two stalls are counted over restarts of the backend and the daemon), `Continues` (what was not given up is not lost either).

*Machine session*: `OneCredential`, `TokenSpentOnce`, `EpochFences`, `OnlineIsCurrent`, `StaysWatched` (whatever a durable object keeps, its alarm will look at), `AbandonedGoesOffline`, `SupersededCloses`.

### 3.2 Bounds

*Wake*: two channels, one with two messages: the smallest instance where a newer watermark overtakes an admission and where one admission covers several channels. `MaxAcks = 1`: acks of suppressed wakes are a set, and one outstanding is enough for an ack to come too early, too late, or for the wrong admission. `MaxGeneration = 1` in the lifecycle run: one reset separates an old lifecycle from a new one, and the properties compare only two.

*Manager*: two messages give an inbox, a queue or a steering set beside an opening turn; one restart and one stop give a superseded owner beside the current one, and crashes, stalls, refusals and forced exits are not bounded, so owners follow each other as long as there are messages. Owners that nobody will look at again are normalised (`Over`), which keeps the state space finite.

*Session*: three commands are one in the turn, one at the lane and one in the queue, so that the order of the queue can go wrong; one settings update, granted or refused, and one return. Turns, reopened turns, tool gates and busy answers are not bounded. The liveness run has two commands, one settings update and one return; `CommandsSettle` leaves out the behaviours in which the update strands the queue (section 3.5, item 6).

*Configuration*: three messages and three revisions after the first: one revision is being applied while another is pending and a third arrives, with a message held before each. Sessions and turns are not bounded.

*Resume*: four backend sessions, where the properties relate three (a session given up, the one after it, and the one a daemon that forgot everything would find), and six rows; restarts, stalls and resets are bounded by the rows only.

*Machine*: the first run has two sockets, one of each epoch or both of one, and one activation; the second two activations with a token each, which may take the same token after a failure. One failure is one lost answer: properties about more are proved (section 4). The liveness properties also hold with two sockets and one activation (1,659,374 states).

Deadlock is not checked in the runs of the manager, the session, the configuration and the machine, where a system with no message, command, socket or request left has nothing to do, nor in that of resume control, whose bounds on rows and sessions stop it.

### 3.3 Fairness

`WakeCoordinator!Fairness`: the router answers each dispatch and returns, microtasks run, and logical turns end (`AgentIdle`), because the manager's tick stops a turn that is silent for too long. `Quiet` says that from some time on neither wakes nor inbox acks arrive: each of them may re-arm an admission, so without it there is nothing to settle. Nothing is assumed about the model reading its inbox.

`AgentManager!Fairness`: `Ends` are steps each owner takes a bounded number of times (the factory and `start` answer, the receipt is handled, a stopped or crashed session finishes and closes), so weak fairness of their disjunction is as good as fairness for each. `TurnCompletes` is weakly fair since a turn that does not end is stopped by the tick. `NextQueued` is strongly fair: late work of the last turn may reopen it in between, so that it is enabled only again and again; the code runs it in a microtask of `completeTurn`. Of the tick only the two watchdogs of stuck transitions are fair; the stall, expiry and idle rules may or may not fire. `MessagesSettle` rests on the factory answering: a factory that hangs leaves a starting agent without a watchdog, because the handshake timer is armed only by the receipt (hazard at managerRuntime.ts:1936).

`LogicalSession!Fairness`: the lane answers what it was sent, a turn ends (the manager's watchdog stops one that does not), and the controller's continuations run. `FlushAwaited` of an idle session is strongly fair, since late work may reopen the turn in the batch of events that ended it, but not for ever. Nothing is assumed of the client: it need not stop, and commands that it does not send need not come.

`RuntimeConfig!Fairness`: the factory, `start` and `updateSettings` are answered, a turn ends, and a session that was told to stop closes, by force after a while. `Closed` alone is not fair: a session may live for ever.

`MachineSession!Fairness`: D1 answers or fails, an armed alarm fires and its handler goes on, a last-seen time gets old, and so does the lease of a socket whose acknowledgements do not count. No daemon needs to do anything, no close event needs to come, and the clean-up after an activation (`ForceClose`) may be lost. `AbandonedGoesOffline` leaves out behaviours in which a write that takes the machine offline and one that takes it online are under way in one object together; they are the finding.

### 3.4 Finding

`machine_stranded`: `markIdentityOffline` (machine-lifecycle.ts:118-132) deletes the identity and the handle of the durable object after it has awaited D1 and a notification, without looking again. When a ready frame, a renewal or a new socket has set the row online in that window, the object does not know the machine any more: the close of a socket without identity only schedules the alarm, and the alarm without identity only notifies. The row stays online with nobody connected until a daemon comes back. The test at machine-lifecycle.test.ts:545 says what should happen: "no-live-WS + stale row: markMachineOffline flips + broadcasts + cleans HANDLE_KEY / IDENTITY_KEY". Its object stores an identity. The next test (582-611, "no identity (mid-lifecycle wipe)") records the degraded end: without one the object broadcasts and leaves the row; no test says that the identity may be wiped after the row went online again. The shortest counterexample has one socket and no failure.

### 3.5 Divergences

The following statements of the repository do not hold of the code either. Each is a definition of its module that no configuration here checks; added to the configuration named, TLC finds it violated.

1. `ReplayTakesResponsibility` (Wake.cfg): "a durable replay may take responsibility" (wakeCoordinator.ts:141), but a replay of the fenced launch that comes before the dispatch returned is answered ok and carries nothing.
2. `OldLifecycleFenced` (WakeLifecycle.cfg): the test "fences a rejected old admission from a new lifecycle admission" (wakeCoordinator.test.ts:443). Acks are matched by launch id, which is a function of bot and message; after a reset and a replay the error ack of the old dispatch rolls the new admission back.
3. `InboxInOrder` (Manager.cfg with three messages, no restart and `Unhealthy = FALSE`): a batch that is given back keeps its order (managerRuntime.test.ts:4820, daemon/README.md:70, managerPolicy.ts:597). What a stopping session had queued fails one by one and is put at the front one by one, so that it comes out reversed.
4. `RetainedUntilSpawn` (Manager.cfg): a failed admission is retained up to the replacement spawn (managerPolicy.test.ts:244). `force_exit` with discarded events decides on the inbox before the admissions are put back in it, and leaves them with an idle agent.
5. `RefusedWhileUnusable` (Manager.cfg): a runtime known to be unhealthy is refused (createDaemon.ts:976). Only the first wake is; the agent stays `starting` without an owner, and later wakes are accepted silently.
6. `PromptIsAlone` (Session.cfg): "does not start the next turn while a cancelled boundary send is still physically in flight" (logical-session.test.ts:1821). `completeTurn` waits for the delivery at the lane (logical-session.ts:1131) only on its own path to the next turn; the way through a reopened turn and a settings update gets past it. In the same place a settings update that is refused leaves `settingsUpdateTail` unresolved, and commands queued behind it wait until the session stops. So do commands sent to an idle session while an update is pending, even if it is granted: they are queued (logical-session.ts:560), and its answer starts nothing.
7. `UpToDate` (Config.cfg): an idle session runs the newest revision. A revision accepted while the session is being opened loses its pending mark (managerRuntime.ts:580), so that the loop that would apply it (1613) has nothing to do until the next revision or session.
8. `ControlIsEnough` (Resume.cfg): the control file is authoritative and the row of a barrier best-effort (recorder.ts:563). Once the next session has started, `setSession` clears the full barrier (529); if the row was not written, a daemon that restarts before that session has a turn recorded resumes the session that was reset.

## 4. Proofs

TLC checks the instances above; the theorems hold for every value of the constants.

*WakeCoordinator_proofs.* `TypeCorrect`, `DispatchIsLocked`, `CoverageNeverLeaks`, `NothingIsForgotten` prove `TypeOK`, `OneDispatch`, `CoverageIsHeld`, `NothingForgotten` for any sets of channels, launches and commands and any bounds, from `CommandsAssumption` (commands have positive sequence numbers), `NoneAssumption` (null is no value) and `BoundsAssumption`. None of them is inductive alone. `CoverageIsHeld` breaks when a rollback restores a watermark the model has not seen, so the invariant says that what an admission replaced had been seen (`Based`), and that the dispatch which holds the lock covers what the admission covers (`Matched`). `NothingForgotten` needs that, while an admission is outstanding, whatever the model has not seen belongs to its launch or has a replacement behind it (`Owned`). There is a lemma per helper, and one per action that composes them.

*WakeLane_proofs.* `LaneIsImplemented` proves the refinement `ImplementsLane` from the invariant of WakeCoordinator_proofs: an operator maps to a step of the lane because a free coordinator covers nothing that was not seen (`Held`), so that what an admission promises is either nothing or everything that is behind. The same invariant gives `StaleAcksNeverCount` and `NewWakesAreCarried`. `FailedLaunchRests` (`NoSpontaneousRetry`) is not a consequence of it: a wake that coalesced behind a dispatch, or a retry that is armed, could be of the very launch that fails. The invariant `Fencing`, proved in `FenceInvariance`, says that what waits behind a launch is never of that launch.

*AgentManager_proofs.* `OnlyOneLives` and `StatusFollowsOwner` prove `OneLiveSession` and `StatusMatchesOwner` for any number of messages, restarts, stops and returns and any kind of backend; no assumption on the constants is used. A spawn is safe only if nobody is live, so the invariant `Good` ties the reducer's status and epoch to `activeSpawnState`: only the current owner is live, an idle agent has none, the current owner was not given up, the epoch is its index once its session has opened. Most helpers change nothing `Good` looks at (`SameWorld`, one lemma each), and the rest is one lemma per helper that changes a phase, the owner or the status, and one per action.

*Custody_proofs.* `NothingIsDropped` (`Custody`), `NothingIsDeliveredTwice` (`DeliveredOnce`), `ViewsStayAgreed` (`ViewsAgree`), `IdleHasNothing` (`IdleIsEmpty`) and `TypeCorrect`, for any number of messages, restarts, stops and returns and any kind of backend, from `BoundsAssumption` and `BackendAssumption`. `Custody` is not inductive: whether a message that fails comes back depends on what the session holds, which owner it belongs to, and whether the manager still listens to it. The invariant `Sound` has a part for each of these. `Honest`: what will be tried again is held, and what is admitted was delivered. `Vouched`: any other held message is the first of the current owner, which has neither been established nor reported it. `Placed`: what is admitted depends on the phase of the owner (nothing before its session opens; only what the session holds, while it is heard; nothing once it was stopped). `Agreed`: what an open session holds is admitted, and its turn is the lease. `Others` and `Stranded`: every owner but the current one was given up, and an idle agent has something in its inbox only if one was given up with its events discarded (divergence 4). `Agreed` is left out (`Accounted`) where a handler is between two operators and the session is about to be stopped, since `StopSession` needs no more. The proof starts with what the reducer's operators do to the sets of messages in the inbox, admitted, and given back on failure (`QueueDeliveryIs`, `RecoverIs`, `AdmissionsFailedIs`, `ExitedIs`, ...), goes on with a lemma per operator of the runtime (`SpawnSound`, `SendSound`, `StopSound`, `ExitSound`, ...), and ends with one per action. An idle agent has no owner by `Good`, which the step therefore assumes. For the sake of the proof a selection from a sequence (`At`, `Only`, `Minus` of ManagerPolicy) is written with the places it keeps and not as `SelectSeq`, whose recursion the provers cannot follow.

*LogicalSession_proofs.* `ContractIsKept` proves the refinement `ImplementsContract`, with `TypeCorrect` and `NoLaneRemains`, for any set of commands and any bounds, from `NobodyAssumption` (the absence of a command is no command) and `BoundsAssumption`. Why a command cannot be settled twice is that it is in exactly one place (`Placed`): the turn being admitted, the safe-boundary delivery, a steering operation at the lane, or the queue, and that what the client knows agrees with the place. Why the queue is served in order is that the three places before it are never occupied together (`Phased`). In the middle of an operation some commands have no place, so the invariant on worlds is `GoodBut(w, C)`; each operator takes one set of such commands to another. `Headed` and `Laned` tie the lane to its queue of operations, and give `NoLaneLeft`. An action is a chain of operators; its lemma says both that the invariant is kept and which move it is for the client (`Moves`), and every move is a step of the contract. `PromptStaysAlone` proves `PromptWaits`, that is `PromptIsAlone` until the first settings update is asked for, which is all that holds (divergence 6). Its invariant `Alone` says that a prompt in the lane's admission queue means a turn being admitted, or a session that stops, and no delivery of the safe-boundary queue; that a start has at most one prompt there, and that one which failed has no lane any more; and that the continuation of `completeTurn` becomes ready with such a delivery under way only in a turn that late work reopened, where it does nothing. A continuation that waits for an update breaks the last part, so `Lone` asks for `Alone` only in a world without updates, and the steps also prove that the count of updates never falls.

*MachineSession_proofs.* `TypeCorrect`, `OneCredentialRemains`, `TokensAreSpentOnce`, `OnlyCurrentIsOnline`, `RevokedNeverWrites` and `AlwaysWatched` prove `TypeOK`, `OneCredential`, `TokenSpentOnce`, `OnlineIsCurrent`, `EpochFences` and `StaysWatched` for any number of activations, tokens, sockets and failures, from `EpochAssumption` (the first credential is not one an activation will mint) and `BoundAssumption`. The central lemma is `RowWrites`: a step changes nothing that matters in the row and the credentials, or is a fenced write of the epoch that is current, or is the batch of an activation that has not minted before. The first five follow from it. None is inductive alone: the invariant `Activations` adds that a credential exists only after its batch, and that two activations with one token are never both able to mint (a claimed token that is pending again belongs to nobody who could still commit). `StaysWatched` is inductive, and needs one lemma per helper of the durable object: rescheduling attends to whatever it leaves (`ScheduleAttends`), the tail of the alarm handler either goes on or reschedules (`TailAttends`).

*RuntimeConfig_proofs.* `TypeCorrect`, `BelievedIsRunning` (`AppliedIsEffective`) and `NewestIsApplied` (`SettlesOnNewest`), for any number of messages and revisions, from `RevisionAssumption`. The invariant `Converges` says of an update under way that the backend can take it (`Asking`), that without a pending revision the newest one is applied or came while the session was being opened (`Newest`; that is divergence 7), and that nothing waits at an idle session (`Idle`). Between two operators of one handler only a part of it holds, which is why it has parts.

*ResumeControl_proofs.* `TypeCorrect`, `StaysForgotten` (`ForgottenForGood`), `TwoStallsAtMost` (`NoThirdChance`) and `NothingIsLost` (`Continues`), for any number of backend sessions and rows, from `BoundsAssumption`. Of the timeline only the last row counts, and a launch asks for the session in memory or for that of this row. The invariant `Remembers` says that neither was given up behind a barrier (`Barred`, `FullBars`, `Fenced`), and that a stall which was not yet made up for is known to whoever may continue the session: the control file, and the reducer or the launch under way (`Marked`).

*Only model-checked.* `WakesSettle`, `MessagesSettle`, `CommandsSettle`, `StoppingEnds`, `HeldIsSent`, `AbandonedGoesOffline` and `SupersededCloses` stay with TLC: liveness under fairness and ENABLED are out of the prover's reach, as are induction over data and RECURSIVE operators (no module here has one).

## 5. Not modelled

The modules have the parts that decide what happens to a message, a session or a machine when things overlap, fail or come late. They are a small part of the repository's lines, most of which are the web application, prompts, protocol adapters for third-party runtimes, schemas, command-line front ends, tests' fixtures and single-statement queries. `PROJECT.json` lists every component with its reason. The ones nearest to what is modelled:

* *Overflow of the driver event queue* (event-queue.ts:42): at 4 MiB everything but the terminal event is dropped and the session is stopped from within an `emit`; each emit would have to be a step of its own.
* *The outbox of turn audits* (wsControlChannel.ts:507): a record for the web application, sent until it is acked; no decision of the system depends on it.
* *The lock file* (filelock.ts), *rendering and sweeping of the timeline*, *reminders*: `ResumeControl` takes the update of the control file as atomic, which is what the lock is for.
* *Wake queue*: attempts and dead letters are the queue's; their effect on the daemon, a wake that comes again or never, is in `WakeCoordinator`.
* *Messages, read state, tasks*: sequence numbers, cursors and task states change in single SQL statements or batches. `claimTask`, whose reads and update could interleave, has no caller at this commit but its tests.
* *Interrupt, shutdown, tool accounting and deadline extension* of the manager; *interrupt, replays and lanes that end with their turn* of the session.

## 6. Plan

Every safety property that a run checks is proved, but the violated one. What could be added:

* A statement of `Custody` against `SessionContract`: that the part of a session which AgentManager has is an abstraction of LogicalSession, as a refinement and not only by construction.
* The order in which messages reach a backend. `InboxInOrder` does not hold (divergence 3); what does hold, and under which failures, is not stated yet.
