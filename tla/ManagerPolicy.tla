--------------------------- MODULE ManagerPolicy ---------------------------
(***************************************************************************)
(* The pure reducer of the agent manager,                                  *)
(* daemon/src/manager/managerPolicy.ts: what each event does to the state  *)
(* of ONE agent.  reduceManager returns the new state and effects; here an *)
(* operator per event gives the new state, and the few effects that depend *)
(* on the old state are operators of their own.  The runtime applies the   *)
(* effects (module AgentManager).                                          *)
(*                                                                         *)
(* Clocks are abstracted: idleSince is the flag `idle`, and the silence    *)
(* deadline of a turn is a nondeterministic timeout of the runtime.  A     *)
(* turn is not named: a session runs one at a time and its events come in  *)
(* order, so the lease alone says whether an event is of the current turn. *)
(* Left out: tool accounting, deadline extensions, runtime_config_*, and   *)
(* which backend session is resumed or known to stall.                     *)
(***************************************************************************)
EXTENDS SequencesExt

\* The members of q at the places in I, in their order.  (What SelectSeq selects,
\* without its recursion, which the provers cannot follow.)
At(q, I) ==
    LET Place(k) == CHOOSE i \in I : Cardinality({j \in I : j <= i}) = k
    IN  [k \in 1..Cardinality(I) |-> q[Place(k)]]

Only(q, msgs)  == At(q, {i \in DOMAIN q : q[i] \in msgs})
Minus(q, msgs) == At(q, {i \in DOMAIN q : q[i] \notin msgs})

\* No session instance (an epoch is the index of its owner).
NoSession == 0

Working(a) == a.lease \in {"active", "suspect"}

\* An admission: a command in the hands of the session, not yet accepted.
Admissions(a) == {a.pending[i].msg : i \in DOMAIN a.pending}

\* Those that are given back when they fail.
Recoverable(a) == {a.pending[i].msg : i \in {j \in DOMAIN a.pending : a.pending[j].requeue}}

\* The messages that will be tried again: in the inbox, or given back to it.
Kept(a) == ToSet(a.inbox) \cup Recoverable(a)

Without_Nothing(pending, msgs) == pending

Without(pending, msgs) == At(pending, {i \in DOMAIN pending : pending[i].msg \notin msgs})

Fresh == [status |-> "idle", inbox |-> <<>>, epoch |-> NoSession, lease |-> "detached",
          pending |-> <<>>, idle |-> FALSE, resetting |-> FALSE]

Stable(a, status) == [a EXCEPT !.status = status, !.resetting = FALSE]

\* Mutants (the names ending in _Xxx, here and in AgentManager): a definition as
\* a plausible bug would have it.
QueueDelivery_Overwrites(a, msgs) == [a EXCEPT !.inbox = msgs, !.idle = FALSE]

\* queue_delivery: a whole batch goes back to the front, once each.
QueueDelivery(a, msgs) ==
    [a EXCEPT !.inbox = msgs \o Minus(@, ToSet(msgs)),
              !.idle = FALSE]

\* delivery_rejected of several messages: each in turn goes to the front.
DeliveriesRejected(a, msgs) ==
    [a EXCEPT !.inbox = Reverse(Minus(msgs, ToSet(a.inbox))) \o @,
              !.idle = @ /\ msgs = <<>>]

Recover_Drops(a, entries) == a

\* The requeue_delivery effects of admissions that will not be settled.
Recover(a, entries) ==
    LET given == At(entries, {i \in DOMAIN entries : entries[i].requeue})
    IN  DeliveriesRejected(a, [i \in DOMAIN given |-> given[i].msg])

\* wake: the message joins the inbox; an idle agent starts with all of it, a
\* running one sends all of it, unless a returned message has to open a turn
\* of its own (a message in `returned` is prepared for the next turn).
Wakes(a, m) == [a EXCEPT !.inbox = Append(@, m), !.idle = FALSE]

WakeSpawns_AlsoStarting(a) == a.status \in {"idle", "starting"}

WakeSpawns(a) == a.status = "idle"

WakeSends(a, m, returned) ==
    /\ a.status = "running" /\ ~a.resetting
    /\ ~(Working(a) /\ (ToSet(a.inbox) \cup {m}) \cap returned # {})

Drained_Keeps(a) == a

Drained(a) == [a EXCEPT !.inbox = <<>>]

\* spawned: the first receipt makes the agent running.
Spawned(a) == Drained(Stable(a, "running"))

\* attach_session: a new epoch.  Admissions of the last one are given back.
AttachSession(a, i) ==
    Recover([a EXCEPT !.pending = <<>>, !.epoch = i, !.lease = "none", !.idle = FALSE],
            a.pending)

\* admission_started of several messages; those the session queued are
\* acknowledged at once.
AdmissionsStarted(a, msgs, queued, requeue) ==
    LET new == Minus(msgs, Admissions(a))
    IN  [a EXCEPT !.pending = @ \o [i \in DOMAIN new |->
                      [msg |-> new[i], acked |-> new[i] \in queued, requeue |-> requeue]],
                  !.idle = @ /\ new = <<>>]

\* admission_settled: a failed command is given back, any other is forgotten.
AdmissionsSettled(a, msgs) == [a EXCEPT !.pending = Without(@, msgs)]

AdmissionsFailed(a, msgs) ==
    DeliveriesRejected(AdmissionsSettled(a, ToSet(msgs)), Only(msgs, Recoverable(a)))

AdmissionAcknowledged(a, m) ==
    [a EXCEPT !.pending = [i \in DOMAIN @ |->
        IF @[i].msg = m THEN [@[i] EXCEPT !.acked = TRUE] ELSE @[i]]]

\* reset_session, as far as the idle clock goes.
ResetSession(a) == [a EXCEPT !.idle = FALSE]

BeginReset(a) == [a EXCEPT !.resetting = TRUE]

Rewake(a, m) == [a EXCEPT !.inbox = Append(@, m), !.idle = FALSE]

\* turn_started: a turn that is still active keeps the lease.
TurnStarted(a) == IF Working(a) THEN a ELSE [a EXCEPT !.lease = "active", !.idle = FALSE]

ReopenedByWork_Ignored(a) == a

\* turn_work: work of the turn that has just ended makes its lease suspect.
ReopenedByWork(a) ==
    IF a.lease = "terminal" THEN [a EXCEPT !.lease = "suspect", !.idle = FALSE] ELSE a

\* turn_completed sends what waited in the inbox, in turns of its own.
CompletionSends(a) == Working(a) /\ a.status = "running" /\ a.inbox # <<>> /\ ~a.resetting

\* turn_completed: the agent is idle from now on, unless something waits.
TurnCompleted(a) ==
    IF ~Working(a) THEN a
    ELSE LET b == [a EXCEPT !.lease = "terminal"]
         IN  IF CompletionSends(a) THEN Drained(b)
             ELSE [b EXCEPT !.idle = a.status = "running" /\ ~a.resetting]

SessionClosed(a) ==
    Recover([a EXCEPT !.pending = <<>>, !.epoch = NoSession, !.lease = "detached"], a.pending)

ExitSpawns_Never(a) == FALSE

\* exit: what is in the inbox starts the next session; what was still admitted
\* is given back only after that was decided.
ExitSpawns(a) == a.inbox # <<>>

Exited_KeepsEpoch(a) ==
    LET b == [a EXCEPT !.pending = <<>>, !.lease = "detached"]
    IN  Recover(IF ExitSpawns(a) THEN Drained([b EXCEPT !.status = "starting"])
                ELSE Stable(b, "idle"),
                a.pending)

Exited(a) ==
    LET b == [a EXCEPT !.pending = <<>>, !.epoch = NoSession, !.lease = "detached"]
    IN  Recover(IF ExitSpawns(a) THEN Drained([b EXCEPT !.status = "starting"])
                ELSE Stable(b, "idle"),
                a.pending)

\* tick.  The rules are tried in this order; the elapsed time is up to the clock.
Stallable(a) == a.status = "running" /\ Working(a)

Stalls(a) == [a EXCEPT !.status = "stopping", !.idle = FALSE]

Expirable(a) ==
    IF a.status = "running" /\ a.epoch # NoSession
    THEN {a.pending[i].msg : i \in {j \in DOMAIN a.pending : ~a.pending[j].acked}} ELSE {}

Expires(a, msgs) ==
    Recover([a EXCEPT !.status = "stopping", !.idle = FALSE, !.pending = Without(@, msgs)],
            At(a.pending, {i \in DOMAIN a.pending : a.pending[i].msg \in msgs}))

ResetStuck(a) == a.resetting /\ a.status # "stopping"

StoppingStuck(a) == a.status = "stopping"

IdleStoppable(a) ==
    /\ a.status = "running" /\ a.lease = "terminal" /\ a.idle
    /\ a.pending = <<>> /\ a.inbox = <<>>

Stops(a) == [a EXCEPT !.status = "stopping"]
=============================================================================
