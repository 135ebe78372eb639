---------------------------- MODULE RuntimeConfig ----------------------------
(***************************************************************************)
(* Runtime configuration of ONE agent (model, reasoning effort, ...):      *)
(*   daemon/src/manager/managerRuntime.ts   the three maps of revisions    *)
(*                                          and convergeRuntimeConfig      *)
(*   daemon/src/manager/managerPolicy.ts    runtime_config_queued/_applied *)
(*                                                                         *)
(* A revision arrives with a wake or on its own while a session is opened, *)
(* is busy, idle, or is taking an earlier revision.  Some revisions can be *)
(* given to the running backend, the others need a new one.                *)
(*                                                                         *)
(* Left out, because AgentManager and LogicalSession have them: resets and *)
(* switches (they register with applyRuntimeConfig false), the queue of    *)
(* the session, and what becomes of a message once it was sent.  A message *)
(* sent to a busy session joins the turn.  A conflicting config of a known *)
(* revision throws and changes nothing.                                    *)
(***************************************************************************)
EXTENDS Integers, FiniteSets

CONSTANTS
    Messages,       \* messages for the agent
    MaxRevision     \* bound: revisions are 0..MaxRevision; 0 is the first config

ASSUME RevisionAssumption == MaxRevision \in Nat

None      == -1
Revisions == 0..MaxRevision

VARIABLES
    launch,     \* runtimeLaunchTuple of every revision: equal ones differ in effort only
    desired,    \* runtimeConfigs: the newest revision accepted
    pending,    \* pendingRuntimeConfigUpdates
    applied,    \* appliedRuntimeConfigs
    owner,      \* the session: the backend it launched and what that now runs with
    fenced,     \* the agent is `resetting`: nothing is sent to the session
    apply,      \* the update the session was asked for; `ends`: a turn waits to complete
    fate,       \* per message: new, held in the inbox, or sent
    late        \* ghost: the last revision accepted by an update while a session opened

vars == <<launch, desired, pending, applied, owner, fenced, apply, fate, late>>

NoOwner == [phase |-> "none", base |-> None, runs |-> None, busy |-> FALSE, stopping |-> FALSE]
NoApply == [on |-> FALSE, rev |-> None, ends |-> FALSE]

World == [desired |-> desired, pending |-> pending, applied |-> applied, owner |-> owner,
          fenced |-> fenced, apply |-> apply, fate |-> fate]

Becomes(w) ==
    /\ desired' = w.desired /\ pending' = w.pending /\ applied' = w.applied
    /\ owner' = w.owner /\ fenced' = w.fenced /\ apply' = w.apply /\ fate' = w.fate

Inbox(w)    == {m \in Messages : w.fate[m] = "held"}
Attached(w) == w.owner.phase \in {"starting", "running"}

\* isActivelyWorking
Working(w) == w.owner.phase = "running" /\ (w.owner.busy \/ Inbox(w) # {})
-----------------------------------------------------------------------------
(* Sending.                                                                *)

\* Every message of the inbox is sent, unless the session may not be sent to:
\* then each is rejected and put back.
Drain(w) ==
    IF w.fenced \/ Inbox(w) = {} THEN w
    ELSE [w EXCEPT !.fate = [m \in Messages |-> IF @[m] = "held" THEN "sent" ELSE @[m]],
                   !.owner.busy = TRUE]

\* doSpawn with the first message m: the config it captures is the desired one.
Spawn(w, m) ==
    [w EXCEPT !.fate[m] = "sent",
              !.owner = [NoOwner EXCEPT !.phase = "opening", !.base = w.desired,
                                        !.runs = w.desired]]

\* deliver: behind a pending revision the message waits, else it wakes the agent.
Deliver(w, m) ==
    LET held == [w EXCEPT !.fate[m] = "held"]
    IN  CASE Attached(w) /\ w.pending # None -> held
          [] w.owner.phase = "none"          -> Spawn(held, m)
          [] w.owner.phase = "running" /\ w.pending = None -> Drain(held)
          [] OTHER                           -> held
-----------------------------------------------------------------------------
(* Revisions.                                                              *)

\* acceptRuntimeConfig: a stale or known revision changes nothing
Accept_Bug(w, r) ==
    IF r > w.desired THEN [w EXCEPT !.desired = r, !.pending = r] ELSE [w EXCEPT !.pending = r]
Accept(w, r) ==
    IF r > w.desired THEN [w EXCEPT !.desired = r, !.pending = r] ELSE w

\* The turn that waited for the settings completes, and the inbox follows.
Complete(w) == Drain([w EXCEPT !.owner.busy = FALSE, !.apply.ends = FALSE])

\* The session cannot take the revision: it is fenced and stopped.  At the end of a
\* turn the loop is over before that; on the idle path it waits for the stop.
Refused(w) ==
    LET v == [w EXCEPT !.fenced = TRUE, !.owner.stopping = TRUE, !.apply.rev = None]
    IN  IF w.apply.ends THEN Complete([v EXCEPT !.apply.on = FALSE]) ELSE v

\* One round of convergeRuntimeConfig; apply.ends says that it runs at the end of a
\* turn, whose completion comes after it.
Converge(w) ==
    LET target == IF w.pending # None THEN w.pending ELSE w.desired
        known  == w.applied # None /\ target <= w.applied
        native == w.applied # None /\ launch[w.applied] = launch[target]
        over   == [w EXCEPT !.apply.on = FALSE, !.apply.rev = None, !.pending = None]
        asks   == [w EXCEPT !.apply.on = TRUE, !.apply.rev = target]
    IN  IF known THEN (IF w.apply.ends THEN Complete(over) ELSE over)
        ELSE IF native THEN asks
        ELSE Refused([w EXCEPT !.apply.on = TRUE])

Taken_Bug(w) ==
    LET v == [w EXCEPT !.owner.runs = w.apply.rev, !.applied = w.desired, !.pending = None,
                       !.apply.rev = None, !.apply.on = FALSE]
    IN  IF w.apply.ends THEN Complete(v) ELSE v
Taken_Stranding(w) ==
    LET r == w.apply.rev
        v == [w EXCEPT !.owner.runs = r, !.applied = r, !.apply.rev = None,
                       !.pending = IF @ = r THEN None ELSE @]
        done == [v EXCEPT !.apply.on = FALSE]
    IN  IF w.desired > r THEN Converge(v) ELSE IF w.apply.ends THEN Complete(done) ELSE done

\* The session took revision apply.rev.  A newer one is handled in the same loop;
\* else the messages that waited are sent.
Taken(w) ==
    LET r == w.apply.rev
        v == [w EXCEPT !.owner.runs = r, !.applied = r, !.apply.rev = None,
                       !.pending = IF @ = r THEN None ELSE @]
        done == [v EXCEPT !.apply.on = FALSE]
    IN  IF w.desired > r THEN Converge(v)
        ELSE IF w.apply.ends THEN Complete(done)
        ELSE IF w.owner.phase = "running" /\ ~w.owner.busy THEN Drain(done)
        ELSE done
-----------------------------------------------------------------------------
Init ==
    /\ launch \in [Revisions -> {"a", "b"}] /\ launch[0] = "a"
    /\ desired = 0 /\ pending = None /\ applied = None
    /\ owner = NoOwner /\ fenced = FALSE /\ apply = NoApply
    /\ fate = [m \in Messages |-> "new"]
    /\ late = None

\* agent:wake and agent:start: register with the config of the frame, then deliver.
Wake(m, r) ==
    LET w == Accept(World, r)
        converges == /\ w.pending # None /\ Attached(w) /\ ~Working(w) /\ ~w.apply.on
    IN  /\ fate[m] = "new"
        /\ Becomes(Deliver(IF converges THEN Converge(w) ELSE w, m))
        /\ UNCHANGED <<launch, late>>

\* A reminder or a task: deliver alone.
Remind(m) ==
    /\ fate[m] = "new"
    /\ Becomes(Deliver(World, m))
    /\ UNCHANGED <<launch, late>>

\* updateRuntimeConfig
UpdateRuntimeConfig(r) ==
    LET w == Accept(World, r)
        deferred == w.owner.busy \/ Working(w) \/ w.apply.on
    IN  /\ r > desired
        /\ Becomes(CASE ~Attached(w) -> [w EXCEPT !.pending = None]
                     [] Attached(w) /\ deferred -> w
                     [] OTHER -> Converge(w))
        /\ late' = IF owner.phase = "opening" THEN r ELSE late
        /\ UNCHANGED launch

FactoryOpens_Bug ==
    /\ owner.phase = "opening"
    /\ Becomes([World EXCEPT !.owner.phase = "starting", !.applied = owner.base, !.pending = None])
    /\ UNCHANGED <<launch, late>>

\* attach
FactoryOpens ==
    /\ owner.phase = "opening"
    /\ Becomes([World EXCEPT !.owner.phase = "starting", !.applied = owner.base,
                             !.pending = IF @ <= owner.base THEN None ELSE @])
    /\ UNCHANGED <<launch, late>>

\* The turn of the first message starts before its receipt is handled.
FirstTurnStarts ==
    /\ owner.phase = "starting" /\ ~owner.busy /\ ~owner.stopping
    /\ Becomes([World EXCEPT !.owner.busy = TRUE])
    /\ UNCHANGED <<launch, late>>

\* The receipt of start: the spawned event, which lifts a fence and sends the inbox.
StartAnswered ==
    /\ owner.phase = "starting" /\ ~owner.stopping
    /\ Becomes(Drain([World EXCEPT !.owner.phase = "running", !.owner.busy = TRUE,
                                   !.fenced = FALSE]))
    /\ UNCHANGED <<launch, late>>

\* The answer of session.updateSettings; a backend may have taken what it then
\* reports as failed.
UpdateAnswered(ok, took) ==
    /\ apply.rev # None
    /\ ok => took
    /\ Becomes(IF ok THEN Taken(World)
               ELSE Refused(IF took THEN [World EXCEPT !.owner.runs = apply.rev] ELSE World))
    /\ UNCHANGED <<launch, late>>

\* turn_completed: with a revision pending, it is applied before the completion.
TurnEnds ==
    /\ owner.phase = "running" /\ owner.busy /\ ~apply.ends
    /\ Becomes(IF pending # None /\ ~apply.on
               THEN Converge([World EXCEPT !.apply.ends = TRUE])
               ELSE Complete(World))
    /\ UNCHANGED <<launch, late>>

\* The exit event: the inbox needs a new session.
Exits(w) ==
    IF Inbox(w) = {} THEN Becomes([w EXCEPT !.fenced = FALSE])
    ELSE \E m \in Inbox(w) : Becomes(Spawn(w, m))

FactoryFails ==
    /\ owner.phase = "opening"
    /\ Exits([World EXCEPT !.owner = NoOwner])
    /\ UNCHANGED <<launch, late>>

\* finishSpawn: a stop has ended, the backend was idle for too long or it crashed;
\* an update it was asked for was answered before.
Closed ==
    /\ Attached(World) /\ apply.rev = None
    /\ Exits([World EXCEPT !.owner = NoOwner, !.applied = None, !.apply = NoApply])
    /\ UNCHANGED <<launch, late>>

Stops == owner.stopping /\ Closed

Next ==
    \/ \E m \in Messages : Remind(m) \/ \E r \in Revisions : Wake(m, r)
    \/ \E r \in Revisions : UpdateRuntimeConfig(r)
    \/ FactoryOpens \/ FactoryFails \/ FirstTurnStarts \/ StartAnswered
    \/ \E ok, took \in BOOLEAN : UpdateAnswered(ok, took)
    \/ TurnEnds \/ Closed

Spec == Init /\ [][Next]_vars

\* What was asked of the factory and of a session is answered (the controller turns
\* the end of a backend into an answer), a turn ends, a stop is forced after a while.
Fairness ==
    /\ WF_vars(FactoryOpens \/ FactoryFails)
    /\ WF_vars(owner.phase = "starting" /\ (StartAnswered \/ Closed))
    /\ WF_vars(\E ok, took \in BOOLEAN : UpdateAnswered(ok, took))
    /\ WF_vars(TurnEnds)
    /\ WF_vars(Stops)

FairSpec == Spec /\ Fairness
-----------------------------------------------------------------------------
(* Properties.                                                             *)

\* The types; a pending revision is always the newest one.
TypeOK ==
    /\ launch \in [Revisions -> {"a", "b"}]
    /\ desired \in Revisions
    /\ pending \in {None, desired}
    /\ {applied, late} \subseteq (0..desired) \cup {None}
    /\ owner \in [phase : {"none", "opening", "starting", "running"},
                  base : Revisions \cup {None}, runs : Revisions \cup {None},
                  busy : BOOLEAN, stopping : BOOLEAN]
    /\ fenced \in BOOLEAN
    /\ apply \in [on : BOOLEAN, rev : Revisions \cup {None}, ends : BOOLEAN]
    /\ fate \in [Messages -> {"new", "held", "sent"}]

\* What the manager believes to be applied is what the backend runs with: the launch
\* it was given and the effort it took since (appliedRuntimeConfigs decides whether
\* the next revision can be given to the running backend).  A session given up after
\* an update it may have taken is the exception.
AppliedIsEffective ==
    Attached(World) /\ ~owner.stopping =>
        applied # None /\ owner.runs = applied /\ launch[owner.base] = launch[applied]

\* A session with nothing to do and nothing to wait for runs the newest revision, but
\* for one accepted while it was being opened.
SettlesOnNewest ==
    owner.phase = "running" /\ ~owner.busy /\ ~apply.on /\ ~owner.stopping =>
        applied = desired \/ late = desired

\* ... and without the exception: the tests update a busy and an idle session and
\* expect the newest revision to be applied to it.  It does not hold (README,
\* Divergences).
UpToDate ==
    owner.phase = "running" /\ ~owner.busy /\ ~apply.on /\ ~owner.stopping =>
        applied = desired

\* A message that waits behind a revision is sent in the end, to this session or to
\* the next, whatever becomes of the update.
HeldIsSent == \A m \in Messages : (fate[m] = "held") ~> (fate[m] = "sent")
=============================================================================
