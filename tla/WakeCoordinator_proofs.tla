----------------------- MODULE WakeCoordinator_proofs -----------------------
(***************************************************************************)
(* The safety of the wake coordinator, for every set of channels and of    *)
(* commands and for every bound.  The coordinator's helpers (admit,        *)
(* reconcile, retryFailedAdmission, finishObservedAdmission) each take a   *)
(* state and leave a state, so the invariant is stated of a state and a    *)
(* set of awaiting dispatches, there is one lemma per helper, and a step   *)
(* of Next composes them.                                                  *)
(***************************************************************************)
EXTENDS WakeCoordinator, TLAPS

Typed(st, frames) == st \in AgentState /\ frames \subseteq Dispatch

\* The lock is a dispatch of the current lifecycle; no dispatch is of a later one.
Locked(st, frames) ==
    /\ \A f, g \in frames : f.generation = g.generation => f = g
    /\ st.admitting <=> \E f \in frames : f.generation = st.generation
    /\ \A f \in frames : f.generation <= st.generation

\* What CoverageIsHeld says of agent, and why a rollback restores it: what an
\* admission replaced had been seen.
Held(st) ==
    \A c \in Channels :
        st.scopes[c].admitted > st.scopes[c].seen =>
            /\ st.admission # None
            /\ st.admission.coverage[c] # None
            /\ st.scopes[c].admitted = st.admission.coverage[c].admitted

Based(coverage, scopes) ==
    \A c \in Channels : coverage[c] # None => coverage[c].previous <= scopes[c].seen

\* The dispatch that holds the lock covers what the admission covers.
Matched(st, frames) ==
    /\ st.admission # None => Based(st.admission.coverage, st.scopes)
    /\ \A f \in frames : f.generation = st.generation =>
        /\ Based(f.coverage, st.scopes)
        /\ st.admission # None => st.admission.coverage = f.coverage

\* While an admission is outstanding, whatever the model has not seen belongs
\* to its launch, or a replacement is waiting behind it.
Owned(st) ==
    st.admission # None =>
        \A c \in Channels :
            st.scopes[c].desired > st.scopes[c].seen =>
                \/ st.scopes[c].command = None
                \/ st.scopes[c].command.launch = st.admission.launch
                \/ st.coalesced # None

Core(st, frames) ==
    Typed(st, frames) /\ Locked(st, frames) /\ Held(st) /\ Matched(st, frames) /\ Owned(st)

Rested(st) == ~ Busy(st) => Unfenced(st) = {}

IInv == Core(agent, dispatches) /\ Rested(agent) /\ acks \subseteq Launches /\ pulls \subseteq Nat
-----------------------------------------------------------------------------
LEMMA LargerNat ==
    ASSUME NEW m \in Nat, NEW n \in Nat
    PROVE  Larger(m, n) \in Nat /\ Larger(m, n) >= m /\ Larger(m, n) >= n
                                /\ Larger(m, n) \in {m, n}
BY DEF Larger

\* With nothing outstanding, pending means not seen.
LEMMA PendingUnseen ==
    ASSUME NEW st \in AgentState, Held(st), st.admission = None, NEW c \in Channels
    PROVE  IsPending(st.scopes[c]) <=> st.scopes[c].desired > st.scopes[c].seen
BY DEF AgentState, Scope, Held, IsPending, Covered, Larger

\* Noting a command changes no watermark.
LEMMA NotedTyped ==
    ASSUME NEW st \in AgentState, NEW cmd \in Commands
    PROVE  /\ NotedScopes(st, cmd) \in [Channels -> Scope]
           /\ \A c \in Channels :
                /\ NotedScopes(st, cmd)[c].admitted = st.scopes[c].admitted
                /\ NotedScopes(st, cmd)[c].seen = st.scopes[c].seen
                /\ NotedScopes(st, cmd)[c].desired = st.scopes[c].desired
BY CommandsAssumption DEF AgentState, Scope, NotedScopes

\* admit keeps the core; a free coordinator is left with nothing forgotten.
LEMMA AdmitCore ==
    ASSUME NEW st, NEW frames, NEW cmd \in Commands, NEW outer \in BOOLEAN,
           Core(st, frames), Admit(st, cmd, frames, outer)
    PROVE  /\ Core(agent', dispatches')
           /\ ~ Busy(st) => Rested(agent')
PROOF
<1>1. CASE Busy(st)
  BY <1>1 DEF Admit
<1>2. CASE ~ Busy(st) /\ Pending(st.scopes) = {}
  <2>1. agent' = [st EXCEPT !.scopes = NotedScopes(st, cmd)] /\ dispatches' = frames
    BY <1>2 DEF Admit
  <2>2. NotedScopes(st, cmd) \in [Channels -> Scope]
    BY NotedTyped DEF Core, Typed
  <2>3. \A c \in Channels : /\ NotedScopes(st, cmd)[c].admitted = st.scopes[c].admitted
                            /\ NotedScopes(st, cmd)[c].seen = st.scopes[c].seen
                            /\ NotedScopes(st, cmd)[c].desired = st.scopes[c].desired
    BY NotedTyped DEF Core, Typed
  <2>4. agent' \in AgentState
    BY <2>1, <2>2 DEF Core, Typed, AgentState
  <2>5. /\ agent'.scopes = NotedScopes(st, cmd)
        /\ agent'.admission = st.admission /\ agent'.admitting = st.admitting
        /\ agent'.generation = st.generation
    BY <2>1 DEF Core, Typed, AgentState
  <2>6. st.admission = None
    BY <1>2 DEF Busy
  <2>7. Core(agent', dispatches')
    BY <2>1, <2>3, <2>4, <2>5, <2>6 DEF Core, Typed, Locked, Held, Matched, Based, Owned
  <2>8. Pending(agent'.scopes) = {}
    BY <1>2, <2>3, <2>5 DEF Pending, IsPending, Covered, Larger
  <2> QED BY <2>7, <2>8 DEF Rested, Unfenced
<1>3. CASE ~ Busy(st) /\ Pending(st.scopes) # {}
  <2> DEFINE cov == NewCoverage(st)
             frame == [generation |-> st.generation, launch |-> cmd.launch,
                       coverage |-> cov, acked |-> FALSE, outer |-> outer]
             adm == [launch |-> cmd.launch, coverage |-> cov, acked |-> FALSE, observed |-> FALSE]
             scopes == AdmittedScopes(st, cmd)
  <2>1. /\ agent' = [st EXCEPT !.admitting = TRUE, !.failed = None, !.coalesced = None,
                               !.scopes = scopes, !.admission = adm]
        /\ dispatches' = frames \cup {frame}
    BY <1>3 DEF Admit
  <2>2. st \in AgentState /\ st.admission = None /\ st.admitting = FALSE
    BY <1>3 DEF Busy, Core, Typed, AgentState
  <2>3. cov \in Coverage
    BY <2>2 DEF NewCoverage, Coverage, AgentState, Scope
  <2>4. cmd \in [launch : Launches, channel : Channels, seq : Nat \ {0}]
    BY CommandsAssumption
  <2>5. scopes \in [Channels -> Scope]
    <3>1. NotedScopes(st, cmd) \in [Channels -> Scope]
      BY <2>2, NotedTyped
    <3>2. ASSUME NEW c \in Channels
          PROVE  [st.scopes[c] EXCEPT !.admitted = st.scopes[c].desired, !.command = cmd] \in Scope
      <4>1. st.scopes[c] \in Scope
        BY <2>2 DEF AgentState
      <4> QED BY <4>1 DEF Scope
    <3> QED BY <3>1, <3>2 DEF AdmittedScopes
  <2>6. adm \in Admission /\ adm # None /\ frame \in Dispatch
    <3>1. adm \in Admission
      BY <2>3, <2>4 DEF Admission
    <3>2. frame \in Dispatch
      BY <2>2, <2>3, <2>4 DEF Dispatch, AgentState
    <3> QED BY <3>1, <3>2, NoneAssumption
  <2>7. agent' \in AgentState
    BY <2>1, <2>2, <2>5, <2>6 DEF AgentState
  <2>8. /\ agent'.scopes = scopes /\ agent'.admission = adm /\ agent'.admitting = TRUE
        /\ agent'.generation = st.generation
    BY <2>1, <2>2 DEF AgentState
  <2>9. \A c \in Channels :
          /\ scopes[c].seen = st.scopes[c].seen
          /\ scopes[c].desired = st.scopes[c].desired
          /\ IsPending(st.scopes[c]) =>
               /\ cov[c] # None /\ cov[c].previous = st.scopes[c].admitted
               /\ cov[c].admitted = scopes[c].admitted /\ scopes[c].command = cmd
          /\ ~ IsPending(st.scopes[c]) =>
               cov[c] = None /\ scopes[c].admitted = st.scopes[c].admitted
    <3>1. \A c \in Channels : [previous |-> st.scopes[c].admitted,
                               admitted |-> st.scopes[c].desired] # None
      BY <2>2, NoneAssumption DEF AgentState, Scope
    <3>2. \A c \in Channels : scopes[c].seen = st.scopes[c].seen
                             /\ scopes[c].desired = st.scopes[c].desired
      BY <2>2, NotedTyped DEF AgentState, Scope, AdmittedScopes
    <3>3. \A c \in Channels : IsPending(st.scopes[c]) =>
            scopes[c].admitted = st.scopes[c].desired /\ scopes[c].command = cmd
      BY <2>2 DEF AgentState, Scope, AdmittedScopes
    <3>4. \A c \in Channels : ~ IsPending(st.scopes[c]) =>
            scopes[c].admitted = st.scopes[c].admitted
      BY <2>2, NotedTyped DEF AdmittedScopes
    <3> QED BY <3>1, <3>2, <3>3, <3>4 DEF NewCoverage
  <2>10. \A c \in Channels : st.scopes[c].admitted <= st.scopes[c].seen
    BY <2>2 DEF Core, Held, AgentState, Scope
  <2>11. \A c \in Channels : IsPending(st.scopes[c]) <=> st.scopes[c].desired > st.scopes[c].seen
    BY <2>2, PendingUnseen DEF Core
  <2>12. Locked(agent', dispatches')
    <3>1. \A f \in frames : f.generation # st.generation
      BY <2>2 DEF Core, Locked
    <3>2. st.generation \in Nat /\ frame.generation = st.generation
      BY <2>2 DEF AgentState
    <3> HIDE DEF frame
    <3>3. \A f, g \in dispatches' : f.generation = g.generation => f = g
      BY <2>1, <3>1, <3>2 DEF Core, Locked
    <3>4. \E f \in dispatches' : f.generation = st.generation
      BY <2>1, <3>2
    <3>5. \A f \in dispatches' : f.generation <= st.generation
      BY <2>1, <3>2 DEF Core, Locked
    <3> QED BY <2>8, <3>3, <3>4, <3>5 DEF Locked
  <2>13. Held(agent')
    <3>1. adm.coverage = cov /\ adm # None
      BY <2>6
    <3>2. \A c \in Channels : IsPending(st.scopes[c]) =>
            cov[c] # None /\ scopes[c].admitted = cov[c].admitted
      BY <2>9
    <3>3. \A c \in Channels : ~ IsPending(st.scopes[c]) => ~ (scopes[c].admitted > scopes[c].seen)
      BY <2>2, <2>9, <2>10 DEF AgentState, Scope
    <3> QED BY <2>8, <3>1, <3>2, <3>3 DEF Held
  <2>14. Based(cov, scopes)
    BY <2>9, <2>10 DEF Based
  <2>15. Matched(agent', dispatches')
    <3>1. \A f \in dispatches' : f.generation = st.generation => f = frame
      BY <2>1, <2>2 DEF Core, Locked
    <3>2. Based(frame.coverage, scopes) /\ adm.coverage = frame.coverage
      BY <2>14
    <3> QED BY <2>8, <3>1, <3>2, <2>14 DEF Matched
  <2>16. Owned(agent')
    BY <2>8, <2>9, <2>11 DEF Owned
  <2>17. Core(agent', dispatches')
    BY <2>1, <2>6, <2>7, <2>12, <2>13, <2>15, <2>16 DEF Core, Typed
  <2> QED BY <2>8, <2>17 DEF Rested, Busy
<1> QED BY <1>1, <1>2, <1>3
-----------------------------------------------------------------------------
\* The core reads neither the fence nor the retry.
LEMMA CoreFrame ==
    ASSUME NEW st, NEW frames, Core(st, frames), NEW st2 \in AgentState,
           st2.generation = st.generation, st2.admitting = st.admitting,
           st2.admission = st.admission, st2.scopes = st.scopes,
           st2.coalesced = st.coalesced
    PROVE  Core(st2, frames)
BY DEF Core, Typed, Locked, Held, Matched, Owned

\* Dropping the admission keeps the core once its coverage is given back.
LEMMA DropCore ==
    ASSUME NEW st, NEW frames, Core(st, frames), NEW st2 \in AgentState,
           st2.generation = st.generation, st2.admitting = st.admitting,
           st2.admission = None,
           \A c \in Channels : /\ st2.scopes[c].seen = st.scopes[c].seen
                               /\ st2.scopes[c].admitted <= st2.scopes[c].seen
    PROVE  Core(st2, frames)
<1>1. Held(st2)
  BY DEF Held, AgentState, Scope
<1>2. Matched(st2, frames)
  BY DEF Core, Matched, Based
<1> QED BY <1>1, <1>2 DEF Core, Typed, Locked, Owned

LEMMA NextPendingType ==
    ASSUME NEW st \in AgentState
    PROVE  NextPending(st) \subseteq Commands
BY DEF NextPending, Unfenced, Pending, AgentState, Scope

\* reconcile leaves nothing forgotten, whatever it started from.
LEMMA ReconcileCore ==
    ASSUME NEW st, NEW frames, NEW outer \in BOOLEAN,
           Core(st, frames), Reconcile(st, frames, outer)
    PROVE  Core(agent', dispatches') /\ Rested(agent')
<1>1. CASE Busy(st) \/ Unfenced(st) = {}
  BY <1>1 DEF Reconcile, Rested
<1>2. CASE ~ (Busy(st) \/ Unfenced(st) = {})
  <2>1. PICK cmd \in NextPending(st) : Admit(st, cmd, frames, outer)
    BY <1>2 DEF Reconcile
  <2>2. cmd \in Commands
    BY NextPendingType DEF Core, Typed
  <2> QED BY <1>2, <2>1, <2>2, AdmitCore
<1> QED BY <1>1, <1>2

\* retryFailedAdmission with a retry leaves nothing forgotten.
LEMMA RetryCore ==
    ASSUME NEW st, NEW frames, NEW outer \in BOOLEAN,
           Core(st, frames), RetryFailed(st, frames, outer),
           st.retry # None \/ Rested(st)
    PROVE  Core(agent', dispatches') /\ Rested(agent')
<1>1. CASE Busy(st) \/ st.retry = None
  BY <1>1 DEF RetryFailed, Rested
<1>2. CASE ~ (Busy(st) \/ st.retry = None)
  <2> DEFINE st2 == [st EXCEPT !.retry = None, !.failed = None]
  <2>1. st \in AgentState
    BY DEF Core, Typed
  <2>2. /\ st2 \in AgentState /\ st2.generation = st.generation
        /\ st2.admitting = st.admitting /\ st2.admission = st.admission
        /\ st2.scopes = st.scopes /\ st2.coalesced = st.coalesced
    BY <2>1 DEF AgentState
  <2>3. Admit(st2, st.retry, frames, outer)
    BY <1>2 DEF RetryFailed
  <2>4. st.retry \in Commands
    BY <1>2, <2>1 DEF AgentState
  <2>5. ~ Busy(st2)
    BY <1>2, <2>2 DEF Busy
  <2> HIDE DEF st2
  <2>6. Core(st2, frames)
    BY <2>2, CoreFrame
  <2> QED BY <2>3, <2>4, <2>5, <2>6, AdmitCore
<1> QED BY <1>1, <1>2

\* Releasing unobserved coverage leaves none ahead of what was seen.
LEMMA ReleaseHeld ==
    ASSUME NEW st \in AgentState, Held(st), st.admission # None,
           Based(st.admission.coverage, st.scopes)
    PROVE  /\ ReleaseUnobserved(st).scopes \in [Channels -> Scope]
           /\ \A c \in Channels :
                LET s == ReleaseUnobserved(st).scopes[c] IN
                /\ s.seen = st.scopes[c].seen /\ s.desired = st.scopes[c].desired
                /\ s.command = st.scopes[c].command /\ s.admitted <= s.seen
<1> DEFINE released(c) ==
        IF /\ st.admission.coverage[c] # None
           /\ st.scopes[c].admitted = st.admission.coverage[c].admitted
           /\ st.scopes[c].seen < st.scopes[c].admitted
        THEN [st.scopes[c] EXCEPT
                !.admitted = Larger(st.admission.coverage[c].previous, st.scopes[c].seen)]
        ELSE st.scopes[c]
<1>1. ReleaseUnobserved(st).scopes = [c \in Channels |-> released(c)]
  BY DEF ReleaseUnobserved, AgentState
<1>2. ASSUME NEW c \in Channels
      PROVE  /\ released(c) \in Scope
             /\ released(c).seen = st.scopes[c].seen
             /\ released(c).desired = st.scopes[c].desired
             /\ released(c).command = st.scopes[c].command
             /\ released(c).admitted <= released(c).seen
  <2>1. st.scopes[c] \in Scope
    BY DEF AgentState
  <2>2. st.admission.coverage[c] \in [previous : Nat, admitted : Nat] \cup {None}
    BY DEF AgentState, Admission, Coverage
  <2>3. CASE /\ st.admission.coverage[c] # None
             /\ st.scopes[c].admitted = st.admission.coverage[c].admitted
             /\ st.scopes[c].seen < st.scopes[c].admitted
    <3>1. Larger(st.admission.coverage[c].previous, st.scopes[c].seen) = st.scopes[c].seen
      BY <2>1, <2>2, <2>3 DEF Based, Larger, Scope
    <3>2. released(c) = [st.scopes[c] EXCEPT !.admitted = st.scopes[c].seen]
      BY <2>3, <3>1
    <3> QED BY <2>1, <3>2 DEF Scope
  <2>4. CASE ~ (/\ st.admission.coverage[c] # None
                /\ st.scopes[c].admitted = st.admission.coverage[c].admitted
                /\ st.scopes[c].seen < st.scopes[c].admitted)
    <3>1. released(c) = st.scopes[c]
      BY <2>4
    <3> QED BY <2>1, <2>4, <3>1 DEF Scope, Held
  <2> QED BY <2>3, <2>4
<1> HIDE DEF released
<1> QED BY <1>1, <1>2

\* So does giving a failed delivery's coverage back.
LEMMA RollBackHeld ==
    ASSUME NEW st \in AgentState, Held(st), NEW coverage \in Coverage,
           Based(coverage, st.scopes),
           st.admission # None => st.admission.coverage = coverage
    PROVE  /\ RollBack(st.scopes, coverage) \in [Channels -> Scope]
           /\ \A c \in Channels :
                LET s == RollBack(st.scopes, coverage)[c] IN
                /\ s.seen = st.scopes[c].seen /\ s.desired = st.scopes[c].desired
                /\ s.command = st.scopes[c].command /\ s.admitted <= s.seen
<1> DEFINE back(c) ==
        IF coverage[c] # None /\ st.scopes[c].admitted = coverage[c].admitted
        THEN [st.scopes[c] EXCEPT !.admitted = coverage[c].previous]
        ELSE st.scopes[c]
<1>1. RollBack(st.scopes, coverage) = [c \in Channels |-> back(c)]
  BY DEF RollBack
<1>2. ASSUME NEW c \in Channels
      PROVE  /\ back(c) \in Scope
             /\ back(c).seen = st.scopes[c].seen
             /\ back(c).desired = st.scopes[c].desired
             /\ back(c).command = st.scopes[c].command
             /\ back(c).admitted <= back(c).seen
  <2>1. st.scopes[c] \in Scope
    BY DEF AgentState
  <2>2. coverage[c] \in [previous : Nat, admitted : Nat] \cup {None}
    BY DEF Coverage
  <2>3. CASE coverage[c] # None /\ st.scopes[c].admitted = coverage[c].admitted
    <3>1. back(c) = [st.scopes[c] EXCEPT !.admitted = coverage[c].previous]
      BY <2>3
    <3> QED BY <2>1, <2>2, <2>3, <3>1 DEF Scope, Based
  <2>4. CASE ~ (coverage[c] # None /\ st.scopes[c].admitted = coverage[c].admitted)
    <3>1. back(c) = st.scopes[c]
      BY <2>4
    <3> QED BY <2>1, <2>4, <3>1 DEF Scope, Held
  <2> QED BY <2>3, <2>4
<1> HIDE DEF back
<1> QED BY <1>1, <1>2
-----------------------------------------------------------------------------
\* A fenced state: the admission is dropped, its coverage given back.
LEMMA FenceCore ==
    ASSUME NEW st, NEW frames, Core(st, frames), NEW launch \in Launches,
           NEW scopes \in [Channels -> Scope],
           \A c \in Channels : /\ scopes[c].seen = st.scopes[c].seen
                               /\ scopes[c].admitted <= scopes[c].seen
    PROVE  LET st2 == Fence([st EXCEPT !.scopes = scopes], launch) IN
           /\ Core(st2, frames)
           /\ st2.scopes = scopes /\ st2.failed = launch /\ st2.admission = None
           /\ st2.retry = st.coalesced /\ st2.admitting = st.admitting
           /\ st2.generation = st.generation /\ st2.coalesced = None
<1> DEFINE st2 == Fence([st EXCEPT !.scopes = scopes], launch)
<1>1. st \in AgentState
  BY DEF Core, Typed
<1>2. /\ st2 \in AgentState
      /\ st2.scopes = scopes /\ st2.failed = launch /\ st2.admission = None
      /\ st2.retry = st.coalesced /\ st2.admitting = st.admitting
      /\ st2.generation = st.generation /\ st2.coalesced = None
  BY <1>1 DEF Fence, AgentState
<1> HIDE DEF st2
<1>3. Core(st2, frames)
  BY <1>2, DropCore
<1> QED BY <1>2, <1>3 DEF st2

\* finishObservedAdmission, from a state that rests unless it finishes.
LEMMA FinishCore ==
    ASSUME NEW st, NEW frames, Core(st, frames), FinishObserved(st, frames), Rested(st)
    PROVE  Core(agent', dispatches') /\ Rested(agent')
<1>1. CASE st.admission # None /\ st.admission.acked /\ st.admission.observed
  <2> DEFINE st2 == [ReleaseUnobserved(st) EXCEPT !.admission = None]
  <2>1. st \in AgentState /\ Held(st) /\ Based(st.admission.coverage, st.scopes)
    BY <1>1 DEF Core, Typed, Matched
  <2>2. /\ ReleaseUnobserved(st).scopes \in [Channels -> Scope]
        /\ \A c \in Channels :
             /\ ReleaseUnobserved(st).scopes[c].seen = st.scopes[c].seen
             /\ ReleaseUnobserved(st).scopes[c].admitted <= ReleaseUnobserved(st).scopes[c].seen
    BY <1>1, <2>1, ReleaseHeld
  <2>3. st2 = [st EXCEPT !.scopes = ReleaseUnobserved(st).scopes, !.admission = None]
    BY <2>1 DEF ReleaseUnobserved, AgentState
  <2>4. /\ st2 \in AgentState /\ st2.generation = st.generation
        /\ st2.admitting = st.admitting /\ st2.admission = None
        /\ st2.scopes = ReleaseUnobserved(st).scopes
    BY <2>1, <2>2, <2>3 DEF AgentState
  <2>5. Reconcile(st2, frames, FALSE)
    BY <1>1 DEF FinishObserved
  <2> HIDE DEF st2
  <2>6. Core(st2, frames)
    BY <2>2, <2>4, DropCore
  <2> QED BY <2>5, <2>6, ReconcileCore
<1>2. CASE ~ (st.admission # None /\ st.admission.acked /\ st.admission.observed)
  BY <1>2 DEF FinishObserved
<1> QED BY <1>1, <1>2

\* recordDeliveryAck, for any launch and outcome.
LEMMA AckCore ==
    ASSUME NEW frames, NEW launch \in Launches, NEW status \in {"ok", "error"},
           Core(agent, frames), Rested(agent), DeliveryAck(launch, status, frames)
    PROVE  Core(agent', dispatches') /\ Rested(agent')
<1>1. CASE agent.admission = None \/ agent.admission.launch # launch
  BY <1>1 DEF DeliveryAck
<1>2. CASE agent.admission # None /\ agent.admission.launch = launch /\ status = "ok"
  <2> DEFINE st == [agent EXCEPT !.admission.acked = TRUE]
  <2>1. agent \in AgentState /\ agent.admission \in Admission
    BY <1>2 DEF Core, Typed, AgentState
  <2>2. /\ st.admission \in Admission /\ st.admission # None
        /\ st.admission.coverage = agent.admission.coverage
        /\ st.admission.launch = agent.admission.launch
    BY <2>1, NoneAssumption DEF AgentState, Admission
  <2>3. /\ st \in AgentState /\ st.generation = agent.generation
        /\ st.admitting = agent.admitting /\ st.scopes = agent.scopes
        /\ st.coalesced = agent.coalesced
    BY <2>1, <2>2 DEF AgentState
  <2>4. FinishObserved(st, frames)
    BY <1>2 DEF DeliveryAck
  <2> HIDE DEF st
  <2>5. Core(st, frames)
    BY <1>2, <2>2, <2>3 DEF Core, Typed, Locked, Held, Matched, Owned
  <2>6. Rested(st)
    BY <2>2 DEF Rested, Busy
  <2> QED BY <2>4, <2>5, <2>6, FinishCore
<1>3. CASE agent.admission # None /\ agent.admission.launch = launch /\ status = "error"
  <2> DEFINE scopes == RollBack(agent.scopes, agent.admission.coverage)
             st == Fence([agent EXCEPT !.scopes = scopes], launch)
  <2>1. agent \in AgentState /\ agent.admission.coverage \in Coverage
    BY <1>3 DEF Core, Typed, AgentState, Admission
  <2>2. /\ scopes \in [Channels -> Scope]
        /\ \A c \in Channels :
             /\ scopes[c].seen = agent.scopes[c].seen
             /\ scopes[c].desired = agent.scopes[c].desired
             /\ scopes[c].command = agent.scopes[c].command
             /\ scopes[c].admitted <= scopes[c].seen
    BY <1>3, <2>1, RollBackHeld DEF Core, Matched
  <2>3. RetryFailed(st, frames, FALSE)
    BY <1>3 DEF DeliveryAck
  <2> HIDE DEF scopes
  <2>4. /\ Core(st, frames) /\ st.scopes = scopes /\ st.failed = launch
        /\ st.retry = agent.coalesced
    BY <2>2, FenceCore
  <2>5. st.retry # None \/ Rested(st)
    <3>1. SUFFICES ASSUME agent.coalesced = None, NEW c \in Unfenced(st)
                   PROVE  FALSE
      BY <2>4 DEF Rested
    <3>2. /\ c \in Channels /\ IsPending(scopes[c]) /\ scopes[c].command # None
          /\ scopes[c].command.launch # launch
      BY <2>4 DEF Unfenced, Pending
    <3>3. agent.scopes[c].desired > agent.scopes[c].seen
      BY <2>2, <3>2 DEF Scope, IsPending, Covered, Larger
    <3> QED BY <1>3, <2>2, <3>1, <3>2, <3>3 DEF Core, Owned
  <2> HIDE DEF st
  <2> QED BY <2>3, <2>4, <2>5, RetryCore
<1> QED BY <1>1, <1>2, <1>3
-----------------------------------------------------------------------------
(* The actions. *)

LEMMA InitIInv == Init => IInv
BY DEF Init, NoScope, IInv, Core, Typed, AgentState, Scope, Locked, Held, Matched, Owned,
       Rested, Unfenced, Pending, IsPending, Covered, Larger

\* Remembering a replacement touches nothing else.
LEMMA Remembered ==
    ASSUME NEW st \in AgentState, NEW cmd \in Commands
    PROVE  LET st2 == RememberReplacement(st, cmd) IN
           /\ st2 \in AgentState /\ st2.generation = st.generation
           /\ st2.admitting = st.admitting /\ st2.admission = st.admission
           /\ st2.scopes = st.scopes /\ st2.failed = st.failed
           /\ st.coalesced # None => st2.coalesced # None
BY NoneAssumption DEF RememberReplacement, AgentState

LEMMA RunCoveredInv ==
    ASSUME IInv, NEW cmd \in Commands, RunCovered(cmd)
    PROVE  Core(agent', dispatches') /\ Rested(agent')
<1>1. agent \in AgentState
  BY DEF IInv, Core, Typed
<1>2. agent' = RememberReplacement(agent, cmd) /\ dispatches' = dispatches
  BY DEF RunCovered
<1>3. /\ agent' \in AgentState /\ agent'.generation = agent.generation
      /\ agent'.admitting = agent.admitting /\ agent'.admission = agent.admission
      /\ agent'.scopes = agent.scopes /\ agent'.failed = agent.failed
      /\ agent.coalesced # None => agent'.coalesced # None
  BY <1>1, <1>2, Remembered
<1>4. Core(agent', dispatches')
  BY <1>2, <1>3 DEF IInv, Core, Typed, Locked, Held, Matched, Owned
<1> QED BY <1>3, <1>4 DEF IInv, Rested, Busy, Unfenced, Pending

\* Noting a wanted wake moves one desired watermark up.
LEMMA WantedType ==
    ASSUME agent \in AgentState, NEW cmd \in Commands
    PROVE  /\ Wanted(cmd) \in AgentState
           /\ Wanted(cmd).generation = agent.generation
           /\ Wanted(cmd).admitting = agent.admitting
           /\ Wanted(cmd).admission = agent.admission
           /\ Wanted(cmd).coalesced = agent.coalesced
           /\ \A c \in Channels :
                /\ Wanted(cmd).scopes[c].admitted = agent.scopes[c].admitted
                /\ Wanted(cmd).scopes[c].seen = agent.scopes[c].seen
                /\ \/ Wanted(cmd).scopes[c] = agent.scopes[c]
                   \/ /\ c = cmd.channel
                      /\ Wanted(cmd).scopes[c].command = cmd
                      /\ Wanted(cmd).scopes[c].desired = cmd.seq
<1>1. cmd.channel \in Channels /\ cmd.seq \in Nat
  BY CommandsAssumption
<1>2. agent.scopes[cmd.channel] \in Scope
  BY <1>1 DEF AgentState
<1> DEFINE s == [agent.scopes[cmd.channel] EXCEPT !.desired = cmd.seq, !.command = cmd]
<1>3. s \in Scope /\ s.admitted = agent.scopes[cmd.channel].admitted
      /\ s.seen = agent.scopes[cmd.channel].seen /\ s.desired = cmd.seq /\ s.command = cmd
  BY <1>1, <1>2 DEF Scope
<1>4. CASE cmd.seq >= agent.scopes[cmd.channel].desired
  <2>1. Wanted(cmd) = [agent EXCEPT !.scopes = [agent.scopes EXCEPT ![cmd.channel] = s]]
    BY <1>1, <1>2, <1>4 DEF Wanted, AgentState, Scope
  <2> HIDE DEF s
  <2> QED BY <1>1, <1>3, <2>1 DEF AgentState
<1>5. CASE ~ (cmd.seq >= agent.scopes[cmd.channel].desired)
  BY <1>5 DEF Wanted
<1> QED BY <1>4, <1>5

LEMMA RunCoalescedInv ==
    ASSUME IInv, NEW cmd \in Commands, RunCoalesced(cmd)
    PROVE  Core(agent', dispatches') /\ Rested(agent')
<1> DEFINE st == Wanted(cmd)
<1>1. agent \in AgentState /\ Busy(agent) /\ cmd.launch \in Launches /\ cmd.channel \in Channels
  BY CommandsAssumption DEF IInv, Core, Typed, RunCoalesced
<1>2. agent' = RememberReplacement(st, cmd) /\ dispatches' = dispatches
  BY DEF RunCoalesced
<1>3. /\ st \in AgentState /\ st.generation = agent.generation
      /\ st.admitting = agent.admitting /\ st.admission = agent.admission
      /\ st.coalesced = agent.coalesced
      /\ \A c \in Channels :
           /\ st.scopes[c].admitted = agent.scopes[c].admitted
           /\ st.scopes[c].seen = agent.scopes[c].seen
           /\ \/ st.scopes[c] = agent.scopes[c]
              \/ c = cmd.channel /\ st.scopes[c].command = cmd /\ st.scopes[c].desired = cmd.seq
  BY <1>1, WantedType
<1>4. /\ agent' \in AgentState /\ agent'.generation = st.generation
      /\ agent'.admitting = st.admitting /\ agent'.admission = st.admission
      /\ agent'.scopes = st.scopes
      /\ st.coalesced # None => agent'.coalesced # None
  BY <1>2, <1>3, Remembered
<1>5. Owned(agent')
  <2>1. SUFFICES ASSUME agent.admission # None, NEW c \in Channels,
                        st.scopes[c].desired > st.scopes[c].seen
                 PROVE  \/ st.scopes[c].command = None
                        \/ st.scopes[c].command.launch = agent.admission.launch
                        \/ agent'.coalesced # None
    BY <1>3, <1>4 DEF Owned
  <2>2. CASE st.scopes[c] = agent.scopes[c]
    BY <1>3, <1>4, <2>1, <2>2 DEF IInv, Core, Owned
  <2>3. CASE /\ c = cmd.channel /\ st.scopes[c].command = cmd /\ st.scopes[c].desired = cmd.seq
             /\ cmd.launch # agent.admission.launch
    <3>1. ~ (cmd.seq < st.scopes[cmd.channel].desired)
      BY <2>3, CommandsAssumption
    <3>2. st.admission.launch \in Launches
      BY <1>3, <2>1 DEF AgentState, Admission
    <3>3. agent' = [st EXCEPT !.coalesced = cmd, !.retry = IF st.failed # None THEN cmd ELSE @]
      BY <1>2, <1>3, <2>1, <2>3, <3>1, <3>2, NoneAssumption DEF RememberReplacement
    <3>4. agent'.coalesced = cmd /\ cmd # None
      BY <1>3, <3>3, NoneAssumption DEF AgentState
    <3> QED BY <3>4
  <2> QED BY <1>3, <2>2, <2>3
<1> HIDE DEF st
<1>6. Typed(agent', dispatches') /\ Locked(agent', dispatches') /\ Held(agent')
  BY <1>2, <1>3, <1>4 DEF IInv, Core, Typed, Locked, Held
<1>7. Matched(agent', dispatches')
  BY <1>2, <1>3, <1>4 DEF IInv, Core, Matched, Based
<1>8. Busy(agent')
  BY <1>1, <1>3, <1>4 DEF Busy
<1> QED BY <1>5, <1>6, <1>7, <1>8 DEF Core, Rested

LEMMA RunAdmittedInv ==
    ASSUME IInv, NEW cmd \in Commands, RunAdmitted(cmd)
    PROVE  Core(agent', dispatches') /\ Rested(agent')
<1> DEFINE st == Wanted(cmd)
<1>1. agent \in AgentState /\ ~ Busy(agent) /\ Admit(st, cmd, dispatches, FALSE)
  BY DEF IInv, Core, Typed, RunAdmitted
<1>2. /\ st \in AgentState /\ st.generation = agent.generation
      /\ st.admitting = agent.admitting /\ st.admission = agent.admission
      /\ \A c \in Channels : /\ st.scopes[c].admitted = agent.scopes[c].admitted
                             /\ st.scopes[c].seen = agent.scopes[c].seen
  BY <1>1, WantedType
<1>3. ~ Busy(st)
  BY <1>1, <1>2 DEF Busy
<1> HIDE DEF st
<1>4. Core(st, dispatches)
  BY <1>1, <1>2 DEF IInv, Core, Typed, Locked, Held, Matched, Based, Owned, Busy
<1> QED BY <1>1, <1>3, <1>4, AdmitCore

LEMMA RouterAckInv ==
    ASSUME IInv, NEW frame \in dispatches, NEW status \in {"ok", "error"},
           RouterAck(frame, status)
    PROVE  Core(agent', dispatches') /\ Rested(agent')
<1> DEFINE acked == [frame EXCEPT !.acked = TRUE]
           frames == (dispatches \ {frame}) \cup {acked}
<1>1. frame \in Dispatch
  BY DEF IInv, Core, Typed
<1>2. /\ acked \in Dispatch /\ acked.generation = frame.generation
      /\ acked.coverage = frame.coverage
  BY <1>1 DEF Dispatch
<1>3. DeliveryAck(frame.launch, status, frames) /\ frame.launch \in Launches
  BY <1>1 DEF RouterAck, Dispatch
<1> HIDE DEF acked
<1>4. Typed(agent, frames) /\ Locked(agent, frames) /\ Matched(agent, frames)
  BY <1>2 DEF IInv, Core, Typed, Locked, Matched
<1>5. Core(agent, frames)
  BY <1>4 DEF IInv, Core
<1> HIDE DEF frames
<1> QED BY <1>3, <1>5, AckCore DEF IInv

LEMMA DispatchReturnsInv ==
    ASSUME IInv, NEW frame \in dispatches, DispatchReturns(frame)
    PROVE  Core(agent', dispatches') /\ Rested(agent')
<1> DEFINE rest == dispatches \ {frame}
           st == [agent EXCEPT !.admitting = FALSE]
<1>1. agent \in AgentState /\ frame \in Dispatch
  BY DEF IInv, Core, Typed
<1>2. /\ st \in AgentState /\ st.generation = agent.generation /\ st.admitting = FALSE
      /\ st.admission = agent.admission /\ st.scopes = agent.scopes
      /\ st.coalesced = agent.coalesced
  BY <1>1 DEF AgentState
<1>3. frame.outer \in BOOLEAN
  BY <1>1 DEF Dispatch
<1>4. CASE frame.generation = agent.generation
  <2>1. Core(st, rest)
    BY <1>2, <1>4 DEF IInv, Core, Typed, Locked, Held, Matched, Owned
  <2>2. IF st.retry # None THEN RetryFailed(st, rest, TRUE) ELSE Reconcile(st, rest, frame.outer)
    BY <1>4 DEF DispatchReturns
  <2> HIDE DEF st, rest
  <2> QED BY <1>3, <2>1, <2>2, RetryCore, ReconcileCore
<1>5. CASE frame.generation # agent.generation
  <2>1. Core(agent, rest)
    BY <1>5 DEF IInv, Core, Typed, Locked, Matched
  <2>2. CASE frame.outer
    <3>1. Reconcile(agent, rest, FALSE)
      BY <1>5, <2>2 DEF DispatchReturns
    <3> HIDE DEF rest
    <3> QED BY <2>1, <3>1, ReconcileCore
  <2>3. CASE ~ frame.outer
    BY <1>5, <2>1, <2>3 DEF DispatchReturns, IInv
  <2> QED BY <2>2, <2>3
<1> QED BY <1>4, <1>5

LEMMA DispatchThrowsInv ==
    ASSUME IInv, NEW frame \in dispatches, DispatchThrows(frame)
    PROVE  Core(agent', dispatches') /\ Rested(agent')
<1> DEFINE rest == dispatches \ {frame}
           scopes == RollBack(agent.scopes, frame.coverage)
           fenced == Fence([agent EXCEPT !.scopes = scopes], frame.launch)
           st == [fenced EXCEPT !.admitting = FALSE]
<1>1. /\ agent \in AgentState /\ frame.launch \in Launches /\ frame.coverage \in Coverage
  BY DEF IInv, Core, Typed, Dispatch
<1>2. CASE frame.generation = agent.generation
  <2>1. /\ Based(frame.coverage, agent.scopes) /\ Held(agent)
        /\ agent.admission # None => agent.admission.coverage = frame.coverage
    BY <1>2 DEF IInv, Core, Matched
  <2>2. /\ scopes \in [Channels -> Scope]
        /\ \A c \in Channels : /\ scopes[c].seen = agent.scopes[c].seen
                               /\ scopes[c].admitted <= scopes[c].seen
    BY <1>1, <2>1, RollBackHeld
  <2>3. IF st.retry # None THEN RetryFailed(st, rest, TRUE) ELSE Reconcile(st, rest, FALSE)
    BY <1>2 DEF DispatchThrows
  <2> HIDE DEF scopes
  <2>4. /\ Core(fenced, dispatches) /\ fenced.admission = None
        /\ fenced.generation = agent.generation
    BY <1>1, <2>2, FenceCore DEF IInv
  <2> HIDE DEF fenced
  <2>5. /\ st \in AgentState /\ st.generation = agent.generation /\ st.admitting = FALSE
        /\ st.admission = None /\ st.scopes = fenced.scopes
    BY <2>4 DEF Core, Typed, AgentState
  <2> HIDE DEF st
  <2>6. Typed(st, rest) /\ Locked(st, rest)
    BY <1>2, <2>4, <2>5 DEF Core, Typed, Locked
  <2>7. Core(st, rest)
    BY <2>4, <2>5, <2>6 DEF Core, Held, Matched, Owned
  <2> HIDE DEF rest
  <2> QED BY <2>3, <2>7, RetryCore, ReconcileCore
<1>3. CASE frame.generation # agent.generation
  <2>1. agent' = agent /\ dispatches' = rest
    BY <1>3 DEF DispatchThrows
  <2> QED BY <1>3, <2>1 DEF IInv, Core, Typed, Locked, Matched
<1> QED BY <1>2, <1>3

LEMMA AgentIdleInv ==
    ASSUME IInv, AgentIdle
    PROVE  Core(agent', dispatches') /\ Rested(agent')
<1> DEFINE st == IF agent.admission = None THEN agent
                 ELSE Fence(ReleaseUnobserved(agent), agent.admission.launch)
<1>1. agent \in AgentState
  BY DEF IInv, Core, Typed
<1>2. Core(st, dispatches)
  <2>1. CASE agent.admission = None
    BY <2>1 DEF IInv
  <2>2. CASE agent.admission # None
    <3> DEFINE scopes == ReleaseUnobserved(agent).scopes
    <3>1. agent.admission.launch \in Launches
      BY <1>1, <2>2 DEF AgentState, Admission
    <3>2. /\ scopes \in [Channels -> Scope]
          /\ \A c \in Channels : /\ scopes[c].seen = agent.scopes[c].seen
                                 /\ scopes[c].admitted <= scopes[c].seen
      BY <1>1, <2>2, ReleaseHeld DEF IInv, Core, Matched
    <3>3. ReleaseUnobserved(agent) = [agent EXCEPT !.scopes = scopes]
      BY <1>1 DEF ReleaseUnobserved, AgentState
    <3> HIDE DEF scopes
    <3>4. Core(Fence([agent EXCEPT !.scopes = scopes], agent.admission.launch), dispatches)
      BY <3>1, <3>2, FenceCore DEF IInv
    <3> QED BY <2>2, <3>3, <3>4
  <2> QED BY <2>1, <2>2
<1>3. IF ~ st.admitting /\ st.retry # None
      THEN RetryFailed(st, dispatches, FALSE) ELSE Reconcile(st, dispatches, FALSE)
  BY DEF AgentIdle
<1> HIDE DEF st
<1> QED BY <1>2, <1>3, RetryCore, ReconcileCore

\* Recording cursors only raises what the model has seen.
LEMMA ObserveType ==
    ASSUME agent \in AgentState, NEW cursors \in Cursors
    PROVE  LET st == Observe(cursors) IN
           /\ st \in AgentState /\ st.generation = agent.generation
           /\ st.admitting = agent.admitting /\ st.coalesced = agent.coalesced
           /\ st.failed = agent.failed
           /\ st.admission = None <=> agent.admission = None
           /\ agent.admission # None =>
                /\ st.admission.coverage = agent.admission.coverage
                /\ st.admission.launch = agent.admission.launch
           /\ \A c \in Channels :
                /\ st.scopes[c].seen >= agent.scopes[c].seen
                /\ st.scopes[c].admitted = agent.scopes[c].admitted
                /\ st.scopes[c].desired = agent.scopes[c].desired
                /\ st.scopes[c].command = agent.scopes[c].command
<1> DEFINE adm == IF agent.admission # None
                     /\ \E c \in Channels : agent.admission.coverage[c] # None /\ cursors[c] # 0
                  THEN [agent.admission EXCEPT !.observed = TRUE] ELSE agent.admission
           scopes == [c \in Channels |->
                        [agent.scopes[c] EXCEPT !.seen = Larger(@, cursors[c])]]
<1>1. Observe(cursors) = [agent EXCEPT !.admission = adm, !.scopes = scopes]
  BY DEF Observe, AgentState
<1>2. /\ adm \in Admission \cup {None}
      /\ adm = None <=> agent.admission = None
      /\ agent.admission # None => /\ adm.coverage = agent.admission.coverage
                                   /\ adm.launch = agent.admission.launch
  BY NoneAssumption DEF AgentState, Admission
<1>3. ASSUME NEW c \in Channels
      PROVE  /\ scopes[c] \in Scope /\ scopes[c].seen >= agent.scopes[c].seen
             /\ scopes[c].admitted = agent.scopes[c].admitted
             /\ scopes[c].desired = agent.scopes[c].desired
             /\ scopes[c].command = agent.scopes[c].command
  <2>1. agent.scopes[c] \in Scope
    BY DEF AgentState
  <2>2. cursors[c] \in Nat
    BY CommandsAssumption DEF Cursors
  <2>3. /\ Larger(agent.scopes[c].seen, cursors[c]) \in Nat
        /\ Larger(agent.scopes[c].seen, cursors[c]) >= agent.scopes[c].seen
    BY <2>1, <2>2, LargerNat DEF Scope
  <2> QED BY <2>1, <2>3 DEF Scope
<1>4. scopes \in [Channels -> Scope]
  BY <1>3
<1> HIDE DEF adm, scopes
<1> QED BY <1>1, <1>2, <1>3, <1>4 DEF AgentState

LEMMA PullReturnsInv ==
    ASSUME IInv, NEW generation \in pulls, NEW cursors \in Cursors,
           PullReturns(generation, cursors)
    PROVE  Core(agent', dispatches') /\ Rested(agent')
<1>1. CASE generation = agent.generation
  <2> DEFINE st == Observe(cursors)
  <2>1. agent \in AgentState
    BY DEF IInv, Core, Typed
  <2>2. FinishObserved(st, dispatches)
    BY <1>1 DEF PullReturns
  <2>3. /\ st \in AgentState /\ st.generation = agent.generation
        /\ st.admitting = agent.admitting /\ st.coalesced = agent.coalesced
        /\ st.failed = agent.failed
        /\ st.admission = None <=> agent.admission = None
        /\ agent.admission # None =>
             /\ st.admission.coverage = agent.admission.coverage
             /\ st.admission.launch = agent.admission.launch
        /\ \A c \in Channels :
             /\ st.scopes[c].seen >= agent.scopes[c].seen
             /\ st.scopes[c].admitted = agent.scopes[c].admitted
             /\ st.scopes[c].desired = agent.scopes[c].desired
             /\ st.scopes[c].command = agent.scopes[c].command
    BY <2>1, ObserveType
  <2> HIDE DEF st
  <2>4. \A c \in Channels : /\ agent.scopes[c] \in Scope /\ st.scopes[c] \in Scope
    BY <2>1, <2>3 DEF AgentState
  <2>5. Typed(st, dispatches) /\ Locked(st, dispatches)
    BY <2>3 DEF IInv, Core, Typed, Locked
  <2>6. Held(st) /\ Owned(st)
    BY <2>3, <2>4 DEF IInv, Core, Held, Owned, Scope
  <2>7. ASSUME NEW coverage \in Coverage, Based(coverage, agent.scopes)
        PROVE  Based(coverage, st.scopes)
    BY <2>3, <2>4, <2>7 DEF Based, Scope, Coverage
  <2>8. Matched(st, dispatches)
    <3>1. agent.admission # None => agent.admission.coverage \in Coverage
      BY <2>1 DEF AgentState, Admission
    <3>2. \A f \in dispatches : f.coverage \in Coverage
      BY DEF IInv, Core, Typed, Dispatch
    <3> QED BY <2>3, <2>7, <3>1, <3>2 DEF IInv, Core, Matched
  <2>9. Rested(st)
    <3>1. \A c \in Channels : IsPending(st.scopes[c]) => IsPending(agent.scopes[c])
      BY <2>3, <2>4 DEF IsPending, Covered, Larger, Scope
    <3> QED BY <2>3, <3>1 DEF IInv, Rested, Busy, Unfenced, Pending
  <2>10. Core(st, dispatches)
    BY <2>5, <2>6, <2>8 DEF Core
  <2> QED BY <2>2, <2>9, <2>10, FinishCore
<1>2. CASE generation # agent.generation
  BY <1>2 DEF PullReturns, IInv
<1> QED BY <1>1, <1>2

LEMMA InvalidateInv ==
    ASSUME IInv, NEW clearSeen \in BOOLEAN, Invalidate(clearSeen)
    PROVE  Core(agent', dispatches') /\ Rested(agent')
<1> DEFINE scopes == [c \in Channels |->
                        LET s == agent.scopes[c] IN
                        IF clearSeen THEN NoScope
                        ELSE [s EXCEPT !.desired = s.seen, !.admitted = s.seen]]
<1>1. agent \in AgentState
  BY DEF IInv, Core, Typed
<1>2. agent' = [generation |-> agent.generation + 1, admitting |-> FALSE,
                admission |-> None, failed |-> None, coalesced |-> None, retry |-> None,
                scopes |-> scopes]
      /\ dispatches' = dispatches
  BY DEF Invalidate
<1>3. ASSUME NEW c \in Channels
      PROVE  /\ scopes[c] \in Scope /\ scopes[c].desired = scopes[c].seen
             /\ scopes[c].admitted = scopes[c].seen
  <2>1. agent.scopes[c] \in Scope
    BY <1>1 DEF AgentState
  <2> QED BY <2>1 DEF Scope, NoScope
<1>4. scopes \in [Channels -> Scope]
  BY <1>3
<1> HIDE DEF scopes
<1>5. /\ agent' \in AgentState /\ agent'.generation = agent.generation + 1
      /\ agent'.admitting = FALSE /\ agent'.admission = None /\ agent'.scopes = scopes
  BY <1>1, <1>2, <1>4 DEF AgentState
<1>6. \A f \in dispatches : f.generation < agent'.generation
  BY <1>1, <1>5 DEF IInv, Core, Typed, Locked, Dispatch, AgentState
<1>7. \A c \in Channels : ~ IsPending(scopes[c]) /\ ~ (scopes[c].admitted > scopes[c].seen)
  BY <1>3 DEF Scope, IsPending, Covered, Larger
<1>8. Typed(agent', dispatches')
  BY <1>2, <1>5 DEF IInv, Core, Typed
<1>9. Locked(agent', dispatches')
  BY <1>1, <1>2, <1>5, <1>6 DEF IInv, Core, Typed, Locked, Dispatch, AgentState
<1>10. Held(agent') /\ Matched(agent', dispatches') /\ Owned(agent')
  BY <1>1, <1>2, <1>5, <1>6, <1>7 DEF Held, Matched, Owned, IInv, Core, Typed, Dispatch, AgentState
<1>11. Rested(agent')
  BY <1>5, <1>7 DEF Rested, Unfenced, Pending
<1> QED BY <1>8, <1>9, <1>10, <1>11 DEF Core
-----------------------------------------------------------------------------
LEMMA NextIInv == IInv /\ [Next]_vars => IInv'
<1> SUFFICES ASSUME IInv, [Next]_vars
             PROVE  IInv'
  OBVIOUS
<1> USE DEF IInv
<1>1. ASSUME NEW cmd \in Commands, Run(cmd)
      PROVE  IInv'
  <2>1. acks' \subseteq Launches /\ pulls' \subseteq Nat
    BY <1>1, CommandsAssumption DEF Run, RunCovered, RunCoalesced, RunAdmitted, OweAck
  <2> QED BY <1>1, <2>1, RunCoveredInv, RunCoalescedInv, RunAdmittedInv DEF Run
<1>2. ASSUME NEW launch \in Launches, SuppressedAck(launch)
      PROVE  IInv'
  BY <1>2, AckCore DEF SuppressedAck
<1>3. ASSUME NEW clearSeen \in BOOLEAN, Invalidate(clearSeen)
      PROVE  IInv'
  BY <1>3, InvalidateInv DEF Invalidate
<1>4. ASSUME NEW frame \in dispatches, NEW status \in {"ok", "error"}, RouterAck(frame, status)
      PROVE  IInv'
  BY <1>4, RouterAckInv DEF RouterAck
<1>5. ASSUME NEW frame \in dispatches, DispatchReturns(frame)
      PROVE  IInv'
  BY <1>5, DispatchReturnsInv DEF DispatchReturns
<1>6. ASSUME NEW frame \in dispatches, DispatchThrows(frame)
      PROVE  IInv'
  BY <1>6, DispatchThrowsInv DEF DispatchThrows
<1>7. CASE AgentWorks
  BY <1>7, ReconcileCore DEF AgentWorks
<1>8. CASE AgentIdle
  BY <1>8, AgentIdleInv DEF AgentIdle
<1>9. CASE PullStarts
  BY <1>9 DEF PullStarts, Core, Typed, AgentState
<1>10. ASSUME NEW generation \in pulls, NEW cursors \in Cursors, PullReturns(generation, cursors)
       PROVE  IInv'
  BY <1>10, PullReturnsInv DEF PullReturns
<1>11. CASE UNCHANGED vars
  BY <1>11 DEF vars
<1> QED
  BY <1>1, <1>2, <1>3, <1>4, <1>5, <1>6, <1>7, <1>8, <1>9, <1>10, <1>11 DEF Next

THEOREM Invariance == Spec => []IInv
<1>1. Init => IInv
  BY InitIInv
<1>2. IInv /\ [Next]_vars => IInv'
  BY NextIInv
<1> QED BY <1>1, <1>2, PTL DEF Spec

\* The coordinator's state keeps its type: acks, pulls and dispatches too.
THEOREM TypeCorrect == Spec => []TypeOK
<1>1. IInv => TypeOK
  BY DEF IInv, Core, Typed, TypeOK
<1> QED BY <1>1, Invariance, PTL

\* The admission lock (wakeCoordinator.ts:237, 257, 286-289) is exactly the one
\* dispatch of the current lifecycle that is still awaited.
THEOREM DispatchIsLocked == Spec => []OneDispatch
<1>1. IInv => OneDispatch
  BY DEF IInv, Core, Locked, OneDispatch
<1> QED BY <1>1, Invariance, PTL

\* No watermark keeps suppressing wakes (wakeCoordinator.ts:58-62) once the
\* admission that covered it is over.
THEOREM CoverageNeverLeaks == Spec => []CoverageIsHeld
<1>1. IInv => CoverageIsHeld
  BY DEF IInv, Core, Held, CoverageIsHeld
<1> QED BY <1>1, Invariance, PTL

\* With nothing outstanding, a pending wake rests only behind its own failed
\* launch (wakeCoordinator.ts:224-233).
THEOREM NothingIsForgotten == Spec => []NothingForgotten
<1>1. IInv => NothingForgotten
  BY DEF IInv, Rested, NothingForgotten
<1> QED BY <1>1, Invariance, PTL
=============================================================================
