--------------------------- MODULE WakeLane_proofs ---------------------------
(***************************************************************************)
(* More about the wake coordinator, on top of the invariant of             *)
(* WakeCoordinator_proofs: it implements the lane it documents (WakeLane), *)
(* an inbox ack counts only in its own lifecycle, a new wake is carried,   *)
(* and a launch that failed is not admitted again by itself.               *)
(*                                                                         *)
(* The first three are about single steps; what they need of the reachable *)
(* states is that a free coordinator has nothing covered which was not     *)
(* seen (Held).  The last one needs an invariant of its own, Fencing: what *)
(* waits behind a launch is never of that launch.                          *)
(***************************************************************************)
EXTENDS WakeCoordinator_proofs

\* What the lane shows of a coordinator.
Desired(st)  == [c \in Channels |-> st.scopes[c].desired]
Seen(st)     == [c \in Channels |-> st.scopes[c].seen]
Promised(st) == [c \in Channels |->
                    IF st.admission = None THEN 0
                    ELSE IF st.admission.coverage[c] = None THEN 0
                    ELSE st.admission.coverage[c].admitted]

Nothing == [c \in Channels |-> 0]

\* A delivery promises every channel that is behind.
Everything(st) == [c \in Channels |->
                      IF st.scopes[c].desired > st.scopes[c].seen
                      THEN st.scopes[c].desired ELSE 0]

\* From st the coordinator goes on without a change of what is wanted and seen; what
\* is outstanding may settle, and everything may be delivered.
Moves(st) ==
    /\ Desired(agent') = Desired(st) /\ Seen(agent') = Seen(st)
    /\ Promised(agent') \in {Promised(st), Nothing, Everything(st)}
-----------------------------------------------------------------------------
(* The helpers of the coordinator, in the lane.                            *)

LEMMA AdmitMoves ==
  ASSUME NEW st \in AgentState, Held(st), NEW frames, NEW cmd \in Commands, NEW outer,
         Admit(st, cmd, frames, outer)
  PROVE  Moves(st)
<1>1. CASE Busy(st)
  BY <1>1 DEF Admit, Moves
<1>2. CASE ~ Busy(st) /\ Pending(st.scopes) = {}
  <2>1. agent' = [st EXCEPT !.scopes = NotedScopes(st, cmd)]
    BY <1>2 DEF Admit
  <2>2. agent'.scopes = NotedScopes(st, cmd) /\ agent'.admission = st.admission
    BY <2>1 DEF AgentState
  <2>3. \A c \in Channels : /\ agent'.scopes[c].seen = st.scopes[c].seen
                            /\ agent'.scopes[c].desired = st.scopes[c].desired
    BY <2>2, NotedTyped
  <2> QED BY <2>2, <2>3 DEF Moves, Desired, Seen, Promised
<1>3. CASE ~ Busy(st) /\ Pending(st.scopes) # {}
  <2> DEFINE adm == [launch |-> cmd.launch, coverage |-> NewCoverage(st),
                     acked |-> FALSE, observed |-> FALSE]
  <2>1. agent' = [st EXCEPT !.admitting = TRUE, !.failed = None, !.coalesced = None,
                            !.scopes = AdmittedScopes(st, cmd), !.admission = adm]
    BY <1>3 DEF Admit
  <2>2. agent'.scopes = AdmittedScopes(st, cmd) /\ agent'.admission = adm
    BY <2>1 DEF AgentState
  <2>3. \A c \in Channels : /\ agent'.scopes[c].seen = st.scopes[c].seen
                            /\ agent'.scopes[c].desired = st.scopes[c].desired
    <3>1. \A c \in Channels : /\ AdmittedScopes(st, cmd)[c].seen = st.scopes[c].seen
                              /\ AdmittedScopes(st, cmd)[c].desired = st.scopes[c].desired
      BY NotedTyped DEF AgentState, Scope, AdmittedScopes
    <3> QED BY <2>2, <3>1
  <2>4. adm # None
    <3>1. NewCoverage(st) \in Coverage
      BY DEF NewCoverage, Coverage, AgentState, Scope
    <3>2. adm \in Admission
      BY <3>1, CommandsAssumption DEF Admission
    <3> QED BY <3>2, NoneAssumption
  <2>5. st.admission = None
    BY <1>3 DEF Busy
  <2>6. \A c \in Channels :
          (IF NewCoverage(st)[c] = None THEN 0 ELSE NewCoverage(st)[c].admitted)
            = (IF st.scopes[c].desired > st.scopes[c].seen THEN st.scopes[c].desired ELSE 0)
    <3> SUFFICES ASSUME NEW c \in Channels
                 PROVE  (IF NewCoverage(st)[c] = None THEN 0 ELSE NewCoverage(st)[c].admitted)
                          = (IF st.scopes[c].desired > st.scopes[c].seen
                             THEN st.scopes[c].desired ELSE 0)
      OBVIOUS
    <3>1. IsPending(st.scopes[c]) <=> st.scopes[c].desired > st.scopes[c].seen
      BY <2>5, PendingUnseen
    <3>2. [previous |-> st.scopes[c].admitted, admitted |-> st.scopes[c].desired] # None
      BY NoneAssumption DEF AgentState, Scope
    <3> QED BY <3>1, <3>2 DEF NewCoverage
  <2> HIDE DEF adm
  <2>7. adm.coverage = NewCoverage(st)
    BY DEF adm
  <2>8. Promised(agent') = Everything(st)
    BY <2>2, <2>4, <2>6, <2>7 DEF Promised, Everything
  <2> QED BY <2>3, <2>8 DEF Moves, Desired, Seen
<1> QED BY <1>1, <1>2, <1>3

LEMMA ReconcileMoves ==
  ASSUME NEW st \in AgentState, Held(st), NEW frames, NEW outer,
         Reconcile(st, frames, outer)
  PROVE  Moves(st)
<1>1. CASE Busy(st) \/ Unfenced(st) = {}
  BY <1>1 DEF Reconcile, Moves
<1>2. CASE ~ (Busy(st) \/ Unfenced(st) = {})
  <2>1. PICK cmd \in NextPending(st) : Admit(st, cmd, frames, outer)
    BY <1>2 DEF Reconcile
  <2> QED BY <2>1, NextPendingType, AdmitMoves
<1> QED BY <1>1, <1>2

LEMMA RetryMoves ==
  ASSUME NEW st \in AgentState, Held(st), NEW frames, NEW outer,
         RetryFailed(st, frames, outer)
  PROVE  Moves(st)
<1>1. CASE Busy(st) \/ st.retry = None
  BY <1>1 DEF RetryFailed, Moves
<1>2. CASE ~ (Busy(st) \/ st.retry = None)
  <2> DEFINE st2 == [st EXCEPT !.retry = None, !.failed = None]
  <2>1. /\ st2 \in AgentState /\ st2.admission = st.admission /\ st2.scopes = st.scopes
    BY DEF AgentState
  <2>2. Admit(st2, st.retry, frames, outer) /\ st.retry \in Commands
    BY <1>2 DEF RetryFailed, AgentState
  <2> HIDE DEF st2
  <2>3. Held(st2)
    BY <2>1 DEF Held
  <2>4. Moves(st2)
    BY <2>1, <2>2, <2>3, AdmitMoves
  <2> QED BY <2>1, <2>4 DEF Moves, Desired, Seen, Promised, Everything
<1> QED BY <1>1, <1>2

\* After the admission was dropped the coordinator goes on as from before.
LEMMA DroppedMoves ==
  ASSUME NEW st, NEW st2, st2.admission = None, Moves(st2),
         \A c \in Channels : /\ st2.scopes[c].seen = st.scopes[c].seen
                             /\ st2.scopes[c].desired = st.scopes[c].desired
  PROVE  Moves(st)
<1>1. Desired(st2) = Desired(st) /\ Seen(st2) = Seen(st) /\ Everything(st2) = Everything(st)
  BY DEF Desired, Seen, Everything
<1>2. Promised(st2) = Nothing
  BY DEF Promised, Nothing
<1> QED BY <1>1, <1>2 DEF Moves

LEMMA FinishMoves ==
  ASSUME NEW st \in AgentState, Held(st), NEW frames, FinishObserved(st, frames),
         st.admission # None => Based(st.admission.coverage, st.scopes)
  PROVE  Moves(st)
<1>1. CASE st.admission # None /\ st.admission.acked /\ st.admission.observed
  <2> DEFINE scopes == ReleaseUnobserved(st).scopes
             st2 == [ReleaseUnobserved(st) EXCEPT !.admission = None]
  <2>1. /\ scopes \in [Channels -> Scope]
        /\ \A c \in Channels : /\ scopes[c].seen = st.scopes[c].seen
                               /\ scopes[c].desired = st.scopes[c].desired
                               /\ scopes[c].admitted <= scopes[c].seen
    BY <1>1, ReleaseHeld
  <2>2. st2 = [st EXCEPT !.scopes = scopes, !.admission = None]
    BY DEF ReleaseUnobserved, AgentState
  <2>3. Reconcile(st2, frames, FALSE)
    BY <1>1 DEF FinishObserved
  <2> HIDE DEF scopes
  <2>4. st2 \in AgentState /\ st2.admission = None /\ st2.scopes = scopes
    BY <2>1, <2>2 DEF AgentState
  <2> HIDE DEF st2
  <2>5. Held(st2)
    BY <2>1, <2>4 DEF Held, Scope
  <2>6. Moves(st2)
    BY <2>3, <2>4, <2>5, ReconcileMoves
  <2> QED BY <2>1, <2>4, <2>6, DroppedMoves
<1>2. CASE ~ (st.admission # None /\ st.admission.acked /\ st.admission.observed)
  BY <1>2 DEF FinishObserved, Moves
<1> QED BY <1>1, <1>2

LEMMA AckMoves ==
  ASSUME IInv, NEW frames, NEW launch \in Launches, NEW status \in {"ok", "error"},
         DeliveryAck(launch, status, frames)
  PROVE  Moves(agent)
<1>0. /\ agent \in AgentState /\ Held(agent)
      /\ agent.admission # None => Based(agent.admission.coverage, agent.scopes)
  BY DEF IInv, Core, Typed, Matched
<1>1. CASE agent.admission = None \/ agent.admission.launch # launch
  BY <1>1 DEF DeliveryAck, Moves
<1>2. CASE agent.admission # None /\ agent.admission.launch = launch /\ status = "ok"
  <2> DEFINE st == [agent EXCEPT !.admission.acked = TRUE]
  <2>1. agent.admission \in Admission
    BY <1>0, <1>2 DEF AgentState
  <2>2. /\ st.admission \in Admission /\ st.admission # None
        /\ st.admission.coverage = agent.admission.coverage
    BY <1>0, <2>1, NoneAssumption DEF AgentState, Admission
  <2>3. st \in AgentState /\ st.scopes = agent.scopes
    BY <1>0, <2>2 DEF AgentState
  <2>4. FinishObserved(st, frames)
    BY <1>2 DEF DeliveryAck
  <2> HIDE DEF st
  <2>5. Held(st)
    BY <1>0, <1>2, <2>2, <2>3 DEF Held
  <2>6. Moves(st)
    BY <1>0, <1>2, <2>2, <2>3, <2>4, <2>5, FinishMoves
  <2> QED BY <1>2, <2>2, <2>3, <2>6 DEF Moves, Desired, Seen, Promised, Everything
<1>3. CASE agent.admission # None /\ agent.admission.launch = launch /\ status = "error"
  <2> DEFINE scopes == RollBack(agent.scopes, agent.admission.coverage)
             st == Fence([agent EXCEPT !.scopes = scopes], launch)
  <2>1. agent.admission.coverage \in Coverage
    BY <1>0, <1>3 DEF AgentState, Admission
  <2>2. /\ scopes \in [Channels -> Scope]
        /\ \A c \in Channels : /\ scopes[c].seen = agent.scopes[c].seen
                               /\ scopes[c].desired = agent.scopes[c].desired
                               /\ scopes[c].admitted <= scopes[c].seen
    BY <1>0, <1>3, <2>1, RollBackHeld
  <2>3. RetryFailed(st, frames, FALSE)
    BY <1>3 DEF DeliveryAck
  <2> HIDE DEF scopes
  <2>4. st \in AgentState /\ st.admission = None /\ st.scopes = scopes
    BY <1>0, <2>2 DEF Fence, AgentState
  <2> HIDE DEF st
  <2>5. Held(st)
    BY <2>2, <2>4 DEF Held, Scope
  <2>6. Moves(st)
    BY <2>3, <2>4, <2>5, RetryMoves
  <2> QED BY <2>2, <2>4, <2>6, DroppedMoves
<1> QED BY <1>1, <1>2, <1>3
-----------------------------------------------------------------------------
(* The lane.                                                               *)

\* The variables of the lane are what it shows of the agent.
LEMMA LaneShows ==
  /\ Lane!lane = <<Desired(agent), Seen(agent), Promised(agent)>>
  /\ Lane!Nothing = Nothing
  /\ Lane!Everything(Desired(agent), Seen(agent)) = Everything(agent)
<1>1. Lane!lane = <<Desired(agent), Seen(agent), Promised(agent)>>
  BY DEF Lane!lane, Desired, Seen, Promised
<1>2. Lane!Everything(Desired(agent), Seen(agent)) = Everything(agent)
  BY DEF Lane!Everything, Desired, Seen, Everything
<1> QED BY <1>1, <1>2 DEF Lane!Nothing, Nothing

\* A move is a step of the lane that changes no watermark, or none.
LEMMA MovesInLane ==
  ASSUME Moves(agent)
  PROVE  [Lane!Next]_(Lane!lane)
<1>1. CASE Promised(agent') = Promised(agent)
  BY <1>1 DEF Moves, Lane!lane, Desired, Seen, Promised
<1>2. CASE Promised(agent') = Nothing
  <2>1. Lane!Settle
    BY <1>2 DEF Moves, Desired, Seen, Promised, Nothing, Lane!Settle, Lane!Nothing
  <2> QED BY <2>1 DEF Lane!Next
<1>3. CASE Promised(agent') = Everything(agent)
  <2>1. Lane!Deliver
    BY <1>3 DEF Moves, Desired, Seen, Promised, Everything, Lane!Deliver, Lane!Everything
  <2> QED BY <2>1 DEF Lane!Next
<1> QED BY <1>1, <1>2, <1>3 DEF Moves

\* A wake that raises a watermark, or is at it, and then a move of a coordinator that
\* is free.
LEMMA WantInLane ==
  ASSUME agent \in AgentState, NEW cmd \in Commands, NEW st, st = Wanted(cmd),
         \/ /\ Desired(agent') = Desired(st) /\ Seen(agent') = Seen(st)
            /\ Promised(agent') = Promised(st)
         \/ Moves(st) /\ agent.admission = None
  PROVE  [Lane!Next]_(Lane!lane)
<1> DEFINE ch == cmd.channel
<1>1. ch \in Channels /\ cmd.seq \in Nat /\ agent.scopes[ch].desired \in Nat
  BY CommandsAssumption DEF AgentState, Scope
<1>2. /\ st \in AgentState /\ st.admission = agent.admission
      /\ \A c \in Channels : st.scopes[c].seen = agent.scopes[c].seen
      /\ \A c \in Channels \ {ch} : st.scopes[c].desired = agent.scopes[c].desired
  BY WantedType
<1>3. st.scopes[ch].desired >= agent.scopes[ch].desired
  <2>1. CASE cmd.seq >= agent.scopes[ch].desired
    BY <1>1, <2>1, WantedType
  <2>2. CASE ~ (cmd.seq >= agent.scopes[ch].desired)
    BY <1>1, <2>2 DEF Wanted
  <2> QED BY <2>1, <2>2
<1>4. Seen(st) = Seen(agent) /\ Promised(st) = Promised(agent)
  BY <1>2 DEF Seen, Promised
<1>5. CASE st.scopes[ch].desired = agent.scopes[ch].desired
  <2>1. Desired(st) = Desired(agent) /\ Everything(st) = Everything(agent)
    BY <1>2, <1>5 DEF Desired, Everything
  <2>2. Moves(agent)
    BY <1>4, <2>1 DEF Moves
  <2> QED BY <2>2, MovesInLane
<1>6. CASE st.scopes[ch].desired > agent.scopes[ch].desired
  <2>1. Desired(agent') = Desired(st) /\ Seen(agent') = Seen(agent)
    BY <1>4 DEF Moves
  <2>2. /\ Desired(st) = [Desired(agent) EXCEPT ![ch] = Desired(st)[ch]]
        /\ Desired(st)[ch] > Desired(agent)[ch]
    BY <1>1, <1>2, <1>6 DEF Desired
  <2>3. \/ Promised(agent') = Promised(agent)
        \/ Promised(agent) = Nothing /\ Promised(agent') = Everything(st)
    <3>1. CASE Promised(agent') = Promised(st)
      BY <1>4, <3>1
    <3>2. CASE Moves(st) /\ agent.admission = None
      <4>1. Promised(agent) = Nothing
        BY <3>2 DEF Promised, Nothing
      <4> QED BY <1>4, <3>2, <4>1 DEF Moves
    <3> QED BY <3>1, <3>2
  <2>4. Everything(st) = Lane!Everything(Desired(agent'), Seen(agent))
    <3>1. \A c \in Channels : Desired(agent')[c] = st.scopes[c].desired
      BY <2>1 DEF Desired
    <3>2. \A c \in Channels : Seen(agent)[c] = st.scopes[c].seen
      BY <1>2 DEF Seen
    <3> QED BY <3>1, <3>2 DEF Everything, Lane!Everything
  <2>5. Desired(agent)' = Desired(agent') /\ Seen(agent)' = Seen(agent')
        /\ Promised(agent)' = Promised(agent')
    BY DEF Desired, Seen, Promised
  <2>6. \E c \in Channels : /\ Desired(agent')[c] > Desired(agent)[c]
                            /\ Desired(agent') = [Desired(agent) EXCEPT ![c] = Desired(agent')[c]]
    BY <1>1, <2>1, <2>2
  <2>7. Lane!Want
    BY <2>1, <2>3, <2>4, <2>6 DEF Lane!Want, Lane!Nothing, Desired, Seen, Promised, Nothing
  <2> QED BY <2>7 DEF Lane!Next
<1>7. st.scopes[ch].desired \in Nat
  BY <1>1, <1>2 DEF AgentState, Scope
<1> QED BY <1>1, <1>3, <1>5, <1>6, <1>7

\* What the model sees settles the delivery at most, or makes the next.
LEMMA SeeInLane ==
  ASSUME NEW st, Moves(st), Desired(st) = Desired(agent), Promised(st) = Promised(agent),
         \A c \in Channels : st.scopes[c].seen >= agent.scopes[c].seen
  PROVE  [Lane!Next]_(Lane!lane)
<1>1. /\ Desired(agent') = Desired(agent) /\ Seen(agent') = Seen(st)
      /\ Promised(agent') \in {Promised(agent), Nothing, Everything(st)}
  BY DEF Moves
<1>2. \A c \in Channels : Seen(agent')[c] >= Seen(agent)[c]
  BY <1>1 DEF Seen
<1>3. Everything(st) = Lane!Everything(Desired(agent), Seen(agent'))
  <2>1. \A c \in Channels : Desired(agent)[c] = st.scopes[c].desired
    BY DEF Desired
  <2>2. \A c \in Channels : Seen(agent')[c] = st.scopes[c].seen
    BY <1>1 DEF Seen
  <2> QED BY <2>1, <2>2 DEF Everything, Lane!Everything
<1>4. Seen(agent') = [c \in Channels |-> Seen(agent')[c]]
  BY DEF Seen
<1>5. Lane!See
  BY <1>1, <1>2, <1>3, <1>4 DEF Lane!See, Lane!Nothing, Desired, Seen, Promised, Nothing
<1> QED BY <1>5 DEF Lane!Next

\* A lifecycle command.
LEMMA ResetInLane ==
  ASSUME agent \in AgentState, NEW clearSeen \in BOOLEAN, Invalidate(clearSeen)
  PROVE  Lane!Reset
<1>1. /\ agent'.admission = None
      /\ agent'.scopes = [c \in Channels |->
            LET s == agent.scopes[c] IN
            IF clearSeen THEN NoScope ELSE [s EXCEPT !.desired = s.seen, !.admitted = s.seen]]
  BY DEF Invalidate
<1>2. ASSUME NEW c \in Channels
      PROVE  /\ agent'.scopes[c].desired = agent'.scopes[c].seen
             /\ agent'.scopes[c].seen = IF clearSeen THEN 0 ELSE agent.scopes[c].seen
  <2>1. agent.scopes[c] \in Scope
    BY DEF AgentState
  <2>2. CASE clearSeen
    <3>1. agent'.scopes[c] = NoScope
      BY <1>1, <2>2
    <3> QED BY <2>2, <3>1 DEF NoScope
  <2>3. CASE ~ clearSeen
    <3> DEFINE s == agent.scopes[c]
    <3>1. agent'.scopes[c] = [s EXCEPT !.desired = s.seen, !.admitted = s.seen]
      BY <1>1, <2>3
    <3> QED BY <2>1, <2>3, <3>1 DEF Scope
  <2> QED BY <2>2, <2>3
<1>3. Seen(agent') \in {Seen(agent), Nothing} /\ Desired(agent') = Seen(agent')
  BY <1>2 DEF Seen, Desired, Nothing
<1>4. Promised(agent') = Nothing
  BY <1>1 DEF Promised, Nothing
<1> QED BY <1>3, <1>4 DEF Lane!Reset, Lane!Nothing, Desired, Seen, Promised, Nothing
-----------------------------------------------------------------------------
(* The actions, in the lane.                                               *)

\* What the lane reads of a state.
LEMMA SameMoves ==
  ASSUME NEW st, NEW st2, Moves(st2), st2.admission = st.admission, st2.scopes = st.scopes
  PROVE  Moves(st)
BY DEF Moves, Desired, Seen, Promised, Everything

LEMMA RunInLane ==
  ASSUME IInv, NEW cmd \in Commands, Run(cmd)
  PROVE  [Lane!Next]_(Lane!lane)
<1>0. agent \in AgentState /\ Held(agent)
  BY DEF IInv, Core, Typed
<1>1. CASE RunCovered(cmd)
  <2>1. agent'.admission = agent.admission /\ agent'.scopes = agent.scopes
    BY <1>0, <1>1, Remembered DEF RunCovered
  <2>2. Moves(agent)
    BY <2>1 DEF Moves, Desired, Seen, Promised
  <2> QED BY <2>2, MovesInLane
<1>2. CASE RunCoalesced(cmd)
  <2> DEFINE st == Wanted(cmd)
  <2>1. st \in AgentState
    BY <1>0, WantedType
  <2>2. agent' = RememberReplacement(st, cmd)
    BY <1>2 DEF RunCoalesced
  <2> HIDE DEF st
  <2>3. agent'.admission = st.admission /\ agent'.scopes = st.scopes
    BY <2>1, <2>2, Remembered
  <2>4. /\ Desired(agent') = Desired(st) /\ Seen(agent') = Seen(st)
        /\ Promised(agent') = Promised(st)
    BY <2>3 DEF Desired, Seen, Promised
  <2>5. st = Wanted(cmd)
    BY DEF st
  <2> QED BY <1>0, <2>4, <2>5, WantInLane
<1>3. CASE RunAdmitted(cmd)
  <2> DEFINE st == Wanted(cmd)
  <2>1. /\ st \in AgentState /\ st.admission = agent.admission
        /\ \A c \in Channels : /\ st.scopes[c].admitted = agent.scopes[c].admitted
                               /\ st.scopes[c].seen = agent.scopes[c].seen
    BY <1>0, WantedType
  <2>2. Admit(st, cmd, dispatches, FALSE) /\ agent.admission = None
    BY <1>3 DEF RunAdmitted, Busy
  <2>3. st = Wanted(cmd)
    OBVIOUS
  <2> HIDE DEF st
  <2>4. Held(st)
    BY <1>0, <2>1 DEF Held
  <2>5. Moves(st)
    BY <2>1, <2>2, <2>4, AdmitMoves
  <2> QED BY <1>0, <2>2, <2>3, <2>5, WantInLane
<1> QED BY <1>1, <1>2, <1>3 DEF Run

LEMMA AckInLane ==
  ASSUME IInv, NEW launch \in Launches, SuppressedAck(launch)
  PROVE  [Lane!Next]_(Lane!lane)
<1>1. DeliveryAck(launch, "ok", dispatches)
  BY DEF SuppressedAck
<1> QED BY <1>1, AckMoves, MovesInLane

LEMMA RouterInLane ==
  ASSUME IInv, NEW frame \in dispatches, NEW status \in {"ok", "error"},
         RouterAck(frame, status)
  PROVE  [Lane!Next]_(Lane!lane)
<1> DEFINE frames == (dispatches \ {frame}) \cup {[frame EXCEPT !.acked = TRUE]}
<1>1. DeliveryAck(frame.launch, status, frames) /\ frame.launch \in Launches
  BY DEF RouterAck, IInv, Core, Typed, Dispatch
<1> HIDE DEF frames
<1> QED BY <1>1, AckMoves, MovesInLane

LEMMA ReturnsMoves ==
  ASSUME IInv, NEW frame \in dispatches, DispatchReturns(frame)
  PROVE  Moves(agent)
<1> DEFINE rest == dispatches \ {frame}
           st == [agent EXCEPT !.admitting = FALSE]
<1>1. agent \in AgentState /\ Held(agent)
  BY DEF IInv, Core, Typed
<1>2. st \in AgentState /\ st.admission = agent.admission /\ st.scopes = agent.scopes
  BY <1>1 DEF AgentState
<1>3. Held(st)
  BY <1>1, <1>2 DEF Held
<1>4. CASE frame.generation = agent.generation
  <2>1. RetryFailed(st, rest, TRUE) \/ Reconcile(st, rest, frame.outer)
    BY <1>4 DEF DispatchReturns
  <2> HIDE DEF st, rest
  <2>2. Moves(st)
    BY <1>2, <1>3, <2>1, RetryMoves, ReconcileMoves
  <2> QED BY <1>2, <2>2, SameMoves
<1>5. CASE frame.generation # agent.generation
  <2>1. Reconcile(agent, rest, FALSE) \/ agent' = agent
    BY <1>5 DEF DispatchReturns
  <2> HIDE DEF rest
  <2>2. CASE agent' = agent
    BY <2>2 DEF Moves
  <2> QED BY <1>1, <2>1, <2>2, ReconcileMoves
<1> QED BY <1>4, <1>5

LEMMA ThrowsMoves ==
  ASSUME IInv, NEW frame \in dispatches, DispatchThrows(frame)
  PROVE  Moves(agent)
<1> DEFINE rest == dispatches \ {frame}
           scopes == RollBack(agent.scopes, frame.coverage)
           st == [Fence([agent EXCEPT !.scopes = scopes], frame.launch)
                  EXCEPT !.admitting = FALSE]
<1>1. /\ agent \in AgentState /\ Held(agent)
      /\ frame.launch \in Launches /\ frame.coverage \in Coverage
  BY DEF IInv, Core, Typed, Dispatch
<1>2. CASE frame.generation = agent.generation
  <2>1. /\ Based(frame.coverage, agent.scopes)
        /\ agent.admission # None => agent.admission.coverage = frame.coverage
    BY <1>2 DEF IInv, Core, Matched
  <2>2. /\ scopes \in [Channels -> Scope]
        /\ \A c \in Channels : /\ scopes[c].seen = agent.scopes[c].seen
                               /\ scopes[c].desired = agent.scopes[c].desired
                               /\ scopes[c].admitted <= scopes[c].seen
    BY <1>1, <2>1, RollBackHeld
  <2>3. RetryFailed(st, rest, TRUE) \/ Reconcile(st, rest, FALSE)
    BY <1>2 DEF DispatchThrows
  <2> HIDE DEF scopes
  <2>4. st \in AgentState /\ st.admission = None /\ st.scopes = scopes
    BY <1>1, <2>2 DEF Fence, AgentState
  <2> HIDE DEF st, rest
  <2>5. Held(st)
    BY <2>2, <2>4 DEF Held, Scope
  <2>6. Moves(st)
    BY <2>3, <2>4, <2>5, RetryMoves, ReconcileMoves
  <2> QED BY <2>2, <2>4, <2>6, DroppedMoves
<1>3. CASE frame.generation # agent.generation
  BY <1>3 DEF DispatchThrows, Moves
<1> QED BY <1>2, <1>3

LEMMA IdleMoves ==
  ASSUME IInv, AgentIdle
  PROVE  Moves(agent)
<1> DEFINE st == IF agent.admission = None THEN agent
                 ELSE Fence(ReleaseUnobserved(agent), agent.admission.launch)
<1>1. agent \in AgentState /\ Held(agent)
  BY DEF IInv, Core, Typed
<1>2. RetryFailed(st, dispatches, FALSE) \/ Reconcile(st, dispatches, FALSE)
  BY DEF AgentIdle
<1>3. /\ st \in AgentState /\ st.admission = None /\ Held(st)
      /\ \A c \in Channels : /\ st.scopes[c].seen = agent.scopes[c].seen
                             /\ st.scopes[c].desired = agent.scopes[c].desired
  <2>1. CASE agent.admission = None
    BY <1>1, <2>1
  <2>2. CASE agent.admission # None
    <3> DEFINE scopes == ReleaseUnobserved(agent).scopes
    <3>1. agent.admission.launch \in Launches
      BY <1>1, <2>2 DEF AgentState, Admission
    <3>2. /\ scopes \in [Channels -> Scope]
          /\ \A c \in Channels : /\ scopes[c].seen = agent.scopes[c].seen
                                 /\ scopes[c].desired = agent.scopes[c].desired
                                 /\ scopes[c].admitted <= scopes[c].seen
      BY <1>1, <2>2, ReleaseHeld DEF IInv, Core, Matched
    <3>3. ReleaseUnobserved(agent) = [agent EXCEPT !.scopes = scopes]
      BY <1>1 DEF ReleaseUnobserved, AgentState
    <3> HIDE DEF scopes
    <3>4. st = Fence([agent EXCEPT !.scopes = scopes], agent.admission.launch)
      BY <2>2, <3>3
    <3>5. st \in AgentState /\ st.admission = None /\ st.scopes = scopes
      BY <1>1, <3>1, <3>2, <3>4 DEF Fence, AgentState
    <3> HIDE DEF st
    <3> QED BY <3>2, <3>5 DEF Held, Scope
  <2> QED BY <2>1, <2>2
<1> HIDE DEF st
<1>4. Moves(st)
  BY <1>2, <1>3, RetryMoves, ReconcileMoves
<1> QED BY <1>3, <1>4, DroppedMoves

LEMMA PullInLane ==
  ASSUME IInv, NEW generation \in pulls, NEW cursors \in Cursors,
         PullReturns(generation, cursors)
  PROVE  [Lane!Next]_(Lane!lane)
<1>1. agent \in AgentState /\ Held(agent)
  BY DEF IInv, Core, Typed
<1>2. CASE generation = agent.generation
  <2> DEFINE st == Observe(cursors)
  <2>1. FinishObserved(st, dispatches)
    BY <1>2 DEF PullReturns
  <2>2. /\ st \in AgentState
        /\ st.admission = None <=> agent.admission = None
        /\ agent.admission # None => st.admission.coverage = agent.admission.coverage
        /\ \A c \in Channels : /\ st.scopes[c].seen >= agent.scopes[c].seen
                               /\ st.scopes[c].admitted = agent.scopes[c].admitted
                               /\ st.scopes[c].desired = agent.scopes[c].desired
    BY <1>1, ObserveType
  <2> HIDE DEF st
  <2>3. \A c \in Channels : agent.scopes[c] \in Scope /\ st.scopes[c] \in Scope
    BY <1>1, <2>2 DEF AgentState
  <2>4. Held(st)
    BY <1>1, <2>2, <2>3 DEF Held, Scope
  <2>5. st.admission # None => Based(st.admission.coverage, st.scopes)
    <3>1. SUFFICES ASSUME agent.admission # None
                   PROVE  Based(agent.admission.coverage, st.scopes)
      BY <2>2
    <3>2. agent.admission.coverage \in Coverage /\ Based(agent.admission.coverage, agent.scopes)
      BY <1>1, <3>1 DEF AgentState, Admission, IInv, Core, Matched
    <3> QED BY <2>2, <2>3, <3>2 DEF Based, Coverage, Scope
  <2>6. Moves(st)
    BY <2>1, <2>2, <2>4, <2>5, FinishMoves
  <2>7. Desired(st) = Desired(agent) /\ Promised(st) = Promised(agent)
    BY <2>2 DEF Desired, Promised
  <2> QED BY <2>2, <2>6, <2>7, SeeInLane
<1>3. CASE generation # agent.generation
  <2>1. Moves(agent)
    BY <1>3 DEF PullReturns, Moves
  <2> QED BY <2>1, MovesInLane
<1> QED BY <1>2, <1>3

LEMMA NextInLane == IInv /\ [Next]_vars => [Lane!Next]_(Lane!lane)
<1> SUFFICES ASSUME IInv, [Next]_vars
             PROVE  [Lane!Next]_(Lane!lane)
  OBVIOUS
<1>0. agent \in AgentState /\ Held(agent)
  BY DEF IInv, Core, Typed
<1>1. ASSUME NEW cmd \in Commands, Run(cmd)
      PROVE  [Lane!Next]_(Lane!lane)
  BY <1>1, RunInLane
<1>2. ASSUME NEW launch \in Launches, SuppressedAck(launch)
      PROVE  [Lane!Next]_(Lane!lane)
  BY <1>2, AckInLane
<1>3. ASSUME NEW clearSeen \in BOOLEAN, Invalidate(clearSeen)
      PROVE  [Lane!Next]_(Lane!lane)
  BY <1>0, <1>3, ResetInLane DEF Lane!Next
<1>4. ASSUME NEW frame \in dispatches, NEW status \in {"ok", "error"}, RouterAck(frame, status)
      PROVE  [Lane!Next]_(Lane!lane)
  BY <1>4, RouterInLane
<1>5. ASSUME NEW frame \in dispatches, DispatchReturns(frame)
      PROVE  [Lane!Next]_(Lane!lane)
  BY <1>5, ReturnsMoves, MovesInLane
<1>6. ASSUME NEW frame \in dispatches, DispatchThrows(frame)
      PROVE  [Lane!Next]_(Lane!lane)
  BY <1>6, ThrowsMoves, MovesInLane
<1>7. CASE AgentWorks
  BY <1>0, <1>7, ReconcileMoves, MovesInLane DEF AgentWorks
<1>8. CASE AgentIdle
  BY <1>8, IdleMoves, MovesInLane
<1>9. CASE PullStarts
  <2>1. Moves(agent)
    BY <1>9 DEF PullStarts, Moves
  <2> QED BY <2>1, MovesInLane
<1>10. ASSUME NEW generation \in pulls, NEW cursors \in Cursors, PullReturns(generation, cursors)
       PROVE  [Lane!Next]_(Lane!lane)
  BY <1>10, PullInLane
<1>11. CASE UNCHANGED vars
  <2>1. Moves(agent)
    BY <1>11 DEF vars, Moves
  <2> QED BY <2>1, MovesInLane
<1> QED
  BY <1>1, <1>2, <1>3, <1>4, <1>5, <1>6, <1>7, <1>8, <1>9, <1>10, <1>11 DEF Next

\* The coordinator implements the lane it documents (wakeCoordinator.ts:41-45): whatever
\* launches, acks, retries and lifecycles interleave, a delivery always promises every
\* channel that is behind, the outstanding one is never narrowed, and only a lifecycle
\* command takes a watermark back.
THEOREM LaneIsImplemented == Spec => ImplementsLane
<1>1. Init => Lane!Init
  BY DEF Init, NoScope, Lane!Init, Lane!Nothing
<1>2. IInv /\ [Next]_vars => [Lane!Next]_(Lane!lane)
  BY NextInLane
<1> QED BY <1>1, <1>2, Invariance, PTL DEF Spec, ImplementsLane, Lane!Spec
-----------------------------------------------------------------------------
(* Single steps.                                                           *)

\* No step but an inbox ack of the current lifecycle raises what was seen.
LEMMA RunSeesNothing ==
  ASSUME IInv, NEW cmd \in Commands, Run(cmd)
  PROVE  \A c \in Channels : agent'.scopes[c].seen = agent.scopes[c].seen
<1> DEFINE st == Wanted(cmd)
<1>0. agent \in AgentState /\ Held(agent)
  BY DEF IInv, Core, Typed
<1>1. /\ st \in AgentState /\ st.admission = agent.admission
      /\ \A c \in Channels : /\ st.scopes[c].admitted = agent.scopes[c].admitted
                             /\ st.scopes[c].seen = agent.scopes[c].seen
  BY <1>0, WantedType
<1>2. CASE RunCovered(cmd)
  BY <1>0, <1>2, Remembered DEF RunCovered
<1>3. CASE RunCoalesced(cmd)
  <2>1. agent' = RememberReplacement(st, cmd)
    BY <1>3 DEF RunCoalesced
  <2> HIDE DEF st
  <2> QED BY <1>1, <2>1, Remembered
<1>4. CASE RunAdmitted(cmd)
  <2>1. Admit(st, cmd, dispatches, FALSE)
    BY <1>4 DEF RunAdmitted
  <2> HIDE DEF st
  <2>2. Held(st)
    BY <1>0, <1>1 DEF Held
  <2>3. Seen(agent') = Seen(st)
    BY <1>1, <2>1, <2>2, AdmitMoves DEF Moves
  <2>4. \A c \in Channels : Seen(agent')[c] = agent'.scopes[c].seen /\ Seen(st)[c] = st.scopes[c].seen
    BY DEF Seen
  <2> QED BY <1>1, <2>3, <2>4
<1> QED BY <1>2, <1>3, <1>4 DEF Run

LEMMA SeenInPull ==
  IInv /\ [Next]_vars =>
    \A c \in Channels : agent'.scopes[c].seen > agent.scopes[c].seen => agent.generation \in pulls
<1> SUFFICES ASSUME IInv, [Next]_vars, NEW c \in Channels,
                    agent'.scopes[c].seen > agent.scopes[c].seen
             PROVE  agent.generation \in pulls
  OBVIOUS
<1>0. /\ agent \in AgentState /\ Held(agent)
      /\ agent.scopes[c].seen \in Nat
  BY DEF IInv, Core, Typed, AgentState, Scope
<1>a. ASSUME Moves(agent)
      PROVE  FALSE
  <2>1. Seen(agent')[c] = agent'.scopes[c].seen /\ Seen(agent)[c] = agent.scopes[c].seen
    BY DEF Seen
  <2> QED BY <1>0, <1>a, <2>1 DEF Moves
<1>1. ASSUME NEW cmd \in Commands, Run(cmd)
      PROVE  FALSE
  BY <1>0, <1>1, RunSeesNothing
<1>2. ASSUME NEW launch \in Launches, SuppressedAck(launch)
      PROVE  FALSE
  BY <1>2, <1>a, AckMoves DEF SuppressedAck
<1>3. ASSUME NEW clearSeen \in BOOLEAN, Invalidate(clearSeen)
      PROVE  FALSE
  <2>1. Lane!Reset
    BY <1>0, <1>3, ResetInLane
  <2>2. agent'.scopes[c].seen \in {agent.scopes[c].seen, 0}
    BY <2>1 DEF Lane!Reset, Lane!Nothing
  <2> QED BY <1>0, <2>2
<1>4. ASSUME NEW frame \in dispatches, NEW status \in {"ok", "error"}, RouterAck(frame, status)
      PROVE  FALSE
  <2> DEFINE frames == (dispatches \ {frame}) \cup {[frame EXCEPT !.acked = TRUE]}
  <2>1. DeliveryAck(frame.launch, status, frames) /\ frame.launch \in Launches
    BY <1>4 DEF RouterAck, IInv, Core, Typed, Dispatch
  <2> HIDE DEF frames
  <2> QED BY <1>a, <2>1, AckMoves
<1>5. ASSUME NEW frame \in dispatches, DispatchReturns(frame)
      PROVE  FALSE
  BY <1>5, <1>a, ReturnsMoves
<1>6. ASSUME NEW frame \in dispatches, DispatchThrows(frame)
      PROVE  FALSE
  BY <1>6, <1>a, ThrowsMoves
<1>7. CASE AgentWorks
  BY <1>0, <1>7, <1>a, ReconcileMoves DEF AgentWorks
<1>8. CASE AgentIdle
  BY <1>8, <1>a, IdleMoves
<1>9. CASE PullStarts
  BY <1>0, <1>9 DEF PullStarts
<1>10. ASSUME NEW generation \in pulls, NEW cursors \in Cursors, PullReturns(generation, cursors)
       PROVE  agent.generation \in pulls
  <2>1. CASE generation = agent.generation
    BY <2>1
  <2>2. CASE generation # agent.generation
    BY <1>0, <1>10, <2>2 DEF PullReturns
  <2> QED BY <2>1, <2>2
<1>11. CASE UNCHANGED vars
  BY <1>0, <1>11 DEF vars
<1> QED
  BY <1>1, <1>2, <1>3, <1>4, <1>5, <1>6, <1>7, <1>8, <1>9, <1>10, <1>11 DEF Next

\* The model's inbox ack counts only in the lifecycle that began it
\* (wakeCoordinator.ts:201-222): whatever a reset overtakes, only a pull that captured the
\* present generation can mark messages seen.
THEOREM StaleAcksNeverCount == Spec => StaleAckNeverCounts
<1>1. IInv /\ [Next]_vars =>
        \A c \in Channels : agent'.scopes[c].seen > agent.scopes[c].seen
                              => agent.generation \in pulls
  BY SeenInPull
<1> QED BY <1>1, Invariance, PTL DEF Spec, StaleAckNeverCounts

LEMMA CarriedByRun ==
  ASSUME IInv, NEW cmd \in Commands, Run(cmd), cmd.launch # agent.failed,
         cmd.seq >= agent.scopes[cmd.channel].desired
  PROVE  Carried(cmd)'
<1> DEFINE st == Wanted(cmd)
           ch == cmd.channel
           s == [agent.scopes[ch] EXCEPT !.desired = cmd.seq, !.command = cmd]
<1>0. /\ agent \in AgentState /\ ch \in Channels /\ cmd.seq \in Nat /\ cmd # None
      /\ agent.scopes[ch] \in Scope
  BY CommandsAssumption, NoneAssumption DEF IInv, Core, Typed, AgentState
<1>1. st = [agent EXCEPT !.scopes = [agent.scopes EXCEPT ![ch] = s]]
  BY <1>0 DEF Wanted, AgentState, Scope
<1>2. /\ st.scopes[ch].command = cmd /\ st.scopes[ch].desired = cmd.seq
      /\ st.scopes[ch].seen = agent.scopes[ch].seen
      /\ st.scopes[ch].admitted = agent.scopes[ch].admitted
      /\ st.failed = agent.failed /\ st.admission = agent.admission
      /\ st.admitting = agent.admitting /\ st \in AgentState
  <2>1. /\ s.command = cmd /\ s.desired = cmd.seq /\ s.seen = agent.scopes[ch].seen
        /\ s.admitted = agent.scopes[ch].admitted
    BY <1>0 DEF Scope
  <2> HIDE DEF s
  <2>2. st.scopes = [agent.scopes EXCEPT ![ch] = s]
        /\ st.failed = agent.failed /\ st.admission = agent.admission
        /\ st.admitting = agent.admitting
    BY <1>0, <1>1 DEF AgentState
  <2>3. st.scopes[ch] = s
    BY <1>0, <2>2 DEF AgentState
  <2>4. st \in AgentState
    BY <1>0, WantedType
  <2> QED BY <2>1, <2>2, <2>3, <2>4
<1>3. CASE RunCovered(cmd)
  <2>1. agent'.scopes = agent.scopes
    BY <1>0, <1>3, Remembered DEF RunCovered
  <2>2. cmd.seq <= Covered(agent'.scopes[ch])
    BY <1>3, <2>1 DEF RunCovered
  <2> QED BY <2>2 DEF Carried
<1>4. CASE RunCoalesced(cmd)
  <2>1. agent' = RememberReplacement(st, cmd)
    BY <1>4 DEF RunCoalesced
  <2> HIDE DEF st
  <2>2. agent'.scopes = st.scopes /\ agent'.failed = st.failed
    BY <1>2, <2>1, Remembered
  <2>3. agent'.scopes[ch].command = cmd /\ agent'.failed = agent.failed
    BY <1>2, <2>2
  <2> QED BY <1>0, <2>3 DEF Carried
<1>5. CASE RunAdmitted(cmd)
  <2>1. Admit(st, cmd, dispatches, FALSE) /\ ~ Busy(agent) /\ cmd.seq > Covered(agent.scopes[ch])
    BY <1>5 DEF RunAdmitted
  <2> HIDE DEF st
  <2>2. IsPending(st.scopes[ch])
    BY <1>2, <2>1 DEF IsPending, Covered
  <2>3. ~ Busy(st) /\ Pending(st.scopes) # {}
    BY <1>0, <1>2, <2>1, <2>2 DEF Busy, Pending
  <2>4. agent'.scopes = AdmittedScopes(st, cmd)
    <3> DEFINE adm == [launch |-> cmd.launch, coverage |-> NewCoverage(st),
                       acked |-> FALSE, observed |-> FALSE]
    <3>1. agent' = [st EXCEPT !.admitting = TRUE, !.failed = None, !.coalesced = None,
                              !.scopes = AdmittedScopes(st, cmd), !.admission = adm]
      BY <2>1, <2>3 DEF Admit
    <3> HIDE DEF adm
    <3> QED BY <1>2, <3>1 DEF AgentState
  <2>5. AdmittedScopes(st, cmd)[ch].admitted = cmd.seq
    <3>1. AdmittedScopes(st, cmd)[ch]
            = [st.scopes[ch] EXCEPT !.admitted = st.scopes[ch].desired, !.command = cmd]
      BY <1>0, <2>2 DEF AdmittedScopes
    <3> QED BY <1>0, <1>2, <3>1 DEF AgentState, Scope
  <2>6. agent'.scopes[ch].seen \in Nat /\ agent'.scopes[ch].admitted = cmd.seq
    <3>1. agent' \in AgentState
      BY <1>5, RunAdmittedInv DEF Core, Typed
    <3> QED BY <1>0, <2>4, <2>5, <3>1 DEF AgentState, Scope
  <2>7. cmd.seq <= Covered(agent'.scopes[ch])
    BY <1>0, <2>6, LargerNat DEF Covered
  <2> QED BY <2>7 DEF Carried
<1> QED BY <1>3, <1>4, <1>5 DEF Run

\* A wake at its channel's watermark, not of the fenced launch, is delivered, covered or
\* remembered behind the fence (wakeCoordinator.ts:52-94, 127-146): it needs no second
\* frame from the server.
THEOREM NewWakesAreCarried == Spec => NewWakeIsCarried
<1> DEFINE Step == \A cmd \in Commands :
                     /\ Run(cmd)
                     /\ cmd.launch # agent.failed
                     /\ cmd.seq >= agent.scopes[cmd.channel].desired
                     => Carried(cmd)'
<1>1. IInv /\ [Next]_vars => Step
  BY CarriedByRun
<1> HIDE DEF Step
<1>2. Spec => [][Step]_vars
  BY <1>1, Invariance, PTL DEF Spec
<1> QED BY <1>2 DEF NewWakeIsCarried, Step
-----------------------------------------------------------------------------
(* What waits behind a launch is never of that launch.                     *)

\* An outstanding admission has cleared the fence, what coalesced behind it and the
\* retry are of other launches, and so is what waits while the dispatch of a launch that
\* failed has not returned.
Fencing(st, frames) ==
    /\ st.admission # None => st.failed = None
    /\ st.admission # None /\ st.coalesced # None => st.coalesced.launch # st.admission.launch
    /\ st.retry # None => st.retry.launch # st.failed
    /\ \A f \in frames : f.generation = st.generation =>
        /\ st.admitting
        /\ st.failed \in {None, f.launch}
        /\ st.admission # None => st.admission.launch = f.launch
        /\ st.coalesced # None => st.coalesced.launch # f.launch

\* From st, nothing is admitted under the launch that st fences.
NotAgain(st) ==
    st.admission = None /\ agent'.admission # None => agent'.admission.launch # st.failed

Fences(st) == Fencing(agent', dispatches') /\ NotAgain(st)

\* The fence does not read the scopes.
LEMMA FencingFrame ==
  ASSUME NEW st, NEW frames, Fencing(st, frames), NEW st2, NEW frames2 \in SUBSET frames,
         st2.generation = st.generation, st2.admitting = st.admitting,
         st2.admission = st.admission, st2.failed = st.failed,
         st2.coalesced = st.coalesced, st2.retry = st.retry
  PROVE  Fencing(st2, frames2)
BY DEF Fencing

LEMMA AdmitFences ==
  ASSUME NEW st \in AgentState, NEW frames, NEW cmd \in Commands, NEW outer,
         Fencing(st, frames), Admit(st, cmd, frames, outer)
  PROVE  /\ Fencing(agent', dispatches')
         /\ st.admission = None /\ agent'.admission # None
              => agent'.admission.launch = cmd.launch
<1>1. CASE Busy(st)
  BY <1>1 DEF Admit
<1>2. CASE ~ Busy(st) /\ Pending(st.scopes) = {}
  <2>1. agent' = [st EXCEPT !.scopes = NotedScopes(st, cmd)] /\ dispatches' = frames
    BY <1>2 DEF Admit
  <2>2. /\ agent'.generation = st.generation /\ agent'.admitting = st.admitting
        /\ agent'.admission = st.admission /\ agent'.failed = st.failed
        /\ agent'.coalesced = st.coalesced /\ agent'.retry = st.retry
    BY <2>1 DEF AgentState
  <2>3. Fencing(agent', dispatches')
    BY <2>1, <2>2, FencingFrame
  <2> QED BY <2>2, <2>3
<1>3. CASE ~ Busy(st) /\ Pending(st.scopes) # {}
  <2> DEFINE frame == [generation |-> st.generation, launch |-> cmd.launch,
                       coverage |-> NewCoverage(st), acked |-> FALSE, outer |-> outer]
             adm == [launch |-> cmd.launch, coverage |-> NewCoverage(st),
                     acked |-> FALSE, observed |-> FALSE]
  <2>1. /\ agent' = [st EXCEPT !.admitting = TRUE, !.failed = None, !.coalesced = None,
                               !.scopes = AdmittedScopes(st, cmd), !.admission = adm]
        /\ dispatches' = frames \cup {frame}
    BY <1>3 DEF Admit
  <2>2. adm.launch = cmd.launch /\ frame.launch = cmd.launch
    OBVIOUS
  <2> HIDE DEF adm, frame
  <2>3. /\ agent'.generation = st.generation /\ agent'.admitting = TRUE
        /\ agent'.admission = adm /\ agent'.failed = None
        /\ agent'.coalesced = None /\ agent'.retry = st.retry
    BY <2>1 DEF AgentState
  <2>4. st.retry # None => st.retry.launch # None
    BY CommandsAssumption, NoneAssumption DEF AgentState
  <2>5. \A f \in frames : f.generation # st.generation
    BY <1>3 DEF Busy, Fencing
  <2>6. Fencing(agent', dispatches')
    BY <2>1, <2>2, <2>3, <2>4, <2>5 DEF Fencing
  <2> QED BY <2>2, <2>3, <2>6
<1> QED BY <1>1, <1>2, <1>3

LEMMA ReconcileFences ==
  ASSUME NEW st \in AgentState, NEW frames, NEW outer,
         Fencing(st, frames), Reconcile(st, frames, outer)
  PROVE  Fences(st)
<1>1. CASE Busy(st) \/ Unfenced(st) = {}
  BY <1>1 DEF Reconcile, Fences, NotAgain
<1>2. CASE ~ (Busy(st) \/ Unfenced(st) = {})
  <2>1. PICK cmd \in NextPending(st) : Admit(st, cmd, frames, outer)
    BY <1>2 DEF Reconcile
  <2>2. cmd.launch # st.failed
    BY <2>1 DEF NextPending, Unfenced
  <2> QED BY <2>1, <2>2, NextPendingType, AdmitFences DEF Fences, NotAgain
<1> QED BY <1>1, <1>2

LEMMA RetryFences ==
  ASSUME NEW st \in AgentState, NEW frames, NEW outer,
         Fencing(st, frames), RetryFailed(st, frames, outer)
  PROVE  Fences(st)
<1>1. CASE Busy(st) \/ st.retry = None
  BY <1>1 DEF RetryFailed, Fences, NotAgain
<1>2. CASE ~ (Busy(st) \/ st.retry = None)
  <2> DEFINE st2 == [st EXCEPT !.retry = None, !.failed = None]
  <2>1. Admit(st2, st.retry, frames, outer) /\ st.retry \in Commands
    BY <1>2 DEF RetryFailed, AgentState
  <2>2. /\ st2 \in AgentState /\ st2.generation = st.generation
        /\ st2.admitting = st.admitting /\ st2.admission = st.admission
        /\ st2.coalesced = st.coalesced /\ st2.failed = None /\ st2.retry = None
    BY DEF AgentState
  <2> HIDE DEF st2
  <2>3. Fencing(st2, frames)
    BY <2>2 DEF Fencing
  <2>4. st.retry.launch # None /\ st.retry.launch # st.failed
    BY <1>2, <2>1, CommandsAssumption, NoneAssumption DEF Fencing
  <2>5. /\ Fencing(agent', dispatches')
        /\ st2.admission = None /\ agent'.admission # None
              => agent'.admission.launch = st.retry.launch
    BY <2>1, <2>2, <2>3, AdmitFences
  <2> QED BY <2>2, <2>4, <2>5 DEF Fences, NotAgain
<1> QED BY <1>1, <1>2

LEMMA FinishFences ==
  ASSUME NEW st \in AgentState, NEW frames, Held(st),
         st.admission # None => Based(st.admission.coverage, st.scopes),
         Fencing(st, frames), FinishObserved(st, frames)
  PROVE  Fences(st)
<1>1. CASE st.admission # None /\ st.admission.acked /\ st.admission.observed
  <2> DEFINE scopes == ReleaseUnobserved(st).scopes
             st2 == [ReleaseUnobserved(st) EXCEPT !.admission = None]
  <2>1. scopes \in [Channels -> Scope]
    BY <1>1, ReleaseHeld
  <2>2. st2 = [st EXCEPT !.scopes = scopes, !.admission = None]
    BY DEF ReleaseUnobserved, AgentState
  <2>3. Reconcile(st2, frames, FALSE)
    BY <1>1 DEF FinishObserved
  <2> HIDE DEF scopes
  <2>4. /\ st2 \in AgentState /\ st2.generation = st.generation
        /\ st2.admitting = st.admitting /\ st2.admission = None
        /\ st2.coalesced = st.coalesced /\ st2.failed = st.failed /\ st2.retry = st.retry
    BY <2>1, <2>2 DEF AgentState
  <2> HIDE DEF st2
  <2>5. Fencing(st2, frames)
    BY <2>4 DEF Fencing
  <2> QED BY <1>1, <2>3, <2>4, <2>5, ReconcileFences DEF Fences, NotAgain
<1>2. CASE ~ (st.admission # None /\ st.admission.acked /\ st.admission.observed)
  BY <1>2 DEF FinishObserved, Fences, NotAgain
<1> QED BY <1>1, <1>2

\* A launch that fails is fenced, and what coalesced behind it is the retry.
LEMMA FenceFencing ==
  ASSUME NEW st \in AgentState, NEW frames, Fencing(st, frames), NEW launch \in Launches,
         NEW scopes \in [Channels -> Scope],
         st.coalesced # None => st.coalesced.launch # launch,
         \A f \in frames : f.generation = st.generation => f.launch = launch
  PROVE  LET st2 == Fence([st EXCEPT !.scopes = scopes], launch) IN
         /\ st2 \in AgentState /\ Fencing(st2, frames)
         /\ st2.failed = launch /\ st2.admission = None /\ st2.retry = st.coalesced
         /\ st2.coalesced = None /\ st2.generation = st.generation
<1> DEFINE st2 == Fence([st EXCEPT !.scopes = scopes], launch)
<1>1. /\ st2 \in AgentState /\ st2.failed = launch /\ st2.admission = None
      /\ st2.retry = st.coalesced /\ st2.coalesced = None
      /\ st2.generation = st.generation /\ st2.admitting = st.admitting
  BY DEF Fence, AgentState
<1> HIDE DEF st2
<1>2. Fencing(st2, frames)
  BY <1>1 DEF Fencing
<1> QED BY <1>1, <1>2 DEF st2

LEMMA AckFences ==
  ASSUME IInv, NEW frames, NEW launch \in Launches, NEW status \in {"ok", "error"},
         Fencing(agent, frames), DeliveryAck(launch, status, frames)
  PROVE  Fences(agent)
<1>0. /\ agent \in AgentState /\ Held(agent)
      /\ agent.admission # None => Based(agent.admission.coverage, agent.scopes)
  BY DEF IInv, Core, Typed, Matched
<1>1. CASE agent.admission = None \/ agent.admission.launch # launch
  BY <1>1 DEF DeliveryAck, Fences, NotAgain
<1>2. CASE agent.admission # None /\ agent.admission.launch = launch /\ status = "ok"
  <2> DEFINE st == [agent EXCEPT !.admission.acked = TRUE]
  <2>1. agent.admission \in Admission
    BY <1>0, <1>2 DEF AgentState
  <2>2. /\ st.admission \in Admission /\ st.admission # None
        /\ st.admission.coverage = agent.admission.coverage
        /\ st.admission.launch = agent.admission.launch
    BY <1>0, <2>1, NoneAssumption DEF AgentState, Admission
  <2>3. /\ st \in AgentState /\ st.scopes = agent.scopes /\ st.failed = agent.failed
        /\ st.generation = agent.generation /\ st.admitting = agent.admitting
        /\ st.coalesced = agent.coalesced /\ st.retry = agent.retry
    BY <1>0, <2>2 DEF AgentState
  <2>4. FinishObserved(st, frames)
    BY <1>2 DEF DeliveryAck
  <2> HIDE DEF st
  <2>5. Held(st)
    BY <1>0, <1>2, <2>2, <2>3 DEF Held
  <2>6. Fencing(st, frames)
    BY <1>2, <2>2, <2>3 DEF Fencing
  <2>7. Fences(st)
    BY <1>0, <1>2, <2>2, <2>3, <2>4, <2>5, <2>6, FinishFences
  <2> QED BY <1>2, <2>7 DEF Fences, NotAgain
<1>3. CASE agent.admission # None /\ agent.admission.launch = launch /\ status = "error"
  <2> DEFINE scopes == RollBack(agent.scopes, agent.admission.coverage)
             st == Fence([agent EXCEPT !.scopes = scopes], launch)
  <2>1. agent.admission.coverage \in Coverage
    BY <1>0, <1>3 DEF AgentState, Admission
  <2>2. scopes \in [Channels -> Scope]
    BY <1>0, <1>3, <2>1, RollBackHeld
  <2>3. RetryFailed(st, frames, FALSE)
    BY <1>3 DEF DeliveryAck
  <2> HIDE DEF scopes
  <2>4. /\ agent.coalesced # None => agent.coalesced.launch # launch
        /\ \A f \in frames : f.generation = agent.generation => f.launch = launch
    BY <1>3 DEF Fencing
  <2>5. st \in AgentState /\ Fencing(st, frames)
    BY <1>0, <2>2, <2>4, FenceFencing
  <2> HIDE DEF st
  <2>6. Fences(st)
    BY <2>3, <2>5, RetryFences
  <2> QED BY <1>3, <2>6 DEF Fences, NotAgain
<1> QED BY <1>1, <1>2, <1>3

LEMMA RunFencing ==
  ASSUME IInv, NEW cmd \in Commands, Fencing(agent, dispatches), Run(cmd)
  PROVE  Fencing(agent', dispatches')
<1>0. agent \in AgentState
  BY DEF IInv, Core, Typed
<1>a. ASSUME NEW st \in AgentState, Fencing(st, dispatches)
      PROVE  Fencing(RememberReplacement(st, cmd), dispatches)
  <2> DEFINE holder == IF st.admission # None THEN st.admission.launch ELSE st.failed
             st2 == [st EXCEPT !.coalesced = cmd,
                               !.retry = IF st.failed # None THEN cmd ELSE @]
  <2>1. CASE \/ holder \in {None, cmd.launch}
             \/ cmd.seq < st.scopes[cmd.channel].desired
    BY <1>a, <2>1 DEF RememberReplacement
  <2>2. CASE ~ (\/ holder \in {None, cmd.launch}
                \/ cmd.seq < st.scopes[cmd.channel].desired)
    <3>1. RememberReplacement(st, cmd) = st2
      BY <2>2 DEF RememberReplacement
    <3>2. /\ st2.generation = st.generation /\ st2.admitting = st.admitting
          /\ st2.admission = st.admission /\ st2.failed = st.failed
          /\ st2.coalesced = cmd
          /\ st2.retry = IF st.failed # None THEN cmd ELSE st.retry
      BY DEF AgentState
    <3> HIDE DEF st2
    <3>3. holder # cmd.launch /\ holder # None
      BY <2>2
    <3>4. /\ st.admission # None => cmd.launch # st.admission.launch
          /\ st.failed # None => cmd.launch # st.failed
      BY <1>a, <3>3 DEF Fencing
    <3>5. ASSUME NEW f \in dispatches, f.generation = st.generation
          PROVE  cmd.launch # f.launch
      BY <1>a, <3>3, <3>5 DEF Fencing
    <3> HIDE DEF holder
    <3>6. Fencing(st2, dispatches)
      BY <1>a, <3>2, <3>4, <3>5 DEF Fencing
    <3> QED BY <3>1, <3>6
  <2> QED BY <2>1, <2>2
<1>b. Wanted(cmd) \in AgentState /\ Fencing(Wanted(cmd), dispatches)
  <2> DEFINE st == Wanted(cmd)
  <2>1. /\ st \in AgentState /\ st.generation = agent.generation
        /\ st.admitting = agent.admitting /\ st.admission = agent.admission
        /\ st.coalesced = agent.coalesced
    BY <1>0, WantedType
  <2>2. st.failed = agent.failed /\ st.retry = agent.retry
    BY <1>0 DEF Wanted, AgentState
  <2> HIDE DEF st
  <2>3. Fencing(st, dispatches)
    BY <2>1, <2>2, FencingFrame
  <2> QED BY <2>1, <2>3 DEF st
<1>1. CASE RunCovered(cmd)
  BY <1>0, <1>1, <1>a DEF RunCovered
<1>2. CASE RunCoalesced(cmd)
  BY <1>2, <1>a, <1>b DEF RunCoalesced
<1>3. CASE RunAdmitted(cmd)
  BY <1>3, <1>b, AdmitFences DEF RunAdmitted
<1> QED BY <1>1, <1>2, <1>3 DEF Run

LEMMA RouterFences ==
  ASSUME IInv, Fencing(agent, dispatches), NEW frame \in dispatches,
         NEW status \in {"ok", "error"}, RouterAck(frame, status)
  PROVE  Fences(agent)
<1> DEFINE acked == [frame EXCEPT !.acked = TRUE]
           frames == (dispatches \ {frame}) \cup {acked}
<1>1. DeliveryAck(frame.launch, status, frames) /\ frame \in Dispatch
  BY DEF RouterAck, IInv, Core, Typed
<1>2. acked.launch = frame.launch /\ acked.generation = frame.generation
      /\ frame.launch \in Launches
  BY <1>1 DEF Dispatch
<1> HIDE DEF acked
<1>3. Fencing(agent, frames)
  BY <1>2 DEF Fencing
<1> HIDE DEF frames
<1> QED BY <1>1, <1>2, <1>3, AckFences

LEMMA ReturnsFences ==
  ASSUME IInv, Fencing(agent, dispatches), NEW frame \in dispatches, DispatchReturns(frame)
  PROVE  Fences(agent)
<1> DEFINE rest == dispatches \ {frame}
           st == [agent EXCEPT !.admitting = FALSE]
<1>1. agent \in AgentState
  BY DEF IInv, Core, Typed
<1>2. /\ st \in AgentState /\ st.generation = agent.generation /\ st.admitting = FALSE
      /\ st.admission = agent.admission /\ st.failed = agent.failed
      /\ st.coalesced = agent.coalesced /\ st.retry = agent.retry
  BY <1>1 DEF AgentState
<1>3. CASE frame.generation = agent.generation
  <2>1. RetryFailed(st, rest, TRUE) \/ Reconcile(st, rest, frame.outer)
    BY <1>3 DEF DispatchReturns
  <2> HIDE DEF st
  <2>2. \A f \in rest : f.generation # agent.generation
    BY <1>3 DEF IInv, Core, Locked
  <2> HIDE DEF rest
  <2>3. Fencing(st, rest)
    BY <1>2, <2>2 DEF Fencing
  <2>4. Fences(st)
    BY <1>2, <2>1, <2>3, RetryFences, ReconcileFences
  <2> QED BY <1>2, <2>4 DEF Fences, NotAgain
<1>4. CASE frame.generation # agent.generation
  <2>1. Reconcile(agent, rest, FALSE) \/ (agent' = agent /\ dispatches' = rest)
    BY <1>4 DEF DispatchReturns
  <2>2. Fencing(agent, rest)
    BY FencingFrame
  <2> HIDE DEF rest
  <2>3. CASE agent' = agent /\ dispatches' = rest
    BY <2>2, <2>3 DEF Fences, NotAgain
  <2> QED BY <1>1, <2>1, <2>2, <2>3, ReconcileFences
<1> QED BY <1>3, <1>4

LEMMA ThrowsFences ==
  ASSUME IInv, Fencing(agent, dispatches), NEW frame \in dispatches, DispatchThrows(frame)
  PROVE  Fences(agent)
<1> DEFINE rest == dispatches \ {frame}
           scopes == RollBack(agent.scopes, frame.coverage)
           fenced == Fence([agent EXCEPT !.scopes = scopes], frame.launch)
           st == [fenced EXCEPT !.admitting = FALSE]
<1>1. /\ agent \in AgentState /\ Held(agent)
      /\ frame.launch \in Launches /\ frame.coverage \in Coverage
  BY DEF IInv, Core, Typed, Dispatch
<1>2. CASE frame.generation = agent.generation
  <2>1. /\ Based(frame.coverage, agent.scopes)
        /\ agent.admission # None => agent.admission.coverage = frame.coverage
    BY <1>2 DEF IInv, Core, Matched
  <2>2. scopes \in [Channels -> Scope]
    BY <1>1, <2>1, RollBackHeld
  <2>3. RetryFailed(st, rest, TRUE) \/ Reconcile(st, rest, FALSE)
    BY <1>2 DEF DispatchThrows
  <2> HIDE DEF scopes
  <2>4. /\ agent.coalesced # None => agent.coalesced.launch # frame.launch
        /\ \A f \in dispatches : f.generation = agent.generation => f.launch = frame.launch
        /\ agent.failed \in {None, frame.launch}
    BY <1>2 DEF Fencing, IInv, Core, Locked
  <2>5. /\ fenced \in AgentState /\ Fencing(fenced, dispatches)
        /\ fenced.failed = frame.launch /\ fenced.admission = None
        /\ fenced.generation = agent.generation
    BY <1>1, <2>2, <2>4, FenceFencing
  <2> HIDE DEF fenced
  <2>6. /\ st \in AgentState /\ st.generation = fenced.generation
        /\ st.admission = None /\ st.failed = fenced.failed
        /\ st.coalesced = fenced.coalesced /\ st.retry = fenced.retry
    BY <2>5 DEF AgentState
  <2> HIDE DEF st
  <2>7. \A f \in rest : f.generation # agent.generation
    BY <1>2 DEF IInv, Core, Locked
  <2> HIDE DEF rest
  <2>8. Fencing(st, rest)
    BY <2>5, <2>6, <2>7 DEF Fencing
  <2>9. Fences(st)
    BY <2>3, <2>6, <2>8, RetryFences, ReconcileFences
  <2>10. agent'.admission # None => agent'.admission.launch # None
    BY DispatchThrowsInv, NoneAssumption DEF Core, Typed, AgentState, Admission
  <2> QED BY <2>4, <2>5, <2>6, <2>9, <2>10 DEF Fences, NotAgain
<1>3. CASE frame.generation # agent.generation
  <2>1. agent' = agent /\ dispatches' = rest
    BY <1>3 DEF DispatchThrows
  <2>2. Fencing(agent, rest)
    BY FencingFrame
  <2> QED BY <2>1, <2>2 DEF Fences, NotAgain
<1> QED BY <1>2, <1>3

LEMMA IdleFences ==
  ASSUME IInv, Fencing(agent, dispatches), AgentIdle
  PROVE  Fences(agent)
<1> DEFINE st == IF agent.admission = None THEN agent
                 ELSE Fence(ReleaseUnobserved(agent), agent.admission.launch)
<1>1. agent \in AgentState /\ Held(agent)
  BY DEF IInv, Core, Typed
<1>2. RetryFailed(st, dispatches, FALSE) \/ Reconcile(st, dispatches, FALSE)
  BY DEF AgentIdle
<1>3. st \in AgentState /\ Fencing(st, dispatches)
  <2>1. CASE agent.admission = None
    BY <1>1, <2>1
  <2>2. CASE agent.admission # None
    <3> DEFINE scopes == ReleaseUnobserved(agent).scopes
    <3>1. agent.admission.launch \in Launches
      BY <1>1, <2>2 DEF AgentState, Admission
    <3>2. scopes \in [Channels -> Scope]
      BY <1>1, <2>2, ReleaseHeld DEF IInv, Core, Matched
    <3>3. ReleaseUnobserved(agent) = [agent EXCEPT !.scopes = scopes]
      BY <1>1 DEF ReleaseUnobserved, AgentState
    <3> HIDE DEF scopes
    <3>4. st = Fence([agent EXCEPT !.scopes = scopes], agent.admission.launch)
      BY <2>2, <3>3
    <3>5. /\ agent.coalesced # None => agent.coalesced.launch # agent.admission.launch
          /\ \A f \in dispatches :
                f.generation = agent.generation => f.launch = agent.admission.launch
      BY <2>2 DEF Fencing
    <3> QED BY <1>1, <3>1, <3>2, <3>4, <3>5, FenceFencing
  <2> QED BY <2>1, <2>2
<1>4. agent.admission = None => st = agent
  OBVIOUS
<1> HIDE DEF st
<1>5. Fences(st)
  BY <1>2, <1>3, RetryFences, ReconcileFences
<1> QED BY <1>4, <1>5 DEF Fences, NotAgain

LEMMA PullFences ==
  ASSUME IInv, Fencing(agent, dispatches), NEW generation \in pulls, NEW cursors \in Cursors,
         PullReturns(generation, cursors)
  PROVE  Fences(agent)
<1>1. agent \in AgentState /\ Held(agent)
  BY DEF IInv, Core, Typed
<1>2. CASE generation = agent.generation
  <2> DEFINE st == Observe(cursors)
  <2>1. FinishObserved(st, dispatches)
    BY <1>2 DEF PullReturns
  <2>2. /\ st \in AgentState /\ st.generation = agent.generation
        /\ st.admitting = agent.admitting /\ st.coalesced = agent.coalesced
        /\ st.failed = agent.failed
        /\ st.admission = None <=> agent.admission = None
        /\ agent.admission # None =>
             /\ st.admission.coverage = agent.admission.coverage
             /\ st.admission.launch = agent.admission.launch
        /\ \A c \in Channels : /\ st.scopes[c].seen >= agent.scopes[c].seen
                               /\ st.scopes[c].admitted = agent.scopes[c].admitted
                               /\ st.scopes[c].desired = agent.scopes[c].desired
    BY <1>1, ObserveType
  <2>3. st.retry = agent.retry
    BY <1>1 DEF Observe, AgentState
  <2> HIDE DEF st
  <2>4. \A c \in Channels : agent.scopes[c] \in Scope /\ st.scopes[c] \in Scope
    BY <1>1, <2>2 DEF AgentState
  <2>5. Held(st)
    BY <1>1, <2>2, <2>4 DEF Held, Scope
  <2>6. st.admission # None => Based(st.admission.coverage, st.scopes)
    <3>1. SUFFICES ASSUME agent.admission # None
                   PROVE  Based(agent.admission.coverage, st.scopes)
      BY <2>2
    <3>2. agent.admission.coverage \in Coverage /\ Based(agent.admission.coverage, agent.scopes)
      BY <1>1, <3>1 DEF AgentState, Admission, IInv, Core, Matched
    <3> QED BY <2>2, <2>4, <3>2 DEF Based, Coverage, Scope
  <2>7. Fencing(st, dispatches)
    BY <2>2, <2>3 DEF Fencing
  <2>8. Fences(st)
    BY <2>1, <2>2, <2>5, <2>6, <2>7, FinishFences
  <2> QED BY <2>2, <2>8 DEF Fences, NotAgain
<1>3. CASE generation # agent.generation
  BY <1>3 DEF PullReturns, Fences, NotAgain
<1> QED BY <1>2, <1>3

LEMMA NextFences ==
  ASSUME IInv, Fencing(agent, dispatches), [Next]_vars
  PROVE  /\ Fencing(agent', dispatches')
         /\ NotAgain(agent) \/ \E cmd \in Commands :
                /\ Run(cmd)
                /\ agent.admission = None /\ agent'.admission # None
                     => cmd.launch = agent'.admission.launch
<1>0. agent \in AgentState
  BY DEF IInv, Core, Typed
<1>1. ASSUME NEW cmd \in Commands, Run(cmd)
      PROVE  /\ Fencing(agent', dispatches')
             /\ agent.admission = None /\ agent'.admission # None
                  => cmd.launch = agent'.admission.launch
  <2>1. Fencing(agent', dispatches')
    BY <1>1, RunFencing
  <2>2. SUFFICES ASSUME agent.admission = None, agent'.admission # None
                 PROVE  cmd.launch = agent'.admission.launch
    BY <2>1
  <2>3. Wanted(cmd) \in AgentState /\ Wanted(cmd).admission = agent.admission
    BY <1>0, WantedType
  <2>4. CASE RunCovered(cmd)
    BY <1>0, <2>2, <2>4, Remembered DEF RunCovered
  <2>5. CASE RunCoalesced(cmd)
    BY <2>2, <2>3, <2>5, Remembered DEF RunCoalesced
  <2>6. CASE RunAdmitted(cmd)
    <3> DEFINE st == Wanted(cmd)
    <3>1. Admit(st, cmd, dispatches, FALSE)
      BY <2>6 DEF RunAdmitted
    <3>2. Fencing(st, dispatches)
      <4>1. /\ st.generation = agent.generation /\ st.admitting = agent.admitting
            /\ st.coalesced = agent.coalesced
        BY <1>0, WantedType
      <4>2. st.failed = agent.failed /\ st.retry = agent.retry
        BY <1>0 DEF Wanted, AgentState
      <4> HIDE DEF st
      <4> QED BY <2>3, <4>1, <4>2, FencingFrame DEF st
    <3> HIDE DEF st
    <3> QED BY <2>2, <2>3, <3>1, <3>2, AdmitFences DEF st
  <2> QED BY <1>1, <2>4, <2>5, <2>6 DEF Run
<1>2. ASSUME NEW launch \in Launches, SuppressedAck(launch)
      PROVE  Fences(agent)
  BY <1>2, AckFences DEF SuppressedAck
<1>3. ASSUME NEW clearSeen \in BOOLEAN, Invalidate(clearSeen)
      PROVE  Fences(agent)
  <2>1. /\ agent'.generation = agent.generation + 1 /\ agent'.admission = None
        /\ agent'.retry = None /\ dispatches' = dispatches
    BY <1>3 DEF Invalidate
  <2>2. \A f \in dispatches : f.generation # agent'.generation
    BY <1>0, <2>1 DEF IInv, Core, Locked, Typed, Dispatch, AgentState
  <2> QED BY <2>1, <2>2 DEF Fences, Fencing, NotAgain
<1>4. ASSUME NEW frame \in dispatches, NEW status \in {"ok", "error"}, RouterAck(frame, status)
      PROVE  Fences(agent)
  BY <1>4, RouterFences
<1>5. ASSUME NEW frame \in dispatches, DispatchReturns(frame)
      PROVE  Fences(agent)
  BY <1>5, ReturnsFences
<1>6. ASSUME NEW frame \in dispatches, DispatchThrows(frame)
      PROVE  Fences(agent)
  BY <1>6, ThrowsFences
<1>7. CASE AgentWorks
  <2>1. Fences(agent)
    BY <1>0, <1>7, ReconcileFences DEF AgentWorks
  <2> QED BY <2>1 DEF Fences
<1>8. CASE AgentIdle
  BY <1>8, IdleFences DEF Fences
<1>9. CASE PullStarts \/ UNCHANGED vars
  BY <1>9 DEF PullStarts, vars, NotAgain
<1>10. ASSUME NEW generation \in pulls, NEW cursors \in Cursors, PullReturns(generation, cursors)
       PROVE  Fences(agent)
  BY <1>10, PullFences
<1>a. Fences(agent) => Fencing(agent', dispatches') /\ NotAgain(agent)
  BY DEF Fences
<1> QED
  BY <1>1, <1>2, <1>3, <1>4, <1>5, <1>6, <1>7, <1>8, <1>9, <1>10, <1>a DEF Next

THEOREM FenceInvariance == Spec => [](IInv /\ Fencing(agent, dispatches))
<1> DEFINE F == Fencing(agent, dispatches)
<1>1. Init => F
  BY DEF Init, Fencing
<1>2. IInv /\ F /\ [Next]_vars => F'
  BY NextFences
<1> HIDE DEF F
<1>3. Spec => []F
  BY <1>1, <1>2, Invariance, PTL DEF Spec
<1> QED BY <1>3, Invariance, PTL DEF F

\* A launch whose delivery failed is not admitted again by a reconcile, a retry or the end
\* of a turn: only by its own frame coming again (wakeCoordinator.ts:127-146, 224-233).
THEOREM FailedLaunchRests == Spec => NoSpontaneousRetry
<1> DEFINE Step == \A launch \in Launches :
                     (/\ agent'.admission # None /\ agent'.admission.launch = launch
                      /\ dispatches' \ dispatches # {}
                      /\ launch = agent.failed)
                     => \E cmd \in Commands : cmd.launch = launch /\ Run(cmd)
<1>1. IInv /\ Fencing(agent, dispatches) /\ [Next]_vars => Step
  <2> SUFFICES ASSUME IInv, Fencing(agent, dispatches), [Next]_vars,
                      NEW launch \in Launches, launch = agent.failed,
                      agent'.admission # None, agent'.admission.launch = launch
               PROVE  \E cmd \in Commands : cmd.launch = launch /\ Run(cmd)
    OBVIOUS
  <2>1. agent.failed # None /\ agent.admission = None
    BY NoneAssumption DEF Fencing
  <2>2. ~ NotAgain(agent)
    BY <2>1 DEF NotAgain
  <2> QED BY <2>1, <2>2, NextFences
<1> HIDE DEF Step
<1>2. Spec => [][Step]_vars
  BY <1>1, FenceInvariance, PTL DEF Spec
<1> QED BY <1>2 DEF NoSpontaneousRetry, Step
=============================================================================
