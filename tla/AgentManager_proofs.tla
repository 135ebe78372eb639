------------------------- MODULE AgentManager_proofs -------------------------
(***************************************************************************)
(* For every number of messages, restarts, stops and returns, and every    *)
(* kind of backend: a second backend is never started beside one that was  *)
(* not told to stop, and the status of the agent agrees with its owner.    *)
(*                                                                         *)
(* Neither is inductive.  The invariant, Good, says of the world (the      *)
(* agent, the owners and which is the current one) that only the current   *)
(* owner is live, that an idle agent has none, that the current owner was  *)
(* not given up, that the reducer's epoch is its index once its session    *)
(* has opened, and that a running agent's has.  A spawn needs the first    *)
(* two: it happens when an agent is idle or an owner has just left, that   *)
(* is, in a Vacant world.                                                  *)
(*                                                                         *)
(* The handlers are chains of operators from world to world, and most of   *)
(* them change nothing Good looks at: SameWorld, proved once per operator. *)
(* What is left is a lemma per operator that changes a phase, the current  *)
(* owner or the status, and one per action.                                *)
(***************************************************************************)
EXTENDS AgentManager, SequenceTheorems, TLAPS

\* The fields of an AgentState and of an owner.
AgentFields == {"status", "inbox", "epoch", "lease", "pending", "idle", "resetting"}

IsAgent(a) == AgentFields \subseteq DOMAIN a

\* What of an agent the invariant looks at.
SameAgent(b, a) == IsAgent(b) /\ b.status = a.status /\ b.epoch = a.epoch

\* Giving messages back to the inbox keeps the status and the epoch.
LEMMA DeliveriesRejectedKeeps ==
    ASSUME NEW a, IsAgent(a), NEW msgs
    PROVE  SameAgent(DeliveriesRejected(a, msgs), a)
BY DEF SameAgent, IsAgent, AgentFields, DeliveriesRejected

\* So does giving back the admissions that will not be settled.
LEMMA RecoverKeeps ==
    ASSUME NEW a, IsAgent(a), NEW entries
    PROVE  SameAgent(Recover(a, entries), a)
BY DeliveriesRejectedKeeps DEF Recover

\* So does returning a whole batch.
LEMMA QueueDeliveryKeeps ==
    ASSUME NEW a, IsAgent(a), NEW msgs
    PROVE  SameAgent(QueueDelivery(a, msgs), a)
BY DEF SameAgent, IsAgent, AgentFields, QueueDelivery

\* So does everything that happens to admissions.
LEMMA AdmissionsKeep ==
    ASSUME NEW a, IsAgent(a), NEW msgs, NEW queued, NEW requeue, NEW m
    PROVE  /\ SameAgent(AdmissionsStarted(a, msgs, queued, requeue), a)
           /\ SameAgent(AdmissionsSettled(a, msgs), a)
           /\ SameAgent(AdmissionsFailed(a, msgs), a)
           /\ SameAgent(AdmissionAcknowledged(a, m), a)
<1>1. SameAgent(AdmissionsStarted(a, msgs, queued, requeue), a)
  BY DEF SameAgent, IsAgent, AgentFields, AdmissionsStarted
<1>2. SameAgent(AdmissionAcknowledged(a, m), a)
  BY DEF SameAgent, IsAgent, AgentFields, AdmissionAcknowledged
<1>3. ASSUME NEW s PROVE SameAgent(AdmissionsSettled(a, s), a)
  BY DEF SameAgent, IsAgent, AgentFields, AdmissionsSettled
<1>4. SameAgent(AdmissionsFailed(a, msgs), a)
  <2>1. SameAgent(AdmissionsSettled(a, ToSet(msgs)), a)
    BY <1>3
  <2> QED BY <2>1, DeliveriesRejectedKeeps DEF AdmissionsFailed, SameAgent
<1> QED BY <1>1, <1>2, <1>3, <1>4

OwnerFields == {"phase", "first", "delivery", "established", "reported", "superseded",
                "discard", "torndown", "receipt", "ended", "held"}

\* A sequence of owners.
IsOwners(s) ==
    /\ Len(s) \in Nat
    /\ s = [i \in 1..Len(s) |-> s[i]]
    /\ \A i \in 1..Len(s) : OwnerFields \subseteq DOMAIN s[i]

\* A world the operators of AgentManager accept.
IsWorld(w) ==
    /\ {"agent", "owners", "current", "fate"} \subseteq DOMAIN w
    /\ IsAgent(w.agent)
    /\ IsOwners(w.owners)

\* Two worlds that differ in nothing the invariant looks at.
SameWorld(v, w) ==
    /\ IsWorld(v)
    /\ v.current = w.current
    /\ v.agent.status = w.agent.status /\ v.agent.epoch = w.agent.epoch
    /\ Len(v.owners) = Len(w.owners)
    /\ \A i \in 1..Len(w.owners) :
           v.owners[i].phase = w.owners[i].phase /\ v.owners[i].torndown = w.owners[i].torndown

\* An owner whose backend may be running and was not told to stop.
Live(o) == o.phase \in {"opening", "open"} /\ ~o.torndown

NobodyLive(w) == \A i \in 1..Len(w.owners) : ~Live(w.owners[i])

\* The inductive invariant.
Good(w) ==
    /\ IsWorld(w)
    /\ w.current \in 0..Len(w.owners)
    /\ \A i \in 1..Len(w.owners) : Live(w.owners[i]) => i = w.current
    /\ w.agent.status = "idle" => w.current = 0
    /\ w.current # 0 =>
          /\ ~w.owners[w.current].torndown
          /\ w.owners[w.current].phase # "gone"
          /\ w.owners[w.current].phase # "opening" => w.agent.epoch = w.current
    /\ w.agent.status = "running" =>
          w.current # 0 /\ w.owners[w.current].phase # "opening"

\* A change of the agent that keeps status and epoch changes nothing of interest.
LEMMA AgentChanges ==
    ASSUME NEW w, IsWorld(w), NEW b, SameAgent(b, w.agent)
    PROVE  SameWorld([w EXCEPT !.agent = b], w)
BY DEF IsWorld, SameWorld, SameAgent

\* Nor does the account of who answers for a message.
LEMMA FateChanges ==
    ASSUME NEW w, IsWorld(w), NEW f
    PROVE  SameWorld([w EXCEPT !.fate = f], w)
BY DEF IsWorld, SameWorld

\* What replacing one owner does to the world.
LEMMA OwnerChanges ==
    ASSUME NEW w, IsWorld(w), NEW i \in 1..Len(w.owners), NEW o,
           OwnerFields \subseteq DOMAIN o
    PROVE  LET v == [w EXCEPT !.owners[i] = o]
           IN  /\ IsWorld(v) /\ v.current = w.current /\ v.agent = w.agent
               /\ Len(v.owners) = Len(w.owners) /\ v.owners[i] = o
               /\ \A j \in 1..Len(w.owners) : j # i => v.owners[j] = w.owners[j]
<1> DEFINE v == [w EXCEPT !.owners[i] = o]
<1>1. v.owners = [w.owners EXCEPT ![i] = o] /\ v.current = w.current /\ v.agent = w.agent
      /\ DOMAIN v = DOMAIN w
  BY DEF IsWorld
<1>2. Len(v.owners) = Len(w.owners) /\ v.owners = [j \in 1..Len(w.owners) |-> v.owners[j]]
  BY <1>1 DEF IsWorld, IsOwners
<1>3. v.owners[i] = o /\ \A j \in 1..Len(w.owners) : j # i => v.owners[j] = w.owners[j]
  BY <1>1 DEF IsWorld, IsOwners
<1>4. IsOwners(v.owners)
  BY <1>2, <1>3 DEF IsWorld, IsOwners
<1> QED BY <1>1, <1>2, <1>3, <1>4 DEF IsWorld

\* Steps that change nothing of interest can be chained.
LEMMA SameIsTransitive ==
    ASSUME NEW u, NEW v, NEW w, SameWorld(u, v), SameWorld(v, w)
    PROVE  SameWorld(u, w)
BY DEF SameWorld

\* They preserve the invariant.
LEMMA SameIsGood ==
    ASSUME NEW v, NEW w, Good(w), SameWorld(v, w)
    PROVE  Good(v)
BY DEF SameWorld, Good, Live, IsWorld, IsOwners

\* An owner may change in all but its phase and whether it was given up.
LEMMA OwnerDataChanges ==
    ASSUME NEW w, IsWorld(w), NEW i \in 1..Len(w.owners), NEW o,
           OwnerFields \subseteq DOMAIN o,
           o.phase = w.owners[i].phase, o.torndown = w.owners[i].torndown
    PROVE  SameWorld([w EXCEPT !.owners[i] = o], w)
BY OwnerChanges DEF SameWorld, IsWorld

\* In particular in what its session holds.
LEMMA HeldChanges ==
    ASSUME NEW w, IsWorld(w), NEW i \in 1..Len(w.owners), NEW h
    PROVE  SameWorld([w EXCEPT !.owners[i].held = h], w)
<1> DEFINE o == [w.owners[i] EXCEPT !.held = h]
<1>1. OwnerFields \subseteq DOMAIN o /\ o.phase = w.owners[i].phase
      /\ o.torndown = w.owners[i].torndown
  BY DEF IsWorld, IsOwners, OwnerFields
<1>2. [w EXCEPT !.owners[i].held = h] = [w EXCEPT !.owners[i] = o]
  BY DEF IsWorld, IsOwners
<1> QED BY <1>1, <1>2, OwnerDataChanges

\* What every operator needs to know of the world before it.
LEMMA SameIsWorld ==
    ASSUME NEW v, NEW w, SameWorld(v, w)
    PROVE  IsWorld(v) /\ v.current = w.current /\ Len(v.owners) = Len(w.owners)
BY DEF SameWorld

\* settlePendingDelivery changes nothing of interest.
LEMMA SettleKeeps ==
    ASSUME NEW w, IsWorld(w), NEW i, NEW msgs
    PROVE  SameWorld(Settle(w, i, msgs), w)
BY AgentChanges, AdmissionsKeep DEF Settle, IsWorld, SameWorld

\* Nor does command_accepted.
LEMMA AcceptKeeps ==
    ASSUME NEW w, IsWorld(w), NEW i, NEW m
    PROVE  SameWorld(Accept(w, i, m), w)
<1> DEFINE v == [w EXCEPT !.fate[m] = "accepted"]
<1>1. SameWorld(v, w)
  BY FateChanges
<1>2. SameWorld(Settle(v, i, {m}), v)
  BY <1>1, SettleKeeps, SameIsWorld
<1> QED BY <1>1, <1>2, SameIsTransitive DEF Accept

\* Nor does command_failed of inputs of a turn.
LEMMA InputsFailKeeps ==
    ASSUME NEW w, IsWorld(w), NEW i, NEW msgs
    PROVE  SameWorld(InputsFail(w, i, msgs), w)
<1>1. SameWorld(w, w)
  BY DEF SameWorld
<1> DEFINE v == Settle(w, i, msgs)
<1>2. SameWorld(v, w)
  BY SettleKeeps
<1>3. SameWorld([v EXCEPT !.fate = Told(v, msgs, "reported")], v)
  BY <1>2, FateChanges, SameIsWorld
<1> QED BY <1>1, <1>2, <1>3, SameIsTransitive DEF InputsFail

\* Nor does command_failed of messages that were to open a turn.
LEMMA TurnsFailKeeps ==
    ASSUME NEW w, IsWorld(w), NEW i, NEW msgs
    PROVE  SameWorld(TurnsFail(w, i, msgs), w)
<1>1. SameWorld(w, w)
  BY DEF SameWorld
<1>2. SameAgent(AdmissionsFailed(w.agent, msgs), w.agent)
  BY AdmissionsKeep DEF IsWorld
<1> QED BY <1>1, <1>2, AgentChanges DEF TurnsFail

\* Nor does the failure of everything a session has not accepted.
LEMMA FailHeldKeeps ==
    ASSUME NEW w, IsWorld(w), NEW i \in 1..Len(w.owners)
    PROVE  SameWorld(FailHeld(w, i), w)
<1> DEFINE h == w.owners[i].held
           root == IF h.root = None THEN <<>> ELSE <<h.root>>
           k == [h EXCEPT !.root = None, !.queue = <<>>, !.steering = {},
                              !.turn = IF @ = "starting" THEN "none" ELSE @]
           v == [w EXCEPT !.owners[i].held = k]
           v1 == TurnsFail(v, i, root)
           v2 == InputsFail(v1, i, h.steering)
           v3 == TurnsFail(v2, i, h.queue)
<1>1. SameWorld(v, w)
  BY HeldChanges
<1>2. SameWorld(v1, v)
  BY <1>1, TurnsFailKeeps, SameIsWorld
<1>3. SameWorld(v2, v1)
  BY <1>2, InputsFailKeeps, SameIsWorld
<1>4. SameWorld(v3, v2)
  BY <1>3, TurnsFailKeeps, SameIsWorld
<1>5. FailHeld(w, i) = v3
  BY DEF FailHeld
<1> HIDE DEF v, v1, v2, v3
<1> QED BY <1>1, <1>2, <1>3, <1>4, <1>5, SameIsTransitive

\* Nor does session.send of the current owner.
LEMMA AdmitKeeps ==
    ASSUME NEW w, IsWorld(w), w.current \in 1..Len(w.owners), NEW msgs
    PROVE  SameWorld(Admit(w, msgs), w)
<1>1. ASSUME NEW b, SameAgent(b, w.agent), NEW h
      PROVE  SameWorld([w EXCEPT !.agent = b, !.owners[w.current].held = h], w)
  <2> DEFINE v == [w EXCEPT !.agent = b]
  <2>1. SameWorld(v, w)
    BY <1>1, AgentChanges
  <2>2. SameWorld([v EXCEPT !.owners[w.current].held = h], v)
    BY <2>1, HeldChanges, SameIsWorld
  <2> QED BY <2>1, <2>2, SameIsTransitive
<1>2. ASSUME NEW queued PROVE SameAgent(AdmissionsStarted(w.agent, msgs, queued, TRUE), w.agent)
  BY AdmissionsKeep DEF IsWorld
<1> QED BY <1>1, <1>2 DEF Admit

\* Nor do the send effects of an event.
LEMMA SendKeeps ==
    ASSUME NEW w, IsWorld(w), w.current \in 0..Len(w.owners), NEW msgs
    PROVE  SameWorld(Send(w, msgs), w)
<1>1. CASE CanSend(w)
  <2>1. w.current \in 1..Len(w.owners)
    BY <1>1 DEF CanSend, IsWorld, IsOwners
  <2> QED BY <1>1, <2>1, AdmitKeeps DEF Send
<1>2. CASE ~CanSend(w)
  BY <1>2, AgentChanges, QueueDeliveryKeeps DEF Send, IsWorld
<1> QED BY <1>1, <1>2

\* Nor does turn_completed, which may send what waits.
LEMMA CompleteKeeps ==
    ASSUME NEW w, IsWorld(w), w.current \in 0..Len(w.owners), NEW i
    PROVE  SameWorld(Complete(w, i), w)
<1>0. SameWorld(w, w)
  BY DEF SameWorld
<1>1. SameAgent(TurnCompleted(w.agent), w.agent)
  BY DEF TurnCompleted, Drained, SameAgent, IsAgent, IsWorld, AgentFields
<1> DEFINE v == [w EXCEPT !.agent = TurnCompleted(@)]
<1>2. SameWorld(v, w)
  BY <1>1, AgentChanges
<1>3. SameWorld(Send(v, w.agent.inbox), v)
  BY <1>2, SendKeeps, SameIsWorld
<1> QED BY <1>0, <1>2, <1>3, SameIsTransitive DEF Complete

\* Nor does reportSpawnFailure.
LEMMA ReportKeeps ==
    ASSUME NEW w, IsWorld(w), NEW i \in 1..Len(w.owners)
    PROVE  SameWorld(ReportSpawnFailure(w, i), w)
<1>1. ASSUME NEW r, NEW f
      PROVE  SameWorld([w EXCEPT !.owners[i].reported = r, !.fate = f], w)
  <2> DEFINE o == [w.owners[i] EXCEPT !.reported = r]
             v == [w EXCEPT !.owners[i] = o]
  <2>1. OwnerFields \subseteq DOMAIN o /\ o.phase = w.owners[i].phase
        /\ o.torndown = w.owners[i].torndown
    BY DEF IsWorld, IsOwners, OwnerFields
  <2>2. SameWorld(v, w)
    BY <2>1, OwnerDataChanges
  <2>3. SameWorld([v EXCEPT !.fate = f], v)
    BY <2>2, FateChanges, SameIsWorld
  <2>4. [w EXCEPT !.owners[i].reported = r, !.fate = f] = [v EXCEPT !.fate = f]
    BY DEF IsWorld, IsOwners
  <2> QED BY <2>2, <2>3, <2>4, SameIsTransitive
<1> QED BY <1>1 DEF ReportSpawnFailure

\* Nobody is live, and no owner is the current one.
Vacant(w) == IsWorld(w) /\ w.current = 0 /\ NobodyLive(w)

\* Named, so that the provers need not match the update.
WithPhase(w, i, p) == [w EXCEPT !.owners[i].phase = p]

\* What a change of phase does to the world.
LEMMA PhaseChanges ==
    ASSUME NEW w, IsWorld(w), NEW i \in 1..Len(w.owners), NEW p,
           NEW v, v = WithPhase(w, i, p)
    PROVE  /\ IsWorld(v) /\ v.current = w.current /\ v.agent = w.agent
           /\ Len(v.owners) = Len(w.owners)
           /\ v.owners[i].phase = p /\ v.owners[i].torndown = w.owners[i].torndown
           /\ \A j \in 1..Len(w.owners) : j # i => v.owners[j] = w.owners[j]
<1> DEFINE o == [w.owners[i] EXCEPT !.phase = p]
<1>1. OwnerFields \subseteq DOMAIN o /\ o.phase = p /\ o.torndown = w.owners[i].torndown
  BY DEF IsWorld, IsOwners, OwnerFields
<1>2. v = [w EXCEPT !.owners[i] = o]
  BY DEF IsWorld, IsOwners, WithPhase
<1> HIDE DEF o
<1> QED BY <1>1, <1>2, OwnerChanges

\* A session that leaves the open phase, in any way but the last, stays good.
LEMMA LeavesIsGood ==
    ASSUME NEW w, Good(w), NEW i \in 1..Len(w.owners),
           NEW p \in {"stopping", "crashed", "ended"},
           i # w.current \/ w.owners[i].phase # "opening",
           NEW v, v = WithPhase(w, i, p)
    PROVE  Good(v)
<1>1. IsWorld(w) /\ Len(w.owners) \in Nat
  BY DEF Good, IsWorld, IsOwners
<1>2. /\ IsWorld(v) /\ v.current = w.current /\ v.agent = w.agent
      /\ Len(v.owners) = Len(w.owners)
      /\ v.owners[i].phase = p /\ v.owners[i].torndown = w.owners[i].torndown
      /\ \A j \in 1..Len(w.owners) : j # i => v.owners[j] = w.owners[j]
  BY <1>1, PhaseChanges
<1>3. \A j \in 1..Len(v.owners) : Live(v.owners[j]) => j = v.current
  BY <1>2 DEF Good, Live
<1>4. v.current # 0 =>
          /\ ~v.owners[v.current].torndown
          /\ v.owners[v.current].phase # "gone"
          /\ v.owners[v.current].phase # "opening" => v.agent.epoch = v.current
  BY <1>1, <1>2 DEF Good
<1>5. v.agent.status = "running" =>
          v.current # 0 /\ v.owners[v.current].phase # "opening"
  BY <1>1, <1>2 DEF Good
<1> QED BY <1>1, <1>2, <1>3, <1>4, <1>5 DEF Good

\* session.stop, of any owner or of none, preserves the invariant.
LEMMA StopIsGood ==
    ASSUME NEW w, Good(w), NEW i \in 0..Len(w.owners)
    PROVE  Good(StopSession(w, i))
<1>0. IsWorld(w) /\ Len(w.owners) \in Nat
  BY DEF Good, IsWorld, IsOwners
<1>1. CASE i # 0 /\ w.owners[i].phase = "open"
  <2> DEFINE v == WithPhase(w, i, "stopping")
  <2>1. i \in 1..Len(w.owners)
    BY <1>0, <1>1
  <2>2. Good(v)
    BY <1>1, <2>1, LeavesIsGood DEF Good
  <2>3. IsWorld(v) /\ Len(v.owners) = Len(w.owners)
    BY <1>0, <2>1, PhaseChanges
  <2>4. StopSession(w, i) = FailHeld(v, i)
    BY <1>1 DEF StopSession, WithPhase
  <2> QED BY <2>1, <2>2, <2>3, <2>4, FailHeldKeeps, SameIsGood
<1>2. CASE i = 0 \/ w.owners[i].phase # "open"
  BY <1>2 DEF StopSession
<1> QED BY <1>1, <1>2

\* A new owner becomes the last one and leaves the others as they are.
LEMMA AppendOwner ==
    ASSUME NEW s, IsOwners(s), NEW o, OwnerFields \subseteq DOMAIN o
    PROVE  /\ IsOwners(Append(s, o)) /\ Len(Append(s, o)) = Len(s) + 1
           /\ Append(s, o)[Len(s) + 1] = o
           /\ \A i \in 1..Len(s) : Append(s, o)[i] = s[i]
<1> DEFINE S == {s[i] : i \in 1..Len(s)} \cup {o}
           t == Append(s, o)
<1>1. s \in Seq(S)
  <2>1. [i \in 1..Len(s) |-> s[i]] \in Seq(S)
    BY IsASeq DEF IsOwners
  <2> QED BY <2>1 DEF IsOwners
<1>2. /\ t \in Seq(S) /\ Len(t) = Len(s) + 1 /\ t[Len(s) + 1] = o
      /\ \A i \in 1..Len(s) : t[i] = s[i]
  BY <1>1, AppendProperties
<1> HIDE DEF t, S
<1>3. t = [i \in 1..Len(t) |-> t[i]] /\ Len(t) \in Nat
  BY <1>2, LenProperties
<1>4. \A i \in 1..Len(t) : OwnerFields \subseteq DOMAIN t[i]
  BY <1>2 DEF IsOwners
<1> QED BY <1>2, <1>3, <1>4 DEF IsOwners, t

\* doSpawn, when nobody is live: the new owner is the current and only live one;
\* if the runtime is unusable there is still none.
LEMMA SpawnIsGood ==
    ASSUME NEW w, Vacant(w), w.agent.status = "starting", NEW msgs
    PROVE  /\ Good(Spawn(w, msgs))
           /\ ~healthy => Vacant(Spawn(w, msgs))
<1> DEFINE v == [w EXCEPT !.agent = QueueDelivery(@, Tail(msgs))]
           n == Len(w.owners)
           before == [i \in DOMAIN v.owners |->
                         [v.owners[i] EXCEPT !.superseded = @ \/ i = v.current]]
           u == [v EXCEPT !.owners = Append(before, NewOwner(Head(msgs))),
                          !.current = n + 1]
           f == [v EXCEPT !.fate[Head(msgs)] = IF @ = "held" THEN "abandoned" ELSE @]
<1>1. SameWorld(v, w)
  BY AgentChanges, QueueDeliveryKeeps DEF Vacant, IsWorld
<1>2. IsWorld(v) /\ v.current = 0 /\ Len(v.owners) = n /\ n \in Nat /\ NobodyLive(v)
      /\ v.agent.status = "starting"
  BY <1>1 DEF Vacant, SameWorld, IsWorld, IsOwners, NobodyLive, Live
<1> HIDE DEF v, n
<1>3. CASE ~healthy
  <2>1. SameWorld(f, v)
    BY <1>2, FateChanges
  <2>2. Spawn(w, msgs) = f
    BY <1>3 DEF Spawn, v
  <2> HIDE DEF f
  <2>3. Vacant(f) /\ f.agent.status = "starting"
    BY <1>2, <2>1 DEF Vacant, SameWorld, NobodyLive, Live
  <2>4. Good(f)
    BY <2>3 DEF Vacant, Good, NobodyLive, IsWorld, IsOwners
  <2> QED BY <2>2, <2>3, <2>4
<1>4. CASE healthy
  <2> DEFINE new == NewOwner(Head(msgs))
  <2>1. OwnerFields \subseteq DOMAIN new /\ new.phase = "opening" /\ new.torndown = FALSE
    BY DEF NewOwner, OwnerFields
  <2>2. /\ IsOwners(before) /\ Len(before) = n
        /\ \A i \in 1..n : /\ before[i].phase = v.owners[i].phase
                           /\ before[i].torndown = v.owners[i].torndown
    <3>1. DOMAIN v.owners = 1..n
      BY <1>2 DEF IsWorld, IsOwners
    <3>2. before = [i \in 1..n |-> [v.owners[i] EXCEPT !.superseded = @ \/ i = v.current]]
      BY <3>1
    <3>3. \A i \in 1..n : OwnerFields \subseteq DOMAIN before[i]
                          /\ before[i].phase = v.owners[i].phase
                          /\ before[i].torndown = v.owners[i].torndown
      BY <1>2, <3>2 DEF IsWorld, IsOwners, OwnerFields
    <3>4. Len(before) = n
      BY <1>2, <3>2
    <3> HIDE DEF before
    <3>5. before = [i \in 1..n |-> before[i]]
      BY <3>2
    <3> QED BY <1>2, <3>3, <3>4, <3>5 DEF IsOwners
  <2>3. /\ u.owners = Append(before, new) /\ u.current = n + 1 /\ u.agent = v.agent
        /\ DOMAIN u = DOMAIN v
    BY <1>2 DEF IsWorld
  <2>4. Spawn(w, msgs) = u
    BY <1>4 DEF Spawn, v, n
  <2> HIDE DEF u, before, new
  <2>5. /\ IsOwners(u.owners) /\ Len(u.owners) = n + 1 /\ u.owners[n + 1] = new
        /\ \A i \in 1..n : u.owners[i] = before[i]
    BY <2>1, <2>2, <2>3, AppendOwner
  <2>6. IsWorld(u)
    BY <1>2, <2>3, <2>5 DEF IsWorld
  <2>7. \A i \in 1..(n + 1) : Live(u.owners[i]) => i = n + 1
    BY <1>2, <2>2, <2>5 DEF NobodyLive, Live
  <2> QED BY <1>2, <1>4, <2>1, <2>3, <2>4, <2>5, <2>6, <2>7 DEF Good
<1> QED BY <1>3, <1>4
\* An agent may become starting or stopping at any time.
LEMMA StatusChanges ==
    ASSUME NEW w, Good(w), NEW b, IsAgent(b), b.epoch = w.agent.epoch,
           b.status \in {"starting", "stopping"} \/ b.status = w.agent.status
    PROVE  Good([w EXCEPT !.agent = b])
<1> DEFINE v == [w EXCEPT !.agent = b]
<1>1. /\ v.owners = w.owners /\ v.current = w.current /\ v.agent = b
      /\ DOMAIN v = DOMAIN w
  BY DEF Good, IsWorld
<1> HIDE DEF v
<1>2. Good(v)
  BY <1>1 DEF Good, IsWorld
<1> QED BY <1>2 DEF v

\* Without a current owner nobody is live.
LEMMA NoCurrentIsVacant ==
    ASSUME NEW w, Good(w), w.current = 0
    PROVE  Vacant(w)
BY DEF Good, Vacant, NobodyLive, IsWorld, IsOwners

\* The exit event and its effects, once the owner has left.
LEMMA ExitIsGood ==
    ASSUME NEW w, Vacant(w)
    PROVE  Good(Exit(w))
<1> DEFINE a == Exited(w.agent)
           v == [w EXCEPT !.agent = Exited(@)]
<1>1. IsAgent(a) /\ a.status = IF ExitSpawns(w.agent) THEN "starting" ELSE "idle"
  <2> DEFINE b == [w.agent EXCEPT !.pending = <<>>, !.epoch = NoSession, !.lease = "detached"]
             c == IF ExitSpawns(w.agent) THEN Drained([b EXCEPT !.status = "starting"])
                  ELSE Stable(b, "idle")
  <2>1. IsAgent(c) /\ c.status = IF ExitSpawns(w.agent) THEN "starting" ELSE "idle"
    BY DEF Vacant, IsWorld, IsAgent, AgentFields, Drained, Stable
  <2>2. a = Recover(c, w.agent.pending)
    BY DEF Exited
  <2> HIDE DEF a, c
  <2> QED BY <2>1, <2>2, RecoverKeeps DEF SameAgent
<1>2. v.agent = a /\ v.owners = w.owners /\ v.current = w.current /\ DOMAIN v = DOMAIN w
  BY DEF Vacant, IsWorld
<1>3. Exit(w) = IF ExitSpawns(w.agent) THEN Spawn(v, w.agent.inbox) ELSE v
  BY DEF Exit
<1> HIDE DEF v, a
<1>4. Vacant(v)
  BY <1>1, <1>2 DEF Vacant, IsWorld, NobodyLive
<1>5. CASE ExitSpawns(w.agent)
  BY <1>1, <1>2, <1>3, <1>4, <1>5, SpawnIsGood
<1>6. CASE ~ExitSpawns(w.agent)
  <2>1. Good(v)
    BY <1>1, <1>2, <1>4, <1>6 DEF Vacant, Good, NobodyLive, IsWorld, IsOwners
  <2> QED BY <1>3, <1>6, <2>1
<1> QED BY <1>5, <1>6

\* deliver: an idle agent has no owner, so a spawn finds nobody live.
LEMMA DeliverIsGood ==
    ASSUME NEW w, Good(w), NEW m
    PROVE  /\ Good(Deliver(w, m))
           /\ w.agent.status = "idle" /\ ~healthy => Vacant(Deliver(w, m))
<1> DEFINE v == [w EXCEPT !.fate[m] = "held", !.agent = Wakes(@, m)]
           a == v.agent
<1>1. /\ v.agent = Wakes(w.agent, m) /\ v.owners = w.owners /\ v.current = w.current
      /\ DOMAIN v = DOMAIN w
  BY DEF Good, IsWorld
<1>2. SameAgent(a, w.agent)
  BY <1>1 DEF Good, IsWorld, SameAgent, IsAgent, AgentFields, Wakes
<1>3. SameAgent(Drained(a), w.agent)
  BY <1>2 DEF SameAgent, Drained, IsAgent, AgentFields
<1>4. IsWorld(v) /\ SameWorld(v, w)
  BY <1>1, <1>2 DEF Good, IsWorld, SameWorld, SameAgent
<1>5. CASE WakeSpawns(w.agent)
  <2> DEFINE refused == ~healthy /\ Head(a.inbox) = m
             u == [v EXCEPT !.agent = Drained([a EXCEPT !.status = "starting"]),
                            !.fate[m] = IF refused THEN "refused" ELSE @]
  <2>1. Deliver(w, m) = Spawn(u, a.inbox)
    BY <1>5 DEF Deliver
  <2>2. w.current = 0
    BY <1>5 DEF WakeSpawns, Good
  <2>3. /\ u.owners = v.owners /\ u.current = v.current /\ DOMAIN u = DOMAIN v
        /\ u.agent = Drained([a EXCEPT !.status = "starting"])
    BY <1>4 DEF IsWorld
  <2> HIDE DEF u, v
  <2>4. IsAgent(u.agent) /\ u.agent.status = "starting"
    BY <1>2, <2>3 DEF SameAgent, Drained, IsAgent, AgentFields
  <2>5. Vacant(u)
    BY <1>1, <1>4, <2>2, <2>3, <2>4, NoCurrentIsVacant DEF Vacant, NobodyLive, IsWorld
  <2> QED BY <2>1, <2>4, <2>5, SpawnIsGood
<1>6. CASE ~WakeSpawns(w.agent) /\ WakeSends(w.agent, m, returned)
  <2> DEFINE u == [v EXCEPT !.agent = Drained(a)]
  <2>1. Deliver(w, m) = Send(u, a.inbox)
    BY <1>6 DEF Deliver
  <2> HIDE DEF v
  <2>2. SameWorld(u, v)
    BY <1>2, <1>3, <1>4, AgentChanges DEF SameAgent
  <2> HIDE DEF u
  <2>3. SameWorld(u, w)
    BY <1>4, <2>2, SameIsTransitive
  <2>4. IsWorld(u) /\ u.current \in 0..Len(u.owners)
    BY <2>3, SameIsWorld DEF Good
  <2>5. SameWorld(Send(u, a.inbox), w)
    BY <2>3, <2>4, SendKeeps, SameIsTransitive
  <2> QED BY <1>6, <2>1, <2>5, SameIsGood DEF WakeSpawns
<1>7. CASE ~WakeSpawns(w.agent) /\ ~WakeSends(w.agent, m, returned)
  <2>1. Deliver(w, m) = v
    BY <1>7 DEF Deliver
  <2> HIDE DEF v
  <2> QED BY <1>4, <1>7, <2>1, SameIsGood DEF WakeSpawns
<1> QED BY <1>5, <1>6, <1>7

\* A step to a good world is good.
LEMMA BecomesGood ==
    ASSUME NEW w, Good(w), Becomes(w)
    PROVE  Good(World)'
<1>1. /\ World'.agent = w.agent /\ World'.owners = w.owners /\ World'.current = w.current
      /\ DOMAIN World' = {"agent", "owners", "current", "fate"}
  BY DEF Becomes, World
<1>2. \A v : /\ v.agent = w.agent /\ v.owners = w.owners /\ v.current = w.current
             /\ DOMAIN v = {"agent", "owners", "current", "fate"}
             => Good(v)
  BY DEF Good, IsWorld
<1>3. Good(World')
  BY <1>1, <1>2
<1> QED BY <1>3 DEF Good, IsWorld, IsAgent, IsOwners, Live

\* Discarding the events of an owner changes nothing of interest.
LEMMA DiscardChanges ==
    ASSUME NEW w, IsWorld(w), NEW i \in 1..Len(w.owners), NEW d
    PROVE  SameWorld([w EXCEPT !.owners[i].discard = d], w)
<1> DEFINE o == [w.owners[i] EXCEPT !.discard = d]
<1>1. OwnerFields \subseteq DOMAIN o /\ o.phase = w.owners[i].phase
      /\ o.torndown = w.owners[i].torndown
  BY DEF IsWorld, IsOwners, OwnerFields
<1>2. [w EXCEPT !.owners[i].discard = d] = [w EXCEPT !.owners[i] = o]
  BY DEF IsWorld, IsOwners
<1> QED BY <1>1, <1>2, OwnerDataChanges

\* The commands of the server preserve the invariant.
LEMMA StepWake ==
    ASSUME Good(World), NEW m \in Messages, Wake(m)
    PROVE  Good(World)'
BY DeliverIsGood, BecomesGood DEF Wake

\* agent:stop.
LEMMA StepStop ==
    ASSUME Good(World), Stop
    PROVE  Good(World)'
<1>1. current \in 0..Len(World.owners)
  BY DEF Good, World
<1> QED BY <1>1, StopIsGood, BecomesGood DEF Stop

\* markResetting changes nothing of interest.
LEMMA SupersedeKeeps ==
    ASSUME NEW w, Good(w), NEW discards
    PROVE  SameWorld(Supersede(w, discards), w)
<1> DEFINE b == BeginReset(IF discards THEN ResetSession(w.agent) ELSE w.agent)
           v == [w EXCEPT !.agent = BeginReset(IF discards THEN ResetSession(@) ELSE @)]
           i == w.current
           o == [w.owners[i] EXCEPT !.superseded = TRUE, !.discard = @ \/ discards]
           u == [v EXCEPT !.owners[w.current].superseded = TRUE,
                          !.owners[w.current].discard = @ \/ discards]
<1>1. SameAgent(b, w.agent)
  BY DEF Good, IsWorld, SameAgent, IsAgent, AgentFields, BeginReset, ResetSession
<1>2. v = [w EXCEPT !.agent = b]
  OBVIOUS
<1> HIDE DEF b
<1>3. SameWorld(v, w) /\ v.owners = w.owners
  BY <1>1, <1>2, AgentChanges DEF Good, IsWorld
<1>4. Supersede(w, discards) = IF i = 0 THEN v ELSE u
  BY DEF Supersede
<1>5. CASE i = 0
  BY <1>3, <1>4, <1>5
<1>6. CASE i # 0
  <2>1. i \in 1..Len(v.owners) /\ IsWorld(v)
    BY <1>3, <1>6, SameIsWorld DEF Good, IsWorld, IsOwners
  <2>2. OwnerFields \subseteq DOMAIN o /\ o.phase = v.owners[i].phase
        /\ o.torndown = v.owners[i].torndown
    BY <1>3, <2>1 DEF IsWorld, IsOwners, OwnerFields
  <2>3. u = [v EXCEPT !.owners[i] = o]
    BY <1>3, <2>1 DEF IsWorld, IsOwners
  <2> HIDE DEF v, o, u
  <2>4. SameWorld(u, v)
    BY <2>1, <2>2, <2>3, OwnerDataChanges
  <2> QED BY <1>3, <1>4, <1>6, <2>4, SameIsTransitive
<1> QED BY <1>5, <1>6

\* restartAgent: of an idle agent an exit or a wake, of any other one a stop.
LEMMA StepRestart ==
    ASSUME Good(World), NEW discards \in BOOLEAN, NEW m \in Messages \cup {None},
           Restart(discards, m)
    PROVE  Good(World)'
<1> DEFINE v == Supersede(World, discards)
           w == [v EXCEPT !.agent = Rewake(@, m), !.fate[m] = "held"]
<1>1. SameWorld(v, World) /\ Good(v)
  BY SupersedeKeeps, SameIsGood
<1>2. v.agent.status = agent.status /\ v.current = current
  BY <1>1 DEF SameWorld, World
<1>3. CASE agent.status = "idle"
  <2>1. Good(Exit(v))
    BY <1>1, <1>2, <1>3, NoCurrentIsVacant, ExitIsGood DEF Good
  <2>2. Good(Deliver(v, m)) /\ (~healthy => Good(Exit(Deliver(v, m))))
    BY <1>1, <1>2, <1>3, DeliverIsGood, ExitIsGood
  <2>3. Becomes(IF m = None THEN Exit(v)
                ELSE IF healthy THEN Deliver(v, m) ELSE Exit(Deliver(v, m)))
    BY <1>3 DEF Restart
  <2> HIDE DEF v
  <2> QED BY <2>1, <2>2, <2>3, BecomesGood
<1>4. CASE agent.status # "idle"
  <2> DEFINE u == IF m = None THEN v ELSE w
  <2>1. Becomes(StopSession(u, current))
    BY <1>4 DEF Restart
  <2>2. Good(u) /\ Len(u.owners) = Len(v.owners)
    <3>1. IsWorld(v)
      BY <1>1 DEF Good
    <3> HIDE DEF v
    <3>2. /\ w.owners = v.owners /\ w.current = v.current /\ DOMAIN w = DOMAIN v
          /\ w.agent = Rewake(v.agent, m)
      BY <3>1 DEF IsWorld
    <3>3. SameAgent(w.agent, v.agent)
      BY <3>1, <3>2 DEF SameAgent, Rewake, IsWorld, IsAgent, AgentFields
    <3> HIDE DEF w
    <3>4. SameWorld(w, v)
      BY <3>1, <3>2, <3>3 DEF SameWorld, SameAgent, IsWorld
    <3> QED BY <1>1, <3>4, SameIsGood, SameIsWorld
  <2>3. current \in 0..Len(u.owners)
    BY <1>1, <1>2, <2>2 DEF Good
  <2> HIDE DEF u
  <2> QED BY <2>1, <2>2, <2>3, StopIsGood, BecomesGood
<1> QED BY <1>3, <1>4

\* Steps that leave the world alone.
LEMMA StepUnchanged ==
    ASSUME Good(World), UNCHANGED <<agent, owners, current, fate>>
    PROVE  Good(World)'
<1>1. Becomes(World)
  BY DEF Becomes, World
<1> QED BY <1>1, BecomesGood

\* The world of a state, by its fields.
LEMMA Fields ==
    /\ World.agent = agent /\ World.owners = owners /\ World.current = current
    /\ Good(World) => /\ IsWorld(World) /\ Len(owners) \in Nat
                      /\ DOMAIN owners = 1..Len(World.owners)
                      /\ current \in 0..Len(World.owners)
<1>1. World.agent = agent /\ World.owners = owners /\ World.current = current
  BY DEF World
<1>2. Good(World) => IsWorld(World) /\ current \in 0..Len(World.owners)
  BY <1>1 DEF Good
<1>3. IsWorld(World) => IsOwners(owners)
  BY <1>1 DEF IsWorld
<1>4. IsOwners(owners) => Len(owners) \in Nat /\ DOMAIN owners = 1..Len(owners)
  BY DEF IsOwners
<1> QED BY <1>1, <1>2, <1>3, <1>4

\* A world that has the owners and the status of another one.
LEMMA SameFields ==
    ASSUME NEW w, IsWorld(w), NEW v, DOMAIN v = DOMAIN w, v.owners = w.owners,
           v.current = w.current, SameAgent(v.agent, w.agent)
    PROVE  SameWorld(v, w)
BY DEF IsWorld, SameWorld, SameAgent

\* When the current owner leaves nobody is live.
LEMMA LeftVacant ==
    ASSUME NEW w, Good(w), w.current # 0,
           NEW o, OwnerFields \subseteq DOMAIN o, ~Live(o),
           NEW v, {"agent", "owners", "current", "fate"} \subseteq DOMAIN v,
           IsAgent(v.agent), v.current = 0, v.owners = [w.owners EXCEPT ![w.current] = o]
    PROVE  Vacant(v)
<1>1. w.current \in 1..Len(w.owners) /\ IsOwners(w.owners)
  BY DEF Good, IsWorld, IsOwners
<1>2. /\ Len(v.owners) = Len(w.owners)
      /\ v.owners = [j \in 1..Len(v.owners) |-> v.owners[j]]
      /\ v.owners[w.current] = o
      /\ \A j \in 1..Len(w.owners) : j # w.current => v.owners[j] = w.owners[j]
  BY <1>1 DEF IsOwners
<1>3. IsOwners(v.owners)
  BY <1>1, <1>2 DEF IsOwners
<1>4. NobodyLive(v)
  BY <1>2 DEF NobodyLive, Good
<1> QED BY <1>3, <1>4 DEF Vacant, IsWorld

\* An owner nothing will look at again is not live.
LEMMA OverIsOver ==
    ASSUME NEW o
    PROVE  OwnerFields \subseteq DOMAIN Over(o) /\ ~Live(Over(o))
BY DEF Over, NewOwner, OwnerFields, Live

\* An owner that is not the current one may go.
LEMMA GoneIsGood ==
    ASSUME NEW w, Good(w), NEW i \in 1..Len(w.owners), i # w.current,
           NEW o, OwnerFields \subseteq DOMAIN o, ~Live(o),
           NEW v, v = [w EXCEPT !.owners[i] = o]
    PROVE  Good(v)
<1>1. /\ IsWorld(v) /\ v.current = w.current /\ v.agent = w.agent
      /\ Len(v.owners) = Len(w.owners) /\ v.owners[i] = o
      /\ \A j \in 1..Len(w.owners) : j # i => v.owners[j] = w.owners[j]
  BY OwnerChanges DEF Good
<1>2. \A j \in 1..Len(v.owners) : Live(v.owners[j]) => j = v.current
  BY <1>1 DEF Good
<1>3. w.current # 0 => v.owners[w.current] = w.owners[w.current]
  BY <1>1 DEF Good, IsWorld, IsOwners
<1> QED BY <1>1, <1>2, <1>3 DEF Good

\* The steps of a session.  The factory opens a session for the current owner, or
\* for one that was replaced and is stopped at once.
LEMMA StepFactoryOpens ==
    ASSUME Good(World), NEW i \in DOMAIN owners, NEW delivery, FactoryOpens(i, delivery)
    PROVE  Good(World)'
<1> DEFINE o == owners[i]
           n == [o EXCEPT !.phase = "open", !.delivery = delivery, !.receipt = "due",
                          !.held.turn = "starting", !.held.root = o.first]
           b == AdmissionsStarted(AttachSession(agent, i), <<o.first>>, {}, FALSE)
           started == [World EXCEPT
               !.agent = AdmissionsStarted(AttachSession(@, i), <<o.first>>, {}, FALSE),
               !.owners[i] = [o EXCEPT !.phase = "open", !.delivery = delivery, !.receipt = "due",
                                       !.held.turn = "starting", !.held.root = o.first]]
<1>1. IsWorld(World) /\ i \in 1..Len(World.owners) /\ o = World.owners[i]
  BY Fields
<1>2. CASE o.torndown \/ current # i
  <2> DEFINE v == WithPhase(World, i, "stopping")
  <2>1. Becomes(v)
    BY <1>2 DEF FactoryOpens, WithPhase
  <2>2. i # World.current
    BY <1>1, <1>2, Fields DEF Good
  <2>3. Good(v)
    BY <1>1, <2>2, LeavesIsGood
  <2> HIDE DEF v
  <2> QED BY <2>1, <2>3, BecomesGood
<1>3. CASE ~o.torndown /\ current = i
  <2>1. Becomes(started)
    BY <1>3 DEF FactoryOpens
  <2>2. OwnerFields \subseteq DOMAIN n /\ n.phase = "open" /\ n.torndown = o.torndown
    BY <1>1 DEF IsWorld, IsOwners, OwnerFields
  <2>3. IsAgent(b) /\ b.status = agent.status /\ b.epoch = i
    <3> DEFINE c == [agent EXCEPT !.pending = <<>>, !.epoch = i, !.lease = "none", !.idle = FALSE]
    <3>1. IsAgent(c) /\ c.status = agent.status /\ c.epoch = i
      BY <1>1, Fields DEF IsWorld, IsAgent, AgentFields
    <3>2. AttachSession(agent, i) = Recover(c, agent.pending)
      BY DEF AttachSession
    <3> HIDE DEF c
    <3>3. SameAgent(AttachSession(agent, i), c)
      BY <3>1, <3>2, RecoverKeeps
    <3> DEFINE d == AttachSession(agent, i)
    <3>4. IsAgent(d) /\ d.status = agent.status /\ d.epoch = i
      BY <3>1, <3>3 DEF SameAgent
    <3> HIDE DEF d
    <3>5. SameAgent(AdmissionsStarted(d, <<o.first>>, {}, FALSE), d)
      BY <3>4, AdmissionsKeep
    <3>6. b = AdmissionsStarted(d, <<o.first>>, {}, FALSE)
      BY DEF d
    <3> QED BY <3>4, <3>5, <3>6 DEF SameAgent
  <2> DEFINE u == [World EXCEPT !.agent = b]
  <2>4. started = [u EXCEPT !.owners[i] = n]
    BY <1>1, Fields DEF IsWorld
  <2>5. IsWorld(u) /\ u.owners = owners /\ u.current = i /\ u.agent = b
    BY <1>1, <1>3, <2>3, Fields DEF IsWorld
  <2> HIDE DEF started, u, n, b
  <2>6. /\ IsWorld(started) /\ started.current = i /\ started.agent = b
        /\ Len(started.owners) = Len(owners) /\ started.owners[i] = n
        /\ \A j \in 1..Len(owners) : j # i => started.owners[j] = owners[j]
    BY <1>1, <2>2, <2>4, <2>5, OwnerChanges, Fields
  <2>7. \A j \in 1..Len(owners) : Live(owners[j]) => j = i
    BY <1>3, Fields DEF Good
  <2>8. agent.status # "idle" /\ i # 0
    BY <1>1, <1>3, Fields DEF Good
  <2>9. Good(started)
    BY <1>1, <1>3, <2>2, <2>3, <2>6, <2>7, <2>8, Fields DEF Good
  <2> QED BY <2>1, <2>9, BecomesGood
<1> QED BY <1>2, <1>3

\* The factory fails: the current owner leaves and the agent exits.
LEMMA StepFactoryFails ==
    ASSUME Good(World), NEW i \in DOMAIN owners, FactoryFails(i)
    PROVE  Good(World)'
<1> DEFINE w == ReportSpawnFailure(World, i)
           v == [w EXCEPT !.owners[i] = Over(@)]
           u == [v EXCEPT !.current = 0]
<1>1. i \in 1..Len(World.owners) /\ IsWorld(World)
  BY Fields
<1>2. SameWorld(w, World) /\ Good(w)
  BY <1>1, ReportKeeps, SameIsGood
<1>3. w.current = current /\ i \in 1..Len(w.owners) /\ IsWorld(w)
  BY <1>1, <1>2, SameIsWorld, Fields
<1>4. Becomes(IF current = i THEN Exit(u) ELSE v)
  BY DEF FactoryFails
<1> HIDE DEF w
<1>5. v = [w EXCEPT !.owners[i] = Over(w.owners[i])]
  BY <1>3 DEF IsWorld, IsOwners
<1>6. CASE current = i
  <2>1. /\ DOMAIN u = DOMAIN w /\ u.agent = w.agent /\ u.current = 0
        /\ u.owners = [w.owners EXCEPT ![w.current] = Over(w.owners[i])]
    BY <1>3, <1>5, <1>6 DEF IsWorld
  <2> HIDE DEF u
  <2>2. Vacant(u)
    BY <1>2, <1>3, <1>6, <2>1, OverIsOver, LeftVacant DEF IsWorld
  <2> QED BY <1>4, <1>6, <2>2, ExitIsGood, BecomesGood
<1>7. CASE current # i
  <2> HIDE DEF v
  <2>1. Good(v)
    BY <1>2, <1>3, <1>5, <1>7, OverIsOver, GoneIsGood
  <2> QED BY <1>4, <1>7, <2>1, BecomesGood
<1> QED BY <1>6, <1>7

\* SameWorld operators preserve the invariant: a change of the agent,
LEMMA AgentIsGood ==
    ASSUME NEW w, Good(w), NEW b, SameAgent(b, w.agent)
    PROVE  Good([w EXCEPT !.agent = b])
BY AgentChanges, SameIsGood DEF Good

\* command_accepted,
LEMMA AcceptIsGood ==
    ASSUME NEW w, Good(w), NEW i, NEW m
    PROVE  Good(Accept(w, i, m))
BY AcceptKeeps, SameIsGood DEF Good

\* command_failed,
LEMMA InputsFailIsGood ==
    ASSUME NEW w, Good(w), NEW i, NEW msgs
    PROVE  Good(InputsFail(w, i, msgs))
BY InputsFailKeeps, SameIsGood DEF Good

\* turn_completed,
LEMMA CompleteIsGood ==
    ASSUME NEW w, Good(w), NEW i
    PROVE  Good(Complete(w, i))
BY CompleteKeeps, SameIsGood DEF Good

\* the send effects,
LEMMA SendIsGood ==
    ASSUME NEW w, Good(w), NEW msgs
    PROVE  Good(Send(w, msgs))
BY SendKeeps, SameIsGood DEF Good

\* reportSpawnFailure,
LEMMA ReportIsGood ==
    ASSUME NEW w, Good(w), NEW i \in 1..Len(w.owners)
    PROVE  /\ Good(ReportSpawnFailure(w, i)) /\ ReportSpawnFailure(w, i).current = w.current
           /\ Len(ReportSpawnFailure(w, i).owners) = Len(w.owners)
<1>1. SameWorld(ReportSpawnFailure(w, i), w)
  BY ReportKeeps DEF Good
<1> QED BY <1>1, SameIsGood, SameIsWorld

\* and what a session holds.
LEMMA HeldIsGood ==
    ASSUME Good(World), NEW i \in DOMAIN owners, NEW h,
           NEW v, v = [World EXCEPT !.owners[i].held = h]
    PROVE  Good(v)
<1>1. SameWorld(v, World)
  BY HeldChanges, Fields
<1> QED BY <1>1, SameIsGood

\* turn_started and turn_work change only the lease and the idle clock.
LEMMA TurnStartedKeeps ==
    ASSUME NEW a, IsAgent(a)
    PROVE  SameAgent(TurnStarted(a), a) /\ SameAgent(ReopenedByWork(a), a)
BY DEF SameAgent, IsAgent, AgentFields, TurnStarted, ReopenedByWork

\* The backend admits the turn.
LEMMA StepTurnStarts ==
    ASSUME Good(World), NEW i \in DOMAIN owners, TurnStarts(i)
    PROVE  Good(World)'
<1> DEFINE m == owners[i].held.root
           h == [World.owners[i].held EXCEPT !.turn = "working", !.root = None, !.taken = {m}]
           v == [World EXCEPT !.owners[i].held =
                           [@ EXCEPT !.turn = "working", !.root = None, !.taken = {m}]]
           w == Accept(v, i, m)
           u == [w EXCEPT !.agent = TurnStarted(@)]
<1>1. Becomes(IF Listens(w, i) /\ agent.epoch = i THEN u ELSE w)
  BY DEF TurnStarts
<1>2. Good(v)
  <2>1. v = [World EXCEPT !.owners[i].held = h]
    BY Fields DEF IsWorld, IsOwners
  <2> HIDE DEF v, h
  <2> QED BY <2>1, HeldIsGood
<1> HIDE DEF v
<1>3. Good(w)
  BY <1>2, AcceptIsGood
<1> HIDE DEF w
<1>4. Good(u)
  BY <1>3, TurnStartedKeeps, AgentIsGood DEF Good, IsWorld
<1> HIDE DEF u
<1> QED BY <1>1, <1>3, <1>4, BecomesGood

\* The backend refuses it and the session stops.
LEMMA StepTurnRefused ==
    ASSUME Good(World), NEW i \in DOMAIN owners, TurnRefused(i)
    PROVE  Good(World)'
<1> DEFINE w == IF Listens(World, i) THEN ReportSpawnFailure(World, i) ELSE World
<1>1. Becomes(StopSession(w, i))
  BY DEF TurnRefused
<1>2. Good(w) /\ Len(w.owners) = Len(World.owners)
  BY ReportIsGood, Fields
<1>3. i \in 0..Len(w.owners)
  BY <1>2, Fields
<1> HIDE DEF w
<1> QED BY <1>1, <1>2, <1>3, StopIsGood, BecomesGood

\* Likewise.
WithReceipt(w, i, r) == [w EXCEPT !.owners[i].receipt = r]

\* A receipt changes nothing of interest.
LEMMA ReceiptChanges ==
    ASSUME NEW w, Good(w), NEW i \in 1..Len(w.owners), NEW r,
           NEW v, v = WithReceipt(w, i, r)
    PROVE  SameWorld(v, w) /\ Good(v) /\ v.agent = w.agent
           /\ \A j \in 1..Len(w.owners) : v.owners[j].phase = w.owners[j].phase
<1> DEFINE o == [w.owners[i] EXCEPT !.receipt = r]
<1>1. OwnerFields \subseteq DOMAIN o /\ o.phase = w.owners[i].phase
      /\ o.torndown = w.owners[i].torndown
  BY DEF Good, IsWorld, IsOwners, OwnerFields
<1>2. v = [w EXCEPT !.owners[i] = o]
  BY DEF Good, IsWorld, IsOwners, WithReceipt
<1>3. v.agent = w.agent
  BY DEF Good, IsWorld, WithReceipt
<1> HIDE DEF o
<1>4. SameWorld(v, w)
  BY <1>1, <1>2, OwnerDataChanges DEF Good
<1> QED BY <1>3, <1>4, SameIsGood DEF SameWorld

\* The first receipt (managerPolicy.ts "spawned") makes an agent running and
\* leaves its epoch alone.
LEMMA SpawnedAgent ==
    ASSUME NEW a, IsAgent(a)
    PROVE  /\ IsAgent(Spawned(a))
           /\ Spawned(a).status = "running"
           /\ Spawned(a).epoch = a.epoch
<1> DEFINE s == Stable(a, "running")
<1>1. IsAgent(s) /\ s.status = "running" /\ s.epoch = a.epoch
  BY DEF Stable, IsAgent, AgentFields
<1>3. Spawned(a) = Drained(s)
  BY DEF Spawned
<1> HIDE DEF s
<1>2. IsAgent(Drained(s)) /\ Drained(s).status = s.status /\ Drained(s).epoch = s.epoch
  BY <1>1 DEF Drained, IsAgent, AgentFields
<1> QED BY <1>1, <1>2, <1>3

\* The receipt makes the agent running: its current owner has an open session.
LEMMA StepStartReceipt ==
    ASSUME Good(World), NEW i \in DOMAIN owners, StartReceipt(i)
    PROVE  Good(World)'
<1> DEFINE o == owners[i]
           waits == ~o.established /\ ~o.reported
           w == WithReceipt(World, i, IF waits THEN "timed" ELSE "none")
           v == WithReceipt(World, i, "none")
           u == [w EXCEPT !.agent = Spawned(@)]
           runs == /\ current = i /\ ~o.superseded /\ o.phase = "open"
                   /\ agent.status = "starting"
<1>1. Becomes(IF runs THEN Send(u, agent.inbox) ELSE v)
  BY DEF StartReceipt, WithReceipt
<1>2. i \in 1..Len(World.owners) /\ IsWorld(World)
  BY Fields
<1>3. Good(v)
  BY <1>2, ReceiptChanges
<1>4. SameWorld(w, World) /\ Good(w) /\ w.agent = agent /\ w.owners[i].phase = o.phase
  BY <1>2, ReceiptChanges, Fields
<1> HIDE DEF w, v
<1>5. CASE runs
  <2>1. /\ u.owners = w.owners /\ u.current = i /\ DOMAIN u = DOMAIN w
        /\ u.agent = Spawned(agent)
    BY <1>4, <1>5, Fields, SameIsWorld DEF IsWorld
  <2>0. IsAgent(agent)
    BY <1>2, Fields DEF IsWorld
  <2>2. IsAgent(u.agent) /\ u.agent.status = "running" /\ u.agent.epoch = agent.epoch
    BY <2>0, <2>1, SpawnedAgent
  <2>3. w.current = i /\ w.owners[i].phase = "open" /\ i # 0
    BY <1>2, <1>4, <1>5, Fields, SameIsWorld
  <2> HIDE DEF u
  <2>4. Good(u)
    BY <1>4, <2>1, <2>2, <2>3 DEF Good, IsWorld
  <2> QED BY <1>1, <1>5, <2>4, SendIsGood, BecomesGood
<1>6. CASE ~runs
  <2> HIDE DEF runs
  <2> QED BY <1>1, <1>3, <1>6, BecomesGood
<1> QED BY <1>5, <1>6

\* The owner is established, or given up by a stop.
LEMMA StepSessionStarts ==
    ASSUME Good(World), NEW i \in DOMAIN owners, NEW saved, SessionStarts(i, saved)
    PROVE  Good(World)'
<1> DEFINE w == ReportSpawnFailure(World, i)
           d == [w EXCEPT !.owners[i].discard = TRUE]
           o == [World.owners[i] EXCEPT !.established = TRUE,
                                        !.receipt = IF @ = "timed" THEN "none" ELSE @]
           v == [World EXCEPT !.owners[i].established = TRUE,
                              !.owners[i].receipt = IF @ = "timed" THEN "none" ELSE @]
<1>1. Becomes(IF saved THEN v ELSE StopSession(d, i))
  BY DEF SessionStarts
<1>2. i \in 1..Len(World.owners) /\ IsWorld(World)
  BY Fields
<1>3. Good(v)
  <2>1. OwnerFields \subseteq DOMAIN o /\ o.phase = World.owners[i].phase
        /\ o.torndown = World.owners[i].torndown
    BY <1>2 DEF IsWorld, IsOwners, OwnerFields
  <2>2. v = [World EXCEPT !.owners[i] = o]
    BY <1>2 DEF IsWorld, IsOwners
  <2> HIDE DEF v, o
  <2> QED BY <1>2, <2>1, <2>2, OwnerDataChanges, SameIsGood
<1>4. Good(StopSession(d, i))
  <2>1. Good(w) /\ IsWorld(w) /\ i \in 1..Len(w.owners)
    BY <1>2, ReportIsGood DEF Good
  <2> HIDE DEF w
  <2>2. SameWorld(d, w)
    BY <2>1, DiscardChanges
  <2> HIDE DEF d
  <2>3. Good(d) /\ i \in 0..Len(d.owners)
    BY <2>1, <2>2, SameIsGood, SameIsWorld
  <2> QED BY <2>3, StopIsGood
<1> HIDE DEF v, d
<1> QED BY <1>1, <1>3, <1>4, BecomesGood

\* A session that never says it started is stopped.
LEMMA StepHandshakeTimeout ==
    ASSUME Good(World), NEW i \in DOMAIN owners, HandshakeTimeout(i)
    PROVE  Good(World)'
<1> DEFINE w == ReportSpawnFailure(World, i)
           v == WithReceipt(w, i, "none")
<1>1. Becomes(StopSession(v, i))
  BY DEF HandshakeTimeout, WithReceipt
<1>2. Good(w) /\ i \in 1..Len(w.owners)
  BY ReportIsGood, Fields
<1> HIDE DEF w
<1>3. SameWorld(v, w) /\ Good(v)
  BY <1>2, ReceiptChanges
<1> HIDE DEF v
<1>4. i \in 0..Len(v.owners)
  BY <1>2, <1>3, SameIsWorld
<1> QED BY <1>1, <1>3, <1>4, StopIsGood, BecomesGood

\* The steps of a session that only change what it holds.
LEMMA StepBoundaryOffer ==
    ASSUME Good(World), NEW i \in DOMAIN owners, BoundaryOffer(i)
    PROVE  Good(World)'
<1> DEFINE h == owners[i].held
           v == [World EXCEPT !.owners[i].held =
                    [h EXCEPT !.steering = {Head(h.queue)}, !.queue = Tail(@)]]
<1>1. Becomes(v)
  BY DEF BoundaryOffer
<1>2. Good(v)
  BY HeldIsGood
<1> HIDE DEF v
<1> QED BY <1>1, <1>2, BecomesGood

\* startNextQueued.
LEMMA StepNextQueued ==
    ASSUME Good(World), NEW i \in DOMAIN owners, NextQueued(i)
    PROVE  Good(World)'
<1> DEFINE h == Opens(World.owners[i].held)
           v == [World EXCEPT !.owners[i].held = Opens(@)]
<1>1. Becomes(v)
  BY DEF NextQueued
<1>2. v = [World EXCEPT !.owners[i].held = h]
  OBVIOUS
<1> HIDE DEF v, h
<1> QED BY <1>1, <1>2, HeldIsGood, BecomesGood

\* A turn takes a message,
LEMMA StepTurnTakes ==
    ASSUME Good(World), NEW i \in DOMAIN owners, NEW m \in Messages, TurnTakes(i, m)
    PROVE  Good(World)'
<1> DEFINE h == Took(World.owners[i].held, m)
           v == [World EXCEPT !.owners[i].held = Took(@, m)]
<1>1. Becomes(Accept(v, i, m))
  BY DEF TurnTakes
<1>2. v = [World EXCEPT !.owners[i].held = h]
  OBVIOUS
<1> HIDE DEF v, h
<1>3. Good(v)
  BY <1>2, HeldIsGood
<1> QED BY <1>1, <1>3, AcceptIsGood, BecomesGood

\* refuses it,
LEMMA StepInputRefused ==
    ASSUME Good(World), NEW i \in DOMAIN owners, NEW m \in Messages, InputRefused(i, m)
    PROVE  Good(World)'
<1> DEFINE h == Unqueued(World.owners[i].held, m)
           v == [World EXCEPT !.owners[i].held = Unqueued(@, m)]
<1>1. Becomes(InputsFail(v, i, {m}))
  BY DEF InputRefused
<1>2. v = [World EXCEPT !.owners[i].held = h]
  BY Fields DEF IsWorld, IsOwners
<1> HIDE DEF v, h
<1>3. Good(v)
  BY <1>2, HeldIsGood
<1> QED BY <1>1, <1>3, InputsFailIsGood, BecomesGood

\* or is too busy.
LEMMA StepTurnBusy ==
    ASSUME Good(World), NEW i \in DOMAIN owners, NEW m \in Messages, TurnBusy(i, m)
    PROVE  Good(World)'
<1> DEFINE steers == owners[i].delivery = "steer"
           h == Requeued(World.owners[i].held, m, steers)
           w == [World EXCEPT !.owners[i].held = Requeued(@, m, steers)]
           u == [w EXCEPT !.agent = AdmissionAcknowledged(@, m)]
<1>1. Becomes(IF steers /\ Listens(w, i) /\ agent.epoch = i THEN u ELSE w)
  BY DEF TurnBusy
<1>2. w = [World EXCEPT !.owners[i].held = h]
  OBVIOUS
<1> HIDE DEF w, h
<1>3. Good(w)
  BY <1>2, HeldIsGood
<1>4. SameAgent(AdmissionAcknowledged(w.agent, m), w.agent)
  BY <1>3, AdmissionsKeep DEF Good, IsWorld
<1>5. Good(u)
  BY <1>3, <1>4, AgentIsGood
<1> HIDE DEF u
<1> QED BY <1>1, <1>3, <1>5, BecomesGood

\* The backend gives a message back.
LEMMA StepCommandReturned ==
    ASSUME Good(World), NEW i \in DOMAIN owners, NEW m \in Messages,
           NEW retryable \in BOOLEAN, CommandReturned(i, m, retryable)
    PROVE  Good(World)'
<1> DEFINE listens == Listens(World, i) /\ ~owners[i].superseded
           h == [World.owners[i].held EXCEPT !.taken = @ \ {m}]
           w == [World EXCEPT !.owners[i].held.taken = @ \ {m}]
           abandoned == [w EXCEPT !.fate[m] = "abandoned"]
           kept == [w EXCEPT !.agent = QueueDelivery(@, <<m>>), !.fate[m] = "held"]
           reported == [w EXCEPT !.fate[m] = "reported"]
<1>1. Becomes(IF ~listens THEN abandoned ELSE IF retryable THEN kept ELSE reported)
  BY DEF CommandReturned
<1>2. w = [World EXCEPT !.owners[i].held = h]
  BY Fields DEF IsWorld, IsOwners
<1> HIDE DEF w, h
<1>3. Good(w) /\ IsWorld(w)
  BY <1>2, HeldIsGood DEF Good
<1>4. Good(abandoned) /\ Good(reported)
  <2>1. ASSUME NEW f PROVE Good([w EXCEPT !.fate = f])
    BY <1>3, FateChanges, SameIsGood
  <2> QED BY <2>1
<1>5. Good(kept)
  <2>1. /\ DOMAIN kept = DOMAIN w /\ kept.owners = w.owners /\ kept.current = w.current
        /\ kept.agent = QueueDelivery(w.agent, <<m>>)
    BY <1>3 DEF IsWorld
  <2> HIDE DEF kept
  <2>2. SameAgent(kept.agent, w.agent)
    BY <1>3, <2>1, QueueDeliveryKeeps DEF IsWorld
  <2> QED BY <1>3, <2>1, <2>2, SameFields, SameIsGood
<1> HIDE DEF abandoned, kept, reported, listens
<1> QED BY <1>1, <1>4, <1>5, BecomesGood

\* A turn ends.
LEMMA StepTurnCompletes ==
    ASSUME Good(World), NEW i \in DOMAIN owners, TurnCompletes(i)
    PROVE  Good(World)'
<1> DEFINE h == owners[i].held
           k == [h EXCEPT !.turn = "none", !.steering = {}, !.taken = {}]
           o == [World.owners[i] EXCEPT !.ended = TRUE, !.held = k]
           w == [World EXCEPT !.owners[i].ended = TRUE, !.owners[i].held = k]
<1>1. Becomes(Complete(InputsFail(w, i, h.steering), i))
  BY DEF TurnCompletes
<1>2. i \in 1..Len(World.owners) /\ IsWorld(World)
  BY Fields
<1> HIDE DEF k
<1>3. OwnerFields \subseteq DOMAIN o /\ o.phase = World.owners[i].phase
      /\ o.torndown = World.owners[i].torndown
  BY <1>2 DEF IsWorld, IsOwners, OwnerFields
<1>4. w = [World EXCEPT !.owners[i] = o]
  BY <1>2 DEF IsWorld, IsOwners
<1> HIDE DEF w, o
<1>5. Good(w)
  BY <1>2, <1>3, <1>4, OwnerDataChanges, SameIsGood
<1> QED BY <1>1, <1>5, InputsFailIsGood, CompleteIsGood, BecomesGood

\* Late work reopens it.
LEMMA StepWorkAfterTerminal ==
    ASSUME Good(World), NEW i \in DOMAIN owners, WorkAfterTerminal(i)
    PROVE  Good(World)'
<1> DEFINE h == [World.owners[i].held EXCEPT !.turn = "working"]
           w == [World EXCEPT !.owners[i].held.turn = "working"]
           u == [w EXCEPT !.agent = ReopenedByWork(@)]
<1>1. Becomes(IF Listens(w, i) /\ agent.epoch = i THEN u ELSE w)
  BY DEF WorkAfterTerminal
<1>2. w = [World EXCEPT !.owners[i].held = h]
  BY Fields DEF IsWorld, IsOwners
<1> HIDE DEF w, h
<1>3. Good(w)
  BY <1>2, HeldIsGood
<1>4. Good(u)
  BY <1>3, TurnStartedKeeps, AgentIsGood DEF Good, IsWorld
<1> HIDE DEF u
<1> QED BY <1>1, <1>3, <1>4, BecomesGood

\* The backend ends by itself: its owner keeps its place until it closes.
LEMMA StepCrash ==
    ASSUME Good(World), NEW i \in DOMAIN owners, Crash(i)
    PROVE  Good(World)'
<1> DEFINE v == WithPhase(World, i, "crashed")
<1>1. Becomes(v) /\ World.owners[i].phase = "open"
  BY Fields DEF Crash, WithPhase
<1>2. Good(v)
  BY <1>1, Fields, LeavesIsGood
<1> HIDE DEF v
<1> QED BY <1>1, <1>2, BecomesGood

\* What a session holds fails before its resources are released.
LEMMA StepFinishes ==
    ASSUME Good(World), NEW i \in DOMAIN owners, Finishes(i)
    PROVE  Good(World)'
<1> DEFINE w == FailHeld(World, i)
           u == WithPhase(w, i, "ended")
           v == [w EXCEPT !.owners[i].phase = "ended", !.owners[i].held = Empty]
<1>1. /\ Becomes(IF owners[i].held.turn = "working" THEN Complete(v, i) ELSE v)
      /\ owners[i].phase \in {"stopping", "crashed"}
  BY DEF Finishes
<1>2. SameWorld(w, World) /\ Good(w) /\ i \in 1..Len(w.owners)
  BY Fields, FailHeldKeeps, SameIsGood, SameIsWorld
<1>3. w.owners[i].phase # "opening"
  BY <1>1, <1>2, Fields DEF SameWorld
<1> HIDE DEF w
<1>4. Good(u) /\ IsWorld(u) /\ i \in 1..Len(u.owners)
  BY <1>2, <1>3, LeavesIsGood, PhaseChanges DEF Good
<1>5. v = [u EXCEPT !.owners[i].held = Empty]
  BY <1>2 DEF WithPhase, Good, IsWorld, IsOwners
<1> HIDE DEF u, v
<1>6. Good(v)
  BY <1>4, <1>5, HeldChanges, SameIsGood
<1> QED BY <1>1, <1>6, CompleteIsGood, BecomesGood

\* session_closed detaches the epoch and leaves an agent.
LEMMA ClosedIsAgent ==
    ASSUME NEW a, IsAgent(a)
    PROVE  IsAgent(SessionClosed(a))
<1> DEFINE b == [a EXCEPT !.pending = <<>>, !.epoch = NoSession, !.lease = "detached"]
<1>1. IsAgent(b)
  BY DEF IsAgent
<1>2. SessionClosed(a) = Recover(b, a.pending)
  BY DEF SessionClosed
<1> HIDE DEF b
<1> QED BY <1>1, <1>2, RecoverKeeps DEF SameAgent

\* teardown: the current owner leaves and the agent exits.
LEMMA StepCloses ==
    ASSUME Good(World), NEW i \in DOMAIN owners, Closes(i)
    PROVE  Good(World)'
<1> DEFINE w == ReportSpawnFailure(World, i)
           v == [w EXCEPT !.current = 0, !.owners[i] = Over(@),
                          !.agent = IF @.epoch = i THEN SessionClosed(@) ELSE @]
           u == [World EXCEPT !.owners[i] = Over(@)]
           ignored == owners[i].torndown \/ current # i
<1>1. Becomes(IF ignored THEN u ELSE Exit(v))
  BY DEF Closes
<1>2. i \in 1..Len(World.owners) /\ IsWorld(World)
  BY Fields
<1>3. CASE ignored
  <2>1. i # World.current
    BY <1>2, <1>3, Fields DEF Good
  <2>2. u = [World EXCEPT !.owners[i] = Over(World.owners[i])]
    BY <1>2 DEF IsWorld, IsOwners
  <2> HIDE DEF u
  <2>3. Good(u)
    BY <1>2, <2>1, <2>2, OverIsOver, GoneIsGood
  <2> HIDE DEF ignored
  <2> QED BY <1>1, <1>3, <2>3, BecomesGood
<1>4. CASE ~ignored
  <2>1. Good(w) /\ w.current = i /\ i \in 1..Len(w.owners)
    BY <1>2, <1>4, ReportIsGood, Fields
  <2> HIDE DEF w
  <2>2. /\ v.current = 0 /\ DOMAIN v = DOMAIN w
        /\ v.owners = [w.owners EXCEPT ![w.current] = Over(w.owners[i])]
        /\ v.agent = IF w.agent.epoch = i THEN SessionClosed(w.agent) ELSE w.agent
    BY <2>1 DEF Good, IsWorld, IsOwners
  <2> HIDE DEF v
  <2>3. IsAgent(v.agent)
    BY <2>1, <2>2, ClosedIsAgent DEF Good, IsWorld
  <2>4. Vacant(v)
    BY <2>1, <2>2, <2>3, OverIsOver, LeftVacant DEF Good, IsWorld
  <2> HIDE DEF ignored
  <2> QED BY <1>1, <1>4, <2>4, ExitIsGood, BecomesGood
<1> QED BY <1>3, <1>4

\* A stop that was decided on the agent alone is told to the current owner.
LEMMA StopsAgentIsGood ==
    ASSUME Good(World), NEW b, IsAgent(b), b.epoch = agent.epoch, b.status = "stopping",
           NEW w, w = [World EXCEPT !.agent = b]
    PROVE  /\ Good(w) /\ current \in 0..Len(w.owners)
           /\ Good(StopSession(w, current))
<1>1. Good(w)
  BY Fields, StatusChanges
<1>2. w.owners = owners
  BY Fields DEF IsWorld
<1>3. current \in 0..Len(w.owners)
  BY <1>2, Fields
<1> QED BY <1>1, <1>3, StopIsGood

\* The stops the tick decides on.
LEMMA StallsIsAgent ==
    ASSUME Good(World)
    PROVE  /\ IsAgent(Stalls(agent)) /\ Stalls(agent).epoch = agent.epoch
           /\ Stalls(agent).status = "stopping"
           /\ IsAgent(Stops(agent)) /\ Stops(agent).epoch = agent.epoch
           /\ Stops(agent).status = "stopping"
BY Fields DEF IsWorld, IsAgent, AgentFields, Stalls, Stops

\* A silent turn.
LEMMA StepTickStalled ==
    ASSUME Good(World), NEW again \in BOOLEAN, TickStalled(again)
    PROVE  Good(World)'
<1> DEFINE w == [World EXCEPT !.agent = Stalls(@)]
           d == [w EXCEPT !.owners[current].discard = TRUE]
<1>1. Becomes(StopSession(IF again THEN d ELSE w, current)) /\ agent.status = "running"
  BY DEF TickStalled, Stallable
<1>2. w = [World EXCEPT !.agent = Stalls(agent)]
  BY Fields
<1> HIDE DEF w
<1>3. Good(w) /\ Good(StopSession(w, current)) /\ current \in 0..Len(w.owners)
  BY <1>2, StallsIsAgent, StopsAgentIsGood
<1>4. current \in 1..Len(w.owners)
  BY <1>1, <1>3, Fields DEF Good, IsWorld, IsOwners
<1>5. SameWorld(d, w)
  BY <1>3, <1>4, DiscardChanges DEF Good
<1> HIDE DEF d
<1>6. Good(d) /\ current \in 0..Len(d.owners)
  BY <1>3, <1>5, SameIsGood, SameIsWorld
<1>7. Good(StopSession(d, current))
  BY <1>6, StopIsGood
<1> QED BY <1>1, <1>3, <1>7, BecomesGood

\* Admissions the session never answered.
LEMMA StepTickExpires ==
    ASSUME Good(World), NEW msgs, TickExpires(msgs)
    PROVE  Good(World)'
<1> DEFINE b == Expires(agent, msgs)
           w == [World EXCEPT !.agent = Expires(@, msgs)]
<1>1. Becomes(IF current = agent.epoch THEN StopSession(w, current) ELSE w)
  BY DEF TickExpires
<1>2. IsAgent(b) /\ b.epoch = agent.epoch /\ b.status = "stopping"
  <2> DEFINE c == [agent EXCEPT !.status = "stopping", !.idle = FALSE,
                                !.pending = Without(@, msgs)]
  <2>1. IsAgent(c) /\ c.epoch = agent.epoch /\ c.status = "stopping"
    BY Fields DEF IsWorld, IsAgent, AgentFields
  <2>2. \E s : b = Recover(c, s)
    BY DEF Expires
  <2> HIDE DEF b, c
  <2>3. ASSUME NEW s PROVE SameAgent(Recover(c, s), c)
    BY <2>1, RecoverKeeps
  <2> QED BY <2>1, <2>2, <2>3 DEF SameAgent
<1>3. w = [World EXCEPT !.agent = b]
  BY Fields
<1> HIDE DEF w, b
<1>4. Good(w) /\ Good(StopSession(w, current))
  BY <1>2, <1>3, StopsAgentIsGood
<1> QED BY <1>1, <1>4, BecomesGood

\* A reset that is stuck.
LEMMA StepTickResetStuck ==
    ASSUME Good(World), TickResetStuck
    PROVE  Good(World)'
<1> DEFINE w == [World EXCEPT !.agent = Stalls(@)]
<1>1. Becomes(StopSession(w, current))
  BY DEF TickResetStuck
<1>2. w = [World EXCEPT !.agent = Stalls(agent)]
  BY Fields
<1> HIDE DEF w
<1>3. Good(StopSession(w, current))
  BY <1>2, StallsIsAgent, StopsAgentIsGood
<1> QED BY <1>1, <1>3, BecomesGood

\* An agent that is idle for long.
LEMMA StepTickIdleStop ==
    ASSUME Good(World), TickIdleStop
    PROVE  Good(World)'
<1> DEFINE w == [World EXCEPT !.agent = Stops(@)]
<1>1. Becomes(StopSession(w, current))
  BY DEF TickIdleStop
<1>2. w = [World EXCEPT !.agent = Stops(agent)]
  BY Fields
<1> HIDE DEF w
<1>3. Good(StopSession(w, current))
  BY <1>2, StallsIsAgent, StopsAgentIsGood
<1> QED BY <1>1, <1>3, BecomesGood

\* force_exit gives the owner up before the exit spawns the next one.
LEMMA StepTickStoppingStuck ==
    ASSUME Good(World), TickStoppingStuck
    PROVE  Good(World)'
<1> DEFINE o == owners[current]
           lost == IF o.reported THEN {} ELSE {o.first}
           n == [o EXCEPT !.torndown = TRUE, !.phase = IF @ = "open" THEN "stopping" ELSE @]
           v == [World EXCEPT !.current = 0, !.owners[current] = n,
                              !.fate = Told(World, lost, "abandoned")]
<1>1. Becomes(Exit(IF current = 0 THEN World ELSE v))
  BY DEF TickStoppingStuck
<1>2. CASE current = 0
  <2>1. Vacant(World)
    BY <1>2, Fields, NoCurrentIsVacant
  <2> QED BY <1>1, <1>2, <2>1, ExitIsGood, BecomesGood
<1>3. CASE current # 0
  <2>1. current \in 1..Len(World.owners) /\ IsWorld(World)
    BY <1>3, Fields DEF Good, IsWorld, IsOwners
  <2>2. OwnerFields \subseteq DOMAIN n /\ ~Live(n)
    BY <2>1, Fields DEF IsWorld, IsOwners, OwnerFields, Live
  <2> HIDE DEF n
  <2>3. /\ v.current = 0 /\ v.agent = agent /\ DOMAIN v = DOMAIN World
        /\ v.owners = [World.owners EXCEPT ![World.current] = n]
    BY <2>1, Fields DEF IsWorld
  <2> HIDE DEF v
  <2>4. Vacant(v)
    BY <1>3, <2>1, <2>2, <2>3, LeftVacant, Fields DEF IsWorld
  <2> QED BY <1>1, <1>3, <2>4, ExitIsGood, BecomesGood
<1> QED BY <1>2, <1>3

\* The initial state.
LEMMA InitIsGood ==
    Init => Good(World)
<1> SUFFICES ASSUME Init PROVE Good(World)
  OBVIOUS
<1>1. /\ World.agent = Fresh /\ World.owners = <<>> /\ World.current = 0
      /\ DOMAIN World = {"agent", "owners", "current", "fate"}
  BY DEF Init, World
<1>2. IsAgent(Fresh) /\ Fresh.status = "idle"
  BY DEF Fresh, IsAgent, AgentFields
<1>3. IsOwners(<<>>) /\ Len(<<>>) = 0
  BY DEF IsOwners
<1> QED BY <1>1, <1>2, <1>3 DEF Good, IsWorld

\* The inductive invariant of the agent manager.
THEOREM Invariance ==
    Spec => []Good(World)
<1>1. Good(World) /\ [Next]_vars => Good(World)'
  <2> SUFFICES ASSUME Good(World), [Next]_vars PROVE Good(World)'
    OBVIOUS
  <2>1. CASE UNCHANGED vars
    BY <2>1, StepUnchanged DEF vars
  <2>2. CASE Commands
    <3>1. ASSUME HealthChanges PROVE Good(World)'
      BY <3>1, StepUnchanged DEF HealthChanges
    <3> QED BY <2>2, <3>1, StepWake, StepStop, StepRestart DEF Commands
  <2>3. CASE \E i \in DOMAIN owners : Session(i)
    <3> PICK i \in DOMAIN owners : Session(i)
      BY <2>3
    <3> QED BY StepFactoryOpens, StepFactoryFails, StepTurnStarts, StepTurnRefused,
               StepStartReceipt, StepSessionStarts, StepHandshakeTimeout,
               StepBoundaryOffer, StepNextQueued, StepTurnTakes, StepInputRefused,
               StepTurnBusy, StepCommandReturned, StepTurnCompletes,
               StepWorkAfterTerminal, StepCrash, StepFinishes, StepCloses
            DEF Session
  <2>4. CASE Tick
    BY <2>4, StepTickStalled, StepTickExpires, StepTickResetStuck,
       StepTickStoppingStuck, StepTickIdleStop DEF Tick
  <2> QED BY <2>1, <2>2, <2>3, <2>4 DEF Next
<1> QED BY <1>1, InitIsGood, PTL DEF Spec

\* A reset, nap, model switch, crash, stall or forced exit never starts a second
\* backend beside one that was not told to stop.
THEOREM OnlyOneLives ==
    Spec => []OneLiveSession
<1>1. Good(World) => OneLiveSession
  BY Fields DEF Good, Live, OneLiveSession
<1> QED BY <1>1, Invariance, PTL

\* The reducer's status agrees with activeSpawnState: an idle agent has no owner,
\* so that a wake may spawn, and a running one an attached session, so that a send
\* has a receiver.
THEOREM StatusFollowsOwner ==
    Spec => []StatusMatchesOwner
<1>1. Good(World) => StatusMatchesOwner
  BY Fields DEF Good, StatusMatchesOwner
<1> QED BY <1>1, Invariance, PTL

=============================================================================
